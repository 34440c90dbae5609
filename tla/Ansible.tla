------------------------------ MODULE Ansible ------------------------------
(***************************************************************************)
(* Automation (handler/ansible*.go, designer_ansible.go, service/ansible/, *)
(* service/tasks/ansible_*.go): the library of playbooks and roles, the    *)
(* platform key and the machines that have it, and runs: a task that       *)
(* gathers its machines, writes an inventory and drives a child process.   *)
(*                                                                         *)
(* The queue of tasks is TaskManager.tla.  What ansible does inside a      *)
(* machine, and what its syntax check accepts, are external: a text says   *)
(* whether it is sound.                                                    *)
(***************************************************************************)
EXTENDS Naturals, Sequences, FiniteSets

CONSTANTS
    Books,          \* playbook ids
    Roles,          \* shared roles, all of which come with the program
    Shipped,        \* id -> what comes with the program under it, for some ids: [place, text]
    Texts,          \* contents of playbooks
    Numbers,        \* answers that are integers
    Hosts,          \* machines
    Runs,           \* tasks
    Editors,        \* requests that write a playbook, at once
    Dealers,        \* distributions of the key at once
    AnsibleMixes    \* scenarios

ASSUME AnsibleAssumption == DOMAIN Shipped \subseteq Books
\* Machines are rows of the table, and the id of a new one was never another's.
ASSUME MachineAssumption == \A mix \in AnsibleMixes :
    /\ DOMAIN mix.box = Hosts /\ \A h \in Hosts : DOMAIN mix.box[h] = {"there", "up", "ready", "user", "cred"}
    /\ \A q \in mix.jobs : q.op = "born" => /\ q.host \in Hosts /\ ~mix.box[q.host].there
                                           /\ \A p \in mix.jobs : p.op = "born" /\ p.host = q.host => p = q

VARIABLES
    shelf,      \* playbook id -> <id>.yml; <id>/ with its site.yml and another .yml
    rack,       \* role -> its files
    editor,     \* requests between the check and the end of the write
    serving,    \* the process runs
    pair,       \* the key files: "none", "half", "made"
    loaded,     \* keyPrivate, keyPublicKey
    box,        \* machine: its row and its credential
    keyed,      \* machine -> accounts that have the platform's public key
    unsure,     \* accounts it was sent to without anybody knowing that it arrived
    team,       \* a host group: {} or {its members}
    dealer,     \* distributions at work
    run,        \* task -> what its executor is at; `over`: its row has ended
    procs,      \* task -> its processes
    folders,    \* run directories on disk
    strays,     \* runs the process died over, or whose directory it could not remove
    jobs,       \* requests and events that may still come
    faults      \* calls that may still fail

ansibleVars == <<shelf, rack, editor, serving, pair, loaded, box, keyed, unsure, team, dealer, run, procs, folders, strays, jobs, faults>>
library == <<shelf, rack, editor>>
keys == <<pair, loaded, keyed, unsure>>
machinesOf == <<box, team>>
running == <<run, procs, folders, strays>>

Fault == faults > 0 /\ faults' = faults - 1
Job(ops) == {q \in jobs : q.op \in ops /\ serving}
Takes(q) == jobs' = jobs \ {q}

----------------------------------------------------------------------------
(* The survey in a playbook's head: definitions and answers.                *)

Types == {"str", "int", "enum", "select", "secret", "text"}
Candidate(v, value) == \E c \in v.values : c.value = value

\* ValidateSurvey.
ValidSurvey(vars) ==
    /\ \A i, j \in DOMAIN vars : vars[i].name = vars[j].name => i = j
    /\ \A i \in DOMAIN vars : LET v == vars[i] IN
         /\ v.type \in Types /\ v.target \in {"vars", "env"}
         /\ v.type \in {"enum", "select"} <=> v.values # {}
         /\ v.type = "enum" => \A c \in v.values : c.name = c.value
         /\ v.default # "" => CASE v.type = "int" -> v.default \in Numbers
                                [] v.type \in {"enum", "select"} -> Candidate(v, v.default)
                                [] OTHER -> TRUE

\* ValidateAnswers: what is declared; an answer may be missing or blank unless it is required.
Given(answered, n) == IF n \in DOMAIN answered THEN answered[n] ELSE ""
Accepts(vars, answered) == \A i \in DOMAIN vars :
    LET v == vars[i]  value == Given(answered, v.name) IN
    IF value = "" THEN ~v.required
    ELSE CASE v.type = "int" -> value \in Numbers
           [] v.type \in {"enum", "select"} -> Candidate(v, value)
           [] OTHER -> TRUE

\* ParseSurvey: a definition that cannot be read is an error at submission, no definition in a run.
Declared(text) == IF text.broken THEN <<>> ELSE text.survey
\* SurveyByName: of two definitions the later.
LastNamed(vars, n) == {vars[i] : i \in {i \in DOMAIN vars : vars[i].name = n /\ \A j \in DOMAIN vars : vars[j].name = n => j <= i}}
OfType(vars, n, type) == \E v \in LastNamed(vars, n) : v.type = type

\* Mutant: as the definition says.
AsDeclared(v) == v.target

\* EffectiveTarget.
EffectiveTarget(v) == IF v.type = "secret" THEN "env" ELSE v.target

\* SyntaxCheck, SyntaxCheckContentInDir and validatePlaybookSurvey.
Savable(text) == text.sound /\ ~text.broken /\ ValidSurvey(text.survey)

----------------------------------------------------------------------------
(* The library.  A file is written in two steps: emptied, then filled.      *)

Empty == [name |-> "empty", sound |-> FALSE, broken |-> FALSE, survey |-> <<>>]
NoText == [Empty EXCEPT !.name = "none"]
Bare == [single |-> NoText, dir |-> FALSE, site |-> NoText, side |-> NoText]
NoEdit == [at |-> "none", id |-> "none", place |-> "none", text |-> NoText]

\* ResolvePlaybook: the file, the directory's site.yml, or its first other .yml.
Places == <<"single", "site", "side">>
PlaceOf(b) == LET found == {i \in DOMAIN Places : shelf[b][Places[i]] # NoText} IN
    IF found = {} THEN "none" ELSE Places[CHOOSE i \in found : \A j \in found : i <= j]
TextOf(b) == IF PlaceOf(b) = "none" THEN NoText ELSE shelf[b][PlaceOf(b)]

Edit(k, q, place) == editor' = [editor EXCEPT ![k] = [at |-> "open", id |-> q.id, place |-> place, text |-> q.text]]

\* CreatePlaybook, UpdatePlaybook up to the write.
OpenEditor(k) == \E q \in Job({"create", "update"}) :
    LET place == IF q.op = "update" THEN PlaceOf(q.id) ELSE "single"
        may == IF q.op = "update" THEN place # "none" ELSE shelf[q.id].single = NoText /\ ~shelf[q.id].dir
    IN
    /\ editor[k] = NoEdit /\ Takes(q)
    /\ IF may /\ Savable(q.text) THEN Edit(k, q, place) ELSE UNCHANGED editor
    /\ UNCHANGED <<shelf, rack, serving, keys, machinesOf, dealer, running, faults>>
\* ExportAnsible: a playbook made from a plan, over whatever is there.
ExportAnsible(k) == \E q \in Job({"export"}) :
    /\ editor[k] = NoEdit /\ Takes(q) /\ Edit(k, q, "single")
    /\ UNCHANGED <<shelf, rack, serving, keys, machinesOf, dealer, running, faults>>
\* Opening a file in a directory that has gone fails.
Truncate(k) ==
    LET e == editor[k]
        gone == e.place # "single" /\ ~shelf[e.id].dir
    IN
    /\ e.at = "open"
    /\ \/ /\ ~gone /\ shelf' = [shelf EXCEPT ![e.id][e.place] = Empty] /\ editor' = [editor EXCEPT ![k].at = "fill"]
          /\ UNCHANGED faults
       \/ gone /\ editor' = [editor EXCEPT ![k] = NoEdit] /\ UNCHANGED <<shelf, faults>>
       \/ Fault /\ editor' = [editor EXCEPT ![k] = NoEdit] /\ UNCHANGED shelf
    /\ UNCHANGED <<rack, serving, keys, machinesOf, dealer, running, jobs>>
\* What was removed meanwhile stays away.
Fill(k) ==
    LET e == editor[k] IN
    /\ e.at = "fill" /\ editor' = [editor EXCEPT ![k] = NoEdit]
    /\ \/ /\ shelf[e.id][e.place] # NoText /\ shelf' = [shelf EXCEPT ![e.id][e.place] = e.text] /\ UNCHANGED faults
       \/ shelf[e.id][e.place] = NoText /\ UNCHANGED <<shelf, faults>>
       \/ Fault /\ UNCHANGED shelf       \* the file stays empty
    /\ UNCHANGED <<rack, serving, keys, machinesOf, dealer, running, jobs>>
\* DeletePlaybook: the file if there is one, else the directory.
DeletePlaybook == \E q \in Job({"delete"}) :
    /\ Takes(q)
    /\ \/ /\ shelf' = [shelf EXCEPT ![q.id] = IF @.single # NoText THEN [@ EXCEPT !.single = NoText] ELSE Bare]
          /\ UNCHANGED faults
       \/ Fault /\ UNCHANGED shelf
    /\ UNCHANGED <<rack, editor, serving, keys, machinesOf, dealer, running>>
\* WritePlaybookFile, UploadPlaybookFile: the directory is made when it is missing, whatever is beside it; an unsound text is warned of.
PutFile == \E q \in Job({"put"}) :
    /\ Takes(q)
    /\ \/ shelf' = [shelf EXCEPT ![q.id].dir = TRUE, ![q.id][q.place] = q.text] /\ UNCHANGED faults
       \/ Fault /\ \E left \in {shelf[q.id][q.place], Empty, NoText} :       \* the disk; an upload that is too large is removed
            shelf' = [shelf EXCEPT ![q.id].dir = TRUE, ![q.id][q.place] = left]
    /\ UNCHANGED <<rack, editor, serving, keys, machinesOf, dealer, running>>
\* DeletePlaybookFile: never the directory itself.
DropFile == \E q \in Job({"drop"}) :
    /\ Takes(q) /\ shelf' = [shelf EXCEPT ![q.id][q.place] = NoText]
    /\ UNCHANGED <<rack, editor, serving, keys, machinesOf, dealer, running, faults>>

\* CreateRole, WriteRoleFile and UploadRoleFile, DeleteRoleFile, DeleteRole.
WholeRole == {"dir", "tasks", "rest"}
RoleOps == \E q \in Job({"role", "role file", "role drop", "no role"}) :
    /\ Takes(q)
    /\ \/ /\ rack' = [rack EXCEPT ![q.id] = CASE q.op = "role" -> IF @ = {} THEN WholeRole ELSE @
                                              [] q.op = "role file" -> @ \union {"dir", "tasks"}
                                              [] q.op = "role drop" -> @ \ {"tasks"}
                                              [] OTHER -> {}]
          /\ UNCHANGED faults
       \/ Fault /\ \E part \in SUBSET {"tasks", "rest"} :       \* the files of a new role are written in any order
            rack' = IF q.op = "role" /\ rack[q.id] = {} THEN [rack EXCEPT ![q.id] = {"dir"} \union part] ELSE rack
    /\ UNCHANGED <<shelf, editor, serving, keys, machinesOf, dealer, running>>

\* EnsureSeedPlaybooks: os.Stat(dst).
Ships(b) == b \in DOMAIN Shipped /\ IF Shipped[b].place = "single" THEN shelf[b].single = NoText ELSE ~shelf[b].dir

\* The process starts: what is missing is copied; a copy that is cut short counts as there.
AnsibleStarts ==
    /\ ~serving /\ serving' = TRUE
    /\ \E cut \in {"no", "books", "roles"} :
         /\ IF cut = "no" THEN UNCHANGED faults ELSE Fault
         /\ shelf' = [b \in Books |-> IF ~Ships(b) THEN shelf[b] ELSE
                [shelf[b] EXCEPT ![Shipped[b].place] = IF cut = "books" THEN Empty ELSE Shipped[b].text,
                                 !.dir = @ \/ Shipped[b].place # "single"]]
         /\ rack' = [r \in Roles |-> IF rack[r] # {} THEN rack[r] ELSE IF cut = "roles" THEN {"dir", "rest"} ELSE WholeRole]
    /\ UNCHANGED <<editor, keys, machinesOf, dealer, running, jobs>>

----------------------------------------------------------------------------
(* The platform key, and who has it.                                        *)

\* EnsureKeyPair: loaded once; private then public file; half a pair stays an error.
KeyHolds == loaded \/ pair # "half"
EnsureKeyPair ==
    IF KeyHolds THEN pair' = "made" /\ loaded' = TRUE ELSE UNCHANGED <<pair, loaded>>
KeyBreaks == ~loaded /\ pair = "none" /\ pair' = "half" /\ UNCHANGED loaded

NoDeal == [at |-> "none", todo |-> {}, host |-> "none", user |-> "none"]

\* DeployKey: machines not marked, and the credentials they have.
DeployKey(k) == \E q \in Job({"deploy"}) :
    /\ dealer[k] = NoDeal /\ Takes(q)
    /\ \/ /\ EnsureKeyPair
          /\ LET todo == {h \in Hosts : box[h].there /\ ~box[h].ready /\ (q.hosts # {} => h \in q.hosts) /\ box[h].cred # {}} IN
             dealer' = IF KeyHolds /\ todo # {}
                       THEN [dealer EXCEPT ![k] = [NoDeal EXCEPT !.at = "next", !.todo = {[host |-> h, cred |-> box[h].cred] : h \in todo}]]
                       ELSE dealer
          /\ UNCHANGED faults
       \/ Fault /\ KeyBreaks /\ UNCHANGED dealer
    /\ UNCHANGED <<library, serving, keyed, unsure, machinesOf, running>>

DueToMark(k, item, c) ==
    dealer' = [dealer EXCEPT ![k] = [@ EXCEPT !.at = "mark", !.todo = dealer[k].todo \ {item}, !.host = item.host, !.user = c.user]]

\* Mutant: the machine is marked although it was not reached.
MarksAnyway(k) == dealer[k].at = "next" /\ \E item \in dealer[k].todo : \E c \in item.cred :
    /\ DueToMark(k, item, c)
    /\ \/ keyed' = [keyed EXCEPT ![item.host] = @ \union {c.user}] /\ UNCHANGED faults
       \/ Fault /\ UNCHANGED keyed
    /\ UNCHANGED <<library, serving, pair, loaded, unsure, machinesOf, running, jobs>>

\* One machine: the key is appended to the account of its credential.  The command ends in
\* "; chmod": that the append failed is not seen.
Inject(k) == dealer[k].at = "next" /\ \E item \in dealer[k].todo : \E c \in item.cred :
    /\ \/ /\ DueToMark(k, item, c)
          /\ \/ keyed' = [keyed EXCEPT ![item.host] = @ \union {c.user}] /\ UNCHANGED <<unsure, faults>>
             \/ Fault /\ unsure' = unsure \union {[why |-> "append", host |-> item.host, user |-> c.user]} /\ UNCHANGED keyed
       \/ Fault /\ dealer' = [dealer EXCEPT ![k].todo = @ \ {item}] /\ UNCHANGED <<keyed, unsure>>
    /\ UNCHANGED <<library, serving, pair, loaded, machinesOf, running, jobs>>
\* ansible_ready and ansible_user; an update that fails is logged.
Mark(k) ==
    LET d == dealer[k] IN
    /\ d.at = "mark"
    /\ dealer' = [dealer EXCEPT ![k] = [NoDeal EXCEPT !.at = "next", !.todo = d.todo]]
    /\ \/ /\ box' = IF box[d.host].there THEN [box EXCEPT ![d.host].ready = TRUE, ![d.host].user = d.user] ELSE box
          /\ UNCHANGED faults
       \/ Fault /\ UNCHANGED box
    /\ UNCHANGED <<library, serving, keys, team, running, jobs>>
Dealt(k) ==
    /\ dealer[k].at = "next" /\ dealer[k].todo = {} /\ dealer' = [dealer EXCEPT ![k] = NoDeal]
    /\ UNCHANGED <<library, serving, keys, machinesOf, running, jobs, faults>>

\* create_vm: the row is written, with its mark when there is a key to put into the seed.
NewRow(q, ready) == box' = [box EXCEPT ![q.host] = [there |-> TRUE, up |-> FALSE, ready |-> ready, user |-> q.user, cred |-> {}]]
Born == \E q \in Job({"born"}) :
    /\ ~box[q.host].there /\ box[q.host].user = "none" /\ Takes(q)       \* ids are not used again
    /\ \/ /\ EnsureKeyPair /\ NewRow(q, KeyHolds) /\ UNCHANGED faults
          /\ unsure' = IF KeyHolds THEN unsure \union {[why |-> "seed", host |-> q.host, user |-> q.user]} ELSE unsure
       \/ Fault /\ KeyBreaks /\ NewRow(q, FALSE) /\ UNCHANGED unsure
    /\ UNCHANGED <<library, serving, keyed, team, dealer, running>>
\* Later the domain is defined and boots, and cloud-init puts the key there, or never does; or the row goes again.
FirstBoot == \E s \in unsure :
    /\ s.why = "seed" /\ box[s.host].there
    /\ \/ /\ keyed' = [keyed EXCEPT ![s.host] = @ \union {s.user}] /\ unsure' = unsure \ {s} /\ UNCHANGED faults
          /\ box' = [box EXCEPT ![s.host].up = TRUE]
       \/ Fault /\ box' = [box EXCEPT ![s.host] = [@ EXCEPT !.there = FALSE, !.cred = {}]] /\ UNCHANGED <<keyed, unsure>>
    /\ UNCHANGED <<library, serving, pair, loaded, team, dealer, running, jobs>>
\* Others: a machine stops, starts, goes; its credential is saved or removed; the group changes.
Outside == \E q \in Job({"power", "gone", "credential", "team"}) :
    /\ Takes(q)
    /\ box' = CASE q.op = "power" -> [box EXCEPT ![q.host].up = ~@]
                [] q.op = "gone" -> [box EXCEPT ![q.host] = [@ EXCEPT !.there = FALSE, !.cred = {}]]
                [] q.op = "credential" -> IF box[q.host].there THEN [box EXCEPT ![q.host].cred = q.cred] ELSE box
                [] OTHER -> box
    /\ team' = IF q.op = "team" THEN q.team ELSE team
    /\ UNCHANGED <<library, serving, keys, dealer, running, faults>>

----------------------------------------------------------------------------
(* A run: execAnsibleRun.                                                   *)

NoRun == [at |-> "none", targets |-> {}, grouped |-> FALSE, book |-> "none", answered |-> <<>>, sealed |-> {}, asked |-> {},
          rows |-> <<>>, ways |-> <<>>, file |-> {}, env |-> {}, hidden |-> {}, cut |-> FALSE, over |-> FALSE, result |-> "none"]
At(r, place) == run[r].at = place /\ serving
Moves(r, place) == run' = [run EXCEPT ![r].at = place]
\* The executor returns, with that the row ends if it has not; the answers and ways are no longer needed.
Stops(r, result) == run' = [run EXCEPT ![r] = [NoRun EXCEPT !.at = "ended", !.over = TRUE, !.result = result]]
\* The deferred removal; `failed` calls failed before it.
Clears(r, failed) ==
    \/ faults >= failed /\ faults' = faults - failed /\ folders' = folders \ {r} /\ UNCHANGED strays
    \/ faults > failed /\ faults' = faults - failed - 1 /\ strays' = strays \union {r} /\ folders' = folders \union {r}       \* logged

\* Run, the handler: the machines and the group are there, the answers fit; secret answers are sealed.
SubmitRun(r) == \E q \in Job({"run"}) :
    LET text == TextOf(q.book)
        vars == Declared(text)
        secret == {n \in DOMAIN q.answered : OfType(vars, n, "secret")}
        may == /\ \A h \in q.targets : box[h].there
               /\ q.grouped => team # {}
               /\ q.book # "none" => (PlaceOf(q.book) # "none" /\ ~text.broken /\ Accepts(vars, q.answered))
    IN
    /\ run[r] = NoRun /\ Takes(q)
    /\ run' = IF ~may THEN run ELSE
        [run EXCEPT ![r] = [NoRun EXCEPT !.at = "queued", !.targets = q.targets, !.grouped = q.grouped, !.book = q.book,
                                         !.answered = q.answered, !.sealed = secret, !.hidden = secret]]
    /\ UNCHANGED <<library, serving, keys, machinesOf, dealer, procs, folders, strays, faults>>

\* resolveHostGroupVMIDs, mergeUniqueUint: the group is read again.
Asked(r) == run[r].targets \union (IF run[r].grouped THEN UNION team ELSE {})
\* Every machine must be there, run and have an address.
Gather(r) ==
    LET asked == Asked(r)
        fit == asked # {} /\ (run[r].grouped => team # {}) /\ \A h \in asked : box[h].there /\ box[h].up
    IN
    /\ At(r, "queued")
    /\ \/ fit /\ run' = [run EXCEPT ![r].at = "gathered", ![r].asked = asked,
                                    ![r].rows = [h \in asked |-> [ready |-> box[h].ready, user |-> box[h].user]]] /\ UNCHANGED faults
       \/ ~fit /\ Stops(r, "failed") /\ UNCHANGED faults
       \/ Fault /\ Stops(r, "failed")
    /\ UNCHANGED <<library, serving, keys, machinesOf, dealer, procs, folders, strays, jobs>>

\* credByVM: the credentials of the machines without the key, none of which may be missing.
Entry(way, user, port) == [way |-> way, user |-> user, port |-> port]
WayOf(row, cred) == IF row.ready THEN {Entry("key", row.user, "22")} ELSE {Entry("password", c.user, c.port) : c \in cred}

\* Mutant: who has no credential is left out.
OnlyWithWay(r) == [h \in {h \in run[r].asked : WayOf(run[r].rows[h], box[h].cred) # {}} |-> WayOf(run[r].rows[h], box[h].cred)]

Ways(r) == [h \in run[r].asked |-> WayOf(run[r].rows[h], box[h].cred)]

Channel(r) ==
    /\ At(r, "gathered")
    /\ \/ /\ \A h \in DOMAIN Ways(r) : Ways(r)[h] # {}
          /\ run' = [run EXCEPT ![r].at = "channel", ![r].ways = Ways(r)] /\ UNCHANGED faults
       \/ (\E h \in DOMAIN Ways(r) : Ways(r)[h] = {}) /\ Stops(r, "failed") /\ UNCHANGED faults
       \/ Fault /\ Stops(r, "failed")       \* the rows, or no master key
    /\ UNCHANGED <<library, serving, keys, machinesOf, dealer, procs, folders, strays, jobs>>

\* The directory, then the inventory; a machine with the key has no password to fall back on.
Prepare(r) ==
    LET byKey == \E h \in run[r].asked : run[r].rows[h].ready IN
    /\ At(r, "channel")
    /\ \/ /\ IF byKey THEN EnsureKeyPair ELSE UNCHANGED <<pair, loaded>>
          /\ \/ (byKey => KeyHolds) /\ Moves(r, "inventory") /\ folders' = folders \union {r} /\ UNCHANGED <<faults, strays>>
             \/ byKey /\ ~KeyHolds /\ Stops(r, "failed") /\ Clears(r, 0)
             \/ Stops(r, "failed") /\ Clears(r, 1)       \* decryption, no engine, a name that cannot be written
       \/ byKey /\ KeyBreaks /\ Stops(r, "failed") /\ Clears(r, 1)
       \/ Fault /\ Stops(r, "failed") /\ UNCHANGED <<pair, loaded, folders, strays>>       \* no directory
    /\ UNCHANGED <<library, serving, keyed, unsure, machinesOf, dealer, procs, jobs>>

\* WriteExtraVarsFile: an integer that was left blank is no number.
Writable(vars, answered, names) == \A n \in names : OfType(vars, n, "int") => answered[n] \in Numbers
\* What was sealed goes into the environment.
ToEnv(q, vars) == q.sealed \union {n \in DOMAIN q.answered : \E v \in LastNamed(vars, n) : EffectiveTarget(v) = "env"}
ToFile(q, vars) == DOMAIN q.answered \ ToEnv(q, vars)
\* ApplySurveyAnswers reads the definitions again; a file that cannot be read has none.
Read(q) == Declared(IF q.book = "none" THEN NoText ELSE TextOf(q.book))
SurveyFits(q, vars) ==
    /\ q.book # "none" => PlaceOf(q.book) # "none"
    /\ Accepts(vars, q.answered) /\ Writable(vars, q.answered, ToFile(q, vars))
\* Run, the engine: one child process.
Starts(r) == procs' = [procs EXCEPT ![r] = {"ansible"}]
\* Nothing starts for a task that was cancelled before.
Launch(r) == \E vars \in {Read(run[r]), <<>>} :
    LET q == run[r]
        unread == IF vars = Read(q) THEN 0 ELSE 1
    IN
    /\ At(r, "inventory") /\ faults >= unread
    /\ \/ /\ SurveyFits(q, vars) /\ ~q.cut /\ Starts(r) /\ faults' = faults - unread
          /\ run' = [run EXCEPT ![r].at = "running", ![r].file = ToFile(q, vars), ![r].env = ToEnv(q, vars),
                                ![r].hidden = @ \union {n \in DOMAIN q.answered : OfType(vars, n, "secret")}]
          /\ UNCHANGED <<folders, strays>>
       \/ (q.cut \/ ~SurveyFits(q, vars)) /\ Stops(r, "failed") /\ Clears(r, unread) /\ UNCHANGED procs
       \/ Stops(r, "failed") /\ Clears(r, unread + 1) /\ UNCHANGED procs
    /\ UNCHANGED <<library, serving, keys, machinesOf, dealer, jobs>>

\* The child has children; some hold its output ("fork"), some do not ("apart").  It ends after the first, or is killed before them.
Holders == {"ansible", "fork"}
Forks(r) == \E p \in {"fork", "apart"} :
    /\ "ansible" \in procs[r] /\ p \notin procs[r] /\ procs' = [procs EXCEPT ![r] = @ \union {p}]
    /\ UNCHANGED <<library, serving, keys, machinesOf, dealer, run, folders, strays, jobs, faults>>
ProcessEnds(r) == \E p \in procs[r] :
    /\ p = "ansible" => "fork" \notin procs[r]
    /\ procs' = [procs EXCEPT ![r] = @ \ {p}]
    /\ UNCHANGED <<library, serving, keys, machinesOf, dealer, run, folders, strays, jobs, faults>>
Working == {"gathered", "channel", "inventory", "running"}
\* The manager's timer ends the row and leaves the executor to itself.
GivesUp(r) ==
    /\ serving /\ run[r].at \in Working /\ ~run[r].over /\ run' = [run EXCEPT ![r].over = TRUE]
    /\ UNCHANGED <<library, serving, keys, machinesOf, dealer, procs, folders, strays, jobs, faults>>
\* Cancel ends the row and then the context; the engine's own time ends the context only.
Cut(r) ==
    /\ serving /\ ~run[r].cut
    /\ \/ run[r].at \in Working /\ ~run[r].over /\ run' = [run EXCEPT ![r].cut = TRUE, ![r].over = TRUE]
       \/ run[r].at = "running" /\ run' = [run EXCEPT ![r].cut = TRUE]
    /\ UNCHANGED <<library, serving, keys, machinesOf, dealer, procs, folders, strays, jobs, faults>>
\* exec.CommandContext: the child, none of its children.
KillRun(r) ==
    /\ At(r, "running") /\ run[r].cut /\ "ansible" \in procs[r]
    /\ procs' = [procs EXCEPT ![r] = @ \ {"ansible"}]
    /\ UNCHANGED <<library, serving, keys, machinesOf, dealer, run, folders, strays, jobs, faults>>

\* Mutant: the executor of a run that was cut returns at once.
OutputEndsOrCut(r) == procs[r] \intersect Holders = {} \/ run[r].cut

\* scanInto, wg.Wait: both pipes are read until nobody holds them; then the child is waited for.
OutputEnds(r) == procs[r] \intersect Holders = {}

\* Wait: everything went well, some machines failed, it was cut, or it ended otherwise.
RunEnds(r) ==
    /\ At(r, "running") /\ OutputEnds(r)
    /\ \E result \in IF run[r].cut THEN {"partly", "cut"} ELSE {"well", "partly", "odd"} : Stops(r, result)
    /\ Clears(r, 0)
    /\ UNCHANGED <<library, serving, keys, machinesOf, dealer, procs, jobs>>

\* The process dies: what it had at work is forgotten (the next start ends the rows), processes and files stay.
AnsibleStops == \E q \in Job({"crash"}) :
    /\ Takes(q) /\ serving' = FALSE /\ loaded' = FALSE
    /\ editor' = [k \in Editors |-> NoEdit] /\ dealer' = [k \in Dealers |-> NoDeal]
    /\ run' = [r \in Runs |-> IF run[r].at \in {"none", "queued", "ended"} THEN run[r] ELSE [NoRun EXCEPT !.at = "ended", !.over = TRUE, !.result = "lost"]]
    /\ strays' = strays \union {r \in Runs : run[r].at \notin {"none", "queued", "ended"}}
    /\ UNCHANGED <<shelf, rack, pair, keyed, unsure, machinesOf, procs, folders, faults>>

AnsibleInit == \E mix \in AnsibleMixes :
    /\ shelf = mix.shelf /\ rack = [r \in Roles |-> {}] /\ editor = [k \in Editors |-> NoEdit]
    /\ serving = FALSE /\ pair = "none" /\ loaded = FALSE
    /\ box = mix.box /\ keyed = [h \in Hosts |-> IF mix.box[h].ready THEN {mix.box[h].user} ELSE {}] /\ unsure = {} /\ team = mix.team
    /\ dealer = [k \in Dealers |-> NoDeal] /\ run = [r \in Runs |-> NoRun] /\ procs = [r \in Runs |-> {}]
    /\ folders = {} /\ strays = {} /\ jobs = mix.jobs /\ faults = mix.faults
AnsibleNext ==
    \/ DeletePlaybook \/ PutFile \/ DropFile \/ RoleOps \/ AnsibleStarts \/ Born \/ FirstBoot \/ Outside \/ AnsibleStops
    \/ \E k \in Editors : OpenEditor(k) \/ ExportAnsible(k) \/ Truncate(k) \/ Fill(k)
    \/ \E k \in Dealers : DeployKey(k) \/ Inject(k) \/ Mark(k) \/ Dealt(k)
    \/ \E r \in Runs :
         \/ SubmitRun(r) \/ Gather(r) \/ Channel(r) \/ Prepare(r) \/ Launch(r)
         \/ Forks(r) \/ ProcessEnds(r) \/ GivesUp(r) \/ Cut(r) \/ KillRun(r) \/ RunEnds(r)

----------------------------------------------------------------------------
AnsibleSpec == AnsibleInit /\ [][AnsibleNext]_ansibleVars

----------------------------------------------------------------------------
(* Properties.                                                              *)

\* A run reaches all the machines it was asked for or none: it never begins
\* with some of them, although rows, group and credentials change while it
\* prepares (ansible_tasks.go, "fail-closed").
AllOrNone == \A r \in Runs : run[r].at \in {"inventory", "running"} =>
    /\ DOMAIN run[r].ways = run[r].asked /\ run[r].targets \subseteq run[r].asked
    /\ \A h \in run[r].asked : run[r].ways[h] # {}

\* A machine marked ready has the platform's key, in the account its row names,
\* or it was sent there and nobody knows that it arrived: the append failed
\* behind the chmod, or cloud-init is still to run.  Distributions that overlap,
\* fail to reach a machine or meet another credential leave no other mark
\* (ansible_key.go, DeployKey; vm_create.go, execCreateVM).
SentTo(h, u) == u \in keyed[h] \/ \E s \in unsure : s.host = h /\ s.user = u
KeyedWhereReady == \A h \in Hosts : box[h].ready => SentTo(h, box[h].user)

\* When the executor of a run has returned, whether the row ended then or long
\* before, by the timer or a cancel, no process that holds the run's output is
\* left and its directory, where passwords are, is gone; only a run the process
\* died over, or whose removal failed, leaves them (ansible.go, Run;
\* execAnsibleRun, defer).  Nothing is said of children without the output.
NothingOutlives == \A r \in Runs : (run[r].at \in {"none", "queued", "ended"} /\ r \notin strays) =>
    procs[r] \intersect Holders = {} /\ r \notin folders

\* An answer that was a secret when the run was submitted, or is one in the
\* survey as the run reads it, is in the environment only, although the
\* definition may change between the two, or be read as none
\* (survey_apply.go, ApplySurveyAnswers).
SecretsApart == \A r \in Runs : run[r].file \cap run[r].hidden = {} /\ run[r].file \cap run[r].env = {}

=============================================================================
