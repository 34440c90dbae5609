------------------------------- MODULE Stacks -------------------------------
(***************************************************************************)
(* One compose stack (handler/stacks.go, service/tasks/stack_*.go and      *)
(* service/dockerx): the deployed copy of its compose file, what docker    *)
(* runs, the lock of the stack, and the history of versions.               *)
(*                                                                         *)
(* A request deploys the repository's template, saves an edited copy,      *)
(* upgrades, rolls back, or starts and stops the project.  The last step   *)
(* of Upgrade and Rollback is a task; that a task is executed by one       *)
(* worker is TaskManager's.  A file access, a database statement, a try of *)
(* the lock and the end of a docker command are one step each.  The lock   *)
(* is held by the docker commands only: nothing else in a request is       *)
(* protected by it.                                                        *)
(***************************************************************************)
EXTENDS Naturals, FiniteSets

CONSTANTS
  Requests,  \* bound: the requests of a behaviour
  Template,  \* the content of the repository's file
  Edits,     \* contents that users save
  KeepN,     \* stackVersionKeepN
  Mixes,     \* scenarios
  None

Torn == "torn"  \* a file that was emptied and not written
Texts == Edits \cup {Template, Torn}
Kinds == {"deploy", "edit", "upgrade", "rollback", "act"}

(* A mix: the kinds of request, how many requests there are, whether they  *)
(* overlap, the content of the copy at the start (the template is running  *)
(* when there is one), and how many statements and commands may fail.      *)
ASSUME MixAssumption == Mixes \subseteq
  [kinds : SUBSET Kinds, requests : Nat, overlap : BOOLEAN, copy : Edits \cup {Template, None}, faults : Nat]
ASSUME KeepAssumption == KeepN \in Nat \ {0}
ASSUME TornAssumption == Torn \notin Edits \cup {Template}
ASSUME NoneAssumption == None \notin Texts \cup Requests \cup Kinds

VARIABLES
  mix,      \* the scenario, chosen at the start
  copy,     \* data/stacks/<id>/docker-compose.yml
  running,  \* what the last compose up that worked had read
  lock,     \* the request that holds the stack's lock
  versions, \* the rows of stack_versions: id, number, content
  nextId,   \* the id the database gives next
  pc,       \* where each request is
  req,      \* its kind; the content it wants (edit, rollback) and the id of its version (rollback)
  rec,      \* RecordStackVersion: the content, the newest number read, the ids to keep
  stage,    \* whether it records before or after its command
  loaded,   \* what its compose up has read
  faults    \* failures left

store == <<copy, versions, nextId>>
local == <<req, rec, stage, loaded>>
vars  == <<mix, store, running, lock, pc, local, faults>>

Commands == {"pulling", "upping", "acting"}
Holding  == Commands \cup {"probed"}
Steps    == {"idle", "old", "record", "insert", "trim", "prune", "write", "probe", "save",
             "target", "current", "pull", "up", "act", "done"} \cup Holding

TypeOK ==
  /\ mix \in Mixes
  /\ copy \in Texts \cup {None} /\ running \in Texts \cup {None}
  /\ versions \subseteq [id : 1 .. nextId - 1, num : Nat, text : Texts]
  /\ nextId \in Nat \ {0}
  /\ pc \in [Requests -> Steps]
  /\ req \in [Requests -> [kind : Kinds \cup {None}, text : Texts \cup {None}, row : 0 .. nextId - 1]]
  /\ rec \in [Requests -> [text : Texts \cup {None}, base : Nat, keep : SUBSET (1 .. nextId - 1)]]
  /\ stage \in [Requests -> {"before", "after"}]
  /\ loaded \in [Requests -> Texts \cup {None}]
  /\ lock \in Requests \cup {None}
  /\ faults \in Nat

NoRecord == [text |-> None, base |-> 0, keep |-> {}]

Init ==
  /\ mix \in Mixes /\ faults = mix.faults
  /\ copy = mix.copy
  /\ running = IF copy = None THEN None ELSE Template
  /\ versions = {[id |-> 1, num |-> 1, text |-> Template] : t \in {copy} \ {None}}
  /\ nextId = Cardinality(versions) + 1
  /\ lock = None
  /\ pc = [r \in Requests |-> "idle"]
  /\ req = [r \in Requests |-> [kind |-> None, text |-> None, row |-> 0]]
  /\ rec = [r \in Requests |-> NoRecord]
  /\ stage = [r \in Requests |-> "before"]
  /\ loaded = [r \in Requests |-> None]

Goto(r, step) == pc' = [pc EXCEPT ![r] = step]

Fault == faults > 0 /\ faults' = faults - 1

Settled == \A r \in Requests : pc[r] \in {"idle", "done"}

-----------------------------------------------------------------------------
(* The history.                                                            *)

Newer(u, v) == u.num > v.num \/ (u.num = v.num /\ u.id > v.id)

Newest(rows) == CHOOSE v \in rows : \A u \in rows \ {v} : Newer(v, u)

Top(rows) == {v \in rows : Cardinality({u \in rows : Newer(u, v)}) < KeepN}

\* Where a request goes on when RecordStackVersion returns
Recorded(r) == IF stage[r] = "before" THEN "write" ELSE "done"

\* Mutant: the rollback goes on without a snapshot
UnrecordedWrites(r) == Recorded(r)

\* ... and when it returns an error: only a rollback takes its first snapshot seriously
Unrecorded(r) == IF req[r].kind = "rollback" THEN "done" ELSE Recorded(r)

\* The newest version has this content already
Known(text) == versions # {} /\ Newest(versions).text = text

RecordRead(r) ==
  /\ pc[r] = "record"
  /\ \/ /\ Known(rec[r].text) /\ Goto(r, Recorded(r)) /\ UNCHANGED faults
        /\ rec' = [rec EXCEPT ![r] = NoRecord]
     \/ /\ ~Known(rec[r].text) /\ Goto(r, "insert") /\ UNCHANGED faults
        /\ rec' = [rec EXCEPT ![r].base = IF versions = {} THEN 0 ELSE Newest(versions).num]
     \/ Fault /\ Goto(r, Unrecorded(r)) /\ rec' = [rec EXCEPT ![r] = NoRecord]
  /\ UNCHANGED <<mix, store, running, lock, req, stage, loaded>>

RecordInsert(r) ==
  /\ pc[r] = "insert"
  /\ \/ /\ Goto(r, "trim") /\ UNCHANGED faults
        /\ versions' = versions \cup
             {[id |-> nextId, num |-> rec[r].base + 1, text |-> rec[r].text]}
        /\ nextId' = nextId + 1
     \/ Fault /\ Goto(r, Unrecorded(r)) /\ UNCHANGED <<versions, nextId>>
  /\ rec' = [rec EXCEPT ![r] = NoRecord]
  /\ UNCHANGED <<mix, copy, running, lock, req, stage, loaded>>

(* trimStackVersions: the ids to keep, then the deletion of all others; a  *)
(* failure of either is logged.                                            *)
TrimRead(r) ==
  /\ pc[r] = "trim"
  /\ \/ /\ Goto(r, IF versions = {} THEN Recorded(r) ELSE "prune") /\ UNCHANGED faults
        /\ rec' = [rec EXCEPT ![r].keep = {v.id : v \in Top(versions)}]
     \/ Fault /\ Goto(r, Recorded(r)) /\ UNCHANGED rec
  /\ UNCHANGED <<mix, store, running, lock, req, stage, loaded>>

Prune(r) ==
  /\ pc[r] = "prune" /\ Goto(r, Recorded(r))
  /\ \/ versions' = {v \in versions : v.id \in rec[r].keep} /\ UNCHANGED faults
     \/ Fault /\ UNCHANGED versions
  /\ rec' = [rec EXCEPT ![r] = NoRecord]
  /\ UNCHANGED <<mix, copy, nextId, running, lock, req, stage, loaded>>

Record(r) == RecordRead(r) \/ RecordInsert(r) \/ TrimRead(r) \/ Prune(r)

-----------------------------------------------------------------------------
(* The requests up to their commands.                                      *)

\* What a request can ask for; upgrade and rollback need a deployed copy
Asked ==
  {[kind |-> k, text |-> None, row |-> 0] : k \in {"deploy", "act"}}
  \cup {[kind |-> "edit", text |-> t, row |-> 0] : t \in Edits}
  \cup (IF copy = None THEN {} ELSE
          {[kind |-> "upgrade", text |-> None, row |-> 0]}
          \cup {[kind |-> "rollback", text |-> v.text, row |-> v.id] : v \in versions})

Arrive(r) ==
  /\ pc[r] = "idle" /\ (mix.overlap \/ Settled)
  /\ Cardinality({s \in Requests : pc[s] # "idle"}) < mix.requests
  /\ \E q \in Asked :
       /\ q.kind \in mix.kinds
       /\ req' = [req EXCEPT ![r] = q]
       /\ Goto(r, CASE q.kind = "deploy" -> "old" [] q.kind = "act" -> "act" [] OTHER -> "probe")
  /\ UNCHANGED <<mix, store, running, lock, rec, stage, loaded, faults>>

(* Deploy: the old copy, if there is one, is recorded before it is         *)
(* overwritten.                                                            *)
ReadOld(r) ==
  /\ pc[r] = "old"
  /\ IF copy = None THEN Goto(r, "write") /\ UNCHANGED rec
     ELSE Goto(r, "record") /\ rec' = [rec EXCEPT ![r].text = copy]
  /\ UNCHANGED <<mix, store, running, lock, req, stage, loaded, faults>>

(* IsStackBusy takes the lock to look at it, and gives it back.            *)
Probe(r) ==
  /\ pc[r] = "probe"
  /\ IF lock = None THEN Goto(r, "probed") /\ lock' = r
                    ELSE Goto(r, "done") /\ UNCHANGED lock
  /\ UNCHANGED <<mix, store, running, local, faults>>

Probed(r) ==
  /\ pc[r] = "probed" /\ lock' = None
  /\ Goto(r, CASE req[r].kind = "edit" -> "save" [] req[r].kind = "upgrade" -> "pull"
               [] OTHER -> "target")
  /\ UNCHANGED <<mix, store, running, local, faults>>

\* File: the content is saved, unless compose config refuses it
Save(r) ==
  /\ pc[r] = "save" /\ Goto(r, "done")
  /\ \/ copy' \in {req[r].text, copy} /\ UNCHANGED faults
     \/ Fault /\ copy' = Torn
  /\ UNCHANGED <<mix, versions, nextId, running, lock, local>>

(* execStackRollback: the version again, which may be gone; a snapshot of  *)
(* the copy; the version's content.                                        *)
Target(r) ==
  /\ pc[r] = "target"
  /\ \/ /\ Goto(r, IF req[r].row \in {v.id : v \in versions} THEN "current" ELSE "done")
        /\ UNCHANGED faults
     \/ Fault /\ Goto(r, "done")
  /\ UNCHANGED <<mix, store, running, lock, local>>

\* snapshotCurrentVersion reads the copy
Current(r) ==
  /\ pc[r] = "current"
  /\ \/ Goto(r, "record") /\ rec' = [rec EXCEPT ![r].text = copy] /\ UNCHANGED faults
     \/ Fault /\ Goto(r, Unrecorded(r)) /\ UNCHANGED rec
  /\ UNCHANGED <<mix, store, running, lock, req, stage, loaded>>

\* A rollback does not write what compose config refuses
Write(r) ==
  /\ pc[r] = "write"
  /\ LET rollback == req[r].kind = "rollback"
         text == IF rollback THEN req[r].text ELSE Template
     IN
     \/ /\ text # Torn /\ copy' = text
        /\ Goto(r, IF rollback THEN "pull" ELSE "up") /\ UNCHANGED faults
     \/ text = Torn /\ Goto(r, "done") /\ UNCHANGED <<copy, faults>>
     \/ Fault /\ Goto(r, "done") /\ copy' \in {copy, Torn}
  /\ UNCHANGED <<mix, versions, nextId, running, lock, local>>

-----------------------------------------------------------------------------
(* The docker commands, each under the stack's lock.                       *)

\* Mutant: the lock is taken without looking
SeizeLock(r) == lock' = r

\* tryStackLock: fails at once when the lock is held
TryLock(r) == lock = None /\ lock' = r

\* ComposePull, ComposeUpFromFile, ComposeAction; pull and up read the copy as they start
Try(r) ==
  /\ pc[r] \in {"pull", "up", "act"}
  /\ \/ /\ TryLock(r)
        /\ Goto(r, CASE pc[r] = "pull" -> "pulling" [] pc[r] = "up" -> "upping"
                     [] pc[r] = "act" -> "acting")
        /\ loaded' = [loaded EXCEPT ![r] = IF pc[r] = "act" THEN @ ELSE copy]
     \/ lock # None /\ Goto(r, "done") /\ UNCHANGED <<lock, loaded>>
  /\ UNCHANGED <<mix, store, running, req, rec, stage, faults>>

\* A command that fails ends its request; up may have changed what runs by then
Fails(r) ==
  /\ pc[r] \in Commands /\ loaded[r] # Torn /\ Fault
  /\ Goto(r, "done") /\ lock' = None
  /\ running' \in {running} \cup (IF pc[r] = "upping" THEN {loaded[r]} ELSE {})
  /\ loaded' = [loaded EXCEPT ![r] = None]
  /\ UNCHANGED <<mix, store, req, rec, stage>>

\* compose does nothing with a file that holds nothing
FileRefused(r) ==
  /\ pc[r] \in {"pulling", "upping"} /\ loaded[r] = Torn
  /\ Goto(r, "done") /\ lock' = None
  /\ loaded' = [loaded EXCEPT ![r] = None]
  /\ UNCHANGED <<mix, store, running, req, rec, stage, faults>>

PullEnds(r) ==
  /\ pc[r] = "pulling" /\ loaded[r] # Torn
  /\ Goto(r, "up") /\ lock' = None
  /\ loaded' = [loaded EXCEPT ![r] = None]
  /\ UNCHANGED <<mix, store, running, req, rec, stage, faults>>

(* Deploy records what it wrote, upgrade and rollback what the copy holds  *)
(* by then.                                                                *)
UpEnds(r) ==
  /\ pc[r] = "upping" /\ loaded[r] # Torn
  /\ lock' = None /\ running' = loaded[r]
  /\ stage' = [stage EXCEPT ![r] = "after"]
  /\ loaded' = [loaded EXCEPT ![r] = None]
  /\ IF req[r].kind = "deploy"
     THEN Goto(r, "record") /\ rec' = [rec EXCEPT ![r].text = Template]
     ELSE Goto(r, "current") /\ UNCHANGED rec
  /\ UNCHANGED <<mix, store, req, faults>>

\* down takes the project away; start, stop and restart leave its content, and so does
\* up: it reads the compose file of the process's own directory, not the copy
ActEnds(r) ==
  /\ pc[r] = "acting" /\ Goto(r, "done") /\ lock' = None
  /\ running' \in {running, None}
  /\ UNCHANGED <<mix, store, local, faults>>

Next == \E r \in Requests :
  \/ Arrive(r) \/ ReadOld(r) \/ Probe(r) \/ Probed(r) \/ Save(r)
  \/ Target(r) \/ Current(r) \/ Write(r) \/ Record(r)
  \/ Try(r) \/ Fails(r) \/ FileRefused(r) \/ PullEnds(r) \/ UpEnds(r) \/ ActEnds(r)

Spec == Init /\ [][Next]_vars

-----------------------------------------------------------------------------
(* Properties.                                                             *)

(* Commands on one stack never run at the same time, whichever of the      *)
(* entries they come through, and the lock is given back on every path:    *)
(* its holder is at a command or looks at it (stacklock.go).               *)
OneCommand ==
  /\ \A r, s \in Requests : pc[r] \in Commands /\ pc[s] \in Commands => r = s
  /\ lock # None => pc[lock] \in Holding

(* However many recorders meet, the history settles at KeepN versions or   *)
(* fewer, as long as no statement fails (trimStackVersions).               *)
HistoryBounded == Settled /\ faults = mix.faults => Cardinality(versions) <= KeepN

(* A content that a rollback or a deployment overwrites is in the history, *)
(* so that one can go back to it: for a rollback also when statements      *)
(* fail (execStackRollback, step 1; Deploy).  Requests come one by one.    *)
Recoverable ==
  [][\A r \in Requests :
       /\ ~mix.overlap /\ pc[r] = "write" /\ copy' # copy /\ copy # None
       /\ req[r].kind = "rollback" \/ faults = mix.faults
       => copy \in {v.text : v \in versions}]_vars

(* When requests come one by one and nothing fails, the newest version is  *)
(* what runs: edits that were not deployed, rollbacks and repeated         *)
(* deployments of the same content included.                               *)
RecordsWhatRuns ==
  Settled /\ ~mix.overlap /\ faults = mix.faults /\ running # None =>
    versions # {} /\ Newest(versions).text = running

(* The history: bounded, true of what runs, and enough to go back.         *)
HistoryHolds == Recoverable /\ [](HistoryBounded /\ RecordsWhatRuns)
=============================================================================
