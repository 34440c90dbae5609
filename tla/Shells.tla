------------------------------- MODULE Shells -------------------------------
(***************************************************************************)
(* Commands inside machines over SSH (service/vmssh/, handler/vm_files.go, *)
(* vm_credentials.go, apps.go, vm_ip_sync.go, ssh_host_keys.go,            *)
(* service/tasks/app_tasks.go): the stored credential of a machine, the    *)
(* address it is registered under, the host key that was first seen there, *)
(* file operations at once and installations by a task.                    *)
(*                                                                         *)
(* Machines, their addresses and their keys change behind the platform's   *)
(* back.                                                                   *)
(***************************************************************************)
EXTENDS Integers, FiniteSets

CONSTANTS
    Guests,         \* machines
    Addresses,      \* private addresses
    Visits,         \* requests and tasks at once
    MaxIds,         \* bound: credentials made
    ShellMixes      \* scenarios

ASSUME ShellAssumption == MaxIds \in Nat

\* Machines, addresses and requests are in range, and a host key belongs to one machine.
ASSUME VisitAssumption == \A mix \in ShellMixes :
    /\ DOMAIN mix.rows = Guests
    /\ \A v \in Guests : DOMAIN mix.rows[v] = {"there", "ip"} /\ mix.rows[v].ip \in Addresses \union {"none"}
    /\ DOMAIN mix.inside = Guests
    /\ \A v \in Guests : DOMAIN mix.inside[v] = {"key", "file", "app"} /\ mix.inside[v].key[1] = v
    /\ DOMAIN mix.answers = Addresses
    /\ \A a \in Addresses : mix.answers[a] \in Guests \union {"none"}
    /\ \A q \in mix.wants : q.vm \in Guests /\ q.host \in Addresses \union {"none"}

VARIABLES
    guestRow,   \* vms: whether the row is there, and vms.ip
    inside,     \* the machine: its host key, a file, an application
    answers,    \* address -> the machine that has it, "none"
    creds,      \* vm_credentials: machine -> {} or its credential
    lastCred,   \* the last id
    known,      \* host_keys: address -> {} or the recorded key
    visit,      \* requests and tasks at work
    wants,      \* requests and events that may still come
    hiccups,    \* calls that may still fail
    met         \* address -> keys accepted since its record was last removed (not in the code)

shellVars == <<guestRow, inside, answers, creds, lastCred, known, visit, wants, hiccups, met>>
credentials == <<creds, lastCred>>
hostKeys == <<known, met>>

NoVisit == [at |-> "none", op |-> "none", vm |-> "none", host |-> "none", saved |-> FALSE, cred |-> {}, on |-> "none", key |-> {}, forgot |-> FALSE,
            round |-> 1, ips |-> {}, first |-> "none", leases |-> [a \in Addresses |-> "none"], todo |-> {}]
Hiccup == hiccups > 0 /\ hiccups' = hiccups - 1
GoTo(j, place) == visit' = [visit EXCEPT ![j].at = place]
Ends(j) == visit' = [visit EXCEPT ![j] = NoVisit]
Wanted(ops, j) == {q \in wants : q.op \in ops /\ visit[j].at = "none"}

\* ValidateTarget: the registered address, or any private one while none is registered.
ValidTarget(ip, host) == ip \in {"none", host}

----------------------------------------------------------------------------
(* The credential of a machine: read, then written.                         *)

\* Save and upsertVMCredential.
SaveCredential(j) == \E q \in Wanted({"credential"}, j) :
    /\ guestRow[q.vm].there /\ wants' = wants \ {q}
    /\ visit' = [visit EXCEPT ![j] = [NoVisit EXCEPT !.at = "store", !.vm = q.vm, !.cred = creds[q.vm]]]
    /\ UNCHANGED <<guestRow, inside, answers, credentials, hostKeys, hiccups>>
\* A second one for a machine is refused; a row that has gone stays gone.
StoreCredential(j) ==
    LET v == visit[j].vm IN
    /\ visit[j].at = "store" /\ Ends(j)
    /\ \/ /\ visit[j].cred = {} /\ creds[v] = {} /\ lastCred < MaxIds
          /\ creds' = [creds EXCEPT ![v] = {[id |-> lastCred + 1, secret |-> "first"]}] /\ lastCred' = lastCred + 1 /\ UNCHANGED hiccups
       \/ visit[j].cred # {} /\ creds' = [creds EXCEPT ![v] = {[c EXCEPT !.secret = "later"] : c \in @}] /\ UNCHANGED <<lastCred, hiccups>>
       \/ visit[j].cred = {} /\ creds[v] # {} /\ UNCHANGED <<credentials, hiccups>>
       \/ Hiccup /\ UNCHANGED credentials
    /\ UNCHANGED <<guestRow, inside, answers, hostKeys, wants>>
DeleteCredential == \E q \in wants :
    /\ q.op = "forget" /\ wants' = wants \ {q} /\ creds' = [creds EXCEPT ![q.vm] = {}]
    /\ UNCHANGED <<guestRow, inside, answers, lastCred, hostKeys, visit, hiccups>>

----------------------------------------------------------------------------
(* A request: row, credential, target.  An installation becomes a task that *)
(* reads the credential and the row again.                                  *)

FileOps == {"list", "download", "upload", "delete", "mkdir"}

\* resolve, Install: the request names the address, or the registered one is taken.
Resolve(j) == \E q \in Wanted(FileOps \union {"install"}, j) :
    /\ guestRow[q.vm].there /\ wants' = wants \ {q}
    /\ LET ip == guestRow[q.vm].ip
           host == IF q.host = "none" THEN ip ELSE q.host
       IN visit' = IF host = "none" \/ ~ValidTarget(ip, host) THEN visit
                   ELSE [visit EXCEPT ![j] = [NoVisit EXCEPT !.at = "credential", !.op = q.op, !.vm = q.vm, !.host = host,
                                                             !.saved = q.saved, !.ips = {ip}]]
    /\ UNCHANGED <<guestRow, inside, answers, credentials, hostKeys, hiccups>>
\* ResolveFor, CredentialRefFor; without use_saved the request brings its own.
TakeCredential(j) ==
    LET q == visit[j] IN
    /\ q.at = "credential"
    /\ \/ /\ q.saved => creds[q.vm] # {}
          /\ visit' = [visit EXCEPT ![j].at = IF q.op = "install" THEN "queued" ELSE "dial", ![j].cred = IF q.saved THEN creds[q.vm] ELSE {}]
          /\ UNCHANGED hiccups
       \/ q.saved /\ creds[q.vm] = {} /\ Ends(j) /\ UNCHANGED hiccups
       \/ Hiccup /\ Ends(j)
    /\ UNCHANGED <<guestRow, inside, answers, credentials, hostKeys, wants>>
\* execAppInstall, resolveSSHCredential: by id, and of this machine.
TaskStarts(j) ==
    LET q == visit[j]
        mine == {c \in creds[q.vm] : \E old \in q.cred : old.id = c.id}
    IN
    /\ q.at = "queued"
    /\ \/ /\ q.saved => mine # {}
          /\ visit' = [visit EXCEPT ![j].at = "target", ![j].cred = mine, ![j].ips = {IF guestRow[q.vm].there THEN guestRow[q.vm].ip ELSE "none"}]
          /\ UNCHANGED hiccups
       \/ q.saved /\ mine = {} /\ Ends(j) /\ UNCHANGED hiccups
       \/ Hiccup /\ Ends(j)
    /\ UNCHANGED <<guestRow, inside, answers, credentials, hostKeys, wants>>

\* Mutant: the target was checked when the task was submitted.
RecheckNothing(j) == guestRow[visit[j].vm].there

\* taskRecordedIP, NewOptions: a machine that has gone, or cannot be read, has no address.
TargetHolds(j) == guestRow[visit[j].vm].there => ValidTarget(guestRow[visit[j].vm].ip, visit[j].host)

CheckTarget(j) ==
    /\ visit[j].at = "target"
    /\ \/ TargetHolds(j) /\ GoTo(j, "dial") /\ UNCHANGED hiccups
       \/ ~TargetHolds(j) /\ Ends(j) /\ UNCHANGED hiccups
       \/ Hiccup /\ visit' = [visit EXCEPT ![j].at = "dial", ![j].ips = {"none"}]
    /\ UNCHANGED <<guestRow, inside, answers, credentials, hostKeys, wants>>

----------------------------------------------------------------------------
(* Dial: whoever has the address answers; its key is compared with the one  *)
(* recorded there, or recorded.                                             *)

\* Mutant: any key will do where one is recorded.
FitsAnyway(kept, key) == kept # {}

\* tofuCallback: rec.Fingerprint and fp.
Fits(kept, key) == key \in kept

Connect(j) ==
    LET m == answers[visit[j].host]
        key == inside[m].key
        kept == known[visit[j].host]
    IN
    /\ visit[j].at = "dial"
    /\ \/ Ends(j) /\ UNCHANGED <<hiccups, met>>         \* no answer, no record, or the password is not its
       \/ /\ m # "none" /\ Fits(kept, key)
          /\ visit' = [visit EXCEPT ![j].at = "run", ![j].on = m]
          /\ met' = [met EXCEPT ![visit[j].host] = @ \union {key}] /\ UNCHANGED hiccups
       \/ /\ m # "none" /\ kept = {}
          /\ visit' = [visit EXCEPT ![j].at = "trust", ![j].on = m, ![j].key = {key}] /\ UNCHANGED <<hiccups, met>>
    /\ UNCHANGED <<guestRow, inside, answers, credentials, known, wants>>

\* Mutant: a record that cannot be written does not matter.
TrustAnyway(j) ==
    LET a == visit[j].host IN
    /\ visit[j].at = "trust" /\ GoTo(j, "run")
    /\ known' = IF known[a] = {} THEN [known EXCEPT ![a] = visit[j].key] ELSE known
    /\ met' = [met EXCEPT ![a] = @ \union visit[j].key]
    /\ UNCHANGED <<guestRow, inside, answers, credentials, wants, hiccups>>

\* Save: the index on the address refuses the second of two first connections.
Trust(j) ==
    LET a == visit[j].host IN
    /\ visit[j].at = "trust"
    /\ \/ /\ known[a] = {} /\ known' = [known EXCEPT ![a] = visit[j].key]
          /\ met' = [met EXCEPT ![a] = @ \union visit[j].key] /\ GoTo(j, "run") /\ UNCHANGED hiccups
       \/ known[a] # {} /\ Ends(j) /\ UNCHANGED <<hostKeys, hiccups>>
       \/ Hiccup /\ Ends(j) /\ UNCHANGED hostKeys
    /\ UNCHANGED <<guestRow, inside, answers, credentials, wants>>

----------------------------------------------------------------------------
(* What runs: a file operation in one connection, a download and an         *)
(* installation in two.                                                     *)

NextRound(j) == visit' = [visit EXCEPT ![j].at = "dial", ![j].round = 2, ![j].first = visit[j].on]

RunFiles(j) ==
    LET q == visit[j]
        done == CASE q.op = "upload" -> {"new"} [] q.op = "delete" -> {"gone"} [] OTHER -> {inside[q.on].file}
    IN
    /\ q.at = "run" /\ q.op \in FileOps
    /\ \/ \E f \in done : inside' = [inside EXCEPT ![q.on].file = f] /\ UNCHANGED hiccups
       \/ Hiccup /\ inside' = [inside EXCEPT ![q.on].file = IF q.op = "upload" THEN "cut" ELSE @]
    /\ IF q.op = "download" /\ q.round = 1 THEN NextRound(j) ELSE Ends(j)
    /\ UNCHANGED <<guestRow, answers, credentials, hostKeys, wants>>
\* A failed connection is not an application that is missing.
Detect(j) ==
    LET q == visit[j] IN
    /\ q.at = "run" /\ q.op = "install" /\ q.round = 1
    /\ \/ inside[q.on].app # "yes" /\ NextRound(j) /\ UNCHANGED hiccups
       \/ inside[q.on].app # "no" /\ Ends(j) /\ UNCHANGED hiccups
       \/ Hiccup /\ Ends(j)
    /\ UNCHANGED <<guestRow, inside, answers, credentials, hostKeys, wants>>
InstallApp(j) ==
    LET q == visit[j] IN
    /\ q.at = "run" /\ q.op = "install" /\ q.round = 2 /\ Ends(j)
    /\ \/ inside' = [inside EXCEPT ![q.on].app = "yes"] /\ UNCHANGED hiccups
       \/ Hiccup /\ inside' = [inside EXCEPT ![q.on].app = "part"]
    /\ UNCHANGED <<guestRow, answers, credentials, hostKeys, wants>>

----------------------------------------------------------------------------
(* syncVMIPs: leases and rows are read, then the rows written one by one.   *)

SyncIPs(j) == \E q \in Wanted({"sync"}, j) :
    /\ wants' = wants \ {q}
    /\ visit' = [visit EXCEPT ![j] = [NoVisit EXCEPT !.at = "sync", !.leases = answers,
            !.todo = {[vm |-> v, ip |-> guestRow[v].ip] : v \in {v \in Guests : guestRow[v].there}}]]
    /\ UNCHANGED <<guestRow, inside, answers, credentials, hostKeys, hiccups>>
\* Two leases of one machine: either.  Without a lease the guest agent of a machine without address is asked.
SyncOne(j) == \E item \in visit[j].todo :
    LET v == item.vm
        leased == {a \in Addresses : visit[j].leases[a] = v}
        told == {a \in Addresses : answers[a] = v}
        mine == IF leased # {} THEN leased ELSE IF item.ip = "none" THEN told ELSE {}
        left == visit[j].todo \ {item}
    IN
    /\ visit[j].at = "sync"
    /\ \/ \E a \in mine :
            /\ guestRow' = IF guestRow[v].there THEN [guestRow EXCEPT ![v].ip = a] ELSE guestRow
            /\ visit' = [k \in Visits |-> IF k = j THEN [visit[k] EXCEPT !.todo = left]
                                          ELSE IF visit[k].vm = v THEN [visit[k] EXCEPT !.ips = @ \union {a}] ELSE visit[k]]
            /\ UNCHANGED hiccups
       \/ mine = {} /\ visit' = [visit EXCEPT ![j].todo = left] /\ UNCHANGED <<guestRow, hiccups>>
       \/ Hiccup /\ visit' = [visit EXCEPT ![j].todo = left] /\ UNCHANGED guestRow
    /\ UNCHANGED <<inside, answers, credentials, hostKeys, wants>>
SyncEnds(j) ==
    /\ visit[j].at = "sync" /\ visit[j].todo = {} /\ Ends(j)
    /\ UNCHANGED <<guestRow, inside, answers, credentials, hostKeys, wants, hiccups>>

----------------------------------------------------------------------------
(* What others do.                                                          *)

\* An administrator removes the record of an address.
DeleteHostKey == \E q \in wants :
    /\ q.op = "drop key" /\ wants' = wants \ {q}
    /\ known' = [known EXCEPT ![q.host] = {}] /\ met' = [met EXCEPT ![q.host] = {}]
    /\ visit' = [j \in Visits |-> IF visit[j].host = q.host THEN [visit[j] EXCEPT !.forgot = TRUE] ELSE visit[j]]
    /\ UNCHANGED <<guestRow, inside, answers, credentials, hiccups>>
\* The address goes to another machine.
LeaseMoves == \E q \in wants :
    /\ q.op = "move" /\ wants' = wants \ {q} /\ answers' = [answers EXCEPT ![q.host] = q.vm]
    /\ UNCHANGED <<guestRow, inside, credentials, hostKeys, visit, hiccups>>
Rebuilt == \E q \in wants :
    /\ q.op = "rebuild" /\ wants' = wants \ {q}
    /\ inside' = [inside EXCEPT ![q.vm] = [key |-> <<q.vm, @.key[2] + 1>>, file |-> "old", app |-> "no"]]
    /\ UNCHANGED <<guestRow, answers, credentials, hostKeys, visit, hiccups>>
\* delete_vm: the row, and the credential with it.
GuestDeleted == \E q \in wants :
    /\ q.op = "remove" /\ wants' = wants \ {q}
    /\ guestRow' = [guestRow EXCEPT ![q.vm].there = FALSE] /\ creds' = [creds EXCEPT ![q.vm] = {}]
    /\ answers' = [a \in Addresses |-> IF answers[a] = q.vm THEN "none" ELSE answers[a]]
    /\ visit' = [k \in Visits |-> IF visit[k].vm = q.vm THEN [visit[k] EXCEPT !.ips = @ \union {"none"}] ELSE visit[k]]
    /\ UNCHANGED <<inside, lastCred, hostKeys, hiccups>>

ShellInit == \E mix \in ShellMixes :
    /\ guestRow = mix.rows /\ inside = mix.inside /\ answers = mix.answers
    /\ creds = mix.creds /\ lastCred = 1 /\ known = [a \in Addresses |-> {}]
    /\ visit = [j \in Visits |-> NoVisit] /\ wants = mix.wants /\ hiccups = mix.hiccups
    /\ met = [a \in Addresses |-> {}]
ShellNext ==
    \/ DeleteCredential \/ DeleteHostKey \/ LeaseMoves \/ Rebuilt \/ GuestDeleted
    \/ \E j \in Visits :
         \/ SaveCredential(j) \/ StoreCredential(j) \/ Resolve(j) \/ TakeCredential(j) \/ TaskStarts(j) \/ CheckTarget(j)
         \/ Connect(j) \/ Trust(j) \/ RunFiles(j) \/ Detect(j) \/ InstallApp(j) \/ SyncIPs(j) \/ SyncOne(j) \/ SyncEnds(j)
ShellSpec == ShellInit /\ [][ShellNext]_shellVars

----------------------------------------------------------------------------
(* Properties.                                                              *)

\* From one removal of its record to the next, an address is talked to under one
\* key, however many first connections meet and whoever has the address
\* meanwhile (hostkey.go, tofuCallback, Save).
OneKey == \A a \in Addresses : met[a] \subseteq known[a]

\* What is installed is installed where it was found missing: both connections
\* reach one machine although the address may move in between, unless the
\* record of the address is removed (app_tasks.go, execAppInstall).
SameMachine == \A j \in Visits :
    (visit[j].at = "run" /\ visit[j].round = 2 /\ ~visit[j].forgot) => visit[j].on = visit[j].first

\* A task connects only to an address its machine was registered under since
\* the task started, or to a private one when it had none: what was checked when
\* it was submitted counts no longer (app_tasks.go, taskRecordedIP).
Registered == \A j \in Visits : (visit[j].op = "install" /\ visit[j].at \in {"dial", "trust", "run"}) =>
    visit[j].ips \cap {visit[j].host, "none"} # {}
=============================================================================
