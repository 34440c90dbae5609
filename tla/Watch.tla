-------------------------------- MODULE Watch --------------------------------
(***************************************************************************)
(* Settings that can be written while the program runs, and alerts with    *)
(* the people who are told of them (service/setting/setting.go,            *)
(* handler/settings.go, handler/alert_webhook.go, handler/notification.go, *)
(* service/notify/notify.go, main.go).                                     *)
(*                                                                         *)
(* A setting is a row and a copy in memory that is read in its place.  An  *)
(* alert is one row per fingerprint, overwritten by every delivery; when   *)
(* it fires, a message is pushed and notes are left for the administrators *)
(* and for those who hold a grant on its machine.                          *)
(***************************************************************************)
EXTENDS Integers, Sequences, FiniteSets

CONSTANTS
    Keys,           \* settings; "url" is where messages are pushed
    Legal,          \* key -> the values it may have; "empty" turns the pushing off
    Prints,         \* fingerprints of alerts
    People,         \* users
    Clerks,         \* requests served at once
    Lasting,        \* users who stay administrators
    WatchMixes      \* scenarios

ASSUME WatchAssumption == "url" \in DOMAIN Legal /\ Keys = DOMAIN Legal /\ Lasting \subseteq People /\ IsFiniteSet(Clerks)

\* What requests bring: settings or alerts, one or more.
AllItems == UNION {UNION {{q.items[i] : i \in DOMAIN q.items} : q \in mix.mail} : mix \in WatchMixes}

\* A setting and an alert have a row or none, and those who stay administrators are never missing.
ASSUME MailAssumption == \A mix \in WatchMixes :
    /\ DOMAIN mix.saved = Keys /\ DOMAIN mix.alerts = Prints
    /\ \A x \in Prints : \A r \in mix.alerts[x] : DOMAIN r = {"status", "aged"}
    /\ Lasting \subseteq mix.admins
    /\ \A q \in mix.mail :
        /\ q.op \in {"settings", "deliver"} => q.items \in Seq(AllItems) \ {<<>>}
        /\ q.op = "staff" => Lasting \subseteq q.admins

VARIABLES
    saved,      \* system_settings: key -> value, "none" without a row
    cached,     \* Manager.cache
    alerts,     \* alerts: fingerprint -> its row, {} without one
    notes,      \* notifications
    admins,     \* users whose role is admin
    holders,    \* users with a grant on the machine of the alerts: "valid" or "expired"
    pushed,     \* messages sent: fingerprint -> number
    sending,    \* goroutines that push a message
    clerk,      \* requests at work
    mail,       \* requests that may still come
    trouble,    \* calls that may still fail
    rises,      \* times a row turned to firing (not in the code)
    born,       \* times a row was created firing (not in the code)
    missed,     \* times nobody could be told of it (not in the code)
    mixed       \* keys and fingerprints two were at work on at once (not in the code)

watchVars == <<saved, cached, alerts, notes, admins, holders, pushed, sending, clerk, mail, trouble, rises, born, missed, mixed>>
settingsRows == <<saved, cached>>
alertRows == <<alerts, notes, pushed, sending, rises, born, missed>>
directory == <<admins, holders>>

NoWork == [at |-> "none", items |-> <<>>, old |-> {}, to |-> {}]
Item(k) == Head(clerk[k].items)
Touches(k, x) == clerk[k].at # "none" /\ \E i \in DOMAIN clerk[k].items : clerk[k].items[i].of = x
Trouble == trouble > 0 /\ trouble' = trouble - 1
StepTo(k, place) == clerk' = [clerk EXCEPT ![k].at = place]
\* The next item of the request, or its end.
Onward(k, place) == clerk' = [clerk EXCEPT ![k] =
    IF Len(@.items) = 1 THEN NoWork ELSE [NoWork EXCEPT !.at = place, !.items = Tail(clerk[k].items)]]

Arrives(op, place) == \E k \in Clerks, q \in mail :
    /\ q.op = op /\ clerk[k].at = "none"
    /\ mail' = mail \ {q}
    /\ clerk' = [clerk EXCEPT ![k] = [NoWork EXCEPT !.at = place, !.items = q.items]]
    /\ mixed' = mixed \union {x \in {q.items[i].of : i \in DOMAIN q.items} : \E other \in Clerks : Touches(other, x)}

----------------------------------------------------------------------------
(* Settings: every key of a request by itself, row first.                   *)

UpdateSettings == Arrives("settings", "save") /\ UNCHANGED <<settingsRows, alertRows, directory, trouble>>

Validate(item) == item.value \in Legal[item.of]

\* Mutant: the copy is refreshed first.
SaveCachedFirst(k) ==
    /\ clerk[k].at = "save"
    /\ cached' = IF Validate(Item(k)) THEN [cached EXCEPT ![Item(k).of] = Item(k).value] ELSE cached
    /\ \/ Validate(Item(k)) /\ saved' = [saved EXCEPT ![Item(k).of] = Item(k).value] /\ StepTo(k, "cache") /\ UNCHANGED trouble
       \/ ~Validate(Item(k)) /\ clerk' = [clerk EXCEPT ![k] = NoWork] /\ UNCHANGED <<saved, trouble>>
       \/ Validate(Item(k)) /\ Trouble /\ clerk' = [clerk EXCEPT ![k] = NoWork] /\ UNCHANGED saved
    /\ UNCHANGED <<alertRows, directory, mail, mixed>>

\* A value that is refused, or a write that fails, ends the request; what came before it stays.
SaveRow(k) ==
    /\ clerk[k].at = "save"
    /\ \/ Validate(Item(k)) /\ saved' = [saved EXCEPT ![Item(k).of] = Item(k).value] /\ StepTo(k, "cache") /\ UNCHANGED trouble
       \/ ~Validate(Item(k)) /\ clerk' = [clerk EXCEPT ![k] = NoWork] /\ UNCHANGED <<saved, trouble>>
       \/ Validate(Item(k)) /\ Trouble /\ clerk' = [clerk EXCEPT ![k] = NoWork] /\ UNCHANGED saved
    /\ UNCHANGED <<cached, alertRows, directory, mail, mixed>>
Refresh(k) ==
    /\ clerk[k].at = "cache"
    /\ cached' = [cached EXCEPT ![Item(k).of] = Item(k).value]
    /\ Onward(k, "save")
    /\ UNCHANGED <<saved, alertRows, directory, mail, trouble, mixed>>

----------------------------------------------------------------------------
(* Alerts: every alert of a delivery by itself.                             *)

Deliver == Arrives("deliver", "read") /\ UNCHANGED <<settingsRows, alertRows, directory, trouble>>

ReadAlert(k) ==
    /\ clerk[k].at = "read"
    /\ \/ clerk' = [clerk EXCEPT ![k].at = "write", ![k].old = alerts[Item(k).of]] /\ UNCHANGED trouble
       \/ Trouble /\ Onward(k, "read")
    /\ UNCHANGED <<settingsRows, alertRows, directory, mail, mixed>>

Firing(rows) == \E r \in rows : r.status = "firing"

\* Mutant: whatever fires is told.
TurnsFiringAgain(row, status) == status = "firing"

\* alertTransitionedToFiring, by the row in memory, {} when there was none.
TurnsFiring(row, status) == status = "firing" /\ ~Firing(row)

\* A second insert of a fingerprint fails; an update of a row that has gone since does nothing.
\* Updates puts the new values into the row that was read too, so that the row the
\* transition is judged by has the new status.
WriteAlert(k) ==
    LET of == Item(k).of
        status == Item(k).status
        existing == {[status |-> status, aged |-> r.aged] : r \in clerk[k].old}
        new == IF existing = {} THEN {[status |-> status, aged |-> FALSE]}
               ELSE {[r EXCEPT !.status = status] : r \in alerts[of]}
    IN
    /\ clerk[k].at = "write"
    /\ \/ /\ existing = {} => alerts[of] = {}
          /\ alerts' = [alerts EXCEPT ![of] = new]
          /\ rises' = IF Firing(new) /\ ~Firing(alerts[of]) THEN [rises EXCEPT ![of] = @ + 1] ELSE rises
          /\ born' = IF existing = {} /\ Firing(new) THEN [born EXCEPT ![of] = @ + 1] ELSE born
          /\ IF TurnsFiring(existing, status) THEN StepTo(k, "push") ELSE Onward(k, "read")
          /\ UNCHANGED trouble
       \/ /\ existing = {} /\ alerts[of] # {} /\ Onward(k, "read")
          /\ UNCHANGED <<alerts, rises, born, trouble>>
       \/ Trouble /\ Onward(k, "read") /\ UNCHANGED <<alerts, rises, born>>
    /\ UNCHANGED <<settingsRows, notes, pushed, sending, missed, directory, mail, mixed>>

\* The address is read from memory, the message sent by a goroutine of its own.
Push(k) ==
    /\ clerk[k].at = "push"
    /\ sending' = IF cached["url"] \in {"none", "empty"} THEN sending ELSE [sending EXCEPT ![Item(k).of] = @ + 1]
    /\ StepTo(k, "admins")
    /\ UNCHANGED <<settingsRows, alerts, notes, pushed, rises, born, missed, directory, mail, trouble, mixed>>
Send(x) ==
    /\ sending[x] > 0 /\ sending' = [sending EXCEPT ![x] = @ - 1]
    /\ \/ pushed' = [pushed EXCEPT ![x] = @ + 1] /\ UNCHANGED trouble
       \/ Trouble /\ UNCHANGED pushed
    /\ UNCHANGED <<settingsRows, alerts, notes, rises, born, missed, directory, clerk, mail, mixed>>

\* fanOutNotifications: without the administrators nobody is told, without the
\* grants the administrators are; all notes are one statement.
ReadAdmins(k) ==
    /\ clerk[k].at = "admins"
    /\ \/ clerk' = [clerk EXCEPT ![k].at = "grants", ![k].to = admins] /\ UNCHANGED <<trouble, missed>>
       \/ Trouble /\ Onward(k, "read") /\ missed' = [missed EXCEPT ![Item(k).of] = @ + 1]
    /\ UNCHANGED <<settingsRows, alerts, notes, pushed, sending, rises, born, directory, mail, mixed>>
ReadGrants(k) ==
    /\ clerk[k].at = "grants"
    /\ \/ /\ clerk' = [clerk EXCEPT ![k].at = "insert",
                          ![k].to = @ \union (IF Item(k).vm THEN {u \in People : holders[u] = "valid"} ELSE {})]
          /\ UNCHANGED trouble
       \/ Item(k).vm /\ Trouble /\ StepTo(k, "insert")
    /\ UNCHANGED <<settingsRows, alertRows, directory, mail, mixed>>
Insert(k) ==
    LET of == Item(k).of IN
    /\ clerk[k].at = "insert"
    /\ \/ /\ notes' = notes \union {[user |-> u, of |-> of, no |-> Cardinality({n \in notes : n.user = u /\ n.of = of}), read |-> FALSE] : u \in clerk[k].to}
          /\ UNCHANGED <<trouble, missed>>
       \/ Trouble /\ missed' = [missed EXCEPT ![of] = @ + 1] /\ UNCHANGED notes
    /\ Onward(k, "read")
    /\ UNCHANGED <<settingsRows, alerts, pushed, sending, rises, born, directory, mail, mixed>>

----------------------------------------------------------------------------
(* Notes are read by their owner; everything is kept for thirty days.       *)

MarkRead == \E q \in mail, n \in notes :
    /\ q.op = "seen" /\ mail' = mail \ {q} /\ n.user = q.by
    /\ notes' = (notes \ {n}) \union {[n EXCEPT !.read = TRUE]}
    /\ UNCHANGED <<settingsRows, alerts, pushed, sending, rises, born, missed, directory, clerk, trouble, mixed>>
MarkAllRead == \E q \in mail :
    /\ q.op = "all seen" /\ mail' = mail \ {q}
    /\ notes' = {IF n.user = q.by THEN [n EXCEPT !.read = TRUE] ELSE n : n \in notes}
    /\ UNCHANGED <<settingsRows, alerts, pushed, sending, rises, born, missed, directory, clerk, trouble, mixed>>

\* The age of an alert is that of its row, whether it fires or not.
Ages == \E q \in mail, x \in Prints :
    /\ q.op = "age" /\ mail' = mail \ {q} /\ alerts[x] # {}
    /\ alerts' = [alerts EXCEPT ![x] = {[r EXCEPT !.aged = TRUE] : r \in @}]
    /\ UNCHANGED <<settingsRows, notes, pushed, sending, rises, born, missed, directory, clerk, trouble, mixed>>
Retain == \E x \in Prints :
    /\ \E r \in alerts[x] : r.aged
    /\ alerts' = [alerts EXCEPT ![x] = {}]
    /\ mixed' = mixed \union (IF \E k \in Clerks : Touches(k, x) THEN {x} ELSE {})
    /\ UNCHANGED <<settingsRows, notes, pushed, sending, rises, born, missed, directory, clerk, mail, trouble>>

\* Roles and grants change elsewhere.
Staff == \E q \in mail :
    /\ q.op = "staff" /\ mail' = mail \ {q}
    /\ admins' = q.admins /\ holders' = [u \in People |-> IF u \in q.held THEN "valid" ELSE "expired"]
    /\ UNCHANGED <<settingsRows, alertRows, clerk, trouble, mixed>>

\* NewManager reads the rows; without them every default is in force.
WatchRestarts == \E q \in mail :
    /\ q.op = "kill" /\ mail' = mail \ {q}
    /\ \/ cached' = saved /\ UNCHANGED <<trouble, mixed>>
       \/ Trouble /\ cached' = [x \in Keys |-> "none"] /\ mixed' = mixed \union Keys
    /\ missed' = [x \in Prints |-> missed[x] + Cardinality({k \in Clerks : clerk[k].at \in {"push", "admins", "grants", "insert"} /\ Item(k).of = x})]
    /\ clerk' = [k \in Clerks |-> NoWork] /\ sending' = [x \in Prints |-> 0]
    /\ UNCHANGED <<saved, alerts, notes, pushed, rises, born, directory>>

WatchInit == \E mix \in WatchMixes :
    /\ saved = mix.saved /\ cached = saved
    /\ alerts = mix.alerts /\ notes = {} /\ admins = mix.admins
    /\ holders = [u \in People |-> IF u \in mix.held THEN "valid" ELSE "expired"]
    /\ pushed = [x \in Prints |-> 0] /\ sending = pushed /\ rises = pushed /\ born = pushed /\ missed = pushed
    /\ clerk = [k \in Clerks |-> NoWork] /\ mail = mix.mail /\ trouble = mix.trouble /\ mixed = {}
WatchNext ==
    \/ UpdateSettings \/ Deliver \/ MarkRead \/ MarkAllRead \/ Ages \/ Retain \/ Staff \/ WatchRestarts
    \/ \E k \in Clerks : SaveRow(k) \/ Refresh(k) \/ ReadAlert(k) \/ WriteAlert(k) \/ Push(k) \/ ReadAdmins(k) \/ ReadGrants(k) \/ Insert(k)
    \/ \E x \in Prints : Send(x)
WatchSpec == WatchInit /\ [][WatchNext]_watchVars

----------------------------------------------------------------------------
(* Properties.                                                              *)

\* What is in force is what is saved, whatever failed: for every setting no two
\* requests wrote at once, when none of them is between row and memory
\* (setting.go, Set; settings.go, UpdateSettings).
InForceIsSaved == \A x \in Keys \ mixed :
    (\A k \in Clerks : clerk[k].at = "cache" => Item(k).of # x) => cached[x] = saved[x]

\* A user who is an administrator all the time has one note for each time a row of the
\* alert was created firing, whatever deliveries overlap, repeat or resolve it and
\* whatever retention removes, no less but for the times that telling failed; and
\* no more messages are pushed (alert_webhook.go, upsert, fanOutNotifications).
ToldOfEachFirst == \A x \in Prints, u \in Lasting :
    (\A k \in Clerks : ~Touches(k, x)) =>
        /\ Cardinality({n \in notes : n.of = x /\ n.user = u}) = born[x] - missed[x]
        /\ pushed[x] + sending[x] <= born[x]

\* What alert_webhook.go says, "the comparison of the row read before the update with the
\* status delivered is whether it turns to firing", "or when a row that was there turns
\* from not firing to firing": for every alert whose deliveries and retention came one
\* after another, such a user has one note for each time its row turned to firing, but
\* for the times that telling failed.  It is violated.
ToldOfEachRise == \A x \in Prints \ mixed, u \in Lasting :
    (\A k \in Clerks : ~Touches(k, x)) =>
        Cardinality({n \in notes : n.of = x /\ n.user = u}) >= rises[x] - missed[x]
=============================================================================
