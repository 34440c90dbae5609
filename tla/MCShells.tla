------------------------------ MODULE MCShells ------------------------------
(***************************************************************************)
(* Scenarios for Shells.tla: two machines and two addresses that change    *)
(* hands below file operations, installations and first connections.       *)
(***************************************************************************)
EXTENDS Shells, TLC
Ask(op, n) == [op |-> op, no |-> n, vm |-> "va", host |-> "none", saved |-> FALSE]
TwoGuests == [rows |-> [v \in Guests |-> [there |-> TRUE, ip |-> IF v = "va" THEN "a1" ELSE "a2"]],
  inside |-> [v \in Guests |-> [key |-> <<v, 1>>, file |-> "old", app |-> "no"]],
  answers |-> [a \in Addresses |-> IF a = "a1" THEN "va" ELSE "vb"], creds |-> [v \in Guests |-> {}], wants |-> {}, hiccups |-> 0]
WithSecret == [TwoGuests EXCEPT !.creds["va"] = {[id |-> 1, secret |-> "first"]}, !.hiccups = 1]
OverFiles == [WithSecret EXCEPT !.wants = {[Ask("upload", 1) EXCEPT !.saved = TRUE], Ask("download", 2),
    [Ask("move", 3) EXCEPT !.host = "a1", !.vm = "vb"], Ask("rebuild", 4), [Ask("drop key", 5) EXCEPT !.host = "a1"]}]
Installs == [WithSecret EXCEPT !.wants = {[Ask("install", 1) EXCEPT !.saved = TRUE], Ask("install", 2),
    [Ask("move", 3) EXCEPT !.host = "a1", !.vm = "vb"], [Ask("move", 4) EXCEPT !.host = "a2", !.vm = "va"],
    Ask("sync", 5)}]
NewKeys == [TwoGuests EXCEPT !.rows["va"].ip = "none", !.hiccups = 1, !.wants = {Ask("credential", 1),
    Ask("credential", 2), [Ask("install", 3) EXCEPT !.saved = TRUE], [Ask("install", 6) EXCEPT !.host = "a1"],
    Ask("forget", 4), Ask("sync", 5)}]
Vanishing == [WithSecret EXCEPT !.wants = {[Ask("install", 1) EXCEPT !.saved = TRUE],
    [Ask("install", 2) EXCEPT !.host = "a1"], Ask("remove", 3), [Ask("move", 4) EXCEPT !.host = "a1", !.vm = "vb"],
    Ask("rebuild", 5), [Ask("delete", 6) EXCEPT !.host = "a2"]}]
AllShells == {TwoGuests, OverFiles, Installs, NewKeys, Vanishing}

=============================================================================
