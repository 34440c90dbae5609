------------------------------ MODULE MCStacks ------------------------------
(* Scenarios of Stacks for TLC.                                            *)
EXTENDS Stacks

Mix(kinds, n, overlap, text, f) ==
  [kinds |-> kinds, requests |-> n, overlap |-> overlap, copy |-> text, faults |-> f]

\* Nobody asks for anything
Rest == Mix({}, 0, FALSE, None, 0)

\* One request after another, from nothing with two failures, from an edited copy with one;
\* any two requests at once; three deployments and upgrades, whose recorders meet.  Contents
\* are alike: the copy at the start is the first of them
AllMixes == {Rest} \cup {Mix(Kinds, 4, FALSE, None, 2), Mix(Kinds, 4, FALSE, "first", 1),
                            Mix(Kinds, 2, TRUE, "first", 1), Mix({"deploy", "upgrade"}, 3, TRUE, "first", 0)}

\* Requests are alike: they arrive in this order
Arrivals == <<"r1", "r2", "r3", "r4">>
InTurn == \A i \in DOMAIN Arrivals : pc[Arrivals[i]] = "idle" /\ pc'[Arrivals[i]] # "idle" =>
            \A j \in 1 .. i - 1 : pc[Arrivals[j]] # "idle"
=============================================================================
