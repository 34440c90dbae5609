--------------------------- MODULE MCVMLifecycle ---------------------------
(* Scenarios of VMLifecycle for TLC.                                       *)
EXTENDS VMLifecycle, Sequences

Mix(kinds, overlap, reuse, cloned, sources) ==
  [kinds |-> kinds, overlap |-> overlap, reuse |-> reuse, cloned |-> cloned, sources |-> sources]

\* Machines are made or cloned with fresh names, deleted, restored and purged, or restarted beside
\* that, one request per machine at a time; machines are removed beside a clean-up, requests
\* overlapping; machines are made and become templates
SoleMixes == {Mix({"create", "delete", "restore", "purge"}, FALSE, FALSE, FALSE, {"new"}),
              Mix({"clone", "delete", "restore", "purge"}, FALSE, FALSE, FALSE, {}),
              Mix({"restart", "delete", "restore", "purge"}, FALSE, FALSE, FALSE, {}),
              Mix({"restart", "finalize", "image"}, FALSE, FALSE, FALSE, {}),
              Mix({"delete", "cleanup", "purge"}, TRUE, FALSE, TRUE, {}),
              Mix({"finalize", "image", "create", "restore"}, FALSE, FALSE, FALSE, {"new", "image"})}

\* Machines are given files of others and templates
SafeMixes == SoleMixes \cup {Mix({"create", "delete", "restore"}, FALSE, FALSE, FALSE, {"file"}),
                             Mix({"create", "finalize"}, FALSE, FALSE, FALSE, {"image", "file"})}

\* One user clones a machine and deletes the clone
CloneMixes == {Mix({"clone", "delete"}, FALSE, FALSE, FALSE, {})}

\* One user restarts a machine and another deletes it at the same time
CrossMixes == {Mix({"restart", "delete"}, TRUE, FALSE, FALSE, {})}

\* Nobody asks for anything
Rest == Mix({}, FALSE, FALSE, FALSE, {})
RestOrSafe == SafeMixes \cup {Rest}

\* Calls are alike, and so are the names that no machine has at the start: calls arrive, and
\* names are taken, in this order.  Where requests overlap there are three
Arrivals == <<"c1", "c2", "c3", "c4">>
Fresh == <<"b", "c">>
InTurn ==
  /\ \A i \in DOMAIN Arrivals : call[Arrivals[i]].pc = "idle" /\ call'[Arrivals[i]].pc # "idle" =>
       \A j \in 1 .. i - 1 : call[Arrivals[j]].pc # "idle"
  /\ Used("c")' => Used("b")'
  /\ mix.overlap => call'["c4"].pc = "idle"
=============================================================================
