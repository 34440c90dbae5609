--------------------------- MODULE MCTaskManager ---------------------------
(***************************************************************************)
(* Two tasks of the slow pool: "down", an image_download, is retried once, *)
(* and "make", a create_vm, is not.                                        *)
(***************************************************************************)
EXTENDS TaskManager

MCTasks == {"down", "make"}

AllSlow == [t \in MCTasks |-> "slow"]

TwoWorkers == [w \in {"w1", "w2"} |-> "slow"]

RetryDown == [t \in MCTasks |-> IF t = "down" THEN 1 ELSE 0]

=============================================================================
