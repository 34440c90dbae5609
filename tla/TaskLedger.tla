----------------------------- MODULE TaskLedger -----------------------------
(***************************************************************************)
(* What the task queue promises about executions, without goroutines: a    *)
(* submission gives a task one right to be executed, an automatic retry    *)
(* gives a task that has none another one, at most MaxRetry[t] times, and  *)
(* an execution uses the right up.  A right may become void (a full queue, *)
(* a deleted row, a crash); it is never split, copied or given back.       *)
(***************************************************************************)
EXTENDS Naturals

CONSTANTS Tasks, MaxRetry

VARIABLES
  issued,   \* tasks submitted
  right,    \* tasks that hold a right to be executed
  grants,   \* retries granted, per task
  runs      \* executions begun, per task

vars == <<issued, right, grants, runs>>

Init == /\ issued = {} /\ right = {}
        /\ grants = [t \in Tasks |-> 0] /\ runs = [t \in Tasks |-> 0]

Issue(t) == /\ t \notin issued
            /\ issued' = issued \cup {t} /\ right' = right \cup {t}
            /\ UNCHANGED <<grants, runs>>

Grant(t) == /\ t \in issued \ right /\ grants[t] < MaxRetry[t]
            /\ grants' = [grants EXCEPT ![t] = @ + 1]
            /\ right' = right \cup {t}
            /\ UNCHANGED <<issued, runs>>

Use(t) == /\ t \in right
          /\ right' = right \ {t}
          /\ runs' = [runs EXCEPT ![t] = @ + 1]
          /\ UNCHANGED <<issued, grants>>

Void == /\ right' \subseteq right
        /\ UNCHANGED <<issued, grants, runs>>

Next == (\E t \in Tasks : Issue(t) \/ Grant(t) \/ Use(t)) \/ Void

Spec == Init /\ [][Next]_vars

=============================================================================
