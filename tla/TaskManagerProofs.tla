------------------------- MODULE TaskManagerProofs -------------------------
(***************************************************************************)
(* Theorems about TaskManager for every set of tasks, workers and pools,   *)
(* every queue length, every retry budget and every number of faults and   *)
(* crashes.                                                                *)
(***************************************************************************)
EXTENDS TaskManager, TLAPS

(***************************************************************************)
(* Type correctness                                                        *)
(***************************************************************************)
\* A send to a task's channel keeps the channels' type (enqueue).
LEMMA PushType ==
  ASSUME NEW t \in Tasks, QueueType
  PROVE  Pushed(t) \in [Pools -> Seq(Tasks)]
<1>1. PoolOf[t] \in Pools
  BY PoolAssumption
<1>2. queue[PoolOf[t]] \in Seq(Tasks)
  BY <1>1 DEF QueueType
<1>3. Append(queue[PoolOf[t]], t) \in Seq(Tasks)
  BY <1>2
<1> QED BY <1>1, <1>3 DEF Pushed, QueueType

\* A receive yields a task and keeps the channels' type (loop).
LEMMA PopType ==
  ASSUME NEW p \in Pools, QueueType, queue[p] # <<>>
  PROVE  /\ Head(queue[p]) \in Tasks
         /\ [queue EXCEPT ![p] = Tail(@)] \in [Pools -> Seq(Tasks)]
<1>1. queue[p] \in Seq(Tasks)
  BY DEF QueueType
<1>2. Head(queue[p]) \in Tasks /\ Tail(queue[p]) \in Seq(Tasks)
  BY <1>1
<1> QED BY <1>2 DEF QueueType

\* The initial state has the types of TypeOK.
LEMMA TypeInit == Init => TypeOK
<1> SUFFICES ASSUME Init PROVE TypeOK
  OBVIOUS
<1>1. RowType /\ QueueType
  BY DEF Init, RowType, QueueType
<1>2. WorkType
  BY DEF Init, WorkType
<1>3. ScanType /\ RestType
  BY DEF Init, ScanType, RestType
<1> QED BY <1>1, <1>2, <1>3 DEF TypeOK

\* Every step keeps TypeOK.
LEMMA TypeStep == TypeOK /\ [Next]_vars => TypeOK'
<1> SUFFICES ASSUME RowType, QueueType, WorkType, ScanType, RestType, [Next]_vars
             PROVE  TypeOK'
  BY DEF TypeOK
<1> USE DEF TypeOK
<1>1. ASSUME NEW t \in Tasks, SubmitCreate(t) PROVE TypeOK'
  <2>1. RowType'
    BY <1>1 DEF SubmitCreate, RowType, Active, Terminal
  <2>2. QueueType'
    BY <1>1 DEF SubmitCreate, QueueType
  <2>3. WorkType' /\ ScanType' /\ RestType'
    BY <1>1 DEF SubmitCreate, WorkType, ScanType, RestType, row, work, retry, users,
       env, hist
  <2> QED BY <2>1, <2>2, <2>3
<1>2. ASSUME NEW t \in Tasks, SubmitSend(t) PROVE TypeOK'
  <2>1. QueueType'
    BY <1>2, PushType DEF SubmitSend, QueueType
  <2>2. RowType' /\ WorkType' /\ ScanType' /\ RestType'
    BY <1>2 DEF SubmitSend, RowType, WorkType, ScanType, RestType, row, work, retry,
       users, env, hist
  <2> QED BY <2>1, <2>2
<1>3. ASSUME NEW t \in Tasks, SubmitTimeout(t) PROVE TypeOK'
  <2>1. QueueType'
    BY <1>3 DEF SubmitTimeout, QueueType
  <2>2. RowType' /\ WorkType' /\ ScanType' /\ RestType'
    BY <1>3 DEF SubmitTimeout, RowType, WorkType, ScanType, RestType, row, work, retry,
       users, env, hist
  <2> QED BY <2>1, <2>2
<1>4. ASSUME NEW t \in Tasks, SubmitReject(t) PROVE TypeOK'
  <2>1. RowType'
    BY <1>4 DEF SubmitReject, RowType, Updated, Active, Terminal
  <2>2. QueueType'
    BY <1>4 DEF SubmitReject, QueueType
  <2>3. WorkType' /\ ScanType' /\ RestType'
    BY <1>4 DEF SubmitReject, WorkType, ScanType, RestType, row, work, retry, users,
       env, hist
  <2> QED BY <2>1, <2>2, <2>3
<1>5. ASSUME NEW t \in Tasks, SubmitRejectFault(t) PROVE TypeOK'
  <2>1. QueueType'
    BY <1>5 DEF SubmitRejectFault, QueueType
  <2>2. RestType'
    BY <1>5 DEF SubmitRejectFault, RestType, Fault, users, env, hist
  <2>3. RowType' /\ WorkType' /\ ScanType'
    BY <1>5 DEF SubmitRejectFault, RowType, WorkType, ScanType, row, work, retry, users,
       env, hist
  <2> QED BY <2>1, <2>2, <2>3
<1>6. ASSUME NEW w \in Workers, Dequeue(w) PROVE TypeOK'
  <2>1. WPool[w] \in Pools
    BY PoolAssumption
  <2>2. QueueType'
    BY <1>6, <2>1, PopType DEF Dequeue, QueueType
  <2>3. Head(queue[WPool[w]]) \in Tasks
    BY <1>6, <2>1, PopType DEF Dequeue
  <2>4. WorkType'
    BY <1>6, <2>3 DEF Dequeue, WorkType
  <2>5. RowType' /\ ScanType' /\ RestType'
    BY <1>6 DEF Dequeue, RowType, ScanType, RestType, row, retry, users, env, hist
  <2> QED BY <2>2, <2>4, <2>5
<1>7. ASSUME NEW w \in Workers, Load(w) PROVE TypeOK'
  <2>1. WorkType'
    BY <1>7 DEF Load, WorkType, Goto, Return, RowType
  <2>2. RowType' /\ QueueType' /\ ScanType' /\ RestType'
    BY <1>7 DEF Load, RowType, QueueType, ScanType, RestType, row, work, retry, users,
       env, hist
  <2> QED BY <2>1, <2>2
<1>8. ASSUME NEW w \in Workers, SaveRunning(w) PROVE TypeOK'
  <2>1. RowType'
    BY <1>8 DEF SaveRunning, RowType, WorkType, Active, Terminal
  <2>2. WorkType'
    BY <1>8 DEF SaveRunning, WorkType, Goto
  <2>3. QueueType' /\ ScanType' /\ RestType'
    BY <1>8 DEF SaveRunning, QueueType, ScanType, RestType, row, work, retry, users,
       env, hist
  <2> QED BY <2>1, <2>2, <2>3
<1>9. ASSUME NEW w \in Workers, DropFault(w) PROVE TypeOK'
  <2>1. WorkType'
    BY <1>9 DEF DropFault, WorkType, Return
  <2>2. RestType'
    BY <1>9 DEF DropFault, RestType, Fault, users, env, hist
  <2>3. RowType' /\ QueueType' /\ ScanType'
    BY <1>9 DEF DropFault, RowType, QueueType, ScanType, row, work, retry, users, env, hist
  <2> QED BY <2>1, <2>2, <2>3
<1>10. ASSUME NEW w \in Workers, PanicFault(w) PROVE TypeOK'
  <2>1. WorkType'
    BY <1>10 DEF PanicFault, WorkType, Goto
  <2>2. RestType'
    BY <1>10 DEF PanicFault, RestType, Fault, users, env, hist
  <2>3. RowType' /\ QueueType' /\ ScanType'
    BY <1>10 DEF PanicFault, RowType, QueueType, ScanType, row, work, retry, users, env,
       hist
  <2> QED BY <2>1, <2>2, <2>3
<1>11. ASSUME NEW w \in Workers, Start(w) PROVE TypeOK'
  <2>1. WorkType'
    BY <1>11 DEF Start, WorkType, Goto
  <2>2. RestType'
    BY <1>11 DEF Start, RestType, WorkType, users, env, hist
  <2>3. RowType' /\ QueueType' /\ ScanType'
    BY <1>11 DEF Start, RowType, QueueType, ScanType, row, work, retry, users, env, hist
  <2> QED BY <2>1, <2>2, <2>3
<1>12. ASSUME NEW w \in Workers, ExecEnd(w) PROVE TypeOK'
  <2>1. WorkType'
    BY <1>12 DEF ExecEnd, WorkType, Goto
  <2>2. RowType' /\ QueueType' /\ ScanType' /\ RestType'
    BY <1>12 DEF ExecEnd, RowType, QueueType, ScanType, RestType, row, work, retry,
       users, env, hist
  <2> QED BY <2>1, <2>2
<1>13. ASSUME NEW w \in Workers, ExecTimeout(w) PROVE TypeOK'
  <2>1. WorkType'
    BY <1>13 DEF ExecTimeout, WorkType, Goto
  <2>2. RestType'
    BY <1>13 DEF ExecTimeout, RestType, WorkType, users, env, hist
  <2>3. RowType' /\ QueueType' /\ ScanType'
    BY <1>13 DEF ExecTimeout, RowType, QueueType, ScanType, row, work, retry, users,
       env, hist
  <2> QED BY <2>1, <2>2, <2>3
<1>14. ASSUME NEW w \in Workers, Check(w) PROVE TypeOK'
  <2>1. WorkType'
    BY <1>14 DEF Check, WorkType, Goto
  <2>2. RowType' /\ QueueType' /\ ScanType' /\ RestType'
    BY <1>14 DEF Check, RowType, QueueType, ScanType, RestType, row, work, retry, users,
       env, hist
  <2> QED BY <2>1, <2>2
<1>15. ASSUME NEW w \in Workers, CheckFault(w) PROVE TypeOK'
  <2>1. WorkType'
    BY <1>15 DEF CheckFault, WorkType, Goto
  <2>2. RestType'
    BY <1>15 DEF CheckFault, RestType, Fault, users, env, hist
  <2>3. RowType' /\ QueueType' /\ ScanType'
    BY <1>15 DEF CheckFault, RowType, QueueType, ScanType, row, work, retry, users, env,
       hist
  <2> QED BY <2>1, <2>2, <2>3
<1>16. ASSUME NEW w \in Workers, Write(w) PROVE TypeOK'
  <2>1. RowType'
    BY <1>16 DEF Write, RowType, WorkType, Updated, Active, Terminal
  <2>2. WorkType'
    BY <1>16 DEF Write, WorkType, Goto
  <2>3. QueueType' /\ ScanType' /\ RestType'
    BY <1>16 DEF Write, QueueType, ScanType, RestType, row, work, retry, users, env, hist
  <2> QED BY <2>1, <2>2, <2>3
<1>17. ASSUME NEW w \in Workers, WriteFail(w) PROVE TypeOK'
  <2>1. RowType'
    BY <1>17 DEF WriteFail, RowType, Updated, Active, Terminal
  <2>2. WorkType'
    BY <1>17 DEF WriteFail, WorkType, Return
  <2>3. QueueType' /\ ScanType' /\ RestType'
    BY <1>17 DEF WriteFail, QueueType, ScanType, RestType, row, work, retry, users, env,
       hist
  <2> QED BY <2>1, <2>2, <2>3
<1>18. ASSUME NEW w \in Workers, WriteFault(w) PROVE TypeOK'
  <2>1. WorkType'
    BY <1>18 DEF WriteFault, WorkType, Goto, Return
  <2>2. RestType'
    BY <1>18 DEF WriteFault, RestType, Fault, users, env, hist
  <2>3. RowType' /\ QueueType' /\ ScanType'
    BY <1>18 DEF WriteFault, RowType, QueueType, ScanType, row, work, retry, users, env,
       hist
  <2> QED BY <2>1, <2>2, <2>3
<1>19. ASSUME NEW w \in Workers, Cleanup(w) PROVE TypeOK'
  <2>1. WorkType'
    BY <1>19 DEF Cleanup, WorkType, Return
  <2>2. RowType' /\ QueueType' /\ ScanType' /\ RestType'
    BY <1>19 DEF Cleanup, RowType, QueueType, ScanType, RestType, row, work, retry,
       users, env, hist
  <2> QED BY <2>1, <2>2
<1>20. ASSUME NEW t \in Tasks, ZombieEnd(t) PROVE TypeOK'
  <2>1. RestType'
    BY <1>20 DEF ZombieEnd, RestType, users, env, hist
  <2>2. RowType' /\ QueueType' /\ WorkType' /\ ScanType'
    BY <1>20 DEF ZombieEnd, RowType, QueueType, WorkType, ScanType, row, work, retry,
       users, env, hist
  <2> QED BY <2>1, <2>2
<1>21. CASE ScanQuery
  <2>1. ScanType'
    BY <1>21 DEF ScanQuery, ScanType, RowType
  <2>2. RowType' /\ QueueType' /\ WorkType' /\ RestType'
    BY <1>21 DEF ScanQuery, RowType, QueueType, WorkType, RestType, row, work, retry,
       users, env, hist
  <2> QED BY <2>1, <2>2
<1>22. ASSUME NEW t \in Tasks, ScanClaim(t) PROVE TypeOK'
  <2>1. RowType'
    BY <1>22 DEF ScanClaim, RowType
  <2>2. ScanType'
    BY <1>22 DEF ScanClaim, ScanType
  <2>3. QueueType' /\ WorkType' /\ RestType'
    BY <1>22 DEF ScanClaim, QueueType, WorkType, RestType, row, work, retry, users, env,
       hist
  <2> QED BY <2>1, <2>2, <2>3
<1>23. ASSUME NEW t \in Tasks, ScanClaimFault(t) PROVE TypeOK'
  <2>1. ScanType'
    BY <1>23 DEF ScanClaimFault, ScanType
  <2>2. RestType'
    BY <1>23 DEF ScanClaimFault, RestType, Fault, users, env, hist
  <2>3. RowType' /\ QueueType' /\ WorkType'
    BY <1>23 DEF ScanClaimFault, RowType, QueueType, WorkType, row, work, retry, users,
       env, hist
  <2> QED BY <2>1, <2>2, <2>3
<1>24. CASE ScanReset
  <2>1. RowType'
    BY <1>24 DEF ScanReset, RowType, ScanType, Updated, Active, Terminal
  <2>2. ScanType'
    BY <1>24 DEF ScanReset, ScanType
  <2>3. QueueType' /\ WorkType' /\ RestType'
    BY <1>24 DEF ScanReset, QueueType, WorkType, RestType, row, work, retry, users, env,
       hist
  <2> QED BY <2>1, <2>2, <2>3
<1>25. CASE ScanResetFault
  <2>1. RowType'
    BY <1>25 DEF ScanResetFault, RowType
  <2>2. ScanType'
    BY <1>25 DEF ScanResetFault, ScanType, NextCand
  <2>3. RestType'
    BY <1>25 DEF ScanResetFault, RestType, Fault, users, env, hist
  <2>4. QueueType' /\ WorkType'
    BY <1>25 DEF ScanResetFault, QueueType, WorkType, row, work, retry, users, env, hist
  <2> QED BY <2>1, <2>2, <2>3, <2>4
<1>26. CASE ScanSend
  <2>1. cur \in Tasks
    BY <1>26 DEF ScanSend, ScanType
  <2>2. QueueType'
    BY <1>26, <2>1, PushType DEF ScanSend, QueueType
  <2>3. ScanType'
    BY <1>26 DEF ScanSend, ScanType, NextCand
  <2>4. RowType' /\ WorkType' /\ RestType'
    BY <1>26 DEF ScanSend, RowType, WorkType, RestType, row, work, users, env, hist
  <2> QED BY <2>2, <2>3, <2>4
<1>27. CASE ScanTimeout
  <2>1. ScanType'
    BY <1>27 DEF ScanTimeout, ScanType
  <2>2. RowType' /\ QueueType' /\ WorkType' /\ RestType'
    BY <1>27 DEF ScanTimeout, RowType, QueueType, WorkType, RestType, row, work, retry,
       users, env, hist
  <2> QED BY <2>1, <2>2
<1>28. CASE ScanFail
  <2>1. RowType'
    BY <1>28 DEF ScanFail, RowType, Updated, Active, Terminal
  <2>2. ScanType'
    BY <1>28 DEF ScanFail, ScanType, NextCand
  <2>3. QueueType' /\ WorkType' /\ RestType'
    BY <1>28 DEF ScanFail, QueueType, WorkType, RestType, row, work, retry, users, env, hist
  <2> QED BY <2>1, <2>2, <2>3
<1>29. ASSUME NEW t \in Tasks, CancelRow(t) PROVE TypeOK'
  <2>1. RowType'
    BY <1>29 DEF CancelRow, RowType, Active, Terminal
  <2>2. RestType'
    BY <1>29 DEF CancelRow, RestType, users, env, hist
  <2>3. QueueType' /\ WorkType' /\ ScanType'
    BY <1>29 DEF CancelRow, QueueType, WorkType, ScanType, row, work, retry, users, env,
       hist
  <2> QED BY <2>1, <2>2, <2>3
<1>30. ASSUME NEW t \in Tasks, CancelSignal(t) PROVE TypeOK'
  <2>1. RestType'
    BY <1>30 DEF CancelSignal, RestType, users, env, hist
  <2>2. RowType' /\ QueueType' /\ WorkType' /\ ScanType'
    BY <1>30 DEF CancelSignal, RowType, QueueType, WorkType, ScanType, row, work, retry,
       users, env, hist
  <2> QED BY <2>1, <2>2
<1>31. ASSUME NEW t \in Tasks, DeleteRead(t) PROVE TypeOK'
  <2>1. RestType'
    BY <1>31 DEF DeleteRead, RestType, users, env, hist
  <2>2. RowType' /\ QueueType' /\ WorkType' /\ ScanType'
    BY <1>31 DEF DeleteRead, RowType, QueueType, WorkType, ScanType, row, work, retry,
       users, env, hist
  <2> QED BY <2>1, <2>2
<1>32. ASSUME NEW t \in Tasks, DeleteRow(t) PROVE TypeOK'
  <2>1. RowType'
    BY <1>32 DEF DeleteRow, RowType
  <2>2. RestType'
    BY <1>32 DEF DeleteRow, RestType, users, env, hist
  <2>3. QueueType' /\ WorkType' /\ ScanType'
    BY <1>32 DEF DeleteRow, QueueType, WorkType, ScanType, row, work, retry, users, env,
       hist
  <2> QED BY <2>1, <2>2, <2>3
<1>33. CASE Crash
  <2>1. QueueType'
    BY <1>33 DEF Crash, QueueType
  <2>2. WorkType'
    BY <1>33 DEF Crash, WorkType
  <2>3. ScanType'
    BY <1>33 DEF Crash, ScanType
  <2>4. RestType'
    BY <1>33 DEF Crash, RestType, users, env, hist
  <2>5. RowType'
    BY <1>33 DEF Crash, RowType, row, work, retry, users, env, hist
  <2> QED BY <2>1, <2>2, <2>3, <2>4, <2>5
<1>34. CASE SweepStaleRecords
  <2>1. RowType'
    BY <1>34 DEF SweepStaleRecords, RowType, Swept, Active, Terminal
  <2>2. RestType'
    BY <1>34 DEF SweepStaleRecords, RestType, users, env, hist
  <2>3. QueueType' /\ WorkType' /\ ScanType'
    BY <1>34 DEF SweepStaleRecords, QueueType, WorkType, ScanType, row, work, retry,
       users, env, hist
  <2> QED BY <2>1, <2>2, <2>3
<1>35. CASE SweepOrphanRunning
  <2>1. RowType'
    BY <1>35 DEF SweepOrphanRunning, RowType, Swept, Active, Terminal
  <2>2. RestType'
    BY <1>35 DEF SweepOrphanRunning, RestType, users, env, hist
  <2>3. QueueType' /\ WorkType' /\ ScanType'
    BY <1>35 DEF SweepOrphanRunning, QueueType, WorkType, ScanType, row, work, retry,
       users, env, hist
  <2> QED BY <2>1, <2>2, <2>3
<1>36. CASE SweepFault
  <2>1. RestType'
    BY <1>36 DEF SweepFault, RestType, users, env, hist
  <2>2. RowType' /\ QueueType' /\ WorkType' /\ ScanType'
    BY <1>36 DEF SweepFault, RowType, QueueType, WorkType, ScanType, row, work, retry,
       users, env, hist
  <2> QED BY <2>1, <2>2
<1>37. CASE UNCHANGED vars
  BY <1>37 DEF RowType, QueueType, WorkType, ScanType, RestType, vars, row, work, retry,
     users, env, hist
<1> QED
  BY <1>1, <1>2, <1>3, <1>4, <1>5, <1>6, <1>7, <1>8, <1>9, <1>10, <1>11, <1>12, <1>13,
     <1>14, <1>15, <1>16, <1>17, <1>18, <1>19, <1>20, <1>21, <1>22, <1>23, <1>24, <1>25,
     <1>26, <1>27, <1>28, <1>29, <1>30, <1>31, <1>32, <1>33, <1>34, <1>35, <1>36, <1>37
  DEF Next, Submit, Run, WorkerFault, ScanStep

\* Every variable keeps its type in every behaviour of the queue.
THEOREM TypeCorrect == Spec => []TypeOK
<1>1. Init => TypeOK
  BY TypeInit
<1>2. TypeOK /\ [Next]_vars => TypeOK'
  BY TypeStep
<1> QED BY <1>1, <1>2, PTL DEF Spec

(***************************************************************************)
(* Custody: the inductive invariant CustodyInv                             *)
(***************************************************************************)
\* A send of a task that is in no channel puts it, and nothing else, in one.
LEMMA PushQueued ==
  ASSUME NEW t \in Tasks, QueueType, QueueInv, ~Queued(t), queue' = Pushed(t)
  PROVE  QueueInv' /\ \A x \in Tasks : Queued(x)' <=> Queued(x) \/ x = t
<1> DEFINE q == queue[PoolOf[t]]
           r == queue'[PoolOf[t]]
<1>1. PoolOf[t] \in Pools
  BY PoolAssumption
<1>2. q \in Seq(Tasks) /\ queue \in [Pools -> Seq(Tasks)]
  BY <1>1 DEF QueueType
<1>3. queue' = [queue EXCEPT ![PoolOf[t]] = Append(q, t)]
  BY DEF Pushed
<1>4. r = Append(q, t) /\ \A p \in Pools \ {PoolOf[t]} : queue'[p] = queue[p]
  BY <1>1, <1>2, <1>3
<1>5. Len(q) \in Nat /\ DOMAIN q = 1..Len(q) /\ DOMAIN r = 1..(Len(q) + 1)
  BY <1>2, <1>4
<1>6. r[Len(q) + 1] = t /\ \A i \in DOMAIN q : r[i] = q[i]
  BY <1>2, <1>4
<1>7. \A i \in DOMAIN q : q[i] # t
  BY DEF Queued
<1>8. \A i \in DOMAIN r : i \in DOMAIN q \/ i = Len(q) + 1
  BY <1>5
<1>9. \A i \in DOMAIN q : i \in DOMAIN r
  BY <1>5
<1>10. Len(q) + 1 \in DOMAIN r
  BY <1>5
<1> HIDE DEF q, r
<1>11. ASSUME NEW i \in DOMAIN r, NEW j \in DOMAIN r
       PROVE  PoolOf[r[i]] = PoolOf[t] /\ (r[i] = r[j] => i = j)
  <2>1. \A k \in DOMAIN q : PoolOf[q[k]] = PoolOf[t] /\ \A l \in DOMAIN q : q[k] = q[l] => k = l
    BY <1>1 DEF QueueInv, q
  <2> QED BY <2>1, <1>6, <1>7, <1>8, <1>11, Zenon
<1>12. QueueInv'
  <2> SUFFICES ASSUME NEW p \in Pools
               PROVE  \A i \in DOMAIN queue'[p] :
                        /\ PoolOf[queue'[p][i]] = p
                        /\ \A j \in DOMAIN queue'[p] : queue'[p][i] = queue'[p][j] => i = j
    BY DEF QueueInv
  <2>1. CASE p = PoolOf[t]
    BY <2>1, <1>11 DEF r
  <2>2. CASE p # PoolOf[t]
    BY <2>2, <1>4 DEF QueueInv
  <2> QED BY <2>1, <2>2
<1>13. ASSUME NEW x \in Tasks PROVE Queued(x)' <=> Queued(x) \/ x = t
  <2>1. PoolOf[x] \in Pools
    BY PoolAssumption
  <2>2. CASE PoolOf[x] = PoolOf[t]
    <3>1. Queued(x)' <=> \E i \in DOMAIN r : r[i] = x
      BY <2>2 DEF Queued, r
    <3>2. Queued(x) <=> \E i \in DOMAIN q : q[i] = x
      BY <2>2 DEF Queued, q
    <3> QED BY <3>1, <3>2, <1>6, <1>8, <1>9, <1>10, Zenon
  <2>3. CASE PoolOf[x] # PoolOf[t]
    <3>1. queue'[PoolOf[x]] = queue[PoolOf[x]] /\ x # t
      BY <2>1, <2>3, <1>4
    <3> QED BY <3>1, Zenon DEF Queued
  <2> QED BY <2>2, <2>3
<1> QED BY <1>12, <1>13

\* A receive takes the received task, and nothing else, out of its channel.
LEMMA PopQueued ==
  ASSUME NEW p \in Pools, QueueType, QueueInv, queue[p] # <<>>,
         queue' = [queue EXCEPT ![p] = Tail(@)]
  PROVE  /\ QueueInv' /\ Queued(Head(queue[p]))
         /\ \A x \in Tasks : Queued(x)' <=> Queued(x) /\ x # Head(queue[p])
<1> DEFINE q == queue[p]
           r == queue'[p]
<1>1. q \in Seq(Tasks) /\ q # <<>> /\ queue \in [Pools -> Seq(Tasks)]
  BY DEF QueueType
<1>2. r = Tail(q) /\ \A o \in Pools \ {p} : queue'[o] = queue[o]
  BY <1>1
<1>3. Len(q) \in Nat \ {0} /\ DOMAIN q = 1..Len(q) /\ DOMAIN r = 1..(Len(q) - 1)
  BY <1>1, <1>2
<1>4. Head(q) = q[1] /\ \A i \in DOMAIN r : r[i] = q[i + 1]
  BY <1>1, <1>2
<1>5. 1 \in DOMAIN q /\ (\A i \in DOMAIN r : i + 1 \in DOMAIN q /\ i + 1 # 1)
  BY <1>3
<1>6. \A i \in DOMAIN q : i = 1 \/ \E j \in DOMAIN r : i = j + 1
  <2> TAKE i \in DOMAIN q
  <2>1. i # 1 => i - 1 \in DOMAIN r /\ i = (i - 1) + 1
    BY <1>3
  <2> QED BY <2>1
<1>7. \A i \in DOMAIN q : PoolOf[q[i]] = p /\ \A j \in DOMAIN q : q[i] = q[j] => i = j
  BY DEF QueueInv
<1>8. \A i, j \in DOMAIN r : i + 1 = j + 1 => i = j
  BY <1>3
<1> HIDE DEF q, r
<1>9. QueueInv'
  <2>1. \A i \in DOMAIN r : PoolOf[r[i]] = p /\ \A j \in DOMAIN r : r[i] = r[j] => i = j
    BY <1>4, <1>5, <1>7, <1>8
  <2> SUFFICES ASSUME NEW o \in Pools
               PROVE  \A i \in DOMAIN queue'[o] :
                        /\ PoolOf[queue'[o][i]] = o
                        /\ \A j \in DOMAIN queue'[o] : queue'[o][i] = queue'[o][j] => i = j
    BY DEF QueueInv
  <2>2. CASE o = p
    BY <2>1, <2>2 DEF r
  <2>3. CASE o # p
    BY <2>3, <1>2 DEF QueueInv
  <2> QED BY <2>2, <2>3
<1>10. Queued(Head(queue[p]))
  BY <1>4, <1>5, <1>7 DEF Queued, q
<1>11. ASSUME NEW x \in Tasks PROVE Queued(x)' <=> Queued(x) /\ x # Head(queue[p])
  <2>1. PoolOf[x] \in Pools
    BY PoolAssumption
  <2>2. CASE PoolOf[x] = p
    <3>1. Queued(x)' <=> \E i \in DOMAIN r : r[i] = x
      BY <2>2 DEF Queued, r
    <3>2. Queued(x) <=> \E i \in DOMAIN q : q[i] = x
      BY <2>2 DEF Queued, q
    <3>3. Head(queue[p]) = q[1]
      BY <1>4 DEF q
    <3>4. ASSUME NEW i \in DOMAIN r, r[i] = x PROVE Queued(x) /\ x # q[1]
      BY <3>2, <3>4, <1>4, <1>5, <1>7
    <3>5. ASSUME NEW i \in DOMAIN q, q[i] = x, x # q[1] PROVE \E j \in DOMAIN r : r[j] = x
      BY <3>5, <1>4, <1>6
    <3> QED BY <3>1, <3>2, <3>3, <3>4, <3>5
  <2>3. CASE PoolOf[x] # p
    <3>1. x # Head(queue[p])
      BY <2>3, <1>4, <1>5, <1>7 DEF q
    <3>2. queue'[PoolOf[x]] = queue[PoolOf[x]]
      BY <2>1, <2>3, <1>2
    <3> QED BY <3>1, <3>2, Zenon DEF Queued
  <2> QED BY <2>2, <2>3
<1> QED BY <1>9, <1>10, <1>11

\* At the start nobody holds a task.
LEMMA CustodyInit == Init => CustodyInv
<1> SUFFICES ASSUME Init PROVE CustodyInv
  OBVIOUS
<1>1. \A t \in Tasks : Unheld(t)
  BY PoolAssumption DEF Init, Unheld, Submitting, Queued, Working, Loading, Running, Retrying,
     Resetting, Requeuing
<1>2. QueueInv
  BY DEF Init, QueueInv
<1>3. OneHolder /\ StatusInv
  BY <1>1 DEF OneHolder, StatusInv, Unheld, Working, Retrying
<1>4. IdleInv
  BY <1>1 DEF Init, IdleInv
<1> QED BY <1>2, <1>3, <1>4 DEF CustodyInv

\* Every step hands a task on or drops it, and never duplicates it.
LEMMA CustodyStep == TypeOK /\ CustodyInv /\ [Next]_vars /\ ~slipped' => CustodyInv'
<1> SUFFICES ASSUME ~slipped', RowType, QueueType, WorkType, ScanType,
                    QueueInv, OneHolder, StatusInv, IdleInv, [Next]_vars
             PROVE  CustodyInv'
  BY DEF TypeOK, CustodyInv
<1> USE DEF CustodyInv, row, work, retry, users, env, hist, Submitting, Working, Loading,
        Running, Retrying, Resetting, Requeuing, up
<1>1. ASSUME NEW t \in Tasks, SubmitCreate(t) PROVE CustodyInv'
  <2>1. QueueInv' /\ \A x \in Tasks : Queued(x)' <=> Queued(x)
    BY <1>1 DEF SubmitCreate, QueueInv, Queued
  <2>2. OneHolder'
    BY <1>1, <2>1 DEF SubmitCreate, OneHolder, IdleInv, Unheld, RowType, QueueType,
       WorkType, ScanType
  <2>3. StatusInv'
    BY <1>1, <2>1 DEF SubmitCreate, StatusInv, OneHolder, IdleInv, Unheld, RowType,
       QueueType, WorkType, ScanType
  <2>4. IdleInv'
    <3>1. t \notin cands /\ up
      BY <1>1 DEF SubmitCreate, IdleInv
    <3>2. ASSUME NEW x \in Tasks, x # t
          PROVE  Unheld(x)' = Unheld(x) /\ status'[x] = status[x] /\ spc'[x] = spc[x]
      BY <1>1, <2>1, <3>2 DEF SubmitCreate, Unheld, RowType, QueueType
    <3>3. spc'[t] # "new" /\ life' = life /\ cands' = cands
      BY <1>1 DEF SubmitCreate, QueueType
    <3> QED BY <3>1, <3>2, <3>3 DEF IdleInv
  <2> QED BY <2>1, <2>2, <2>3, <2>4
<1>2. ASSUME NEW t \in Tasks, SubmitSend(t) PROVE CustodyInv'
  <2>1. CASE HasRoom(t)
    <3>1. /\ queue' = Pushed(t) /\ spc' = [spc EXCEPT ![t] = "accepted"]
          /\ UNCHANGED <<row, work, retry, life>>
      BY <1>2, <2>1 DEF SubmitSend
    <3>2. up /\ Submitting(t) /\ ~Queued(t)
      BY <1>2 DEF SubmitSend, OneHolder
    <3>3. QueueInv' /\ \A x \in Tasks : Queued(x)' <=> Queued(x) \/ x = t
      BY <3>1, <3>2, PushQueued
    <3>4. ~Submitting(t)' /\ \A x \in Tasks : x # t => spc'[x] = spc[x]
      BY <3>1 DEF QueueType
    <3>5. OneHolder' /\ StatusInv'
      BY <3>1, <3>2, <3>3, <3>4 DEF OneHolder, StatusInv
    <3>6. IdleInv'
      BY <3>1, <3>2, <3>3, <3>4 DEF IdleInv, Unheld, QueueType
    <3> QED BY <3>3, <3>5, <3>6
  <2>2. CASE ~HasRoom(t)
    <3>1. /\ spc[t] = "try" /\ spc' = [spc EXCEPT ![t] = "wait"]
          /\ UNCHANGED <<row, queue, work, retry, life>>
      BY <1>2, <2>2 DEF SubmitSend
    <3>2. QueueInv' /\ \A x \in Tasks : (Queued(x)' <=> Queued(x)) /\ (Submitting(x)' <=>
       Submitting(x))
      BY <3>1 DEF QueueInv, Queued, QueueType
    <3>3. OneHolder' /\ StatusInv'
      BY <3>1, <3>2 DEF OneHolder, StatusInv
    <3>4. IdleInv'
      BY <3>1, <3>2 DEF IdleInv, Unheld, QueueType
    <3> QED BY <3>2, <3>3, <3>4
  <2> QED BY <2>1, <2>2
<1>3. ASSUME NEW t \in Tasks, SubmitTimeout(t) PROVE CustodyInv'
  <2>1. QueueInv' /\ \A x \in Tasks : Queued(x)' <=> Queued(x)
    BY <1>3 DEF SubmitTimeout, QueueInv, Queued
  <2>2. OneHolder'
    BY <1>3, <2>1 DEF SubmitTimeout, OneHolder, IdleInv, Unheld, RowType, QueueType,
       WorkType, ScanType
  <2>3. StatusInv'
    BY <1>3, <2>1 DEF SubmitTimeout, StatusInv, OneHolder, IdleInv, Unheld, RowType,
       QueueType, WorkType, ScanType
  <2>4. IdleInv'
    BY <1>3, <2>1 DEF SubmitTimeout, IdleInv, Unheld, StatusInv, OneHolder, RowType,
       QueueType, WorkType, ScanType
  <2> QED BY <2>1, <2>2, <2>3, <2>4
<1>4. ASSUME NEW t \in Tasks, SubmitReject(t) PROVE CustodyInv'
  <2>1. QueueInv' /\ \A x \in Tasks : Queued(x)' <=> Queued(x)
    BY <1>4 DEF SubmitReject, Updated, QueueInv, Queued
  <2>2. OneHolder'
    BY <1>4, <2>1 DEF SubmitReject, Updated, OneHolder, IdleInv, Unheld, RowType,
       QueueType, WorkType, ScanType
  <2>3. StatusInv'
    BY <1>4, <2>1 DEF SubmitReject, Updated, StatusInv, OneHolder, IdleInv, Unheld,
       RowType, QueueType, WorkType, ScanType
  <2>4. IdleInv'
    BY <1>4, <2>1 DEF SubmitReject, Updated, IdleInv, Unheld, StatusInv, OneHolder,
       RowType, QueueType, WorkType, ScanType
  <2> QED BY <2>1, <2>2, <2>3, <2>4
<1>5. ASSUME NEW t \in Tasks, SubmitRejectFault(t) PROVE CustodyInv'
  <2>1. QueueInv' /\ \A x \in Tasks : Queued(x)' <=> Queued(x)
    BY <1>5 DEF SubmitRejectFault, Fault, QueueInv, Queued
  <2>2. OneHolder'
    BY <1>5, <2>1 DEF SubmitRejectFault, Fault, OneHolder, IdleInv, Unheld, RowType,
       QueueType, WorkType, ScanType
  <2>3. StatusInv'
    BY <1>5, <2>1 DEF SubmitRejectFault, Fault, StatusInv, OneHolder, IdleInv, Unheld,
       RowType, QueueType, WorkType, ScanType
  <2>4. IdleInv'
    BY <1>5, <2>1 DEF SubmitRejectFault, Fault, IdleInv, Unheld, StatusInv, OneHolder,
       RowType, QueueType, WorkType, ScanType
  <2> QED BY <2>1, <2>2, <2>3, <2>4
<1>6. ASSUME NEW w \in Workers, Dequeue(w) PROVE CustodyInv'
  <2> DEFINE h == Head(queue[WPool[w]])
  <2>1. WPool[w] \in Pools /\ h \in Tasks
    BY <1>6, PoolAssumption, PopType DEF Dequeue
  <2>2. QueueInv' /\ Queued(h) /\ \A x \in Tasks : Queued(x)' <=> Queued(x) /\ x # h
    BY <1>6, <2>1, PopQueued DEF Dequeue
  <2>3. /\ wpc' = [wpc EXCEPT ![w] = "load"] /\ wtask' = [wtask EXCEPT ![w] = h]
        /\ up /\ UNCHANGED <<row, spc, retry, life>>
    BY <1>6 DEF Dequeue
  <2> HIDE DEF h
  <2>3a. /\ wpc'[w] = "load" /\ wtask'[w] = h
         /\ \A v \in Workers \ {w} : wpc'[v] = wpc[v] /\ wtask'[v] = wtask[v]
    BY <2>3 DEF WorkType
  <2>4. \A x \in Tasks : (Loading(w, x)' => x = h) /\ ~Running(w, x)'
    BY <2>3a
  <2>5. \A v \in Workers \ {w}, x \in Tasks :
          (Loading(v, x)' => Loading(v, x)) /\ (Running(v, x)' => Running(v, x))
    BY <2>3a
  <2>5a. \A x \in Tasks : (Submitting(x)' <=> Submitting(x)) /\ (Resetting(x)' <=>
     Resetting(x))
    BY <2>3
  <2>5b. \A x \in Tasks : Requeuing(x)' <=> Requeuing(x)
    BY <2>3
  <2> HIDE DEF Submitting, Loading, Running, Resetting, Requeuing
  <2>6. ~Submitting(h) /\ ~Retrying(h) /\ \A v \in Workers : ~Working(v, h)
    BY <2>1, <2>2 DEF OneHolder
  <2>7. OneHolder'
    BY <2>1, <2>2, <2>4, <2>5, <2>5a, <2>5b, <2>6 DEF OneHolder
  <2>8. StatusInv'
    BY <2>1, <2>2, <2>3, <2>4, <2>5, <2>5a, <2>5b DEF StatusInv
  <2>9. h \notin cands /\ spc[h] # "new"
    BY <2>1, <2>2 DEF IdleInv, Unheld
  <2>10. IdleInv'
    BY <2>1, <2>2, <2>3, <2>4, <2>5, <2>5a, <2>5b, <2>9 DEF IdleInv, Unheld
  <2> QED BY <2>2, <2>7, <2>8, <2>10
<1>7. ASSUME NEW w \in Workers, Load(w) PROVE CustodyInv'
  <2>1. CASE status[wtask[w]] = "absent"
    <3>1. /\ wpc'[w] = "idle" /\ UNCHANGED <<row, spc, queue, retry, life>>
          /\ \A v \in Workers \ {w} : wpc'[v] = wpc[v] /\ wtask'[v] = wtask[v]
      BY <1>7, <2>1 DEF Load, Return, WorkType
    <3>2. \A v \in Workers, x \in Tasks :
            (Loading(v, x)' => Loading(v, x)) /\ (Running(v, x)' => Running(v, x))
      BY <3>1
    <3>3. QueueInv' /\ \A x \in Tasks : Queued(x)' <=> Queued(x)
      BY <3>1 DEF QueueInv, Queued
    <3>3a. \A x \in Tasks : (Submitting(x)' <=> Submitting(x)) /\ (Resetting(x)' <=>
       Resetting(x))
      BY <3>1
    <3>3b. \A x \in Tasks : Requeuing(x)' <=> Requeuing(x)
      BY <3>1
    <3> HIDE DEF Submitting, Loading, Running, Resetting, Requeuing
    <3>4. OneHolder'
      BY <3>2, <3>3, <3>3a, <3>3b DEF OneHolder
    <3>5. StatusInv' /\ IdleInv'
      BY <3>1, <3>2, <3>3, <3>3a, <3>3b DEF StatusInv, IdleInv, Unheld
    <3> QED BY <3>3, <3>4, <3>5
  <2>2. CASE ~(status[wtask[w]] = "absent")
    <3>1. QueueInv' /\ \A x \in Tasks : Queued(x)' <=> Queued(x)
      BY <1>7, <2>2 DEF Load, Goto, Return, QueueInv, Queued
    <3>2. OneHolder'
      BY <1>7, <2>2, <3>1 DEF Load, Goto, Return, OneHolder, IdleInv, Unheld, RowType,
         QueueType, WorkType, ScanType
    <3>3. StatusInv'
      BY <1>7, <2>2, <3>1 DEF Load, Goto, Return, StatusInv, OneHolder, IdleInv, Unheld,
         RowType, QueueType, WorkType, ScanType
    <3>4. IdleInv'
      BY <1>7, <2>2, <3>1 DEF Load, Goto, Return, IdleInv, Unheld, StatusInv, OneHolder,
         RowType, QueueType, WorkType, ScanType
    <3> QED BY <3>1, <3>2, <3>3, <3>4
  <2> QED BY <2>1, <2>2
<1>8. ASSUME NEW w \in Workers, SaveRunning(w) PROVE CustodyInv'
  <2>1. QueueInv' /\ \A x \in Tasks : Queued(x)' <=> Queued(x)
    BY <1>8 DEF SaveRunning, Goto, QueueInv, Queued
  <2>2. OneHolder'
    BY <1>8, <2>1 DEF SaveRunning, Goto, OneHolder, IdleInv, Unheld, RowType, QueueType,
       WorkType, ScanType
  <2>3. StatusInv'
    BY <1>8, <2>1 DEF SaveRunning, Goto, StatusInv, OneHolder, IdleInv, Unheld, RowType,
       QueueType, WorkType, ScanType
  <2>4. IdleInv'
    BY <1>8, <2>1 DEF SaveRunning, Goto, IdleInv, Unheld, StatusInv, OneHolder, RowType,
       QueueType, WorkType, ScanType
  <2> QED BY <2>1, <2>2, <2>3, <2>4
<1>9. ASSUME NEW w \in Workers, DropFault(w) PROVE CustodyInv'
  <2>1. QueueInv' /\ \A x \in Tasks : Queued(x)' <=> Queued(x)
    BY <1>9 DEF DropFault, Fault, Return, QueueInv, Queued
  <2>2. OneHolder'
    BY <1>9, <2>1 DEF DropFault, Fault, Return, OneHolder, IdleInv, Unheld, RowType,
       QueueType, WorkType, ScanType
  <2>3. StatusInv'
    BY <1>9, <2>1 DEF DropFault, Fault, Return, StatusInv, OneHolder, IdleInv, Unheld,
       RowType, QueueType, WorkType, ScanType
  <2>4. IdleInv'
    BY <1>9, <2>1 DEF DropFault, Fault, Return, IdleInv, Unheld, StatusInv, OneHolder,
       RowType, QueueType, WorkType, ScanType
  <2> QED BY <2>1, <2>2, <2>3, <2>4
<1>10. ASSUME NEW w \in Workers, PanicFault(w) PROVE CustodyInv'
  <2>0. wpc[w] \in {"load", "save", "start", "check", "write"}
    BY <1>10 DEF PanicFault
  <2>1. QueueInv' /\ \A x \in Tasks : Queued(x)' <=> Queued(x)
    BY <1>10 DEF PanicFault, Fault, Goto, QueueInv, Queued
  <2>2. OneHolder'
    BY <1>10, <2>0, <2>1 DEF PanicFault, Fault, Goto, OneHolder, IdleInv, Unheld, RowType,
       QueueType, WorkType, ScanType
  <2>3. StatusInv'
    BY <1>10, <2>0, <2>1 DEF PanicFault, Fault, Goto, StatusInv, OneHolder, IdleInv, Unheld,
       RowType, QueueType, WorkType, ScanType
  <2>4. IdleInv'
    BY <1>10, <2>0, <2>1 DEF PanicFault, Fault, Goto, IdleInv, Unheld, StatusInv, OneHolder,
       RowType, QueueType, WorkType, ScanType
  <2> QED BY <2>1, <2>2, <2>3, <2>4
<1>11. ASSUME NEW w \in Workers, Start(w) PROVE CustodyInv'
  <2>1. CASE wtask[w] \in Broken
    <3>1. QueueInv' /\ \A x \in Tasks : Queued(x)' <=> Queued(x)
      BY <1>11, <2>1 DEF Start, Goto, QueueInv, Queued
    <3>2. OneHolder'
      BY <1>11, <2>1, <3>1 DEF Start, Goto, OneHolder, IdleInv, Unheld, RowType,
         QueueType, WorkType, ScanType
    <3>3. StatusInv'
      BY <1>11, <2>1, <3>1 DEF Start, Goto, StatusInv, OneHolder, IdleInv, Unheld,
         RowType, QueueType, WorkType, ScanType
    <3>4. IdleInv'
      BY <1>11, <2>1, <3>1 DEF Start, Goto, IdleInv, Unheld, StatusInv, OneHolder,
         RowType, QueueType, WorkType, ScanType
    <3> QED BY <3>1, <3>2, <3>3, <3>4
  <2>2. CASE ~(wtask[w] \in Broken)
    <3>1. QueueInv' /\ \A x \in Tasks : Queued(x)' <=> Queued(x)
      BY <1>11, <2>2 DEF Start, Goto, QueueInv, Queued
    <3>2. OneHolder'
      BY <1>11, <2>2, <3>1 DEF Start, Goto, OneHolder, IdleInv, Unheld, RowType,
         QueueType, WorkType, ScanType
    <3>3. StatusInv'
      BY <1>11, <2>2, <3>1 DEF Start, Goto, StatusInv, OneHolder, IdleInv, Unheld,
         RowType, QueueType, WorkType, ScanType
    <3>4. IdleInv'
      BY <1>11, <2>2, <3>1 DEF Start, Goto, IdleInv, Unheld, StatusInv, OneHolder,
         RowType, QueueType, WorkType, ScanType
    <3> QED BY <3>1, <3>2, <3>3, <3>4
  <2> QED BY <2>1, <2>2
<1>12. ASSUME NEW w \in Workers, ExecEnd(w) PROVE CustodyInv'
  <2>1. QueueInv' /\ \A x \in Tasks : Queued(x)' <=> Queued(x)
    BY <1>12 DEF ExecEnd, Goto, QueueInv, Queued
  <2>2. OneHolder'
    BY <1>12, <2>1 DEF ExecEnd, Goto, OneHolder, IdleInv, Unheld, RowType, QueueType,
       WorkType, ScanType
  <2>3. StatusInv'
    BY <1>12, <2>1 DEF ExecEnd, Goto, StatusInv, OneHolder, IdleInv, Unheld, RowType,
       QueueType, WorkType, ScanType
  <2>4. IdleInv'
    BY <1>12, <2>1 DEF ExecEnd, Goto, IdleInv, Unheld, StatusInv, OneHolder, RowType,
       QueueType, WorkType, ScanType
  <2> QED BY <2>1, <2>2, <2>3, <2>4
<1>13. ASSUME NEW w \in Workers, ExecTimeout(w) PROVE CustodyInv'
  <2>1. QueueInv' /\ \A x \in Tasks : Queued(x)' <=> Queued(x)
    BY <1>13 DEF ExecTimeout, Goto, QueueInv, Queued
  <2>2. OneHolder'
    BY <1>13, <2>1 DEF ExecTimeout, Goto, OneHolder, IdleInv, Unheld, RowType,
       QueueType, WorkType, ScanType
  <2>3. StatusInv'
    BY <1>13, <2>1 DEF ExecTimeout, Goto, StatusInv, OneHolder, IdleInv, Unheld,
       RowType, QueueType, WorkType, ScanType
  <2>4. IdleInv'
    BY <1>13, <2>1 DEF ExecTimeout, Goto, IdleInv, Unheld, StatusInv, OneHolder,
       RowType, QueueType, WorkType, ScanType
  <2> QED BY <2>1, <2>2, <2>3, <2>4
<1>14. ASSUME NEW w \in Workers, Check(w) PROVE CustodyInv'
  <2>1. QueueInv' /\ \A x \in Tasks : Queued(x)' <=> Queued(x)
    BY <1>14 DEF Check, Goto, QueueInv, Queued
  <2>2. OneHolder'
    BY <1>14, <2>1 DEF Check, Goto, OneHolder, IdleInv, Unheld, RowType, QueueType,
       WorkType, ScanType
  <2>3. StatusInv'
    BY <1>14, <2>1 DEF Check, Goto, StatusInv, OneHolder, IdleInv, Unheld, RowType,
       QueueType, WorkType, ScanType
  <2>4. IdleInv'
    BY <1>14, <2>1 DEF Check, Goto, IdleInv, Unheld, StatusInv, OneHolder, RowType,
       QueueType, WorkType, ScanType
  <2> QED BY <2>1, <2>2, <2>3, <2>4
<1>15. ASSUME NEW w \in Workers, CheckFault(w) PROVE CustodyInv'
  <2>1. QueueInv' /\ \A x \in Tasks : Queued(x)' <=> Queued(x)
    BY <1>15 DEF CheckFault, Fault, Goto, QueueInv, Queued
  <2>2. OneHolder'
    BY <1>15, <2>1 DEF CheckFault, Fault, Goto, OneHolder, IdleInv, Unheld, RowType,
       QueueType, WorkType, ScanType
  <2>3. StatusInv'
    BY <1>15, <2>1 DEF CheckFault, Fault, Goto, StatusInv, OneHolder, IdleInv, Unheld,
       RowType, QueueType, WorkType, ScanType
  <2>4. IdleInv'
    BY <1>15, <2>1 DEF CheckFault, Fault, Goto, IdleInv, Unheld, StatusInv, OneHolder,
       RowType, QueueType, WorkType, ScanType
  <2> QED BY <2>1, <2>2, <2>3, <2>4
<1>16. ASSUME NEW w \in Workers, Write(w) PROVE CustodyInv'
  <2>1. QueueInv' /\ \A x \in Tasks : Queued(x)' <=> Queued(x)
    BY <1>16 DEF Write, Goto, Updated, QueueInv, Queued
  <2>2. OneHolder'
    BY <1>16, <2>1 DEF Write, Goto, Updated, OneHolder, IdleInv, Unheld, RowType,
       QueueType, WorkType, ScanType
  <2>3. StatusInv'
    BY <1>16, <2>1 DEF Write, Goto, Updated, StatusInv, OneHolder, IdleInv, Unheld,
       RowType, QueueType, WorkType, ScanType
  <2>4. IdleInv'
    BY <1>16, <2>1 DEF Write, Goto, Updated, IdleInv, Unheld, StatusInv, OneHolder,
       RowType, QueueType, WorkType, ScanType
  <2> QED BY <2>1, <2>2, <2>3, <2>4
<1>17. ASSUME NEW w \in Workers, WriteFail(w) PROVE CustodyInv'
  <2>1. QueueInv' /\ \A x \in Tasks : Queued(x)' <=> Queued(x)
    BY <1>17 DEF WriteFail, Return, Updated, QueueInv, Queued
  <2>2. OneHolder'
    BY <1>17, <2>1 DEF WriteFail, Return, Updated, OneHolder, IdleInv, Unheld, RowType,
       QueueType, WorkType, ScanType
  <2>3. StatusInv'
    BY <1>17, <2>1 DEF WriteFail, Return, Updated, StatusInv, OneHolder, IdleInv,
       Unheld, RowType, QueueType, WorkType, ScanType
  <2>4. IdleInv'
    BY <1>17, <2>1 DEF WriteFail, Return, Updated, IdleInv, Unheld, StatusInv,
       OneHolder, RowType, QueueType, WorkType, ScanType
  <2> QED BY <2>1, <2>2, <2>3, <2>4
<1>18. ASSUME NEW w \in Workers, WriteFault(w) PROVE CustodyInv'
  <2>1. CASE wpc[w] = "write"
    <3>1. /\ wpc'[w] = "cleanup" /\ wtask' = wtask /\ UNCHANGED <<row, spc, queue, retry, life>>
          /\ \A v \in Workers \ {w} : wpc'[v] = wpc[v]
      BY <1>18, <2>1 DEF WriteFault, Goto, WorkType
    <3>2. \A v \in Workers, x \in Tasks :
            (Loading(v, x)' => Loading(v, x)) /\ (Running(v, x)' => Running(v, x))
      BY <3>1
    <3>3. QueueInv' /\ \A x \in Tasks : Queued(x)' <=> Queued(x)
      BY <3>1 DEF QueueInv, Queued
    <3>3a. \A x \in Tasks : (Submitting(x)' <=> Submitting(x)) /\ (Resetting(x)' <=>
       Resetting(x))
      BY <3>1
    <3>3b. \A x \in Tasks : Requeuing(x)' <=> Requeuing(x)
      BY <3>1
    <3> HIDE DEF Submitting, Loading, Running, Resetting, Requeuing
    <3>4. OneHolder'
      BY <3>2, <3>3, <3>3a, <3>3b DEF OneHolder
    <3>5. StatusInv' /\ IdleInv'
      BY <3>1, <3>2, <3>3, <3>3a, <3>3b DEF StatusInv, IdleInv, Unheld
    <3> QED BY <3>3, <3>4, <3>5
  <2>2. CASE ~(wpc[w] = "write")
    <3>1. /\ wpc'[w] = "idle" /\ UNCHANGED <<row, spc, queue, retry, life>>
          /\ \A v \in Workers \ {w} : wpc'[v] = wpc[v] /\ wtask'[v] = wtask[v]
      BY <1>18, <2>2 DEF WriteFault, Fault, Return, WorkType
    <3>2. \A v \in Workers, x \in Tasks :
            (Loading(v, x)' => Loading(v, x)) /\ (Running(v, x)' => Running(v, x))
      BY <3>1
    <3>3. QueueInv' /\ \A x \in Tasks : Queued(x)' <=> Queued(x)
      BY <3>1 DEF QueueInv, Queued
    <3>3a. \A x \in Tasks : (Submitting(x)' <=> Submitting(x)) /\ (Resetting(x)' <=>
       Resetting(x))
      BY <3>1
    <3>3b. \A x \in Tasks : Requeuing(x)' <=> Requeuing(x)
      BY <3>1
    <3> HIDE DEF Submitting, Loading, Running, Resetting, Requeuing
    <3>4. OneHolder'
      BY <3>2, <3>3, <3>3a, <3>3b DEF OneHolder
    <3>5. StatusInv' /\ IdleInv'
      BY <3>1, <3>2, <3>3, <3>3a, <3>3b DEF StatusInv, IdleInv, Unheld
    <3> QED BY <3>3, <3>4, <3>5
  <2> QED BY <2>1, <2>2
<1>19. ASSUME NEW w \in Workers, Cleanup(w) PROVE CustodyInv'
  <2>1. QueueInv' /\ \A x \in Tasks : Queued(x)' <=> Queued(x)
    BY <1>19 DEF Cleanup, Return, QueueInv, Queued
  <2>2. OneHolder'
    BY <1>19, <2>1 DEF Cleanup, Return, OneHolder, IdleInv, Unheld, RowType, QueueType,
       WorkType, ScanType
  <2>3. StatusInv'
    BY <1>19, <2>1 DEF Cleanup, Return, StatusInv, OneHolder, IdleInv, Unheld, RowType,
       QueueType, WorkType, ScanType
  <2>4. IdleInv'
    BY <1>19, <2>1 DEF Cleanup, Return, IdleInv, Unheld, StatusInv, OneHolder, RowType,
       QueueType, WorkType, ScanType
  <2> QED BY <2>1, <2>2, <2>3, <2>4
<1>20. ASSUME NEW t \in Tasks, ZombieEnd(t) PROVE CustodyInv'
  <2>1. QueueInv' /\ \A x \in Tasks : Queued(x)' <=> Queued(x)
    BY <1>20 DEF ZombieEnd, QueueInv, Queued
  <2>2. OneHolder'
    BY <1>20, <2>1 DEF ZombieEnd, OneHolder, IdleInv, Unheld, RowType, QueueType,
       WorkType, ScanType
  <2>3. StatusInv'
    BY <1>20, <2>1 DEF ZombieEnd, StatusInv, OneHolder, IdleInv, Unheld, RowType,
       QueueType, WorkType, ScanType
  <2>4. IdleInv'
    BY <1>20, <2>1 DEF ZombieEnd, IdleInv, Unheld, StatusInv, OneHolder, RowType,
       QueueType, WorkType, ScanType
  <2> QED BY <2>1, <2>2, <2>3, <2>4
<1>21. CASE ScanQuery
  <2>1. QueueInv' /\ \A x \in Tasks : Queued(x)' <=> Queued(x)
    BY <1>21 DEF ScanQuery, Retryable, QueueInv, Queued
  <2>2. OneHolder'
    BY <1>21, <2>1 DEF ScanQuery, Retryable, OneHolder, IdleInv, Unheld, RowType,
       QueueType, WorkType, ScanType
  <2>3. StatusInv'
    BY <1>21, <2>1 DEF ScanQuery, Retryable, StatusInv, OneHolder, IdleInv, Unheld,
       RowType, QueueType, WorkType, ScanType
  <2>4. IdleInv'
    <3>1. \A x \in Tasks : Unheld(x)' <=> Unheld(x)
      BY <1>21, <2>1 DEF ScanQuery, Unheld
    <3>2. ASSUME NEW x \in Tasks, Retryable(x) PROVE Unheld(x) /\ spc[x] # "new"
      BY <1>21, <3>2 DEF ScanQuery, Retryable, StatusInv, IdleInv, Unheld
    <3> QED BY <1>21, <3>1, <3>2 DEF ScanQuery, Retryable, IdleInv
  <2> QED BY <2>1, <2>2, <2>3, <2>4
<1>22. ASSUME NEW t \in Tasks, ScanClaim(t) PROVE CustodyInv'
  <2>1. QueueInv' /\ \A x \in Tasks : Queued(x)' <=> Queued(x)
    BY <1>22 DEF ScanClaim, Claimable, QueueInv, Queued
  <2>2. OneHolder'
    BY <1>22, <2>1 DEF ScanClaim, Claimable, OneHolder, IdleInv, Unheld, RowType,
       QueueType, WorkType, ScanType
  <2>3. StatusInv'
    BY <1>22, <2>1 DEF ScanClaim, Claimable, StatusInv, OneHolder, IdleInv, Unheld,
       RowType, QueueType, WorkType, ScanType
  <2>4. IdleInv'
    BY <1>22, <2>1 DEF ScanClaim, Claimable, IdleInv, Unheld, StatusInv, OneHolder,
       RowType, QueueType, WorkType, ScanType
  <2> QED BY <2>1, <2>2, <2>3, <2>4
<1>23. ASSUME NEW t \in Tasks, ScanClaimFault(t) PROVE CustodyInv'
  <2>1. QueueInv' /\ \A x \in Tasks : Queued(x)' <=> Queued(x)
    BY <1>23 DEF ScanClaimFault, Fault, QueueInv, Queued
  <2>2. OneHolder'
    BY <1>23, <2>1 DEF ScanClaimFault, Fault, OneHolder, IdleInv, Unheld, RowType,
       QueueType, WorkType, ScanType
  <2>3. StatusInv'
    BY <1>23, <2>1 DEF ScanClaimFault, Fault, StatusInv, OneHolder, IdleInv, Unheld,
       RowType, QueueType, WorkType, ScanType
  <2>4. IdleInv'
    BY <1>23, <2>1 DEF ScanClaimFault, Fault, IdleInv, Unheld, StatusInv, OneHolder,
       RowType, QueueType, WorkType, ScanType
  <2> QED BY <2>1, <2>2, <2>3, <2>4
<1>24. CASE ScanReset
  <2>1. QueueInv' /\ \A x \in Tasks : Queued(x)' <=> Queued(x)
    BY <1>24 DEF ScanReset, Updated, QueueInv, Queued
  <2>2. OneHolder'
    BY <1>24, <2>1 DEF ScanReset, Updated, OneHolder, IdleInv, Unheld, RowType,
       QueueType, WorkType, ScanType
  <2>3. StatusInv'
    BY <1>24, <2>1 DEF ScanReset, Updated, StatusInv, OneHolder, IdleInv, Unheld,
       RowType, QueueType, WorkType, ScanType
  <2>4. IdleInv'
    BY <1>24, <2>1 DEF ScanReset, Updated, IdleInv, Unheld, StatusInv, OneHolder,
       RowType, QueueType, WorkType, ScanType
  <2> QED BY <2>1, <2>2, <2>3, <2>4
<1>25. CASE ScanResetFault
  <2>1. QueueInv' /\ \A x \in Tasks : Queued(x)' <=> Queued(x)
    BY <1>25 DEF ScanResetFault, Fault, NextCand, QueueInv, Queued
  <2>2. OneHolder'
    BY <1>25, <2>1 DEF ScanResetFault, Fault, NextCand, OneHolder, IdleInv, Unheld,
       RowType, QueueType, WorkType, ScanType
  <2>3. StatusInv'
    BY <1>25, <2>1 DEF ScanResetFault, Fault, NextCand, StatusInv, OneHolder, IdleInv,
       Unheld, RowType, QueueType, WorkType, ScanType
  <2>4. IdleInv'
    BY <1>25, <2>1 DEF ScanResetFault, Fault, NextCand, IdleInv, Unheld, StatusInv,
       OneHolder, RowType, QueueType, WorkType, ScanType
  <2> QED BY <2>1, <2>2, <2>3, <2>4
<1>26. CASE ScanSend
  <2>1. cur \in Tasks /\ Requeuing(cur)
    BY <1>26 DEF ScanSend, ScanType
  <2>2. CASE HasRoom(cur)
    <3>1. /\ queue' = Pushed(cur) /\ scan' \in {"idle", "claim"} /\ cur' = None
          /\ up /\ UNCHANGED <<row, spc, work, cands, life>>
      BY <1>26, <2>2 DEF ScanSend, NextCand
    <3>2. ~Queued(cur)
      BY <2>1 DEF OneHolder
    <3>3. QueueInv' /\ \A x \in Tasks : Queued(x)' <=> Queued(x) \/ x = cur
      BY <2>1, <3>1, <3>2, PushQueued
    <3>4. \A x \in Tasks : ~Retrying(x)'
      BY <3>1
    <3>5. OneHolder' /\ StatusInv'
      BY <2>1, <3>1, <3>3, <3>4 DEF OneHolder, StatusInv
    <3>6. cur \notin cands /\ spc[cur] # "new"
      BY <2>1 DEF IdleInv, Unheld
    <3>7. IdleInv'
      BY <2>1, <3>1, <3>3, <3>4, <3>6 DEF IdleInv, Unheld
    <3> QED BY <3>3, <3>5, <3>7
  <2>3. CASE ~HasRoom(cur)
    <3>1. /\ scan = "try" /\ scan' = "wait"
          /\ UNCHANGED <<row, spc, queue, work, cur, cands, life>>
      BY <1>26, <2>3 DEF ScanSend
    <3>2. QueueInv' /\ \A x \in Tasks : Queued(x)' <=> Queued(x)
      BY <3>1 DEF QueueInv, Queued
    <3>3. OneHolder' /\ StatusInv' /\ IdleInv'
      BY <3>1, <3>2 DEF OneHolder, StatusInv, IdleInv, Unheld
    <3> QED BY <3>2, <3>3
  <2> QED BY <2>2, <2>3
<1>27. CASE ScanTimeout
  <2>1. QueueInv' /\ \A x \in Tasks : Queued(x)' <=> Queued(x)
    BY <1>27 DEF ScanTimeout, QueueInv, Queued
  <2>2. OneHolder'
    BY <1>27, <2>1 DEF ScanTimeout, OneHolder, IdleInv, Unheld, RowType, QueueType,
       WorkType, ScanType
  <2>3. StatusInv'
    BY <1>27, <2>1 DEF ScanTimeout, StatusInv, OneHolder, IdleInv, Unheld, RowType,
       QueueType, WorkType, ScanType
  <2>4. IdleInv'
    BY <1>27, <2>1 DEF ScanTimeout, IdleInv, Unheld, StatusInv, OneHolder, RowType,
       QueueType, WorkType, ScanType
  <2> QED BY <2>1, <2>2, <2>3, <2>4
<1>28. CASE ScanFail
  <2>1. QueueInv' /\ \A x \in Tasks : Queued(x)' <=> Queued(x)
    BY <1>28 DEF ScanFail, Updated, NextCand, QueueInv, Queued
  <2>2. OneHolder'
    BY <1>28, <2>1 DEF ScanFail, Updated, NextCand, OneHolder, IdleInv, Unheld, RowType,
       QueueType, WorkType, ScanType
  <2>3. StatusInv'
    BY <1>28, <2>1 DEF ScanFail, Updated, NextCand, StatusInv, OneHolder, IdleInv,
       Unheld, RowType, QueueType, WorkType, ScanType
  <2>4. IdleInv'
    BY <1>28, <2>1 DEF ScanFail, Updated, NextCand, IdleInv, Unheld, StatusInv,
       OneHolder, RowType, QueueType, WorkType, ScanType
  <2> QED BY <2>1, <2>2, <2>3, <2>4
<1>29. ASSUME NEW t \in Tasks, CancelRow(t) PROVE CustodyInv'
  <2>1. QueueInv' /\ \A x \in Tasks : Queued(x)' <=> Queued(x)
    BY <1>29 DEF CancelRow, QueueInv, Queued
  <2>2. OneHolder'
    BY <1>29, <2>1 DEF CancelRow, OneHolder, IdleInv, Unheld, RowType, QueueType,
       WorkType, ScanType
  <2>3. StatusInv'
    BY <1>29, <2>1 DEF CancelRow, StatusInv, OneHolder, IdleInv, Unheld, RowType,
       QueueType, WorkType, ScanType
  <2>4. IdleInv'
    BY <1>29, <2>1 DEF CancelRow, IdleInv, Unheld, StatusInv, OneHolder, RowType,
       QueueType, WorkType, ScanType
  <2> QED BY <2>1, <2>2, <2>3, <2>4
<1>30. ASSUME NEW t \in Tasks, CancelSignal(t) PROVE CustodyInv'
  <2>1. QueueInv' /\ \A x \in Tasks : Queued(x)' <=> Queued(x)
    BY <1>30 DEF CancelSignal, QueueInv, Queued
  <2>2. OneHolder'
    BY <1>30, <2>1 DEF CancelSignal, OneHolder, IdleInv, Unheld, RowType, QueueType,
       WorkType, ScanType
  <2>3. StatusInv'
    BY <1>30, <2>1 DEF CancelSignal, StatusInv, OneHolder, IdleInv, Unheld, RowType,
       QueueType, WorkType, ScanType
  <2>4. IdleInv'
    BY <1>30, <2>1 DEF CancelSignal, IdleInv, Unheld, StatusInv, OneHolder, RowType,
       QueueType, WorkType, ScanType
  <2> QED BY <2>1, <2>2, <2>3, <2>4
<1>31. ASSUME NEW t \in Tasks, DeleteRead(t) PROVE CustodyInv'
  <2>1. QueueInv' /\ \A x \in Tasks : Queued(x)' <=> Queued(x)
    BY <1>31 DEF DeleteRead, QueueInv, Queued
  <2>2. OneHolder'
    BY <1>31, <2>1 DEF DeleteRead, OneHolder, IdleInv, Unheld, RowType, QueueType,
       WorkType, ScanType
  <2>3. StatusInv'
    BY <1>31, <2>1 DEF DeleteRead, StatusInv, OneHolder, IdleInv, Unheld, RowType,
       QueueType, WorkType, ScanType
  <2>4. IdleInv'
    BY <1>31, <2>1 DEF DeleteRead, IdleInv, Unheld, StatusInv, OneHolder, RowType,
       QueueType, WorkType, ScanType
  <2> QED BY <2>1, <2>2, <2>3, <2>4
<1>32. ASSUME NEW t \in Tasks, DeleteRow(t) PROVE CustodyInv'
  <2>1. QueueInv' /\ \A x \in Tasks : Queued(x)' <=> Queued(x)
    BY <1>32 DEF DeleteRow, QueueInv, Queued
  <2>2. OneHolder'
    BY <1>32, <2>1 DEF DeleteRow, OneHolder, IdleInv, Unheld, RowType, QueueType,
       WorkType, ScanType
  <2>3. StatusInv'
    BY <1>32, <2>1 DEF DeleteRow, StatusInv, OneHolder, IdleInv, Unheld, RowType,
       QueueType, WorkType, ScanType
  <2>4. IdleInv'
    BY <1>32, <2>1 DEF DeleteRow, IdleInv, Unheld, StatusInv, OneHolder, RowType,
       QueueType, WorkType, ScanType
  <2> QED BY <2>1, <2>2, <2>3, <2>4
<1>33. CASE Crash
  <2>1. /\ queue' = [p \in Pools |-> <<>>] /\ cands' = {} /\ scan' = "idle"
        /\ wpc' = [v \in Workers |-> "idle"] /\ status' = status
        /\ spc' = [t \in Tasks |-> IF Submitting(t) THEN "lost" ELSE spc[t]]
    BY <1>33 DEF Crash
  <2>2. QueueInv' /\ \A x \in Tasks : ~Queued(x)'
    BY <2>1, PoolAssumption DEF QueueInv, Queued
  <2>3. \A x \in Tasks : /\ ~Submitting(x)' /\ ~Retrying(x)'
                         /\ \A v \in Workers : ~Working(v, x)'
    BY <2>1
  <2>4. \A x \in Tasks : Unheld(x)' /\ (spc'[x] = "new" => spc[x] = "new")
    BY <2>1, <2>2, <2>3 DEF Unheld
  <2> HIDE DEF Submitting, Working, Loading, Running, Retrying, Resetting, Requeuing
  <2>5. OneHolder'
    BY <2>2, <2>3 DEF OneHolder
  <2>6. StatusInv'
    BY <2>2, <2>3 DEF StatusInv, Working, Retrying
  <2>7. IdleInv'
    BY <2>1, <2>4 DEF IdleInv
  <2> QED BY <2>2, <2>5, <2>6, <2>7
<1>34. CASE SweepStaleRecords
  <2>1. QueueInv' /\ \A x \in Tasks : Queued(x)' <=> Queued(x)
    BY <1>34 DEF SweepStaleRecords, Swept, Active, QueueInv, Queued
  <2>2. OneHolder'
    BY <1>34, <2>1 DEF SweepStaleRecords, Swept, Active, OneHolder, IdleInv, Unheld,
       RowType, QueueType, WorkType, ScanType
  <2>3. StatusInv'
    BY <1>34, <2>1 DEF SweepStaleRecords, Swept, Active, StatusInv, OneHolder, IdleInv,
       Unheld, RowType, QueueType, WorkType, ScanType
  <2>4. IdleInv'
    BY <1>34, <2>1 DEF SweepStaleRecords, Swept, Active, IdleInv, Unheld, StatusInv,
       OneHolder, RowType, QueueType, WorkType, ScanType
  <2> QED BY <2>1, <2>2, <2>3, <2>4
<1>35. CASE SweepOrphanRunning
  <2>1. QueueInv' /\ \A x \in Tasks : Queued(x)' <=> Queued(x)
    BY <1>35 DEF SweepOrphanRunning, Swept, Active, QueueInv, Queued
  <2>2. OneHolder'
    BY <1>35, <2>1 DEF SweepOrphanRunning, Swept, Active, OneHolder, IdleInv, Unheld,
       RowType, QueueType, WorkType, ScanType
  <2>3. StatusInv'
    BY <1>35, <2>1 DEF SweepOrphanRunning, Swept, Active, StatusInv, OneHolder, IdleInv,
       Unheld, RowType, QueueType, WorkType, ScanType
  <2>4. IdleInv'
    BY <1>35, <2>1 DEF SweepOrphanRunning, Swept, Active, IdleInv, Unheld, StatusInv,
       OneHolder, RowType, QueueType, WorkType, ScanType
  <2> QED BY <2>1, <2>2, <2>3, <2>4
<1>36. CASE SweepFault
  <2>1. QueueInv' /\ \A x \in Tasks : Queued(x)' <=> Queued(x)
    BY <1>36 DEF SweepFault, QueueInv, Queued
  <2>2. OneHolder'
    BY <1>36, <2>1 DEF SweepFault, OneHolder, IdleInv, Unheld, RowType, QueueType,
       WorkType, ScanType
  <2>3. StatusInv'
    BY <1>36, <2>1 DEF SweepFault, StatusInv, OneHolder, IdleInv, Unheld, RowType,
       QueueType, WorkType, ScanType
  <2>4. IdleInv'
    BY <1>36, <2>1 DEF SweepFault, IdleInv, Unheld, StatusInv, OneHolder, RowType,
       QueueType, WorkType, ScanType
  <2> QED BY <2>1, <2>2, <2>3, <2>4
<1>37. CASE UNCHANGED vars
  BY <1>37 DEF vars, QueueInv, OneHolder, StatusInv, IdleInv, Unheld, Queued
<1> QED
  BY <1>1, <1>2, <1>3, <1>4, <1>5, <1>6, <1>7, <1>8, <1>9, <1>10, <1>11, <1>12, <1>13,
     <1>14, <1>15, <1>16, <1>17, <1>18, <1>19, <1>20, <1>21, <1>22, <1>23, <1>24, <1>25,
     <1>26, <1>27, <1>28, <1>29, <1>30, <1>31, <1>32, <1>33, <1>34, <1>35, <1>36, <1>37
  DEF Next, Submit, Run, WorkerFault, ScanStep

(***************************************************************************)
(* The budget of executions                                                *)
(***************************************************************************)
\* A step that hands rights on or lets them lapse, and grants and uses none.
Quiet ==
  /\ starts' = starts /\ retries' = retries
  /\ \A x \in Tasks : spc'[x] = "new" <=> spc[x] = "new"
  /\ \A x \in Tasks : Due(x)' => Due(x)

\* A worker that begins an execution gives up the right to it.
Used(w) ==
  /\ Start(w)
  /\ \A x \in Tasks : Due(x)' => Due(x) /\ x # wtask[w]

\* Only a submission and a reset by the scanner give a task a right to be executed.
LEMMA DueStep ==
  ASSUME TypeOK, CustodyInv, SeenInv, [Next]_vars, ~slipped'
  PROVE  \/ \E t \in Tasks : SubmitCreate(t)
         \/ ScanReset
         \/ \E w \in Workers : Used(w)
         \/ Quiet
<1> USE DEF TypeOK, CustodyInv, row, work, retry, users, env, hist, Submitting, Working,
        Loading, Running, Retrying, Resetting, Requeuing, up
<1>1. ASSUME NEW t \in Tasks, SubmitSend(t) PROVE Quiet
  <2>1. \A x \in Tasks : Due(x)' => Due(x)
    <3>1. CASE HasRoom(t)
      <4>1. Submitting(t) /\ ~Queued(t)
        BY <1>1 DEF SubmitSend, OneHolder
      <4>2. \A x \in Tasks : Queued(x)' <=> Queued(x) \/ x = t
        BY <1>1, <3>1, <4>1, PushQueued DEF SubmitSend
      <4> QED BY <1>1, <3>1, <4>1, <4>2 DEF SubmitSend, Due, QueueType
    <3>2. CASE ~HasRoom(t)
      <4>1. \A x \in Tasks : Queued(x)' => Queued(x)
        BY <1>1, <3>2 DEF SubmitSend, Queued
      <4> QED BY <1>1, <3>2, <4>1 DEF SubmitSend, Due, QueueType
    <3> QED BY <3>1, <3>2
  <2>2. \A x \in Tasks : spc'[x] = "new" <=> spc[x] = "new"
    BY <1>1 DEF SubmitSend, QueueType
  <2> QED BY <1>1, <2>1, <2>2 DEF SubmitSend, Quiet
<1>2. ASSUME NEW t \in Tasks, SubmitTimeout(t) PROVE Quiet
  <2>1. \A x \in Tasks : Due(x)' => Due(x)
    <3>1. \A x \in Tasks : Queued(x)' => Queued(x)
      BY <1>2 DEF SubmitTimeout, Queued
    <3> QED BY <1>2, <3>1 DEF SubmitTimeout, Due, RowType, QueueType, WorkType, ScanType
  <2>2. \A x \in Tasks : spc'[x] = "new" <=> spc[x] = "new"
    BY <1>2 DEF SubmitTimeout, QueueType
  <2> QED BY <1>2, <2>1, <2>2 DEF SubmitTimeout, Quiet
<1>3. ASSUME NEW t \in Tasks, SubmitReject(t) PROVE Quiet
  <2>1. \A x \in Tasks : Due(x)' => Due(x)
    <3>1. \A x \in Tasks : Queued(x)' => Queued(x)
      BY <1>3 DEF SubmitReject, Updated, Queued
    <3> QED BY <1>3, <3>1 DEF SubmitReject, Updated, Due, RowType, QueueType, WorkType,
       ScanType
  <2>2. \A x \in Tasks : spc'[x] = "new" <=> spc[x] = "new"
    BY <1>3 DEF SubmitReject, QueueType
  <2> QED BY <1>3, <2>1, <2>2 DEF SubmitReject, Quiet
<1>4. ASSUME NEW t \in Tasks, SubmitRejectFault(t) PROVE Quiet
  <2>1. \A x \in Tasks : Due(x)' => Due(x)
    <3>1. \A x \in Tasks : Queued(x)' => Queued(x)
      BY <1>4 DEF SubmitRejectFault, Fault, Queued
    <3> QED BY <1>4, <3>1 DEF SubmitRejectFault, Fault, Due, RowType, QueueType, WorkType,
       ScanType
  <2>2. \A x \in Tasks : spc'[x] = "new" <=> spc[x] = "new"
    BY <1>4 DEF SubmitRejectFault, QueueType
  <2> QED BY <1>4, <2>1, <2>2 DEF SubmitRejectFault, Quiet
<1>5. ASSUME NEW w \in Workers, Dequeue(w) PROVE Quiet
  <2>1. \A x \in Tasks : Due(x)' => Due(x)
    <3> DEFINE h == Head(queue[WPool[w]])
    <3>1. WPool[w] \in Pools /\ h \in Tasks
      BY <1>5, PoolAssumption, PopType DEF Dequeue
    <3>2. Queued(h) /\ \A x \in Tasks : Queued(x)' <=> Queued(x) /\ x # h
      BY <1>5, <3>1, PopQueued DEF Dequeue
    <3>3. /\ wpc' = [wpc EXCEPT ![w] = "load"] /\ wtask' = [wtask EXCEPT ![w] = h]
          /\ status' = status /\ spc' = spc /\ cur' = cur /\ scan' = scan
      BY <1>5 DEF Dequeue
    <3> HIDE DEF h
    <3>4. /\ wpc'[w] = "load" /\ wtask'[w] = h
          /\ \A v \in Workers \ {w} : wpc'[v] = wpc[v] /\ wtask'[v] = wtask[v]
      BY <3>3 DEF WorkType
    <3> QED BY <3>2, <3>3, <3>4 DEF Due
  <2> QED BY <1>5, <2>1 DEF Dequeue, Quiet
<1>6. ASSUME NEW w \in Workers, Load(w) PROVE Quiet
  <2>1. \A x \in Tasks : Due(x)' => Due(x)
    <3>1. \A x \in Tasks : Queued(x)' => Queued(x)
      BY <1>6 DEF Load, Queued
    <3>2. /\ wpc[w] = "load" /\ UNCHANGED <<status, spc, cur, scan>>
          /\ \/ status[wtask[w]] = "absent" /\ wpc'[w] = "idle"
             \/ status[wtask[w]] # "absent" /\ wpc'[w] = "save" /\ wtask'[w] = wtask[w]
          /\ \A v \in Workers \ {w} : wpc'[v] = wpc[v] /\ wtask'[v] = wtask[v]
      BY <1>6 DEF Load, Goto, Return, WorkType
    <3> QED BY <3>1, <3>2 DEF Due
  <2> QED BY <1>6, <2>1 DEF Load, Quiet
<1>7. ASSUME NEW w \in Workers, SaveRunning(w) PROVE Quiet
  <2>1. \A x \in Tasks : Due(x)' => Due(x)
    <3>1. \A x \in Tasks : Queued(x)' => Queued(x)
      BY <1>7 DEF SaveRunning, Goto, Queued
    <3> QED BY <1>7, <3>1 DEF SaveRunning, Goto, Due, RowType, QueueType, WorkType, ScanType
  <2>2. wtask[w] \in Tasks /\ wretries[w] = retries[wtask[w]]
    BY <1>7 DEF SaveRunning, WorkType, SeenInv
  <2>3. retries' = retries
    BY <1>7, <2>2 DEF SaveRunning, RowType
  <2> QED BY <1>7, <2>1, <2>3 DEF SaveRunning, Quiet
<1>8. ASSUME NEW w \in Workers, DropFault(w) PROVE Quiet
  <2>1. \A x \in Tasks : Due(x)' => Due(x)
    <3>1. \A x \in Tasks : Queued(x)' => Queued(x)
      BY <1>8 DEF DropFault, Fault, Return, Queued
    <3> QED BY <1>8, <3>1 DEF DropFault, Fault, Return, Due, RowType, QueueType, WorkType,
       ScanType
  <2> QED BY <1>8, <2>1 DEF DropFault, Quiet
<1>9. ASSUME NEW w \in Workers, PanicFault(w) PROVE Quiet
  <2>1. \A x \in Tasks : Due(x)' => Due(x)
    <3>1. \A x \in Tasks : Queued(x)' => Queued(x)
      BY <1>9 DEF PanicFault, Fault, Goto, Queued
    <3> QED BY <1>9, <3>1 DEF PanicFault, Fault, Goto, Due, RowType, QueueType, WorkType,
       ScanType
  <2> QED BY <1>9, <2>1 DEF PanicFault, Quiet
<1>10. ASSUME NEW w \in Workers, Start(w) PROVE Used(w)
  <2>1. \A x \in Tasks : Due(x)' => Due(x)
    <3>1. \A x \in Tasks : Queued(x)' => Queued(x)
      BY <1>10 DEF Start, Goto, Queued
    <3> QED BY <1>10, <3>1 DEF Start, Goto, Due, RowType, QueueType, WorkType, ScanType
  <2>2. ASSUME NEW x \in Tasks, x = wtask[w] PROVE ~Due(x)'
    <3>1. Running(w, x) /\ ~Queued(x)
      BY <1>10, <2>2 DEF Start, OneHolder
    <3>2. ~Queued(x)'
      BY <1>10, <3>1 DEF Start, Queued
    <3> QED BY <1>10, <2>2, <3>1, <3>2 DEF Start, Goto, Due, OneHolder, WorkType
  <2> QED BY <1>10, <2>1, <2>2 DEF Used
<1>11. ASSUME NEW w \in Workers, ExecEnd(w) PROVE Quiet
  <2>1. \A x \in Tasks : Due(x)' => Due(x)
    <3>1. \A x \in Tasks : Queued(x)' => Queued(x)
      BY <1>11 DEF ExecEnd, Goto, Queued
    <3> QED BY <1>11, <3>1 DEF ExecEnd, Goto, Due, RowType, QueueType, WorkType, ScanType
  <2> QED BY <1>11, <2>1 DEF ExecEnd, Quiet
<1>12. ASSUME NEW w \in Workers, ExecTimeout(w) PROVE Quiet
  <2>1. \A x \in Tasks : Due(x)' => Due(x)
    <3>1. \A x \in Tasks : Queued(x)' => Queued(x)
      BY <1>12 DEF ExecTimeout, Goto, Queued
    <3> QED BY <1>12, <3>1 DEF ExecTimeout, Goto, Due, RowType, QueueType, WorkType,
       ScanType
  <2> QED BY <1>12, <2>1 DEF ExecTimeout, Quiet
<1>13. ASSUME NEW w \in Workers, Check(w) PROVE Quiet
  <2>1. \A x \in Tasks : Due(x)' => Due(x)
    <3>1. \A x \in Tasks : Queued(x)' => Queued(x)
      BY <1>13 DEF Check, Goto, Queued
    <3> QED BY <1>13, <3>1 DEF Check, Goto, Due, RowType, QueueType, WorkType, ScanType
  <2> QED BY <1>13, <2>1 DEF Check, Quiet
<1>14. ASSUME NEW w \in Workers, CheckFault(w) PROVE Quiet
  <2>1. \A x \in Tasks : Due(x)' => Due(x)
    <3>1. \A x \in Tasks : Queued(x)' => Queued(x)
      BY <1>14 DEF CheckFault, Fault, Goto, Queued
    <3> QED BY <1>14, <3>1 DEF CheckFault, Fault, Goto, Due, RowType, QueueType, WorkType,
       ScanType
  <2> QED BY <1>14, <2>1 DEF CheckFault, Quiet
<1>15. ASSUME NEW w \in Workers, Write(w) PROVE Quiet
  <2>1. \A x \in Tasks : Due(x)' => Due(x)
    <3>1. \A x \in Tasks : Queued(x)' => Queued(x)
      BY <1>15 DEF Write, Goto, Updated, Queued
    <3> QED BY <1>15, <3>1 DEF Write, Goto, Updated, Due, RowType, QueueType, WorkType,
       ScanType
  <2> QED BY <1>15, <2>1 DEF Write, Quiet
<1>16. ASSUME NEW w \in Workers, WriteFail(w) PROVE Quiet
  <2>1. \A x \in Tasks : Due(x)' => Due(x)
    <3>1. \A x \in Tasks : Queued(x)' => Queued(x)
      BY <1>16 DEF WriteFail, Return, Updated, Queued
    <3> QED BY <1>16, <3>1 DEF WriteFail, Return, Updated, Due, RowType, QueueType,
       WorkType, ScanType
  <2> QED BY <1>16, <2>1 DEF WriteFail, Quiet
<1>17. ASSUME NEW w \in Workers, WriteFault(w) PROVE Quiet
  <2>1. \A x \in Tasks : Due(x)' => Due(x)
    <3>1. \A x \in Tasks : Queued(x)' => Queued(x)
      BY <1>17 DEF WriteFault, Queued
    <3>2. /\ wpc'[w] \in {"cleanup", "idle"} /\ UNCHANGED <<status, spc, cur, scan>>
          /\ \A v \in Workers \ {w} : wpc'[v] = wpc[v] /\ wtask'[v] = wtask[v]
      BY <1>17 DEF WriteFault, Goto, Return, WorkType
    <3> QED BY <3>1, <3>2 DEF Due
  <2> QED BY <1>17, <2>1 DEF WriteFault, Quiet
<1>18. ASSUME NEW w \in Workers, Cleanup(w) PROVE Quiet
  <2>1. \A x \in Tasks : Due(x)' => Due(x)
    <3>1. \A x \in Tasks : Queued(x)' => Queued(x)
      BY <1>18 DEF Cleanup, Return, Queued
    <3> QED BY <1>18, <3>1 DEF Cleanup, Return, Due, RowType, QueueType, WorkType, ScanType
  <2> QED BY <1>18, <2>1 DEF Cleanup, Quiet
<1>19. ASSUME NEW t \in Tasks, ZombieEnd(t) PROVE Quiet
  <2>1. \A x \in Tasks : Due(x)' => Due(x)
    <3>1. \A x \in Tasks : Queued(x)' => Queued(x)
      BY <1>19 DEF ZombieEnd, Queued
    <3> QED BY <1>19, <3>1 DEF ZombieEnd, Due, RowType, QueueType, WorkType, ScanType
  <2> QED BY <1>19, <2>1 DEF ZombieEnd, Quiet
<1>20. CASE ScanQuery
  <2>1. \A x \in Tasks : Due(x)' => Due(x)
    <3>1. \A x \in Tasks : Queued(x)' => Queued(x)
      BY <1>20 DEF ScanQuery, Retryable, Queued
    <3> QED BY <1>20, <3>1 DEF ScanQuery, Retryable, Due, RowType, QueueType, WorkType,
       ScanType
  <2> QED BY <1>20, <2>1 DEF ScanQuery, Quiet
<1>21. ASSUME NEW t \in Tasks, ScanClaim(t) PROVE Quiet
  <2>1. \A x \in Tasks : Due(x)' => Due(x)
    <3>1. \A x \in Tasks : Queued(x)' => Queued(x)
      BY <1>21 DEF ScanClaim, Claimable, Queued
    <3> QED BY <1>21, <3>1 DEF ScanClaim, Claimable, Due, RowType, QueueType, WorkType,
       ScanType
  <2> QED BY <1>21, <2>1 DEF ScanClaim, Quiet
<1>22. ASSUME NEW t \in Tasks, ScanClaimFault(t) PROVE Quiet
  <2>1. \A x \in Tasks : Due(x)' => Due(x)
    <3>1. \A x \in Tasks : Queued(x)' => Queued(x)
      BY <1>22 DEF ScanClaimFault, Fault, Queued
    <3> QED BY <1>22, <3>1 DEF ScanClaimFault, Fault, Due, RowType, QueueType, WorkType,
       ScanType
  <2> QED BY <1>22, <2>1 DEF ScanClaimFault, Quiet
<1>23. CASE ScanResetFault
  <2>1. \A x \in Tasks : Due(x)' => Due(x)
    <3>1. \A x \in Tasks : Queued(x)' => Queued(x)
      BY <1>23 DEF ScanResetFault, Fault, NextCand, Queued
    <3> QED BY <1>23, <3>1 DEF ScanResetFault, Fault, NextCand, Due, RowType, QueueType,
       WorkType, ScanType
  <2> QED BY <1>23, <2>1 DEF ScanResetFault, Quiet
<1>24. CASE ScanSend
  <2>1. \A x \in Tasks : Due(x)' => Due(x)
    <3>1. cur \in Tasks /\ Requeuing(cur)
      BY <1>24 DEF ScanSend, ScanType
    <3>2. CASE HasRoom(cur)
      <4>1. ~Queued(cur)
        BY <3>1 DEF OneHolder
      <4>2. \A x \in Tasks : Queued(x)' <=> Queued(x) \/ x = cur
        BY <1>24, <3>1, <3>2, <4>1, PushQueued DEF ScanSend
      <4> QED BY <1>24, <3>1, <3>2, <4>2 DEF ScanSend, NextCand, Due
    <3>3. CASE ~HasRoom(cur)
      <4>1. \A x \in Tasks : Queued(x)' => Queued(x)
        BY <1>24, <3>3 DEF ScanSend, Queued
      <4> QED BY <1>24, <3>3, <4>1 DEF ScanSend, Due
    <3> QED BY <3>2, <3>3
  <2> QED BY <1>24, <2>1 DEF ScanSend, Quiet
<1>25. CASE ScanTimeout
  <2>1. \A x \in Tasks : Due(x)' => Due(x)
    <3>1. \A x \in Tasks : Queued(x)' => Queued(x)
      BY <1>25 DEF ScanTimeout, Queued
    <3> QED BY <1>25, <3>1 DEF ScanTimeout, Due, RowType, QueueType, WorkType, ScanType
  <2> QED BY <1>25, <2>1 DEF ScanTimeout, Quiet
<1>26. CASE ScanFail
  <2>1. \A x \in Tasks : Due(x)' => Due(x)
    <3>1. \A x \in Tasks : Queued(x)' => Queued(x)
      BY <1>26 DEF ScanFail, Updated, NextCand, Queued
    <3> QED BY <1>26, <3>1 DEF ScanFail, Updated, NextCand, Due, RowType, QueueType,
       WorkType, ScanType
  <2> QED BY <1>26, <2>1 DEF ScanFail, Quiet
<1>27. ASSUME NEW t \in Tasks, CancelRow(t) PROVE Quiet
  <2>1. \A x \in Tasks : Due(x)' => Due(x)
    <3>1. \A x \in Tasks : Queued(x)' => Queued(x)
      BY <1>27 DEF CancelRow, Queued
    <3> QED BY <1>27, <3>1 DEF CancelRow, Due, RowType, QueueType, WorkType, ScanType
  <2> QED BY <1>27, <2>1 DEF CancelRow, Quiet
<1>28. ASSUME NEW t \in Tasks, CancelSignal(t) PROVE Quiet
  <2>1. \A x \in Tasks : Due(x)' => Due(x)
    <3>1. \A x \in Tasks : Queued(x)' => Queued(x)
      BY <1>28 DEF CancelSignal, Queued
    <3> QED BY <1>28, <3>1 DEF CancelSignal, Due, RowType, QueueType, WorkType, ScanType
  <2> QED BY <1>28, <2>1 DEF CancelSignal, Quiet
<1>29. ASSUME NEW t \in Tasks, DeleteRead(t) PROVE Quiet
  <2>1. \A x \in Tasks : Due(x)' => Due(x)
    <3>1. \A x \in Tasks : Queued(x)' => Queued(x)
      BY <1>29 DEF DeleteRead, Queued
    <3> QED BY <1>29, <3>1 DEF DeleteRead, Due, RowType, QueueType, WorkType, ScanType
  <2> QED BY <1>29, <2>1 DEF DeleteRead, Quiet
<1>30. ASSUME NEW t \in Tasks, DeleteRow(t) PROVE Quiet
  <2>1. \A x \in Tasks : Due(x)' => Due(x)
    <3>1. \A x \in Tasks : Queued(x)' => Queued(x)
      BY <1>30 DEF DeleteRow, Queued
    <3> QED BY <1>30, <3>1 DEF DeleteRow, Due, RowType, QueueType, WorkType, ScanType
  <2> QED BY <1>30, <2>1 DEF DeleteRow, Quiet
<1>31. CASE Crash
  <2>1. \A x \in Tasks : Due(x)' => Due(x)
    <3>1. \A x \in Tasks : ~Queued(x)'
      BY <1>31, PoolAssumption DEF Crash, Queued
    <3> QED BY <1>31, <3>1 DEF Crash, Due
  <2>2. \A x \in Tasks : spc'[x] = "new" <=> spc[x] = "new"
    BY <1>31 DEF Crash, QueueType
  <2> QED BY <1>31, <2>1, <2>2 DEF Crash, Quiet
<1>32. CASE SweepStaleRecords
  <2>1. \A x \in Tasks : Due(x)' => Due(x)
    <3>1. \A x \in Tasks : Queued(x)' => Queued(x)
      BY <1>32 DEF SweepStaleRecords, Swept, Active, Queued
    <3> QED BY <1>32, <3>1 DEF SweepStaleRecords, Swept, Active, Due, RowType, QueueType,
       WorkType, ScanType
  <2> QED BY <1>32, <2>1 DEF SweepStaleRecords, Quiet
<1>33. CASE SweepOrphanRunning
  <2>1. \A x \in Tasks : Due(x)' => Due(x)
    <3>1. \A x \in Tasks : Queued(x)' => Queued(x)
      BY <1>33 DEF SweepOrphanRunning, Swept, Active, Queued
    <3> QED BY <1>33, <3>1 DEF SweepOrphanRunning, Swept, Active, Due, RowType, QueueType,
       WorkType, ScanType
  <2> QED BY <1>33, <2>1 DEF SweepOrphanRunning, Quiet
<1>34. CASE SweepFault
  <2>1. \A x \in Tasks : Due(x)' => Due(x)
    <3>1. \A x \in Tasks : Queued(x)' => Queued(x)
      BY <1>34 DEF SweepFault, Queued
    <3> QED BY <1>34, <3>1 DEF SweepFault, Due, RowType, QueueType, WorkType, ScanType
  <2> QED BY <1>34, <2>1 DEF SweepFault, Quiet
<1>35. CASE UNCHANGED vars
  BY <1>35 DEF vars, Due, Queued, Quiet
<1> QED
  BY <1>1, <1>2, <1>3, <1>4, <1>5, <1>6, <1>7, <1>8, <1>9, <1>10, <1>11, <1>12, <1>13,
     <1>14, <1>15, <1>16, <1>17, <1>18, <1>19, <1>20, <1>21, <1>22, <1>23, <1>24, <1>25,
     <1>26, <1>27, <1>28, <1>29, <1>30, <1>31, <1>32, <1>33, <1>34, <1>35
  DEF Next, Submit, Run, WorkerFault, ScanStep

\* What the scanner and the workers read of retry_count stays true of the row.
LEMMA SeenStep == TypeOK /\ CustodyInv /\ SeenInv /\ [Next]_vars /\ ~slipped' => SeenInv'
<1> SUFFICES ASSUME ~slipped', TypeOK, CustodyInv, SeenInv, [Next]_vars PROVE SeenInv'
  OBVIOUS
<1> USE DEF TypeOK, CustodyInv, row, work, retry, users, env, hist, Submitting, Working,
        Loading, Running, Retrying, Resetting, Requeuing, up
<1>1. ASSUME NEW t \in Tasks, SubmitCreate(t) PROVE SeenInv'
  BY <1>1 DEF SubmitCreate, SeenInv, RowType, WorkType, ScanType
<1>2. ASSUME NEW t \in Tasks, SubmitSend(t) PROVE SeenInv'
  BY <1>2 DEF SubmitSend, SeenInv, RowType, WorkType, ScanType
<1>3. ASSUME NEW t \in Tasks, SubmitTimeout(t) PROVE SeenInv'
  BY <1>3 DEF SubmitTimeout, SeenInv, RowType, WorkType, ScanType
<1>4. ASSUME NEW t \in Tasks, SubmitReject(t) PROVE SeenInv'
  BY <1>4 DEF SubmitReject, Updated, SeenInv, RowType, WorkType, ScanType
<1>5. ASSUME NEW t \in Tasks, SubmitRejectFault(t) PROVE SeenInv'
  BY <1>5 DEF SubmitRejectFault, Fault, SeenInv, RowType, WorkType, ScanType
<1>6. ASSUME NEW w \in Workers, Dequeue(w) PROVE SeenInv'
  BY <1>6 DEF Dequeue, SeenInv, RowType, WorkType, ScanType
<1>7. ASSUME NEW w \in Workers, Load(w) PROVE SeenInv'
  BY <1>7 DEF Load, Goto, Return, SeenInv, RowType, WorkType, ScanType
<1>8. ASSUME NEW w \in Workers, SaveRunning(w) PROVE SeenInv'
  BY <1>8 DEF SaveRunning, Goto, SeenInv, OneHolder, IdleInv, Unheld, RowType, WorkType,
     ScanType
<1>9. ASSUME NEW w \in Workers, DropFault(w) PROVE SeenInv'
  BY <1>9 DEF DropFault, Fault, Return, SeenInv, RowType, WorkType, ScanType
<1>10. ASSUME NEW w \in Workers, PanicFault(w) PROVE SeenInv'
  BY <1>10 DEF PanicFault, Fault, Goto, SeenInv, RowType, WorkType, ScanType
<1>11. ASSUME NEW w \in Workers, Start(w) PROVE SeenInv'
  BY <1>11 DEF Start, Goto, SeenInv, RowType, WorkType, ScanType
<1>12. ASSUME NEW w \in Workers, ExecEnd(w) PROVE SeenInv'
  BY <1>12 DEF ExecEnd, Goto, SeenInv, RowType, WorkType, ScanType
<1>13. ASSUME NEW w \in Workers, ExecTimeout(w) PROVE SeenInv'
  BY <1>13 DEF ExecTimeout, Goto, SeenInv, RowType, WorkType, ScanType
<1>14. ASSUME NEW w \in Workers, Check(w) PROVE SeenInv'
  BY <1>14 DEF Check, Goto, SeenInv, RowType, WorkType, ScanType
<1>15. ASSUME NEW w \in Workers, CheckFault(w) PROVE SeenInv'
  BY <1>15 DEF CheckFault, Fault, Goto, SeenInv, RowType, WorkType, ScanType
<1>16. ASSUME NEW w \in Workers, Write(w) PROVE SeenInv'
  BY <1>16 DEF Write, Goto, Updated, SeenInv, RowType, WorkType, ScanType
<1>17. ASSUME NEW w \in Workers, WriteFail(w) PROVE SeenInv'
  BY <1>17 DEF WriteFail, Return, Updated, SeenInv, RowType, WorkType,
     ScanType
<1>18. ASSUME NEW w \in Workers, WriteFault(w) PROVE SeenInv'
  BY <1>18 DEF WriteFault, Fault, Goto, Return, SeenInv, RowType, WorkType,
     ScanType
<1>19. ASSUME NEW w \in Workers, Cleanup(w) PROVE SeenInv'
  BY <1>19 DEF Cleanup, Return, SeenInv, RowType, WorkType, ScanType
<1>20. ASSUME NEW t \in Tasks, ZombieEnd(t) PROVE SeenInv'
  BY <1>20 DEF ZombieEnd, SeenInv, RowType, WorkType, ScanType
<1>21. CASE ScanQuery
  BY <1>21 DEF ScanQuery, Retryable, SeenInv, RowType, WorkType, ScanType
<1>22. ASSUME NEW t \in Tasks, ScanClaim(t) PROVE SeenInv'
  BY <1>22 DEF ScanClaim, Claimable, SeenInv, OneHolder, IdleInv, Unheld, RowType,
     WorkType, ScanType
<1>23. ASSUME NEW t \in Tasks, ScanClaimFault(t) PROVE SeenInv'
  BY <1>23 DEF ScanClaimFault, Fault, SeenInv, RowType, WorkType, ScanType
<1>24. CASE ScanReset
  BY <1>24 DEF ScanReset, Updated, SeenInv, OneHolder, IdleInv, Unheld, RowType,
     WorkType, ScanType
<1>25. CASE ScanResetFault
  BY <1>25 DEF ScanResetFault, Fault, NextCand, SeenInv, RowType, WorkType,
     ScanType
<1>26. CASE ScanSend
  BY <1>26 DEF ScanSend, NextCand, SeenInv, RowType, WorkType, ScanType
<1>27. CASE ScanTimeout
  BY <1>27 DEF ScanTimeout, SeenInv, RowType, WorkType, ScanType
<1>28. CASE ScanFail
  BY <1>28 DEF ScanFail, Updated, NextCand, SeenInv, RowType, WorkType,
     ScanType
<1>29. ASSUME NEW t \in Tasks, CancelRow(t) PROVE SeenInv'
  BY <1>29 DEF CancelRow, SeenInv, RowType, WorkType, ScanType
<1>30. ASSUME NEW t \in Tasks, CancelSignal(t) PROVE SeenInv'
  BY <1>30 DEF CancelSignal, SeenInv, RowType, WorkType, ScanType
<1>31. ASSUME NEW t \in Tasks, DeleteRead(t) PROVE SeenInv'
  BY <1>31 DEF DeleteRead, SeenInv, RowType, WorkType, ScanType
<1>32. ASSUME NEW t \in Tasks, DeleteRow(t) PROVE SeenInv'
  BY <1>32 DEF DeleteRow, SeenInv, RowType, WorkType, ScanType
<1>33. CASE Crash
  BY <1>33 DEF Crash, SeenInv, RowType, WorkType, ScanType
<1>34. CASE SweepStaleRecords
  BY <1>34 DEF SweepStaleRecords, Swept, Active, SeenInv, RowType, WorkType,
     ScanType
<1>35. CASE SweepOrphanRunning
  BY <1>35 DEF SweepOrphanRunning, Swept, Active, SeenInv, RowType, WorkType,
     ScanType
<1>36. CASE SweepFault
  BY <1>36 DEF SweepFault, SeenInv, RowType, WorkType, ScanType
<1>37. CASE UNCHANGED vars
  BY <1>37 DEF vars, SeenInv
<1> QED
  BY <1>1, <1>2, <1>3, <1>4, <1>5, <1>6, <1>7, <1>8, <1>9, <1>10, <1>11, <1>12, <1>13,
     <1>14, <1>15, <1>16, <1>17, <1>18, <1>19, <1>20, <1>21, <1>22, <1>23, <1>24, <1>25,
     <1>26, <1>27, <1>28, <1>29, <1>30, <1>31, <1>32, <1>33, <1>34, <1>35, <1>36, <1>37
  DEF Next, Submit, Run, WorkerFault, ScanStep

\* No step lets starts run ahead of the budget.
LEMMA CountStep == TypeOK /\ CustodyInv /\ BudgetInv /\ [Next]_vars /\ ~slipped' => CountInv'
<1> SUFFICES ASSUME ~slipped', TypeOK, CustodyInv, SeenInv, CountInv, [Next]_vars PROVE CountInv'
  BY DEF BudgetInv
<1> USE RetryAssumption DEF TypeOK, row, work, retry, users, env, hist
<1>1. ASSUME NEW t \in Tasks, SubmitCreate(t) PROVE CountInv'
  <2>1. /\ starts' = starts /\ retries' = retries /\ starts[t] = 0
        /\ spc' = [spc EXCEPT ![t] = "try"]
    BY <1>1 DEF SubmitCreate, CountInv
  <2>2. \A x \in Tasks \ {t} : Due(x)' => Due(x)
    BY <1>1 DEF SubmitCreate, Due, Queued, Submitting, Requeuing, QueueType, RowType
  <2> QED BY <2>1, <2>2 DEF CountInv, RowType, RestType, QueueType
<1>2. CASE ScanReset
  <2>1. /\ cur \in Tasks /\ starts' = starts /\ spc' = spc
        /\ \A x \in Tasks \ {cur} : retries'[x] = retries[x]
        /\ spc[cur] # "new"
    BY <1>2 DEF ScanReset, ScanType, RowType, CustodyInv, IdleInv, Unheld, Retrying, Resetting
  <2>2. \A x \in Tasks \ {cur} : Due(x)' => Due(x)
    BY <1>2 DEF ScanReset, Updated, Due, Queued, Submitting, Requeuing, RowType, ScanType
  <2>3. CASE status[cur] = "absent"
    <3>1. ~Due(cur)' \/ Due(cur)
      BY <1>2, <2>1, <2>3 DEF ScanReset, Updated, Due, Queued, RowType
    <3> QED BY <1>2, <2>1, <2>2, <2>3, <3>1 DEF ScanReset, CountInv, RowType, RestType
  <2>4. CASE status[cur] # "absent"
    <3>1. retries'[cur] = retries[cur] + 1 /\ retries[cur] < MaxRetry[cur]
      BY <1>2, <2>1, <2>4 DEF ScanReset, SeenInv, Resetting, RowType
    <3> QED BY <2>1, <2>2, <3>1 DEF CountInv, RowType, RestType
  <2> QED BY <2>3, <2>4
<1>3. ASSUME NEW w \in Workers, Used(w) PROVE CountInv'
  <2>1. wtask[w] \in Tasks /\ retries' = retries /\ spc' = spc
    BY <1>3 DEF Used, Start, WorkType
  <2>2. CASE wtask[w] \in Broken
    BY <1>3, <2>1, <2>2 DEF Used, Start, CountInv
  <2>3. CASE wtask[w] \notin Broken
    <3>1. Due(wtask[w]) /\ spc[wtask[w]] # "new"
      BY <1>3, <2>1 DEF Used, Start, Due, CustodyInv, IdleInv, Unheld, Working, Running
    <3>2. starts' = [starts EXCEPT ![wtask[w]] = @ + 1]
      BY <1>3, <2>3 DEF Used, Start
    <3>3. \A x \in Tasks : Due(x)' => Due(x) /\ x # wtask[w]
      BY <1>3 DEF Used
    <3>4. starts'[wtask[w]] = starts[wtask[w]] + 1
          /\ \A x \in Tasks \ {wtask[w]} : starts'[x] = starts[x]
      BY <2>1, <3>2 DEF RestType
    <3>5. ASSUME NEW x \in Tasks
          PROVE  /\ retries'[x] <= MaxRetry[x] /\ starts'[x] <= 1 + retries'[x]
                 /\ Due(x)' => starts'[x] <= retries'[x]
                 /\ spc'[x] = "new" => starts'[x] = 0
      <4>1. CASE x = wtask[w]
        BY <2>1, <3>1, <3>3, <3>4, <4>1 DEF CountInv, RowType, RestType
      <4>2. CASE x # wtask[w]
        BY <2>1, <3>3, <3>4, <4>2 DEF CountInv
      <4> QED BY <4>1, <4>2
    <3> QED BY <3>5 DEF CountInv
  <2> QED BY <2>2, <2>3
<1>4. CASE Quiet
  BY <1>4 DEF Quiet, CountInv
<1> QED BY <1>1, <1>2, <1>3, <1>4, DueStep

(***************************************************************************)
(* The theorems                                                            *)
(***************************************************************************)
\* Custody and budget, for as long as no worker has panicked after its terminal write.
Inv == TypeOK /\ (~slipped => CustodyInv /\ BudgetInv)

\* The histories of such panics and of faults are never forgotten.
LEMMA SlipStays == TypeOK /\ [Next]_vars => (slipped => slipped') /\ (faults' = 0 => faults = 0)
<1> SUFFICES ASSUME TypeOK, [Next]_vars PROVE (slipped => slipped') /\ (faults' = 0 => faults = 0)
  OBVIOUS
<1> USE DEF TypeOK, RestType, env, hist, Fault
<1>1. ASSUME NEW t \in Tasks,
             \/ SubmitCreate(t) \/ SubmitSend(t) \/ SubmitTimeout(t) \/ SubmitReject(t)
             \/ SubmitRejectFault(t) \/ ZombieEnd(t) \/ ScanClaim(t) \/ ScanClaimFault(t)
             \/ CancelRow(t) \/ CancelSignal(t) \/ DeleteRead(t) \/ DeleteRow(t)
      PROVE  (slipped => slipped') /\ (faults' = 0 => faults = 0)
  BY <1>1 DEF SubmitCreate, SubmitSend, SubmitTimeout, SubmitReject, SubmitRejectFault,
     ZombieEnd, ScanClaim, ScanClaimFault, CancelRow, CancelSignal, DeleteRead, DeleteRow
<1>2. ASSUME NEW w \in Workers,
             \/ Dequeue(w) \/ Load(w) \/ SaveRunning(w) \/ DropFault(w) \/ Start(w)
             \/ ExecEnd(w) \/ ExecTimeout(w) \/ Check(w) \/ CheckFault(w) \/ Write(w)
             \/ WriteFail(w) \/ WriteFault(w) \/ Cleanup(w) \/ PanicFault(w)
      PROVE  (slipped => slipped') /\ (faults' = 0 => faults = 0)
  BY <1>2 DEF Dequeue, Load, SaveRunning, DropFault, Start, ExecEnd, ExecTimeout, Check,
     CheckFault, Write, WriteFail, WriteFault, Cleanup, PanicFault
<1>3. CASE \/ ScanQuery \/ ScanReset \/ ScanResetFault \/ ScanSend \/ ScanTimeout \/ ScanFail
           \/ Crash \/ SweepStaleRecords \/ SweepOrphanRunning \/ SweepFault
  BY <1>3 DEF ScanQuery, ScanReset, ScanResetFault, ScanSend, ScanTimeout, ScanFail, Crash,
     SweepStaleRecords, SweepOrphanRunning, SweepFault
<1>4. CASE UNCHANGED vars
  BY <1>4 DEF vars
<1> QED
  BY <1>1, <1>2, <1>3, <1>4 DEF Next, Submit, Run, WorkerFault, ScanStep

\* The three invariants are inductive together.
LEMMA InvInductive == Spec => []Inv
<1>1. Init => Inv
  <2> SUFFICES ASSUME Init PROVE Inv
    OBVIOUS
  <2>1. TypeOK /\ CustodyInv
    BY TypeInit, CustodyInit
  <2>2. SeenInv
    BY DEF Init, SeenInv, Resetting
  <2>3. CountInv
    BY <2>1, RetryAssumption DEF Init, CountInv, CustodyInv, IdleInv
  <2> QED BY <2>1, <2>2, <2>3 DEF Inv, BudgetInv
<1>2. Inv /\ [Next]_vars => Inv'
  BY TypeStep, SlipStays, CustodyStep, SeenStep, CountStep DEF Inv, BudgetInv
<1> QED BY <1>1, <1>2, PTL DEF Spec

\* A task is never held twice: Submit, the channels, the workers and the scanner hand it on
\* to each other without duplicating it, through every fault, crash, cancel and delete.
THEOREM CustodyIsSingle == Spec => []SingleCustody
<1>1. Inv => SingleCustody
  BY DEF Inv, CustodyInv, SingleCustody
<1> QED BY <1>1, InvInductive, PTL

\* A task is executed at most once more often than its type may be retried; a type outside
\* retryableTypes at most once.
THEOREM ExecutionsAreBounded == Spec => []AtMostBudget
<1>1. Inv => AtMostBudget
  <2> SUFFICES ASSUME Inv, ~slipped, NEW t \in Tasks PROVE starts[t] <= 1 + MaxRetry[t]
    BY DEF AtMostBudget
  <2>1. starts[t] \in Nat /\ retries[t] \in Nat /\ MaxRetry[t] \in Nat
    BY RetryAssumption DEF Inv, TypeOK, RestType, RowType
  <2>2. starts[t] <= 1 + retries[t] /\ retries[t] <= MaxRetry[t]
    BY DEF Inv, BudgetInv, CountInv
  <2> QED BY <2>1, <2>2
<1> QED BY <1>1, InvInductive, PTL

\* Every step of the queue is one of TaskLedger, or changes nothing there, until a worker
\* panics after its terminal write.
LEMMA LedgerStep == Inv /\ [Next]_vars => [Ledger!Next \/ slipped']_(Ledger!vars)
<1> SUFFICES ASSUME TypeOK, CustodyInv, BudgetInv, [Next]_vars, ~slipped'
             PROVE  Ledger!Next \/ UNCHANGED Ledger!vars
  BY SlipStays DEF Inv
<1> USE DEF TypeOK, CustodyInv, BudgetInv, row, work, retry, users, env, hist
<1> DEFINE right == {t \in Tasks : Due(t)}
           issued == {t \in Tasks : spc[t] # "new"}
<1>1. ASSUME NEW t \in Tasks, SubmitCreate(t) PROVE Ledger!Issue(t)
  <2>1. t \notin issued /\ issued' = issued \cup {t} /\ retries' = retries /\ starts' = starts
    BY <1>1 DEF SubmitCreate, QueueType
  <2>2. Due(t)'
    BY <1>1 DEF SubmitCreate, Due, Submitting, RowType, QueueType
  <2>3. \A x \in Tasks \ {t} : Due(x)' <=> Due(x)
    BY <1>1 DEF SubmitCreate, Due, Queued, Submitting, Requeuing, QueueType, RowType
  <2>4. right' = right \cup {t}
    BY <2>2, <2>3
  <2> QED BY <2>1, <2>4 DEF Ledger!Issue
<1>2. CASE ScanReset
  <2>1. /\ cur \in Tasks /\ starts' = starts /\ spc' = spc /\ issued' = issued
        /\ Resetting(cur) /\ Unheld(cur) = FALSE
    BY <1>2 DEF ScanReset, ScanType, Unheld, Retrying, Resetting
  <2>2. \A x \in Tasks \ {cur} : Due(x)' <=> Due(x)
    BY <1>2 DEF ScanReset, Updated, Due, Queued, Submitting, Requeuing, RowType, ScanType
  <2>3. ~Due(cur)
    BY <1>2, <2>1 DEF ScanReset, Due, OneHolder, Retrying, Resetting, Requeuing, Working,
       Loading, Running
  <2>4. CASE status[cur] = "absent"
    <3>1. ASSUME NEW x \in Tasks, x = cur PROVE ~Due(x)'
      BY <1>2, <2>1, <2>4, <3>1 DEF ScanReset, Updated, Due, OneHolder, Retrying, Working,
         Loading, Running, RowType
    <3>2. right' \subseteq right
      BY <2>2, <3>1
    <3>3. retries' = retries
      BY <1>2, <2>4 DEF ScanReset
    <3> QED BY <2>1, <3>2, <3>3 DEF Ledger!Next, Ledger!Void
  <2>5. CASE status[cur] # "absent"
    <3>1. retries' = [retries EXCEPT ![cur] = @ + 1] /\ retries[cur] < MaxRetry[cur]
      BY <1>2, <2>1, <2>5 DEF ScanReset, SeenInv, RowType
    <3>2. ASSUME NEW x \in Tasks, x = cur PROVE Due(x)'
      BY <1>2, <2>1, <2>5, <3>2 DEF ScanReset, Updated, Due, Requeuing, RowType
    <3>3. right' = right \cup {cur}
      BY <2>1, <2>2, <3>2
    <3>4. cur \in issued \ right
      BY <2>1, <2>3 DEF IdleInv, Unheld, Retrying
    <3> QED BY <2>1, <3>1, <3>3, <3>4 DEF Ledger!Next, Ledger!Grant
  <2> QED BY <2>4, <2>5
<1>3. ASSUME NEW w \in Workers, Used(w) PROVE Ledger!Next
  <2>1. /\ wtask[w] \in Tasks /\ Due(wtask[w]) /\ wpc[w] = "start"
        /\ retries' = retries /\ issued' = issued
    BY <1>3 DEF Used, Start, WorkType, Due
  <2>2. CASE wtask[w] \in Broken
    <3>1. starts' = starts /\ right' \subseteq right
      BY <1>3, <2>2 DEF Used, Start
    <3> QED BY <2>1, <3>1 DEF Ledger!Next, Ledger!Void
  <2>3. CASE wtask[w] \notin Broken
    <3>1. starts' = [starts EXCEPT ![wtask[w]] = @ + 1] /\ UNCHANGED <<row, spc, queue, retry>>
      BY <1>3, <2>3 DEF Used, Start
    <3>2. /\ \A v \in Workers \ {w} : wpc'[v] = wpc[v]
          /\ wtask' = wtask
      BY <1>3, <2>3 DEF Used, Start, Goto, WorkType
    <3>3. \A x \in Tasks : Queued(x)' <=> Queued(x)
      BY <3>1 DEF Queued
    <3>4. \A x \in Tasks : Due(x) /\ x # wtask[w] => Due(x)'
      BY <2>1, <3>1, <3>2, <3>3 DEF Due, Submitting, Requeuing
    <3>5. right' = right \ {wtask[w]}
      BY <1>3, <3>4 DEF Used
    <3> QED BY <2>1, <3>1, <3>5 DEF Ledger!Next, Ledger!Use
  <2> QED BY <2>2, <2>3
<1>4. CASE Quiet
  <2>1. right' \subseteq right /\ issued' = issued
    BY <1>4 DEF Quiet
  <2> QED BY <1>4, <2>1 DEF Quiet, Ledger!Next, Ledger!Void
<1> QED BY <1>1, <1>2, <1>3, <1>4, DueStep DEF Ledger!Next

\* The queue implements the ledger of executions.
THEOREM LedgerIsImplemented == Spec => ImplementsLedger
<1>1. Init => Ledger!Init
  <2> SUFFICES ASSUME Init PROVE Ledger!Init
    OBVIOUS
  <2>1. \A t \in Tasks : Unheld(t) /\ status[t] = "absent"
    BY CustodyInit DEF Init, CustodyInv, IdleInv
  <2>2. \A t \in Tasks : ~Due(t) /\ spc[t] = "new"
    BY <2>1 DEF Init, Due
  <2> QED BY <2>2 DEF Init, Ledger!Init
<1>2. Inv /\ [Next]_vars => [Ledger!Next \/ slipped']_(Ledger!vars)
  BY LedgerStep
<1> QED BY <1>1, <1>2, InvInductive, PTL DEF Spec, ImplementsLedger

\* A success changes in no step, except that its row may be deleted.
LEMMA SuccessStep ==
  ASSUME TypeOK, CustodyInv, [Next]_vars
  PROVE  \A t \in Tasks : status[t] = "success" => status'[t] \in {"success", "absent"}
<1> DEFINE Kept == \A x \in Tasks :
                     status[x] = "success" => status'[x] \in {"success", "absent"}
<1> USE DEF TypeOK, CustodyInv, row, work, retry, users, env, hist, Submitting, Working,
        Loading, Running, Retrying, Resetting, Requeuing, Active
<1>1. ASSUME NEW t \in Tasks, SubmitCreate(t) PROVE Kept
  BY <1>1 DEF SubmitCreate, StatusInv, IdleInv, RowType, WorkType, ScanType
<1>2. ASSUME NEW t \in Tasks, SubmitSend(t) PROVE Kept
  BY <1>2 DEF SubmitSend, StatusInv, IdleInv, RowType, WorkType, ScanType
<1>3. ASSUME NEW t \in Tasks, SubmitTimeout(t) PROVE Kept
  BY <1>3 DEF SubmitTimeout, StatusInv, IdleInv, RowType, WorkType, ScanType
<1>4. ASSUME NEW t \in Tasks, SubmitReject(t) PROVE Kept
  BY <1>4 DEF SubmitReject, Updated, StatusInv, IdleInv, RowType, WorkType, ScanType
<1>5. ASSUME NEW t \in Tasks, SubmitRejectFault(t) PROVE Kept
  BY <1>5 DEF SubmitRejectFault, Fault, StatusInv, IdleInv, RowType, WorkType, ScanType
<1>6. ASSUME NEW w \in Workers, Dequeue(w) PROVE Kept
  BY <1>6 DEF Dequeue, StatusInv, IdleInv, RowType, WorkType, ScanType
<1>7. ASSUME NEW w \in Workers, Load(w) PROVE Kept
  BY <1>7 DEF Load, Goto, Return, StatusInv, IdleInv, RowType, WorkType, ScanType
<1>8. ASSUME NEW w \in Workers, SaveRunning(w) PROVE Kept
  BY <1>8 DEF SaveRunning, Goto, StatusInv, IdleInv, RowType, WorkType, ScanType
<1>9. ASSUME NEW w \in Workers, DropFault(w) PROVE Kept
  BY <1>9 DEF DropFault, Fault, Return, StatusInv, IdleInv, RowType, WorkType, ScanType
<1>10. ASSUME NEW w \in Workers, PanicFault(w) PROVE Kept
  BY <1>10 DEF PanicFault, Fault, Goto, StatusInv, IdleInv, RowType, WorkType, ScanType
<1>11. ASSUME NEW w \in Workers, Start(w) PROVE Kept
  BY <1>11 DEF Start, Goto, StatusInv, IdleInv, RowType, WorkType, ScanType
<1>12. ASSUME NEW w \in Workers, ExecEnd(w) PROVE Kept
  BY <1>12 DEF ExecEnd, Goto, StatusInv, IdleInv, RowType, WorkType, ScanType
<1>13. ASSUME NEW w \in Workers, ExecTimeout(w) PROVE Kept
  BY <1>13 DEF ExecTimeout, Goto, StatusInv, IdleInv, RowType, WorkType, ScanType
<1>14. ASSUME NEW w \in Workers, Check(w) PROVE Kept
  BY <1>14 DEF Check, Goto, StatusInv, IdleInv, RowType, WorkType, ScanType
<1>15. ASSUME NEW w \in Workers, CheckFault(w) PROVE Kept
  BY <1>15 DEF CheckFault, Fault, Goto, StatusInv, IdleInv, RowType, WorkType, ScanType
<1>16. ASSUME NEW w \in Workers, Write(w) PROVE Kept
  BY <1>16 DEF Write, Goto, Updated, StatusInv, IdleInv, RowType, WorkType, ScanType
<1>17. ASSUME NEW w \in Workers, WriteFail(w) PROVE Kept
  BY <1>17 DEF WriteFail, Return, Updated, StatusInv, IdleInv, RowType, WorkType, ScanType
<1>18. ASSUME NEW w \in Workers, WriteFault(w) PROVE Kept
  BY <1>18 DEF WriteFault, Fault, Goto, Return, StatusInv, IdleInv, RowType, WorkType,
     ScanType
<1>19. ASSUME NEW w \in Workers, Cleanup(w) PROVE Kept
  BY <1>19 DEF Cleanup, Return, StatusInv, IdleInv, RowType, WorkType, ScanType
<1>20. ASSUME NEW t \in Tasks, ZombieEnd(t) PROVE Kept
  BY <1>20 DEF ZombieEnd, StatusInv, IdleInv, RowType, WorkType, ScanType
<1>21. CASE ScanQuery
  BY <1>21 DEF ScanQuery, Retryable, StatusInv, IdleInv, RowType, WorkType, ScanType
<1>22. ASSUME NEW t \in Tasks, ScanClaim(t) PROVE Kept
  BY <1>22 DEF ScanClaim, Claimable, StatusInv, IdleInv, RowType, WorkType, ScanType
<1>23. ASSUME NEW t \in Tasks, ScanClaimFault(t) PROVE Kept
  BY <1>23 DEF ScanClaimFault, Fault, StatusInv, IdleInv, RowType, WorkType, ScanType
<1>24. CASE ScanReset
  BY <1>24 DEF ScanReset, Updated, StatusInv, IdleInv, RowType, WorkType, ScanType
<1>25. CASE ScanResetFault
  BY <1>25 DEF ScanResetFault, Fault, NextCand, StatusInv, IdleInv, RowType, WorkType,
     ScanType
<1>26. CASE ScanSend
  BY <1>26 DEF ScanSend, NextCand, StatusInv, IdleInv, RowType, WorkType, ScanType
<1>27. CASE ScanTimeout
  BY <1>27 DEF ScanTimeout, StatusInv, IdleInv, RowType, WorkType, ScanType
<1>28. CASE ScanFail
  BY <1>28 DEF ScanFail, Updated, NextCand, StatusInv, IdleInv, RowType, WorkType, ScanType
<1>29. ASSUME NEW t \in Tasks, CancelRow(t) PROVE Kept
  BY <1>29 DEF CancelRow, StatusInv, IdleInv, RowType, WorkType, ScanType
<1>30. ASSUME NEW t \in Tasks, CancelSignal(t) PROVE Kept
  BY <1>30 DEF CancelSignal, StatusInv, IdleInv, RowType, WorkType, ScanType
<1>31. ASSUME NEW t \in Tasks, DeleteRead(t) PROVE Kept
  BY <1>31 DEF DeleteRead, StatusInv, IdleInv, RowType, WorkType, ScanType
<1>32. ASSUME NEW t \in Tasks, DeleteRow(t) PROVE Kept
  BY <1>32 DEF DeleteRow, StatusInv, IdleInv, RowType, WorkType, ScanType
<1>33. CASE Crash
  BY <1>33 DEF Crash, StatusInv, IdleInv, RowType, WorkType, ScanType
<1>34. CASE SweepStaleRecords
  BY <1>34 DEF SweepStaleRecords, Swept, Active, StatusInv, IdleInv, RowType, WorkType,
     ScanType
<1>35. CASE SweepOrphanRunning
  BY <1>35 DEF SweepOrphanRunning, Swept, Active, StatusInv, IdleInv, RowType, WorkType,
     ScanType
<1>36. CASE SweepFault
  BY <1>36 DEF SweepFault, StatusInv, IdleInv, RowType, WorkType, ScanType
<1>37. CASE UNCHANGED vars
  BY <1>37 DEF vars
<1> QED
  BY <1>1, <1>2, <1>3, <1>4, <1>5, <1>6, <1>7, <1>8, <1>9, <1>10, <1>11, <1>12, <1>13,
     <1>14, <1>15, <1>16, <1>17, <1>18, <1>19, <1>20, <1>21, <1>22, <1>23, <1>24, <1>25,
     <1>26, <1>27, <1>28, <1>29, <1>30, <1>31, <1>32, <1>33, <1>34, <1>35, <1>36, <1>37
  DEF Next, Submit, Run, WorkerFault, ScanStep

\* No late worker, cancel, retry or restart overwrites a success, until a worker panics in its
\* deferred flush.
THEOREM SuccessStays == Spec => SuccessIsFinal
<1>1. Inv /\ [Next]_vars =>
        [~slipped => \A t \in Tasks :
           status[t] = "success" => status'[t] \in {"success", "absent"}]_vars
  BY SuccessStep DEF Inv
<1> QED BY <1>1, InvInductive, PTL DEF Spec, SuccessIsFinal

(***************************************************************************)
(* Nothing is lost: what NothingLost needs beside itself                   *)
(***************************************************************************)
\* No claim is written back: neither by a worker that has read the row, nor by the submission
\* of a task whose id carries one.
ClaimInv ==
  faults = 0 /\ crashes = 0 =>
    /\ ClaimHeld
    /\ life = "up"
    /\ \A t \in Tasks : spc[t] = "new" => rstate[t] # "claiming"
    /\ \A w \in Workers : wpc[w] = "save" => wrstate[w] # "claiming"

\* Every step keeps ClaimInv.
LEMMA ClaimStep == TypeOK /\ CustodyInv /\ ClaimInv /\ [Next]_vars => ClaimInv'
<1> SUFFICES ASSUME TypeOK, CustodyInv, ClaimInv, [Next]_vars PROVE ClaimInv'
  OBVIOUS
<1> USE DEF TypeOK, CustodyInv, row, work, retry, users, env, hist, Submitting, Working,
        Loading, Running, Retrying, Resetting, Requeuing, up
<1>1. ASSUME NEW t \in Tasks, SubmitCreate(t) PROVE ClaimInv'
  BY <1>1 DEF SubmitCreate, ClaimInv, ClaimHeld, StatusInv, OneHolder, IdleInv, Unheld,
     RowType, QueueType, WorkType, ScanType, RestType
<1>2. ASSUME NEW t \in Tasks, SubmitSend(t) PROVE ClaimInv'
  BY <1>2 DEF SubmitSend, ClaimInv, ClaimHeld, StatusInv, OneHolder, IdleInv, Unheld,
     RowType, QueueType, WorkType, ScanType, RestType
<1>3. ASSUME NEW t \in Tasks, SubmitTimeout(t) PROVE ClaimInv'
  BY <1>3 DEF SubmitTimeout, ClaimInv, ClaimHeld, StatusInv, OneHolder, IdleInv, Unheld,
     RowType, QueueType, WorkType, ScanType, RestType
<1>4. ASSUME NEW t \in Tasks, SubmitReject(t) PROVE ClaimInv'
  BY <1>4 DEF SubmitReject, Updated, ClaimInv, ClaimHeld, StatusInv, OneHolder, IdleInv,
     Unheld, RowType, QueueType, WorkType, ScanType, RestType
<1>5. ASSUME NEW t \in Tasks, SubmitRejectFault(t) PROVE ClaimInv'
  BY <1>5 DEF SubmitRejectFault, Fault, ClaimInv, ClaimHeld, StatusInv, OneHolder, IdleInv,
     Unheld, RowType, QueueType, WorkType, ScanType, RestType
<1>6. ASSUME NEW w \in Workers, Dequeue(w) PROVE ClaimInv'
  BY <1>6 DEF Dequeue, ClaimInv, ClaimHeld, StatusInv, OneHolder, IdleInv, Unheld, RowType,
     QueueType, WorkType, ScanType, RestType
<1>7. ASSUME NEW w \in Workers, Load(w) PROVE ClaimInv'
  BY <1>7 DEF Load, Goto, Return, ClaimInv, ClaimHeld, StatusInv, OneHolder, IdleInv, Unheld,
     RowType, QueueType, WorkType, ScanType, RestType
<1>8. ASSUME NEW w \in Workers, SaveRunning(w) PROVE ClaimInv'
  BY <1>8 DEF SaveRunning, Goto, ClaimInv, ClaimHeld, StatusInv, OneHolder, IdleInv, Unheld,
     RowType, QueueType, WorkType, ScanType, RestType
<1>9. ASSUME NEW w \in Workers, DropFault(w) PROVE ClaimInv'
  BY <1>9 DEF DropFault, Fault, Return, ClaimInv, ClaimHeld, StatusInv, OneHolder, IdleInv,
     Unheld, RowType, QueueType, WorkType, ScanType, RestType
<1>10. ASSUME NEW w \in Workers, PanicFault(w) PROVE ClaimInv'
  BY <1>10 DEF PanicFault, Fault, Goto, ClaimInv, ClaimHeld, StatusInv, OneHolder, IdleInv,
     Unheld, RowType, QueueType, WorkType, ScanType, RestType
<1>11. ASSUME NEW w \in Workers, Start(w) PROVE ClaimInv'
  BY <1>11 DEF Start, Goto, ClaimInv, ClaimHeld, StatusInv, OneHolder, IdleInv, Unheld,
     RowType, QueueType, WorkType, ScanType, RestType
<1>12. ASSUME NEW w \in Workers, ExecEnd(w) PROVE ClaimInv'
  BY <1>12 DEF ExecEnd, Goto, ClaimInv, ClaimHeld, StatusInv, OneHolder, IdleInv, Unheld,
     RowType, QueueType, WorkType, ScanType, RestType
<1>13. ASSUME NEW w \in Workers, ExecTimeout(w) PROVE ClaimInv'
  BY <1>13 DEF ExecTimeout, Goto, ClaimInv, ClaimHeld, StatusInv, OneHolder, IdleInv, Unheld,
     RowType, QueueType, WorkType, ScanType, RestType
<1>14. ASSUME NEW w \in Workers, Check(w) PROVE ClaimInv'
  BY <1>14 DEF Check, Goto, ClaimInv, ClaimHeld, StatusInv, OneHolder, IdleInv, Unheld,
     RowType, QueueType, WorkType, ScanType, RestType
<1>15. ASSUME NEW w \in Workers, CheckFault(w) PROVE ClaimInv'
  BY <1>15 DEF CheckFault, Fault, Goto, ClaimInv, ClaimHeld, StatusInv, OneHolder, IdleInv,
     Unheld, RowType, QueueType, WorkType, ScanType, RestType
<1>16. ASSUME NEW w \in Workers, Write(w) PROVE ClaimInv'
  BY <1>16 DEF Write, Goto, Updated, ClaimInv, ClaimHeld, StatusInv, OneHolder, IdleInv,
     Unheld, RowType, QueueType, WorkType, ScanType, RestType
<1>17. ASSUME NEW w \in Workers, WriteFail(w) PROVE ClaimInv'
  BY <1>17 DEF WriteFail, Return, Updated, ClaimInv, ClaimHeld, StatusInv, OneHolder,
     IdleInv, Unheld, RowType, QueueType, WorkType, ScanType, RestType
<1>18. ASSUME NEW w \in Workers, WriteFault(w) PROVE ClaimInv'
  BY <1>18 DEF WriteFault, Fault, Goto, Return, ClaimInv, ClaimHeld, StatusInv, OneHolder,
     IdleInv, Unheld, RowType, QueueType, WorkType, ScanType, RestType
<1>19. ASSUME NEW w \in Workers, Cleanup(w) PROVE ClaimInv'
  BY <1>19 DEF Cleanup, Return, ClaimInv, ClaimHeld, StatusInv, OneHolder, IdleInv, Unheld,
     RowType, QueueType, WorkType, ScanType, RestType
<1>20. ASSUME NEW t \in Tasks, ZombieEnd(t) PROVE ClaimInv'
  BY <1>20 DEF ZombieEnd, ClaimInv, ClaimHeld, StatusInv, OneHolder, IdleInv, Unheld,
     RowType, QueueType, WorkType, ScanType, RestType
<1>21. CASE ScanQuery
  BY <1>21 DEF ScanQuery, Retryable, ClaimInv, ClaimHeld, StatusInv, OneHolder, IdleInv,
     Unheld, RowType, QueueType, WorkType, ScanType, RestType
<1>22. ASSUME NEW t \in Tasks, ScanClaim(t) PROVE ClaimInv'
  BY <1>22 DEF ScanClaim, Claimable, ClaimInv, ClaimHeld, StatusInv, OneHolder, IdleInv,
     Unheld, RowType, QueueType, WorkType, ScanType, RestType
<1>23. ASSUME NEW t \in Tasks, ScanClaimFault(t) PROVE ClaimInv'
  BY <1>23 DEF ScanClaimFault, Fault, ClaimInv, ClaimHeld, StatusInv, OneHolder, IdleInv,
     Unheld, RowType, QueueType, WorkType, ScanType, RestType
<1>24. CASE ScanReset
  BY <1>24 DEF ScanReset, Updated, ClaimInv, ClaimHeld, StatusInv, OneHolder, IdleInv,
     Unheld, RowType, QueueType, WorkType, ScanType, RestType
<1>25. CASE ScanResetFault
  BY <1>25 DEF ScanResetFault, Fault, NextCand, ClaimInv, ClaimHeld, StatusInv, OneHolder,
     IdleInv, Unheld, RowType, QueueType, WorkType, ScanType, RestType
<1>26. CASE ScanSend
  BY <1>26 DEF ScanSend, NextCand, ClaimInv, ClaimHeld, StatusInv, OneHolder, IdleInv,
     Unheld, RowType, QueueType, WorkType, ScanType, RestType
<1>27. CASE ScanTimeout
  BY <1>27 DEF ScanTimeout, ClaimInv, ClaimHeld, StatusInv, OneHolder, IdleInv, Unheld,
     RowType, QueueType, WorkType, ScanType, RestType
<1>28. CASE ScanFail
  BY <1>28 DEF ScanFail, Updated, NextCand, ClaimInv, ClaimHeld, StatusInv, OneHolder,
     IdleInv, Unheld, RowType, QueueType, WorkType, ScanType, RestType
<1>29. ASSUME NEW t \in Tasks, CancelRow(t) PROVE ClaimInv'
  BY <1>29 DEF CancelRow, ClaimInv, ClaimHeld, StatusInv, OneHolder, IdleInv, Unheld,
     RowType, QueueType, WorkType, ScanType, RestType
<1>30. ASSUME NEW t \in Tasks, CancelSignal(t) PROVE ClaimInv'
  BY <1>30 DEF CancelSignal, ClaimInv, ClaimHeld, StatusInv, OneHolder, IdleInv, Unheld,
     RowType, QueueType, WorkType, ScanType, RestType
<1>31. ASSUME NEW t \in Tasks, DeleteRead(t) PROVE ClaimInv'
  BY <1>31 DEF DeleteRead, ClaimInv, ClaimHeld, StatusInv, OneHolder, IdleInv, Unheld,
     RowType, QueueType, WorkType, ScanType, RestType
<1>32. ASSUME NEW t \in Tasks, DeleteRow(t) PROVE ClaimInv'
  BY <1>32 DEF DeleteRow, ClaimInv, ClaimHeld, StatusInv, OneHolder, IdleInv, Unheld,
     RowType, QueueType, WorkType, ScanType, RestType
<1>33. CASE Crash
  BY <1>33 DEF Crash, ClaimInv, ClaimHeld, StatusInv, OneHolder, IdleInv, Unheld, RowType,
     QueueType, WorkType, ScanType, RestType
<1>34. CASE SweepStaleRecords
  BY <1>34 DEF SweepStaleRecords, Swept, Active, ClaimInv, ClaimHeld, StatusInv, OneHolder,
     IdleInv, Unheld, RowType, QueueType, WorkType, ScanType, RestType
<1>35. CASE SweepOrphanRunning
  BY <1>35 DEF SweepOrphanRunning, Swept, Active, ClaimInv, ClaimHeld, StatusInv, OneHolder,
     IdleInv, Unheld, RowType, QueueType, WorkType, ScanType, RestType
<1>36. CASE SweepFault
  BY <1>36 DEF SweepFault, ClaimInv, ClaimHeld, StatusInv, OneHolder, IdleInv, Unheld,
     RowType, QueueType, WorkType, ScanType, RestType
<1>37. CASE UNCHANGED vars
  BY <1>37 DEF vars, ClaimInv, ClaimHeld, StatusInv, OneHolder, IdleInv, Unheld, RowType,
     QueueType, WorkType, ScanType, RestType
<1> QED
  BY <1>1, <1>2, <1>3, <1>4, <1>5, <1>6, <1>7, <1>8, <1>9, <1>10, <1>11, <1>12, <1>13, <1>14,
     <1>15, <1>16, <1>17, <1>18, <1>19, <1>20, <1>21, <1>22, <1>23, <1>24, <1>25, <1>26, <1>27,
     <1>28, <1>29, <1>30, <1>31, <1>32, <1>33, <1>34, <1>35, <1>36, <1>37
  DEF Next, Submit, Run, WorkerFault, ScanStep

\* Every active row has its holder while the process is up, and no row is active between the
\* second sweep and the first request.
HeldInv ==
  faults = 0 =>
    /\ RowsHeld
    /\ life = "swept" => \A t \in Tasks : status[t] \notin Active

\* A worker that has saved its row as running finds it pending no more.
LEMMA WorkingStatus ==
  ASSUME CustodyInv, HeldInv, faults = 0, life = "up", NEW w \in Workers, NEW t \in Tasks,
         Running(w, t)
  PROVE  status[t] # "pending"
<1>1. ~Submitting(t) /\ ~Queued(t) /\ ~Retrying(t) /\ \A v \in Workers : Working(v, t) => v = w
  BY DEF CustodyInv, OneHolder, Working
<1>2. ~\E v \in Workers : wtask[v] = t /\ wpc[v] \in {"load", "save"}
  BY <1>1 DEF Working, Loading, Running
<1> QED BY <1>1, <1>2 DEF HeldInv, RowsHeld

\* A step of one worker that settles the row it was working on, or goes on with it.
LEMMA WorkerHolds ==
  ASSUME TypeOK, CustodyInv, HeldInv, faults = 0, life = "up", NEW w \in Workers,
         UNCHANGED <<queue, spc, scan, cur, life>>,
         \A v \in Workers \ {w} : wpc'[v] = wpc[v] /\ wtask'[v] = wtask[v],
         \A t \in Tasks : ~Working(w, t) => status'[t] = status[t],
         \A t \in Tasks : Working(w, t) =>
           \/ status'[t] \notin Active
           \/ status'[t] = "pending" /\ wtask'[w] = t /\ wpc'[w] \in {"load", "save"}
           \/ status'[t] = "running" /\ Working(w, t)'
  PROVE  HeldInv'
<1> USE DEF Submitting, Working, Loading, Running, Retrying, Resetting, Requeuing
<1>1. \A x \in Tasks : Queued(x)' <=> Queued(x)
  BY DEF Queued
<1>2. ASSUME NEW x \in Tasks, status'[x] = "pending"
      PROVE  \/ Submitting(x)' \/ Queued(x)' \/ Retrying(x)'
             \/ \E v \in Workers : wtask'[v] = x /\ wpc'[v] \in {"load", "save"}
  <2>1. CASE Working(w, x)
    BY <1>2, <2>1 DEF Active
  <2>2. CASE ~Working(w, x)
    <3>1. \/ Submitting(x) \/ Queued(x) \/ Retrying(x)
          \/ \E v \in Workers : wtask[v] = x /\ wpc[v] \in {"load", "save"}
      BY <1>2, <2>2 DEF HeldInv, RowsHeld
    <3>2. \A v \in Workers : wtask[v] = x /\ wpc[v] \in {"load", "save"} => v # w
      BY <2>2
    <3> QED BY <1>1, <3>1, <3>2
  <2> QED BY <2>1, <2>2
<1>3. ASSUME NEW x \in Tasks, status'[x] = "running"
      PROVE  \E v \in Workers : Working(v, x)'
  <2>1. CASE Working(w, x)
    BY <1>3, <2>1 DEF Active
  <2>2. CASE ~Working(w, x)
    <3>1. PICK v \in Workers : Working(v, x)
      BY <1>3, <2>2 DEF HeldInv, RowsHeld
    <3> QED BY <2>2, <3>1
  <2> QED BY <2>1, <2>2
<1> QED BY <1>2, <1>3 DEF HeldInv, RowsHeld

\* Every step keeps HeldInv.
LEMMA HeldStep == TypeOK /\ CustodyInv /\ HeldInv /\ [Next]_vars => HeldInv'
<1> SUFFICES ASSUME TypeOK, CustodyInv, HeldInv, [Next]_vars PROVE HeldInv'
  OBVIOUS
<1> USE DEF TypeOK, CustodyInv, row, work, retry, users, env, hist, Submitting, Working,
        Loading, Running, Retrying, Resetting, Requeuing, up
<1>1. ASSUME NEW t \in Tasks, SubmitCreate(t) PROVE HeldInv'
  <2>1. \A x \in Tasks : Queued(x)' <=> Queued(x)
    BY <1>1 DEF SubmitCreate, Queued
  <2> QED BY <1>1, <2>1 DEF SubmitCreate, HeldInv, RowsHeld, StatusInv, IdleInv, Unheld, Active,
    RowType, QueueType, WorkType, ScanType, RestType
<1>2. ASSUME NEW t \in Tasks, SubmitSend(t) PROVE HeldInv'
  <2>1. CASE HasRoom(t)
    <3>1. Submitting(t) /\ ~Queued(t)
      BY <1>2 DEF SubmitSend, OneHolder
    <3>2. \A x \in Tasks : Queued(x)' <=> Queued(x) \/ x = t
      BY <1>2, <2>1, <3>1, PushQueued DEF SubmitSend
    <3> QED BY <1>2, <2>1, <3>2 DEF SubmitSend, HeldInv, RowsHeld, QueueType, RestType
  <2>2. CASE ~HasRoom(t)
    <3>1. \A x \in Tasks : Queued(x)' <=> Queued(x)
      BY <1>2, <2>2 DEF SubmitSend, Queued
    <3>2. \A x \in Tasks : Submitting(x)' <=> Submitting(x)
      BY <1>2, <2>2 DEF SubmitSend, QueueType
    <3> QED BY <1>2, <2>2, <3>1, <3>2 DEF SubmitSend, HeldInv, RowsHeld, RestType
  <2> QED BY <2>1, <2>2
<1>3. ASSUME NEW t \in Tasks, SubmitTimeout(t) PROVE HeldInv'
  <2>1. \A x \in Tasks : Queued(x)' <=> Queued(x)
    BY <1>3 DEF SubmitTimeout, Queued
  <2> QED BY <1>3, <2>1 DEF SubmitTimeout, HeldInv, RowsHeld, StatusInv, IdleInv, Unheld, Active,
    RowType, QueueType, WorkType, ScanType, RestType
<1>4. ASSUME NEW t \in Tasks, SubmitReject(t) PROVE HeldInv'
  <2>1. \A x \in Tasks : Queued(x)' <=> Queued(x)
    BY <1>4 DEF SubmitReject, Updated, Queued
  <2> QED BY <1>4, <2>1 DEF SubmitReject, Updated, HeldInv, RowsHeld, StatusInv, IdleInv, Unheld,
    Active, RowType, QueueType, WorkType, ScanType, RestType
<1>5. ASSUME NEW t \in Tasks, SubmitRejectFault(t) PROVE HeldInv'
  BY <1>5 DEF SubmitRejectFault, Fault, HeldInv, RestType
<1>6. ASSUME NEW w \in Workers, Dequeue(w) PROVE HeldInv'
  <2> DEFINE h == Head(queue[WPool[w]])
  <2>1. WPool[w] \in Pools /\ h \in Tasks
    BY <1>6, PoolAssumption, PopType DEF Dequeue
  <2>2. \A x \in Tasks : Queued(x)' <=> Queued(x) /\ x # h
    BY <1>6, <2>1, PopQueued DEF Dequeue
  <2>3. /\ wpc' = [wpc EXCEPT ![w] = "load"] /\ wtask' = [wtask EXCEPT ![w] = h]
        /\ wpc[w] = "idle" /\ UNCHANGED <<status, spc, scan, cur, life, faults>>
    BY <1>6 DEF Dequeue
  <2> HIDE DEF h
  <2> QED BY <2>1, <2>2, <2>3 DEF HeldInv, RowsHeld, WorkType, RestType
<1>7. ASSUME NEW w \in Workers, Load(w) PROVE HeldInv'
  <2>1. CASE faults = 0
    <3>1. \A v \in Workers \ {w} : wpc'[v] = wpc[v] /\ wtask'[v] = wtask[v]
      BY <1>7 DEF Load, Goto, Return, WorkType
    <3>2. \A t \in Tasks : ~Working(w, t) => status'[t] = status[t]
      BY <1>7 DEF Load, Goto, Return, WorkType, RowType
    <3>3. ASSUME NEW t \in Tasks, Working(w, t)
          PROVE  \/ status'[t] \notin Active
                 \/ status'[t] = "pending" /\ wtask'[w] = t /\ wpc'[w] \in {"load", "save"}
                 \/ status'[t] = "running" /\ Working(w, t)'
      BY <1>7, <2>1, <3>3, WorkingStatus DEF Load, Goto, Return, StatusInv, Active, WorkType,
         RowType
    <3> QED BY <1>7, <2>1, <3>1, <3>2, <3>3, WorkerHolds DEF Load
  <2>2. CASE faults # 0
    BY <1>7, <2>2 DEF Load, HeldInv
  <2> QED BY <2>1, <2>2
<1>8. ASSUME NEW w \in Workers, SaveRunning(w) PROVE HeldInv'
  <2>1. CASE faults = 0
    <3>1. \A v \in Workers \ {w} : wpc'[v] = wpc[v] /\ wtask'[v] = wtask[v]
      BY <1>8 DEF SaveRunning, Goto, WorkType
    <3>2. \A t \in Tasks : ~Working(w, t) => status'[t] = status[t]
      BY <1>8 DEF SaveRunning, Goto, WorkType, RowType
    <3>3. ASSUME NEW t \in Tasks, Working(w, t)
          PROVE  \/ status'[t] \notin Active
                 \/ status'[t] = "pending" /\ wtask'[w] = t /\ wpc'[w] \in {"load", "save"}
                 \/ status'[t] = "running" /\ Working(w, t)'
      BY <1>8, <2>1, <3>3, WorkingStatus DEF SaveRunning, Goto, StatusInv, Active, WorkType,
         RowType
    <3> QED BY <1>8, <2>1, <3>1, <3>2, <3>3, WorkerHolds DEF SaveRunning
  <2>2. CASE faults # 0
    BY <1>8, <2>2 DEF SaveRunning, HeldInv
  <2> QED BY <2>1, <2>2
<1>9. ASSUME NEW w \in Workers, DropFault(w) PROVE HeldInv'
  BY <1>9 DEF DropFault, Fault, Return, HeldInv, RestType
<1>10. ASSUME NEW w \in Workers, PanicFault(w) PROVE HeldInv'
  BY <1>10 DEF PanicFault, Fault, Goto, HeldInv, RestType
<1>11. ASSUME NEW w \in Workers, Start(w) PROVE HeldInv'
  <2>1. CASE faults = 0
    <3>1. \A v \in Workers \ {w} : wpc'[v] = wpc[v] /\ wtask'[v] = wtask[v]
      BY <1>11 DEF Start, Goto, WorkType
    <3>2. \A t \in Tasks : ~Working(w, t) => status'[t] = status[t]
      BY <1>11 DEF Start, Goto, WorkType, RowType
    <3>3. ASSUME NEW t \in Tasks, Working(w, t)
          PROVE  \/ status'[t] \notin Active
                 \/ status'[t] = "pending" /\ wtask'[w] = t /\ wpc'[w] \in {"load", "save"}
                 \/ status'[t] = "running" /\ Working(w, t)'
      BY <1>11, <2>1, <3>3, WorkingStatus DEF Start, Goto, StatusInv, Active, WorkType, RowType
    <3> QED BY <1>11, <2>1, <3>1, <3>2, <3>3, WorkerHolds DEF Start
  <2>2. CASE faults # 0
    BY <1>11, <2>2 DEF Start, HeldInv
  <2> QED BY <2>1, <2>2
<1>12. ASSUME NEW w \in Workers, ExecEnd(w) PROVE HeldInv'
  <2>1. CASE faults = 0
    <3>1. \A v \in Workers \ {w} : wpc'[v] = wpc[v] /\ wtask'[v] = wtask[v]
      BY <1>12 DEF ExecEnd, Goto, WorkType
    <3>2. \A t \in Tasks : ~Working(w, t) => status'[t] = status[t]
      BY <1>12 DEF ExecEnd, Goto, WorkType, RowType
    <3>3. ASSUME NEW t \in Tasks, Working(w, t)
          PROVE  \/ status'[t] \notin Active
                 \/ status'[t] = "pending" /\ wtask'[w] = t /\ wpc'[w] \in {"load", "save"}
                 \/ status'[t] = "running" /\ Working(w, t)'
      BY <1>12, <2>1, <3>3, WorkingStatus DEF ExecEnd, Goto, StatusInv, Active, WorkType, RowType
    <3> QED BY <1>12, <2>1, <3>1, <3>2, <3>3, WorkerHolds DEF ExecEnd
  <2>2. CASE faults # 0
    BY <1>12, <2>2 DEF ExecEnd, HeldInv
  <2> QED BY <2>1, <2>2
<1>13. ASSUME NEW w \in Workers, ExecTimeout(w) PROVE HeldInv'
  <2>1. CASE faults = 0
    <3>1. \A v \in Workers \ {w} : wpc'[v] = wpc[v] /\ wtask'[v] = wtask[v]
      BY <1>13 DEF ExecTimeout, Goto, WorkType
    <3>2. \A t \in Tasks : ~Working(w, t) => status'[t] = status[t]
      BY <1>13 DEF ExecTimeout, Goto, WorkType, RowType
    <3>3. ASSUME NEW t \in Tasks, Working(w, t)
          PROVE  \/ status'[t] \notin Active
                 \/ status'[t] = "pending" /\ wtask'[w] = t /\ wpc'[w] \in {"load", "save"}
                 \/ status'[t] = "running" /\ Working(w, t)'
      BY <1>13, <2>1, <3>3, WorkingStatus DEF ExecTimeout, Goto, StatusInv, Active, WorkType,
         RowType
    <3> QED BY <1>13, <2>1, <3>1, <3>2, <3>3, WorkerHolds DEF ExecTimeout
  <2>2. CASE faults # 0
    BY <1>13, <2>2 DEF ExecTimeout, HeldInv
  <2> QED BY <2>1, <2>2
<1>14. ASSUME NEW w \in Workers, Check(w) PROVE HeldInv'
  <2>1. CASE faults = 0
    <3>1. \A v \in Workers \ {w} : wpc'[v] = wpc[v] /\ wtask'[v] = wtask[v]
      BY <1>14 DEF Check, Goto, WorkType
    <3>2. \A t \in Tasks : ~Working(w, t) => status'[t] = status[t]
      BY <1>14 DEF Check, Goto, WorkType, RowType
    <3>3. ASSUME NEW t \in Tasks, Working(w, t)
          PROVE  \/ status'[t] \notin Active
                 \/ status'[t] = "pending" /\ wtask'[w] = t /\ wpc'[w] \in {"load", "save"}
                 \/ status'[t] = "running" /\ Working(w, t)'
      BY <1>14, <2>1, <3>3, WorkingStatus DEF Check, Goto, StatusInv, Active, WorkType, RowType
    <3> QED BY <1>14, <2>1, <3>1, <3>2, <3>3, WorkerHolds DEF Check
  <2>2. CASE faults # 0
    BY <1>14, <2>2 DEF Check, HeldInv
  <2> QED BY <2>1, <2>2
<1>15. ASSUME NEW w \in Workers, CheckFault(w) PROVE HeldInv'
  BY <1>15 DEF CheckFault, Fault, Goto, HeldInv, RestType
<1>16. ASSUME NEW w \in Workers, Write(w) PROVE HeldInv'
  <2>1. CASE faults = 0
    <3>1. \A v \in Workers \ {w} : wpc'[v] = wpc[v] /\ wtask'[v] = wtask[v]
      BY <1>16 DEF Write, Goto, Updated, WorkType
    <3>2. \A t \in Tasks : ~Working(w, t) => status'[t] = status[t]
      BY <1>16 DEF Write, Goto, Updated, WorkType, RowType
    <3>3. ASSUME NEW t \in Tasks, Working(w, t)
          PROVE  \/ status'[t] \notin Active
                 \/ status'[t] = "pending" /\ wtask'[w] = t /\ wpc'[w] \in {"load", "save"}
                 \/ status'[t] = "running" /\ Working(w, t)'
      BY <1>16, <2>1, <3>3, WorkingStatus DEF Write, Goto, Updated, StatusInv, Active, WorkType,
         RowType
    <3> QED BY <1>16, <2>1, <3>1, <3>2, <3>3, WorkerHolds DEF Write
  <2>2. CASE faults # 0
    BY <1>16, <2>2 DEF Write, HeldInv
  <2> QED BY <2>1, <2>2
<1>17. ASSUME NEW w \in Workers, WriteFail(w) PROVE HeldInv'
  <2>1. CASE faults = 0
    <3>1. \A v \in Workers \ {w} : wpc'[v] = wpc[v] /\ wtask'[v] = wtask[v]
      BY <1>17 DEF WriteFail, Return, Updated, WorkType
    <3>2. \A t \in Tasks : ~Working(w, t) => status'[t] = status[t]
      BY <1>17 DEF WriteFail, Return, Updated, WorkType, RowType
    <3>3. ASSUME NEW t \in Tasks, Working(w, t)
          PROVE  \/ status'[t] \notin Active
                 \/ status'[t] = "pending" /\ wtask'[w] = t /\ wpc'[w] \in {"load", "save"}
                 \/ status'[t] = "running" /\ Working(w, t)'
      BY <1>17, <2>1, <3>3, WorkingStatus DEF WriteFail, Return, Updated, StatusInv, Active,
         WorkType, RowType
    <3> QED BY <1>17, <2>1, <3>1, <3>2, <3>3, WorkerHolds DEF WriteFail
  <2>2. CASE faults # 0
    BY <1>17, <2>2 DEF WriteFail, HeldInv
  <2> QED BY <2>1, <2>2
<1>18. ASSUME NEW w \in Workers, WriteFault(w) PROVE HeldInv'
  BY <1>18 DEF WriteFault, Fault, Goto, Return, HeldInv, RestType
<1>19. ASSUME NEW w \in Workers, Cleanup(w) PROVE HeldInv'
  <2>1. CASE faults = 0
    <3>1. \A v \in Workers \ {w} : wpc'[v] = wpc[v] /\ wtask'[v] = wtask[v]
      BY <1>19 DEF Cleanup, Return, WorkType
    <3>2. \A t \in Tasks : ~Working(w, t) => status'[t] = status[t]
      BY <1>19 DEF Cleanup, Return, WorkType, RowType
    <3>3. ASSUME NEW t \in Tasks, Working(w, t)
          PROVE  \/ status'[t] \notin Active
                 \/ status'[t] = "pending" /\ wtask'[w] = t /\ wpc'[w] \in {"load", "save"}
                 \/ status'[t] = "running" /\ Working(w, t)'
      BY <1>19, <2>1, <3>3, WorkingStatus DEF Cleanup, Return, StatusInv, Active, WorkType,
         RowType
    <3> QED BY <1>19, <2>1, <3>1, <3>2, <3>3, WorkerHolds DEF Cleanup
  <2>2. CASE faults # 0
    BY <1>19, <2>2 DEF Cleanup, HeldInv
  <2> QED BY <2>1, <2>2
<1>20. ASSUME NEW t \in Tasks, ZombieEnd(t) PROVE HeldInv'
  <2>1. \A x \in Tasks : Queued(x)' <=> Queued(x)
    BY <1>20 DEF ZombieEnd, Queued
  <2> QED BY <1>20, <2>1 DEF ZombieEnd, HeldInv, RowsHeld, StatusInv, IdleInv, Unheld, Active,
    RowType, QueueType, WorkType, ScanType, RestType
<1>21. CASE ScanQuery
  <2>1. \A x \in Tasks : Queued(x)' <=> Queued(x)
    BY <1>21 DEF ScanQuery, Retryable, Queued
  <2> QED BY <1>21, <2>1 DEF ScanQuery, Retryable, HeldInv, RowsHeld, StatusInv, IdleInv, Unheld,
    Active, RowType, QueueType, WorkType, ScanType, RestType
<1>22. ASSUME NEW t \in Tasks, ScanClaim(t) PROVE HeldInv'
  <2>1. \A x \in Tasks : Queued(x)' <=> Queued(x)
    BY <1>22 DEF ScanClaim, Claimable, Queued
  <2> QED BY <1>22, <2>1 DEF ScanClaim, Claimable, HeldInv, RowsHeld, StatusInv, IdleInv, Unheld,
    Active, RowType, QueueType, WorkType, ScanType, RestType
<1>23. ASSUME NEW t \in Tasks, ScanClaimFault(t) PROVE HeldInv'
  BY <1>23 DEF ScanClaimFault, Fault, HeldInv, RestType
<1>24. CASE ScanReset
  <2>1. \A x \in Tasks : Queued(x)' <=> Queued(x)
    BY <1>24 DEF ScanReset, Updated, Queued
  <2> QED BY <1>24, <2>1 DEF ScanReset, Updated, HeldInv, RowsHeld, StatusInv, IdleInv, Unheld,
    Active, RowType, QueueType, WorkType, ScanType, RestType
<1>25. CASE ScanResetFault
  BY <1>25 DEF ScanResetFault, Fault, NextCand, HeldInv, RestType
<1>26. CASE ScanSend
  <2>1. CASE HasRoom(cur)
    <3>1. cur \in Tasks /\ Retrying(cur) /\ ~Queued(cur)
      BY <1>26 DEF ScanSend, ScanType, OneHolder
    <3>2. \A x \in Tasks : Queued(x)' <=> Queued(x) \/ x = cur
      BY <1>26, <2>1, <3>1, PushQueued DEF ScanSend
    <3> QED BY <1>26, <2>1, <3>1, <3>2 DEF ScanSend, NextCand, HeldInv, RowsHeld, RestType
  <2>2. CASE ~HasRoom(cur)
    <3>1. \A x \in Tasks : Queued(x)' <=> Queued(x)
      BY <1>26, <2>2 DEF ScanSend, Queued
    <3> QED BY <1>26, <2>2, <3>1 DEF ScanSend, HeldInv, RowsHeld, RestType
  <2> QED BY <2>1, <2>2
<1>27. CASE ScanTimeout
  <2>1. \A x \in Tasks : Queued(x)' <=> Queued(x)
    BY <1>27 DEF ScanTimeout, Queued
  <2> QED BY <1>27, <2>1 DEF ScanTimeout, HeldInv, RowsHeld, StatusInv, IdleInv, Unheld, Active,
    RowType, QueueType, WorkType, ScanType, RestType
<1>28. CASE ScanFail
  <2>1. \A x \in Tasks : Queued(x)' <=> Queued(x)
    BY <1>28 DEF ScanFail, Queued
  <2>2. /\ cur \in Tasks
        /\ \A x \in Tasks :
             status'[x] = IF x = cur /\ status[x] # "absent" THEN "failed" ELSE status[x]
    BY <1>28 DEF ScanFail, Updated, ScanType, RowType
  <2> QED BY <1>28, <2>1, <2>2 DEF ScanFail, HeldInv, RowsHeld
<1>29. ASSUME NEW t \in Tasks, CancelRow(t) PROVE HeldInv'
  <2>1. \A x \in Tasks : Queued(x)' <=> Queued(x)
    BY <1>29 DEF CancelRow, Queued
  <2> QED BY <1>29, <2>1 DEF CancelRow, HeldInv, RowsHeld, StatusInv, IdleInv, Unheld, Active,
    RowType, QueueType, WorkType, ScanType, RestType
<1>30. ASSUME NEW t \in Tasks, CancelSignal(t) PROVE HeldInv'
  <2>1. \A x \in Tasks : Queued(x)' <=> Queued(x)
    BY <1>30 DEF CancelSignal, Queued
  <2> QED BY <1>30, <2>1 DEF CancelSignal, HeldInv, RowsHeld, StatusInv, IdleInv, Unheld, Active,
    RowType, QueueType, WorkType, ScanType, RestType
<1>31. ASSUME NEW t \in Tasks, DeleteRead(t) PROVE HeldInv'
  <2>1. \A x \in Tasks : Queued(x)' <=> Queued(x)
    BY <1>31 DEF DeleteRead, Queued
  <2> QED BY <1>31, <2>1 DEF DeleteRead, HeldInv, RowsHeld, StatusInv, IdleInv, Unheld, Active,
    RowType, QueueType, WorkType, ScanType, RestType
<1>32. ASSUME NEW t \in Tasks, DeleteRow(t) PROVE HeldInv'
  <2>1. \A x \in Tasks : Queued(x)' <=> Queued(x)
    BY <1>32 DEF DeleteRow, Queued
  <2> QED BY <1>32, <2>1 DEF DeleteRow, HeldInv, RowsHeld, StatusInv, IdleInv, Unheld, Active,
    RowType, QueueType, WorkType, ScanType, RestType
<1>33. CASE Crash
  <2> QED BY <1>33 DEF Crash, HeldInv, RowsHeld, StatusInv, IdleInv, Unheld, Active, RowType,
    QueueType, WorkType, ScanType, RestType
<1>34. CASE SweepStaleRecords
  <2>1. \A x \in Tasks : Queued(x)' <=> Queued(x)
    BY <1>34 DEF SweepStaleRecords, Swept, Active, Queued
  <2> QED BY <1>34, <2>1 DEF SweepStaleRecords, Swept, Active, HeldInv, RowsHeld, StatusInv,
    IdleInv, Unheld, Active, RowType, QueueType, WorkType, ScanType, RestType
<1>35. CASE SweepOrphanRunning
  <2>1. \A x \in Tasks : Queued(x)' <=> Queued(x)
    BY <1>35 DEF SweepOrphanRunning, Swept, Active, Queued
  <2> QED BY <1>35, <2>1 DEF SweepOrphanRunning, Swept, Active, HeldInv, RowsHeld, StatusInv,
    IdleInv, Unheld, Active, RowType, QueueType, WorkType, ScanType, RestType
<1>36. CASE SweepFault
  BY <1>36, BoundAssumption DEF SweepFault, HeldInv, RestType
<1>37. CASE UNCHANGED vars
  BY <1>37 DEF vars, HeldInv, RowsHeld, Queued
<1> QED
  BY <1>1, <1>2, <1>3, <1>4, <1>5, <1>6, <1>7, <1>8, <1>9, <1>10, <1>11, <1>12, <1>13, <1>14,
     <1>15, <1>16, <1>17, <1>18, <1>19, <1>20, <1>21, <1>22, <1>23, <1>24, <1>25, <1>26, <1>27,
     <1>28, <1>29, <1>30, <1>31, <1>32, <1>33, <1>34, <1>35, <1>36, <1>37
  DEF Next, Submit, Run, WorkerFault, ScanStep

\* Nothing is lost: as long as no database access has failed, an active row is held by its
\* submission, its queue, a worker or the scanner, and without a crash a claimed row is the
\* scanner's.
THEOREM NothingIsLost == Spec => []NothingLost
<1>1. Init => HeldInv /\ ClaimInv
  BY CustodyInit DEF Init, CustodyInv, IdleInv, HeldInv, RowsHeld, ClaimInv, ClaimHeld, Active,
     WorkType
<1>2. Inv /\ HeldInv /\ ClaimInv /\ [Next]_vars => HeldInv' /\ ClaimInv'
  <2> SUFFICES ASSUME Inv, HeldInv, ClaimInv, [Next]_vars, faults' = 0
               PROVE  HeldInv' /\ ClaimInv'
    BY DEF HeldInv, ClaimInv
  <2>1. ~slipped
    BY SlipStays DEF Inv, TypeOK, RestType
  <2> QED BY <2>1, HeldStep, ClaimStep DEF Inv
<1>3. HeldInv /\ ClaimInv => NothingLost
  BY DEF HeldInv, ClaimInv, NothingLost, RowsHeld, ClaimHeld
<1> QED BY <1>1, <1>2, <1>3, InvInductive, PTL DEF Spec

=============================================================================
