---------------------------- MODULE TaskManager ----------------------------
(***************************************************************************)
(* The asynchronous task queue of the backend (service/tasks): the rows of *)
(* the table tasks, Submit and the bounded in-memory queues, the worker    *)
(* goroutines of the fast and the slow pool, the retry scanner, the        *)
(* handlers CancelTask and DeleteTask, and the sweeps of a restart.        *)
(*                                                                         *)
(* One database statement, one channel operation or one map operation is   *)
(* one step; everything between two of them is local to a goroutine.       *)
(* What a task does is left out: its executor ends, with or without an     *)
(* error, or is abandoned by the timeout.                                  *)
(***************************************************************************)
EXTENDS Naturals, Sequences, FiniteSets

CONSTANTS
  Tasks,        \* ids of the rows that are submitted
  Workers,      \* worker goroutines
  Pools,        \* queues: the fast and the slow pool
  PoolOf,       \* pool of a task, by its type (slowTaskTypes)
  WPool,        \* pool a worker reads
  QueueCap,     \* queueBufferSize
  MaxRetry,     \* max_retry of a task, by its type; 0: not in retryableTypes
  Broken,       \* tasks of an unknown type or with a corrupt payload
  Cancellable,  \* bound: the tasks users try to cancel
  Deletable,    \* bound: the tasks users try to delete
  None,         \* no task, no worker
  MaxFaults,    \* bound: failed database calls and panics
  MaxCrashes    \* bound: crashes of the process

ASSUME PoolAssumption   == PoolOf \in [Tasks -> Pools] /\ WPool \in [Workers -> Pools]
ASSUME NoneAssumption   == None \notin Tasks \cup Workers
ASSUME RetryAssumption  == MaxRetry \in [Tasks -> Nat]
ASSUME BoundAssumption  == /\ QueueCap \in Nat \ {0}
                           /\ MaxFaults \in Nat /\ MaxCrashes \in Nat
ASSUME SubsetAssumption == /\ Broken \subseteq Tasks
                           /\ Cancellable \subseteq Tasks /\ Deletable \subseteq Tasks

VARIABLES
  status, retries, rstate,  \* the row: status ("absent": no row), retry_count and
                            \* retry_state ("free": empty)
  spc,                      \* Submit of a task: where it is, or what it returned
  queue,                    \* the channels, per pool
  wpc, wtask, wres,         \* a worker: where run(id) is, its id, the status it will write
  wretries, wrstate,        \* ... and the columns it read, which Save writes back
  cancels,                  \* m.cancels: the worker whose CancelFunc is registered
  zombies,                  \* executors abandoned by the timeout, still running
  scan, cur, cands, seen,   \* the scanner: where it is, its task, its batch, retry_counts read
  cancelling, deleting,     \* user calls between their two steps
  life, faults, crashes,   \* the process: up, down, or between its two sweeps
  starts, slipped           \* history: executions begun; a worker panicked after its
                            \* terminal write

row   == <<status, retries, rstate>>
work  == <<wpc, wtask, wres, wretries, wrstate>>
retry == <<scan, cur, cands, seen>>
users == <<cancelling, deleting>>
env   == <<life, faults, crashes>>
hist  == <<starts, slipped>>
vars  == <<row, spc, queue, work, cancels, zombies, retry, users, env, hist>>

Active   == {"pending", "running"}
Terminal == {"success", "failed", "cancelled"}

RowType ==
  /\ status \in [Tasks -> {"absent"} \cup Active \cup Terminal]
  /\ retries \in [Tasks -> Nat]
  /\ rstate \in [Tasks -> {"free", "claiming", "aborted"}]

QueueType ==
  /\ spc \in [Tasks -> {"new", "try", "wait", "reject", "accepted", "busy", "lost"}]
  /\ queue \in [Pools -> Seq(Tasks)]

WorkType ==
  /\ wpc \in [Workers -> {"idle", "load", "save", "start", "exec", "check",
                          "write", "fail", "cleanup"}]
  /\ wtask \in [Workers -> Tasks \cup {None}]
  /\ wres \in [Workers -> {"success", "failed"}]
  /\ wretries \in [Workers -> Nat]
  /\ wrstate \in [Workers -> {"free", "claiming", "aborted"}]
  /\ cancels \in [Tasks -> Workers \cup {None}]
  /\ \A w \in Workers : wpc[w] # "idle" => wtask[w] \in Tasks

ScanType ==
  /\ scan \in {"idle", "claim", "reset", "try", "wait", "fail"}
  /\ cur \in Tasks \cup {None}
  /\ cands \subseteq Tasks
  /\ seen \in [Tasks -> Nat]
  /\ scan \in {"reset", "try", "wait", "fail"} => cur \in Tasks

RestType ==
  /\ zombies \in [Tasks -> Nat] /\ starts \in [Tasks -> Nat]
  /\ slipped \in BOOLEAN /\ (slipped => faults # 0)
  /\ cancelling \subseteq Tasks /\ deleting \subseteq Tasks
  /\ life \in {"up", "down", "swept"} /\ faults \in Nat /\ crashes \in Nat

TypeOK == RowType /\ QueueType /\ WorkType /\ ScanType /\ RestType

Init ==
  /\ status = [t \in Tasks |-> "absent"]
  /\ retries = [t \in Tasks |-> 0]
  /\ rstate = [t \in Tasks |-> "free"]
  /\ spc = [t \in Tasks |-> "new"]
  /\ queue = [p \in Pools |-> <<>>]
  /\ wpc = [w \in Workers |-> "idle"]
  /\ wtask = [w \in Workers |-> None]
  /\ wres = [w \in Workers |-> "failed"]
  /\ wretries = [w \in Workers |-> 0]
  /\ wrstate = [w \in Workers |-> "free"]
  /\ cancels = [t \in Tasks |-> None]
  /\ zombies = [t \in Tasks |-> 0]
  /\ scan = "idle" /\ cur = None /\ cands = {} /\ seen = [t \in Tasks |-> 0]
  /\ cancelling = {} /\ deleting = {}
  /\ life = "up" /\ faults = 0 /\ crashes = 0
  /\ starts = [t \in Tasks |-> 0] /\ slipped = FALSE

(***************************************************************************)
(* Helpers                                                                 *)
(***************************************************************************)

\* An UPDATE by primary key changes nothing when the row is gone.
Updated(t, s) == IF status[t] = "absent" THEN status
                 ELSE [status EXCEPT ![t] = s]

HasRoom(t) == Len(queue[PoolOf[t]]) < QueueCap

Pushed(t) == [queue EXCEPT ![PoolOf[t]] = Append(@, t)]

up == life = "up"

Fault == up /\ faults < MaxFaults /\ faults' = faults + 1

\* The worker goes on at step s of run, or ends run and forgets its locals.
Goto(w, s) == wpc' = [wpc EXCEPT ![w] = s] /\ UNCHANGED wtask

Return(w) == /\ wpc' = [wpc EXCEPT ![w] = "idle"]
             /\ wtask' = [wtask EXCEPT ![w] = None]

(***************************************************************************)
(* Submit and enqueue, called by a handler's goroutine                     *)
(***************************************************************************)
SubmitCreate(t) ==
  /\ up /\ spc[t] = "new"
  /\ status' = [status EXCEPT ![t] = "pending"]
  /\ spc' = [spc EXCEPT ![t] = "try"]
  /\ UNCHANGED <<retries, rstate, queue, work, cancels, zombies, retry, users, env, hist>>

\* enqueue: a non-blocking send first, then a send bounded by enqueueTimeout.
SubmitSend(t) ==
  /\ up /\ spc[t] \in {"try", "wait"}
  /\ IF HasRoom(t)
     THEN queue' = Pushed(t) /\ spc' = [spc EXCEPT ![t] = "accepted"]
     ELSE /\ spc[t] = "try"
          /\ spc' = [spc EXCEPT ![t] = "wait"]
          /\ UNCHANGED queue
  /\ UNCHANGED <<row, work, cancels, zombies, retry, users, env, hist>>

SubmitTimeout(t) ==
  /\ up /\ spc[t] = "wait"
  /\ spc' = [spc EXCEPT ![t] = "reject"]
  /\ UNCHANGED <<row, queue, work, cancels, zombies, retry, users, env, hist>>

\* Mutant: ErrQueueBusy is returned without markFailed.
SubmitRejectUnmarked(t) ==
  /\ up /\ spc[t] = "reject"
  /\ spc' = [spc EXCEPT ![t] = "busy"]
  /\ UNCHANGED <<row, queue, work, cancels, zombies, retry, users, env, hist>>

\* markFailed(msgQueueBusy), then ErrQueueBusy is returned.
SubmitReject(t) ==
  /\ up /\ spc[t] = "reject"
  /\ status' = Updated(t, "failed")
  /\ spc' = [spc EXCEPT ![t] = "busy"]
  /\ UNCHANGED <<retries, rstate, queue, work, cancels, zombies, retry, users, env, hist>>

SubmitRejectFault(t) ==
  /\ Fault /\ spc[t] = "reject"
  /\ spc' = [spc EXCEPT ![t] = "busy"]
  /\ UNCHANGED <<row, queue, work, cancels, zombies, retry, users, life, crashes, hist>>

Submit(t) == SubmitCreate(t) \/ SubmitSend(t) \/ SubmitTimeout(t) \/ SubmitReject(t)

(***************************************************************************)
(* A worker: loop and run                                                  *)
(***************************************************************************)
Dequeue(w) ==
  /\ up /\ wpc[w] = "idle" /\ queue[WPool[w]] # <<>>
  /\ wtask' = [wtask EXCEPT ![w] = Head(queue[WPool[w]])]
  /\ queue' = [queue EXCEPT ![WPool[w]] = Tail(@)]
  /\ wpc' = [wpc EXCEPT ![w] = "load"]
  /\ UNCHANGED <<row, spc, wres, wretries, wrstate, cancels, zombies, retry, users, env, hist>>

\* DB.First: a deleted row is logged and forgotten.
Load(w) ==
  LET t == wtask[w] IN
  /\ up /\ wpc[w] = "load"
  /\ IF status[t] = "absent"
     THEN Return(w) /\ UNCHANGED <<wretries, wrstate>>
     ELSE /\ Goto(w, "save")
          /\ wretries' = [wretries EXCEPT ![w] = retries[t]]
          /\ wrstate' = [wrstate EXCEPT ![w] = rstate[t]]
  /\ UNCHANGED <<row, spc, queue, wres, cancels, zombies, retry, users, env, hist>>

\* DB.Save writes the whole row back, and inserts it when it is gone.
SaveRunning(w) ==
  LET t == wtask[w] IN
  /\ up /\ wpc[w] = "save"
  /\ status' = [status EXCEPT ![t] = "running"]
  /\ retries' = [retries EXCEPT ![t] = wretries[w]]
  /\ rstate' = [rstate EXCEPT ![t] = wrstate[w]]
  /\ wretries' = [wretries EXCEPT ![w] = 0]
  /\ wrstate' = [wrstate EXCEPT ![w] = "free"]
  /\ Goto(w, "start")
  /\ UNCHANGED <<spc, queue, wres, cancels, zombies, retry, users, env, hist>>

\* DB.First or DB.Save fails: the task is dropped, its row stays as it is.
DropFault(w) ==
  /\ Fault /\ wpc[w] \in {"load", "save"}
  /\ Return(w)
  /\ UNCHANGED <<row, spc, queue, wres, wretries, wrstate, cancels, zombies, retry,
                 users, life, crashes, hist>>

\* A panic outside the executor: the deferred m.cancels.Delete, recover, then markFailed.
\* lg.Close is deferred as well and writes to the database: a panic in it comes after the
\* terminal write, when others may have the task, and markFailed follows all the same.
PanicFault(w) ==
  /\ Fault /\ wpc[w] \in {"load", "save", "start", "check", "write", "cleanup"}
  /\ cancels' = IF wpc[w] \in {"check", "write", "cleanup"}
                THEN [cancels EXCEPT ![wtask[w]] = None] ELSE cancels
  /\ slipped' = (slipped \/ wpc[w] = "cleanup")
  /\ Goto(w, "fail")
  /\ UNCHANGED <<row, spc, queue, wres, wretries, wrstate, zombies, retry, users, life,
                 crashes, starts>>

\* A task of an unknown type or with a corrupt payload is not executed, only settled.
Start(w) ==
  LET t == wtask[w] IN
  /\ up /\ wpc[w] = "start"
  /\ IF t \in Broken
     THEN Goto(w, "write") /\ wres' = [wres EXCEPT ![w] = "failed"] /\ UNCHANGED <<cancels, starts>>
     ELSE /\ Goto(w, "exec")
          /\ cancels' = [cancels EXCEPT ![t] = w]
          /\ starts' = [starts EXCEPT ![t] = @ + 1]
          /\ UNCHANGED wres
  /\ UNCHANGED <<row, spc, queue, wretries, wrstate, zombies, retry, users, env, slipped>>

\* The executor returns; a panic in it is an error.
ExecEnd(w) ==
  /\ up /\ wpc[w] = "exec"
  /\ \E r \in {"success", "failed"} : wres' = [wres EXCEPT ![w] = r]
  /\ Goto(w, "check")
  /\ UNCHANGED <<row, spc, queue, wretries, wrstate, cancels, zombies, retry, users,
                 env, hist>>

\* The executor is left running, unless it ended as the timer fired.
ExecTimeout(w) ==
  /\ up /\ wpc[w] = "exec"
  /\ wres' = [wres EXCEPT ![w] = "failed"]
  /\ \E n \in {0, 1} : zombies' = [zombies EXCEPT ![wtask[w]] = @ + n]
  /\ Goto(w, "check")
  /\ UNCHANGED <<row, spc, queue, wretries, wrstate, cancels, retry, users, env, hist>>

ZombieEnd(t) ==
  /\ up /\ zombies[t] > 0
  /\ zombies' = [zombies EXCEPT ![t] = @ - 1]
  /\ UNCHANGED <<row, spc, queue, work, cancels, retry, users, env, hist>>

\* isCancelled: a cancelled task keeps its status.
Check(w) ==
  /\ up /\ wpc[w] = "check"
  /\ Goto(w, IF status[wtask[w]] = "cancelled" THEN "cleanup" ELSE "write")
  /\ UNCHANGED <<row, spc, queue, wres, wretries, wrstate, cancels, zombies, retry,
                 users, env, hist>>

\* isCancelled answers false when its query fails.
CheckFault(w) ==
  /\ Fault /\ wpc[w] = "check"
  /\ Goto(w, "write")
  /\ UNCHANGED <<row, spc, queue, wres, wretries, wrstate, cancels, zombies, retry,
                 users, life, crashes, hist>>

\* The terminal write of an execution.
Write(w) ==
  /\ up /\ wpc[w] = "write"
  /\ status' = Updated(wtask[w], wres[w])
  /\ wres' = [wres EXCEPT ![w] = "failed"]
  /\ Goto(w, "cleanup")
  /\ UNCHANGED <<retries, rstate, spc, queue, wretries, wrstate, cancels,
                 zombies, retry, users, env, hist>>

\* markFailed after a panic, whatever the row says by then.
WriteFail(w) ==
  /\ up /\ wpc[w] = "fail"
  /\ status' = Updated(wtask[w], "failed")
  /\ Return(w)
  /\ UNCHANGED <<retries, rstate, spc, queue, wres, wretries, wrstate, cancels,
                 zombies, retry, users, env, hist>>

\* updateTaskFields gives up after finalWriteAttempts.
WriteFault(w) ==
  /\ Fault /\ wpc[w] \in {"write", "fail"}
  /\ IF wpc[w] = "write" THEN Goto(w, "cleanup") ELSE Return(w)
  /\ UNCHANGED <<row, spc, queue, wres, wretries, wrstate, cancels, zombies, retry,
                 users, life, crashes, hist>>

\* The deferred m.cancels.Delete(id).
Cleanup(w) ==
  /\ up /\ wpc[w] = "cleanup"
  /\ cancels' = [cancels EXCEPT ![wtask[w]] = None]
  /\ Return(w)
  /\ UNCHANGED <<row, spc, queue, wres, wretries, wrstate, zombies, retry, users, env,
                 hist>>

Run(w) == \/ Dequeue(w) \/ Load(w) \/ SaveRunning(w) \/ Start(w) \/ ExecEnd(w)
          \/ ExecTimeout(w) \/ Check(w) \/ Write(w) \/ WriteFail(w) \/ Cleanup(w)

WorkerFault(w) == DropFault(w) \/ PanicFault(w) \/ CheckFault(w) \/ WriteFault(w)

(***************************************************************************)
(* The retry scanner                                                       *)
(***************************************************************************)
\* Mutants: conditions of the scanner's query dropped or loosened.
RetryableActive(t)   == status[t] \notin {"absent", "success"} /\ rstate[t] = "free"
                        /\ retries[t] < MaxRetry[t]
RetryableTerminal(t) == status[t] \in Terminal /\ rstate[t] = "free"
                        /\ retries[t] < MaxRetry[t]
RetryableAgain(t)    == status[t] = "failed" /\ rstate[t] = "free"
                        /\ retries[t] <= MaxRetry[t]

\* The candidates of scanRetriesOnce: max_retry is positive for whitelisted types only.
Retryable(t) == status[t] = "failed" /\ rstate[t] = "free" /\ retries[t] < MaxRetry[t]

\* A tick of the scanner; one that finds nothing changes nothing.
ScanQuery ==
  /\ up /\ scan = "idle"
  /\ cands' = {t \in Tasks : Retryable(t)}
  /\ seen' = [t \in Tasks |-> IF t \in cands' THEN retries[t] ELSE 0]
  /\ scan' = IF cands' = {} THEN "idle" ELSE "claim"
  /\ UNCHANGED <<row, spc, queue, work, cancels, zombies, cur, users, env, hist>>

\* The scanner leaves its task and goes to the next candidate.
NextCand == scan' = IF cands = {} THEN "idle" ELSE "claim"

\* The row-level compare-and-set on retry_state.
Claimable(t) == status[t] # "absent" /\ rstate[t] = "free"

ScanClaim(t) ==
  /\ up /\ scan = "claim" /\ t \in cands
  /\ cands' = cands \ {t}
  /\ IF Claimable(t)
     THEN /\ rstate' = [rstate EXCEPT ![t] = "claiming"]
          /\ cur' = t /\ scan' = "reset"
     ELSE /\ scan' = IF cands' = {} THEN "idle" ELSE "claim"
          /\ UNCHANGED <<rstate, cur>>
  /\ UNCHANGED <<status, retries, spc, queue, work, cancels, zombies, seen, users, env,
                 hist>>

ScanClaimFault(t) ==
  /\ Fault /\ scan = "claim" /\ t \in cands
  /\ cands' = cands \ {t}
  /\ scan' = IF cands' = {} THEN "idle" ELSE "claim"
  /\ UNCHANGED <<row, spc, queue, work, cancels, zombies, cur, seen, users, life, crashes,
                 hist>>

\* Mutants: a reset that does not count the retry, or does not end the claim.
ScanResetUncounted ==
  /\ up /\ scan = "reset"
  /\ status' = Updated(cur, "pending")
  /\ rstate' = IF status[cur] = "absent" THEN rstate ELSE [rstate EXCEPT ![cur] = "free"]
  /\ seen' = [seen EXCEPT ![cur] = 0]
  /\ scan' = "try"
  /\ UNCHANGED <<retries, spc, queue, work, cancels, zombies, cur, cands, users, env, hist>>

\* requeueForRetry: back to pending; a row deleted meanwhile is not updated.
ScanReset ==
  /\ up /\ scan = "reset"
  /\ status' = Updated(cur, "pending")
  /\ IF status[cur] = "absent" THEN UNCHANGED <<retries, rstate>>
     ELSE /\ retries' = [retries EXCEPT ![cur] = seen[cur] + 1]
          /\ rstate' = [rstate EXCEPT ![cur] = "free"]
  /\ seen' = [seen EXCEPT ![cur] = 0]
  /\ scan' = "try"
  /\ UNCHANGED <<spc, queue, work, cancels, zombies, cur, cands, users, env, hist>>

\* The reset fails: retry_state is put back, unless that update fails as well.
ScanResetFault ==
  /\ Fault /\ scan = "reset"
  /\ \E r \in {"free", "claiming"} :
       rstate' = IF status[cur] = "absent" THEN rstate ELSE [rstate EXCEPT ![cur] = r]
  /\ NextCand /\ cur' = None
  /\ UNCHANGED <<status, retries, spc, queue, work, cancels, zombies, cands, seen, users,
                 life, crashes, hist>>

ScanSend ==
  /\ up /\ scan \in {"try", "wait"}
  /\ IF HasRoom(cur)
     THEN queue' = Pushed(cur) /\ NextCand /\ cur' = None
     ELSE scan = "try" /\ scan' = "wait" /\ UNCHANGED <<queue, cur>>
  /\ UNCHANGED <<row, spc, work, cancels, zombies, cands, seen, users, env, hist>>

ScanTimeout ==
  /\ up /\ scan = "wait"
  /\ scan' = "fail"
  /\ UNCHANGED <<row, spc, queue, work, cancels, zombies, cur, cands, seen, users, env, hist>>

\* markFailed in enqueue and again in requeueForRetry: the second changes nothing.
ScanFail ==
  /\ up /\ scan = "fail"
  /\ status' = Updated(cur, "failed")
  /\ NextCand /\ cur' = None
  /\ UNCHANGED <<retries, rstate, spc, queue, work, cancels, zombies, cands, seen, users, env,
                 hist>>

ScanStep == \/ \E t \in Tasks : ScanClaim(t)
            \/ ScanReset \/ ScanSend \/ ScanTimeout \/ ScanFail

(***************************************************************************)
(* The handlers CancelTask and DeleteTask                                  *)
(***************************************************************************)
\* Cancel: the compare-and-set running -> cancelled; the read before it adds nothing.
CancelRow(t) ==
  /\ up /\ t \in Cancellable \ cancelling /\ status[t] = "running"
  /\ status' = [status EXCEPT ![t] = "cancelled"]
  /\ cancelling' = cancelling \cup {t}
  /\ UNCHANGED <<retries, rstate, spc, queue, work, cancels, zombies, retry, deleting, env,
                 hist>>

\* ... then the CancelFunc, which only asks the executor to end.
CancelSignal(t) ==
  /\ up /\ t \in cancelling
  /\ cancelling' = cancelling \ {t}
  /\ UNCHANGED <<row, spc, queue, work, cancels, zombies, retry, deleting, env, hist>>

DeleteRead(t) ==
  /\ up /\ t \in Deletable \ deleting /\ status[t] \in Terminal
  /\ deleting' = deleting \cup {t}
  /\ UNCHANGED <<row, spc, queue, work, cancels, zombies, retry, cancelling, env, hist>>

DeleteRow(t) ==
  /\ up /\ t \in deleting
  /\ status' = [status EXCEPT ![t] = "absent"]
  /\ deleting' = deleting \ {t}
  /\ UNCHANGED <<retries, rstate, spc, queue, work, cancels, zombies, retry, cancelling, env,
                 hist>>

(***************************************************************************)
(* A crash, and the next start: main runs sweepStaleRecords, NewManager    *)
(* runs sweepOrphanRunning, and only then are requests served.             *)
(***************************************************************************)
Crash ==
  /\ up /\ crashes < MaxCrashes
  /\ life' = "down" /\ crashes' = crashes + 1
  /\ spc' = [t \in Tasks |-> IF spc[t] \in {"try", "wait", "reject"} THEN "lost" ELSE spc[t]]
  /\ queue' = [p \in Pools |-> <<>>]
  /\ wpc' = [w \in Workers |-> "idle"]
  /\ wtask' = [w \in Workers |-> None]
  /\ wres' = [w \in Workers |-> "failed"]
  /\ wretries' = [w \in Workers |-> 0]
  /\ wrstate' = [w \in Workers |-> "free"]
  /\ cancels' = [t \in Tasks |-> None]
  /\ zombies' = [t \in Tasks |-> 0]
  /\ scan' = "idle" /\ cur' = None /\ cands' = {} /\ seen' = [t \in Tasks |-> 0]
  /\ cancelling' = {} /\ deleting' = {}
  /\ UNCHANGED <<row, faults, hist>>

\* Mutant: the sweeps look at running rows only.
SweptRunning == [t \in Tasks |-> IF status[t] = "running" THEN "failed" ELSE status[t]]

Swept == [t \in Tasks |-> IF status[t] \in Active THEN "failed" ELSE status[t]]

SweepStaleRecords ==
  /\ life = "down" /\ life' = "swept"
  /\ status' = Swept
  /\ UNCHANGED <<retries, rstate, spc, queue, work, cancels, zombies, retry, users, faults,
                 crashes, hist>>

SweepOrphanRunning ==
  /\ life = "swept" /\ life' = "up"
  /\ status' = Swept
  /\ rstate' = [t \in Tasks |-> IF status[t] \in Active THEN "aborted" ELSE rstate[t]]
  /\ UNCHANGED <<retries, spc, queue, work, cancels, zombies, retry, users, faults, crashes,
                 hist>>

\* The UPDATE of either sweep fails: the start goes on without it.
SweepFault ==
  /\ life # "up" /\ faults < MaxFaults /\ faults' = faults + 1
  /\ life' = IF life = "down" THEN "swept" ELSE "up"
  /\ UNCHANGED <<row, spc, queue, work, cancels, zombies, retry, users, crashes, hist>>

Next ==
  \/ \E t \in Tasks : \/ Submit(t) \/ SubmitRejectFault(t) \/ ZombieEnd(t)
                      \/ ScanClaimFault(t)
                      \/ CancelRow(t) \/ CancelSignal(t) \/ DeleteRead(t) \/ DeleteRow(t)
  \/ \E w \in Workers : Run(w) \/ WorkerFault(w)
  \/ ScanQuery \/ ScanStep \/ ScanResetFault
  \/ Crash \/ SweepStaleRecords \/ SweepOrphanRunning \/ SweepFault

Spec == Init /\ [][Next]_vars

\* Every goroutine keeps running: Submit's send is bounded by its timer, run by the
\* executor's timer, the scanner ticks, and a process that is down is started again.
Fairness ==
  /\ \A t \in Tasks : WF_vars(SubmitSend(t) \/ SubmitTimeout(t) \/ SubmitReject(t))
  /\ \A w \in Workers : WF_vars(Run(w))
  /\ WF_vars(ScanQuery) /\ WF_vars(ScanStep)
  /\ WF_vars(SweepStaleRecords) /\ WF_vars(SweepOrphanRunning)

FairSpec == Spec /\ Fairness

(***************************************************************************)
(* Who holds a task: the goroutine that will still execute it or settle    *)
(* its row.                                                                *)
(***************************************************************************)
Submitting(t) == spc[t] \in {"try", "wait", "reject"}
Queued(t)     == \E i \in DOMAIN queue[PoolOf[t]] : queue[PoolOf[t]][i] = t
Loading(w, t) == wtask[w] = t /\ wpc[w] \in {"load", "save"}
Running(w, t) == wtask[w] = t /\ wpc[w] \in {"start", "exec", "check", "write", "fail"}
Working(w, t) == Loading(w, t) \/ Running(w, t)
Resetting(t)  == cur = t /\ scan = "reset"
Requeuing(t)  == cur = t /\ scan \in {"try", "wait", "fail"}
Retrying(t)   == Resetting(t) \/ Requeuing(t)

\* A task is in one pair of hands at most.
OneHolder ==
  \A t \in Tasks :
    /\ Submitting(t) => ~Queued(t) /\ ~Retrying(t)
    /\ Queued(t) => ~Retrying(t)
    /\ \A w \in Workers : Working(w, t) =>
         /\ ~Submitting(t) /\ ~Queued(t) /\ ~Retrying(t)
         /\ \A v \in Workers : Working(v, t) => v = w

\* A task is never held twice, so that it is never executed by two workers and no two
\* goroutines settle its row (Submit, enqueue, run, requeueForRetry together).  A panic in the
\* deferred flush of run settles a row that others may hold already: what is said of custody,
\* budget and finality is said of a process in which that has not happened.
SingleCustody == ~slipped => OneHolder

\* No id is in a channel twice, and each is in the channel of its pool.
QueueInv ==
  \A p \in Pools : \A i \in DOMAIN queue[p] :
    /\ PoolOf[queue[p][i]] = p
    /\ \A j \in DOMAIN queue[p] : queue[p][i] = queue[p][j] => i = j

\* The status that goes with each holder, rows deleted meanwhile included.
StatusInv ==
  \A t \in Tasks :
    /\ Submitting(t) \/ Queued(t) \/ Requeuing(t) => status[t] \in {"pending", "absent"}
    /\ Resetting(t) => status[t] \in {"failed", "absent"}
    /\ \A w \in Workers : Loading(w, t) => status[t] \in {"pending", "absent"}
    /\ \A w \in Workers : Running(w, t) => status[t] \notin {"failed", "success"}

\* A candidate of the scanner, and a task not yet submitted, is held by nobody.
Unheld(t) == /\ ~Submitting(t) /\ ~Queued(t) /\ ~Retrying(t)
             /\ \A w \in Workers : ~Working(w, t)

IdleInv ==
  \A t \in Tasks :
    /\ t \in cands => Unheld(t) /\ status[t] \in {"failed", "absent"} /\ spc[t] # "new"
    /\ spc[t] = "new" => Unheld(t) /\ status[t] = "absent"
    /\ life # "up" => Unheld(t) /\ t \notin cands

CustodyInv == QueueInv /\ OneHolder /\ StatusInv /\ IdleInv

\* The right to be executed: carried by Submit, the queue, the scanner or a worker that
\* has not read the row, as long as there is a row to read; then by the worker alone.
Due(t) ==
  \/ /\ status[t] # "absent"
     /\ \/ Submitting(t) \/ Queued(t) \/ Requeuing(t)
        \/ \E w \in Workers : wtask[w] = t /\ wpc[w] = "load"
  \/ \E w \in Workers : wtask[w] = t /\ wpc[w] \in {"save", "start"}

\* A task is begun once, and once more for each automatic retry its type allows: a type
\* outside retryableTypes is never executed twice, whatever fails, crashes or is deleted.
AtMostBudget == ~slipped => \A t \in Tasks : starts[t] <= 1 + MaxRetry[t]

\* The bookkeeping behind AtMostBudget: retry_count is what the scanner and the workers
\* last read of it, and a right not yet used is not yet counted in starts.
SeenInv ==
  \A t \in Tasks :
    /\ t \in cands \/ Resetting(t) => seen[t] = retries[t] /\ seen[t] < MaxRetry[t]
    /\ \A w \in Workers : wtask[w] = t /\ wpc[w] = "save" => wretries[w] = retries[t]

CountInv ==
  \A t \in Tasks :
    /\ retries[t] <= MaxRetry[t] /\ starts[t] <= 1 + retries[t]
    /\ Due(t) => starts[t] <= retries[t]
    /\ spc[t] = "new" => starts[t] = 0

BudgetInv == SeenInv /\ CountInv

\* While no database call fails, a pending row is always going to be picked up and a
\* running row is always going to be settled: nothing is lost between Submit, the queues,
\* the workers, the scanner and a restart.
RowsHeld ==
  life = "up" /\ faults = 0 =>
    \A t \in Tasks :
      /\ status[t] = "pending" =>
           \/ Submitting(t) \/ Queued(t) \/ Retrying(t)
           \/ \E w \in Workers : wtask[w] = t /\ wpc[w] \in {"load", "save"}
      /\ status[t] = "running" => \E w \in Workers : Working(w, t)

\* A claimed row is in the scanner's hands, so that a claim never outlives the round that
\* made it (retry_state "claiming" excludes the row from every later round).
ClaimHeld ==
  faults = 0 /\ crashes = 0 =>
    \A t \in Tasks : status[t] # "absent" /\ rstate[t] = "claiming" =>
                       scan = "reset" /\ cur = t

\* No task and no claim on one is lost (run, sweepOrphanRunning, requeueForRetry).
NothingLost == RowsHeld /\ ClaimHeld

\* A success is never overwritten: no late worker, cancel, retry or sweep touches the row, only
\* DeleteTask removes it, and only the recover of a worker whose deferred flush panicked
\* (run, the outermost defer) turns it into a failure, which the scanner may then retry.
SuccessIsFinal ==
  [][~slipped => \A t \in Tasks :
       status[t] = "success" => status'[t] \in {"success", "absent"}]_vars

\* Every task comes to rest: settled, or deleted, with no automatic retry outstanding.
Converges ==
  \A t \in Tasks : <>[](status[t] \notin Active /\ ~Retryable(t))

(***************************************************************************)
(* The queue implements TaskLedger.                                        *)
(***************************************************************************)
Ledger == INSTANCE TaskLedger WITH
            issued <- {t \in Tasks : spc[t] # "new"},
            right  <- {t \in Tasks : Due(t)},
            grants <- retries,
            runs   <- starts

\* Every step of the queue is a step of the ledger or leaves it alone, until a worker panics
\* in its deferred flush.
ImplementsLedger == Ledger!Init /\ [][Ledger!Next \/ slipped']_(Ledger!vars)

=============================================================================
