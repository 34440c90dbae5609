-------------------------------- MODULE Cron --------------------------------
(***************************************************************************)
(* Scheduled tasks: service/cron and the handlers of handler/crons.go.     *)
(*                                                                         *)
(* One goroutine, Sched, sleeps to the next minute and runs a tick; a      *)
(* request that runs a task by hand executes it in the goroutine of the    *)
(* request.  Both go through execute and share execMu.  One handler at a   *)
(* time edits the rows in the steps its statements are.  Times are kept as *)
(* ages in minutes, which stop at AgeCap, and the clock is a minute modulo *)
(* Hour, so that time goes on for ever in a finite state space.            *)
(***************************************************************************)
EXTENDS Integers, Sequences, FiniteSets, SequencesExt, Folds

CONSTANTS
    Ids,            \* task identifiers, 1..n: the rows of scheduled_tasks
    Manuals,        \* goroutines of RunNow requests
    Hour,           \* minutes after which the schedules repeat
    MaxRunAge,      \* minutes after which a running row counts as an orphan
    AgeCap,         \* where ages stop counting
    MaxChainDepth,  \* maxChainDepth
    CountCap,       \* where run_count stops counting
    Room,           \* bound: failures that leave something behind stop when there is this much
    Mixes           \* scenarios, one is drawn at Init

ASSUME CronAssumption ==
    /\ Hour \in Nat \ {0} /\ MaxChainDepth \in Nat /\ CountCap \in Nat /\ Room \in Nat
    /\ MaxRunAge \in 1..AgeCap /\ AgeCap \in Nat
    /\ Ids = 1..Cardinality(Ids) /\ "sched" \notin Manuals

Sched == "sched"
Actors == Manuals \union {Sched}
None == 0           \* no task, nobody

VARIABLES
    mix,        \* what the rows say that no handler changes here, and the budgets
    clock,      \* the wall clock's minute
    task,       \* scheduled_tasks
    runs,       \* cron_runs: the rows that still matter
    files,      \* backups or snapshots, oldest first
    sick,       \* containers: position in docker ps -> health; and those restarted
    jobs,       \* ansible_run tasks that cron submitted and that still run
    mutex,      \* execMu
    who,        \* the goroutines that execute tasks
    todo,       \* the tick's copies of the rows it has still to run
    edit,       \* the handler that edits rows
    alerted,    \* staleAlerted: task -> age of the due time it was raised for
    left,       \* what may still happen: requests, failed statements, crashes
    done        \* executions whose statistics were written (not in the code)

vars == <<mix, clock, task, runs, files, sick, jobs, mutex, who, todo, edit, alerted, left, done>>
rows == <<task, runs, done>>
things == <<files, sick, jobs>>

----------------------------------------------------------------------------
(* The schedule.                                                            *)

\* A part of a field: *, a value or a range, with an optional step.
PartValues(p) ==
    LET from == IF p.base = "*" THEN 0 ELSE p.a
        to   == IF p.base = "range" THEN p.b
                ELSE IF p.base = "value" /\ p.step = 0 THEN p.a ELSE Hour - 1
        by   == IF p.step = 0 THEN 1 ELSE p.step
    IN  {v \in from..to : (v - from) % by = 0}

FieldValues(parts) == UNION {PartValues(parts[i]) : i \in DOMAIN parts}
Match(t, minute) == (minute % Hour) \in FieldValues(mix.expr[t])

\* The age of the last hit, looked for grace + 1 minutes back; AgeCap + 1: none.
LastDue(t) ==
    LET hits == {k \in 0..(mix.grace[t] + 1) : Match(t, clock - k + Hour * (k + 1))}
    IN  IF hits = {} THEN AgeCap + 1 ELSE CHOOSE k \in hits : \A j \in hits : k <= j

Ran(t, age) == \E r \in runs : r.task = t /\ r.age <= age

StaleTasks ==
    {t \in Ids : /\ task[t].here /\ task[t].on
                 /\ mix.grace[t] > 0
                 /\ LastDue(t) <= mix.grace[t] + 1
                 /\ task[t].age > LastDue(t)
                 /\ LastDue(t) >= mix.grace[t]
                 /\ ~Ran(t, LastDue(t))}

\* Mutant: the count forgets the status: a skip counts as a run in progress
HasAnyRun(t) == \E r \in runs : r.task = t /\ r.age < MaxRunAge

HasRunningRun(t) ==
    \E r \in runs : r.task = t /\ r.running /\ r.age < MaxRunAge

----------------------------------------------------------------------------
(* Rows.                                                                    *)

Row == [given: BOOLEAN, here: BOOLEAN, on: BOOLEAN, ok: Ids \union {None}, bad: Ids \union {None},
        count: 0..CountCap, age: 0..AgeCap]
Copy(t) == [id |-> t, ok |-> task[t].ok, bad |-> task[t].bad]
Run(t, running, by) == [task |-> t, age |-> 0, running |-> running, by |-> by]
Add(n) == IF n < CountCap THEN n + 1 ELSE n
Older(n) == IF n < AgeCap THEN n + 1 ELSE n
Settled(rs) == {r \in rs : r.running \/ r.by # "gone" \/ r.age < AgeCap}

\* A statement succeeds, or fails at the cost of the budget.
Ok == UNCHANGED left
Fails == left.faults > 0 /\ left' = [left EXCEPT !.faults = @ - 1]

NoOne == [pc |-> "idle", st |-> [id |-> None, ok |-> None, bad |-> None],
          depth |-> 0, try |-> 0, good |-> TRUE, at |-> 0]
NewRow(on) == [given |-> TRUE, here |-> TRUE, on |-> on, ok |-> None, bad |-> None, count |-> 0, age |-> 0]
NoEdit == [pc |-> "idle", kind |-> "none", id |-> None, row |-> NewRow(TRUE),
           new |-> [on |-> TRUE, ok |-> None, bad |-> None]]

Init ==
    /\ mix \in Mixes
    /\ clock = 0
    /\ task = mix.task
    /\ runs = {} /\ files = mix.files /\ jobs = 0
    /\ sick = [health |-> mix.health, restarted |-> {}]
    /\ mutex = "none" /\ todo = <<>>
    /\ who = [a \in Actors |-> [NoOne EXCEPT !.pc = IF a = Sched THEN "sleep" ELSE "idle"]]
    /\ edit = NoEdit
    /\ alerted = [t \in Ids |-> AgeCap + 1]
    /\ left = mix.left
    /\ done = [t \in Ids |-> 0]

----------------------------------------------------------------------------
(* Time.  The loop wakes at the minute it computed when the last tick ended; *)
(* minutes that pass during a tick are lost to it.                           *)

Minute ==
    /\ mix.quick => who[Sched].pc = "sleep"
    /\ clock' = (clock + 1) % Hour
    /\ task' = [t \in Ids |-> [task[t] EXCEPT !.age = Older(@)]]
    /\ runs' = Settled({[r EXCEPT !.age = Older(@)] : r \in runs})
    /\ files' = [i \in DOMAIN files |-> [files[i] EXCEPT !.fresh = FALSE]]
    /\ alerted' = [t \in Ids |-> IF alerted[t] < AgeCap THEN alerted[t] + 1 ELSE AgeCap + 1]
    /\ who' = IF who[Sched].pc = "sleep"
              THEN [who EXCEPT ![Sched].pc = "tick", ![Sched].at = clock'] ELSE who
    /\ UNCHANGED <<mix, sick, jobs, mutex, todo, edit, left, done>>

----------------------------------------------------------------------------
(* A tick.                                                                  *)

Goto(a, pc) == who' = [who EXCEPT ![a].pc = pc]
Sleep == who' = [who EXCEPT ![Sched] = [NoOne EXCEPT !.pc = "sleep"]]

\* Mutant: the comparison with the cutoff the wrong way round
SweepYoungRuns ==
    /\ who[Sched].pc = "tick" /\ Goto(Sched, "query") /\ Ok
    /\ runs' = Settled({[r EXCEPT !.running = @ /\ r.age >= MaxRunAge] : r \in runs})
    /\ UNCHANGED <<mix, clock, task, done, things, mutex, todo, edit, alerted>>

SweepOrphanRuns ==
    /\ who[Sched].pc = "tick"
    /\ Goto(Sched, "query")
    /\ \/ /\ Ok
          /\ runs' = Settled({[r EXCEPT !.running = @ /\ r.age < MaxRunAge] : r \in runs})
       \/ Fails /\ UNCHANGED runs
    /\ UNCHANGED <<mix, clock, task, done, things, mutex, todo, edit, alerted>>

QueryEnabled ==
    /\ who[Sched].pc = "query"
    /\ \/ /\ Ok /\ Goto(Sched, "loop")
          /\ LET due == SelectSeq([i \in 1..Cardinality(Ids) |-> i],
                           LAMBDA t : task[t].here /\ task[t].on /\ Match(t, who[Sched].at))
             IN  todo' = [i \in DOMAIN due |-> Copy(due[i])]
       \/ Fails /\ Sleep /\ UNCHANGED todo
    /\ UNCHANGED <<mix, clock, rows, things, mutex, edit, alerted>>

\* execute(st, true, 0): a run in progress skips, and the skip is a row of its own.
NextDue ==
    /\ who[Sched].pc = "loop" /\ todo # <<>>
    /\ todo' = Tail(todo)
    /\ LET st == Head(todo) IN
       IF HasRunningRun(st.id)
       THEN /\ UNCHANGED who
            /\ \/ Ok /\ runs' = runs \union {Run(st.id, FALSE, "gone")}
               \/ Fails /\ UNCHANGED runs
       ELSE /\ who' = [who EXCEPT ![Sched].pc = "lock", ![Sched].st = st, ![Sched].depth = 0]
            /\ UNCHANGED runs /\ Ok
    /\ UNCHANGED <<mix, clock, task, done, things, mutex, edit, alerted>>

Watchdog ==
    /\ who[Sched].pc = "loop" /\ todo = <<>>
    /\ alerted' = [t \in Ids |-> IF t \in StaleTasks THEN LastDue(t) ELSE alerted[t]]
    /\ Sleep
    /\ UNCHANGED <<mix, clock, rows, things, mutex, todo, edit, left>>

----------------------------------------------------------------------------
(* runOnce: under execMu, from the running row to the statistics.           *)

RunNow(a, t) ==
    /\ who[a].pc = "idle" /\ left.manual > 0 /\ task[t].here
    /\ left' = [left EXCEPT !.manual = @ - 1]
    /\ who' = [who EXCEPT ![a].pc = "lock", ![a].st = Copy(t), ![a].depth = 0]
    /\ UNCHANGED <<mix, clock, rows, things, mutex, todo, edit, alerted>>

\* A row whose INSERT failed has no id and is never written again.
Lock(a) ==
    /\ who[a].pc = "lock" /\ mutex = "none"
    /\ mutex' = a
    /\ who' = [who EXCEPT ![a].pc = "act", ![a].try = 1]
    /\ \/ Ok /\ runs' = runs \union {Run(who[a].st.id, TRUE, a)}
       \/ Fails /\ UNCHANGED runs
    /\ UNCHANGED <<mix, clock, task, done, things, todo, edit, alerted>>

\* The attempt ended: again while there are attempts and it failed.
Ended(a, good) ==
    who' = [who EXCEPT
        ![a].good = good,
        ![a].pc = IF good \/ who[a].try > mix.retry[who[a].st.id] THEN "save" ELSE "act",
        ![a].try = IF good \/ who[a].try > mix.retry[who[a].st.id] THEN @ ELSE @ + 1]

Action(a) == mix.action[who[a].st.id]
Acting(a, pc) == who[a].pc = pc /\ UNCHANGED <<mix, clock, rows, mutex, todo, edit, alerted, left>>

\* The actions that leave nothing this module keeps: they succeed or fail.
OtherAction(a) ==
    /\ Acting(a, "act") /\ Action(a) = "other"
    /\ \E good \in BOOLEAN : Ended(a, good)
    /\ UNCHANGED things

\* The name of a dump holds the minute: a second dump of the minute truncates the first.
BackupOpens(a) ==
    /\ Acting(a, "act") /\ Action(a) = "backup"
    /\ LET new == [good |-> FALSE, fresh |-> TRUE, ours |-> TRUE]
       IN  files' = Append(SelectSeq(files, LAMBDA f : ~(f.ours /\ f.fresh)), new)
    /\ Goto(a, "dump")
    /\ UNCHANGED <<sick, jobs>>

BackupDumps(a) ==
    /\ Acting(a, "dump")
    /\ \/ Len(files) <= Room /\ Ended(a, FALSE) /\ UNCHANGED files
       \/ /\ files' = [files EXCEPT ![Len(files)].good = TRUE]
          /\ Goto(a, "prune")
    /\ UNCHANGED <<sick, jobs>>

\* A snapshot that fails leaves nothing behind.
Snapshot(a) ==
    /\ Acting(a, "act") /\ Action(a) = "snapshot"
    /\ \/ Ended(a, FALSE) /\ UNCHANGED files
       \/ /\ files' = Append(files, [good |-> TRUE, fresh |-> FALSE, ours |-> TRUE])
          /\ Goto(a, "prune")
    /\ UNCHANGED <<sick, jobs>>

\* Those of our prefix, but for the newest keep; a removal that fails is logged.
\* Mutant: the list is cut at the wrong end
ExcessNewest(fs) ==
    LET ours == {i \in DOMAIN fs : fs[i].ours}
    IN  {i \in ours : Cardinality({j \in ours : j <= i}) > mix.keep}

Excess(fs) ==
    LET ours == {i \in DOMAIN fs : fs[i].ours}
    IN  {i \in ours : Cardinality({j \in ours : j >= i}) > mix.keep}

Without(fs, del) ==
    LET kept == SelectSeq([i \in DOMAIN fs |-> i], LAMBDA i : i \notin del)
    IN  [k \in DOMAIN kept |-> fs[kept[k]]]

Prune(a) ==
    /\ Acting(a, "prune")
    /\ \E del \in SUBSET Excess(files) :
          /\ del = Excess(files) \/ Len(files) <= Room
          /\ files' = Without(files, del)
    /\ Ended(a, TRUE)
    /\ UNCHANGED <<sick, jobs>>

\* The healths come without their containers and without those that have no check;
\* the i-th is then given the id of the i-th container.
Inspected == SelectSeq(sick.health, LAMBDA h : h # "none")
ToRestart == {i \in DOMAIN Inspected : Inspected[i] = "unhealthy"}

Healthcheck(a) ==
    /\ Acting(a, "act") /\ Action(a) = "health"
    /\ \/ Ended(a, FALSE) /\ UNCHANGED sick
       \/ /\ Ended(a, TRUE)
          /\ \E went \in SUBSET ToRestart : sick' = [sick EXCEPT !.restarted = went]
    /\ UNCHANGED <<files, jobs>>

Playbook(a) ==
    /\ Acting(a, "act") /\ Action(a) = "ansible"
    /\ \/ jobs < Room /\ jobs' = jobs + 1 /\ Goto(a, "poll")
       \/ UNCHANGED jobs /\ Ended(a, FALSE)
    /\ UNCHANGED <<files, sick>>

\* The job ends, or a failed read or the time limit ends the wait and the job goes on.
Poll(a) ==
    /\ Acting(a, "poll")
    /\ \/ \E good \in BOOLEAN : jobs' = jobs - 1 /\ Ended(a, good)
       \/ UNCHANGED jobs /\ Ended(a, FALSE)
    /\ UNCHANGED <<files, sick>>

JobEnds ==
    /\ jobs > Cardinality({a \in Actors : who[a].pc = "poll"})
    /\ jobs' = jobs - 1
    /\ UNCHANGED <<mix, clock, rows, files, sick, mutex, who, todo, edit, alerted, left>>

\* Save by id: the final state, whatever a sweep made of the row meanwhile.
SaveRun(a) ==
    /\ who[a].pc = "save" /\ Goto(a, "stats")
    /\ \/ Ok /\ runs' = Settled({IF r.by = a THEN [r EXCEPT !.running = FALSE, !.by = "gone"] ELSE r : r \in runs})
       \/ Fails /\ runs' = Settled({IF r.by = a THEN [r EXCEPT !.by = "gone"] ELSE r : r \in runs})
    /\ UNCHANGED <<mix, clock, task, done, things, mutex, todo, edit, alerted>>

\* run_count + 1 where the id is; then execMu is given back.
Stats(a) ==
    /\ who[a].pc = "stats" /\ mutex' = "none" /\ Goto(a, "chain")
    /\ LET t == who[a].st.id IN
       \/ /\ Ok /\ task[t].here
          /\ task' = [task EXCEPT ![t].count = Add(@)]
          /\ done' = [done EXCEPT ![t] = Add(@)]
       \/ Ok /\ ~task[t].here /\ UNCHANGED <<task, done>>
       \/ Fails /\ UNCHANGED <<task, done>>
    /\ UNCHANGED <<mix, clock, runs, things, todo, edit, alerted>>

Rest(a) == who' = [who EXCEPT ![a] =
    [NoOne EXCEPT !.pc = IF a = Sched THEN "loop" ELSE "idle", !.at = who[a].at]]

\* Mutant: the hop is executed with the depth of its predecessor
ChainFlat(a) ==
    /\ who[a].pc = "chain"
    /\ LET next == IF who[a].good THEN who[a].st.ok ELSE who[a].st.bad IN
       IF next = None \/ who[a].depth >= MaxChainDepth \/ ~task[next].here \/ ~task[next].on
       THEN Rest(a)
       ELSE who' = [who EXCEPT ![a] = [NoOne EXCEPT !.pc = "lock", !.st = Copy(next),
                                          !.depth = who[a].depth, !.at = who[a].at]]
    /\ UNCHANGED <<mix, clock, rows, things, mutex, todo, edit, alerted, left>>

\* maybeChain: the copy's reference, the depth, the row as it is now.
Chain(a) ==
    /\ who[a].pc = "chain"
    /\ LET next == IF who[a].good THEN who[a].st.ok ELSE who[a].st.bad IN
       IF next = None \/ who[a].depth >= MaxChainDepth \/ ~task[next].here \/ ~task[next].on
       THEN Rest(a)
       ELSE who' = [who EXCEPT ![a] = [NoOne EXCEPT !.pc = "lock", !.st = Copy(next),
                                          !.depth = who[a].depth + 1, !.at = who[a].at]]
    /\ UNCHANGED <<mix, clock, rows, things, mutex, todo, edit, alerted, left>>

----------------------------------------------------------------------------
(* The handlers that edit rows.                                             *)

Edit == left.edits > 0 /\ edit.pc = "idle" /\ left' = [left EXCEPT !.edits = @ - 1]
Handler == UNCHANGED <<mix, clock, runs, things, mutex, who, todo, alerted>>

\* No column of a chain is in the INSERT, whatever the request says.
Create(t) ==
    /\ Edit /\ ~task[t].given /\ Handler
    /\ \E on \in BOOLEAN : task' = [task EXCEPT ![t] = NewRow(on)]
    /\ done' = [done EXCEPT ![t] = 0]
    /\ UNCHANGED edit

Duplicate(s, t) ==
    /\ Edit /\ task[s].here /\ ~task[t].given /\ Handler
    /\ task' = [task EXCEPT ![t] = NewRow(FALSE)]
    /\ done' = [done EXCEPT ![t] = 0]
    /\ UNCHANGED edit

ReadRow(kind, t) ==
    /\ Edit /\ task[t].here /\ Handler
    /\ \/ /\ kind = "toggle"
          /\ edit' = [NoEdit EXCEPT !.pc = "write", !.kind = kind, !.id = t, !.new.on = ~task[t].on]
       \/ /\ kind = "update"
          /\ \E new \in {n \in mix.news : t \notin {n.ok, n.bad}} :
                edit' = [pc |-> "check", kind |-> kind, id |-> t, row |-> task[t], new |-> new]
    /\ UNCHANGED <<task, done>>

EnsureChainTargets ==
    /\ edit.pc = "check" /\ Handler /\ UNCHANGED <<task, done, left>>
    /\ edit' = IF \A n \in {edit.new.ok, edit.new.bad} \ {None} : task[n].here
               THEN [edit EXCEPT !.pc = "write"] ELSE NoEdit

\* Save writes every column of the copy, and inserts a row that is gone.
Update ==
    /\ edit.pc = "write" /\ edit.kind = "update" /\ Handler
    /\ task' = [task EXCEPT ![edit.id] =
          [edit.row EXCEPT !.on = edit.new.on, !.ok = edit.new.ok, !.bad = edit.new.bad,
                           !.age = task[edit.id].age]]
    /\ edit' = NoEdit
    /\ UNCHANGED <<done, left>>

Toggle ==
    /\ edit.pc = "write" /\ edit.kind = "toggle" /\ Handler
    /\ task' = [task EXCEPT ![edit.id].on = IF task[edit.id].here THEN edit.new.on ELSE @]
    /\ edit' = NoEdit
    /\ UNCHANGED <<done, left>>

Delete(t) ==
    /\ Edit /\ task[t].here /\ Handler
    /\ task' = [task EXCEPT ![t].here = FALSE, ![t].on = FALSE, ![t].ok = None, ![t].bad = None, ![t].count = 0]
    /\ edit' = [NoEdit EXCEPT !.pc = "cleanOk", !.kind = "delete", !.id = t]
    /\ done' = [done EXCEPT ![t] = 0]

CleanChain(pc, to) ==
    /\ edit.pc = pc /\ Handler
    /\ edit' = IF to = "idle" THEN NoEdit ELSE [edit EXCEPT !.pc = to]
    /\ \/ Ok /\ task' = [t \in Ids |-> [task[t] EXCEPT
                !.ok = IF pc = "cleanOk" /\ @ = edit.id THEN None ELSE @,
                !.bad = IF pc = "cleanBad" /\ @ = edit.id THEN None ELSE @]]
       \/ Fails /\ UNCHANGED task
    /\ UNCHANGED done

\* The process dies: goroutines, the mutex and staleAlerted go, rows and files stay.
Crash ==
    /\ left.crashes > 0 /\ left' = [left EXCEPT !.crashes = @ - 1]
    /\ who' = [a \in Actors |-> [NoOne EXCEPT !.pc = IF a = Sched THEN "sleep" ELSE "idle"]]
    /\ runs' = Settled({[r EXCEPT !.by = "gone"] : r \in runs})
    /\ mutex' = "none" /\ todo' = <<>> /\ edit' = NoEdit
    /\ alerted' = [t \in Ids |-> AgeCap + 1]
    /\ UNCHANGED <<mix, clock, task, things, done>>

----------------------------------------------------------------------------

Tick == SweepOrphanRuns \/ QueryEnabled \/ NextDue \/ Watchdog
Execution(a) ==
    \/ OtherAction(a) \/ BackupOpens(a) \/ BackupDumps(a) \/ Snapshot(a) \/ Prune(a)
    \/ Healthcheck(a) \/ Playbook(a) \/ Poll(a)
    \/ SaveRun(a) \/ Stats(a) \/ Chain(a)
Edits ==
    \/ \E t \in Ids : Create(t) \/ Delete(t) \/ \E s \in Ids : Duplicate(s, t)
    \/ \E t \in Ids, kind \in {"update", "toggle"} : ReadRow(kind, t)
    \/ EnsureChainTargets \/ Update \/ Toggle
    \/ CleanChain("cleanOk", "cleanBad") \/ CleanChain("cleanBad", "idle")

Next ==
    \/ Minute \/ Tick \/ JobEnds \/ Edits \/ Crash
    \/ \E a \in Actors : Lock(a) \/ Execution(a)
    \/ \E a \in Manuals, t \in Ids : RunNow(a, t)

\* Goroutines and the clock run; sync.Mutex hands itself to one that waits long.
Fairness ==
    /\ WF_vars(Minute) /\ WF_vars(Tick)
    /\ \A a \in Actors : WF_vars(Execution(a)) /\ SF_vars(Lock(a))

Spec == Init /\ [][Next]_vars /\ Fairness

----------------------------------------------------------------------------
(* What must hold.                                                          *)

TypeOK ==
    /\ mix \in Mixes /\ clock \in 0..(Hour - 1)
    /\ task \in [Ids -> Row] /\ done \in [Ids -> 0..CountCap]
    /\ \A r \in runs : r \in [task: Ids, age: 0..AgeCap, running: BOOLEAN, by: Actors \union {"gone"}]
    /\ \A i \in DOMAIN files : files[i] \in [good: BOOLEAN, fresh: BOOLEAN, ours: BOOLEAN]
    /\ mutex \in Actors \union {"none"} /\ jobs \in Nat
    /\ alerted \in [Ids -> 0..(AgeCap + 1)]
    /\ \A a \in Actors : who[a].depth <= MaxChainDepth

\* A request that runs a task by hand comes back and the scheduler gets back to
\* sleep, with chains that form a cycle, retries and two goroutines at execMu:
\* the depth is what ends a cycle, and the next hop starts after the unlock.
ChainsEnd ==
    /\ \A a \in Manuals : who[a].pc # "idle" ~> who[a].pc = "idle"
    /\ []<>(who[Sched].pc = "sleep")

\* A running row that nobody will finish (a crash, a failed Save) is closed by
\* a later tick: the guard against overlapping runs does not see it for ever.
Orphan(t) == \E r \in runs : r.task = t /\ r.running /\ r.by = "gone"
OrphansClosed == \A t \in Ids : []<>~Orphan(t)

\* A task that stays enabled is run by the scheduler again and again, when ticks
\* end within their minute, whatever crashed or was edited before.
EnabledRuns ==
    \A t \in Ids : (mix.quick /\ <>[](task[t].here /\ task[t].on))
        => []<>(who[Sched].pc = "act" /\ who[Sched].st.id = t)

\* Clearing old backups and snapshots never takes the newest good one of ours
\* nor anything that is not ours; only a second dump in its minute replaces it.
GoodOnes(fs) == {i \in DOMAIN fs : fs[i].ours /\ fs[i].good}
RetentionSafe ==
    [][/\ Len(SelectSeq(files', LAMBDA f : ~f.ours)) = Len(SelectSeq(files, LAMBDA f : ~f.ours))
       /\ GoodOnes(files) # {} /\ GoodOnes(files') = {}
            => \E i \in GoodOnes(files) : files[i].fresh]_vars

=============================================================================
