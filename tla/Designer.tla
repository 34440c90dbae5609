------------------------------ MODULE Designer ------------------------------
(***************************************************************************)
(* The topology designer (handler/designer.go, designer_apply.go,          *)
(* designer_apply_provision.go, designer_apply_lifecycle.go,               *)
(* designer_drift.go, designer_reconcile.go, designer_snapshot.go).        *)
(*                                                                         *)
(* A plan is a file, its baseline the plan of the last run that succeeded. *)
(* A request compares plan, baseline and reality and starts a run, which   *)
(* takes down, builds and restarts resources one after another; machines   *)
(* are built and deleted by tasks the run waits for.                       *)
(***************************************************************************)
EXTENDS Integers, Sequences, FiniteSets, SequencesExt

CONSTANTS
    Plans,
    KeyOrder,       \* the resources, in the order of their keys
    KindOf,         \* resource -> "vm", "container", "net"
    Designers,      \* requests served at once
    Runners,        \* goroutines that execute runs
    MaxRuns,        \* bound: runs started
    DesignerMixes   \* scenarios

Resources == Range(KeyOrder)
ASSUME DesignerAssumption == KindOf \in [Resources -> {"vm", "container", "net"}] /\ MaxRuns \in Nat

VARIABLES
    canvas,     \* plan files: {} or one plan
    baseline,   \* <plan>.latest.json: {} or one plan
    world,      \* resource -> what there is of it
    active,     \* dsgApplyRuns: plan -> the run in memory, 0 for none
    state,      \* run -> its status in memory
    record,     \* run -> the status in its row of tasks
    worker,     \* the goroutines
    draft,      \* the requests at work
    stray,      \* tasks a run no longer waits for
    wishes,     \* requests that may still come
    mishaps,    \* calls that may still fail
    calm        \* runs nothing else interfered with (not in the code)

designerVars == <<canvas, baseline, world, active, state, record, worker, draft, stray, wishes, mishaps, calm>>
files == <<canvas, baseline>>
runsMemory == <<active, state>>

\* A resource: its size, whether it works, whether the plan's application is in it, and who made it.
Absent == [there |-> FALSE, size |-> 0, st |-> "off", app |-> FALSE, by |-> ""]
Made(size, st, p) == [there |-> TRUE, size |-> size, st |-> st, app |-> FALSE, by |-> p]
Kind(n) == KindOf[n.r]

Resting == [at |-> "rest", id |-> 0, p |-> "", plan |-> {}, down |-> <<>>, build |-> <<>>, again |-> <<>>, job |-> {}, fresh |-> {}]
NoDraft == [at |-> "none", p |-> "", plan |-> {}, ops |-> <<>>, secret |-> FALSE, id |-> 0, seen |-> ""]
Mishap == mishaps > 0 /\ mishaps' = mishaps - 1
WorkerAt(g, place) == worker' = [worker EXCEPT ![g].at = place]
The(set) == CHOOSE x \in set : TRUE

----------------------------------------------------------------------------
(* Plan, baseline and reality compared.                                     *)

NodeOf(plan, r) == {n \in Range(plan.nodes) : n.r = r}
Op(act, n) == [act |-> act, node |-> n]

\* A machine that is off is left alone, one that is paused or broken is not.
SpecDrift(n, w) ==
    CASE Kind(n) = "vm" /\ n.size # w.size                -> <<Op("recreated", n)>>
      [] Kind(n) = "vm" /\ n.size = w.size /\ w.st = "bad" -> <<Op("restarted", n)>>
      [] Kind(n) = "container" /\ w.st # "run"             -> <<Op("restarted", n)>>
      [] OTHER                                             -> <<>>

\* What is neither in the plan nor in its baseline is somebody else's.
Difference(plan, old, seen, r) ==
    LET p == NodeOf(plan, r)
        b == NodeOf(old, r)
        w == seen[r]
    IN
    CASE p # {} /\ ~w.there           -> <<Op("added", The(p))>>
      [] p # {} /\ w.there /\ b # {}  -> SpecDrift(The(p), w)
      [] p = {} /\ b # {} /\ w.there  -> <<Op("deleted", The(b))>>
      [] OTHER                        -> <<>>

\* Networks, machines, containers, each behind what links lead to it from; a circle is cut by kind.
Rank(n) == CASE Kind(n) = "net" -> 0 [] Kind(n) = "vm" -> 1 [] OTHER -> 2
OrderNodes(nodes, links) ==
    LET before(i, j) == Rank(nodes[i]) < Rank(nodes[j]) \/ (Rank(nodes[i]) = Rank(nodes[j]) /\ i <= j)
        free(S) == {i \in S : \A j \in S \ {i} : <<nodes[j].r, nodes[i].r>> \notin links}
        order[S \in SUBSET DOMAIN nodes] ==
            IF free(S) = {} THEN SetToSortSeq(S, before)
            ELSE LET i == CHOOSE i \in free(S) : \A j \in free(S) : before(i, j)
                 IN <<i>> \o order[S \ {i}]
    IN [k \in DOMAIN nodes |-> nodes[order[DOMAIN nodes][k]]]

\* loadReality: of a kind that cannot be read there is nothing.
Reality(unread) == [r \in Resources |-> IF KindOf[r] \in unread THEN Absent ELSE world[r]]

Reconciled(plan, old, seen) ==
    IF old = {}
      THEN [k \in DOMAIN plan.nodes |-> Op("added", OrderNodes(plan.nodes, plan.links)[k])]
      ELSE FlattenSeq([k \in DOMAIN KeyOrder |-> Difference(plan, The(old), seen, KeyOrder[k])])

----------------------------------------------------------------------------
(* Requests.                                                                *)

\* A file is emptied before it is written; one that was cut short reads as none.
SavePlan == \E q \in wishes :
    /\ q.op = "save" /\ wishes' = wishes \ {q}
    /\ \/ canvas' = [canvas EXCEPT ![q.p] = {q.plan}] /\ UNCHANGED mishaps
       \/ Mishap /\ \E left \in {canvas[q.p], {}} : canvas' = [canvas EXCEPT ![q.p] = left]
    /\ UNCHANGED <<baseline, world, runsMemory, record, worker, draft, stray, calm>>

\* The baseline stays.
DeletePlan == \E q \in wishes :
    /\ q.op = "remove" /\ wishes' = wishes \ {q}
    /\ canvas' = [canvas EXCEPT ![q.p] = {}]
    /\ UNCHANGED <<baseline, world, runsMemory, record, worker, draft, stray, mishaps, calm>>

\* Apply and Reconcile read the plan, ...
LoadPlan(d) == \E q \in wishes :
    /\ q.op = "apply" /\ draft[d] = NoDraft /\ wishes' = wishes \ {q}
    /\ draft' = IF canvas[q.p] = {} THEN draft
                ELSE [draft EXCEPT ![d] = [NoDraft EXCEPT !.at = "compare", !.p = q.p, !.secret = q.secret, !.plan = canvas[q.p]]]
    /\ UNCHANGED <<files, world, runsMemory, record, worker, stray, mishaps, calm>>

\* ... compare, and answer at once when there is nothing to do.
Compare(d) == \E unread \in SUBSET {"vm", "container", "net"} :
    LET ops == Reconciled(The(draft[d].plan), baseline[draft[d].p], Reality(unread)) IN
    /\ draft[d].at = "compare" /\ mishaps >= Cardinality(unread) /\ mishaps' = mishaps - Cardinality(unread)
    /\ draft' = [draft EXCEPT ![d] = IF ops = <<>> THEN NoDraft ELSE [@ EXCEPT !.at = "begin", !.ops = ops]]
    /\ UNCHANGED <<files, world, runsMemory, record, worker, stray, wishes, calm>>

Only(ops, acts) == SelectSeq(ops, LAMBDA o : o.act \in acts)
NodesOf(ops) == [k \in DOMAIN ops |-> ops[k].node]

\* Another run of the plan refuses it; the row is written under the same lock, and one that
\* cannot be written is done without.
StartRun(d) ==
    LET q == draft[d]
        plan == The(q.plan)
        busy == active[q.p] # 0 /\ state[active[q.p]] = "running"
        id == 1 + Cardinality({i \in 1..MaxRuns : state[i] # "none"})
    IN
    /\ q.at = "begin"
    /\ IF busy THEN UNCHANGED <<active, state, record, worker, mishaps, calm>>
       ELSE /\ id <= MaxRuns
            /\ active' = [active EXCEPT ![q.p] = id]
            /\ state' = [state EXCEPT ![id] = "running"]
            /\ \/ record' = [record EXCEPT ![id] = "running"] /\ UNCHANGED mishaps
               \/ Mishap /\ UNCHANGED record
            /\ \E g \in Runners :
                 /\ worker[g] = Resting
                 /\ worker' = [worker EXCEPT ![g] =
                      [Resting EXCEPT !.at = IF ~q.secret /\ (\E o \in Range(q.ops) : o.act \in {"added", "recreated"} /\ o.node.app) THEN "refused" ELSE "work",
                                      !.id = id, !.p = q.p, !.plan = q.plan,
                                      !.down = NodesOf(Only(q.ops, {"deleted", "recreated"})),
                                      !.build = OrderNodes(NodesOf(Only(q.ops, {"added", "recreated"})), plan.links),
                                      !.again = NodesOf(Only(q.ops, {"restarted"})),
                                      !.fresh = {r \in Resources : ~world[r].there \/ \E o \in Range(q.ops) : o.act = "recreated" /\ o.node.r = r}]]
            /\ calm' = IF Reconciled(plan, baseline[q.p], world) = q.ops /\ \A g \in Runners : worker[g].p # q.p
                         THEN calm \union {id} ELSE calm
    /\ draft' = [draft EXCEPT ![d] = NoDraft]
    /\ UNCHANGED <<files, world, stray, wishes>>

\* ApplyStatus writes what it read of the run in memory; without one it only reads rows.
PollRead(d) == \E q \in wishes :
    /\ q.op = "poll" /\ draft[d] = NoDraft /\ wishes' = wishes \ {q}
    /\ draft' = IF active[q.p] = 0 THEN draft
                ELSE [draft EXCEPT ![d] = [NoDraft EXCEPT !.at = "sync", !.id = active[q.p], !.seen = state[active[q.p]]]]
    /\ UNCHANGED <<files, world, runsMemory, record, worker, stray, mishaps, calm>>
\* syncApplyTask: a run without a row has nothing to note.
Noted(id, st) == IF record[id] = "none" THEN record ELSE [record EXCEPT ![id] = st]
PollWrite(d) ==
    /\ draft[d].at = "sync"
    /\ record' = Noted(draft[d].id, draft[d].seen)
    /\ draft' = [draft EXCEPT ![d] = NoDraft]
    /\ UNCHANGED <<files, world, runsMemory, worker, stray, wishes, mishaps, calm>>

----------------------------------------------------------------------------
(* A run.  Its steps change the world one resource at a time.               *)

\* Mutant: what is new is built first.
PhaseBuildFirst(g) ==
    CASE worker[g].build # <<>> -> "build"
      [] worker[g].down # <<>>  -> "down"
      [] worker[g].again # <<>> -> "again"
      [] OTHER                  -> "end"

Phase(g) ==
    CASE worker[g].down # <<>>  -> "down"
      [] worker[g].build # <<>> -> "build"
      [] worker[g].again # <<>> -> "again"
      [] OTHER                  -> "end"

Advances(g, phase) == worker' = [worker EXCEPT ![g] =
    CASE phase = "down"  -> [@ EXCEPT !.at = "work", !.job = {}, !.down = Tail(@)]
      [] phase = "build" -> [@ EXCEPT !.at = "work", !.job = {}, !.build = Tail(@)]
      [] phase = "again" -> [@ EXCEPT !.at = "work", !.job = {}, !.again = Tail(@)]]
Submits(g, task) == worker' = [worker EXCEPT ![g].at = "wait", ![g].job = {task}]
Task(g, kind, n) == [kind |-> kind, node |-> n, st |-> "queued", p |-> worker[g].p]
Breaks(g) == Mishap /\ state' = [state EXCEPT ![worker[g].id] = "failed"] /\ WorkerAt(g, "close")
\* Whoever changes the world disturbs the runs that are not theirs.
Disturb(ids) == calm' = calm \ ids
OtherRuns(g) == {worker[k].id : k \in Runners \ {g}}

\* What is gone already is taken down already.
Teardown(g) ==
    LET n == Head(worker[g].down) IN
    /\ worker[g].at = "work" /\ Phase(g) = "down"
    /\ CASE Kind(n) = "vm" /\ world[n.r].there -> Submits(g, Task(g, "delete", n)) /\ UNCHANGED <<world, calm>>
         [] OTHER -> /\ world' = [world EXCEPT ![n.r] = Absent]
                     /\ Advances(g, "down")
                     /\ IF world[n.r].there THEN Disturb(OtherRuns(g)) ELSE UNCHANGED calm
    /\ UNCHANGED <<files, runsMemory, record, draft, stray, wishes, mishaps>>

\* A network or machine of that name is taken as it is, a project is brought up again.
Provision(g) ==
    LET n == Head(worker[g].build) IN
    /\ worker[g].at = "work" /\ Phase(g) = "build"
    /\ CASE Kind(n) = "vm" /\ ~world[n.r].there -> Submits(g, Task(g, "create", n)) /\ UNCHANGED <<world, calm>>
         [] OTHER -> /\ world' = IF Kind(n) # "container" /\ world[n.r].there THEN world
                                 ELSE IF world[n.r].there THEN [world EXCEPT ![n.r].st = "run"]
                                 ELSE [world EXCEPT ![n.r] = Made(n.size, "run", worker[g].p)]
                     /\ Advances(g, "build")
                     /\ IF world' # world THEN Disturb(OtherRuns(g)) ELSE UNCHANGED calm
    /\ UNCHANGED <<files, runsMemory, record, draft, stray, wishes, mishaps>>

\* A machine of no row is passed over; a project is restarted where it is.
RestartNode(g) ==
    LET n == Head(worker[g].again) IN
    /\ worker[g].at = "work" /\ Phase(g) = "again"
    /\ world' = IF world[n.r].there THEN [world EXCEPT ![n.r].st = "run"] ELSE world
    /\ Advances(g, "again") /\ Disturb(OtherRuns(g))
    /\ UNCHANGED <<files, runsMemory, record, draft, stray, wishes, mishaps>>

\* A call of libvirt or docker, or the submission of a task, fails; a network
\* may be left defined and not started.
StepFails(g) ==
    LET n == Head(worker[g].build)
        half == Phase(g) = "build" /\ Kind(n) # "vm" /\ ~world[n.r].there
    IN
    /\ worker[g].at = "work" /\ Phase(g) # "end" /\ Breaks(g)
    /\ world' \in {world} \union (IF half THEN {[world EXCEPT ![n.r] = Made(n.size, "bad", worker[g].p)]} ELSE {})
    /\ IF world' # world THEN Disturb(OtherRuns(g)) ELSE UNCHANGED calm
    /\ UNCHANGED <<files, active, record, draft, stray, wishes>>

\* What a task does to the world, in the end; a machine needs its network.
Linked(g, n) == \E r \in Resources : KindOf[r] = "net" /\ ~(world[r].there /\ world[r].st = "run")
                   /\ \E p \in worker[g].plan : {<<r, n.r>>, <<n.r, r>>} \intersect p.links # {}
Effect(task) ==
    LET r == task.node.r IN
    CASE task.kind = "create" -> IF world[r].there THEN world ELSE [world EXCEPT ![r] = Made(task.node.size, "run", task.p)]
      [] task.kind = "delete" -> [world EXCEPT ![r] = Absent]
      [] task.kind = "app"    -> IF world[r].there THEN [world EXCEPT ![r].app = TRUE] ELSE world

TaskEnds(g) == \E task \in worker[g].job :
    LET n == task.node
        can == CASE task.kind = "create" -> ~world[n.r].there /\ ~Linked(g, n)
                 [] task.kind = "delete" -> TRUE
                 [] task.kind = "app"    -> world[n.r].there
    IN
    /\ worker[g].at = "wait" /\ task.st = "queued"
    /\ \/ /\ can /\ world' = Effect(task) /\ UNCHANGED mishaps
          /\ worker' = [worker EXCEPT ![g].job = {[task EXCEPT !.st = "success"]}]
       \/ /\ IF can THEN Mishap ELSE UNCHANGED mishaps
          /\ world' \in {world} \union (IF task.kind = "create" /\ ~world[n.r].there
                                          THEN {[world EXCEPT ![n.r] = Made(n.size, "off", task.p)]} ELSE {})
          /\ worker' = [worker EXCEPT ![g].job = {[task EXCEPT !.st = "failed"]}]
    /\ IF world' # world THEN Disturb(OtherRuns(g)) ELSE UNCHANGED calm
    /\ UNCHANGED <<files, runsMemory, record, draft, stray, wishes>>

\* waitTask: success goes on, with the applications of a machine just built.
Waited(g) == \E task \in worker[g].job :
    /\ worker[g].at = "wait" /\ task.st \in {"success", "failed"}
    /\ IF task.st = "failed"
         THEN state' = [state EXCEPT ![worker[g].id] = "failed"] /\ WorkerAt(g, "close")
         ELSE /\ IF task.kind = "create" /\ task.node.app THEN Submits(g, Task(g, "app", task.node))
                 ELSE Advances(g, IF task.kind = "delete" THEN "down" ELSE "build")
              /\ UNCHANGED state
    /\ UNCHANGED <<files, active, world, record, draft, stray, wishes, mishaps, calm>>

\* The wait is over before the task is: the task goes on by itself.
WaitEnds(g) == \E task \in worker[g].job :
    /\ worker[g].at = "wait" /\ task.st = "queued" /\ Breaks(g)
    /\ stray' = stray \union {task}
    /\ UNCHANGED <<files, active, world, record, draft, wishes, calm>>
StrayEnds == \E task \in stray :
    /\ stray' = stray \ {task}
    /\ world' \in {world, Effect(task)}
    /\ Disturb({worker[g].id : g \in Runners})
    /\ UNCHANGED <<files, runsMemory, record, worker, draft, wishes, mishaps>>

Refuse(g) ==
    /\ worker[g].at = "refused"
    /\ state' = [state EXCEPT ![worker[g].id] = "failed"] /\ WorkerAt(g, "close")
    /\ UNCHANGED <<files, active, world, record, draft, stray, wishes, mishaps, calm>>

\* The status comes before the baseline, the row last.
Succeed(g) ==
    /\ worker[g].at = "work" /\ Phase(g) = "end"
    /\ state' = [state EXCEPT ![worker[g].id] = "success"] /\ WorkerAt(g, "snapshot")
    /\ UNCHANGED <<files, active, world, record, draft, stray, wishes, mishaps, calm>>
SaveSnapshot(g) ==
    /\ worker[g].at = "snapshot"
    /\ \/ baseline' = [baseline EXCEPT ![worker[g].p] = worker[g].plan] /\ UNCHANGED mishaps
       \/ Mishap /\ \E left \in {baseline[worker[g].p], {}} : baseline' = [baseline EXCEPT ![worker[g].p] = left]
    /\ WorkerAt(g, "close")
    /\ UNCHANGED <<canvas, world, runsMemory, record, draft, stray, wishes, calm>>
CloseRun(g) ==
    /\ worker[g].at = "close"
    /\ \/ record' = Noted(worker[g].id, state[worker[g].id]) /\ UNCHANGED mishaps
       \/ Mishap /\ UNCHANGED record
    /\ worker' = [worker EXCEPT ![g] = Resting]
    /\ UNCHANGED <<files, world, runsMemory, draft, stray, wishes, calm>>

----------------------------------------------------------------------------
(* What others do, and the end of the process.                              *)

Elsewhere == \E q \in wishes :
    /\ q.op = "other" /\ wishes' = wishes \ {q}
    /\ world' = [world EXCEPT ![q.r] = q.w]
    /\ Disturb({worker[g].id : g \in Runners})
    /\ UNCHANGED <<files, runsMemory, record, worker, draft, stray, mishaps>>

\* The next process closes the rows and runs no task of the last one.
DesignerRestarts == \E q \in wishes :
    /\ q.op = "kill" /\ wishes' = wishes \ {q}
    /\ active' = [p \in Plans |-> 0]
    /\ record' = [i \in 1..MaxRuns |-> IF record[i] = "running" THEN "failed" ELSE record[i]]
    /\ worker' = [g \in Runners |-> Resting] /\ draft' = [d \in Designers |-> NoDraft] /\ stray' = {}
    /\ state' = [i \in 1..MaxRuns |-> IF state[i] = "running" THEN "failed" ELSE state[i]]
    /\ UNCHANGED <<files, world, mishaps, calm>>

DesignerInit == \E mix \in DesignerMixes :
    /\ canvas = mix.canvas /\ baseline = mix.baseline /\ world = mix.world
    /\ wishes = mix.wishes /\ mishaps = mix.mishaps
    /\ active = [p \in Plans |-> 0] /\ state = [i \in 1..MaxRuns |-> "none"] /\ record = state
    /\ worker = [g \in Runners |-> Resting] /\ draft = [d \in Designers |-> NoDraft]
    /\ stray = {} /\ calm = {}

RunStep(g) ==
    \/ Teardown(g) \/ Provision(g) \/ RestartNode(g) \/ StepFails(g) \/ TaskEnds(g) \/ Waited(g) \/ WaitEnds(g)
    \/ Refuse(g) \/ Succeed(g) \/ SaveSnapshot(g) \/ CloseRun(g)
DesignerNext ==
    \/ \E d \in Designers : LoadPlan(d) \/ Compare(d) \/ StartRun(d) \/ PollRead(d) \/ PollWrite(d)
    \/ \E g \in Runners : RunStep(g)
    \/ SavePlan \/ DeletePlan \/ StrayEnds \/ Elsewhere \/ DesignerRestarts

----------------------------------------------------------------------------
(* Properties.                                                              *)

\* A run that was started on what there really was, as it had compared it, and
\* that nobody disturbed, leaves this when it succeeds: every node of the plan
\* is there and a container runs; a machine the baseline knew has the plan's
\* size and is not broken; a machine the run built has the plan's applications;
\* and what the plan dropped is gone.  Nothing is said of the size of a machine
\* that was there before the plan, nor of the applications of one that stayed:
\* specDrift does not look at them (designer_apply.go, runOps).
Converged == [][\A g \in Runners : (worker[g].at = "work" /\ worker'[g].at = "snapshot" /\ worker[g].id \in calm) =>
    LET plan == The(worker[g].plan)
        old == IF baseline[worker[g].p] = {} THEN {} ELSE Range(The(baseline[worker[g].p]).nodes)
    IN
    /\ \A n \in Range(plan.nodes) :
         /\ world[n.r].there
         /\ (Kind(n) = "vm" /\ \E b \in old : b.r = n.r) => (world[n.r].size = n.size /\ world[n.r].st # "bad")
         /\ (Kind(n) = "vm" /\ n.r \in worker[g].fresh) => world[n.r].app = n.app
         /\ Kind(n) = "container" => world[n.r].st = "run"
    /\ \A b \in old : NodeOf(plan, b.r) = {} => ~world[b.r].there]_designerVars

=============================================================================
