# TLA+ models of virtkite

virtkite is one Go process between a browser and a host: it keeps machines (libvirt/KVM), containers (docker
compose) and their users in a database, runs long operations as tasks, and carries consoles over WebSockets and an
SSH jump server. This directory holds models of the parts of the backend in which goroutines, tasks, requests,
failures and restarts meet, TLC configurations that check them, and TLAPS proofs of what matters most about eight of
them. Paths below are relative to `src/`.

    tlc -workers 2 -config TaskManager_all.cfg MCTaskManager     # a run; PROJECT.json pairs cfg and module
    tlapm TaskManagerProofs.tla                                  # a proof

Contents: 1 the system, 2 the modules, 3 the runs, 4 fairness, 5 the proofs, 6 where the code differs from what it
says, 7 what is not modelled, 8 the plan.

## 1. The system

### What there is

| component | state | operations | modelled by |
|---|---|---|---|
| task queue (`service/tasks/manager*.go`, `retry.go`) | rows of `tasks`; two bounded channels; `cancels`; claims in `retry_state` | Submit, worker loop, Cancel, DeleteTask, retry scanner, two sweeps at a start | `TaskManager`, `TaskLedger` |
| task log (`service/tasks/tasklog*.go`, `handler/task.go`) | lines in memory, subscribers' channels, `tasks.log_entries` | append, flush, Close, SubscribeSince, GetTaskLogs, StreamLogs | `TaskLog` |
| machines (`handler/vm*.go`, `handler/image*.go`, `service/tasks/vm_*.go`, `image_finalize.go`, `service/vmlock`) | rows of `vms` and `images`, libvirt's domains, volumes and their backing files, vmlock | create, clone, make from a template, delete, restore, purge, clean up, finalize, restart | `VMLifecycle` |
| console sessions (`service/console`, `handler/terminal.go`, `serial.go`, `container_terminal.go`, `vnc.go`, `session.go`, `service/jumpd/session_bridge.go`, `live.go`) | rows of `console_sessions`; `Registry.conns`, `byToken`; `liveSessions`; VNC tokens | open, close, sweep, resolve a token, disconnect, restart | `Sessions` |
| cron (`service/cron`, `handler/crons.go`) | `scheduled_tasks`, `cron_runs`, `execMu`, backup files | tick, run now, chains, orphans, dead switch, edit, copy, delete | `Cron` |
| stacks (`handler/stacks.go`, `service/tasks/stack_*.go`, `service/dockerx`) | deployed compose file, version history, a lock per stack | deploy, edit, upgrade, roll back, trim | `Stacks` |
| people and what they may reach (`handler/user.go`, `user_group.go`, `vm_grant.go`, `grant_request.go`, `middleware/jwt.go`, `service/wsticket`) | users, groups, members, grants, requests, tickets | every handler that writes them; the identity of a request; mint and present a ticket | `Access` |
| login and the jump server (`handler/auth.go`, `service/jumpd`) | the limiter's counts, a connection's menu | log in, browse, search, select, check | `Jump` |
| disks, power, snapshots, volumes, images (`handler/vm_power.go`, `vm_devices.go`, `vm_snapshot.go`, `vm_xml.go`, `storage*.go`, `image_manage.go`) | runtime and persistent definition of a domain, volumes, rows of `images` | start, stop, attach, detach, redefine, snapshot, create and delete a volume, upload, register and delete an image | `Disks` |
| image downloads (`service/tasks/image_download.go`) | `<target>.part`, target, row | download, rename, register | `Downloads` |
| files of machines that are off (`handler/vm_files_offline*.go`) | registry of mounts, the kernel's mounts | mount, unmount, exit hook, sweep at a start | `Offline` |
| designer (`handler/designer*.go`) | plan files, baselines, runs in memory and rows | save, apply, poll, remove, reconcile | `Designer` |
| settings, alerts, notes (`service/setting`, `handler/settings.go`, `alert_webhook.go`, `notification.go`) | rows and copies in memory; alerts, notes | set, load, deliver, tell, read, retention | `Watch` |
| import and export (`handler/vm_export.go`, `vm_export_import.go`, `vm_import.go`) | row, domain and file of a machine | export, import, adopt | `Imports` |
| commands inside machines (`service/vmssh`, `handler/vm_files.go`, `vm_credentials.go`, `apps.go`, `vm_ip_sync.go`, `service/tasks/app_tasks.go`) | credentials, host keys, registered addresses | file operations, installation, synchronisation | `Shells` |
| ansible (`handler/ansible*.go`, `service/ansible`, `service/tasks/ansible_*.go`) | library, platform key, `ansible_ready`, run directories | write a playbook or role, distribute the key, run, time out, cancel, restart | `Ansible` |
| the rest: metrics, networks, IP addresses, plain docker pages, hosts, AI, audit, frontend | | | section 7 |

### How they meet

* A handler checks the machine (`findVM`), asks `guardVMIdle` (a query for unfinished tasks of that machine), takes
  `vmlock`, and either calls libvirt itself or submits a task and lets the lock go. The task's executor takes no
  lock: from then on only the row in `tasks` stands for it. `VMLifecycle` has the handlers and the executors;
  that a task is executed, and by one worker, is `TaskManager`'s.
* A worker creates a logger around every execution; executors append from several goroutines; browsers read the row
  and subscribe. `TaskLog` models one execution with its readers.
* A session's row, its entry in a map, and its two connections are three things that are changed one after another
  by the handler, the sweeper, an administrator and the start of the process.
* Requests that change the disks of a machine, delete a volume or an image, take a download into the pool, or mount a
  disk of a machine that is off, work on the same files and ask each other's rows and definitions before they do.
  `Machines` puts `Disks`, `Downloads` and `Offline` into one process that may be told to end or be killed.
* A request at the jump server or a WebSocket is judged by rows that administrators write meanwhile; `Jump` extends
  `Access`, so that both sides are in one behaviour. The bridge that follows is in `Sessions`.
* Cron, the designer and the app store submit tasks and wait for them or not; in their models a task is a step that
  ends well or badly in its own time.
* At a start `main` runs `sweepStaleRecords`, then `NewManager` (with `sweepOrphanRunning`), then serves.

### What is hard here, and what makes each part correct

* **Task queue.** An id moves between Submit, a channel, a worker and the scanner while its row moves on its own.
  An id must never be in two hands (two workers on one `delete_vm`), never be lost while its row says pending, be
  executed at most once plus the retries its type allows, and every task must come to rest. Crashes, a full queue,
  a failed write, a panic and an executor that ignores its timeout all lie on the way.
* **Task log.** `append` sends outside the lock under which channels are closed; two flushes write the same row;
  a reader joins memory, channel and row. A reader must see lines in order, none twice and, when its stream ends
  normally, all of them; channels are closed once; every stream ends.
* **Machines.** Row, domain and volumes have no common transaction: each executor rolls back by hand. A volume that
  is a backing file or that a domain mounts must not be removed; rows and domains must agree when the dust settles;
  a template must not share its disk; a reboot must not meet a deletion.
* **Sessions.** A running terminal must be in the list and be cuttable; a row must be closed once and in the end;
  what was held in memory must be released also when the write failed; an answered disconnection must be one.

* **Cron.** The loop and requests that run a task by hand share `execMu`; handlers write rows with whole-row saves
  while a run counts itself in them. Chains must end, rows a crash left must be closed, a task that stays enabled must
  be run again, and clearing old backups must never take the last good one.
* **Access.** What a handler read may be gone when it writes. A ticket opens one connection, a deleted group gives no
  access, a grant withdrawn bars the bridge although the menu still shows the machine.
* **Disks.** Every deletion of a volume asks several sources one after another, and some of them describe the next
  boot rather than the running machine. A use that lasted must be seen.
* **Downloads, offline mounts.** A file and its name, a mount and its entry, are changed in separate steps, and the
  process may end between them.
* **Designer.** A plan is compared with reality once and carried out later. A run that nobody disturbs must leave what
  the plan says, whatever earlier runs left half done.
* **Watch.** Row and memory must not drift apart; every rise of an alert is told once.
* **Imports, shells, ansible.** A machine is made of pieces that no transaction joins; an address is not a machine;
  definitions, credentials and machines change between submission and execution.

`PROJECT.json` lists the hazards one by one with the properties that watch them.

## 2. The modules

Common conventions. A database statement, a libvirt call, a channel operation, or a critical section of a mutex is
one step; what lies between two of them is local to a goroutine and belongs to the step before or after. A
definition carries the name of the function it translates where there is one. Failures are separate disjuncts,
bounded by `MaxFaults` (or `faults`). Operators commented *Mutant* are deliberately wrong variants of the
definition that follows; no specification uses them, they show that each property can fail.

### TaskManager (and TaskLedger)

| code | model |
|---|---|
| `tasks.status`, `retry_count`, `retry_state` | `status`, `retries`, `rstate` |
| the goroutine of Submit: Create, enqueue's send and timed send, markFailed | `spc`; `SubmitCreate`, `SubmitSend`, `SubmitTimeout`, `SubmitReject` |
| the channels of the pools | `queue` |
| a worker in `run(id)`, its copy of the row and the result it will write | `wpc`, `wtask`, `wretries`, `wrstate`, `wres`; `Dequeue`, `Load`, `SaveRunning`, `Start`, `ExecEnd`, `ExecTimeout`, `Check`, `Write`, `WriteFail`, `Cleanup` |
| executors left behind by a timeout | `zombies` |
| `scanRetriesOnce`, `requeueForRetry` | `scan`, `cur`, `cands`, `seen`; `ScanQuery` ... `ScanFail` |
| Cancel, DeleteTask: two steps each | `cancelling`, `deleting` |
| crash, `sweepStaleRecords`, `sweepOrphanRunning` | `life`; `Crash`, `SweepStaleRecords`, `SweepOrphanRunning` |

`DB.Save` writes back every column that was read and inserts the row when it is gone: `SaveRunning` does both.
What an executor does is left out; it ends in success or failure or is abandoned. A worker may panic at each of its
steps (`PanicFault`), at its last too: `run` writes the result and then closes the logger in a deferred call, and a panic
in there ends in the outer recover, which writes `failed` over whatever the row says (`manager_run.go:37-42, 59`). From then
on `slipped` is set: the row that was a success may be retried and executed once more than the budget, beside whoever holds it
again. The safety properties of rows and rights (`SingleCustody`, `AtMostBudget`, `SuccessIsFinal`, `ImplementsLedger`) speak of
behaviours in which that has not happened; `NothingLost` and `Converges` do not need it.

`TaskLedger` is the queue without goroutines: a submission issues one right to be executed, a retry grants another
to a task that has none, an execution uses it, and a right may become void. The refinement says who holds the right
(`Due`): Submit, a channel, the scanner or a worker that has not read the row, as long as there is a row; then the
worker alone.

### TaskLog

One execution: `run` with its logger, the executor's goroutines, `flushLoop`, and clients. Lines are numbers. The
critical section of `append` (`Take`) and each of its sends (`Push`) are separate steps, because the code sends
after unlocking; a send to a closed channel is `PushPanic`, which ends the goroutine as the runtime does. `flush`
is three steps: copy, lock `writeMu`, write. `Close` is four. A client is `GetTaskLogs` and then `StreamLogs` with
its snapshot, late subscription, tick and deferred `unsub`. What can cost a reader lines is remembered: `lagged` (a frame
dropped at a full channel), `crossed` (a frame pushed after a newer one), `panicked`; without these and without trimming a
stream is `Undisturbed`, and only then `ClosedIsComplete` asks it to be complete.

### VMLifecycle

A call is one request with the task it submits; the machine it makes is named by the call. Requests go through
`Arrive` (findVM), `GuardVMIdle`, `LockVM`; those without guard or lock are queued at once, as in the code.
Executors run on `SlowWorkers` workers. libvirt is a map from names to a UUID and disks: `dom`. Volumes are named by
machine and suffix, as the code names them; `backing` is what `ListBackingRefs` reads.

create_vm has the three kinds of disk of the code: a new volume, a linked clone of an image, a file that exists (which an
image becomes when the query for its pool fails). A restore, a deletion and a clone may fail at each call: a deletion
that cannot read the definition keeps no archive or goes on without, a restore whose domain cannot be defined has restored
the row all the same.

A scenario (`mix`) says which kinds of request users issue together. The scenarios of the passing run exclude the
combinations for which section 6 lists a disagreement (for example a deletion of a machine whose creation is still
at work), so that the rest of the behaviour can be checked to be right; `RowsMatchDomains` and `VolumesSound` say nothing of
requests for one machine that cross between guard and lock. That they do cross is what the run `vm_crossed` shows.

### Sessions

`row` and `ends` are the database, `conns`, `live`, `byToken`, `tokens` the memory, `pc` the handler of each
session, `user` and `guest` its two sides. Time is two facts per session, `old` and `stale`; the sweeper takes both
as they were at the start of its round, as the code does with `now` and `cutoff`. `sweepOnce` is one step per
statement and per critical section. A write through `dbx` fails as one step after three attempts. What is external is taken to be prompt: a probe of a peer
that has gone fails, a read loop notices a closed connection (`ProbeFails`, `ReadLoopEnds`); a server that acknowledges
packets and never answers a request would hold the probe for ever (`session_bridge.go:157` has no time limit).

### Stacks

One stack: the deployed copy, what runs, the lock, the rows of the history. A request is a handler, and for an upgrade
or a rollback the executor of its task; a file access, a statement, a try of the lock and the end of a docker command
are one step each. `RecordStackVersion` is four steps (newest row, INSERT, ids to keep, DELETE), none of them under
the lock, because no caller holds it there. `compose pull` and `up` read the copy when they start. `os.WriteFile` empties
before it writes: a write that fails may leave a copy that is `Torn`, which compose refuses to run and which the next
edit or rollback replaces. A scenario (`mix`) says which
requests come, how many, and whether they overlap. What a reader may rely on when requests come one by one
(`Recoverable`, `RecordsWhatRuns`) is stated for those scenarios; `OneCommand` and `HistoryBounded` for all.

### Cron

One goroutine (`sched`) sleeps to the next minute and runs a tick; a request that runs a task by hand executes it in its
own goroutine; both pass `execMu` (`mutex`). `Execution` is the run with its attempts, the history row, the statistics,
the chains and the clean-up, statement by statement; `Edit` is one handler at a time over the rows. The schedule is
computed from the parts of an expression as the code parses them (`PartValues`), on a clock of `Hour` minutes. Ages
replace times and stop at `AgeCap`, so that time passes for ever in finitely many states.

### Access and Jump

`slot` holds a handler with what it has read; each statement is a step (`FindUser`, `SaveUser`, `DeleteGroup`,
`DropMembers`, `DropGrants`, `Decide`, ...). `AuthMiddleware` reads the user afresh for each request (`Identity`). A
time limit is the hours that are left, so that `Later` is the clock. `minted` and `open` are what tickets were made for
and what they opened. In `Jump`, `door` is a connection with its login, the menu's rows as they were loaded, page and
search, and the machine whose check is under way; `mark` and `ok` remember, when the key is pressed, the last write to
the grants and whether there was one.

### Disks, Downloads, Offline, Machines

`dom` has `live` (what qemu holds) and `conf` (what the next start uses) for two disks and a drive. A request is a
`hand` that goes from findVM through guard and lock, where the code has them, to its calls; the queries before a
deletion (`Look`, `LookFails`) are a step each and their answers are judged afterwards (`Judge`, `Reported`). `Watch`
notes which uses began while a request was at work (`fresh`): the code cannot see those, and `KeptWhileUsed` does not
ask for them. In `Downloads`, a file is something else than the path that leads to it, as for `os.Create` and
`os.Rename`. In `Offline`, `fuse` is the kernel's stack of mounts and `mount` the registry; what ends the process leaves
the kernel as it is. The removal of the mount point after an unmount (`os.RemoveAll`,
`vm_files_offline.go:278`, also when the unmount failed) is left out: the folder is empty, or FUSE keeps the service's own
user out of what root has mounted there. A service that itself runs as root would go in; that case is not modelled.

### Designer

A plan is a file with nodes and links, its baseline the plan of the last run that succeeded, which a torn write turns into
none. A request reads plan, baseline and reality and computes the operations (`Difference` against each node), then takes
the plan's place; each of the three readings of reality may fail, and what it did not list is then missing. The
run executes takedowns, builds and restarts in the order of their phases, waits for the tasks of machines, and writes
its end to memory and row; a row that could not be created is id 0, and the run goes on. Everybody else may change
resources; a run that was started on what there really was, and that nobody disturbed, is `calm`.

### Watch, Imports, Shells, Ansible

`Watch`: a setting is `saved` and `cached`; an alert's row is read into memory and overwritten, and the copy in memory with it,
as gorm 1.25.5 does for `Updates` with a map on `Model(&existing)` (`ConvertToAssignments` sets each field of the model); what
is judged for a rise is that copy. Notes are left user by user. `Imports`: a machine is `registry`, `domains` and `pool`; an import makes the three one
after another and takes back what it made. `Shells`: a visit is a request or a task with the address, the credential and
the key it read; machines change address and key behind it; the first key seen at an address is kept. `Ansible`: the
library with its single files, directories and seeds; `keyed` is what a machine really has against the row's
`ready`, and `unsure` is where it was sent to without anybody knowing that it arrived: an append whose failure the `chmod`
behind it hides, a cloud-init that is still to run (`Born`, `FirstBoot`). A run is gathered, given an inventory and a
directory, and started; the manager's timer or a cancel may end its row at any time (`over`, `GivesUp`) while the executor
goes on, and the executor returns when nobody holds the output of its process, whose children are of two kinds: those that hold
the output and those that do not, which nobody waits for.

### Composition of runs

`MCHosts` and `MCServices` put modules side by side that share no variable and no row in their scenarios. Their steps
commute, so a behaviour of the whole is one of each part, and the runs let one part work (`turn`, `part`) while the others
rest: this is a way to check several parts in one run, not a claim about their interplay. Requests on a stack, and calls on
machines, are alike: those runs let them arrive in one order (`InTurn` of `MCStacks` and `MCVMLifecycle`), which every other
order is a renaming of; and of two idle servants of one kind, which no state tells apart, `MCServices` takes the first
(`DesignersInTurn` and the others). Parts that do interact are
composed for real: `Jump` with `Access`, `Machines` of `Disks`, `Downloads` and `Offline`.

## 3. The runs

| run | what is checked | instance |
|---|---|---|
| `tasks_all` | single custody, bounded executions, no task and no claim lost, successes final, the ledger implemented | two tasks of one pool: `down` retried once, `make` not; two workers; a queue of one place; one cancel, two deletes; one fault; one crash |
| `tasks_live` | every task comes to rest | the same without cancels and faults, one task of an unknown type, a crash |
| `log_all` | lines in order out of windows of the log, streams complete and channels closed once, streams end | two lines of the executor, also when it was abandoned, and the two run writes itself; one client that may leave, trimming at three lines, buffers of two, one fault, a cancel |
| `log_panic` | (violation) no send to a closed channel | one client |
| `vm_shared` | (violation) no mounted volume is removed | a machine with two disks, its clone, a deletion |
| `vm_crossed` | (violation) no reboot under a deletion | a restart and a deletion of one machine at once |
| `watch_again` | (violation) every rise of an alert is told | one alert that fires, is resolved and fires again |
| `sessions_all` | listed and held, released; rows and tokens settle, cuts end, sessions end with the guest | each kind alone with two failed statements and a restart; an SSH terminal beside a docker terminal; two VNC tokens of one machine |
| `cron_all` | runs and ticks end, orphans are closed, enabled tasks are run again and again, the last good backup stays | nine scenarios of two tasks: cycles of chains, crash and failed statement, a scheduler slower than its schedule, edits and copies, backups, snapshots, playbooks, health checks |
| `hosts_all` | volumes in use are kept, half downloads are no images, mounts are accounted for; tickets open once, deleted groups give nothing, withdrawn grants bar; commands on a stack are serial and give the lock back; its history is bounded, true, and enough to go back | eleven scenarios on two machines and five volumes with up to two failures; ten scenarios of two users, three machines, two handlers and two connections; four requests on a stack one after another, from nothing with two failures and from an edited copy with one; any two at once with one failure; three deployments and upgrades at once; two contents besides the template; two versions kept |
| `disks_paused` | (violation) a volume is not deleted under a guest | one machine, paused |
| `services_all` | plans converge; settings in force are saved, new alerts are told once; imports agree, keep files, exports are whole; one key per address, one machine per installation, addresses registered; ansible all or none, keyed, ended, secrets apart; rows and domains of machines agree; chains, templates, shared and mounted disks | six parts in four to eight scenarios each: one plan of three kinds of resource; two settings and two alerts; two machines in three files; two machines and two addresses; two runs, three playbooks, two machines; for the life of machines four requests (three where they overlap), two workers, three names, one failure |

Why the bounds suffice. The queue's conflicts are between an id and itself (Submit, channel, worker, scanner) and
between two ids for a place: two tasks, two workers and one place have them all, and the proofs lift the safety
properties to any number. In the log, trimming needs one line more than `MaxEntries` and a full buffer one line
more than `SubBuffer`; both occur with four lines, and two lines of the executor are enough for one to be pushed before an older one of `run`. Machines conflict through a name, a backing file or a lock; the
longest chains of interest (make, delete, restore and delete again or purge; clone, delete both, restore or purge one; make
a template, make a machine of it) have up to four requests. Restarts beside them take no part in what the properties relate
but the lock, so they have scenarios of their own; what a restart does between guard and lock is `vm_crossed`. Sessions meet only in
the sweeper's rounds and, for VNC, in the token store, hence pairs. `MaxFaults = 1` reaches every single failure in
every state; sessions get two because a closing write and the sweeper's first round must both be able to fail.

In the modules with scenarios the bound is what may be asked: every scenario is a set of requests of which each is made
once, in any order and at any time, and one is written for every hazard of PROJECT.json. Two handlers are enough for one
to act between two steps of another; a race of three would need a third writer of the same row, which none of these
operations has. Cron has two tasks because a chain's cycle needs two, and an hour of two minutes because a
schedule is a set of minutes of which a task hits some. `Pieces = 2` lets a download stop in the middle.
Counters that would grow (`MaxIds`, `MaxWrites`, `MaxFiles`, `MaxRuns`, `Room`, `CountCap`) stop where a further step
could only repeat what one before it did.

Deadlock is checked where the system cannot stop: tasks, sessions, cron. `TaskLog` stops when the execution is over and
every stream has ended; the others when all requests are done.

Properties with several parts (`NothingLost`, `LinesInOrder`, `StreamsComplete`, `VolumesSound`, `SessionsSettle`,
`HistoryHolds`) are conjunctions of properties that are defined and explained beside them.

## 4. Fairness

The Go scheduler does not starve a runnable goroutine, so each goroutine's next step is weakly fair. In
particular: Submit's timed send is bounded by its timer; `run` by the executor's timer (`ExecTimeout` is a step of
`Run`); the scanner's ticker keeps firing; a process that is down is started by its supervisor (its sweeps are
fair, the crash itself is not). For streams: run, the flushes, the sends and the handlers of clients; a client need
never leave. For sessions: handlers, the sweeper, `TouchByToken`, and the passing of time. Nothing makes a browser
hang up, a machine stop, an administrator act, or a failing database fail or recover: failures are only bounded in
number. For cron: minutes pass, the loop ticks, an execution goes on, and who waits for `execMu` gets it in the end
(strong fairness of `Lock`: Go's mutex hands over to a waiter that has starved for a millisecond).

The liveness properties (`Converges`, `StreamsEnd`, `SessionsSettle`, `ChainsEnd`, `OrphansClosed`, `EnabledRuns`) are
model-checked only: the prover has no support for fairness and ENABLED.

## 5. The proofs

### TaskManagerProofs

For any set of tasks, workers, pools, any queue length, any bounds on faults and crashes, from the assumptions that
`TaskManager` names (types of the constants, `None` is neither a task nor a worker, bounds are naturals).

* `TypeCorrect`.
* `CustodyIsSingle`. `SingleCustody` is not inductive: that the scanner may push an id depends on nobody else holding
  it, which is a fact about rows. `CustodyInv` adds: what is in a channel is there once and in its own pool's
  (`QueueInv`); the status that goes with each holder (`StatusInv`: a held row is pending or gone until a worker runs
  it, and a running one is never failed or a success, so the scanner's query cannot find it); and that candidates,
  unsubmitted tasks and a process that is down hold nothing (`IdleInv`).
* `ExecutionsAreBounded`. `BudgetInv` ties the scanner's copy of `retry_count` and the worker's copy that `Save`
  writes back to the row (`SeenInv`), and counts: executions begun are at most `1 + retry_count`, and at most
  `retry_count` while the right to one more is outstanding (`CountInv`).
* `LedgerIsImplemented`: initial states map to initial states and every step to a step of the ledger or a stutter;
  `DueStep` says for each action who gains or loses the right.
* `SuccessStays`: no action writes a row whose status is success, except its deletion and the recover of a worker that
  panicked after it had written the success. All but `TypeCorrect` and `NothingIsLost` speak of a behaviour up to such a panic
  (`~slipped`): the invariant `Inv` says nothing afterwards, because the id of that worker is then in two hands.
* `NothingIsLost`: while no database access has failed, an active row has its holder, and while the process has not
  crashed either, a claimed row is the one the scanner is at. `RowsHeld` alone is not inductive across a restart: between
  the second sweep and the first request no row may be active at all (`HeldInv`). For the claims, nobody may carry an
  old claim that a later `Save` writes back: neither a worker that has read the row nor a new row (`ClaimInv`).

### SessionsProofs

For any ids, any cast of kinds, faults and restarts. `SessionInv` is inductive given the types: where a handler is
determines its kind and its row (`Placed`); what memory holds has a handler that will release it and every bridge with a
row is held (`Holding`); what the sweeper copied stays good for its update: a row that is old was opened before the
round, hence is past `Registry.Open`, and if it was not held when the ids were copied its bridge is over (`Rounds`);
a disconnection that comes to write the row is one of a jump session (`Asked`). `TerminalsListed`,
`EndsAreWrittenOnce`, `FinishedHoldNothing` and `SessionsTypes` follow. The step from `sweep.old` to "past Open"
rests on the guard of `Age`: the window between the INSERT and the registration is shorter than ten minutes.

### StacksProofs

`CommandsAreSerial`, for any requests, contents and scenarios. `LockInv` says that whoever is at a command, or looks at
the lock as IsStackBusy does, holds it, and that a lock that is held has such a holder; each action either leaves the
lock alone from outside, takes it free, or lets it go on its way out (`Bystander`, `Entering`, `Leaving`).

`HistoryIsKept` (`HistoryHolds`) and `StacksTypes`, for any `KeepN` of one or more, on the invariant `HistoryInv`:

* `BoundInv`: every id is one row's, what a recorder is about to keep is `KeepN` ids or fewer, and while nothing has failed
  there are more rows only as long as some recorder is at `trim` or `prune`. That a set of rows in order has a newest one
  and that `Top` has at most `KeepN` rows is proved without induction: the number of newer rows maps the
  rows of `Top` one to one into `0 .. KeepN - 1`. So whoever prunes last, and with however old a list, leaves `KeepN` or fewer.
* `SoloInv`: of requests that come one by one, a request knows where it is. Before its command it carries to the history the
  content that is about to be overwritten, after it the one that runs; when it reaches `trim` the newest row has that content;
  when it reaches `write` with a snapshot that was taken, the history has what the file holds. Between requests the newest
  row is what runs, if nothing failed (`Truthful`).
* `TornInv`: only a file can be torn. What the history holds, what runs and what a request wants to write are contents,
  so that a rollback, which refuses such a version, meets one only as the copy it is about to replace.

Without `SoloInv`'s hypothesis the second part does not hold, see section 6.

### VMLifecycleProofs

For any calls, names, workers and failures. `TypesHold` is `TypeOK` in every mix; it rests on where a request of each kind
may be (`KindInv`), on rows that keep the name they were written with (`RowInv`) and on `vmlock` being held by exactly the
handlers past `TryLock` (`LockInv`).

Two theorems need hypotheses about the scenarios, named in `VMLifecycle`, because the code does not do without. TLC evaluates
the first on the scenarios of the run (`SerialAssumption` of `MCServices`); the run also has scenarios that the second excludes.

* `RowsMatch` assumes `SerialMixes`: names in use are not chosen again, requests that overlap only remove, and a machine
  is not deleted, finalized and restored side by side. The last one is a case the proof attempt found and TLC
  confirmed: the task that finalizes a machine is submitted without guardVMIdle, so it may run beside a deletion;
  both find the machine, the deletion moves its row to the recycle bin, a restore reads the row there, the
  finalization erases it, and the restore's update changes no row and goes on to define the domain.
  `RowsInv` says of each name whose it is (`NameInv`), of each domain that its row lives or that its clone is about to
  write it (`DomInv`), what handler and task know of the row they work on (`LifeInv`), of each live row that it has its
  domain or that somebody is about to change one of the two (`MatchInv`), and that the recycle bin knows the disks of what can
  be restored (`ArchiveInv`).
  That requests for one machine take turns (`SerialInv`) is what it takes for guard and lock to exclude one another: two
  requests that arrive together both pass the guard (`vm_lifecycle.go:243`), and `PowerExcluded`, which says that a reboot and
  a deletion do not meet, is violated then.
* `DisksAreSound`, that `VolumesSound` holds, assumes `SerialMixes`, `DiskMixes` and machines with one disk, and no machine
  that is given a file by its path (what such a machine shares, `GivenFiles`, the property leaves out anyway). With a second
  disk a clone shares it with its source, which is the violation run `VMLifecycle_shared`. For each clause of `DiskMixes`
  TLC has a counterexample without it: a clean-up looks at domains, a creation defines one, the clean-up removes its
  volume; the same where a restore defines the domain of a deleted machine again; and a deletion that asked its guard
  before a finalization of the same machine registered the disk and a clone of the template was linked to it, removes the parent.
  `DisksInv` rests on names: a disk belongs to the machine it is named after, in definitions and in archives (`NamedInv`),
  so `DisksUnshared` is a matter of names. The machine of a volume with a child is made, and so is that of a template
  (`ChainInv`, `ImageInv`): neither is under construction, and a roll-back removes only what is. A template's machine has
  no domain, and no restore brings one, because its row is gone for good where templates are made. `HeldInv` is the part about
  data that is read now and used later: for each task and handler, what of it is still true. What a purge is about to
  remove has had neither child nor domain since it looked; a deletion's list of volumes to keep has every child's
  parent of its machine; a clean-up's list has lost all parents and mounted volumes; a task about to register a template
  has a machine without a domain. `TurnFor` says who may still change that machine's row. Every step keeps this and removes no
  mounted volume (`DisksStep`).

### TaskLogProofs

For any clients, appenders and executors, any numbers of lines, of entries kept and of places in a channel, with or without an
abandoned executor, cancels and failed writes. `IInv` is inductive; TLC checked it on the run's instance before it was proved.

* `LogsInv`: memory, row, every flush's copy and every client's snapshot are rows of consecutive lines that end at or before
  the last one numbered and begin with the first until something was trimmed (`Fits`). `After`, which the code writes as a
  filter, is the end of such a row; this is what makes it a matter of arithmetic for the prover.
* `DoorsInv`: an open channel has one party that will close it, the client's `unsub` or the round of `Close`.
* `PushInv`: the lines under way have different numbers and go to clients that have a channel.
* `CursorInv`: a client's cursor is the last line it got, and what it got rises. With `LogsInv` this is `LinesInOrder`
  (`LogInOrder`): whatever the channel brings late or twice, the comparison `e.Seq > since` (`handler/task.go:299`) drops.
* `StreamInv`: while the stream is undisturbed, each line beyond the cursor is in the channel or about to be pushed, and the
  channel rises and lies below what is about to be pushed. This is the heart: it holds across the hand-over from the row to a
  late subscription because `SubscribeSince` copies and registers under one lock.
* `FinInv`: once a client has been told that its channel is closed nothing about its stream changes. With these,
  `LogStreamsComplete` proves `StreamsComplete`.

The attempt refuted the earlier `ClosedIsComplete`, and TLC confirmed it beyond the bounds the run had then: see section 6, Log.
The property now names the two ways in which a line is lost, and the run has the bounds in which they happen.

### HostsProofs

About the two parts of `Hosts_all`, `MachinesSpec` and `JumpSpec`, for any machines, volumes, users, groups and scenarios. The
scenarios are assumed to be of requests with fields of the right kind that begin with files of which downloads know nothing and
with no group deleted (`MixesAssumption`, `SceneAssumption`); the empty name is no machine's (`DisksAssumption`).

* `VolumesInUseStay`: `WatchInv` says of a request that could ask everything so far: each use that has lasted since it came
  either would be shown by a query that is still to be made, or is already in its answers (`Accounted`). The proof is that no
  step of another handler, download, mount or end of process makes a use `fresh` that the query behind it would have shown.
* `DownloadsLeaveWholeFiles`: no file belongs to two targets (`OwnInv`), and for a target that two tasks never wrote at
  once, its writer's file is the one `.part` leads to and what stands at the target is another one, and whole (`Alone`).
* `RegistryMatchesKernel`: the registry knows less than the kernel only by who is on the way (`Agree`), at most one layer is
  mounted where nobody laid a second, and when the process is down the registry is empty, which is what the sweep starts from.
* `TicketsOpenOnce`: an entry of the store is shown by no request at work and has opened nothing, and an entry that has been
  taken out is shown by one request only (`StoreInv`, `ShownInv`). `Consume` reads and deletes in one critical section; this
  is what the step rests on.
* `NoAccessThroughTheDead`: for each deleted group, members and grants that are left are paid for by mishaps, counting the
  statements of the cascade that are still to come (`Paid`). That the property tolerates one mishap and not two is in
  this count: members and grants must both be left.
* `WithdrawnOpensNoBridge`: a grant comes to life with a new id only (`Revives`), and a connection past `CheckGrant` has seen
  a live one: it stood when the key was pressed, or the count of ids has moved since (`Sound`).

### ServicesProofs

Ansible, for any machines, playbooks, runs, scenarios and failures that satisfy `MachineAssumption` (a new machine's id was
nobody's before). `RunsReachAllOrNone` and `SecretsStayApart` follow from what a run carries at each place (`RunsInv`): what was
asked for stays among the targets, every one of them has a way once the channel is chosen, and nothing is written before
the launch. `NothingIsLeft` is about the return of the executor, not the end of the row, which the manager's timer or a cancel
writes while everything still runs: a run which has no process that holds its output and no directory can only get them by
going on, and every run the platform lost sight of is counted (`LeftInv`). `MarksHaveKeys` needs that the mark a distribution
is about to set has its key already, or is one of those of which nobody knows (`unsure`), whoever overwrites user and
credential meanwhile (`KeyInv`).

Shells, for any machines, addresses, requests, failures and moves of addresses, with host keys that belong to one machine
(`VisitAssumption`). An address has at most one recorded key and nobody is talked to under another (`OneKeyPerAddress`).
`SameMachine` is not inductive: while the record stands, it names the machine of the first connection, and a
connection in its second round found that same record (`KeepsMachine`, `InstallsWhereItLooked`). `TasksStayRegistered`
keeps with each task the addresses its machine has had since it looked (`KnowsAddress`).

Settings and alerts (Watch), for any settings, alerts, users, requests and restarts (`MailAssumption`: requests have something to do, and administrators
called lasting are never removed). `ForceIsSaved`: a request between row and memory carries what the row has, and it is
the only one at work on the setting (`SettingsInv`, `SoleClerk`). `FirstIsTold` is book-keeping: notes are numbered
from nought without gap or repetition (`Counted`, hence their number, `CountedIsCardinality`), and the requests that are
about to tell owe one note and perhaps one message each (`ToldOf`). It speaks of the rows that are created firing; that a row
which turns to firing again is not told is the run `watch_again`.

### ImportsProofs

For any machines, files, packages, requests and failures that begin with rows, domains and files that agree
(`ParcelAssumption`). `ImportInv` has one part for each pair of places: files and domains (`FilesInv`, `OwnedInv`), rows and
domains (`RowsInv`, `KnownInv`), what a request has read and what is there when it acts on it (`PortersInv`), two requests
of which one does not know of the other (`PairsInv`), and the export's lock (`LocksInv`). Its predicates take rows, domains
and files as parameters, so that one lemma speaks of the state before a step and after it.

The attempt showed earlier forms of the properties to hold in the scenarios of the run only. Two packages of
different machines may bring the same file name: both pass the third check, `os.Stat` (`vm_export_import.go:124`), and
`restoreImportVolume` (`:133`) of the second overwrites the disk the first has just defined. And a domain that a failed
`cleanupImport` left behind may be adopted by `ImportVMs` after its file was removed, then exported. Such files and machines
are now among those `crossed` or in `litter`, and the properties name them as exceptions.

### What the theorems are about

`ImportSpec`, `ShellSpec`, `WatchSpec` and `AnsibleSpec` are the parts of `ServicesSpec` in `MCServices`: its initial states satisfy each
part's, and each of its steps is a step of one part and leaves the variables of the others alone. `MachinesSpec` and `JumpSpec` are
the parts of `Hosts` in `MCHosts` in the same way. The assumptions on scenarios are evaluated by TLC on those of the runs.

### Only model-checked

* Every liveness property: `Converges`, `StreamsEnd`, `SessionsSettle`, `ChainsEnd`, `OrphansClosed`, `EnabledRuns` (no support
  for fairness and ENABLED).
* `RetentionSafe` of cron: which backups a sweep keeps is a count along a filtered sequence, hence induction over data.
* `Converged` of the designer: the order in which it deletes and creates comes from a recursive function over sets of
  nodes, and what that function returns is induction over data.
* `NotUnderGuest`, `NoSendOnClosed`, `MountedKept` are what the violation runs refute.

## 6. Where the code differs from what it says

Each of the five violation runs has an entry under `findings` in PROJECT.json with the quoted line. In short: a browser
closed at the wrong moment makes `append` panic; deleting a clone removes the data disks of its source; a restart meets the
deletion of its machine; detaching a disk of a paused machine with `wipe` deletes the volume its qemu still has; an alert that
fires again after it was resolved is not told.

Others were met while modelling and have no run of their own. They are the reason for a guard in a scenario or for a
property that is not stated more strongly.

* Tasks. A task interrupted by a restart is retried: `sweepStaleRecords` runs first and makes its row failed without the
  mark that `sweepOrphanRunning` sets (`main.go:346`). A timed-out executor keeps running while its task is retried (`manager_run.go:139`). A task refused with
  ErrQueueBusy is failed like any other and the scanner executes it later (`retry.go:89`). The clean-up of a first
  attempt can remove the CancelFunc of a second (`manager_run.go:92`). DeleteTask can remove a row that the scanner
  has just requeued (`handler/task.go:116`). A cancel that commits between `isCancelled` and the terminal write is
  overwritten (`manager_run.go:149`; `manager_config.go:89` says it is not). A panic in the last flush of the log, which is
deferred until after the terminal write, makes a success a failure, and the scanner may execute the task again
(`manager_run.go:37-42, 59`).
* Log. The last flush can be overwritten by an older one: `flush` serialises before it takes `writeMu`
  (`tasklog.go:201`). `done` may be sent before the last lines are in the row (`handler/task.go:322`); a frame dropped by a full
  buffer is not fetched later, because the next frame moves the cursor past it. The same befalls a frame that was not dropped: lines are
  numbered under the lock and pushed outside it, so a newer line can overtake an older one (`tasklog.go:164`); the client takes
  the newer, skips the older as already seen (`handler/task.go:299`), and no later read asks below the cursor, although the
  comment at `handler/task.go:313` expects the periodic read of the row to make up for lost frames. A line that an abandoned
  executor numbered before `Close` may be pushed after the stream has ended.
* Machines. A `clone_image_vm` that fails because its name is taken undefines the domain that has the name
  (`vm_clone.go:232`). Guard before lock (`vm_lifecycle.go:243`) lets two requests that arrive together both pass, and a restart
  meets a deletion (run `vm_crossed`). create_vm takes a file that exists without asking whose it is. A finalization beside a deletion erases the row that a restore has read in the recycle bin; the restore's
  update of no row is no error (`vm_recycle.go:181`), and it defines a domain without a row. `cleanup_volumes` reads backing files, domains and images one after another and can remove the new volume
  of a create, clone or finalize at work. `create_vm` makes its row visible before the domain, and its task has no
  vm_id, so that guardVMIdle lets a deletion through. Finalize has neither guard nor lock, and removes the machine
  before it registers the template. Purge and restore read the row before guard and lock. A deletion beside a clone
  of the same machine can remove a backing file, and so can a deletion beside a finalization of it: it asks its guard once
  (`DeleteGuard`), and the disk that became a template since, with a clone linked to it, is not among what it keeps. The synchronous deletion of a volume or an image treats a failed
  query for references as "none" (`storage_refs.go:36`).
* Sessions. A disconnection during the jump server's dial is answered with success, closes the row, and the bridge comes
  up behind it (`session.go:88`). An SSH terminal whose shell has exited stays active until the browser sends a key or leaves. A failed query
  makes the sweeper drop the mapping of an active VNC session. A VNC token may outlive the closing of its row.
  `sweepStaleRecords` closes rows of three kinds of session only; docker terminals wait for the sweeper.
* Stacks. `stack_versions.go:33` says that the lock keeps recorders apart; none holds it there: two may give one number
  twice (which the comment allows), and a trim may delete a row that was inserted after it read the ids to keep,
  although it is the newest. An edit between the read of the old copy and its replacement by a deployment is lost
  (`stacks.go:183`). An upgrade or rollback records what the copy holds after `up`, not what `up` read
  (`stack_tasks.go:85` says what took effect). A deployment that answers 409 has replaced the file. IsStackBusy holds
  the lock while it looks, and a real command at that moment is refused. The page says of "up" that it rebuilds the project by
its compose file (`ComposeTab.vue:49`), but `ComposeAction` gives compose no directory (`dockerx/compose.go:55-82`): it reads the
file of the server's own working directory.
* Cron. `Update` saves the whole row: statistics of a run in between are lost, and a task deleted in between comes back
  (`handler/crons.go:288`). Creating and duplicating drop the references of chains. A scheduled run queues behind a
  manual one. Minutes that pass during a tick are never looked at. The dead switch cannot fire for a task whose period
  is not longer than its grace, and fires falsely for one enabled after its due time. A failed `mysqldump` leaves its
  file, and a second dump within the minute truncates a good one. A playbook that outlasts the wait of 25 minutes is
  submitted again beside itself. The health check restarts containers by position after dropping those without a check
  (`cron_healthcheck.go:151`), so it can restart a healthy one.
* Access. An approval replaces a grant without an end by one that ends (`grant_request.go:145`); an approval and a
  rejection may both succeed (`:162`); two applications at once both find none pending (`:75`). Two administrators may
  delete each other. A bridge is not cut when its grant is revoked or runs out; the role is the one at login. The jump
  server ignores grants of groups. A failed query for a user counts as a failed login on the web page only. A ghost of
  a deleted group gives access after two mishaps (`NoGhostAccess` counts them).
* Disks. `refs` are asked one after another (`vm_devices.go:329`), so a use that begins meanwhile is not seen.
  `imageRefs` looks at three pools and gives up at a failed query; `DeleteVolume` counts a failed listing as no references.
  The comment at `image_manage.go:254` describes an older order. `RevertSnapshot` does not ask whether a disk is
  mounted offline. The next free target is taken from the persistent definition. Sizes of cpu and memory write back a
  status that was read without the lock.
* Downloads, offline. Two downloads of one image register a half file (`image_download.go:33` says a target is always
  whole). Two mounts at once stack layers; a `guestmount` that outlives `sudo`'s timeout leaves a mount without an entry;
  file operations after an unmount write into the host's directory.
* Designer. Operations are computed before the run has the plan's place. A resource that was there before the plan enters
  the baseline and is deleted when its node leaves the canvas, although `designer_drift.go:260` speaks of resources the
  plan made. The run says success before its baseline is written; a poll may write `running` over the final status; a
  retry after a failed installation reports success without it; a cancelled task is waited for until the time is over;
  a network defined but not started is passed over; what a failed query did not list counts as missing
  (`designer_drift.go:86-112`); applications are compared nowhere (`specDrift`), and a baseline cut short counts as none; deleting a plan leaves its baseline; memory is written without
  the lock that readers take.
* Settings and alerts. Two requests that set one key leave row and memory different until the next start. Of two
  first deliveries of one alert that overlap the index refuses one, and what it said is lost. A resolved alert that fires
  again is never told (run `watch_again`). Retention deletes alerts by `created_at` also while they fire.
  A request for several settings that fails keeps the keys before (documented).
* Import, export. Two imports of one package both pass the checks, and the clean-up of the second removes what the first
  made. Two imports that share only the file name both pass `os.Stat` (`vm_export_import.go:124`), and the second overwrites the
  first one's disk, although the comment above it says that an import is refused rather than another's disk damaged. A deletion submitted between the export's guard and lock (`vm_export.go:92`) removes the file being streamed.
  An error of `GetDomainState` counts as "no domain", so an import redefines a domain of the same UUID. `ImportVMs`
  ignores a failed count. A volume whose `chmod` fails stays, and so does a copy that cannot be removed, although every
  step that fails is said to be taken back (`vm_export.go:13`).
* Commands. Two first connections race and the second is refused. An installation whose machine was deleted falls back to
  any private address (`app_tasks.go:155`). A credential deleted and saved again has a new id, and the queued
  installation fails. Nothing keeps two installations of one app on one machine apart.
* Ansible. A machine that has the platform's key is reached at port 22 although the comment and a regression note at
  `ansible_tasks.go:181` promise the port of its credential: the lookup is in a map that holds only machines without
  the key (`:125`). An optional number answered blank passes both validations and is refused when the file of variables is
  written, so the run fails (`survey_apply.go:51`). `PutFile` makes `<id>/` beside `<id>.yml`, which CreatePlaybook
  (`ansible_playbooks.go:212`) says must not be. A failed write leaves an empty file (`:190` says never half a product);
  an oversize upload removes the file that was there. A seed whose copy was cut short counts as present. Half a
  key pair stays an error until a person acts. A line over 1 MB stops the scanner and blocks the child until its
  timeout. Reverting a snapshot loses the key while `ansible_ready` stays. The command that appends the key ends in a `chmod`,
  whose success is taken for the whole (`ansible_key.go:121`), and a machine made with the platform's key is marked before
  cloud-init has run (`vm_create.go:318`). The row of a run may end by the timer or a cancel long before its process and
  its directory with passwords do (`manager_run.go:139-146`), and only the direct child is killed (`ansible.go:252`). A playbook
  that cannot be read for its survey counts as one without (`survey_apply.go:94`). A cancelled run reports a timeout. Two runs
  may share a machine.

## 7. What is not modelled, and why

* Inside the modelled parts: progress and lists of tasks; a second attempt that loads the first one's log lines;
  redaction; the bytes of a console or of a file; XML, cloud-init and provisioning after a creation; interfaces and
  sizes of machines; building images; the catalogue of apps; exports and templates of the designer; descriptions
  and contact data of users; the terminal's size and key stream at the jump server.
* Parts that keep no state across steps or have one statement per request: libvirt's XML and networks, traffic maps,
  IP addresses (computed for each request from leases and reservations), docker pages and builds, metrics, monitoring
  targets, the audit row written after a request, sealing of secrets, hosts and host groups, AI and log proxies,
  announcements. No property of theirs relates two steps or two actors.
* The web frontend, scripts and deployment files: the environment of the backend.

PROJECT.json lists every component with its status and reason.

## 8. The plan

Order of work, most important behaviour first. The models are done; proofs remain.

1. `TaskManager`, `TaskLedger`, `TaskManagerProofs`. 2. `TaskLog`. 3. `VMLifecycle`. 4. `Sessions`, `SessionsProofs`.
5. `Stacks`, `StacksProofs`. 6. `Cron`. 7. `Access`, `Jump`. 8. `Disks`, `Downloads`, `Offline`, `Machines`.
9. `Designer`, `Watch`, `Imports`, `Shells`, `Ansible`.
10. `NothingLost` of the queue, `VMLifecycleProofs`, `AnsibleProofs`, `ShellsProofs`, `WatchProofs`, `ImportsProofs`.
11. `TaskLogProofs`, `HostsProofs`; the proofs of services in one module.
12. The history of stacks in `StacksProofs`.
13. `VolumesSound` of machines in `VMLifecycleProofs`. Not proved: `Converged` of the designer.
