---------------------------- MODULE VMLifecycle ----------------------------
(***************************************************************************)
(* The operations on virtual machines that can meet one another: the       *)
(* requests of handler/vm*.go and handler/image*.go with guardVMIdle and   *)
(* vmlock, the executors of service/tasks/vm_*.go and image_finalize.go,   *)
(* and the three stores they touch without a common transaction: rows in   *)
(* the database, domains in libvirt, volumes in a storage pool.            *)
(*                                                                         *)
(* A call is one HTTP request with the task it submits.  A database        *)
(* statement and a libvirt call are one step each.  The machine a call     *)
(* creates is named by the call (its id and its UUID); a volume by the     *)
(* machine name and the suffix its creator gives it.                       *)
(***************************************************************************)
EXTENDS Naturals, FiniteSets

CONSTANTS
  Calls,       \* bound: the requests of a behaviour
  Old,         \* a machine that exists at the start
  Names,       \* machine names
  OldName,     \* the name of Old
  SlowWorkers, \* slowWorkerCount
  Mixes,       \* scenarios: the kinds of request that users issue together
  TwoDisks,    \* whether machines have a second disk
  PoolListed,  \* whether ensureDiskExclusive looks into the pool
  MaxFaults,   \* bound: failed database statements and libvirt calls
  None

VMs     == Calls \cup {Old}
Volumes == Names \X {"", "-diska", "-sys", "-d2"}

Kinds == {"create", "clone", "image", "delete", "cleanup", "finalize",
          "restart", "restore", "purge"}
Submitted == {"create", "clone", "image", "delete", "cleanup", "finalize"}
Locks   == {"clone", "delete", "restart", "restore", "purge"}
Makes   == {"create", "clone", "image"}

\* Where the disk of a new machine comes from: a new volume, a linked clone of an image,
\* or a file that exists, which is an image when its pool is not found.
Sources == {"new", "image", "file"}

(* A mix: the kinds of request, whether requests for one machine overlap   *)
(* (with one another in their handlers, and with the task that makes it),  *)
(* whether a name in use may be chosen, whether the machine at the start   *)
(* has a linked clone, and what disks create_vm is asked for.              *)
ASSUME MixAssumption == Mixes \subseteq
  [kinds : SUBSET Kinds, overlap : BOOLEAN, reuse : BOOLEAN, cloned : BOOLEAN, sources : SUBSET Sources]
ASSUME BoundAssumption ==
  /\ SlowWorkers \in Nat \ {0} /\ MaxFaults \in Nat
  /\ TwoDisks \in BOOLEAN /\ PoolListed \in BOOLEAN /\ OldName \in Names
ASSUME NoneAssumption == None \notin VMs \cup Names \cup Volumes
ASSUME OldAssumption == Old \notin Calls

\* Scenarios in which requests take turns, as far as the properties need it.
\* A name in use is not chosen again; where requests overlap, machines are only removed; and
\* machines are not finalized, deleted and restored side by side (the task that finalizes a
\* machine is submitted without guardVMIdle, and may take the row that a deletion has left in
\* the recycle bin from under the restore).
SerialMixes ==
  \A m \in Mixes :
    /\ ~m.reuse
    /\ m.overlap => m.kinds \subseteq {"delete", "cleanup", "purge"}
    /\ ~({"delete", "finalize", "restore"} \subseteq m.kinds)

\* A clean-up, which looks first and removes later, does not meet those who make or restore
\* machines; and machines are not deleted, turned into templates and cloned from them side by
\* side (a deletion decides once which templates it keeps); and no machine is given a file
\* that is another's.
DiskMixes ==
  \A m \in Mixes :
    /\ "file" \notin m.sources
    /\ "cleanup" \in m.kinds => m.kinds \cap (Makes \cup {"restore"}) = {}
    /\ {"delete", "finalize"} \subseteq m.kinds => "image" \notin m.kinds \cup m.sources

VARIABLES
  mix,     \* the scenario, chosen at the start
  row,     \* the vms table: name, life, and the disks of the archived definition
  dom,     \* libvirt: for each name the UUID and the disks of its domain
  vols,    \* the volumes of the pool
  backing, \* the backing file of each volume
  images,  \* paths in the images table
  lock,    \* machines whose vmlock is held
  call,    \* requests and tasks: where each is, and its arguments
  loc,     \* their locals: disks read, volumes to keep or to visit
  failures   \* failures so far

vars == <<mix, row, dom, vols, backing, images, lock, call, loc, failures>>

HandlerPcs == {"found", "free", "held", "unlisted", "restored", "purging",
               "purgeable", "undefining", "erasing"}
TaskPcs == {"queued",
            "newvol", "newrow", "newdef",
            "source", "clonevol", "clonedef", "clonerow",
            "imgvol", "imgdef", "imgrow",
            "delread", "undefine", "guard", "delvols", "delrow",
            "pool", "refs", "doms", "sweep",
            "finread", "sysprep", "finundef", "finrow", "register"}
Pcs == HandlerPcs \cup TaskPcs \cup {"idle", "done"}

Handling(c) == call[c].pc \in HandlerPcs
Tasked(c)   == call[c].pc \in TaskPcs
Executing(c) == call[c].pc \in TaskPcs \ {"queued"}

TypeOK ==
  /\ mix \in Mixes
  /\ \A v \in VMs : /\ row[v].name \in Names \cup {None}
                    /\ row[v].life \in {"none", "live", "bin", "gone"}
                    /\ row[v].archive \subseteq Volumes
  /\ \A n \in Names : dom[n].uuid \in VMs \cup {None} /\ dom[n].disks \subseteq Volumes
  /\ vols \subseteq Volumes /\ images \subseteq Volumes
  /\ backing \in [Volumes -> Volumes \cup {None}]
  /\ lock \subseteq VMs
  /\ \A c \in Calls : /\ call[c].pc \in Pcs /\ call[c].kind \in Kinds \cup {None}
                      /\ call[c].vm \in VMs \cup {None} /\ call[c].name \in Names \cup {None}
                      /\ loc[c].disks \subseteq Volumes /\ loc[c].set \subseteq Volumes
  /\ lock = {call[c].vm : c \in {d \in Calls : call[d].pc \in HandlerPcs \ {"found", "free"}}}
  /\ failures \in 0..MaxFaults

\* The disks of a machine with its system disk s
Disks(n, s) == {<<n, s>>} \cup (IF TwoDisks THEN {<<n, "-d2">>} ELSE {})

NoDomain == [uuid |-> None, disks |-> {}]
NoRow    == [name |-> None, life |-> "none", archive |-> {}]

\* The machine at the start, with a linked clone of its disk that no machine uses
Init ==
  /\ mix \in Mixes
  /\ row = [v \in VMs |-> IF v = Old THEN [name |-> OldName, life |-> "live", archive |-> {}]
                                     ELSE NoRow]
  /\ dom = [n \in Names |-> IF n = OldName THEN [uuid |-> Old, disks |-> Disks(n, "")]
                                           ELSE NoDomain]
  /\ LET child == {n \in Names : mix.cloned /\ n # OldName} \X {"-sys"}
     IN /\ vols = Disks(OldName, "") \cup child
        /\ backing = [x \in Volumes |-> IF x \in child THEN <<OldName, "">> ELSE None]
  /\ images = {}
  /\ lock = {}
  /\ call = [c \in Calls |-> [pc |-> "idle", kind |-> None, vm |-> None, name |-> None]]
  /\ loc = [c \in Calls |-> [disks |-> {}, set |-> {}]]
  /\ failures = 0

------------------------------------------------------------------------------
Goto(c, pc) == call' = [call EXCEPT ![c].pc = pc]

Failing == failures < MaxFaults /\ failures' = failures + 1

\* ListBackingRefs, and what the images table and the domains refer to
Parents == {backing[x] : x \in vols} \ {None}
Mounted == UNION {dom[n].disks : n \in Names}

\* The unfinished tasks whose vm_id is v: clone_vm is filed under its source
TaskFor(c, v) == Tasked(c) /\ call[c].vm = v

Used(n) == \/ \E v \in VMs : row[v].name = n
           \/ \E c \in Calls : call[c].name = n
           \/ \E x \in vols : x[1] = n

------------------------------------------------------------------------------
(* The handlers.  findVM, First and findDeletedVM read the row before any  *)
(* guard; the handlers that lock then ask guardVMIdle, and only then try   *)
(* the lock.  create_vm, clone_image_vm, cleanup_volumes and finalize      *)
(* submit their task with neither.                                         *)

\* Without overlap, users address a machine once it is made and one after another
Turn(v) == /\ \A d \in Calls : Handling(d) => call[d].vm # v
           /\ v \in Calls => call[v].pc = "done"

Arrive(c) ==
  /\ call[c].pc = "idle"
  /\ \E k \in mix.kinds, v \in VMs \cup {None}, n \in Names \cup {None} :
       /\ IF k \in {"create", "image", "cleanup"} THEN v = None
          ELSE v # None /\ row[v].life = (IF k \in {"restore", "purge"} THEN "bin" ELSE "live")
       /\ IF k \in Makes THEN n # None /\ (mix.reuse \/ ~Used(n)) ELSE n = None
       /\ (k = "image") => images # {}
       /\ v = None \/ mix.overlap \/ Turn(v)
       /\ call' = [call EXCEPT ![c] =
            [pc |-> IF k \in Locks THEN "found" ELSE "queued",
             kind |-> k, vm |-> v, name |-> n]]
  /\ UNCHANGED <<mix, row, dom, vols, backing, images, lock, loc, failures>>

GuardVMIdle(c) ==
  /\ call[c].pc = "found"
  /\ Goto(c, IF \E d \in Calls : TaskFor(d, call[c].vm) THEN "done" ELSE "free")
  /\ UNCHANGED <<mix, row, dom, vols, backing, images, lock, loc, failures>>

LockVM(c) ==
  /\ call[c].pc = "free"
  /\ IF call[c].vm \in lock
     THEN Goto(c, "done") /\ UNCHANGED lock
     ELSE Goto(c, "held") /\ lock' = lock \cup {call[c].vm}
  /\ UNCHANGED <<mix, row, dom, vols, backing, images, loc, failures>>

Release(c) == lock' = lock \ {call[c].vm}

\* Tasks.Submit and the deferred release; what Submit refuses is TaskManager's
SubmitTask(c) ==
  /\ call[c].pc = "held" /\ call[c].kind \in {"clone", "delete"}
  /\ Goto(c, "queued") /\ Release(c)
  /\ UNCHANGED <<mix, row, dom, vols, backing, images, loc, failures>>

\* StartVM and RestartVM: one libvirt call under the lock
RebootDomain(c) ==
  /\ call[c].pc = "held" /\ call[c].kind = "restart"
  /\ Goto(c, "done") /\ Release(c)
  /\ UNCHANGED <<mix, row, dom, vols, backing, images, loc, failures>>

------------------------------------------------------------------------------
(* Restore: the count of live rows of the same name, the row, the domain.  *)

RestoreCheck(c) ==
  /\ call[c].pc = "held" /\ call[c].kind = "restore"
  /\ LET v == call[c].vm IN
     IF \E u \in VMs \ {v} : row[u].name = row[v].name /\ row[u].life = "live"
     THEN Goto(c, "done") /\ Release(c)
     ELSE Goto(c, "unlisted") /\ UNCHANGED lock
  /\ UNCHANGED <<mix, row, dom, vols, backing, images, loc, failures>>

\* deleted_at is cleared; the row read by findDeletedVM keeps the archive
RestoreRow(c) ==
  /\ call[c].pc = "unlisted"
  /\ \/ /\ Goto(c, "restored") /\ UNCHANGED <<lock, failures>>
        /\ row' = [row EXCEPT ![call[c].vm].life = IF @ = "gone" THEN @ ELSE "live"]
     \/ Failing /\ Goto(c, "done") /\ Release(c) /\ UNCHANGED row
  /\ UNCHANGED <<mix, dom, vols, backing, images, loc>>

\* The system disk by its three names, as far as one exists: systemDiskPath
NamedDisk(n) ==
  LET has(s) == <<n, s>> \in vols
  IN IF has("") THEN {<<n, "">>} ELSE IF has("-diska") THEN {<<n, "-diska">>}
     ELSE {<<n, "-sys">>} \cap vols

\* redefineRestoredVM: libvirt refuses a second definition of a name another machine has
Redefined(v, disks) ==
  LET n == row[v].name
  IN IF dom[n].uuid \notin {None, v} \/ disks = {} THEN dom[n] ELSE [uuid |-> v, disks |-> disks]

Archived(v) == IF row[v].archive # {} THEN row[v].archive ELSE NamedDisk(row[v].name)

\* A domain that is still there stays.  With a failure it is taken for absent, the archive is
\* refused and the named disk is tried, or nothing is defined; the row is restored all the same.
RestoreDomain(c) ==
  LET v == call[c].vm
      n == row[v].name
  IN /\ call[c].pc = "restored"
     /\ Goto(c, "done") /\ Release(c)
     /\ \/ /\ UNCHANGED failures
           /\ dom' = [dom EXCEPT ![n] = IF @.uuid = None THEN Redefined(v, Archived(v)) ELSE @]
        \/ /\ Failing
           /\ \E d \in {dom[n], Redefined(v, Archived(v)), Redefined(v, NamedDisk(n))} : dom' = [dom EXCEPT ![n] = d]
     /\ UNCHANGED <<mix, row, vols, backing, images, loc>>

------------------------------------------------------------------------------
(* Purge: with purge_volumes each of the three files is checked and        *)
(* removed in turn; then the domain of that name, then the row.            *)

PurgeStart(c) ==
  /\ call[c].pc = "held" /\ call[c].kind = "purge"
  /\ \/ Goto(c, "undefining") /\ UNCHANGED loc
     \/ /\ Goto(c, "purging")
        /\ loc' = [loc EXCEPT ![c].set =
             {x \in Volumes : x[1] = row[call[c].vm].name /\ x[2] # "-d2"}]
  /\ UNCHANGED <<mix, row, dom, vols, backing, images, lock, failures>>

\* purgeOneVolFile's four guards; a query that fails keeps the file
PurgeCheck(c) ==
  /\ call[c].pc = "purging"
  /\ \/ /\ loc[c].set \cap vols = {}
        /\ Goto(c, "undefining") /\ UNCHANGED <<loc, failures>>
     \/ \E x \in loc[c].set \cap vols :
          \/ /\ x \notin images \cup Parents \cup Mounted
             /\ Goto(c, "purgeable")
             /\ loc' = [loc EXCEPT ![c].disks = {x}, ![c].set = @ \ {x}]
             /\ UNCHANGED failures
          \/ /\ x \in images \cup Parents \cup Mounted \/ failures < MaxFaults
             /\ failures' = IF x \in images \cup Parents \cup Mounted THEN failures ELSE failures + 1
             /\ loc' = [loc EXCEPT ![c].set = @ \ {x}]
             /\ UNCHANGED call
  /\ UNCHANGED <<mix, row, dom, vols, backing, images, lock>>

PurgeRemove(c) ==
  /\ call[c].pc = "purgeable"
  /\ Goto(c, "purging") /\ vols' = vols \ loc[c].disks
  /\ UNCHANGED <<mix, row, dom, backing, images, lock, loc, failures>>

\* UndefineDomain addresses the domain by name
PurgeUndefine(c) ==
  /\ call[c].pc = "undefining"
  /\ \/ /\ Goto(c, "erasing") /\ UNCHANGED <<lock, failures>>
        /\ dom' = [dom EXCEPT ![row[call[c].vm].name] = NoDomain]
     \/ Failing /\ Goto(c, "done") /\ Release(c) /\ UNCHANGED dom
  /\ UNCHANGED <<mix, row, vols, backing, images, loc>>

PurgeRow(c) ==
  /\ call[c].pc = "erasing"
  /\ Goto(c, "done") /\ Release(c)
  /\ \/ row' = [row EXCEPT ![call[c].vm].life = "gone"] /\ UNCHANGED failures
     \/ Failing /\ UNCHANGED row
  /\ UNCHANGED <<mix, dom, vols, backing, images, loc>>

------------------------------------------------------------------------------
(* The executors, on the workers of the slow pool.                         *)

FirstStep(k) ==
  CASE k = "create" -> "newvol"  [] k = "clone"   -> "source" [] k = "image"    -> "imgvol"
    [] k = "delete" -> "delread" [] k = "cleanup" -> "pool"   [] k = "finalize" -> "finread"

Begin(c) ==
  /\ call[c].pc = "queued"
  /\ Cardinality({d \in Calls : Executing(d)}) < SlowWorkers
  /\ Goto(c, FirstStep(call[c].kind))
  /\ UNCHANGED <<mix, row, dom, vols, backing, images, lock, loc, failures>>

ListRow(c, n) == row' = [row EXCEPT ![c] = [name |-> n, life |-> "live", archive |-> {}]]

Define(n, d) == dom' = [dom EXCEPT ![n] = d]

(* execCreateVM: disks, row, domain; a name that libvirt knows turns the   *)
(* new row into one of the recycle bin.  What it made itself is removed    *)
(* again when it fails (loc.set), a file it was given (loc.disks) is not.  *)
GivenDisks(c, disks, made, next) ==
  Goto(c, next) /\ loc' = [loc EXCEPT ![c] = [disks |-> disks, set |-> made]]

\* CloneVolumeFromVol: fails without the parent or when the child exists
Link(c, parents, child, next) ==
  IF parents \subseteq vols /\ parents # {} /\ child \notin vols
  THEN /\ Goto(c, next) /\ vols' = vols \cup {child}
       /\ \E p \in parents : backing' = [backing EXCEPT ![child] = p]
  ELSE Goto(c, "done") /\ UNCHANGED <<vols, backing>>

NewVolume(c) ==
  LET new == Disks(call[c].name, "")
  IN /\ "new" \in mix.sources /\ UNCHANGED failures
     /\ IF new \cap vols # {} THEN Goto(c, "done") /\ UNCHANGED <<vols, backing, loc>>
        ELSE /\ GivenDisks(c, new, new, "newrow") /\ vols' = vols \cup new
             /\ backing' = [x \in Volumes |-> IF x \in new THEN None ELSE backing[x]]

OverlayVolume(c) ==
  LET child == <<call[c].name, "">>
  IN /\ "image" \in mix.sources /\ UNCHANGED failures
     /\ \E i \in images : Link(c, {i}, child, "newrow")
     /\ loc' = [loc EXCEPT ![c] = [disks |-> {child}, set |-> {child}]]

\* A file is taken as it is, whatever else refers to it; an image is such a file when the
\* query for its pool fails.
ExistingFile(c) ==
  /\ "file" \in mix.sources
  /\ \E x \in vols \cup images :
       /\ GivenDisks(c, {x}, {}, "newrow")
       /\ IF x \in images \cap vols THEN Failing ELSE UNCHANGED failures
  /\ UNCHANGED <<vols, backing>>

CreateVols(c) ==
  /\ call[c].pc = "newvol"
  /\ NewVolume(c) \/ OverlayVolume(c) \/ ExistingFile(c)
  /\ UNCHANGED <<mix, row, dom, images, lock>>

CreateRow(c) ==
  /\ call[c].pc = "newrow"
  /\ \/ Goto(c, "newdef") /\ ListRow(c, call[c].name) /\ UNCHANGED <<vols, failures>>
     \/ /\ Failing /\ Goto(c, "done") /\ UNCHANGED row
        /\ vols' = vols \ loc[c].set
  /\ UNCHANGED <<mix, dom, backing, images, lock, loc>>

CreateDefine(c) ==
  /\ call[c].pc = "newdef" /\ Goto(c, "done")
  /\ LET n == call[c].name IN
     \/ /\ dom[n].uuid = None
        /\ Define(n, [uuid |-> c, disks |-> loc[c].disks])
        /\ UNCHANGED <<row, vols, failures>>
     \/ /\ IF dom[n].uuid # None THEN UNCHANGED failures ELSE Failing
        /\ row' = [row EXCEPT ![c].life = "bin"]
        /\ vols' = vols \ loc[c].set
        /\ UNCHANGED dom
  /\ UNCHANGED <<mix, backing, images, lock, loc>>

(* execCloneVM: the source's definition, a linked clone of its system      *)
(* disk, the domain, the row.                                              *)
SystemDisk(disks) == {x \in disks : x[2] # "-d2"}

CloneSource(c) ==
  /\ call[c].pc = "source"
  /\ LET v == call[c].vm IN
     IF row[v].life = "live" /\ dom[row[v].name].uuid # None
     THEN Goto(c, "clonevol") /\ loc' = [loc EXCEPT ![c].disks = dom[row[v].name].disks]
     ELSE Goto(c, "done") /\ UNCHANGED loc
  /\ UNCHANGED <<mix, row, dom, vols, backing, images, lock, failures>>

CloneVolume(c) ==
  /\ call[c].pc = "clonevol"
  /\ Link(c, SystemDisk(loc[c].disks), <<call[c].name, "-diska">>, "clonedef")
  /\ UNCHANGED <<mix, row, dom, images, lock, loc, failures>>

\* buildCloneSpec replaces the system disk and copies the other disks' sources
CloneSpec(c) ==
  [uuid  |-> c,
   disks |-> {<<call[c].name, "-diska">>} \cup (loc[c].disks \ SystemDisk(loc[c].disks))]

\* A definition that fails leaves the new volume behind
CloneDefine(c) ==
  /\ call[c].pc = "clonedef"
  /\ LET n == call[c].name
     IN \/ /\ dom[n].uuid = None
           /\ Goto(c, "clonerow") /\ Define(n, CloneSpec(c))
           /\ UNCHANGED failures
        \/ /\ IF dom[n].uuid # None THEN UNCHANGED failures ELSE Failing
           /\ Goto(c, "done") /\ UNCHANGED dom
  /\ UNCHANGED <<mix, row, vols, backing, images, lock, loc>>

\* Mutant: a row that cannot be written leaves the domain
CloneRowUndone(c) ==
  /\ call[c].pc = "clonerow" /\ Goto(c, "done")
  /\ \/ ListRow(c, call[c].name) /\ UNCHANGED failures
     \/ Failing /\ UNCHANGED row
  /\ UNCHANGED <<mix, dom, vols, backing, images, lock, loc>>

\* A row that cannot be written takes every disk of the new domain with it
CloneRow(c) ==
  /\ call[c].pc = "clonerow" /\ Goto(c, "done")
  /\ \/ ListRow(c, call[c].name) /\ UNCHANGED <<dom, vols, failures>>
     \/ /\ Failing /\ UNCHANGED row
        /\ vols' = vols \ dom[call[c].name].disks
        /\ Define(call[c].name, NoDomain)
  /\ UNCHANGED <<mix, backing, images, lock, loc>>

(* execCloneImageVM: cleanup removes the volume and undefines the domain   *)
(* of that name.                                                           *)
ImageVolume(c) ==
  /\ call[c].pc = "imgvol"
  /\ \E i \in images : Link(c, {i}, <<call[c].name, "-sys">>, "imgdef")
  /\ UNCHANGED <<mix, row, dom, images, lock, loc, failures>>

Cleanup(n) == vols' = vols \ {<<n, "-sys">>} /\ Define(n, NoDomain)

ImageDefine(c) ==
  /\ call[c].pc = "imgdef"
  /\ LET n == call[c].name IN
     \/ /\ dom[n].uuid = None
        /\ Goto(c, "imgrow") /\ Define(n, [uuid |-> c, disks |-> {<<n, "-sys">>}])
        /\ UNCHANGED <<vols, failures>>
     \/ /\ IF dom[n].uuid # None THEN UNCHANGED failures ELSE Failing
        /\ Goto(c, "done") /\ Cleanup(n)
  /\ UNCHANGED <<mix, row, backing, images, lock, loc>>

ImageRow(c) ==
  /\ call[c].pc = "imgrow" /\ Goto(c, "done")
  /\ \/ ListRow(c, call[c].name) /\ UNCHANGED <<dom, vols, failures>>
     \/ Failing /\ Cleanup(call[c].name) /\ UNCHANGED row
  /\ UNCHANGED <<mix, backing, images, lock, loc>>

------------------------------------------------------------------------------
(* execDeleteVM: definition and archive, undefine, the guard's data once,  *)
(* the volumes, the row.                                                   *)

\* A definition that cannot be read names no disks and is not archived, one that cannot be
\* archived leaves the archive; the deletion goes on.
DeleteRead(c) ==
  /\ call[c].pc = "delread"
  /\ LET v == call[c].vm
         d == dom[row[v].name]
         reads(disks) == loc' = [loc EXCEPT ![c].disks = disks] /\ Goto(c, "undefine")
     IN \/ row[v].life # "live" /\ Goto(c, "done") /\ UNCHANGED <<row, loc, failures>>
        \/ /\ row[v].life = "live" /\ reads(d.disks)
           /\ \/ /\ row' = [row EXCEPT ![v].archive = IF d.uuid # None THEN d.disks ELSE @]
                 /\ UNCHANGED failures
              \/ Failing /\ UNCHANGED row
        \/ row[v].life = "live" /\ reads({}) /\ Failing /\ UNCHANGED row
  /\ UNCHANGED <<mix, dom, vols, backing, images, lock>>

\* A domain that is already gone is tolerated, any other failure ends the task
DeleteUndefine(c) ==
  /\ call[c].pc = "undefine"
  /\ \/ Goto(c, "guard") /\ Define(row[call[c].vm].name, NoDomain) /\ UNCHANGED failures
     \/ Failing /\ Goto(c, "done") /\ UNCHANGED dom
  /\ UNCHANGED <<mix, row, vols, backing, images, lock, loc>>

\* Mutant: the guard without the backing references
KeepImages == images

\* NewVolumeGuard: the volumes to keep, all of them when its data cannot be read
KeepReason == images \cup Parents

DeleteGuard(c) ==
  /\ call[c].pc = "guard" /\ Goto(c, "delvols")
  /\ \/ loc' = [loc EXCEPT ![c].set = KeepReason] /\ UNCHANGED failures
     \/ Failing /\ loc' = [loc EXCEPT ![c].set = Volumes]
  /\ UNCHANGED <<mix, row, dom, vols, backing, images, lock>>

DeleteVolumes(c) ==
  /\ call[c].pc = "delvols" /\ Goto(c, "delrow")
  /\ LET n == row[call[c].vm].name
         named == {<<n, "">>, <<n, "-diska">>, <<n, "-sys">>}
     IN vols' = vols \ ((loc[c].disks \cup named) \ loc[c].set)
  /\ UNCHANGED <<mix, row, dom, backing, images, lock, loc, failures>>

\* A row that cannot be written fails the task; deleting again resumes here
DeleteRow(c) ==
  /\ call[c].pc = "delrow" /\ Goto(c, "done")
  /\ \/ /\ row' = [row EXCEPT ![call[c].vm].life = IF @ = "gone" THEN @ ELSE "bin"]
        /\ UNCHANGED failures
     \/ Failing /\ UNCHANGED row
  /\ UNCHANGED <<mix, dom, vols, backing, images, lock, loc>>

------------------------------------------------------------------------------
(* execCleanupVolumes: the pool, then each kind of reference, then the     *)
(* volumes that had none.  A query that fails ends the task.               *)

CleanupRead(c, at, next, gone) ==
  /\ call[c].pc = at
  /\ \/ /\ Goto(c, next) /\ UNCHANGED failures
        /\ loc' = [loc EXCEPT ![c].set = @ \ gone]
     \/ Failing /\ Goto(c, "done") /\ UNCHANGED loc
  /\ UNCHANGED <<mix, row, dom, vols, backing, images, lock>>

CleanupPool(c) ==
  /\ call[c].pc = "pool" /\ Goto(c, "refs")
  /\ loc' = [loc EXCEPT ![c].set = vols]
  /\ UNCHANGED <<mix, row, dom, vols, backing, images, lock, failures>>

CleanupRefs(c)    == CleanupRead(c, "refs", "doms", Parents)
CleanupDomains(c) == CleanupRead(c, "doms", "sweep", Mounted)

CleanupSweep(c) ==
  /\ call[c].pc = "sweep" /\ Goto(c, "done")
  /\ vols' = vols \ (loc[c].set \ images)
  /\ UNCHANGED <<mix, row, dom, backing, images, lock, loc, failures>>

------------------------------------------------------------------------------
(* execImageFinalize: one disk, used by nobody else; virt-sysprep rewrites *)
(* it; the domain and the row go; the disk becomes a template.             *)

Exclusive(v, x) ==
  /\ \A n \in Names \ {row[v].name} : x \notin dom[n].disks
  /\ PoolListed => x \notin Parents

FinalizeRead(c) ==
  /\ call[c].pc = "finread"
  /\ LET v == call[c].vm
         d == dom[row[v].name]
     IN IF /\ row[v].life = "live" /\ d.uuid # None /\ Cardinality(d.disks) = 1
           /\ \A x \in d.disks : Exclusive(v, x)
        THEN Goto(c, "sysprep") /\ loc' = [loc EXCEPT ![c].disks = d.disks]
        ELSE Goto(c, "done") /\ UNCHANGED loc
  /\ UNCHANGED <<mix, row, dom, vols, backing, images, lock, failures>>

Sysprep(c) ==
  /\ call[c].pc = "sysprep"
  /\ \/ Goto(c, "finundef") /\ UNCHANGED failures
     \/ Failing /\ Goto(c, "done")
  /\ UNCHANGED <<mix, row, dom, vols, backing, images, lock, loc>>

FinalizeUndefine(c) ==
  /\ call[c].pc = "finundef"
  /\ LET n == row[call[c].vm].name IN
     \/ /\ dom[n].uuid # None /\ UNCHANGED failures
        /\ Goto(c, "finrow") /\ Define(n, NoDomain)
     \/ /\ IF dom[n].uuid = None THEN UNCHANGED failures ELSE Failing
        /\ Goto(c, "done") /\ UNCHANGED dom
  /\ UNCHANGED <<mix, row, vols, backing, images, lock, loc>>

FinalizeRow(c) ==
  /\ call[c].pc = "finrow"
  /\ \/ /\ Goto(c, "register") /\ UNCHANGED failures
        /\ row' = [row EXCEPT ![call[c].vm].life = "gone"]
     \/ Failing /\ Goto(c, "done") /\ UNCHANGED row
  /\ UNCHANGED <<mix, dom, vols, backing, images, lock, loc>>

RegisterImage(c) ==
  /\ call[c].pc = "register" /\ Goto(c, "done")
  /\ \/ /\ loc[c].disks \subseteq vols
        /\ images' = images \cup loc[c].disks /\ UNCHANGED failures
     \/ /\ IF loc[c].disks \subseteq vols THEN Failing ELSE UNCHANGED failures
        /\ UNCHANGED images
  /\ UNCHANGED <<mix, row, dom, vols, backing, lock, loc>>

------------------------------------------------------------------------------
Handler(c) ==
  \/ Arrive(c) \/ GuardVMIdle(c) \/ LockVM(c) \/ SubmitTask(c) \/ RebootDomain(c)
  \/ RestoreCheck(c) \/ RestoreRow(c) \/ RestoreDomain(c)
  \/ PurgeStart(c) \/ PurgeCheck(c) \/ PurgeRemove(c) \/ PurgeUndefine(c) \/ PurgeRow(c)

Executor(c) ==
  \/ Begin(c)
  \/ CreateVols(c) \/ CreateRow(c) \/ CreateDefine(c)
  \/ CloneSource(c) \/ CloneVolume(c) \/ CloneDefine(c) \/ CloneRow(c)
  \/ ImageVolume(c) \/ ImageDefine(c) \/ ImageRow(c)
  \/ DeleteRead(c) \/ DeleteUndefine(c) \/ DeleteGuard(c) \/ DeleteVolumes(c) \/ DeleteRow(c)
  \/ CleanupPool(c) \/ CleanupRefs(c) \/ CleanupDomains(c) \/ CleanupSweep(c)
  \/ FinalizeRead(c) \/ Sysprep(c) \/ FinalizeUndefine(c) \/ FinalizeRow(c) \/ RegisterImage(c)

Next == \E c \in Calls : Handler(c) \/ Executor(c)

Spec == Init /\ [][Next]_vars

------------------------------------------------------------------------------
(* Properties *)

\* What guardVMIdle says it blocks ("if delete_vm is running now, a reboot is sent to a domain
\* that is being undefined"), and vmlock says of the two of them ("they complement one another"):
\* while a restart is about to reboot a machine under its lock, no executor is deleting that
\* machine.  It is violated, since the guard is asked before the lock is taken.
PowerExcluded ==
  \A c, d \in Calls :
    /\ call[c].kind = "restart" /\ call[c].pc = "held"
    /\ call[d].kind = "delete" /\ call[d].vm = call[c].vm
    => ~Tasked(d)

\* The backing chain: the backing file of every volume exists, whatever deletions,
\* purges and clean-ups run beside the clones (KeepReason, purgeOneVolFile).
ParentKept == \A x \in vols : backing[x] # None => backing[x] \in vols

\* Files that create_vm was given by their path, with no check of what else refers to them
GivenFiles == UNION {loc[c].disks \ loc[c].set : c \in {d \in Calls : call[d].kind = "create"}}

\* No step removes a volume that a domain mounts after that step, but for a file some machine
\* was given (execDeleteVM, purgeOneVolFile, execCleanupVolumes and the roll-backs of the clones).
MountedKept ==
  [][\A x \in vols \ vols' : \A n \in Names : x \in dom'[n].disks => x \in GivenFiles]_vars

\* No two domains mount one volume, so no two machines fight for a qcow2 write lock, but for a
\* file some machine was given (execCreateVM makes linked clones for that reason, buildCloneSpec, Restore).
DisksUnshared ==
  \A m, n \in Names : m # n => \A x \in dom[m].disks \cap dom[n].disks : x \in GivenFiles

Settled == \A c \in Calls : ~Handling(c) /\ ~Tasked(c)

\* When nothing is at work, every domain belongs to a live row of that name, and
\* without failures every live row has its domain (the roll-backs of the executors,
\* Restore, Purge).
RowsMatchDomains ==
  Settled =>
    /\ \A n \in Names : dom[n].uuid # None =>
         row[dom[n].uuid].life = "live" /\ row[dom[n].uuid].name = n
    /\ (failures = 0) => \A v \in VMs : row[v].life = "live" => dom[row[v].name].uuid = v

\* A template never shares its disk with a machine that was not given it: the domain is gone
\* before the disk is registered, and Restore cannot bring it back (execImageFinalize, step 8).
TemplateUnshared == images \cap Mounted \subseteq GivenFiles

\* What the volumes and the domains say of each other, but for the files a machine was given by
\* their path: no disk is shared, no chain is broken, no template is mounted and no mounted volume
\* removed, whatever fails.  It is said of scenarios in which the requests for one machine take
\* turns: requests that cross between guard and lock break it (vm_lifecycle.go:243), and so does
\* a machine with two disks that is cloned (clone.go:237).
VolumesSound == [](DisksUnshared /\ ParentKept /\ TemplateUnshared) /\ MountedKept
=============================================================================
