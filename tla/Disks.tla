------------------------------- MODULE Disks -------------------------------
(***************************************************************************)
(* Power, disks, snapshots, volumes and images, as the handlers serve them *)
(* side by side (handler/vm_power.go, vm_devices.go, vm_snapshot.go,       *)
(* vm_boot.go, vm_spec.go, vm_xml.go, storage.go, storage_refs.go,         *)
(* image_manage.go over service/virt).                                     *)
(*                                                                         *)
(* A domain has what its qemu holds (live) and what it will start with     *)
(* (conf); which of the two a call reads or writes is what matters here.   *)
(* A volume is a number, in the order of the names quick attach tries.     *)
(***************************************************************************)
EXTENDS Integers, Sequences, FiniteSets, SequencesExt, FiniteSetsExt, Functions

CONSTANTS
    Vms,        \* machines, each with a domain of its name
    Vols,       \* names a volume may have in the pool
    Handlers,   \* requests served side by side
    DiskMixes       \* scenarios, one is drawn at Init

ASSUME DisksAssumption == Vols \subseteq Nat \ {0} /\ "" \notin Vms

NoVol == 0
Targets == {"vda", "vdb", "cd"}         \* two disks and a drive for installation media
Empty == [t \in Targets |-> NoVol]
Unmounted == [on |-> FALSE, rw |-> FALSE]

VARIABLES
    dom,        \* libvirt's domains: [st, live, conf]
    vol,        \* the pool's files: [there, base, file], base is the backing file, file see Downloads
    image,      \* paths that a row of images names
    snap,       \* machines with a snapshot, and what it would bring back
    stopping,   \* machines with a stop_vm task that has not ended
    locked,     \* vmlock
    mount,      \* offlineMounts: the registry of the offline channel
    hand,       \* the handlers at work
    deeds,       \* requests that may still come
    chances,       \* queries and calls that may still fail
    fresh       \* uses of a volume that began while a handler worked (not in the code)

disksVars == <<dom, vol, image, snap, stopping, locked, mount, hand, deeds, chances, fresh>>
machine == <<dom, snap, stopping, mount>>
storage == <<vol, image>>

Deed == [op |-> "none", v |-> "", t |-> "vda", x |-> NoVol, wipe |-> FALSE, rw |-> FALSE]
AtRest == [at |-> "free", q |-> Deed, x |-> NoVol, checks |-> <<>>, used |-> FALSE, blind |-> FALSE]
Step(h, place) == hand' = [hand EXCEPT ![h].at = place]
\* The answer; release() is deferred, so it comes with it.
Reply(h) ==
    /\ hand' = [hand EXCEPT ![h] = AtRest]
    /\ locked' = locked \ {hand[h].q.v}
Errs == chances > 0 /\ chances' = chances - 1

Running(v) == dom[v].st = "run"
Serving(v) == dom[v].st # "off"

----------------------------------------------------------------------------
(* What uses a volume, and what the queries report of it.                   *)

Held(v) == IF Serving(v) THEN dom[v].live ELSE dom[v].conf
Uses == {<<"disk", v, Held(v)[t]>> : v \in Vms, t \in {"vda", "vdb"}}
        \union {<<"row", x, x>> : x \in image}
        \union {<<"child", c, vol[c].base>> : c \in Vols}

\* Mutant: the persistent definition is asked for, as GetDomainXML does.
MountedInactive(x, but) == \E v \in Vms \ {but} : \E t \in {"vda", "vdb"} : dom[v].conf[t] = x

\* ListAllDomainDiskSources: the runtime XML of every domain, drives not counted.
Mounted(x, but) == \E v \in Vms \ {but} : \E t \in {"vda", "vdb"} : Held(v)[t] = x
Backs(x) == \E c \in Vols : vol[c].there /\ vol[c].base = x
Reported(check, x, but) ==
    CASE check = "images"  -> x \in image
      [] check = "backing" -> Backs(x)
      [] check = "mounts"  -> Mounted(x, but)

----------------------------------------------------------------------------
(* The way into a handler.                                                  *)

Locking == {"pause", "resume", "start", "stop", "restart", "attach", "quick", "detach", "spec", "xml", "eject",
            "snapshot", "forget", "revert"}
Handled == Locking \union {"volume", "image", "create", "register", "upload", "clone", "mount", "unmount"}
Checks(op) ==
    CASE op = "detach" -> <<"images", "backing", "mounts">>
      [] op = "volume" -> <<"backing", "mounts", "images">>
      [] op = "image"  -> <<"mounts", "backing">>
      [] OTHER         -> <<>>

\* What a request may name; a field its operation has no use for keeps the value of Deed.
Deeds == [op : Handled \union {"download", "signal", "kill"}, v : Vms \union {""}, t : Targets,
          x : Vols \union {NoVol}, wipe : BOOLEAN, rw : BOOLEAN]

\* A scenario begins with files of which downloads know nothing yet.
ASSUME MixesAssumption == \A scene \in DiskMixes :
    /\ scene.deeds \subseteq Deeds
    /\ \A q \in scene.deeds : q.op \in {"volume", "image", "download"} => q.x \in Vols
    /\ scene.vol \in [Vols -> [there : BOOLEAN, base : Vols \union {NoVol}, file : {NoVol}]]
    /\ \A x \in Vols : ~scene.vol[x].there => scene.vol[x].base = NoVol

Begin(h) == \E q \in deeds :
    /\ hand[h].at = "free" /\ q.op \in Handled
    /\ deeds' = deeds \ {q}
    /\ hand' = [hand EXCEPT ![h] = [AtRest EXCEPT !.q = q, !.x = q.x, !.checks = Checks(q.op),
                                                !.at = IF q.op \in Locking THEN "guard" ELSE q.op]]
    /\ UNCHANGED <<machine, storage, locked, chances>>

\* guardVMIdle refuses when it cannot ask.
Guard(h) ==
    /\ hand[h].at = "guard"
    /\ \/ hand[h].q.v \notin stopping /\ Step(h, "lock") /\ UNCHANGED chances
       \/ hand[h].q.v \in stopping /\ hand' = [hand EXCEPT ![h] = AtRest] /\ UNCHANGED chances
       \/ Errs /\ hand' = [hand EXCEPT ![h] = AtRest]
    /\ UNCHANGED <<machine, storage, locked, deeds>>

Lock(h) ==
    /\ hand[h].at = "lock"
    /\ IF hand[h].q.v \in locked
         THEN hand' = [hand EXCEPT ![h] = AtRest] /\ UNCHANGED locked
         ELSE locked' = locked \union {hand[h].q.v} /\ Step(h, hand[h].q.op)
    /\ UNCHANGED <<machine, storage, deeds, chances>>

\* libvirt may refuse any call that changes something.
CallPlaces == Locking \union {"plug", "unlink", "create", "clone"}
Refused(h) ==
    /\ hand[h].at \in CallPlaces
    /\ IF hand[h].at = "plug" /\ hand[h].q.op = "quick" THEN Step(h, "rollback") /\ UNCHANGED locked ELSE Reply(h)
    /\ Errs
    /\ UNCHANGED <<machine, storage, deeds>>

----------------------------------------------------------------------------
(* Power.                                                                   *)

\* A domain starts with what it is defined with, when all of it is there.
Startable(v) == \A t \in Targets : dom[v].conf[t] # NoVol => vol[dom[v].conf[t]].there
Started(v) == [dom[v] EXCEPT !.st = "run", !.live = dom[v].conf]

Power(h) ==
    LET v == hand[h].q.v
        op == hand[h].at
    IN
    /\ op \in {"pause", "resume", "start", "restart"}
    /\ dom' = [dom EXCEPT ![v] =
                 CASE op = "pause"  /\ @.st = "run"   -> [@ EXCEPT !.st = "paused"]
                   [] op = "resume" /\ @.st = "paused" -> [@ EXCEPT !.st = "run"]
                   [] op = "start"  /\ @.st = "off" /\ ~mount[v].rw /\ Startable(v) -> Started(v)
                   [] OTHER -> @]
    /\ Reply(h)
    /\ UNCHANGED <<storage, snap, stopping, mount, deeds, chances>>

\* The answer is given when the task is in its queue.
Stop(h) ==
    /\ hand[h].at = "stop"
    /\ stopping' = stopping \union {hand[h].q.v}
    /\ Reply(h)
    /\ UNCHANGED <<storage, dom, snap, mount, deeds, chances>>

Off(d) == [d EXCEPT !.st = "off", !.live = Empty]

\* execStopVM: the guest gives way or is destroyed; the task may fail as well.
TaskStops == \E v \in stopping :
    /\ stopping' = stopping \ {v}
    /\ \/ dom' = [dom EXCEPT ![v] = Off(@)] /\ UNCHANGED chances
       \/ Errs /\ UNCHANGED dom
    /\ UNCHANGED <<storage, snap, mount, locked, hand, deeds>>

----------------------------------------------------------------------------
(* Disks of a machine.                                                      *)

\* DetachDisk and AttachDisk reach the qemu of a running domain only.
Plugged(d, t, x) ==
    [d EXCEPT !.conf[t] = x, !.live[t] = IF d.st = "run" THEN x ELSE @]
Takes(v, t, x) ==
    /\ dom[v].conf[t] = NoVol
    /\ Running(v) => dom[v].live[t] = NoVol /\ vol[x].there

Attach(h) ==
    /\ hand[h].at = "attach"
    /\ IF vol[hand[h].x].there THEN Step(h, "plug") /\ UNCHANGED locked ELSE Reply(h)
    /\ UNCHANGED <<machine, storage, deeds, chances>>

Plug(h) ==
    LET q == hand[h].q IN
    /\ hand[h].at = "plug"
    /\ \/ /\ Takes(q.v, q.t, hand[h].x)
          /\ dom' = [dom EXCEPT ![q.v] = Plugged(@, q.t, hand[h].x)]
          /\ Reply(h)
       \/ /\ ~Takes(q.v, q.t, hand[h].x)
          /\ IF q.op = "quick" THEN Step(h, "rollback") /\ UNCHANGED locked ELSE Reply(h)
          /\ UNCHANGED dom
    /\ UNCHANGED <<storage, snap, stopping, mount, deeds, chances>>

\* The names in use are listed; a list that cannot be had counts as empty.
Quick(h) ==
    /\ hand[h].at = "quick" /\ \E x \in Vols : ~vol[x].there
    /\ \/ hand' = [hand EXCEPT ![h] = [@ EXCEPT !.at = "create", !.x = Min({x \in Vols : ~vol[x].there})]] /\ UNCHANGED chances
       \/ Errs /\ hand' = [hand EXCEPT ![h] = [@ EXCEPT !.at = "create", !.x = Min(Vols)]]
    /\ UNCHANGED <<machine, storage, locked, deeds>>

NoFile == [there |-> FALSE, base |-> NoVol, file |-> NoVol]
New(x, base) == vol' = [vol EXCEPT ![x] = [there |-> TRUE, base |-> base, file |-> NoVol]]

Create(h) ==
    /\ hand[h].at = "create"
    /\ IF vol[hand[h].x].there THEN Reply(h) /\ UNCHANGED vol
       ELSE /\ New(hand[h].x, NoVol)
            /\ IF hand[h].q.op = "quick" THEN Step(h, "plug") /\ UNCHANGED locked ELSE Reply(h)
    /\ UNCHANGED <<machine, image, deeds, chances>>

Gone(x) == vol' = [vol EXCEPT ![x] = NoFile]

Rollback(h) ==
    /\ hand[h].at = "rollback"
    /\ \/ Gone(hand[h].x) /\ UNCHANGED chances
       \/ Errs /\ UNCHANGED vol
    /\ Reply(h)
    /\ UNCHANGED <<machine, image, deeds>>

\* The source is looked up in the definition before the disk goes.
Detach(h) ==
    LET q == hand[h].q
        x == dom[q.v].conf[q.t]
    IN
    /\ hand[h].at = "detach"
    /\ IF x = NoVol \/ (Running(q.v) /\ dom[q.v].live[q.t] = NoVol)
         THEN Reply(h) /\ UNCHANGED dom
         ELSE /\ dom' = [dom EXCEPT ![q.v] = Plugged(@, q.t, NoVol)]
              /\ IF q.wipe /\ q.t # "cd" /\ vol[x].there
                   THEN hand' = [hand EXCEPT ![h] = [@ EXCEPT !.at = "look", !.x = x]] /\ UNCHANGED locked
                   ELSE Reply(h)
    /\ UNCHANGED <<storage, snap, stopping, mount, deeds, chances>>

\* UpdateVMSpec is refused to a running machine, UpdateVMXML is not; neither looks for the files.
Redefine(h) ==
    LET q == hand[h].q IN
    /\ hand[h].at \in {"spec", "xml"}
    /\ dom' = IF q.op = "spec" /\ Running(q.v) THEN dom ELSE [dom EXCEPT ![q.v].conf[q.t] = q.x]
    /\ Reply(h)
    /\ UNCHANGED <<storage, snap, stopping, mount, deeds, chances>>

\* Only the definition: the guest keeps the medium until it starts again.
Eject(h) ==
    /\ hand[h].at = "eject"
    /\ dom' = [dom EXCEPT ![hand[h].q.v].conf["cd"] = NoVol]
    /\ Reply(h)
    /\ UNCHANGED <<storage, snap, stopping, mount, deeds, chances>>

\* A snapshot brings back the state and the disks of its time.
Snapshot(h) ==
    LET q == hand[h].q IN
    /\ hand[h].at \in {"snapshot", "forget", "revert"}
    /\ snap' = CASE q.op = "snapshot" -> [snap EXCEPT ![q.v] = IF @ = {} THEN {dom[q.v]} ELSE @]
                 [] q.op = "forget"   -> [snap EXCEPT ![q.v] = {}]
                 [] q.op = "revert"   -> snap
    /\ dom' = IF q.op = "revert" /\ \E d \in snap[q.v] : \A t \in Targets : d.live[t] # NoVol => vol[d.live[t]].there
                THEN [dom EXCEPT ![q.v] = CHOOSE d \in snap[q.v] : TRUE] ELSE dom
    /\ Reply(h)
    /\ UNCHANGED <<storage, stopping, mount, deeds, chances>>

----------------------------------------------------------------------------
(* Deleting a volume: what is known of its uses is gathered, then judged.   *)

\* The listing of a pool that misses the volume lets DeleteVolume pass.
Volume(h) ==
    /\ hand[h].at = "volume"
    /\ \/ Step(h, "look") /\ UNCHANGED chances
       \/ Errs /\ hand' = [hand EXCEPT ![h] = [@ EXCEPT !.at = "look", !.checks = <<>>, !.blind = TRUE]]
    /\ UNCHANGED <<machine, storage, locked, deeds>>

Image(h) ==
    /\ hand[h].at = "image"
    /\ IF hand[h].x \in image THEN Step(h, "look") /\ UNCHANGED locked ELSE Reply(h)
    /\ UNCHANGED <<machine, storage, deeds, chances>>

Look(h) ==
    LET s == hand[h]
        check == Head(s.checks)
        but == IF s.q.op = "detach" THEN s.q.v ELSE ""
    IN
    /\ s.at = "look" /\ s.checks # <<>>
    /\ hand' = [hand EXCEPT ![h] = [s EXCEPT !.checks = Tail(@), !.used = @ \/ Reported(check, s.x, but)]]
    /\ UNCHANGED <<machine, storage, locked, deeds, chances>>

\* Only a detach that cannot read the images keeps the volume; imageRefs gives up at the mounts.
LookFails(h) ==
    LET s == hand[h] IN
    /\ s.at = "look" /\ s.checks # <<>> /\ Errs
    /\ IF s.q.op = "detach" /\ Head(s.checks) = "images" THEN Reply(h)
       ELSE /\ hand' = [hand EXCEPT ![h] = [s EXCEPT !.checks = IF s.q.op = "image" /\ Head(@) = "mounts" THEN <<>> ELSE Tail(@),
                                                    !.blind = TRUE]]
            /\ UNCHANGED locked
    /\ UNCHANGED <<machine, storage, deeds>>

Judge(h) ==
    LET s == hand[h] IN
    /\ s.at = "look" /\ s.checks = <<>>
    /\ IF s.used THEN Reply(h) ELSE Step(h, IF s.q.op = "image" THEN "drop" ELSE "unlink") /\ UNCHANGED locked
    /\ UNCHANGED <<machine, storage, deeds, chances>>

Drop(h) ==
    /\ hand[h].at = "drop"
    /\ image' = image \ {hand[h].x}
    /\ Step(h, "unlink")
    /\ UNCHANGED <<machine, vol, locked, deeds, chances>>

Unlink(h) ==
    /\ hand[h].at = "unlink"
    /\ Gone(hand[h].x) /\ Reply(h)
    /\ UNCHANGED <<machine, image, deeds, chances>>

----------------------------------------------------------------------------
(* New files and rows.                                                      *)

Register(h) ==
    /\ hand[h].at = "register"
    /\ IF vol[hand[h].x].there THEN Step(h, "row") /\ UNCHANGED locked ELSE Reply(h)
    /\ UNCHANGED <<machine, storage, deeds, chances>>

\* UploadImage writes the file under a name nobody has; a row that fails takes it along.
Upload(h) ==
    /\ hand[h].at = "upload"
    /\ ~vol[hand[h].x].there /\ New(hand[h].x, NoVol) /\ Step(h, "row")
    /\ UNCHANGED <<machine, image, locked, deeds, chances>>

Row(h) ==
    /\ hand[h].at = "row"
    /\ \/ image' = image \union {hand[h].x} /\ UNCHANGED <<vol, chances>>
       \/ Errs /\ UNCHANGED image /\ IF hand[h].q.op = "upload" THEN Gone(hand[h].x) ELSE UNCHANGED vol
    /\ Reply(h)
    /\ UNCHANGED <<machine, deeds>>

\* What a clone task leaves here: a child in its parent's pool.
Clone(h) ==
    LET base == hand[h].q.x
        child == Max(Vols)
    IN
    /\ hand[h].at = "clone"
    /\ IF vol[base].there /\ ~vol[child].there THEN New(child, base) ELSE UNCHANGED vol
    /\ Reply(h)
    /\ UNCHANGED <<machine, image, deeds, chances>>

----------------------------------------------------------------------------
DisksInit(scene) ==
    /\ dom = scene.dom /\ vol = scene.vol /\ image = scene.image
    /\ snap = [v \in Vms |-> {}] /\ stopping = {} /\ locked = {}
    /\ mount = [v \in Vms |-> Unmounted]
    /\ hand = [h \in Handlers |-> AtRest]
    /\ deeds = scene.deeds /\ chances = scene.chances
    /\ fresh = [h \in Handlers |-> {}]

\* Uses that began while a handler was at work.
Watch == fresh' = [h \in Handlers |-> IF hand'[h].at = "free" THEN {} ELSE fresh[h] \union (Uses' \ Uses)]

Enter(h) == Begin(h) \/ Guard(h) \/ Lock(h) \/ Refused(h)
Work(h) ==
    \/ Power(h) \/ Stop(h) \/ Attach(h) \/ Plug(h) \/ Quick(h) \/ Create(h) \/ Rollback(h) \/ Detach(h)
    \/ Redefine(h) \/ Eject(h) \/ Snapshot(h)
Erase(h) == Volume(h) \/ Image(h) \/ Look(h) \/ LookFails(h) \/ Judge(h) \/ Drop(h) \/ Unlink(h)
Found(h) == Register(h) \/ Upload(h) \/ Row(h) \/ Clone(h)

DisksNext == (\E h \in Handlers : Enter(h) \/ Work(h) \/ Erase(h) \/ Found(h)) \/ TaskStops

----------------------------------------------------------------------------
(* Properties.                                                              *)

Erases(h) == hand[h].at = "unlink" /\ vol[hand[h].x].there /\ ~vol'[hand[h].x].there

\* A request that could ask everything it had to deletes no volume whose use
\* by another machine, by a row of images or by a child has lasted since
\* before it came: what the definitions, snapshots and editors do meanwhile to
\* any machine does not hide such a use.  The guards of storage_refs.go,
\* vm_devices.go and image_manage.go.
KeptWhileUsed == [][\A h \in Handlers : Erases(h) /\ ~hand[h].blind =>
    \A u \in Uses \ fresh[h] : u[3] = hand[h].x => hand[h].q.op = "detach" /\ u[2] = hand[h].q.v]_disksVars

\* The volume a disk was detached with is not in a guest's hands when it is
\* deleted (handler/vm_devices.go:323).
NotUnderGuest == [][\A h \in Handlers : Erases(h) /\ hand[h].q.op = "detach" =>
    \A t \in Targets : dom[hand[h].q.v].live[t] # hand[h].x]_disksVars
=============================================================================
