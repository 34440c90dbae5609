------------------------------ MODULE Offline ------------------------------
(***************************************************************************)
(* The offline channel to the files of a machine that is off: guestmount   *)
(* in OfflineMount, fusermount in OfflineUnmount, the registry between     *)
(* them, the exit hook and the sweep at start                              *)
(* (handler/vm_files_offline.go, vm_files_offline_guard.go).               *)
(* The registry lives as long as the process, the mounts longer.           *)
(***************************************************************************)
EXTENDS Disks

VARIABLES
    fuse,       \* what the kernel has mounted at each machine's mountpoint, a layer over another
    up,         \* the process runs
    closing,    \* mountpoints the exit hook has yet to unmount, once it has begun
    late,       \* guestmounts that outlive the request or the process that ran them
    odd         \* machines with a layer nobody has entered (not in the code)

offline == <<fuse, up, closing, late, odd>>
host == <<up, closing, late>>

NotClosing == [v \in {} |-> TRUE]
ClosingNow == closing # NotClosing

\* The lock a writer has on the image shuts out everybody, readers shut out writers.
MayMount(v, rw) == ~Serving(v) /\ (rw => fuse[v] = <<>>) /\ \A i \in DOMAIN fuse[v] : ~fuse[v][i]
Mounts(v, rw) ==
    /\ fuse' = [fuse EXCEPT ![v] = Append(@, rw)]
    /\ odd' = IF fuse[v] # <<>> THEN odd \union {v} ELSE odd

----------------------------------------------------------------------------
\* A state that cannot be had does not stop the request; a list of file systems that cannot does.
MountAsk(h) ==
    LET v == hand[h].q.v IN
    /\ hand[h].at = "mount"
    /\ \/ Serving(v) /\ Reply(h) /\ UNCHANGED chances
       \/ ~Serving(v) /\ Step(h, "entered") /\ UNCHANGED <<chances, locked>>
       \/ Errs /\ Step(h, "entered") /\ UNCHANGED locked
    /\ UNCHANGED <<machine, storage, deeds, offline>>

Entered(h) ==
    /\ hand[h].at = "entered"
    /\ IF mount[hand[h].q.v].on THEN Reply(h) ELSE Step(h, "guestmount") /\ UNCHANGED locked
    /\ UNCHANGED <<machine, storage, deeds, chances, offline>>

\* The first disk of the definition.
Guestmount(h) ==
    LET q == hand[h].q IN
    /\ hand[h].at = "guestmount"
    /\ IF (\E t \in {"vda", "vdb"} : dom[q.v].conf[t] # NoVol) /\ MayMount(q.v, q.rw)
         THEN Mounts(q.v, q.rw) /\ Step(h, "enter") /\ UNCHANGED locked
         ELSE Reply(h) /\ UNCHANGED <<fuse, odd>>
    /\ UNCHANGED <<machine, storage, deeds, chances, host>>

\* The command fails, or its time is over and sudo is killed while guestmount goes on.
GuestmountFails(h) ==
    LET q == hand[h].q IN
    /\ hand[h].at = "guestmount" /\ Errs
    /\ late' \in {late, late \union {<<q.v, q.rw>>}}
    /\ Reply(h)
    /\ UNCHANGED <<machine, storage, deeds, fuse, up, closing, odd>>

LateMount == \E m \in late :
    /\ late' = late \ {m}
    /\ IF MayMount(m[1], m[2])
         THEN fuse' = [fuse EXCEPT ![m[1]] = Append(@, m[2])] /\ odd' = odd \union {m[1]}
         ELSE UNCHANGED <<fuse, odd>>
    /\ UNCHANGED <<machine, storage, locked, hand, deeds, chances, up, closing>>

Enters(h) ==
    LET q == hand[h].q IN
    /\ hand[h].at = "enter"
    /\ mount' = [mount EXCEPT ![q.v] = [on |-> TRUE, rw |-> q.rw]]
    /\ Reply(h)
    /\ UNCHANGED <<dom, snap, stopping, storage, deeds, chances, offline>>

----------------------------------------------------------------------------
\* The entry goes first.
Unmount(h) ==
    LET v == hand[h].q.v IN
    /\ hand[h].at = "unmount"
    /\ IF mount[v].on
         THEN /\ mount' = [mount EXCEPT ![v] = Unmounted]
              /\ LET ask == [hand[h].q EXCEPT !.rw = mount[v].rw] IN
                 hand' = [hand EXCEPT ![h] = [@ EXCEPT !.at = "fusermount", !.q = ask]]
              /\ UNCHANGED locked
         ELSE Reply(h) /\ UNCHANGED mount
    /\ UNCHANGED <<dom, snap, stopping, storage, deeds, chances, offline>>

\* The folder is removed after it (os.RemoveAll): an empty one, unless somebody has mounted there
\* again meanwhile, as root, where FUSE keeps the service's own user out.  That is left out.
Fusermount(h) ==
    LET v == hand[h].q.v IN
    /\ hand[h].at = "fusermount" /\ fuse[v] # <<>>
    /\ fuse' = [fuse EXCEPT ![v] = Front(@)]
    /\ Reply(h)
    /\ UNCHANGED <<machine, storage, deeds, chances, host, odd>>

\* Mutant: an entry whose mount would not go is not put back.
FusermountForgets(h) ==
    /\ hand[h].at = "fusermount" /\ Errs
    /\ Reply(h)
    /\ UNCHANGED <<machine, storage, deeds, offline>>

FusermountFails(h) ==
    LET q == hand[h].q IN
    /\ hand[h].at = "fusermount" /\ Errs
    /\ mount' = [mount EXCEPT ![q.v] = [on |-> TRUE, rw |-> q.rw]]
    /\ Reply(h)
    /\ UNCHANGED <<dom, snap, stopping, storage, deeds, offline>>

----------------------------------------------------------------------------
(* The process.                                                             *)

\* SIGTERM: the registry is emptied, then one mountpoint after another.
Signal == \E q \in deeds :
    /\ q.op = "signal" /\ up /\ ~ClosingNow
    /\ deeds' = deeds \ {q}
    /\ mount' = [v \in Vms |-> Unmounted]
    /\ closing' = [v \in Vms |-> mount[v].on]
    /\ UNCHANGED <<dom, snap, stopping, storage, locked, hand, chances, fuse, up, late, odd>>

Closes == \E v \in DOMAIN closing :
    /\ closing[v]
    /\ closing' = [closing EXCEPT ![v] = FALSE]
    /\ \/ fuse[v] # <<>> /\ fuse' = [fuse EXCEPT ![v] = Front(@)] /\ UNCHANGED chances
       \/ Errs /\ UNCHANGED fuse
    /\ UNCHANGED <<machine, storage, locked, hand, deeds, up, late, odd>>

Dies ==
    /\ up' = FALSE /\ closing' = NotClosing
    /\ hand' = [h \in Handlers |-> AtRest] /\ locked' = {}
    /\ mount' = [v \in Vms |-> Unmounted]
    /\ late' = late \union {<<hand[h].q.v, hand[h].q.rw>> : h \in {g \in Handlers : hand[g].at = "guestmount"}}
    /\ UNCHANGED <<dom, snap, storage, chances, fuse, odd>>

\* The end of the hook, or a kill; the tasks of the process are swept at the next start.
Exit ==
    /\ up
    /\ \/ ClosingNow /\ (\A v \in Vms : ~closing[v]) /\ UNCHANGED deeds
       \/ \E q \in deeds : q.op = "kill" /\ deeds' = deeds \ {q}
    /\ Dies /\ stopping' = {}

\* The sweep unmounts each mountpoint once; one it fails at, or all when the table cannot be read, stay.
Boot ==
    /\ ~up /\ up' = TRUE
    /\ \/ fuse' = [v \in Vms |-> IF fuse[v] = <<>> THEN <<>> ELSE Front(fuse[v])] /\ UNCHANGED <<chances, odd>>
       \/ Errs /\ UNCHANGED fuse /\ odd' = odd \union {v \in Vms : fuse[v] # <<>>}
    /\ UNCHANGED <<machine, storage, locked, hand, deeds, closing, late>>

----------------------------------------------------------------------------
OfflineInit ==
    /\ fuse = [v \in Vms |-> <<>>] /\ up = TRUE /\ closing = NotClosing
    /\ late = {} /\ odd = {}

OfflineHandler(h) ==
    MountAsk(h) \/ Entered(h) \/ Guestmount(h) \/ GuestmountFails(h) \/ Enters(h)
    \/ Unmount(h) \/ Fusermount(h) \/ FusermountFails(h)
OfflineProcess == LateMount \/ Signal \/ Closes \/ Exit \/ Boot

Busy(v) ==
    \/ \E h \in Handlers : hand[h].at \in {"enter", "fusermount"} /\ hand[h].q.v = v
    \/ ClosingNow

\* The registry and the kernel agree on every machine nobody is mounting or
\* unmounting, through failures, exits and kills, except where a guestmount
\* laid a second layer, outlived who ran it, or the sweep failed
\* (handler/vm_files_offline.go:250).
MountsAccounted == up => \A v \in Vms : Busy(v) \/ v \in odd \/ (mount[v].on <=> fuse[v] # <<>>)
=============================================================================
