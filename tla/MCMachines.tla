----------------------------- MODULE MCMachines -----------------------------
(***************************************************************************)
(* Instances of Machines for TLC: one scenario per kind of race.           *)
(***************************************************************************)
EXTENDS Machines

CONSTANTS va, vb

Has(base) == [there |-> TRUE, base |-> base, file |-> NoVol]
Conf(a, b) == [vda |-> a, vdb |-> b, cd |-> NoVol]
Domain(st, conf) == [st |-> st, conf |-> conf, live |-> IF st = "off" THEN Empty ELSE conf]
On(op, v) == [Deed EXCEPT !.op = op, !.v = v]
OnVolume(op, x) == [Deed EXCEPT !.op = op, !.x = x]

\* Machine va has volumes 1 and 2, machine vb has volume 3; 4 is free.
TwoMachines == [dom |-> (va :> Domain("run", Conf(1, 2)) @@ vb :> Domain("off", Conf(3, NoVol))),
         vol |-> [x \in Vols |-> IF x < 4 THEN Has(NoVol) ELSE NoFile], image |-> {}, deeds |-> {}, chances |-> 0]

\* The disk of one machine is wiped while another takes it.
Wiped == [TwoMachines EXCEPT !.chances = 1, !.deeds = {[On("detach", va) EXCEPT !.t = "vdb", !.wipe = TRUE], [On("attach", vb) EXCEPT !.t = "vdb", !.x = 2],
    OnVolume("volume", 2), On("start", vb), On("pause", vb)}]
\* A disk both machines have; one of them is edited while it runs.
Shared == [TwoMachines EXCEPT !.dom = (va :> Domain("run", Conf(1, 2)) @@ vb :> Domain("run", Conf(3, 2))),
    !.deeds = {[On("detach", vb) EXCEPT !.t = "vdb", !.wipe = TRUE], [On("xml", va) EXCEPT !.t = "vdb"], On("stop", va), OnVolume("volume", 2), On("start", va)}]
\* Paused machines, snapshots.
Paused == [TwoMachines EXCEPT !.deeds = {On("pause", va), [On("detach", va) EXCEPT !.t = "vdb", !.wipe = TRUE], On("resume", va),
    [On("spec", va) EXCEPT !.t = "vdb"], OnVolume("volume", 2), On("stop", va)}]
Reverted == [TwoMachines EXCEPT !.chances = 1, !.deeds = {On("snapshot", va), On("stop", va), On("revert", va), On("forget", va), OnVolume("volume", 1)}]
\* Images, children and rows.
FromRows == [TwoMachines EXCEPT !.image = {2}, !.chances = 1, !.dom[va].conf = Conf(1, NoVol), !.dom[va].live = Conf(1, NoVol),
    !.deeds = {OnVolume("image", 2), OnVolume("register", 2), OnVolume("clone", 2), OnVolume("volume", 2)}]
Uploaded == [TwoMachines EXCEPT !.chances = 1, !.deeds = {OnVolume("upload", 4), OnVolume("image", 4), OnVolume("create", 4), On("quick", vb)}]
Drives == [TwoMachines EXCEPT !.dom[va].conf["cd"] = 3, !.dom[va].live["cd"] = 3,
    !.deeds = {On("eject", va), On("restart", va), [On("detach", va) EXCEPT !.t = "cd", !.wipe = TRUE], [On("quick", va) EXCEPT !.t = "vdb"]}]
\* Two downloads of one image, and what may be done to it meanwhile.
Fetched == [TwoMachines EXCEPT !.chances = 1, !.deeds = {OnVolume("download", 4), [OnVolume("download", 4) EXCEPT !.t = "vdb"], [Deed EXCEPT !.op = "kill"],
    [OnVolume("download", 4) EXCEPT !.t = "cd"], OnVolume("image", 4)}]
\* The offline channel.
Mounted2 == [TwoMachines EXCEPT !.chances = 1, !.deeds = {On("mount", vb), [On("mount", vb) EXCEPT !.rw = TRUE], On("unmount", vb), On("start", vb),
    [On("unmount", vb) EXCEPT !.t = "vdb"]}]
Ended == [TwoMachines EXCEPT !.chances = 1, !.deeds = {On("mount", vb), [On("mount", vb) EXCEPT !.rw = TRUE], On("unmount", vb), [Deed EXCEPT !.op = "signal"], [Deed EXCEPT !.op = "kill"]}]

AllDisks == {TwoMachines, Wiped, Shared, Paused, Reverted, FromRows, Uploaded, Drives, Fetched, Mounted2, Ended}
PausedOnly == {Paused}
DiskSymmetry == Permutations(Handlers) \union Permutations(Loaders)
=============================================================================
