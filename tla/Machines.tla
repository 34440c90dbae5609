------------------------------ MODULE Machines ------------------------------
(***************************************************************************)
(* Machines, their disks and the images as one process serves them: the    *)
(* handlers of Disks, the downloads and the offline channel together.      *)
(***************************************************************************)
EXTENDS Downloads, Offline

machinesVars == <<disksVars, downloads, offline>>

MachinesInit == \E scene \in DiskMixes : DisksInit(scene) /\ DownloadsInit /\ OfflineInit

\* The tasks that were at work have lost their file when the process ends.
JobsEnd == job' = [l \in Loaders |-> Idle] /\ UNCHANGED <<part, body, files, shared>>

MachinesNext ==
    /\ \/ up /\ DisksNext /\ UNCHANGED <<downloads, offline>>
       \/ up /\ DownloadsNext /\ UNCHANGED offline
       \/ up /\ (\E h \in Handlers : OfflineHandler(h)) /\ UNCHANGED downloads
       \/ OfflineProcess /\ IF up' THEN UNCHANGED downloads ELSE JobsEnd
    /\ Watch

MachinesSpec == MachinesInit /\ [][MachinesNext]_machinesVars
=============================================================================
