------------------------------- MODULE MCHosts ------------------------------
(***************************************************************************)
(* Three parts of the platform whose scenarios share no row: disks and     *)
(* images of machines, users and the machines they may reach, a compose    *)
(* stack.  Their steps commute, so one of them works in a behaviour and    *)
(* the others rest; `turn` says which.                                     *)
(***************************************************************************)
EXTENDS MCMachines, MCJump, MCStacks

VARIABLE turn

hostsVars == <<turn, machinesVars, allVars, vars>>

HostsInit ==
    /\ turn \in {"disks", "people", "stack"}
    /\ MachinesInit /\ (turn # "disks" => deeds = {})
    /\ JumpInit /\ (turn # "people" => todo = {} /\ left = Nothing)
    /\ Init /\ (turn # "stack" <=> mix = Rest)

Machinery == turn = "disks" /\ MachinesNext /\ UNCHANGED <<turn, allVars, vars>>
Peopling == turn = "people" /\ JumpNext /\ UNCHANGED <<turn, machinesVars, vars>>
Stacking == turn = "stack" /\ Next /\ InTurn /\ UNCHANGED <<turn, machinesVars, allVars>>

HostsSpec == HostsInit /\ [][Machinery \/ Peopling \/ Stacking]_hostsVars

\* The names of handlers serve as clients too, those of loaders as doors.
HostsSymmetry == DiskSymmetry \union AccessSymmetry
=============================================================================
