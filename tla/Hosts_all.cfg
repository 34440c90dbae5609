SPECIFICATION HostsSpec
CHECK_DEADLOCK FALSE
CONSTANTS
    va = va
    vb = vb
    Vms = {va, vb}
    Vols = {1, 2, 3, 4, 5}
    Handlers = {h1, h2}
    Loaders = {l1, l2}
    Pieces = 2
    MaxFiles = 2
    DiskMixes <- AllDisks
    Users = {"root", "ann"}
    Machines = {1, 2, 3}
    Groups = {"g"}
    Clients = {h1, h2}
    MaxHours = 2
    Doors = {l1, l2}
    MaxFails <- Limits
    PageSize = 2
    AccessMixes <- AllAccess
    Requests = {"r1", "r2", "r3", "r4"}
    Template = "template"
    Edits = {"first", "second"}
    KeepN = 2
    Mixes <- AllMixes
    None = None
SYMMETRY HostsSymmetry
INVARIANTS
    DownloadWhole
    MountsAccounted
    TicketOnce
    NoGhostAccess
    OneCommand
PROPERTIES
    KeptWhileUsed
    WithdrawnBarred
    HistoryHolds
