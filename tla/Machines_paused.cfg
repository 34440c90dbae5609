SPECIFICATION MachinesSpec
CHECK_DEADLOCK FALSE
CONSTANTS
    va = va
    vb = vb
    Vms = {va, vb}
    Vols = {1, 2, 3, 4, 5}
    Handlers = {h1, h2}
    Loaders = {l1, l2}
    Pieces = 2
    MaxFiles = 2
    DiskMixes <- PausedOnly
PROPERTIES
    NotUnderGuest
