\* Two threads and two tables; a page holds one item.
SPECIFICATION Spec
CONSTANTS
    None = None
    A = A
    B = B
    Threads = {c1, c2}
    Tables = {A, B}
    Keys = {1, 2}
    Definitions <- MCDefinitions
    InitialTables <- MCInitialTables
    InitialKeys = {2}
    PageSize = 1
    MaxRequests = 3
    MaxKills = 1
    MaxFaults = 1
SYMMETRY MCSymmetry
INVARIANTS TypeOK NoGhostItems ManagersFollowCatalog CatalogKeepsItsWord BackupsHoldTheTable
CHECK_DEADLOCK FALSE
