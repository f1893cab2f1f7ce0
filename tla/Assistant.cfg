SPECIFICATION Spec
CONSTANTS
    b1 = b1
    b2 = b2
    b3 = b3
    None = None
    Branches <- MCBranches
    Layouts <- MCLayouts
    Settings <- MCSettings
    MaxHistory = 4
    Recent = 3
    MaxSteps = 3
    MaxTasks = 2
    MaxEdits = 2
    MaxSaves = 1
INVARIANTS
    Granted
    ReportsAreWhole
    SyncIsAsked
    EditsKeepOthers
CHECK_DEADLOCK FALSE
