SPECIFICATION ConsoleSpec
CONSTANTS
    Slots = {s1, s2}
    MaxMoves = 5
    Faults = {"expire", "break"}
    None = None
    Caps = {1, 2}
    NRows = 2
    NUsers = 2
    NEnvs = 2
    Pairs = {p1, p2}
    Files = {f1, f2}
    NScripts = 2
    NPlugins = 2
    NFiles = 2
    Codes = {1, 2}
SYMMETRY SlotSymmetry
INVARIANTS
    
    FilesOwned
    InstallsWhole
    
    SessionShown
PROPERTIES
    CapsOwn
    CapsSaved
    
    PermsSaved
    WorkerOwn
    
CHECK_DEADLOCK FALSE
