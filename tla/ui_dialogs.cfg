SPECIFICATION Spec
CONSTANTS
    Entries = {"file", "dir"}
    Dirs = {"dir"}
    MaxModals = 2
    MaxWebJobs = 1
    Capacity = 3
    ConsoleTail = 2
    MaxLogged = 8
INVARIANTS
    DialogsConsistent
    OnlyKnownDangling
    LogIsShown
PROPERTIES
    DialogCloses
