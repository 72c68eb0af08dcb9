SPECIFICATION PositionedSpec
CONSTANTS
    lvgl = lvgl
    Web = {}
    Ui = {lvgl}
    NumPush = 2
    QueueDepth = 2
    Api = {"survey", "raw", "position"}
    MaxCalls = 2
    MaxFlips = 0
    MaxReboots = 0
    Faults = FALSE
INVARIANTS
    TypeOK
    DivergesOnlyByRace
    CollectionOnlyInBaseMode
    OutputFollowsMode
    HoldOff
