SPECIFICATION ResumingSpec
CONSTANTS
    httpd = httpd
    Web = {httpd}
    Ui = {}
    NumPush = 1
    QueueDepth = 1
    Api = {"enable", "reload", "ota", "survey", "raw", "position", "reset"}
    MaxCalls = 1
    MaxFlips = 1
    MaxReboots = 1
    Faults = TRUE
INVARIANTS
    DivergesOnlyByRace
