SPECIFICATION LiveSpec
CONSTANTS
    httpd = httpd
    Web = {httpd}
    Ui = {}
    NumPush = 1
    QueueDepth = 1
    Api = {"raw"}
    MaxCalls = 1
    MaxFlips = 0
    MaxReboots = 0
    Faults = FALSE
PROPERTIES
    StreamsComeUp
    RequestsServed
