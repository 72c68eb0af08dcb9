SPECIFICATION FairSpec
CONSTANTS
    Others = {}
    QueueDepth = 1
    Stagger = FALSE
    MaxFailures = 4
PROPERTIES
    SuspensionTakesHold
    ComesBack
