SPECIFICATION Spec
CONSTANTS
    httpd = httpd
    Others = {httpd}
    QueueDepth = 2
    Stagger = TRUE
    MaxFailures = 4
INVARIANTS
    TypeOK
    OldConnectionIsDoomed
    BackoffKept
