SPECIFICATION Spec
CONSTANTS
    Stamps <- MCStamps
    EpochsPerFile = 2
    Lists <- MCLists
    Entries <- MCEntries
    Targets <- MCTargets
    Stuck <- MCStuck
    WalkCap = 4
    MaxRequests = 1
    MaxLosses = 1
INVARIANTS
    JobsConsistent
    ReportMatchesPreview
    ActiveFileGuarded
    HeaderCoversData
    ExportIsWhole
CHECK_DEADLOCK FALSE
