SPECIFICATION Spec
CONSTANTS
    Messages = {m1, m2}
    Dests = {d1}
    Slots = 2
    FramesPerBatch = 1
    QueueDepth = 2
    Clients = {c1}
    MaxFrames = 3
    MaxFlips = 2
    MaxSuspends = 3
    MaxPayload = 2
    MaxStream = 2
    MaxInput = 6
INVARIANTS
    SlotsConsistent
    SuspensionCutsStream
    FramesAreFound
PROPERTIES
    DestinationsFollow
    SlotsImplementLatestOnly
