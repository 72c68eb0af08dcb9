SPECIFICATION Spec
CONSTANTS
    Screens = {"tap"}
    Servers = {"web"}
    RetryInterval = 1
    ApFallback = 2
    ApInfoRefresh = 1
    ApPasswords = {"good", "short"}
    MaxEvents = 2
    MaxFaults = 2
    MaxCommands = 1
INVARIANTS
    RadioConsistent
    NoPhantomLink
PROPERTIES
    Recovers
