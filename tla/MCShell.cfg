SPECIFICATION ShellSpec
CONSTANTS
    NoChild = NoChild
    b1 = b1  b2 = b2
    Backends <- TwoBackends
    Versions = {1, 2, 3}
    HistoryLimit = 3
    MaxFaults = 2
INVARIANTS
    InstalledHasRun
    NoRestartIntoThePast
PROPERTIES
    StartSettles
    DeadBackendIsReported
    NoOrphanStays
