SPECIFICATION Spec
CONSTANTS
    p1 = p1  p2 = p2  j1 = j1  j2 = j2
    Workloads <- Both
    MaxSwaps = 1
    Retention = 1
    None = None
SYMMETRY Symmetry
INVARIANTS
    SwapIsClean
    SnapshotIsKept
    CredentialsSurvive
    OneBackend
PROPERTIES
    RetentionSpares
