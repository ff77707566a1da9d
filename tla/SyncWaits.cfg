\* The user waits for the sync; other tablets write between syncs (no symmetry).
SPECIFICATION Spec
CONSTANTS
    Units = {u1, u2, u3}
    Syncs = {s1}
    PageSize = 2
    BackDismisses = FALSE
    Others = "between"
    FormUploads = FALSE
    MaxNow = 5
INVARIANT TypeOK
PROPERTIES
    NewUnitKept
    SuccessMeansInSync
    SyncEnds
CHECK_DEADLOCK FALSE
