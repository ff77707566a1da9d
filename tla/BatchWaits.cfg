\* The user waits for the batch: failures, a process death, clearing data beside it (no symmetry).
SPECIFICATION Spec
CONSTANTS
    DrugForms = {d1, d2}
    QualityForms = {q1}
    Batches = {b1}
    BackDismisses = FALSE
    MaxPosts = 2
    MaxCrashes = 1
INVARIANTS
    DuplicateOnlyAfterLoss
PROPERTIES
    SuccessMeansArchived
    KeepsPromise
    DialogEnds
CHECK_DEADLOCK FALSE
