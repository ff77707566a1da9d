\* Back dismisses the progress dialog: a second batch over the first, edits beside both.
SPECIFICATION Spec
CONSTANTS
    DrugForms = {d1}
    QualityForms = {q1}
    Batches = {b1, b2}
    BackDismisses = TRUE
    MaxPosts = 2
    MaxCrashes = 0
INVARIANT ArchivedWasAccepted
PROPERTY DeletedStaysDeleted
SYMMETRY Symmetry
CHECK_DEADLOCK FALSE
