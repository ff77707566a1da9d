\* Back dismisses the dialog; syncs, edits, form uploads and other tablets overlap.
SPECIFICATION Spec
CONSTANTS
    Units = {u1, u2}
    Syncs = {s1, s2}
    PageSize = 1
    BackDismisses = TRUE
    Others = "anytime"
    FormUploads = TRUE
    MaxNow = 4
INVARIANT CleanIsServers
SYMMETRY Symmetry
CHECK_DEADLOCK FALSE
