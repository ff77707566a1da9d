\* Violated: a sync pulls the old content over an edit that was not pushed yet.
SPECIFICATION Spec
CONSTANTS
    Units = {u1, u2}
    Syncs = {s1}
    PageSize = 2
    BackDismisses = FALSE
    Others = "between"
    FormUploads = FALSE
    MaxNow = 4
PROPERTY EditsSurvive
CHECK_DEADLOCK FALSE
