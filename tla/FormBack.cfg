\* Back on the dialogs: renderings, uploads and clean-ups started over one another, the
\* storage may fill up (no symmetry: a liveness property).
SPECIFICATION Spec
CONSTANTS
    Clients = {c1}
    SampleTypes = {t1}
    SampleVals = {s1}
    SigTypes = {q1}
    Required = {q1}
    StripJobs = {j1}
    ImgJobs = {i1, i2}
    UplJobs = {u1, u2}
    NoClient = NoClient
    NoType = NoType
    NoSamples = NoSamples
    NoImage = NoImage
    NoRow = NoRow
    NoCopy = NoCopy
    CutOff = CutOff
    NoDigest = NoDigest
    BackDismisses = TRUE
    DiskMayFill = TRUE
    MaxPaints = 1
    MaxTaps = 1
    MaxPosts = 1
    MaxCrashes = 0
INVARIANTS
    ArchivedOnServer
PROPERTY DialogEnds
CHECK_DEADLOCK FALSE
