\* The user waits for every progress dialog; the process may die once.
SPECIFICATION Spec
CONSTANTS
    Clients = {c1}
    SampleTypes = {t1}
    SampleVals = {s1, s2}
    SigTypes = {q1}
    Required = {q1}
    StripJobs = {j1, j2}
    ImgJobs = {i1}
    UplJobs = {u1}
    NoClient = NoClient
    NoType = NoType
    NoSamples = NoSamples
    NoImage = NoImage
    NoRow = NoRow
    NoCopy = NoCopy
    CutOff = CutOff
    NoDigest = NoDigest
    BackDismisses = FALSE
    DiskMayFill = FALSE
    MaxPaints = 1
    MaxTaps = 0
    MaxPosts = 2
    MaxCrashes = 1
INVARIANTS
    TypeOK
    FormsHaveImage
    DuplicateOnlyAfterLoss
    FreshImage
    ArchivedMatchesServer
    ServerImagesSigned
PROPERTY ArchiveFinal
SYMMETRY Symmetry
CHECK_DEADLOCK FALSE
