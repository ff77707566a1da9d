SPECIFICATION Spec
CONSTANTS
    LimSe = 63
    Jobs <- MC_Jobs
    tbl_no <- MC_tbl_no
    Conditioning <- Default
    MAX_CORR_BITS = 80
    MaxEobRun = 3
    Faults <- MC_Faults
INVARIANTS
    RoundTrip
    DamageConfined
    NeverStarves
    SegmentsWellFormed
    CarryHasRoom
    EncoderNeverFails
    CodesAreGood
CHECK_DEADLOCK FALSE
