CONSTANTS
    f = f
    x = x
    Ground = {g1, g2}
    Names <- MCNames
    BadNames <- MCBadNames
    Reported <- MCReported
    Bytes <- MCBytes
    Files <- MCFiles
    Uploads <- MCUploads
    MaxSize = 1
    Quota = 1
    MaxLanded = 2
    QueueMax = 2
VIEW WithoutReceipts
SYMMETRY GroundSymmetry
SPECIFICATION UploadSpec
CHECK_DEADLOCK FALSE
INVARIANTS
    SuccessMeansStored
    FalseFailureNeedsATwin
    TransfersHaveLinks
