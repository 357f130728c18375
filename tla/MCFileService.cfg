CONSTANTS
    f = f
    h = h
    x = x
    y = y
    tooLong = tooLong
    Ground = {g1, g2}
    Names <- MCNames
    BadNames <- MCBadNames
    Reported <- MCReported
    Bytes <- MCBytes
    Files <- MCFiles
    MaxSize = 2
    Quota = 3
    MaxLanded = 2
VIEW WithoutReceipts
SYMMETRY GroundSymmetry
SPECIFICATION Spec
PROPERTIES
    NeverGrowsPastQuota
    OnlyVerifiedFilesLand
    EveryTransferIsAnswered
    ReceiptsAreHonest
