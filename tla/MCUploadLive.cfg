CONSTANTS
    f = f
    x = x
    Ground = {g1}
    Names <- MCNames
    BadNames <- MCBadNames
    Reported <- MCReported
    Bytes <- MCBytes
    Files <- MCFiles
    Uploads <- MCUploads
    MaxSize = 1
    Quota = 1
    MaxLanded = 2
    QueueMax = 3
SPECIFICATION UploadSpec
CHECK_DEADLOCK FALSE
PROPERTIES
    EveryUploadIsAnswered
