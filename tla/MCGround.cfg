CONSTANTS
    Browsers = {b1, b2}
    BrowserQueueMax = 2
    MaxLinks = 2
    Rosters <- MCRosters
    Viewers = {v1}
    ClientQueueMax = 2
    Apids = {1, 2}
    Payloads <- MCPayloads
    SeqBits = 1
    MaxFrames = 3
    Surfaces <- MCSurfaces
    Spellings <- MCSpellings
    Typed <- MCTyped
    Float32Max = 8
    MaxProbes = 2
    Signatures <- MCSignatures
    Drafts <- MCDrafts
    JailRefuses <- MCJailRefuses
    SeqIds <- MCSeqIds
    SlotLabels <- MCSlotLabels
    Delays = {1, 4}
    MaxDrafts = 2
    MaxTime = 1
    Layouts <- MCLayouts
    Progress <- MCProgress
    Lengths <- MCLengths
    Synthetic <- MCSynthetic
    Overlaid <- MCOverlaid
    Beaconed <- MCBeaconed
    OnEventOnly = {"receipt"}
    BeaconDefault = 2
    VerifyTimeout = 4
    Ailments <- MCAilments
SPECIFICATION Spec
INVARIANTS
    IndicatorsAgree
    QueuesKeepTheFleet
    StreamIsExact
    VerdictsAgree
    PlanIsTheWholeFile
    StatusIsHonest
    HealthIsJudgedRightly
PROPERTIES
    TransmittedIsHonest
    LossIsAnnounced
    ShiftKeepsThePlan
CHECK_DEADLOCK FALSE
