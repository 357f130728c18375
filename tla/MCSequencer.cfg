CONSTANTS
    Plans <- MCPlans
    Commands <- MCCommands
    Ticker = {t1, t2}
    MaxClock = 3
    MaxGeneration = 3
    ClockMayStepBack = TRUE
SYMMETRY TickerSymmetry
SPECIFICATION ClockSpec
INVARIANTS
    TypeOK
    Ledger
    IdleSlotIsPristine
    LastRecordIsOfThisRun
    CompleteMeansDispatched
    SkipsExactlyThePast
    FiresOnTime
PROPERTIES
    KeepsPromise
    FiresInOrder
    RunIsStable
