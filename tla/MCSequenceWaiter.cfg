CONSTANTS
    Plans <- MCPlans
    Commands <- MCCommands
    Ticker = {waiter}
    MaxClock = 3
    MaxGeneration = 2
    ClockMayStepBack = TRUE
    SleepCap = 2
    ClockMayJump = TRUE
SPECIFICATION ServiceSpec
INVARIANTS
    ConsoleIsCurrent
    AwakesForDeadline
PROPERTIES
    DueEntriesAreServed
