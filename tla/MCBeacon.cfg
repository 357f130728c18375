CONSTANTS
    hk = hk
    receipt = receipt
    Packets = {hk, receipt}
    EventOnly = {receipt}
    Declared <- MCDeclared
    Commanded = {1, 2}
    Floor = 2
    MinDelay = 1
    Priorities <- MCPriorities
    Uptimes = {1, 4}
    MaxNow = 12
SPECIFICATION Spec
INVARIANTS
    SleepsOverNothing
    NeverBursts
    HoldsRate
