CONSTANTS
    MaxExpansions = 100
    CountsPerUnit = 2
    Telemetry <- MCTelemetry
    CommandDefs <- MCCommandDefs
    Sidecars <- MCSidecars
    Commanded <- MCCommanded
    Draws <- MCDraws
    SourceValues <- MCSourceValues
    Wheels = {1, 2}
    WheelIds = {0, 1, 2}
    Speeds = {2}
    Torques <- MCTorques
    MaxTorque = 1
    MaxSpeed = 1
    DesatStop = 0
    Client = {c1}
    Packets <- MCPackets
    OutMax = 2
    WaitsForClients = TRUE
SPECIFICATION Spec
PROPERTIES
    ShutdownIsNotHeldUp
CHECK_DEADLOCK FALSE
