\* A server, an agent it may embed and a standalone one.
CONSTANTS
    i1 = i1
    i2 = i2
    critic = critic
    Instance = {i1, i2}
    Embeddable = {i1}
    Kind <- MCKind
    NoInstance = NoInstance
    ServerLoop = ServerLoop
    MaxFaults = 1
    MaxWork = 1
SPECIFICATION FleetFairSpec
INVARIANT
    OneMissIsForgiven
PROPERTIES
    OverStaysStopped
    StopIsHonoured
    ShutdownEnds
CHECK_DEADLOCK FALSE
