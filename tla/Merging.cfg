SPECIFICATION MergeSpec
CONSTANTS
    Listeners = {g1, g2}
    Modulus = 8
    MaxReports = 2
    FirstCounters = {6}
    MaxTurns = 1
    HealthyCopies = 1
    AllCopies = 2
    BurstCopies = 2
    BurstWindow = 1
SYMMETRY GatewaySymmetry
INVARIANTS InOrder NoneDropped EvidenceTrue
CHECK_DEADLOCK FALSE
