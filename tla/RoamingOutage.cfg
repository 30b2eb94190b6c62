SPECIFICATION FairSpec
CONSTANTS
    Gateways = {g1, g2}
    Sensors = {s1}
    NoGateway = NoGateway
    Movers = {m1}
    NoMove = NoMove
    Lossy = {g1, g2}
    Roving = {g2}
    MaxUpsets = 0
INVARIANTS TablesTrue
PROPERTIES BusyEnds ImplementsOwnership
CHECK_DEADLOCK FALSE
