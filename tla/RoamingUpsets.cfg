SPECIFICATION Spec
CONSTANTS
    Gateways = {g1, g2}
    Sensors = {s1}
    NoGateway = NoGateway
    Movers = {m1, m2}
    NoMove = NoMove
    Lossy = {g1, g2}
    Roving = {}
    MaxUpsets = 2
INVARIANTS TablesTrue OneHandover
SYMMETRY Symmetry
CHECK_DEADLOCK FALSE
