SPECIFICATION Spec
CONSTANTS
    Dongles = {d1, d2}
    Relays = {r1}
    Targets = {d1, r1}
    Nodes = {n1, n2}
    Nobody = Nobody
    Gateways = {d1}
    MaxJobs = 2
    MaxMoves = 3
    MaxUpdates = 2
    MaxStarts = 2
INVARIANTS TaskOwnsSlot JobAlone WorkerOwnsSlot FlagPutBack NotBoth
CHECK_DEADLOCK FALSE
SYMMETRY NodeSymmetry
