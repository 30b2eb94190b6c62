SPECIFICATION ScanFairSpec
CONSTANTS
    Dongles = {d1, d2}
    Nobody = Nobody
    MaxRequests = 2
    MaxUpsets = 1
INVARIANTS FlagTrue OneScanner PairingTrue
PROPERTY ScanEnds
CHECK_DEADLOCK FALSE
