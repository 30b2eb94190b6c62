SPECIFICATION MCSpec
CONSTANTS
    Opener = opener
    Readers = {r1, r2}
    Macs = {m1, m2}
    Nobody = Nobody
    Room = 1
    Attempts = 2
    MaxMishaps = 1
    Ids = {25}
    Lines <- MCLines
    Noise = {1, 2, 8, 85, 170, 255}
INVARIANTS ReadsTrue FramingTrue
PROPERTY CallsEnd
CHECK_DEADLOCK FALSE
