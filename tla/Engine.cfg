SPECIFICATION MCSpec
CONSTANTS
    Calls = {c1, c2, c3}
    Earlier = c2
    Later = c3
    NoCall = NoCall
    Keys = {k1, k2}
    AsyncKeys = {k1}
    Resent = {c1}
    MaxCopies = 2
INVARIANTS WaiterKeepsSlot MisdeliveryExplained SilencedExplained
PROPERTY ImplementsService
CHECK_DEADLOCK FALSE
