SPECIFICATION Spec
CONSTANTS
    Keypads = {k1, k2}
    Nobody = Nobody
    MaxTasks = 2
    MaxInputs = 3
SYMMETRY Symmetry
INVARIANTS OutcomeTrue PinForSelected
CHECK_DEADLOCK FALSE
