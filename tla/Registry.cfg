SPECIFICATION Spec
CONSTANTS
    Sensors = {s1, s2}
    Nobody = Nobody
    Names = {"Hall", "Wyze Sense Hall"}
    Lookalikes = {"Wyze Sense Hall"}
    EventCap = 1
    MaxUpsets = 4
SYMMETRY Symmetry
INVARIANTS NamesTrue ReportedKept DeletedStaysGone
CHECK_DEADLOCK FALSE
