CONSTANTS
    NumNotes = 2
    SnapIds = {s1, s2}
    Ticks = {t1}
    Requests = {r1}
    Keep = 1
    MaxClock = 1
    MaxRev = 1
SYMMETRY Symmetry
SPECIFICATION Spec
INVARIANTS
    TypeOK
    AutosBounded
    ScheduledIsCurrent
