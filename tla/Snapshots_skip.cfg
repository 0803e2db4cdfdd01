CONSTANTS
    NumNotes = 1
    SnapIds = {s1, s2}
    Ticks = {t1}
    Requests = {r1}
    Keep = 2
    MaxClock = 2
    MaxRev = 2
SPECIFICATION Spec
INVARIANT SkipMeansCaptured
