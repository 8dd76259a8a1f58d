SPECIFICATION Spec
CONSTANTS
    Schedulers = {s1, s2}
    Processors = {p1}
    Nobody = Nobody
    Gone = Gone
    MaxRuns = 2
    MaxFaults = 1
SYMMETRY MCSymmetry
INVARIANTS LeaseIsKept NoOverlap
CHECK_DEADLOCK FALSE
