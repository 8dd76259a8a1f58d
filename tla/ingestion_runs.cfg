SPECIFICATION FairSpec
CONSTANTS
    Schedulers = {s1}
    Processors = {p1, p2}
    Nobody = Nobody
    Gone = Gone
    MaxRuns = 1
    MaxFaults = 3
INVARIANTS TypeOK OneProcessorPerRun
PROPERTIES RunsMoveForward EveryRunEnds
CHECK_DEADLOCK FALSE
