SPECIFICATION Spec
CONSTANTS
    Submissions = {s1, s2}
    Person = person
    Nobody = nobody
    MaxHolds = 1
    MaxFailures = 1
    Castings <- MCCastings
    Others = {"api_football"}
    Reliability <- MCReliability
    Windows = {"1h"}
    MaxEvents = 1
INVARIANTS
    RecordsTypeOK
    ExecutedOncePerQueuing VerdictsAreKept RestsClosed
    TriggersAreFollowedOnce FinishedHasScore
PROPERTY
    ResultStands
CHECK_DEADLOCK FALSE
