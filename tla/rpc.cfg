\* Two tasks, two calls, two questions whose answers change once.
CONSTANTS
    Callers = {c1, c2}
    Questions = {q1, q2}
    RetryCounts <- MCRetryCounts
    MaxXid = 3
    MaxNow = 1
    None = None
SPECIFICATION FairSpec
PROPERTIES Implements CallsReturn
