SPECIFICATION Spec
CONSTANTS
    o = o  a1 = a1  a2 = a2  a3 = a3  b = b
    N = 3
    Overviews = {1}
    Refs <- ThreeGroups
    Archive <- LacksA3
    Requests = 1
    MaxRuns = 1
    MaxRemovals = 0
    EvictBesideFetch = FALSE
INVARIANTS EmptyMeansFinished
