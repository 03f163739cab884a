SPECIFICATION FairSpec
CONSTANTS
    o = o  a1 = a1  a2 = a2  a3 = a3  b = b
    N = 3
    Overviews = {1}
    Refs <- ThreeGroups
    Archive <- LacksA3
    Requests = 2
    MaxRuns = 2
    MaxRemovals = 1
    EvictBesideFetch = FALSE
INVARIANTS TypeOK CellsAreWhole BuffersAreBounded ToldBeforeStored NothingAfterReturn
PROPERTIES StoresInOrder FetchReturns
