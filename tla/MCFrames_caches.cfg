SPECIFICATION FairSpec
CONSTANTS
    None = None
    a = a  b = b  c = c
    w1 = w1  w2 = w2
    N = 4
    Workers = {w1, w2}
    Asks <- FramesAsk
    Tiles = {a, b}
    Forms = {"dem", "render", "perspective"}
    Limit = 1
    Overhead = 1
    Decoded <- NoneForA
    MaxFailures = 1
INVARIANTS TypeOK UsedIsKept FailureIsNotKept DoneMeansEveryFrame
PROPERTIES FramesReturn
