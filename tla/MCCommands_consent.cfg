SPECIFICATION FairSpec
CONSTANTS
    p1 = p1  p2 = p2
    Procs = {p1, p2}
    Asked <- DrawsAndFetches
    Remote = {"map", "ground"}
    Full = 1
INVARIANTS ReadsOnlyGranted ImageIsWhole
PROPERTY UnattendedRenderEnds
