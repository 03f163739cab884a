SPECIFICATION Spec
CONSTANTS
    p1 = p1  p2 = p2  old = old  short = short  empty = empty
    None = None
    Procs = {p1, p2}
    Regions = {"dk"}
    Layers <- Files
    Contents <- Editions
    Offered = {old, short}
    Asked <- TwoRuns
    Levels = {7}
    Language = "name"
    MaxBoundaries = 2  MaxWays = 4  MaxNodes = 8  MaxPoints = 8
INVARIANTS NothingIsLeft ShorterIsNoticed
