SPECIFICATION Spec
CONSTANTS
    a = a  b = b  o = o
    Cells = {a, b, o}
    World = World
    Listed = {"global", "coverage", "r1", "r2"}
    Hosted = TRUE
    Regions <- TwoRegions
    Inside <- InsideThem
    Offers <- TheirZooms
    Sea = {o}
    Deepest = 4
    Last = 2
INVARIANT DrawnIsCredited
