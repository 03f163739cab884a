SPECIFICATION Spec
CONSTANTS
    None = None
    a = a  b = b  c = c
    w1 = w1  w2 = w2
    N = 5
    Workers = {w1, w2}
    Asks <- FramesAsk
    Tiles = {a, b, c}
    Forms = {"render"}
    Limit = 2
    Overhead = 1
    Decoded <- OneEach
    MaxFailures = 0
INVARIANTS OverByOneTile
