SPECIFICATION Spec
CONSTANTS
    None = None
    s1 = s1  a1 = a1  f1 = f1  f2 = f2
    r1 = r1  r2 = r2  e1 = e1
    t1 = t1  t2a = t2a  t2b = t2b
    Stores = {s1}
    Adders = {a1}
    Lockers = {e1, a1}
    StoreOf <- OneStore
    MaxZoom = 2
    Ranges <- TopUps
    AddBesideWiden = TRUE
    Cells = {1}
    Tiles = {t1, t2a, t2b}
    TileZoom <- Zooms
    CellZoom = 1
    Archive <- WithoutOne
    Fillers = {f1}
    Renders = {}
    Evictors = {}
    Budgets = {0}
    TouchEvery = 0
    MaxTime = 0
    EvictBesideFill = FALSE
    HoldBesideFill = TRUE
    CutRemovals = FALSE
PROPERTIES RangeOnlyGrows
