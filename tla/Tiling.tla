--------------------------------- MODULE Tiling ---------------------------------
(***************************************************************************)
(* The square of the world cut into tiles (mercator), and the cells and    *)
(* tiles an area is made of (slice/layout.go).                             *)
(*                                                                         *)
(* Degrees are integers, -EastEnd..EastEnd and -PoleEnd..PoleEnd; the side *)
(* of the square is 2 * EastEnd.                                           *)
(***************************************************************************)
EXTENDS Integers, FiniteSets
LOCAL INSTANCE Layout

CONSTANTS
    EastEnd, PoleEnd,
    MaxLatitude,        \* where the square ends
    Northing,           \* how far down the square a latitude is
    MaxZoom,            \* mercator.MaxZoom
    MaxCellZoom, DepthLimit, WorldZoomLimit

ASSUME TilingAssumption ==
    /\ {EastEnd, PoleEnd, MaxLatitude, MaxZoom, MaxCellZoom, DepthLimit, WorldZoomLimit} \subseteq Nat
    /\ 0 < MaxLatitude /\ MaxLatitude <= PoleEnd /\ MaxCellZoom <= MaxZoom
    /\ Northing \in [-MaxLatitude..MaxLatitude -> 0..2 * EastEnd]
    /\ Northing[MaxLatitude] = 0 /\ Northing[-MaxLatitude] = 2 * EastEnd
    /\ \A a, b \in -MaxLatitude..MaxLatitude : a < b => Northing[a] > Northing[b]

NoTiles == [ok |-> FALSE]
Between(v, lo, hi) == IF v < lo THEN lo ELSE IF v > hi THEN hi ELSE v

Project(lon, lat) ==
    [x |-> lon + EastEnd, y |-> Northing[Between(lat, -MaxLatitude, MaxLatitude)]]

GridIndex(v, z) == Between(v, 0, 2^z - 1)

\* The tile a point is in.  The far edges of the world are in its last tiles.
TileAt(z, lon, lat) ==
    LET p == Project(lon, lat)
        n == 2^z
    IN  IF z > MaxZoom \/ lat \notin -PoleEnd..PoleEnd \/ lon \notin -EastEnd..EastEnd
          THEN NoTiles
          ELSE [ok |-> TRUE,
                x |-> GridIndex((p.x * n) \div (2 * EastEnd), z),
                y |-> GridIndex((p.y * n) \div (2 * EastEnd), z)]

-----------------------------------------------------------------------------
(***************************************************************************)
(* An area is [west, east, south, north].                                  *)
(***************************************************************************)
IsArea(b) ==
    /\ {b.west, b.east} \subseteq -EastEnd..EastEnd
    /\ {b.south, b.north} \subseteq -PoleEnd..PoleEnd
    /\ b.west <= b.east /\ b.south <= b.north

\* The tiles of one axis that lo..hi reaches into.  An edge on a boundary
\* reaches the tile inside it only; an area of no width is in one tile.
CellSpan(lo, hi, z) ==
    LET world == 2 * EastEnd
        first == GridIndex((lo * 2^z) \div world, z)
        last == GridIndex((hi * 2^z + world - 1) \div world - 1, z)
    IN  first..(IF last < first THEN first ELSE last)

CellRange(b, z) ==
    LET nw == Project(b.west, b.north)
        se == Project(b.east, b.south)
    IN  IF ~IsArea(b) \/ z > MaxCellZoom THEN NoTiles
        ELSE [ok |-> TRUE, xs |-> CellSpan(nw.x, se.x, z), ys |-> CellSpan(nw.y, se.y, z)]

CellsForZoom(b, z) ==
    LET r == CellRange(b, z)
    IN  IF ~r.ok THEN r ELSE [ok |-> TRUE, cells |-> [x: r.xs, y: r.ys]]

CellCount(b, z) ==
    LET r == CellRange(b, z)
    IN  IF ~r.ok THEN r ELSE [ok |-> TRUE, count |-> Cardinality(r.xs) * Cardinality(r.ys)]

-----------------------------------------------------------------------------
(***************************************************************************)
(* A tile is [z, x, y].  A cell is a tile of the zoom a store keys by.     *)
(***************************************************************************)
IsZooms(z) == ~IsEmpty(z) /\ z.max <= MaxZoom

\* The tile of a shallower zoom that holds this one.
CellOf(t, cellZoom) ==
    [x |-> t.x \div 2^(t.z - cellZoom), y |-> t.y \div 2^(t.z - cellZoom)]

PyramidTiles(c, cellZoom, zooms) ==
    LET Level(z) ==
            LET n == 2^(z - cellZoom)
            IN  [z: {z}, x: (c.x * n)..(c.x * n + n - 1), y: (c.y * n)..(c.y * n + n - 1)]
        from == Greater(zooms.min, cellZoom)
    IN  IF ~IsZooms(zooms) \/ cellZoom > MaxCellZoom \/ zooms.max > cellZoom + DepthLimit
          THEN NoTiles
          ELSE [ok |-> TRUE, tiles |-> UNION {Level(z) : z \in from..zooms.max}]

AncestorTiles(c, cellZoom, zooms) ==
    IF ~IsZooms(zooms) \/ cellZoom > MaxCellZoom THEN NoTiles
    ELSE [ok |-> TRUE,
          tiles |-> {[z |-> z, x |-> c.x \div 2^(cellZoom - z), y |-> c.y \div 2^(cellZoom - z)] :
                        z \in zooms.min..Lesser(cellZoom - 1, zooms.max)}]

WorldTiles(zooms) ==
    IF ~IsZooms(zooms) \/ zooms.max > WorldZoomLimit THEN NoTiles
    ELSE [ok |-> TRUE,
          tiles |-> UNION {[z: {z}, x: 0..(2^z - 1), y: 0..(2^z - 1)] : z \in zooms.min..zooms.max}]

-----------------------------------------------------------------------------
(***************************************************************************)
(* What an area is made of, by where its edges and the tiles' are.         *)
(***************************************************************************)
AllTiles(deepest) == UNION {[z: {z}, x: 0..(2^z - 1), y: 0..(2^z - 1)] : z \in 0..deepest}

\* Some ground of the tile is inside the area, on both axes.
Meets(b, t) ==
    LET world == 2 * EastEnd
        nw == Project(b.west, b.north)
        se == Project(b.east, b.south)
        Reaches(lo, hi, i) == lo * 2^t.z < (i + 1) * world /\ i * world < hi * 2^t.z
    IN  Reaches(nw.x, se.x, t.x) /\ Reaches(nw.y, se.y, t.y)

Above(t, z) == [z |-> z, x |-> t.x \div 2^(t.z - z), y |-> t.y \div 2^(t.z - z)]

(***************************************************************************)
(* An area's cells are the tiles it has ground in; every tile under one is *)
(* in its pyramid and in no other; and the tiles over it are those TileAt  *)
(* finds at a point of it.                                                 *)
(***************************************************************************)
AreaIsTiled(b, cellZoom, depth) ==
    LET cells == CellsForZoom(b, cellZoom)
        Pyramid(c) == PyramidTiles(c, cellZoom, [min |-> 0, max |-> depth])
        Ancestors(c) == AncestorTiles(c, cellZoom, [min |-> 0, max |-> depth])
        shrunk == Project(b.west, b.north).y = Project(b.east, b.south).y
    IN  /\ cells.ok <=> IsArea(b) /\ cellZoom <= MaxCellZoom
        /\ cells.ok => CellCount(b, cellZoom).count = Cardinality(cells.cells)
        /\ cells.ok /\ b.west < b.east /\ ~shrunk =>
              cells.cells = {[x |-> t.x, y |-> t.y] :
                                t \in {u \in AllTiles(cellZoom) : u.z = cellZoom /\ Meets(b, u)}}
        /\ cells.ok /\ (b.west = b.east \/ shrunk) => cells.cells # {}
        /\ cells.ok => \A c \in cells.cells :
              LET cell == [z |-> cellZoom, x |-> c.x, y |-> c.y]
              IN  /\ Ancestors(c).tiles = {Above(cell, z) : z \in 0..Lesser(cellZoom - 1, depth)}
                  /\ depth <= cellZoom + DepthLimit =>
                       Pyramid(c).tiles = {t \in AllTiles(depth) :
                                             t.z >= cellZoom /\ Above(t, cellZoom) = cell}
        /\ b.west = b.east /\ b.south = b.north /\ IsArea(b) /\ cells.ok =>
              LET at == TileAt(cellZoom, b.west, b.south)
              IN  cells.cells = {[x |-> at.x, y |-> at.y]}
=============================================================================
