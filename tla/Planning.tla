-------------------------------- MODULE Planning --------------------------------
(***************************************************************************)
(* What a fetch asks for (acquire): how deep, which tiles, in which groups, *)
(* and as which stretches of the archive (depth.go, plan.go, areas.go,      *)
(* coalesce.go).                                                           *)
(*                                                                         *)
(* An archive is where its tiles are; a copy of it is the tiles it holds.  *)
(***************************************************************************)
EXTENDS Tiling, Sequences, SequencesExt, FiniteSetsExt, TLC
LOCAL INSTANCE Layout

CONSTANTS
    LargestOffset,                          \* of a signed word
    DefaultMaxGap, DefaultMaxRequest,
    MaxPlanCells, MaxOverviewTiles,
    WorldMaxZoom,
    DepthBands,         \* <<span, zoom>>, narrowest first; in hundredths
    Cos                 \* of a latitude, in hundredths

ASSUME PlanningAssumption ==
    /\ {LargestOffset, DefaultMaxGap, DefaultMaxRequest, MaxPlanCells, MaxOverviewTiles, WorldMaxZoom}
          \subseteq Nat
    /\ Cos \in [0..PoleEnd -> 0..100] /\ Cos[0] = 100
    /\ \A a, b \in 0..PoleEnd : a < b => Cos[a] > Cos[b]
    /\ DepthBands \in Seq(Nat \X Nat)

AutoZoom == -1
Unplanned == [ok |-> FALSE]

-----------------------------------------------------------------------------
(***************************************************************************)
(* Stretches.  Where a tile is, and what is asked for, are [offset, length]. *)
(***************************************************************************)
EndOf(r) == r.offset + r.length

MaxGap(limits) ==
    IF limits.gap = 0 THEN DefaultMaxGap ELSE IF limits.gap < 0 THEN 0 ELSE limits.gap
MaxRequest(limits) == IF limits.request <= 0 THEN DefaultMaxRequest ELSE limits.request

InOrder(S, Before(_, _)) ==
    [i \in 1..Cardinality(S) |-> CHOOSE e \in S : Cardinality({f \in S : Before(f, e)}) = i - 1]

Sorted(locations) ==
    InOrder(locations, LAMBDA l, m : l.offset < m.offset \/ (l.offset = m.offset /\ l.length < m.length))

Ending(r, end) == [r EXCEPT !.length = end - r.offset]

\* Mutant of JoinRange: a tile inside the stretch before it ends the stretch.
JoinShorter(limits, ranges, l) ==
    LET cur == Last(ranges)
        grown == EndOf(l) - cur.offset
    IN  IF \/ l.offset < EndOf(cur)
           \/ l.offset - EndOf(cur) <= MaxGap(limits) /\ grown <= MaxRequest(limits)
          THEN Front(ranges) \o <<Ending(cur, EndOf(l))>>
          ELSE Append(ranges, l)

\* A tile that overlaps the last stretch joins it whatever its size; one after
\* it does if neither the gap nor the stretch becomes too large.
JoinRange(limits, ranges, l) ==
    LET cur == Last(ranges)
        grown == EndOf(l) - cur.offset
    IN  IF l.offset < EndOf(cur)
          THEN Front(ranges) \o <<Ending(cur, Greater(EndOf(cur), EndOf(l)))>>
        ELSE IF l.offset - EndOf(cur) <= MaxGap(limits) /\ grown <= MaxRequest(limits)
          THEN Front(ranges) \o <<Ending(cur, EndOf(l))>>
          ELSE Append(ranges, l)

\* Each tile in turn.
RangesOver(limits, ranges, locations) ==
    FoldLeft(LAMBDA rs, l : JoinRange(limits, rs, l), ranges, locations)

\* Tiles that share their bytes share a location, and are read once.
Coalesce(locations, limits) ==
    LET sorted == Sorted(locations)
    IN  IF \E l \in locations : l.length <= 0 \/ l.offset < 0 \/ EndOf(l) > LargestOffset
          THEN Unplanned
        ELSE IF locations = {} THEN [ok |-> TRUE, ranges |-> <<>>]
        ELSE [ok |-> TRUE,
              ranges |-> RangesOver(limits, <<sorted[1]>>, Tail(sorted))]

UsefulBytes(locations) == MapThenSumSet(LAMBDA l : l.length, locations)
TotalBytes(ranges) == MapThenSumSet(LAMBDA i : ranges[i].length, DOMAIN ranges)

(***************************************************************************)
(* The stretches are in order and apart, every tile is in one of them, no  *)
(* two could have been one, and what they hold beside tiles is gaps that   *)
(* are small enough.                                                       *)
(***************************************************************************)
Serve(rs, locations, limits) ==
    LET In(l, s) == s.offset <= l.offset /\ EndOf(l) <= EndOf(s)
        Bytes(s) == s.offset..(EndOf(s) - 1)
        Tiled == UNION {Bytes(l) : l \in locations}
        Overlapping(s) == \E l, m \in {n \in locations : In(n, s)} : l # m /\ Bytes(l) \cap Bytes(m) # {}
    IN  /\ \A l \in locations : \E i \in DOMAIN rs : In(l, rs[i])
        /\ \A i \in 1..(Len(rs) - 1) :
              /\ EndOf(rs[i]) <= rs[i + 1].offset
              /\ \/ rs[i + 1].offset - EndOf(rs[i]) > MaxGap(limits)
                 \/ \E l \in locations : /\ l.offset = rs[i + 1].offset
                                         /\ EndOf(l) - rs[i].offset > MaxRequest(limits)
        /\ \A i \in DOMAIN rs :
              /\ {rs[i].offset, EndOf(rs[i]) - 1} \subseteq Tiled
              /\ rs[i].length > MaxRequest(limits) => rs[i] \in locations \/ Overlapping(rs[i])
              /\ \A from, to \in Bytes(rs[i]) :
                    from..to \cap Tiled = {} => to - from < MaxGap(limits)
        /\ (\A i \in DOMAIN rs : ~Overlapping(rs[i])) =>
              TotalBytes(rs) - UsefulBytes(locations) = Cardinality((UNION {Bytes(rs[i]) : i \in DOMAIN rs}) \ Tiled)

RangesServe(locations, limits) ==
    LET r == Coalesce(locations, limits) IN r.ok => Serve(r.ranges, locations, limits)

-----------------------------------------------------------------------------
(***************************************************************************)
(* How deep.                                                               *)
(***************************************************************************)
ValidBounds(b) == IsArea(b) /\ b.west < b.east /\ b.south < b.north

AbsOf(n) == IF n < 0 THEN -n ELSE n

\* As wide as the area is where it is nearest to the equator.
ExtentKM(b) ==
    LET nearest == IF b.south <= 0 /\ 0 <= b.north THEN 0 ELSE Lesser(AbsOf(b.south), AbsOf(b.north))
    IN  [width |-> (b.east - b.west) * Cos[nearest], height |-> (b.north - b.south) * 100]

DepthFor(b, sourceMax) ==
    LET span == Greater(ExtentKM(b).width, ExtentKM(b).height)
        narrow == {i \in DOMAIN DepthBands : span <= DepthBands[i][1]}
        first == CHOOSE i \in narrow : \A j \in narrow : i <= j
    IN  IF ~ValidBounds(b) THEN Unplanned
        ELSE IF narrow # {}
          THEN [ok |-> TRUE, max |-> Lesser(DepthBands[first][2], sourceMax), world |-> FALSE]
          ELSE [ok |-> TRUE, max |-> Lesser(WorldMaxZoom, sourceMax), world |-> TRUE]

DepthOf(req) ==
    IF req.maxZoom # AutoZoom /\ req.maxZoom \notin 0..255 THEN Unplanned
    ELSE IF req.world
      THEN [ok |-> TRUE, world |-> TRUE,
            max |-> Lesser(IF req.maxZoom = AutoZoom THEN WorldMaxZoom ELSE req.maxZoom, req.source.max)]
    ELSE IF req.maxZoom = AutoZoom THEN DepthFor(req.bounds, req.source.max)
    ELSE IF ~ValidBounds(req.bounds) \/ req.maxZoom > req.source.max THEN Unplanned
    ELSE [ok |-> TRUE, world |-> FALSE, max |-> req.maxZoom]

WorldBounds == [west |-> -EastEnd, east |-> EastEnd, south |-> -MaxLatitude, north |-> MaxLatitude]

\* The area within radius of a point, as wide as its end nearest a pole needs.
BoundsAround(lat, lon, radius) ==
    LET far == Lesser(AbsOf(lat) + radius, PoleEnd - 1)
        dLon == (radius * 100 + Cos[far] - 1) \div Cos[far]
        b == [west |-> lon - dLon, east |-> lon + dLon,
              south |-> Greater(lat - radius, -PoleEnd), north |-> Lesser(lat + radius, PoleEnd)]
    IN  IF \/ lat \notin -PoleEnd..PoleEnd \/ lon \notin -EastEnd..EastEnd \/ radius <= 0
           \/ b.west < -EastEnd \/ b.east > EastEnd
          THEN Unplanned
          ELSE [ok |-> TRUE, bounds |-> b]

-----------------------------------------------------------------------------
(***************************************************************************)
(* Which tiles, and where they are.                                        *)
(*                                                                         *)
(* An archive is [index: tile -> location, failing: tiles no directory can *)
(* be read for, held: tiles the copy holds].                               *)
(***************************************************************************)
\* Level by level from the first, until they are too many.
WithLevel(b, levels, z) ==
    LET count == CellCount(b, z)
    IN  IF ~levels.ok \/ ~count.ok \/ Cardinality(levels.tiles) + count.count > MaxOverviewTiles
          THEN NoTiles
          ELSE [ok |-> TRUE,
                tiles |-> levels.tiles \cup {[z |-> z, x |-> c.x, y |-> c.y] : c \in CellsForZoom(b, z).cells}]

LevelsOf(b, top) ==
    FoldLeft(LAMBDA levels, z : WithLevel(b, levels, z),
             [ok |-> TRUE, tiles |-> {}], [i \in 1..(top + 1) |-> i - 1])

\* The tiles above the cells.
OverviewTiles(b, cellZoom, depth) ==
    LET top == Lesser(depth.max, cellZoom - 1)
    IN  IF depth.world THEN WorldTiles([min |-> 0, max |-> top])
        ELSE LevelsOf(b, top)

RangeOf(tiles) ==
    IF tiles = {} THEN EmptyZoom
    ELSE [min |-> Min({t.z : t \in tiles}), max |-> Max({t.z : t \in tiles})]

PlanGroup(a, refs, limits) ==
    LET missing == refs \ a.held
        located == missing \cap DOMAIN a.index
        locations == {a.index[t] : t \in located}
        r == Coalesce(locations, limits)
    IN  IF missing \cap a.failing # {} \/ ~r.ok THEN Unplanned
        ELSE [ok |-> TRUE, tiles |-> located, ranges |-> r.ranges,
              held |-> Cardinality(refs \cap a.held), absent |-> Cardinality(missing \ located),
              transfer |-> TotalBytes(r.ranges), useful |-> UsefulBytes(locations)]

SumOver(figures) == MapThenSumSet(LAMBDA i : figures[i], DOMAIN figures)

Total(groups) ==
    LET transfer == SumOver([i \in DOMAIN groups |-> groups[i].transfer])
    IN  [tiles |-> SumOver([i \in DOMAIN groups |-> Cardinality(groups[i].tiles)]),
         held |-> SumOver([i \in DOMAIN groups |-> groups[i].held]),
         absent |-> SumOver([i \in DOMAIN groups |-> groups[i].absent]),
         requests |-> SumOver([i \in DOMAIN groups |-> Len(groups[i].ranges)]),
         transfer |-> transfer,
         waste |-> transfer - SumOver([i \in DOMAIN groups |-> groups[i].useful])]

\* A group for the overview, if there is one, and one for each cell, in order;
\* depths says how deep each cell goes.
PlanGroups(a, req, overview, depths) ==
    LET cells == InOrder(DOMAIN depths, LAMBDA c, d : c.y < d.y \/ (c.y = d.y /\ c.x < d.x))
        Pyramid(c) == PyramidTiles(c, req.cellZoom, [min |-> req.cellZoom, max |-> depths[c]])
        above == IF overview = {} THEN <<>> ELSE <<PlanGroup(a, overview, req.limits)>>
        below == [i \in DOMAIN cells |-> PlanGroup(a, Pyramid(cells[i]).tiles, req.limits)]
        groups == above \o below
    IN  IF \/ \E c \in DOMAIN depths : ~Pyramid(c).ok
           \/ \E i \in DOMAIN groups : ~groups[i].ok
          THEN Unplanned
          ELSE [ok |-> TRUE, groups |-> groups, overview |-> RangeOf(overview), total |-> Total(groups),
                zoom |-> IF cells = <<>> THEN EmptyZoom
                         ELSE [min |-> req.cellZoom, max |-> Max({depths[c] : c \in DOMAIN depths})],
                cellsToFetch |-> Cardinality({i \in DOMAIN below : below[i].tiles # {}})]

CellsOf(b, cellZoom) ==
    LET cells == CellsForZoom(b, cellZoom)
    IN  IF ~cells.ok \/ Cardinality(cells.cells) > MaxPlanCells THEN NoTiles ELSE cells

\* One area of several, to its own depth or as deep as the archive is.
DepthIn(ar, sourceMax) == Lesser(ar.maxZoom, sourceMax)
OverviewIn(ar, cellZoom, sourceMax) ==
    OverviewTiles(ar.bounds, cellZoom, [max |-> DepthIn(ar, sourceMax), world |-> FALSE])
CellsIn(ar, cellZoom, sourceMax) ==
    IF DepthIn(ar, sourceMax) < cellZoom THEN [ok |-> TRUE, cells |-> {}]
    ELSE CellsForZoom(ar.bounds, cellZoom)

\* All of them or none; a cell is as deep as the deepest area it is in.
PlanAreas(a, req) ==
    LET areas == ToSet(req.areas)
        Over(ar) == OverviewIn(ar, req.cellZoom, req.source.max)
        Cells(ar) == CellsIn(ar, req.cellZoom, req.source.max)
        overview == UNION {Over(ar).tiles : ar \in areas}
        depths == [c \in UNION {Cells(ar).cells : ar \in areas} |->
                      Max({DepthIn(ar, req.source.max) : ar \in {other \in areas : c \in Cells(other).cells}})]
    IN  IF \E ar \in areas : ~ValidBounds(ar.bounds) \/ ~Over(ar).ok \/ ~Cells(ar).ok
          THEN Unplanned
        ELSE IF Cardinality(overview) > MaxOverviewTiles \/ Cardinality(DOMAIN depths) > MaxPlanCells
          THEN Unplanned
          ELSE PlanGroups(a, req, overview, depths)

PlanFor(a, req) ==
    LET depth == DepthOf(req)
        bounds == IF depth.world THEN WorldBounds ELSE req.bounds
        overview == OverviewTiles(bounds, req.cellZoom, depth)
        deep == ~depth.world /\ depth.max >= req.cellZoom
        cells == CellsOf(bounds, req.cellZoom)
    IN  IF req.cellZoom \notin 1..MaxCellZoom \/ ~IsZooms(req.source) THEN Unplanned
        ELSE IF req.areas # <<>> THEN PlanAreas(a, req)
        ELSE IF ~depth.ok \/ ~overview.ok \/ (deep /\ ~cells.ok) THEN Unplanned
        ELSE PlanGroups(a, req, overview.tiles, [c \in (IF deep THEN cells.cells ELSE {}) |-> depth.max])

\* What one plan may be of.
FitOnePlan(areas, cellZoom, sourceMax) ==
    /\ Cardinality(UNION {CellsIn(ar, cellZoom, sourceMax).cells : ar \in areas}) <= MaxPlanCells
    /\ Cardinality(UNION {OverviewIn(ar, cellZoom, sourceMax).tiles : ar \in areas}) <= MaxOverviewTiles

WithArea(batches, ar, cellZoom, sourceMax) ==
    IF batches # <<>> /\ FitOnePlan(ToSet(Last(batches)) \cup {ar}, cellZoom, sourceMax)
      THEN Front(batches) \o <<Append(Last(batches), ar)>>
      ELSE Append(batches, <<ar>>)

\* Areas in as few plans as take them in the order they come.
SplitAreas(areas, cellZoom, sourceMax) ==
    IF \E ar \in ToSet(areas) : \/ ~OverviewIn(ar, cellZoom, sourceMax).ok
                                \/ ~CellsIn(ar, cellZoom, sourceMax).ok
                                \/ ~FitOnePlan({ar}, cellZoom, sourceMax)
      THEN Unplanned
      ELSE [ok |-> TRUE,
            batches |-> FoldLeft(LAMBDA batches, ar : WithArea(batches, ar, cellZoom, sourceMax), <<>>, areas)]

-----------------------------------------------------------------------------
(***************************************************************************)
(* What a plan takes, by the ground that was asked for.                    *)
(***************************************************************************)
TilesFor(b, cellZoom, depth) ==
    LET Shown(z) == {t \in AllTiles(z) : t.z = z /\ Meets(b, t)}
        cells == Shown(cellZoom)
    IN  IF depth.world THEN AllTiles(Lesser(depth.max, cellZoom - 1))
        ELSE (UNION {Shown(z) : z \in 0..Lesser(depth.max, cellZoom - 1)})
             \cup {t \in AllTiles(depth.max) : t.z >= cellZoom /\ Above(t, cellZoom) \in cells}

Takes(p) == UNION {p.groups[i].tiles : i \in DOMAIN p.groups}

\* A plan takes every tile of what was asked for that the archive has and the
\* copy has not, once, and counts the others.
PlanTakes(a, p, wanted) ==
    /\ Takes(p) = (wanted \ a.held) \cap DOMAIN a.index
    /\ p.total.tiles = Cardinality(Takes(p))
    /\ p.total.tiles + p.total.held + p.total.absent = Cardinality(wanted)

AreaIsPlanned(a, req) ==
    LET p == PlanFor(a, req)
        depth == DepthOf(req)
    IN  p.ok /\ req.areas = <<>> =>
          PlanTakes(a, p, TilesFor(IF depth.world THEN WorldBounds ELSE req.bounds, req.cellZoom, depth))

TilesForAll(req) ==
    UNION {TilesFor(ar.bounds, req.cellZoom, [max |-> DepthIn(ar, req.source.max), world |-> FALSE]) :
              ar \in ToSet(req.areas)}

\* Areas planned as one.
WholeIsPlanned(a, req) ==
    LET p == PlanFor(a, req)
    IN  p.ok /\ req.areas # <<>> => PlanTakes(a, p, TilesForAll(req))

\* Areas taken in several plans are taken as one that had no limit would.
AreasArePlanned(a, req) ==
    LET split == SplitAreas(req.areas, req.cellZoom, req.source.max)
        plans == [i \in DOMAIN split.batches |-> PlanFor(a, [req EXCEPT !.areas = split.batches[i]])]
        whole == PlanFor(a, req)
        wanted == TilesForAll(req)
    IN  split.ok /\ req.areas # <<>> /\ a.failing = {}
        /\ (\A i \in DOMAIN req.areas : ValidBounds(req.areas[i].bounds)) =>
            /\ \A i \in DOMAIN plans : plans[i].ok
            /\ UNION {Takes(plans[i]) : i \in DOMAIN plans} = (wanted \ a.held) \cap DOMAIN a.index
            /\ whole.ok <=> Len(plans) <= 1

\* Every point within the radius is in the area, unless it is past a pole.
RadiusIsIn(lat, lon, radius) ==
    LET b == BoundsAround(lat, lon, radius)
    IN  b.ok => \A at \in b.bounds.south..b.bounds.north :
                   AbsOf(at) < PoleEnd => (b.bounds.east - lon) * Cos[AbsOf(at)] >= radius * 100
=============================================================================
