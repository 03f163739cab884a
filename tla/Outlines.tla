-------------------------------- MODULE Outlines --------------------------------
(***************************************************************************)
(* The outlines of areas (boundary/boundary.go, boundary/derived.go):      *)
(* which hold a point, which holes belong to which, and the file they are  *)
(* kept in.                                                                *)
(*                                                                         *)
(* A point is [lat, lon]; a ring is a sequence of points that does not     *)
(* repeat its first; a polygon is a ring and its holes, as one sequence;   *)
(* an area is [name, kind, polygons].                                      *)
(***************************************************************************)
EXTENDS Wire, FiniteSets, FiniteSetsExt

CONSTANTS
    Infinity,           \* further than any point
    Numerals,           \* the kinds that are numbers, and which
    MaxPairings,
    DerivedMagic, DerivedVersion,
    DerivedScale,       \* stored units in a degree, as finely as points are
    StoredLat, StoredLon,
    MaxDerivedAreas, MaxDerivedPolygons, MaxDerivedRings, MaxDerivedPoints,
    MaxDerivedString, MaxDerivedLevels, MaxDerivedHeader,
    MaxTotalPolygons, MaxTotalRings

ASSUME OutlinesAssumption ==
    /\ {Infinity, MaxPairings, StoredLat, StoredLon, MaxDerivedAreas, MaxDerivedPolygons,
        MaxDerivedRings, MaxDerivedPoints, MaxDerivedString, MaxDerivedLevels, MaxDerivedHeader,
        MaxTotalPolygons, MaxTotalRings} \subseteq Nat
    /\ DerivedScale \in Nat \ {0} /\ StoredLat <= StoredLon /\ StoredLon < Infinity
    /\ StoredLon < 2^(WordBits - 2)

-----------------------------------------------------------------------------
(***************************************************************************)
(* Boxes.  That of no points is inside out, and as large as can be.        *)
(***************************************************************************)
Around(lats, lons) ==
    [west |-> Min(lons \cup {Infinity}), east |-> Max(lons \cup {-Infinity}),
     south |-> Min(lats \cup {Infinity}), north |-> Max(lats \cup {-Infinity})]
BoxOf(ring) == Around({ring[i].lat : i \in DOMAIN ring}, {ring[i].lon : i \in DOMAIN ring})
BoxHolds(b, p) == p.lon \in b.west..b.east /\ p.lat \in b.south..b.north
SizeOf(b) == (b.east - b.west) * (b.north - b.south)
IsEndless(b) == b.west > b.east

\* The box of a polygon is its outline's.
PolygonBox(rings) == BoxOf(IF rings = <<>> THEN <<>> ELSE rings[1])

\* Around every part that has points.
AreaBox(a) ==
    LET boxes == {b \in {PolygonBox(a.polygons[i]) : i \in DOMAIN a.polygons} : ~IsEndless(b)}
    IN  Around({b.south : b \in boxes} \cup {b.north : b \in boxes},
               {b.west : b \in boxes} \cup {b.east : b \in boxes})

BoxArea(a) == IF IsEndless(AreaBox(a)) THEN 0 ELSE SizeOf(AreaBox(a))

-----------------------------------------------------------------------------
(***************************************************************************)
(* What holds a point: what a line from it to the east leaves an odd       *)
(* number of times.                                                        *)
(***************************************************************************)
\* Does the line cross the edge from q to p?  An edge includes its lower end.
Crosses(p, q, at) ==
    LET rise == q.lat - p.lat
        \* How far east of at the edge is, times rise.
        ahead == (q.lon - p.lon) * (at.lat - p.lat) + (p.lon - at.lon) * rise
    IN  /\ (p.lat > at.lat) # (q.lat > at.lat)
        /\ IF rise > 0 THEN ahead > 0 ELSE ahead < 0

InRing(ring, at) ==
    LET before(i) == ring[IF i = 1 THEN Len(ring) ELSE i - 1]
    IN  Cardinality({i \in DOMAIN ring : Crosses(ring[i], before(i), at)}) % 2 = 1

HoldsPoint(a, at) ==
    \E i \in DOMAIN a.polygons :
        LET rings == a.polygons[i]
        IN  /\ BoxHolds(PolygonBox(rings), at)
            /\ rings # <<>> /\ InRing(rings[1], at)
            /\ \A k \in 2..Len(rings) : ~InRing(rings[k], at)

\* The larger first; of two as large, the lower level, if both kinds are levels.
OutermostFirst(a, b) ==
    \/ BoxArea(a) > BoxArea(b)
    \/ /\ BoxArea(a) = BoxArea(b) /\ {a.kind, b.kind} \subseteq DOMAIN Numerals
       /\ Numerals[a.kind] < Numerals[b.kind]

\* Sorted by Before, equals in the order they were.
StablySorted(s, Before(_, _)) ==
    LET Put(sorted, e) ==
            LET after == {i \in DOMAIN sorted : \A k \in i..Len(sorted) : Before(e, sorted[k])}
            IN  InsertAt(sorted, Min(after \cup {Len(sorted) + 1}), e)
    IN  FoldLeft(Put, <<>>, s)

Containing(areas, at) ==
    StablySorted(SelectSeq(areas, LAMBDA a : HoldsPoint(a, at)), OutermostFirst)

\* The first of the smallest, as an index; 0 for none.
AreaAt(areas, at) ==
    LET holding == {i \in DOMAIN areas : HoldsPoint(areas[i], at)}
        best == {i \in holding : \A k \in holding : BoxArea(areas[i]) <= BoxArea(areas[k])}
    IN  IF best = {} THEN 0 ELSE Min(best)

-----------------------------------------------------------------------------
(***************************************************************************)
(* Holes.                                                                  *)
(***************************************************************************)
\* Mutant of Holder: the first outline around it, whatever its size.
FirstHolder(outers, hole) ==
    LET around == {o \in DOMAIN outers : \E i \in DOMAIN hole : InRing(outers[o], hole[i])}
    IN  IF around = {} THEN 0 ELSE Min(around)

\* The smallest outline around the first of five points of a hole that one is
\* around; 0 for none.
Holder(outers, hole) ==
    LET step == Max({Len(hole) \div 5, 1})
        probes == {i \in DOMAIN hole : (i - 1) % step = 0}
        Held(i) == {o \in DOMAIN outers : BoxHolds(BoxOf(outers[o]), hole[i]) /\ InRing(outers[o], hole[i])}
        found == {i \in probes : Held(i) # {}}
        at == Held(Min(found))
    IN  IF found = {} THEN 0
        ELSE Min({o \in at : \A p \in at : SizeOf(BoxOf(outers[o])) <= SizeOf(BoxOf(outers[p]))})

Polygons(outers, holes) ==
    LET HeldBy(o) == SelectSeq(holes, LAMBDA h : h # <<>> /\ Holder(outers, h) = o)
    IN  IF Len(outers) * Len(holes) > MaxPairings THEN Broken
        ELSE [ok |-> TRUE, polygons |-> [o \in DOMAIN outers |-> <<outers[o]>> \o HeldBy(o)],
              orphans |-> HeldBy(0)]

-----------------------------------------------------------------------------
(***************************************************************************)
(* The file.  A set is [source, attribution, created, levels, areas]; text *)
(* is a sequence of bytes, and a point is in fractions of a stored unit.   *)
(***************************************************************************)
\* To the nearest, halves away from zero.
Quantise(v) ==
    IF v >= 0 THEN (2 * v + DerivedScale) \div (2 * DerivedScale)
    ELSE -((-2 * v + DerivedScale) \div (2 * DerivedScale))

SumOf(Of(_), s) == MapThenSumSet(LAMBDA i : Of(s[i]), DOMAIN s)

CheckWritable(set) ==
    /\ Len(set.areas) <= MaxDerivedAreas /\ Len(set.levels) <= MaxDerivedLevels
    /\ \A i \in DOMAIN set.areas :
          LET a == set.areas[i]
          IN  /\ a.name # <<>> /\ Len(a.name) <= MaxDerivedString /\ Len(a.kind) <= MaxDerivedString
              /\ Len(a.polygons) <= MaxDerivedPolygons
              /\ \A k \in DOMAIN a.polygons :
                    /\ a.polygons[k] # <<>> /\ a.polygons[k][1] # <<>>
                    /\ Len(a.polygons[k]) <= MaxDerivedRings
                    /\ \A r \in DOMAIN a.polygons[k] : Len(a.polygons[k][r]) <= MaxDerivedPoints
    /\ SumOf(LAMBDA a : Len(a.polygons), set.areas) <= MaxTotalPolygons
    /\ SumOf(LAMBDA a : SumOf(Len, a.polygons), set.areas) <= MaxTotalRings

Counted(Write(_), s) == Varint(Len(s)) \o FlattenSeq([i \in DOMAIN s |-> Write(s[i])])
Text(s) == Counted(LAMBDA c : <<c>>, s)

WriteRing(ring) ==
    LET Step(of(_), i) == Quantise(of(ring[i])) - (IF i = 1 THEN 0 ELSE Quantise(of(ring[i - 1])))
        Lat(p) == p.lat
        Lon(p) == p.lon
    IN  Varint(Len(ring))
        \o FlattenSeq([i \in DOMAIN ring |-> Varint(Zigzag(Step(Lat, i))) \o Varint(Zigzag(Step(Lon, i)))])

WriteArea(a) ==
    Text(a.name) \o Text(a.kind) \o Counted(LAMBDA rings : Counted(WriteRing, rings), a.polygons)

WriteDerived(set) ==
    LET head == Text(set.source) \o Text(set.attribution) \o Varint(Max({set.created, 0}))
                \o Counted(Varint, set.levels)
    IN  IF \/ ~CheckWritable(set) \/ Len(head) > MaxDerivedHeader
           \/ Len(set.source) > MaxDerivedString \/ Len(set.attribution) > MaxDerivedString
          THEN Broken
          ELSE [ok |-> TRUE,
                bytes |-> DerivedMagic \o Varint(DerivedVersion) \o Text(head) \o Counted(WriteArea, set.areas)]

-----------------------------------------------------------------------------
\* What is read is [ok, next: the byte after it, v].
ReadCount(b, i, most) ==
    LET n == Uvarint(b, i) IN IF n.ok THEN (IF n.v <= most THEN n ELSE Broken) ELSE Broken

ReadString(b, i) ==
    LET n == ReadCount(b, i, MaxDerivedString) IN IF n.ok THEN Run(b, n.next, n.v) ELSE Broken

\* n things one after another, each read by Read at a byte.
RECURSIVE Repeat(_, _, _)
Repeat(Read(_), i, n) ==
    LET one == Read(i)
        rest == Repeat(Read, one.next, n - 1)
    IN  IF n = 0 THEN [ok |-> TRUE, next |-> i, v |-> <<>>]
        ELSE IF ~one.ok \/ ~rest.ok THEN Broken
        ELSE [rest EXCEPT !.v = <<one.v>> \o @]

\* A wrapped sum of steps that leaves the Earth is refused where it does.
RECURSIVE ReadPoints(_, _, _, _)
ReadPoints(b, i, n, last) ==
    LET dLat == Uvarint(b, i)
        dLon == Uvarint(b, dLat.next)
        Sum(v, step) == Signed((v + Unzigzag(step)) % 2^WordBits, WordBits)
        p == [lat |-> Sum(last.lat, dLat.v), lon |-> Sum(last.lon, dLon.v)]
        rest == ReadPoints(b, dLon.next, n - 1, p)
    IN  IF n = 0 THEN [ok |-> TRUE, next |-> i, v |-> <<>>]
        ELSE IF \/ ~dLat.ok \/ ~dLon.ok
                \/ p.lat \notin -StoredLat..StoredLat \/ p.lon \notin -StoredLon..StoredLon \/ ~rest.ok
          THEN Broken
          ELSE [rest EXCEPT !.v = <<p>> \o @]

ReadRing(b, i) ==
    LET n == ReadCount(b, i, MaxDerivedPoints)
    IN  IF n.ok THEN ReadPoints(b, n.next, n.v, [lat |-> 0, lon |-> 0]) ELSE Broken

\* Rings of a polygon, of which there are some, each of some points.
ReadPolygon(b, i) ==
    LET n == ReadCount(b, i, MaxDerivedRings)
        Solid(k) == LET r == ReadRing(b, k) IN IF r.ok THEN (IF r.v # <<>> THEN r ELSE Broken) ELSE Broken
    IN  IF n.ok THEN (IF n.v > 0 THEN Repeat(Solid, n.next, n.v) ELSE Broken) ELSE Broken

ReadArea(b, i) ==
    LET name == ReadString(b, i)
        kind == ReadString(b, name.next)
        n == ReadCount(b, kind.next, MaxDerivedPolygons)
        polygons == Repeat(LAMBDA k : ReadPolygon(b, k), n.next, n.v)
    IN  IF ~name.ok \/ name.v = <<>> \/ ~kind.ok \/ ~n.ok \/ ~polygons.ok THEN Broken
        ELSE [polygons EXCEPT !.v = [name |-> name.v, kind |-> kind.v, polygons |-> polygons.v]]

\* What follows what this version knows of the header is stepped over.
ReadHeader(b, i) ==
    LET n == ReadCount(b, i, MaxDerivedHeader)
        head == Run(b, n.next, n.v)
        source == ReadString(head.v, 1)
        attribution == ReadString(head.v, source.next)
        created == Uvarint(head.v, attribution.next)
        count == ReadCount(head.v, created.next, MaxDerivedLevels)
        levels == Repeat(LAMBDA k : Uvarint(head.v, k), count.next, count.v)
    IN  IF \/ ~n.ok \/ ~head.ok \/ ~source.ok \/ ~attribution.ok \/ ~created.ok
           \/ ~count.ok \/ ~levels.ok
          THEN Broken
        ELSE [ok |-> TRUE, next |-> head.next,
              v |-> [source |-> source.v, attribution |-> attribution.v, created |-> created.v,
                     levels |-> levels.v]]

\* The whole of a file, within a budget of polygons and rings for all of it.
ReadDerived(b, budget) ==
    LET magic == Run(b, 1, Len(DerivedMagic))
        version == Uvarint(b, magic.next)
        head == ReadHeader(b, version.next)
        count == ReadCount(b, head.next, MaxDerivedAreas)
        areas == Repeat(LAMBDA k : ReadArea(b, k), count.next, count.v)
    IN  IF \/ ~magic.ok \/ magic.v # DerivedMagic \/ ~version.ok \/ version.v # DerivedVersion
           \/ ~head.ok \/ ~count.ok \/ ~areas.ok
          THEN Broken
        ELSE IF \/ areas.next # Len(b) + 1
                \/ SumOf(LAMBDA a : Len(a.polygons), areas.v) > budget.polygons
                \/ SumOf(LAMBDA a : SumOf(Len, a.polygons), areas.v) > budget.rings
          THEN Broken
          ELSE [ok |-> TRUE, head |-> head.v, areas |-> areas.v]

-----------------------------------------------------------------------------
\* A ring cut along a line between two of its points: of a point, either ring
\* or its parts hold it, and of its parts not both.
GroundIsDivided(ring, i, j, at) ==
    InRing(ring, at) <=> (InRing(SubSeq(ring, i, j), at)
                             # InRing(SubSeq(ring, 1, i) \o SubSeq(ring, j, Len(ring)), at))

(***************************************************************************)
(* Of outlines that are boxes, in one another or apart, a hole belongs to   *)
(* the innermost that is around it, or to none, and each hole once.  One    *)
(* that shares a part of its edge with the outlines around it belongs to    *)
(* one of them all the same (derived.go:233, "holes that touch the outline  *)
(* around them are ordinary").                                             *)
(***************************************************************************)
BoxWithin(a, b) == a.west >= b.west /\ a.east <= b.east /\ a.south >= b.south /\ a.north <= b.north
BoxesMeet(a, b) == /\ Max({a.west, b.west}) <= Min({a.east, b.east})
                   /\ Max({a.south, b.south}) <= Min({a.north, b.north})
HolesBelong(outers, holes) ==
    LET p == Polygons(outers, holes)
        Holding(h) == {o \in DOMAIN outers : BoxWithin(BoxOf(h), BoxOf(outers[o]))}
        Met(h) == {o \in DOMAIN outers : BoxesMeet(BoxOf(h), BoxOf(outers[o]))}
        AllAround(h) == {o \in DOMAIN outers : \A i \in DOMAIN h : InRing(outers[o], h[i])}
        Touching(h) == {o \in DOMAIN outers : \E i \in DOMAIN h : InRing(outers[o], h[i])}
        GivenTo(h) == {o \in DOMAIN outers : \E k \in 2..Len(p.polygons[o]) : p.polygons[o][k] = h}
        whole == {holes[i] : i \in DOMAIN holes} \ {<<>>}
    IN  p.ok =>
          /\ SumOf(Len, p.polygons) + Len(p.orphans)
                = Len(outers) + Cardinality({i \in DOMAIN holes : holes[i] # <<>>})
          /\ \A h \in whole : AllAround(h) = Touching(h) =>
                /\ GivenTo(h) = {} <=> AllAround(h) = {}
                /\ \A o \in GivenTo(h) : o \in AllAround(h)
                      /\ \A k \in AllAround(h) : BoxWithin(BoxOf(outers[o]), BoxOf(outers[k]))
          /\ \A h \in whole : Holding(h) = Met(h) =>
                GivenTo(h) \subseteq Holding(h) /\ (GivenTo(h) = {} <=> Holding(h) = {})

\* The same, and to the innermost of those around it whether or not it shares
\* their edges (derived.go:249, "The SMALLEST containing outline wins").
SharedEdgesBelong(outers, hole) ==
    LET around == {o \in DOMAIN outers : BoxWithin(BoxOf(hole), BoxOf(outers[o]))}
        holder == Holder(outers, hole)
    IN  around # {} =>
          holder # 0 /\ \A o \in around : BoxWithin(BoxOf(outers[holder]), BoxOf(outers[o]))

(***************************************************************************)
(* A ring is read as the sums of its steps when none of them leaves the     *)
(* Earth, and refused when one does: a sum that wraps is of no place.       *)
(***************************************************************************)
StepsAreSummed(steps) ==
    LET bytes == Varint(Len(steps))
                 \o FlattenSeq([i \in DOMAIN steps |-> Varint(Zigzag(steps[i].lat)) \o Varint(Zigzag(steps[i].lon))])
        Sum(n) == [lat |-> MapThenSumSet(LAMBDA i : steps[i].lat, 1..n),
                   lon |-> MapThenSumSet(LAMBDA i : steps[i].lon, 1..n)]
        onEarth == \A n \in DOMAIN steps :
                      Sum(n).lat \in -StoredLat..StoredLat /\ Sum(n).lon \in -StoredLon..StoredLon
        read == ReadRing(bytes, 1)
    IN  /\ read.ok <=> onEarth /\ Len(steps) <= MaxDerivedPoints
        /\ read.ok => read.v = [n \in DOMAIN steps |-> Sum(n)]

(***************************************************************************)
(* A set whose rings have points, on the Earth, is read as it was written, *)
(* to the nearest stored unit; and nothing but all of it is.               *)
(***************************************************************************)
OnStoredEarth(set) ==
    \A i \in DOMAIN set.areas : \A k \in DOMAIN set.areas[i].polygons :
        \A r \in DOMAIN set.areas[i].polygons[k] :
            LET ring == set.areas[i].polygons[k][r]
            IN  /\ ring # <<>>
                /\ \A n \in DOMAIN ring : /\ Quantise(ring[n].lat) \in -StoredLat..StoredLat
                                          /\ Quantise(ring[n].lon) \in -StoredLon..StoredLon

StoredArea(a) ==
    [a EXCEPT !.polygons = [k \in DOMAIN @ |-> [r \in DOMAIN @[k] |->
        [n \in DOMAIN @[k][r] |-> [lat |-> Quantise(@[k][r][n].lat), lon |-> Quantise(@[k][r][n].lon)]]]]]

WholeBudget == [polygons |-> MaxTotalPolygons, rings |-> MaxTotalRings]

FileIsRead(set) ==
    LET w == WriteDerived(set)
        r == ReadDerived(w.bytes, WholeBudget)
    IN  w.ok /\ OnStoredEarth(set) =>
          /\ r.ok
          /\ r.areas = [i \in DOMAIN set.areas |-> StoredArea(set.areas[i])]
          /\ r.head = [source |-> set.source, attribution |-> set.attribution,
                        created |-> Max({set.created, 0}), levels |-> set.levels]
          /\ \A n \in 0..(Len(w.bytes) - 1) : ~ReadDerived(SubSeq(w.bytes, 1, n), WholeBudget).ok
          /\ ~ReadDerived(Append(w.bytes, 0), WholeBudget).ok

\* Whatever can be written can be read.
WrittenIsReadable(set) == WriteDerived(set).ok => ReadDerived(WriteDerived(set).bytes, WholeBudget).ok
=============================================================================
