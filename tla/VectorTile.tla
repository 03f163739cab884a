------------------------------- MODULE VectorTile -------------------------------
(***************************************************************************)
(* What mvt decodes of a Mapbox vector tile: layers, features with their    *)
(* tags, and geometry (mvt.go, geometry.go, value.go).                     *)
(***************************************************************************)
EXTENDS Wire, TLC

CONSTANTS
    DefaultExtent,
    Headroom,           \* tile widths a vertex may lie away
    MaxCoordinate,      \* and the most that may come to
    MaxFeatureValues

ASSUME VectorTileAssumption ==
    /\ {DefaultExtent, Headroom, MaxFeatureValues} \subseteq Nat \ {0}
    /\ MaxCoordinate \in 1..2^(NarrowBits - 1) - 1

\* The geometry types.
Unknown == 0
Points == 1
LineString == 2
Polygon == 3

-----------------------------------------------------------------------------
(***************************************************************************)
(* Rings, whose last point joins the first, and the way they are wound.     *)
(***************************************************************************)
SignOf(n) == IF n > 0 THEN 1 ELSE IF n < 0 THEN -1 ELSE 0
Magnitude(n) == IF n < 0 THEN -n ELSE n

\* Twice the area, from the first point.
Shoelace(ring) ==
    LET X(i) == ring[i].x - ring[1].x
        Y(i) == ring[i].y - ring[1].y
        after(i) == (i % Len(ring)) + 1
    IN  FoldLeft(LAMBDA sum, i : sum + X(i) * Y(after(i)) - X(after(i)) * Y(i),
                 0, [i \in DOMAIN ring |-> i])

\* How far the ring goes from its first point.
ExtentOf(ring) ==
    LET far == UNION {{Magnitude(p.x - ring[1].x), Magnitude(p.y - ring[1].y)} :
                         p \in ToSet(ring)}
    IN  CHOOSE d \in far : \A e \in far : e <= d

\* Whether a sum of so many products cannot leave a word.
FitsWord(extent, n) ==
    extent = 0 \/ extent <= ((2^(WordBits - 1) - 1) \div (2 * n)) \div extent

\* The sum in a word where it fits and in a wider one where it may not.
RingWinding(ring) ==
    IF Len(ring) < 3 THEN 0
    ELSE IF FitsWord(ExtentOf(ring), Len(ring))
    THEN SignOf(Signed(Shoelace(ring) % 2^WordBits, WordBits))
    ELSE SignOf(Shoelace(ring))

Wound(ring, want) ==
    IF RingWinding(ring) \in {0, want} THEN ring ELSE Reverse(ring)

\* Mutant of NormalisePolygons: an exterior is what the specification says.
NormaliseAbsolute(rings) ==
    LET Put(out, r) ==
          IF RingWinding(r) = 1 \/ out = <<>>
          THEN Append(out, [exterior |-> Wound(r, 1), holes |-> <<>>])
          ELSE [out EXCEPT ![Len(out)].holes = Append(@, Wound(r, -1))]
    IN  FoldLeft(Put, <<>>, rings)

\* A ring wound as the first begins a polygon, and any other is a hole of the
\* one before.
NormalisePolygons(rings) ==
    LET first == IF RingWinding(rings[1]) = 0 THEN 1 ELSE RingWinding(rings[1])
        Put(out, r) ==
          IF RingWinding(r) = first \/ out = <<>>
          THEN Append(out, [exterior |-> Wound(r, 1), holes |-> <<>>])
          ELSE [out EXCEPT ![Len(out)].holes = Append(@, Wound(r, -1))]
    IN  FoldLeft(Put, <<>>, rings)

-----------------------------------------------------------------------------
(***************************************************************************)
(* The commands of a geometry.                                             *)
(***************************************************************************)
CoordinateBound(extent) ==
    IF extent * Headroom > MaxCoordinate THEN MaxCoordinate ELSE extent * Headroom

\* The points of a command of so many, each a step from the one before.
Steps(g, count, from) ==
    LET Add(sum, j) == sum + Unzigzag(g[j])
        Sum(n, k) == FoldLeft(Add, 0, [i \in 1..n |-> 2 * i + k - 1])
    IN  [n \in 1..count |-> [x |-> from.x + Sum(n, 1), y |-> from.y + Sum(n, 2)]]

Flush(st) ==
    IF st.cur = <<>> THEN st ELSE [st EXCEPT !.parts = Append(@, st.cur), !.cur = <<>>]
IsShort(type, st) == type = LineString /\ Len(st.cur) = 1

\* What the rest of the commands draw.  Where they leave the cursor is where the
\* next part begins from, closed or not.
RECURSIVE Draw(_, _, _, _)
Draw(type, bound, g, st) ==
    LET cmd == g[1] % 8
        count == g[1] \div 8
        points == Steps(g, count, st.at)
        Far(p) == Magnitude(p.x) > bound \/ Magnitude(p.y) > bound
        Then(s) == Draw(type, bound, SubSeq(g, 2 * count + 2, Len(g)),
                        [s EXCEPT !.cur = @ \o points, !.at = Last(points)])
    IN  IF g = <<>>
        THEN IF (type = Polygon /\ st.cur # <<>>) \/ IsShort(type, st) THEN Broken
             ELSE [ok |-> TRUE, v |-> Flush(st).parts]
        ELSE IF cmd \in {1, 2}
        THEN IF count = 0 \/ Len(g) < 1 + 2 * count THEN Broken
             ELSE IF \E n \in 1..count : Far(points[n]) THEN Broken
             ELSE IF cmd = 1
             THEN IF type # Points /\ count # 1 THEN Broken
                  ELSE IF (type = Polygon /\ st.cur # <<>>) \/ IsShort(type, st) THEN Broken
                  ELSE Then(Flush(st))
             ELSE IF type = Points \/ st.cur = <<>> THEN Broken ELSE Then(st)
        ELSE IF cmd = 7 /\ count = 1 /\ type = Polygon /\ st.cur # <<>>
        THEN Draw(type, bound, Tail(g), Flush(st))
        ELSE Broken

DecodeGeometry(type, g, extent) ==
    LET drawn == Draw(type, CoordinateBound(extent), g,
                      [at |-> [x |-> 0, y |-> 0], cur |-> <<>>, parts |-> <<>>])
    IN  IF type = Unknown THEN [ok |-> TRUE, v |-> <<>>]
        ELSE IF ~drawn.ok THEN Broken
        ELSE IF type = Points THEN [drawn EXCEPT !.v = FlattenSeq(@)]
        ELSE IF type = Polygon /\ drawn.v # <<>> THEN [drawn EXCEPT !.v = NormalisePolygons(@)]
        ELSE drawn

-----------------------------------------------------------------------------
(***************************************************************************)
(* Values, features, layers and tiles.                                     *)
(***************************************************************************)
\* The last of the kinds given.  A value that is none of them is no value.
DecodeValue(b) ==
    LET kinds == 1 :> "bytes" @@ 2 :> "fixed4" @@ 3 :> "fixed8"
                 @@ [f \in 4..7 |-> "number"]
        m == Fields(b, kinds)
        f == Last(m.fields)
    IN  IF ~m.ok THEN Broken
        ELSE IF m.fields = <<>> THEN Broken
        ELSE [ok |-> TRUE,
              v |-> CASE f.field = 4 -> <<"int", Signed(f.v, WordBits)>>
                      [] f.field = 6 -> <<"sint", Unzigzag(f.v)>>
                      [] f.field = 7 -> <<"bool", f.v # 0>>
                      [] OTHER -> <<kinds[f.field], f.v>>]

DecodeFeature(b, keys, values, extent) ==
    LET m == Fields(b, [f \in 1..4 |-> IF f \in {1, 3} THEN "number" ELSE "packed"])
        tags == Listed(m, 2)
        type == Scalar(m, 3, Unknown)
        g == DecodeGeometry(type, Listed(m, 4), extent)
        pairs == [i \in 1..Len(tags) \div 2 |-> <<tags[2 * i - 1], tags[2 * i]>>]
        Value(key) == LET used == SelectSeq(pairs, LAMBDA p : keys[p[1] + 1] = key)
                      IN  values[Last(used)[2] + 1]
    IN  IF ~m.ok THEN Broken
        ELSE IF Len(tags) > MaxFeatureValues \/ Len(Listed(m, 4)) > MaxFeatureValues THEN Broken
        ELSE IF \E v \in ToSet(tags \o Listed(m, 4)) : ~FitsUnsigned(v) THEN Broken
        ELSE IF \E v \in ToSet(Given(m, 3)) : v > Polygon THEN Broken
        ELSE IF Len(tags) % 2 # 0 THEN Broken
        ELSE IF \E p \in ToSet(pairs) : p[1] >= Len(keys) \/ p[2] >= Len(values) THEN Broken
        ELSE IF ~g.ok THEN Broken
        ELSE [ok |-> TRUE,
              v |-> [id |-> Scalar(m, 1, "none"), type |-> type, geometry |-> g.v,
                     tags |-> [key \in {keys[p[1] + 1] : p \in ToSet(pairs)} |-> Value(key)]]]

DecodeLayer(b) ==
    LET m == Fields(b, [f \in 1..5 \cup {15} |-> IF f < 5 THEN "bytes" ELSE "number"])
        extent == Scalar(m, 5, DefaultExtent)
        values == Over(DecodeValue, Given(m, 4))
        features == Over(LAMBDA f : DecodeFeature(f, Given(m, 3),
                                                  Over(LAMBDA v : v.v, values), extent),
                         Given(m, 2))
    IN  IF ~m.ok THEN Broken
        ELSE IF \E v \in ToSet(Given(m, 5)) : v = 0 \/ ~FitsUnsigned(v) THEN Broken
        ELSE IF \E v \in ToSet(Given(m, 15)) : ~FitsUnsigned(v) THEN Broken
        ELSE IF Scalar(m, 1, <<>>) = <<>> \/ Scalar(m, 15, 0) \notin {1, 2} THEN Broken
        ELSE IF \E i \in DOMAIN values : ~values[i].ok THEN Broken
        ELSE IF \E i \in DOMAIN features : ~features[i].ok THEN Broken
        ELSE [ok |-> TRUE, name |-> Scalar(m, 1, <<>>), extent |-> extent,
              version |-> Scalar(m, 15, 0), features |-> Over(LAMBDA f : f.v, features)]

\* Two layers of one name make no tile.
DecodeTile(b) ==
    LET m == Fields(b, [f \in {3} |-> "layer"])
        layers == Over(DecodeLayer, Given(m, 3))
    IN  IF ~m.ok THEN Broken
        ELSE IF \E i \in DOMAIN layers : ~layers[i].ok THEN Broken
        ELSE IF \E i, j \in DOMAIN layers : i # j /\ layers[i].name = layers[j].name
        THEN Broken
        ELSE [ok |-> TRUE, layers |-> layers]

-----------------------------------------------------------------------------
(***************************************************************************)
(* A tile with one polygon feature, written as others write it.            *)
(***************************************************************************)
Drawn(rings) ==
    LET At(i) == IF i = 1 THEN [x |-> 0, y |-> 0] ELSE Last(rings[i - 1])
        Step(p, q) == <<Zigzag(q.x - p.x), Zigzag(q.y - p.y)>>
        Lines(r) == FlattenSeq([k \in 1..Len(r) - 1 |-> Step(r[k], r[k + 1])])
        One(i) == <<9>> \o Step(At(i), rings[i][1])
                  \o (IF Len(rings[i]) = 1 THEN <<>>
                      ELSE <<8 * (Len(rings[i]) - 1) + 2>> \o Lines(rings[i]))
                  \o <<15>>
    IN  FlattenSeq([i \in DOMAIN rings |-> One(i)])
AsTile(rings) ==
    LET feature == Number(3, Polygon) \o Block(2, <<1, 0>>) \o Block(4, Varints(Drawn(rings)))
    IN  Block(3, Block(1, <<1>>) \o Number(15, 2) \o Number(5, 4) \o Block(3, <<1>>)
                 \o Block(3, <<2>>) \o Block(4, Number(6, 1)) \o Block(2, feature))
\* The same ring drawn the other way, from the same point.
Backwards(ring) == <<ring[1]>> \o Reverse(Tail(ring))
Edges(ring) == {<<ring[i], ring[(i % Len(ring)) + 1]>> : i \in DOMAIN ring}

\* The polygons of a feature are as long as what draws them is whole, their
\* exteriors wound one way and their holes the other, and the same when every
\* ring was drawn the other way (geometry.go, normalisePolygons).
TileIsRead(rings) ==
    LET got == DecodeTile(AsTile(rings))
        turned == DecodeTile(AsTile(Over(Backwards, rings)))
        Polygons(t) == t.layers[1].features[1].geometry
        Shape(t) == Over(LAMBDA p : <<Edges(p.exterior), Over(Edges, p.holes)>>, Polygons(t))
        Reach == UNION {ToSet(r) : r \in ToSet(rings)}
        bound == CoordinateBound(4)
        cut == DecodeTile(Front(AsTile(rings)))
    IN  /\ ~cut.ok
        /\ got.ok <=> \A p \in Reach : Magnitude(p.x) <= bound /\ Magnitude(p.y) <= bound
        /\ got.ok =>
             /\ got.layers[1].features[1].tags = (<<2>> :> <<"sint", -1>>)
             /\ \A i \in DOMAIN Polygons(got) :
                   /\ SignOf(Shoelace(Polygons(got)[i].exterior)) >= 0
                   /\ \A h \in ToSet(Polygons(got)[i].holes) : SignOf(Shoelace(h)) <= 0
             /\ rings # <<>> /\ Shoelace(rings[1]) # 0 => Shape(got) = Shape(turned)
=============================================================================
