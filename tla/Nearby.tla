--------------------------------- MODULE Nearby ---------------------------------
(***************************************************************************)
(* What is near a point (locate/lookup.go, locate/area.go,                 *)
(* locate/feature.go): levels from a country to a street, each from the    *)
(* boundaries where they know the place and from the tiles where they do   *)
(* not.                                                                    *)
(*                                                                         *)
(* The map is a plane of World units a side that closes on itself from     *)
(* east to west; distances are along the axes, and so are lines.  A        *)
(* feature is [tags, zoom, id, points, lines, polygons], id 0 for none and *)
(* a polygon an outline and its holes, all of them boxes.  A tile is a     *)
(* sequence of features for each layer.                                    *)
(***************************************************************************)
EXTENDS Integers, Sequences, FiniteSets, SequencesExt, FiniteSetsExt

CONSTANTS
    World,
    LevelOrder,             \* from the widest
    LevelSpecs,             \* of what the tiles have: [layer, kinds, zoom, line]
    DefaultMaxDistance,
    SidewalkM,
    NotWays,                \* lines nobody walks along
    ProminentZoom, MaxReachFactor,
    ReachFactor,            \* in hundredths, of the zoom a place is first shown at
    NeighbourhoodRank,
    DistanceStep            \* what distances are rounded to

ASSUME NearbyAssumption ==
    /\ {World, DistanceStep} \subseteq Nat \ {0} /\ {SidewalkM, MaxReachFactor} \subseteq Nat
    /\ DOMAIN LevelSpecs \subseteq Range(LevelOrder)
    /\ \A l \in DOMAIN LevelSpecs : World % 2^LevelSpecs[l].zoom = 0
    /\ World % 2^ProminentZoom = 0

Unreadable == [ok |-> FALSE]
Size(z) == World \div 2^z
RefAt(z, at) == [z |-> z, x |-> at.x \div Size(z), y |-> at.y \div Size(z)]
IsOnMap(at) == at.x \in 0..(World - 1) /\ at.y \in 0..(World - 1)

-----------------------------------------------------------------------------
(***************************************************************************)
(* Features.                                                               *)
(***************************************************************************)
TextTag(f, key) == IF key \in DOMAIN f.tags THEN f.tags[key] ELSE ""
KindMatches(f, kinds) == kinds = {} \/ TextTag(f, "kind") \in kinds

\* lang is the tag of the language asked for.
NameIn(f, lang) == IF TextTag(f, lang) # "" THEN TextTag(f, lang) ELSE TextTag(f, "name")

Apart(a, b) == IF a < b THEN b - a ELSE a - b
HaversineM(p, q) == LET dx == Apart(p.x, q.x) IN Min({dx, World - dx}) + Apart(p.y, q.y)

\* Of a line; it does not go round the world.
PointToSegmentM(p, a, b) ==
    LET Beyond(v, ends) == Max({0, Min(ends) - v, v - Max(ends)})
    IN  Beyond(p.x, {a.x, b.x}) + Beyond(p.y, {a.y, b.y})

\* The distances a feature is at; {} if it has no such geometry.
DistancesTo(f, line, at) ==
    IF line
      THEN UNION {{PointToSegmentM(at, f.lines[k][i - 1], f.lines[k][i]) : i \in 2..Len(f.lines[k])}
                  \cup {HaversineM(at, f.lines[k][1]) : i \in {j \in {1} : Len(f.lines[k]) = 1}}
                    : k \in DOMAIN f.lines}
      ELSE {HaversineM(at, f.points[i]) : i \in DOMAIN f.points}

InBox(b, at) == at.x \in b.west..b.east /\ at.y \in b.north..b.south
RingArea(b) == (b.east - b.west) * (b.south - b.north)

\* The size of the first polygon that holds the point; {} for none.
SizeHolding(polygons, at) ==
    LET holding == {i \in DOMAIN polygons :
                       /\ InBox(polygons[i][1], at)
                       /\ \A k \in 2..Len(polygons[i]) : ~InBox(polygons[i][k], at)}
    IN  IF holding = {} THEN {} ELSE {RingArea(polygons[Min(holding)][1])}

-----------------------------------------------------------------------------
(***************************************************************************)
(* Tiles.  src has a tile as [ok, layers], ok unless it cannot be read.    *)
(***************************************************************************)
IsBroken(src, ref) == IF ref \in DOMAIN src THEN ~src[ref].ok ELSE FALSE
ReadTileLayer(src, ref, layer) ==
    IF ref \notin DOMAIN src THEN <<>>
    ELSE IF layer \in DOMAIN src[ref].layers THEN src[ref].layers[layer] ELSE <<>>

\* Mutant of TilesNear: the map ends where it closes on itself.
TilesOfSheet(z, at, cap) ==
    LET ref == RefAt(z, at)
        Reaches(d, from) == d = 0 \/ (IF d < 0 THEN from <= cap ELSE Size(z) - from <= cap)
    IN  {t \in {[z |-> z, x |-> ref.x + dx, y |-> ref.y + dy] : dx, dy \in -1..1} :
            /\ t.x \in 0..(2^z - 1) /\ t.y \in 0..(2^z - 1)
            /\ Reaches(t.x - ref.x, at.x % Size(z)) /\ Reaches(t.y - ref.y, at.y % Size(z))}

\* The tile a point is in, and of its neighbours those within cap of it.
TilesNear(z, at, cap) ==
    LET ref == RefAt(z, at)
        Reaches(d, from) == d = 0 \/ (cap > 0 /\ IF d < 0 THEN from <= cap ELSE Size(z) - from <= cap)
        steps == {d \in (-1..1) \X (-1..1) : /\ ref.y + d[2] \in 0..(2^z - 1)
                                             /\ Reaches(d[1], at.x % Size(z)) /\ Reaches(d[2], at.y % Size(z))}
    IN  {[z |-> z, x |-> (ref.x + d[1]) % 2^z, y |-> ref.y + d[2]] : d \in steps}

-----------------------------------------------------------------------------
(***************************************************************************)
(* The nearest of a level.  opts is [language, caps, onWay, prominent,     *)
(* levels, boundaries]; a rank is [class, far, of], far being of of.       *)
(***************************************************************************)
WantsLevel(opts, l) == opts.levels = {} \/ l \in opts.levels
MaxDistance(opts, l) == IF l \in DOMAIN opts.caps THEN opts.caps[l] ELSE DefaultMaxDistance[l]
IsProminent(opts, l) == opts.prominent /\ l = "locality"

CityOrTown(f) == TextTag(f, "kind_detail") \in {"city", "town"}
TownRank(f) == IF TextTag(f, "kind_detail") = "city" THEN 0 ELSE 1
Reach(f, base) == (base * Min({ReachFactor[f.zoom], 100 * MaxReachFactor})) \div 100

RankOf(f, l) ==
    LET kind == TextTag(f, "kind_detail")
    IN  [class |-> IF l # "neighbourhood" THEN 0
                   ELSE IF kind \in DOMAIN NeighbourhoodRank THEN NeighbourhoodRank[kind] ELSE 3,
         far |-> 0, of |-> 1]

SameRank(a, b) == a.class = b.class /\ a.far * b.of = b.far * a.of
Less(a, b) == IF a.class # b.class THEN a.class < b.class ELSE a.far * b.of < b.far * a.of
Preferred(a, b) == IF SameRank(a.rank, b.rank) THEN a.distance < b.distance ELSE Less(a.rank, b.rank)

Rounded(d) == (2 * d + DistanceStep) \div (2 * DistanceStep)
Match(l, name, kind, source, distance, credit) ==
    [level |-> l, name |-> name, kind |-> kind, source |-> source, distance |-> distance, credit |-> credit]

\* What may answer, each as the match it would be with its rank and its distance.
Answering(feats, l, at, opts) ==
    LET spec == LevelSpecs[l]
        far(f) == Min(DistancesTo(f, spec.line, at))
        Limit(f) == IF IsProminent(opts, l) THEN Reach(f, MaxDistance(opts, l)) ELSE MaxDistance(opts, l)
        may == SelectSeq(feats, LAMBDA f :
                    /\ KindMatches(f, spec.kinds) /\ NameIn(f, opts.language) # ""
                    /\ IsProminent(opts, l) => CityOrTown(f)
                    /\ DistancesTo(f, spec.line, at) # {} /\ far(f) <= Limit(f))
    IN  [i \in DOMAIN may |->
            [match |-> Match(l, NameIn(may[i], opts.language), TextTag(may[i], "kind_detail"),
                             "near", Rounded(far(may[i])), ""),
             rank |-> IF IsProminent(opts, l)
                        THEN [class |-> TownRank(may[i]), far |-> far(may[i]), of |-> Limit(may[i])]
                        ELSE RankOf(may[i], l),
             distance |-> far(may[i])]]

\* The first of the best, its distance rounded; {} for none.
Nearest(feats, l, at, opts) ==
    LET m == Answering(feats, l, at, opts)
        best == {i \in DOMAIN m : \A k \in DOMAIN m : ~Preferred(m[k], m[i])}
    IN  IF best = {} THEN {} ELSE {[m[Min(best)] EXCEPT !.distance = Rounded(@)]}

-----------------------------------------------------------------------------
(***************************************************************************)
(* A level from the tiles.  They are read in no order that is fixed: order *)
(* is a sequence of tiles, those that are read among them.                 *)
(***************************************************************************)
TilesOfLevel(opts, l, at) ==
    LET cap == MaxDistance(opts, l)
    IN  IF ~IsOnMap(at) THEN {}
        ELSE TilesNear(LevelSpecs[l].zoom, at, cap)
             \cup (IF IsProminent(opts, l) THEN TilesNear(ProminentZoom, at, cap * MaxReachFactor) ELSE {})

\* The first of the best of what the tiles answer.
NearestOf(src, order, l, at, opts) ==
    LET Better(best, ref) ==
            LET m == IF ref \in TilesOfLevel(opts, l, at)
                       THEN Nearest(ReadTileLayer(src, ref, LevelSpecs[l].layer), l, at, opts) ELSE {}
            IN  IF best = {} \/ \E a \in m : \E b \in best : Preferred(a, b)
                  THEN (IF m = {} THEN best ELSE m) ELSE best
    IN  {m.match : m \in FoldLeft(Better, {}, order)}

\* The way the point is on: the nearest named one, unless another is nearer by
\* more than a pavement is.
OnWays(src, order, l, at, opts) ==
    LET feats == FlattenSeq([i \in DOMAIN order |->
                    IF order[i] \in TilesOfLevel(opts, l, at)
                      THEN ReadTileLayer(src, order[i], LevelSpecs[l].layer) ELSE <<>>])
        ways == SelectSeq(feats, LAMBDA f : TextTag(f, "kind") \notin NotWays /\ DistancesTo(f, TRUE, at) # {})
        far(i) == Min(DistancesTo(ways[i], TRUE, at))
        named == {i \in DOMAIN ways : NameIn(ways[i], opts.language) # ""}
        i == Min({k \in named : \A n \in named : far(k) <= far(n)})
        nearest == Min({far(k) : k \in DOMAIN ways})
    IN  IF named = {} THEN {}
        ELSE IF far(i) > MaxDistance(opts, l) \/ far(i) > nearest + SidewalkM THEN {}
        ELSE {Match(l, NameIn(ways[i], opts.language), TextTag(ways[i], "kind_detail"), "near",
                    Rounded(far(i)), "")}

-----------------------------------------------------------------------------
(***************************************************************************)
(* The area a point is within: polygons have no names, labels have.        *)
(***************************************************************************)
\* The tiles a label is looked for in, in this order, until one has it.
Around9 == <<<<0, 0>>, <<-1, 0>>, <<1, 0>>, <<0, -1>>, <<0, 1>>, <<-1, -1>>, <<1, -1>>, <<-1, 1>>, <<1, 1>>>>
LabelFor(src, ref, id, lang) ==
    LET n == 2^ref.z
        onMap == SelectSeq(Around9, LAMBDA d : ref.y + d[2] \in 0..(n - 1))
        tiles == [i \in DOMAIN onMap |-> [z |-> ref.z, x |-> (ref.x + onMap[i][1]) % n, y |-> ref.y + onMap[i][2]]]
        Named(t) == SelectSeq(ReadTileLayer(src, t, "pois"),
                              LAMBDA f : f.id = id /\ NameIn(f, lang) # "")
        having == {i \in DOMAIN tiles : IsBroken(src, tiles[i]) \/ Named(tiles[i]) # <<>>}
        t == tiles[Min(having)]
    IN  IF having = {} THEN [ok |-> TRUE, name |-> ""]
        ELSE IF IsBroken(src, t) THEN Unreadable
        ELSE [ok |-> TRUE, name |-> NameIn(Named(t)[1], lang)]

\* Those that hold the point, the smallest first.
AreasHolding(src, ref, l, at) ==
    LET feats == SelectSeq(ReadTileLayer(src, ref, LevelSpecs[l].layer), LAMBDA f :
                    f.id # 0 /\ KindMatches(f, LevelSpecs[l].kinds) /\ SizeHolding(f.polygons, at) # {})
        Before(f, g) == Min(SizeHolding(f.polygons, at)) < Min(SizeHolding(g.polygons, at))
        Put(sorted, f) == InsertAt(sorted, Min({i \in DOMAIN sorted : Before(f, sorted[i])} \cup {Len(sorted) + 1}), f)
    IN  FoldLeft(Put, <<>>, feats)

\* The smallest that has a label.  A label that was looked for, and whether there
\* was one, is remembered of the area for every point and tile after it.
AreasAt(src, order, l, pts, idx, opts) ==
    LET RefOf(i) == RefAt(LevelSpecs[l].zoom, pts[i])
        Look(acc, i) ==
            LET areas == AreasHolding(src, RefOf(i), l, pts[i])
                Label(f) == IF f.id \in DOMAIN acc.labels THEN acc.labels[f.id]
                            ELSE LabelFor(src, RefOf(i), f.id, opts.language)
                stop == Min({k \in DOMAIN areas : ~Label(areas[k]).ok \/ Label(areas[k]).name # ""}
                            \cup {Len(areas) + 1})
                asked == {areas[k].id : k \in 1..Min({stop, Len(areas)})}
                Of(id) == CHOOSE f \in Range(areas) : f.id = id
            IN  IF ~acc.ok \/ IsBroken(src, RefOf(i)) THEN Unreadable
                ELSE IF stop > Len(areas) THEN [acc EXCEPT !.labels = @ @@ [id \in asked |-> Label(Of(id))]]
                ELSE IF ~Label(areas[stop]).ok THEN Unreadable
                ELSE [acc EXCEPT !.labels = @ @@ [id \in asked |-> Label(Of(id))],
                                 !.at[i] = {Match(l, Label(areas[stop]).name, TextTag(areas[stop], "kind"),
                                                  "within", 0, "")}]
        InOrder(ref) == SelectSeq([i \in DOMAIN pts |-> i], LAMBDA i : i \in idx /\ IsOnMap(pts[i]) /\ RefOf(i) = ref)
    IN  FoldLeft(Look, [ok |-> TRUE, labels |-> <<>>, at |-> [i \in DOMAIN pts |-> {}]],
                 FlattenSeq([k \in DOMAIN order |-> InOrder(order[k])]))

-----------------------------------------------------------------------------
\* One level of every point, from the boundaries where they know it.
AnswerLevel(src, hasTiles, pts, opts, order, l) ==
    LET covered == l \in DOMAIN opts.boundaries
        Said(i) == opts.boundaries[l][pts[i]]
        contained == [i \in DOMAIN pts |->
                        {Match(l, Said(i).name, Said(i).kind, "contained", 0, Said(i).credit) :
                            n \in {k \in {1} : covered /\ Said(i).containment = "inside"}}]
        rest == {i \in DOMAIN pts : covered => Said(i).containment = "no data"}
        broken == \E i \in rest : \E ref \in TilesOfLevel(opts, l, pts[i]) : IsBroken(src, ref)
        areas == AreasAt(src, order, l, pts, rest, opts)
        tiled(i) == IF l = "street" /\ opts.onWay THEN OnWays(src, order, l, pts[i], opts)
                    ELSE NearestOf(src, order, l, pts[i], opts)
    IN  IF l \notin DOMAIN LevelSpecs \/ rest = {} \/ (~hasTiles /\ covered)
          THEN [ok |-> TRUE, at |-> contained]
        ELSE IF ~hasTiles THEN Unreadable
        ELSE IF l = "area"
          THEN (IF areas.ok THEN [ok |-> TRUE, at |-> [i \in DOMAIN pts |-> contained[i] \cup areas.at[i]]]
                ELSE Unreadable)
        ELSE IF broken THEN Unreadable
        ELSE [ok |-> TRUE, at |-> [i \in DOMAIN pts |-> IF i \in rest THEN tiled(i) ELSE contained[i]]]

\* The matches of every point, from the widest level.
AtEach(src, hasTiles, pts, opts, order) ==
    LET wanted == SelectSeq(LevelOrder, LAMBDA l : WantsLevel(opts, l))
        Level(k) == AnswerLevel(src, hasTiles, pts, opts, order, wanted[k])
        Matches(i) == FlattenSeq([k \in DOMAIN wanted |-> SetToSeq(Level(k).at[i])])
    IN  IF pts # <<>> /\ \E k \in DOMAIN wanted : ~Level(k).ok THEN Unreadable
        ELSE [ok |-> TRUE, places |-> [i \in DOMAIN pts |-> Matches(i)]]

-----------------------------------------------------------------------------
(***************************************************************************)
(* What is published: a feature is in the tiles of its zoom and deeper     *)
(* that it touches, and layers has them all.                               *)
(***************************************************************************)
Touches(f, t) ==
    LET box == [west |-> t.x * Size(t.z), east |-> (t.x + 1) * Size(t.z),
                north |-> t.y * Size(t.z), south |-> (t.y + 1) * Size(t.z)]
    IN  \/ \E i \in DOMAIN f.points : RefAt(t.z, f.points[i]) = t
        \/ \E k \in DOMAIN f.lines : \E i \in DOMAIN f.lines[k] : InBox(box, f.lines[k][i])
        \/ \E k \in DOMAIN f.polygons :
              LET b == f.polygons[k][1]
              IN  b.west <= box.east /\ b.east >= box.west /\ b.north <= box.south /\ b.south >= box.north

Published(layers, tiles) ==
    [t \in tiles |-> [ok |-> TRUE,
        layers |-> [l \in DOMAIN layers |-> SelectSeq(layers[l], LAMBDA f : f.zoom <= t.z /\ Touches(f, t))]]]

(***************************************************************************)
(* Of a level that is near, the answer is the best there is in all the     *)
(* world, in whatever order the tiles are read: none is missed across an   *)
(* edge of a tile or of the map.  (Of cities and towns, those shown in     *)
(* time for the shallow tiles, or whose reach is the level's own.)         *)
(***************************************************************************)
NearestIsFound(layers, src, order, l, at, opts) ==
    LET InTime(f) == IsProminent(opts, l) => f.zoom <= ProminentZoom \/ Reach(f, 100) <= 100
        m == Answering(SelectSeq(layers[LevelSpecs[l].layer], InTime), l, at, opts)
        Of(c) == [c EXCEPT !.distance = Rounded(@)]
        best == {c.match : c \in {d \in Range(m) : \A k \in DOMAIN m : ~Preferred(Of(m[k]), Of(d))}}
        all == \A f \in Range(layers[LevelSpecs[l].layer]) : InTime(f)
    IN  all => LET found == NearestOf(src, order, l, at, opts) IN found \subseteq best /\ (found = {} <=> best = {})

(***************************************************************************)
(* On a way: a point is on a named one only if no way of any kind is       *)
(* nearer by more than a pavement is; and then it is on one.               *)
(***************************************************************************)
WayIsFound(layers, src, order, l, at, opts) ==
    LET ways == SelectSeq(layers[LevelSpecs[l].layer],
                          LAMBDA f : TextTag(f, "kind") \notin NotWays /\ DistancesTo(f, TRUE, at) # {})
        far(f) == Min(DistancesTo(f, TRUE, at))
        on == {f \in Range(ways) : /\ NameIn(f, opts.language) # "" /\ far(f) <= MaxDistance(opts, l)
                                   /\ \A g \in Range(ways) :
                                        /\ far(f) <= far(g) + SidewalkM
                                        /\ NameIn(g, opts.language) # "" => far(f) <= far(g)}
        found == OnWays(src, order, l, at, opts)
    IN  /\ found = {} <=> on = {}
        /\ \A m \in found : \E f \in on : m.name = NameIn(f, opts.language) /\ m.distance = Rounded(far(f))

\* The points of a batch are answered as each would be by itself.
BatchIsSingles(src, hasTiles, pts, opts, order) ==
    AtEach(src, hasTiles, pts, opts, order)
        = [ok |-> TRUE, places |-> [i \in DOMAIN pts |-> AtEach(src, hasTiles, <<pts[i]>>, opts, order).places[1]]]

(***************************************************************************)
(* A batch fails only if one of its points does.  A place has each level   *)
(* that is wanted once at most, the widest first; where the boundaries say *)
(* inside that and where they say outside nothing; and a level of the      *)
(* tiles alone, of a store that has none, fails.  An area that is answered *)
(* has a label near, and no smaller one that holds the point has one.      *)
(***************************************************************************)
PlacesAreWhole(src, hasTiles, pts, opts, order) ==
    LET each == AtEach(src, hasTiles, pts, opts, order)
        Alone(i) == AtEach(src, hasTiles, <<pts[i]>>, opts, order)
        IndexOf(l) == CHOOSE k \in DOMAIN LevelOrder : LevelOrder[k] = l
        Has(i, l) == {m \in Range(each.places[i]) : m.level = l}
        Labelled(i, f) == LabelFor(src, RefAt(LevelSpecs["area"].zoom, pts[i]), f.id, opts.language).name
    IN  /\ (\A i \in DOMAIN pts : Alone(i).ok) => each.ok
        /\ ~hasTiles /\ pts # <<>> => (each.ok <=> \A l \in DOMAIN LevelSpecs : WantsLevel(opts, l) => l \in DOMAIN opts.boundaries)
        /\ each.ok => \A i \in DOMAIN pts :
              /\ \A j, k \in DOMAIN each.places[i] : j < k =>
                    IndexOf(each.places[i][j].level) < IndexOf(each.places[i][k].level)
              /\ \A m \in Range(each.places[i]) : WantsLevel(opts, m.level)
              /\ \A l \in DOMAIN opts.boundaries : WantsLevel(opts, l) =>
                    LET said == opts.boundaries[l][pts[i]]
                    IN  /\ said.containment = "outside" => Has(i, l) = {}
                        /\ said.containment = "inside" =>
                              \A m \in Has(i, l) : m.source = "contained" /\ m.name = said.name
                        /\ said.containment = "inside" => Has(i, l) # {}
              /\ \A m \in Has(i, "area") : m.source = "within" =>
                    LET areas == AreasHolding(src, RefAt(LevelSpecs["area"].zoom, pts[i]), "area", pts[i])
                    IN  \E k \in DOMAIN areas :
                          /\ Len(pts) = 1 => m.name = Labelled(i, areas[k])
                          /\ \A n \in 1..(k - 1) : Labelled(i, areas[n]) = "" \/ Len(pts) > 1
=============================================================================
