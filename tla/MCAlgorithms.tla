---------------------------- MODULE MCAlgorithms ----------------------------
(***************************************************************************)
(* The modules without state, each asked about every input of a small set  *)
(* and compared with what it should have answered.                         *)
(***************************************************************************)
EXTENDS Rings, Extract, Elements, VectorTile, Archive, Planning, Remote, Gazetteer, Nearby, TLC

VARIABLE asked          \* what is asked, first about what and then of which input

Init == asked \in [of: {"rings", "extract", "elements", "blobs", "tiles", "number", "archive",
                       "ranges", "plan", "radius", "reads", "points", "holes", "steps", "file",
                       "store", "place", "name", "parts", "near", "way", "area"}]
Asks(of, inputs) == asked = [of |-> of] /\ \E i \in inputs : asked' = [of |-> of, in |-> i]

-----------------------------------------------------------------------------
(***************************************************************************)
(* Ways: two triangles that touch at node 1, cut at their corners or not,  *)
(* in every order and direction; and whatever three ways.                  *)
(***************************************************************************)
Grid == 1 :> [x |-> 0, y |-> 0] @@ 2 :> [x |-> 2, y |-> 0] @@ 3 :> [x |-> 2, y |-> 2]
        @@ 4 :> [x |-> 0, y |-> 3] @@ 5 :> [x |-> -2, y |-> 1]

Way(nodes, role) == [nodes |-> nodes, role |-> role]
Cuts == {<<1, 2>>, <<2, 3>>, <<3, 1>>, <<1, 4, 5>>, <<5, 1>>}
Odd == {<<1, 2, 3>>, <<1, 3>>, <<1, 4, 5, 1>>, <<2, 1, 2>>, <<4>>, <<>>}
Turns(S) == S \cup {Reverse(n) : n \in S}
Orders(S) == {[i \in DOMAIN s |-> Way(s[i], "outer")] :
                 s \in {t \in UNION {[1..n -> Turns(S)] : n \in 0..Cardinality(S)} :
                          \A i, j \in DOMAIN t : i # j => t[i] # t[j] /\ t[i] # Reverse(t[j])}}
Triples == {[i \in 1..3 |-> Way(n[i], r[i])] :
               n \in [1..3 -> Cuts \cup Odd],
               r \in {<<"outer", "outer", "outer">>, <<"inner", "", "enclave">>}}
AskRings == Asks("rings", Orders(Cuts) \cup Triples)
RingsAgree == [][asked'.of = "rings" => WaysAreAssembled(asked'.in)]_asked

-----------------------------------------------------------------------------
(***************************************************************************)
(* Extracts of up to four blobs.                                           *)
(***************************************************************************)
Blob(relations, ways, nodes) ==
    [type |-> "OSMData", whole |-> TRUE,
     relations |-> relations, ways |-> ways, nodes |-> nodes]
Relation(id, ways, tags) ==
    [id |-> id, tags |-> tags,
     members |-> [i \in DOMAIN ways |-> [type |-> "way", id |-> ways[i], role |-> "outer"]]]
OfLevel(n) == "boundary" :> "administrative" @@ "admin_level" :> n @@ "name" :> "a"
Town == Relation(1, <<1, 2>>, OfLevel(7))
BigCity == Relation(2, <<2>>, "boundary" :> "place" @@ "place" :> "city" @@ "name" :> "b")
Other == Relation(3, <<1>>, OfLevel(13))
Refs(id, nodes) == [id |-> id, refs |-> nodes]
Node(id) == [id |-> id, at |-> id * 10]
Blobs == {Blob(<<Town, Other>>, <<>>, <<>>), Blob(<<BigCity>>, <<Refs(2, <<2>>)>>, <<>>),
          Blob(<<>>, <<Refs(1, <<1, 2>>), Refs(3, <<3>>)>>, <<>>),
          Blob(<<>>, <<Refs(2, <<>>), Refs(1, <<>>)>>, <<>>),
          Blob(<<>>, <<>>, <<Node(1), Node(3)>>), Blob(<<>>, <<>>, <<Node(2)>>),
          [Blob(<<>>, <<>>, <<>>) EXCEPT !.whole = FALSE],
          [Blob(<<>>, <<>>, <<>>) EXCEPT !.type = "Index", !.whole = FALSE]}
AskExtract == Asks("extract", UNION {[1..n -> Blobs] : n \in 0..4})
\* The blocks the later passes do not read hold nothing of the answer.
ExtractAgrees ==
    [][asked'.of = "extract" => Read(asked'.in, asked'.in, asked'.in) = InOneReading(asked'.in)]_asked

-----------------------------------------------------------------------------
(***************************************************************************)
(* Up to three nodes at the ends of their words, off the Earth by themselves *)
(* or by their block's origin, with as many tags as there may be or more.  *)
(***************************************************************************)
Tagged == {<<>>, <<<<1, 2>>>>, <<<<2, 1>>, <<1, 1>>>>, <<<<1, 1>>, <<2, 1>>, <<2, 2>>>>}
Deflated == <<7>> :> <<1, 2, 3>> @@ <<8>> :> <<>>
ANode == [id: {-16384, 5, 16383}, lat: {-2, 1, 91}, lon: {3}, tags: Tagged]
FarApart == [id: {-16384, 5, 16383}, lat: {-2, 1}, lon: {3}, tags: {<<>>}]
AskElements ==
    Asks("elements", [nodes: UNION {[1..n -> ANode] : n \in 0..2},
                      granularity: {0, 1, 50}, lat: {0, -89}]
                     \cup [nodes: [1..3 -> FarApart], granularity: {1}, lat: {0}])
BlobField == {Block(1, <<9, 9>>), Block(1, <<>>), Number(2, 0), Number(2, 2), Number(2, 3),
              Block(3, <<7>>), Block(3, <<8>>), Block(4, <<1>>)}
AskBlobs ==
    Asks("blobs", [fields: UNION {[1..n -> BlobField] : n \in 1..3}, cut: 0..1])
ElementsAgree ==
    [][/\ asked'.of = "elements" /\ asked'.in.granularity > 0 => NodesAreRead(asked'.in)
       /\ asked'.of = "blobs" => BlobsAreRead(asked'.in.fields, asked'.in.cut)]_asked

-----------------------------------------------------------------------------
(***************************************************************************)
(* Polygons of up to three rings: small ones, one whose area leaves a word, *)
(* one that encloses nothing and one out of reach.                         *)
(***************************************************************************)
P(x, y) == [x |-> x, y |-> y]
Corners == {P(0, 0), P(4, 0), P(3, 4), P(-90, 91)}
Three == {r \in [1..3 -> Corners] : \A i, j \in 1..3 : i # j => r[i] # r[j]}
Few == {<<P(1, 1), P(2, 1), P(2, 2)>>, <<P(1, 1), P(2, 2), P(2, 1)>>, <<P(1, 1)>>,
        <<P(1, 1), P(2, 2), P(1, 1)>>, <<P(1, 1), P(101, 1), P(1, 2)>>}
AskTiles == Asks("tiles", [1..2 -> Three] \cup UNION {[1..n -> Few] : n \in 0..3})
TilesAgree == [][asked'.of = "tiles" => TileIsRead(asked'.in)]_asked

-----------------------------------------------------------------------------
(***************************************************************************)
(* The tiles of five zooms; and archives of up to four runs with gaps,     *)
(* asked twice or more often than the cache has room.                      *)
(***************************************************************************)
AskNumbers == Asks("number", [z: 0..5, x: 0..16, y: 0..16])
RunsOf == {<<1, 1>>, <<2, 2>>, <<5, 3>>, <<9, 1>>}
AskArchives ==
    Asks("archive", [runs: {SetToSortSeq(S, LAMBDA r, s : r[1] < s[1]) : S \in (SUBSET RunsOf) \ {{}}},
                     k: 1..2, levels: 0..3,
                     ids: {<<2, 7, 1, 2, 5>>} \cup [1..2 -> {0, 3, 7, 8, 9}]])
ArchivesAgree ==
    [][/\ asked'.of = "number" => TilesAreInOrder(asked'.in.z, asked'.in.x, asked'.in.y)
       /\ asked'.of = "archive" =>
             ArchiveIsRead(asked'.in.runs, asked'.in.k, asked'.in.levels, asked'.in.ids)]_asked

-----------------------------------------------------------------------------
(***************************************************************************)
(* Up to four tiles of an archive, that share bytes or lie apart; and areas *)
(* between lines of tiles or off them, from a point to the world, of an     *)
(* archive that has two tiles of three, a copy of which has one of four.    *)
(***************************************************************************)
Square == -5 :> 16 @@ -4 :> 14 @@ -3 :> 12 @@ -2 :> 11 @@ -1 :> 10 @@ 0 :> 8
          @@ 1 :> 6 @@ 2 :> 5 @@ 3 :> 4 @@ 4 :> 2 @@ 5 :> 0
Cosines == 0 :> 100 @@ 1 :> 97 @@ 2 :> 87 @@ 3 :> 71 @@ 4 :> 50 @@ 5 :> 26 @@ 6 :> 0
Bands == <<<<200, 4>>, <<500, 3>>, <<900, 2>>>>
At == [offset: {0, 1, 3, 4, 7}, length: {1, 2, 5}] \cup [offset: {2}, length: {-1, 400}]
AskRanges == Asks("ranges", [locations: UNION {kSubset(n, At) : n \in 0..4},
                             limits: [gap: {-1, 0, 2}, request: {0, 4}]])
AreaEdges == [west: {-8, -3, 0, 2}, east: {-3, 0, 1, 8}, south: {-6, -1, 1}, north: {-1, 2, 3, 6}]
Sample == [index |-> [t \in {u \in AllTiles(4) : (u.x + u.y) % 3 # 0} |->
                        [offset |-> t.x * t.y, length |-> 1 + t.z]],
           failing |-> {}, held |-> {t \in AllTiles(4) : (t.x + 2 * t.y) % 4 = 0}]
PlanRequest == [bounds |-> WorldBounds, world |-> FALSE, maxZoom |-> AutoZoom, cellZoom |-> 2,
                source |-> [min |-> 0, max |-> 4], limits |-> [gap |-> 0, request |-> 0], areas |-> <<>>]
AskPlans ==
    Asks("plan", {[PlanRequest EXCEPT !.bounds = b, !.maxZoom = z, !.cellZoom = c, !.world = w] :
                    b \in AreaEdges, z \in {-1, 1, 3, 5}, c \in {2, 3}, w \in {FALSE}}
                 \cup {[PlanRequest EXCEPT !.maxZoom = z, !.world = TRUE] : z \in {-1, 0, 4, 300}})
SomeAreas == {[west |-> -8, east |-> 0, south |-> 0, north |-> 5], [west |-> -2, east |-> 3, south |-> -4, north |-> 4],
            [west |-> 0, east |-> 1, south |-> 1, north |-> 2]}
AskAreas ==
    Asks("plan", {[PlanRequest EXCEPT !.areas = ars] :
                    ars \in UNION {[1..n -> [bounds: SomeAreas, maxZoom: {1, 9}]] : n \in 1..3}})
AskRadius == Asks("radius", [lat: -6..6, lon: {-8, -5, 0, 3}, radius: 0..4])

\* Two reads of a host with three editions; it answers with the stretch asked
\* for or the one beside it, whole or not, from an edition it names or does not.
Lengths == <<5, 5, 6>>
Answered(e, first, n, sent, total, status, hops) ==
    [hops |-> hops, status |-> status, body |-> [i \in 1..Min({sent, Lengths[e] - Max({first, 0})}) |-> <<e, first + i - 1>>],
     range |-> [first |-> first, last |-> first + n - 1, total |-> IF total THEN Lengths[e] ELSE NoSize]]
Home == [scheme |-> "https", host |-> "a"]
Away == {<<>>, <<Home>>, <<[Home EXCEPT !.scheme = "http"]>>, <<Home, [Home EXCEPT !.host = "b"]>>,
         <<Home, Home, Home>>}
OneRead == {[off |-> off, length |-> 2, resp |-> Answered(e, off + by, n, sent, total, status, <<>>)] :
              off \in {-1, 0, 3}, by \in {0, 1}, n \in 0..3, sent \in {1, 2, 4}, e \in 1..3,
              total \in BOOLEAN, status \in {206, 416}}
           \cup {[off |-> 1, length |-> l, resp |-> Answered(2, 1, 2, 2, TRUE, status, hops)] :
                   l \in {0, 2}, hops \in Away, status \in {200, 206, 500}}
           \cup {[off |-> 0, length |-> 1, resp |-> [Answered(1, 0, 1, 1, TRUE, 206, <<>>) EXCEPT !.range.first = -1]]}
\* Each with any other that says which edition it is of.
Whole == {a \in OneRead : a.resp.status = 206 /\ Len(a.resp.body) = 2 /\ a.resp.hops = <<>>
                           /\ a.resp.range.first = 0}
AskReads == Asks("reads", {<<a, b>> : a \in Whole, b \in OneRead})
PlansAgree ==
    [][/\ asked'.of = "ranges" => RangesServe(asked'.in.locations, asked'.in.limits)
       /\ asked'.of = "plan" =>
             /\ AreaIsTiled(asked'.in.bounds, asked'.in.cellZoom, asked'.in.source.max)
             /\ AreaIsPlanned(Sample, asked'.in) /\ WholeIsPlanned(Sample, asked'.in)
             /\ AreasArePlanned(Sample, asked'.in)
       /\ asked'.of = "radius" => RadiusIsIn(asked'.in.lat, asked'.in.lon, asked'.in.radius)
       /\ asked'.of = "reads" =>
             /\ HostIsRead(Home, asked'.in, Lengths)
             /\ ~NewRangeReader([Home EXCEPT !.scheme = "ftp"]).ok]_asked

-----------------------------------------------------------------------------
(***************************************************************************)
(* Rings of four points, and the points around them; squares in squares    *)
(* and holes in some of them, by themselves or along their edges; steps    *)
(* that leave the Earth or a word; and files of up to two areas.           *)
(***************************************************************************)
Magic == <<111>>
K(n) == <<30 + n>>
Numbered == K(2) :> 2 @@ K(4) :> 4 @@ K(7) :> 7 @@ K(9) :> 9
Pt(lat, lon) == [lat |-> lat, lon |-> lon]
FewPoints == {Pt(0, 0), Pt(0, 2), Pt(1, 1), Pt(2, 0), Pt(2, 2), Pt(1, 3)}
AskPoints == Asks("points", {[ring |-> r, at |-> p] : r \in [1..4 -> FewPoints], p \in {Pt(1, 1), Pt(0, 1), Pt(2, 0), Pt(1, 2)}})
SquareAt(n, e, size) == <<Pt(n, e), Pt(n + size, e), Pt(n + size, e + size), Pt(n, e + size)>>
StartedLater(ring) == Tail(ring) \o <<Head(ring)>>
Nested == {SquareAt(0, 0, 20), SquareAt(1, 1, 12), SquareAt(2, 2, 6), SquareAt(14, 14, 5)}
HolesIn == {SquareAt(3, 3, 2), SquareAt(9, 9, 2), SquareAt(15, 15, 2), SquareAt(30, 0, 2), <<>>,
           SquareAt(3, 3, 1) \o SquareAt(5, 5, 2),
           SquareAt(1, 5, 2), StartedLater(SquareAt(18, 18, 2)), StartedLater(SquareAt(11, 8, 2))}
AskHoles == Asks("holes", {[outers |-> o, holes |-> h] :
                              o \in UNION {[1..n -> Nested] : n \in 0..3}, h \in UNION {[1..n -> HolesIn] : n \in 0..2}})
AskSteps == Asks("steps", UNION {[1..n -> [lat: {-16384, -17, 1, 18, 16383}, lon: {-36, 1, 16383}]] : n \in 0..3})
RingsOf == {<<Pt(0, 0), Pt(31, -9), Pt(-30, 45)>>, <<Pt(5, 5)>>, <<>>, <<Pt(40, 0)>>}
AnArea == [name: {<<1>>, <<>>}, kind: {<<>>, <<2, 3, 4, 5>>},
           polygons: {<<>>, <<<<>>>>} \cup UNION {[1..n -> {<<r>> : r \in RingsOf} \cup [1..2 -> RingsOf]] : n \in 1..1}
                     \cup {<<<<<<Pt(1, 2)>>>>, <<<<Pt(3, 4)>>, <<Pt(-4, -5)>>>>>>}]
AskFiles == Asks("file", [source: {<<>>, <<7, 8>>}, attribution: {<<9>>}, created: {-5, 200}, levels: {<<>>, <<2, 130>>, <<1, 1, 1>>},
                          areas: UNION {[1..n -> AnArea] : n \in 0..1}
                                 \cup {<<[name |-> <<1>>, kind |-> <<2>>, polygons |-> <<<<<<Pt(5, 5)>>, <<Pt(5, 5)>>>>>>],
                                         [name |-> <<3>>, kind |-> <<>>, polygons |-> <<<<<<Pt(-9, 8)>>>>>>]>>}])
OutlinesAgree ==
    [][/\ asked'.of = "points" =>
             \A i, j \in 1..4 : i < j => GroundIsDivided(asked'.in.ring, i, j, asked'.in.at)
       /\ asked'.of = "holes" => HolesBelong(asked'.in.outers, asked'.in.holes)
       /\ asked'.of = "steps" => StepsAreSummed(asked'.in)
       /\ asked'.of = "file" => FileIsRead(asked'.in)]_asked
\* A hole belongs to the smallest outline around it, also when it touches that.
SharedEdges ==
    [][asked'.of = "holes" => \A i \in DOMAIN asked'.in.holes : asked'.in.holes[i] # <<>> =>
           SharedEdgesBelong(asked'.in.outers, asked'.in.holes[i])]_asked
\* The writer refuses what the reader would.
WrittenIsRead == [][asked'.of = "file" => WrittenIsReadable(asked'.in)]_asked

-----------------------------------------------------------------------------
(***************************************************************************)
(* Stores of up to three files, triangles in triangles, some of them in     *)
(* two files, and of Natural Earth's layers some, all or none; asked about *)
(* points, in all or some of the triangles, and names.                     *)
(***************************************************************************)
SmallOf == 11 :> 1 @@ 12 :> 2 @@ 13 :> 3          \* 1 to 3 are a to c; 9 is a space
Cosine == [d \in 0..StoredLat |-> 100 - (100 * d * d) \div (StoredLat * StoredLat)]
Radii == <<5>> :> 10 @@ <<6>> :> 1
Kinds == "country" :> <<41>> @@ "region" :> <<42>> @@ "water" :> <<43>>
Keys == <<"NAME_EN", "NAME">>
Aliases == <<"NAME_EN", "NAME", "ISO_A2">>
Contexts == <<"admin">>
Cities == {<<5>>}
Credit == <<45>>
None == <<99>>
DPrefix == <<20>>
DExt == <<21>>
EPrefix == <<22>>
EExt == <<23>>
Triangle(k) == <<Pt(0, 0), Pt(k, 0), Pt(0, k)>>
Named(name, kind, k) == [name |-> name, kind |-> kind, polygons |-> <<<<Triangle(2 * k)>>>>]
Written(credit, areas) ==
    WriteDerived([source |-> <<>>, attribution |-> credit, created |-> 1, levels |-> <<>>, areas |-> areas]).bytes
FileBytes == <<Written(<<46>>, <<Named(<<1>>, K(7), 16), Named(<<1, 9, 2>>, K(9), 12)>>),
               Written(<<47>>, <<Named(<<1>>, K(7), 16), Named(<<2>>, <<5>>, 14), Named(<<2>>, K(9), 8)>>),
               Written(<<48>>, <<Named(<<3>>, K(2), 18), Named(<<11>>, K(4), 17), Named(<<3>>, <<6>>, 6)>>),
               Written(<<49>>, <<Named(<<12, 9, 1>>, <<6>>, 10)>>), <<1, 2>>, <<>>>>
Entry(i, f) == [name |-> (IF f = 4 THEN EPrefix ELSE DPrefix) \o <<i>> \o DExt, isDir |-> f = 6, opens |-> f < 6,
                bytes |-> FileBytes[f]]
Limits == [files |-> 3, areas |-> 9, bytes |-> 200, geometry |-> [polygons |-> 9, rings |-> 9]]
Feature(props, k) == [properties |-> props, shape |-> "Polygon", whole |-> TRUE, polygons |-> <<<<Triangle(k)>>>>]
CountryLayer == <<Feature("NAME_EN" :> <<13>> @@ "NAME" :> <<13, 1>> @@ "ISO_A2" :> <<9, 13>>, 18),
                  Feature("NAME_EN" :> None \o None, 3), Feature("ISO_A2" :> <<1>>, 18)>>
RegionLayer == <<Feature("NAME" :> <<1>> @@ "admin" :> <<13, 1>> @@ "type_en" :> None, 15),
                 Feature("NAME_EN" :> <<2, 9, 1>> @@ "NAME" :> <<9, 9>> @@ "admin" :> <<3>> @@ "ISO_A2" :> <<3>>, 9)>>
Spoiled == <<[RegionLayer[1] EXCEPT !.whole = FALSE], RegionLayer[2]>>
Layers == <<"country" :> CountryLayer @@ "region" :> RegionLayer @@ "water" :> <<Feature("NAME" :> <<12>>, 2)>>,
            "country" :> CountryLayer @@ "region" :> Spoiled, <<>>>>
StoreOf(files, layers, limits) ==
    [entries |-> [i \in DOMAIN files |-> Entry(i, files[i])], natural |-> Layers[layers], limits |-> limits]
AskStores ==
    Asks("store", [files: UNION {[1..n -> 1..6] : n \in 0..3},
                   limits: {Limits, [Limits EXCEPT !.files = 1], [Limits EXCEPT !.bytes = 60, !.geometry.rings = 3],
                            [Limits EXCEPT !.areas = 3], [Limits EXCEPT !.geometry.polygons = 5]}])
Orderings == {<<>>, <<1>>, <<2>>, <<3>>} \cup {s \in [1..2 -> 1..3] \cup [1..3 -> 1..3] : \A i, j \in DOMAIN s : s[i] = s[j] => i = j}
SourceOf(q) == Source(StoreOf(q.files, q.layers, Limits), IF q.osm THEN "osm" ELSE "natural-earth")
AskPlaces == Asks("place", [src: [files: Orderings, layers: 1..2, osm: BOOLEAN], at: {Pt(1, 1), Pt(3, 4), Pt(5, 9)}])
AskNames ==
    Asks("name", [src: [files: {<<>>, <<1>>, <<1, 2>>, <<3, 1>>, <<2, 3>>}, layers: 1..3, osm: {FALSE}], text: {<<1>>, <<9, 12, 9>>, <<3, 8, 1>>, <<1, 8, 13, 1>>, <<2, 9, 1, 8, 3>>, <<8, 1>>},
                  points: {<<>>, <<[names |-> <<<<11>>>>, kind |-> <<6>>, lat |-> 1, lon |-> 1],
                                   [names |-> <<<<2>>, <<1>>>>, kind |-> <<5>>, lat |-> 17, lon |-> 30],
                                   [names |-> <<<<2, 9, 3>>>>, kind |-> <<>>, lat |-> 7, lon |-> 7]>>},
                  levels: {{}, {"locality"}, {"country", "city"}}])
Parts == {SquareAt(0, 0, 3), SquareAt(0, 6, 2), SquareAt(2, 11, 2), SquareAt(15, 15, 2), SquareAt(-12, -9, 1), <<>>}
AskParts == Asks("parts", UNION {[1..n -> Parts] : n \in 0..4})
PlacesAgree ==
    [][/\ asked'.of = "store" => StoreIsLoaded(StoreOf(asked'.in.files, 3, asked'.in.limits), {<<>>, <<1>>, <<7, 2>>, <<2, 7, 1>>, <<1, 2, 3, 1>>})
       /\ asked'.of = "place" =>
             PointIsPlaced(SourceOf(asked'.in.src), asked'.in.at,
                           <<"country", "region", "city", "water", "locality", "macrohood", "neighbourhood", "street">>)
       /\ asked'.of = "name" => NameIsFound(SourceOf(asked'.in.src), asked'.in.text, asked'.in.points, asked'.in.levels)
       /\ asked'.of = "parts" => ExtentIsMain([polygons |-> [i \in DOMAIN asked'.in |-> <<asked'.in[i]>>]])]_asked

-----------------------------------------------------------------------------
(***************************************************************************)
(* The north of a world of eight tiles a side, with two places, ways or areas on either *)
(* side of the edges of tiles and of the map, and points near them.        *)
(***************************************************************************)
Ladder == <<"country", "water", "locality", "neighbourhood", "area", "street">>
Specs == "locality" :> [layer |-> "places", kinds |-> {"locality"}, zoom |-> 3, line |-> FALSE]
         @@ "neighbourhood" :> [layer |-> "places", kinds |-> {"hood"}, zoom |-> 3, line |-> FALSE]
         @@ "area" :> [layer |-> "landuse", kinds |-> {"park"}, zoom |-> 3, line |-> FALSE]
         @@ "street" :> [layer |-> "roads", kinds |-> {}, zoom |-> 3, line |-> TRUE]
Caps == "locality" :> 6 @@ "neighbourhood" :> 8 @@ "street" :> 5
Factors == [z \in 0..3 |-> <<400, 200, 141, 100>>[z + 1]]
Ranks == "suburb" :> 0 @@ "quarter" :> 1
AllRefs == [k \in 1..32 |-> [z |-> 3, x |-> (k - 1) % 8, y |-> (k - 1) \div 8]]
           \o [k \in 1..2 |-> [z |-> 1, x |-> k - 1, y |-> 0]]
Feat(tags, zoom, id, points, lines, boxes) ==
    [tags |-> tags, zoom |-> zoom, id |-> id, points |-> points, lines |-> lines, polygons |-> boxes]
Kind(kind, detail, name) == "kind" :> kind @@ "kind_detail" :> detail @@ "name" :> name
Spots == {P(6, 20), P(9, 20), P(62, 18), P(1, 23), P(7, 25), P(30, 20)}
SomePlaces ==
    {Feat(Kind("locality", "town", "a"), 3, 0, <<p>>, <<>>, <<>>) : p \in Spots}
    \cup {Feat(Kind("locality", d, "b") @@ "name:en" :> "c", z, 0, <<p>>, <<>>, <<>>) :
            p \in {P(9, 20), P(63, 21), P(20, 31)}, d \in {"city", "village"}, z \in {0, 2, 3}}
    \cup {Feat(Kind("hood", d, n), 3, 0, <<p>>, <<>>, <<>>) : d \in {"suburb", "block"}, n \in {"", "d"}, p \in {P(2, 22), P(58, 20)}}
OptsOf(levels) == [language |-> "", caps |-> <<>>, onWay |-> FALSE, prominent |-> FALSE, levels |-> levels,
                   boundaries |-> <<>>]
AskNear == Asks("near", [feats: {<<f, g>> : f \in {k \in SomePlaces : k.tags.name # "b"}, g \in SomePlaces}, at: {P(7, 21), P(0, 22)}, prominent: BOOLEAN])
SomeWays ==
    {Feat(Kind(k, "path", n), 3, 0, <<>>, <<ln>>, <<>>) :
        k \in {"road", "rail"}, n \in {"", "e", "f"}, ln \in {<<P(5, 3), P(9, 3)>>, <<P(9, 1), P(9, 6), P(12, 6)>>, <<P(1, 9)>>, <<P(3, 8), P(9, 8)>>, <<P(63, 3), P(63, 1)>>}}
AskWays == Asks("way", [feats: {<<f, g>> : f \in SomeWays, g \in SomeWays}, at: {P(7, 4), P(3, 5)}])
Box(w, n, e, s) == [west |-> w, north |-> n, east |-> e, south |-> s]
\* A wide area with a hole, one within it, and their labels here or there.
SomeAreas2 == {Feat("kind" :> "park", 3, 1, <<>>, <<>>, <<<<Box(2, 2, 30, 6), Box(9, 3, 11, 5)>>>>),
               Feat("kind" :> "park", 3, 2, <<>>, <<>>, <<<<Box(3, 3, 6, 5)>>, <<Box(18, 3, 21, 5)>>>>),
               Feat("kind" :> "wood", 3, 3, <<>>, <<>>, <<<<Box(0, 0, 40, 20)>>>>)}
Labels == {Feat("name" :> "g", 3, id, <<p>>, <<>>, <<>>) : id \in {1, 2}, p \in {P(28, 4), P(4, 4), P(12, 12)}}
Known == [containment |-> "inside", name |-> "h", kind |-> "k", credit |-> "m"]
AskAreaOf ==
    Asks("area", [areas: {<<f, g>> : f \in SomeAreas2, g \in SomeAreas2}, labels: {<<>>} \cup {<<f, g>> : f \in {k \in Labels : k.id = 1}, g \in {k \in Labels : k.id = 2}},
                  pts: {<<P(4, 4)>>, <<P(10, 4)>>, <<P(4, 4), P(20, 4)>>, <<P(19, 4), P(90, 4), P(5, 4)>>},
                  has: BOOLEAN, bounds: {<<"no data", "inside">>, <<"outside", "no data">>}])
AreaOpts(in) ==
    LET said(c) == [p \in Range(in.pts) |-> [Known EXCEPT !.containment = c]]
    IN  [OptsOf({"area", "country", "water"}) EXCEPT !.boundaries =
            "country" :> said(in.bounds[1]) @@ (IF in.has THEN "water" ELSE "area") :> said(in.bounds[2])]
AreaTiles(in) == [Published("landuse" :> in.areas @@ "pois" :> in.labels, Range(AllRefs))
                    EXCEPT ![[z |-> 3, x |-> 2, y |-> 1]].ok = Len(in.pts) < 3]
LookupsAgree ==
    [][/\ asked'.of = "near" =>
             LET layers == "places" :> asked'.in.feats
                 src == Published(layers, Range(AllRefs))
                 opts == [OptsOf({}) EXCEPT !.prominent = asked'.in.prominent, !.language = "name:en"]
             IN  /\ NearestIsFound(layers, src, AllRefs, "locality", asked'.in.at, opts)
                 /\ NearestIsFound(layers, src, Reverse(AllRefs), "neighbourhood", asked'.in.at, opts)
       /\ asked'.of = "way" =>
             LET layers == "roads" :> asked'.in.feats
             IN  WayIsFound(layers, Published(layers, Range(AllRefs)), AllRefs, "street", asked'.in.at, OptsOf({}))
       /\ asked'.of = "area" =>
             PlacesAreWhole(AreaTiles(asked'.in), asked'.in.has, asked'.in.pts, AreaOpts(asked'.in), AllRefs)]_asked
BatchesAgree ==
    [][asked'.of = "area" /\ asked'.in.has /\ Len(asked'.in.pts) < 3 =>
           BatchIsSingles(AreaTiles(asked'.in), TRUE, asked'.in.pts, AreaOpts(asked'.in), AllRefs)]_asked

-----------------------------------------------------------------------------
MCNext == AskRings \/ AskExtract \/ AskElements \/ AskBlobs \/ AskTiles \/ AskNumbers \/ AskArchives
          \/ AskRanges \/ AskPlans \/ AskAreas \/ AskRadius \/ AskReads
          \/ AskPoints \/ AskHoles \/ AskSteps \/ AskFiles \/ AskStores \/ AskPlaces \/ AskNames \/ AskParts
          \/ AskNear \/ AskWays \/ AskAreaOf
MCSpec == Init /\ [][MCNext]_asked
=============================================================================
