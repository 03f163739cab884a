------------------------------- MODULE Gazetteer -------------------------------
(***************************************************************************)
(* Where what is called something is (boundary/find.go): areas of Natural  *)
(* Earth, areas of the derived files, and places that are points, by name  *)
(* and by what they are in.                                                *)
(*                                                                         *)
(* A query is [name, within]; a candidate [name, level, type, in, extent,  *)
(* parts, shown, exact], in of which is a sequence of names; a place is    *)
(* [names, kind, lat, lon].                                                *)
(***************************************************************************)
EXTENDS Places

CONSTANTS
    CosAt,                  \* the hundredths a degree of longitude shrinks to
    MaxPartGap, MapLat,
    KMPerUnit, PointRadius, OtherRadius,
    InteriorSteps

ASSUME GazetteerAssumption ==
    /\ {MaxPartGap, MapLat, OtherRadius} \subseteq Nat /\ {KMPerUnit, InteriorSteps} \subseteq Nat \ {0}
    /\ InteriorSteps % 2 = 0 /\ MapLat <= StoredLat
    /\ DOMAIN CosAt = 0..StoredLat /\ \A d \in 0..StoredLat : CosAt[d] \in 0..100

-----------------------------------------------------------------------------
(***************************************************************************)
(* What of an area to show.                                                *)
(***************************************************************************)
\* The square of the gap between two boxes, where they are nearest the equator,
\* in hundredths of a unit.
Gap(a, b) ==
    LET dLon == Max({0, b.west - a.east, a.west - b.east})
        dLat == Max({0, b.south - a.north, a.south - b.north})
        ends == {Max({a.south, b.south}), Min({a.north, b.north})}
        lat == IF Min(ends) > 0 THEN Min(ends) ELSE IF Max(ends) < 0 THEN -Max(ends) ELSE 0
    IN  (dLon * CosAt[lat])^2 + (100 * dLat)^2

IsNearby(a, b) == Gap(a, b) <= (100 * MaxPartGap)^2

\* With what is near, and what is near that.
RECURSIVE Gathered(_, _)
Gathered(boxes, taken) ==
    LET more == taken \cup {i \in DOMAIN boxes : \E j \in taken : IsNearby(boxes[i], boxes[j])}
    IN  IF more = taken THEN taken ELSE Gathered(boxes, more)

Boxes(a) == SelectSeq([i \in DOMAIN a.polygons |-> PolygonBox(a.polygons[i])], LAMBDA b : ~IsEndless(b))
Largest(boxes) == Min({i \in DOMAIN boxes : \A k \in DOMAIN boxes : SizeOf(boxes[i]) >= SizeOf(boxes[k])})

\* Its largest part and those that lead from it, none far from the next.
MainExtent(a) ==
    LET boxes == Boxes(a)
        taken == Gathered(boxes, {Largest(boxes)})
    IN  IF boxes = <<>> THEN [extent |-> Around({0}, {0}), shown |-> 0]
        ELSE [extent |-> Around({boxes[i].south : i \in taken} \cup {boxes[i].north : i \in taken},
                                {boxes[i].west : i \in taken} \cup {boxes[i].east : i \in taken}),
              shown |-> Cardinality(taken)]

\* From the middle outwards, a step up before a step down.
GridOffset(i) == IF i % 2 = 1 THEN (i + 1) \div 2 ELSE -((i + 1) \div 2)

\* The first point of a grid over the largest part that the area holds, or none.
InteriorPoint(a) ==
    LET size == InteriorSteps + 1
        outline(i) == PolygonBox(a.polygons[i])
        largest == {i \in DOMAIN a.polygons :
                       \A k \in DOMAIN a.polygons : SizeOf(outline(i)) >= SizeOf(outline(k))}
        b == outline(Min(largest))
        Along(from, to, i) == from + ((InteriorSteps \div 2 + GridOffset(i)) * (to - from)) \div InteriorSteps
        At(k) == [lat |-> Along(b.south, b.north, k \div size), lon |-> Along(b.west, b.east, k % size)]
        held == {k \in 0..(size * size - 1) : HoldsPoint(a, At(k))}
    IN  IF largest = {} THEN {} ELSE IF IsEndless(b) \/ held = {} THEN {} ELSE {At(Min(held))}

RadiusOf(kind) == IF kind \in DOMAIN PointRadius THEN PointRadius[kind] ELSE OtherRadius

AroundPoint(p, km) ==
    LET dLat == km \div KMPerUnit
        dLon == (100 * km) \div (KMPerUnit * Max({CosAt[Max({p.lat, -p.lat})], 1}))
    IN  [west |-> Max({p.lon - dLon, -StoredLon}), east |-> Min({p.lon + dLon, StoredLon}),
         south |-> Max({p.lat - dLat, -MapLat}), north |-> Min({p.lat + dLat, MapLat})]

-----------------------------------------------------------------------------
\* The levels a candidate is listed under.
ListedLevel(a) ==
    IF IsCity(a) THEN City
    ELSE IF a.kind \notin DOMAIN Numerals THEN "locality"
    ELSE IF Numerals[a.kind] <= 2 THEN Countries
    ELSE IF Numerals[a.kind] <= 4 THEN Regions ELSE "locality"

(***************************************************************************)
(* What a point is in: the name of the nearest wider area, its region and  *)
(* its country, to be shown; and of all of them, to be asked for.          *)
(***************************************************************************)
ContextAt(src, at, level, IsWider(_)) ==
    LET wider == StablySorted(Holding(src.derived, at, LAMBDA b : ~IsCountry(b) /\ IsWider(b)),
                              LAMBDA c, d : OuterFirst(d, c))
        Of(layer) == IF layer.ok THEN (IF AreaAt(layer.areas, at) = 0 THEN <<>>
                                       ELSE <<layer.areas[AreaAt(layer.areas, at)]>>) ELSE <<>>
        region == IF level = "locality" THEN Of(src.natural[Regions]) ELSE <<>>
        country == Of(src.natural[Countries])
        called == IF country # <<>> THEN <<country[1].name>>
                  ELSE IF region # <<>> THEN SubSeq(region[1].names.context, 1, Min({Len(region[1].names.context), 1}))
                  ELSE <<>>
        near == IF wider = <<>> THEN <<>>
                ELSE IF ListedLevel(wider[1].area) = "locality" THEN <<wider[1].area.name>> ELSE <<>>
        shown == near \o (IF region = <<>> THEN <<>> ELSE <<region[1].name>>)
        AllNames(a) == {a.name} \cup Range(a.names.aliases)
    IN  [in |-> IF Range(called) \subseteq Range(shown) THEN shown ELSE shown \o called,
         context |-> {wider[i].area.name : i \in DOMAIN wider}
                     \cup UNION {AllNames(region[i]) \cup Range(region[i].names.context) : i \in DOMAIN region}
                     \cup UNION {AllNames(country[i]) : i \in DOMAIN country}]

IsWithin(within, context) == within = <<>> \/ AmongFold(within, context)

Candidate(name, level, type, in, main, parts, exact) ==
    [name |-> name, level |-> level, type |-> type, in |-> in, extent |-> main.extent,
     parts |-> parts, shown |-> main.shown, exact |-> exact]

\* Of a layer.
FindNatural(src, query, level) ==
    LET layer == src.natural[level]
        found == SelectSeq(layer.areas, LAMBDA a : /\ MatchName(a.names.aliases, query.name)
                                                   /\ IsWithin(query.within, Range(a.names.context)))
        In(a) == IF level = Regions THEN SubSeq(a.names.context, 1, Min({Len(a.names.context), 1})) ELSE <<>>
    IN  IF ~layer.ok THEN <<>>
        ELSE [i \in DOMAIN found |->
                Candidate(found[i].name, level, found[i].names.typ, In(found[i]), MainExtent(found[i]),
                          Len(found[i].polygons), IsExact(found[i].names.aliases, query.name))]

DerivedContext(src, a) ==
    IF InteriorPoint(a) = {} \/ ListedLevel(a) = Countries THEN [in |-> <<>>, context |-> {}]
    ELSE ContextAt(src, CHOOSE p \in InteriorPoint(a) : TRUE, ListedLevel(a),
                   LAMBDA b : ~SameArea(a, b) /\ BoxArea(b) > BoxArea(a))

\* Of the derived files, an area once though two have it.
FindDerived(src, query) ==
    LET all == FlattenSeq([i \in DOMAIN src.derived |-> src.derived[i].areas])
        once == Once(SelectSeq(all, LAMBDA a : MatchName(<<a.name>>, query.name)), SameArea)
        found == SelectSeq(once, LAMBDA a : IsWithin(query.within, DerivedContext(src, a).context))
    IN  [i \in DOMAIN found |->
            Candidate(found[i].name, ListedLevel(found[i]), found[i].kind, DerivedContext(src, found[i]).in,
                      MainExtent(found[i]), Len(found[i].polygons), EqualFold(found[i].name, query.name))]

\* Those of a level that is asked for and that are not found as well already.
WithoutRepeats(levels, derived, natural) ==
    SelectSeq(derived, LAMBDA c :
        /\ levels = {} \/ c.level \in levels
        /\ \A n \in Range(natural) : n.exact = c.exact /\ n.level = c.level => ~EqualFold(n.name, c.name))

\* Of the points, those no area of their name is around.
FindPoints(src, query, points, areas) ==
    LET Context(p) == ContextAt(src, p, "locality", LAMBDA b : TRUE)
        found == SelectSeq(points, LAMBDA p :
                    /\ MatchName(p.names, query.name)
                    /\ \A c \in Range(areas) : EqualFold(c.name, p.names[1]) => ~BoxHolds(c.extent, p)
                    /\ IsWithin(query.within, Context(p).context))
        Main(p) == [extent |-> AroundPoint(p, RadiusOf(p.kind)), shown |-> 1]
    IN  [i \in DOMAIN found |->
            Candidate(found[i].names[1], "locality", found[i].kind, Context(found[i]).in, Main(found[i]), 1,
                      IsExact(found[i].names, query.name))]

\* What is called so, or if nothing is, what is called so and more.
FindAll(src, query, points, levels) ==
    LET Natural(l) == IF levels = {} \/ l \in levels THEN FindNatural(src, query, l) ELSE <<>>
        natural == Natural(Countries) \o Natural(Regions)
        areas == natural \o WithoutRepeats(levels, FindDerived(src, query), natural)
        all == areas \o (IF levels = {} \/ "locality" \in levels THEN FindPoints(src, query, points, areas)
                         ELSE <<>>)
        exact == SelectSeq(all, LAMBDA c : c.exact)
    IN  IF query.name = <<>> THEN <<>> ELSE IF exact # <<>> THEN exact ELSE all

\* A query is what is before the first comma, within what is after.
Query(text) ==
    LET commas == {i \in DOMAIN text : text[i] = Comma}
        cut == Min(commas \cup {Len(text) + 1})
    IN  [name |-> Trimmed(SubSeq(text, 1, cut - 1)), within |-> Trimmed(SubSeq(text, cut + 1, Len(text)))]

-----------------------------------------------------------------------------
(***************************************************************************)
(* What is shown of an area is its largest part and whatever a chain of    *)
(* parts leads to, none far from the next; a part that is not shown is far *)
(* from every one that is.                                                 *)
(***************************************************************************)
ExtentIsMain(a) ==
    LET boxes == Boxes(a)
        n == Len(boxes)
        Leads(S) == \A i \in S : \A k \in 1..n : IsNearby(boxes[i], boxes[k]) => k \in S
        chains == {S \in SUBSET (1..n) : Largest(boxes) \in S /\ Leads(S)}
        main == {i \in 1..n : \A S \in chains : i \in S}
        shown == MainExtent(a)
    IN  n > 0 =>
          /\ shown.shown = Cardinality(main)
          /\ shown.extent.west = Min({boxes[i].west : i \in main}) /\ shown.extent.east = Max({boxes[i].east : i \in main})
          /\ shown.extent.south = Min({boxes[i].south : i \in main}) /\ shown.extent.north = Max({boxes[i].north : i \in main})

(***************************************************************************)
(* A search of two copies of the files finds what one does.  Of what it    *)
(* finds, something called exactly so leaves out what is called so and     *)
(* more, each is called so, and none is left out that has no namesake; and *)
(* what a narrower search finds exactly has a namesake in the wider one.   *)
(***************************************************************************)
NameIsFound(src, text, points, levels) ==
    LET query == Query(text)
        found == FindAll(src, query, points, levels)
        wide == FindAll(src, [query EXCEPT !.within = <<>>], points, levels)
        Copied == [src EXCEPT !.derived = @ \o @]
        derived == UNION {Range(s.areas) : s \in Range(src.derived)}
        Namesake(name, S) == \E c \in Range(S) : EqualFold(c.name, name)
    IN  /\ FindAll(Copied, query, points, levels) = found
        /\ \A c, d \in Range(found) : c.exact = d.exact
        /\ \A i, j \in DOMAIN found : i # j => found[i] # found[j]
        /\ \A c \in Range(found) :
              /\ levels = {} \/ c.level \in levels
              /\ c.exact => Namesake(c.name, wide)
              /\ c.extent.west <= c.extent.east /\ c.extent.south <= c.extent.north
        /\ query.within = <<>> /\ levels = {} /\ query.name # <<>> =>
              /\ \A a \in derived : EqualFold(a.name, query.name) => Namesake(a.name, found)
              /\ \A p \in Range(points) : EqualFold(p.names[1], query.name) => Namesake(p.names[1], found)
=============================================================================
