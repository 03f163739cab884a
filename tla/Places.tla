--------------------------------- MODULE Places ---------------------------------
(***************************************************************************)
(* What is where (boundary/source.go, boundary/boundary.go) and where what *)
(* is (boundary/find.go): the outlines of a store, some in files derived   *)
(* from OpenStreetMap and some Natural Earth's, asked about a point or a   *)
(* name.                                                                   *)
(*                                                                         *)
(* Text is a sequence of bytes and a point is in stored units, as they are *)
(* in Outlines.  Of Natural Earth a property that is not text is as good   *)
(* as one that is not there.                                               *)
(***************************************************************************)
EXTENDS Outlines

CONSTANTS
    Space, Comma, Dot,
    LowerCase,              \* of every capital, its small letter
    RegionBytes,            \* what a region's name may hold
    MaxRegionName,
    DerivedPrefix, DerivedExt, ExtractPrefix, ExtractExt,
    CityKinds, LayerKind,
    NameKeys, KindKeys, AliasKeys, ContextKeys, TypeKey,
    NaturalEarthCredit,
    NoName                  \* what Natural Earth calls what has no name

ASSUME PlacesAssumption ==
    /\ MaxRegionName \in Nat
    /\ \A c \in DOMAIN LowerCase : LowerCase[c] \notin DOMAIN LowerCase

Countries == "country"
Regions == "region"
Waters == "water"
DerivedLevels == {"locality", "macrohood", "neighbourhood"}
City == "city"

-----------------------------------------------------------------------------
\* Text.
Lowered(s) == [i \in DOMAIN s |-> IF s[i] \in DOMAIN LowerCase THEN LowerCase[s[i]] ELSE s[i]]
EqualFold(s, t) == Lowered(s) = Lowered(t)
AmongFold(s, S) == \E t \in S : EqualFold(s, t)

Trimmed(s) ==
    LET kept == {i \in DOMAIN s : s[i] # Space}
    IN  IF kept = {} THEN <<>> ELSE SubSeq(s, Min(kept), Max(kept))

IsShouted(s) ==
    LET small == {LowerCase[c] : c \in DOMAIN LowerCase}
    IN  /\ \A i \in DOMAIN s : s[i] \notin small
        /\ \E i \in DOMAIN s : s[i] \in DOMAIN LowerCase

\* Does any of the names start with the one asked for, a word at a time?
IsNear(aliases, name) == \E i \in DOMAIN aliases : IsPrefix(Lowered(Append(name, Space)), Lowered(aliases[i]))
IsExact(aliases, name) == \E i \in DOMAIN aliases : EqualFold(aliases[i], name)
MatchName(aliases, name) == IsExact(aliases, name) \/ IsNear(aliases, name)

-----------------------------------------------------------------------------
\* The files.
ValidRegion(r) ==
    /\ r # <<>> /\ Len(r) <= MaxRegionName /\ r[1] # Dot
    /\ \A i \in DOMAIN r : r[i] \in RegionBytes \cup {Dot}

DerivedFile(r) == IF ValidRegion(r) THEN [ok |-> TRUE, name |-> DerivedPrefix \o r \o DerivedExt] ELSE Broken
ExtractFile(r) == IF ValidRegion(r) THEN [ok |-> TRUE, name |-> ExtractPrefix \o r \o ExtractExt] ELSE Broken

RegionOf(name) ==
    LET r == SubSeq(name, Len(DerivedPrefix) + 1, Len(name) - Len(DerivedExt))
    IN  IF IsPrefix(DerivedPrefix, name) /\ IsSuffix(DerivedExt, name) /\ ValidRegion(r)
          THEN [ok |-> TRUE, region |-> r] ELSE Broken

\* A store is [entries, natural, limits]: entries are in the order of their
\* names, [name, isDir, opens, bytes]; natural has the features of each layer
\* whose file opens.
DerivedRegions(store) ==
    LET files == SelectSeq(store.entries, LAMBDA e : ~e.isDir /\ RegionOf(e.name).ok)
    IN  [i \in DOMAIN files |-> RegionOf(files[i].name).region]

Available(store) ==
    {Countries, Regions, Waters} \subseteq DOMAIN store.natural \/ DerivedRegions(store) # <<>>

\* What is refused costs nothing of what the others share.
Derived(store) ==
    LET Take(got, e) ==
            LET left == got.left
                read == ReadDerived(SubSeq(e.bytes, 1, Min({left.bytes, Len(e.bytes)})), left.geometry)
            IN  IF \/ e.isDir \/ ~RegionOf(e.name).ok \/ Len(got.sets) >= left.files \/ ~e.opens
                   \/ ~read.ok \/ Len(read.areas) > left.areas
                  THEN got
                  ELSE [sets |-> Append(got.sets, [credit |-> read.head.attribution, areas |-> read.areas]),
                        left |-> [left EXCEPT
                            !.areas = @ - Len(read.areas), !.bytes = Max({@ - Len(e.bytes), 0}),
                            !.geometry.polygons = @ - SumOf(LAMBDA a : Len(a.polygons), read.areas),
                            !.geometry.rings = @ - SumOf(LAMBDA a : SumOf(Len, a.polygons), read.areas)]]
    IN  FoldLeft(Take, [sets |-> <<>>, left |-> store.limits], store.entries)

-----------------------------------------------------------------------------
(***************************************************************************)
(* Natural Earth's layers.  A feature is [properties, shape, whole,        *)
(* polygons].                                                              *)
(***************************************************************************)
FirstOf(props, keys, Suits(_)) ==
    LET said == {i \in DOMAIN keys : keys[i] \in DOMAIN props /\ Trimmed(props[keys[i]]) # <<>>
                                     /\ Suits(props[keys[i]])}
    IN  IF said = {} THEN <<>> ELSE props[keys[Min(said)]]

\* The first that is not all capitals, or the first.
FirstName(props) ==
    LET calm == FirstOf(props, NameKeys, LAMBDA s : ~IsShouted(s))
    IN  IF calm # <<>> THEN calm ELSE FirstOf(props, NameKeys, IsShouted)

FeatureKind(props, fallback) ==
    LET kind == FirstOf(props, KindKeys, LAMBDA s : TRUE) IN IF kind = <<>> THEN fallback ELSE kind

Said(props, k) ==
    IF k \in DOMAIN props THEN (IF Trimmed(props[k]) = NoName THEN <<>> ELSE Trimmed(props[k])) ELSE <<>>

\* Each once, however it is written; and no alias that is a context.
NamesOf(props, name) ==
    LET Add(list, s) == IF s = <<>> \/ AmongFold(s, Range(list)) THEN list ELSE Append(list, s)
        context == FoldLeft(LAMBDA l, k : Add(l, Said(props, k)), <<>>, ContextKeys)
        AddAlias(l, k) == IF AmongFold(Said(props, k), Range(context)) THEN l ELSE Add(l, Said(props, k))
    IN  [aliases |-> FoldLeft(AddAlias, <<name>>, AliasKeys), context |-> context,
         typ |-> Said(props, TypeKey)]

ReadGeometry(f) == IF f.shape \in {"Polygon", "MultiPolygon"} THEN f.polygons ELSE <<>>

\* One feature whose shape cannot be read spoils the file.
ReadLayer(features, kind, fromFeature) ==
    LET named == SelectSeq(features, LAMBDA f : FirstName(f.properties) # <<>>)
        shown == SelectSeq(named, LAMBDA f : ReadGeometry(f) # <<>>)
        AreaOf(f) == [name |-> FirstName(f.properties),
                      kind |-> IF fromFeature THEN FeatureKind(f.properties, kind) ELSE kind,
                      polygons |-> f.polygons,
                      names |-> NamesOf(f.properties, FirstName(f.properties))]
    IN  IF shown = <<>> \/ \E i \in DOMAIN named : ~named[i].whole THEN Broken
        ELSE [ok |-> TRUE, areas |-> [i \in DOMAIN shown |-> AreaOf(shown[i])]]

\* What is opened and read once: the derived sets, and the layers.
Layer(store, layer) ==
    IF layer \in DOMAIN store.natural
      THEN ReadLayer(store.natural[layer], LayerKind[layer], layer = Waters) ELSE Broken

Source(store, countryFrom) ==
    [derived |-> Derived(store).sets, countryFrom |-> countryFrom,
     natural |-> [l \in {Countries, Regions, Waters} |-> Layer(store, l)]]

-----------------------------------------------------------------------------
(***************************************************************************)
(* What is at a point.                                                     *)
(***************************************************************************)
IsCity(a) == a.kind \in CityKinds
IsCountry(a) == a.kind \in DOMAIN Numerals /\ Numerals[a.kind] = 2
IsSmall(a) == ~IsCountry(a) /\ ~IsCity(a)
SameArea(a, b) == a.name = b.name /\ a.kind = b.kind /\ AreaBox(a) = AreaBox(b)
OuterFirst(c, d) == OutermostFirst(c.area, d.area)

\* The areas of every set that hold the point, and whose they are.
Holding(sets, at, Suits(_)) ==
    FlattenSeq([i \in DOMAIN sets |->
        LET areas == SelectSeq(Containing(sets[i].areas, at), Suits)
        IN  [k \in DOMAIN areas |-> [area |-> areas[k], credit |-> sets[i].credit]]])

Once(s, Same(_, _)) ==
    LET first == {i \in DOMAIN s : \A k \in 1..(i - 1) : ~Same(s[k], s[i])}
    IN  FoldLeft(LAMBDA kept, i : IF i \in first THEN Append(kept, s[i]) ELSE kept, <<>>, [i \in DOMAIN s |-> i])

\* The outermost first, and each once though it is in two files.
DerivedStack(sets, at) ==
    StablySorted(Once(Holding(sets, at, IsSmall), LAMBDA c, d : SameArea(c.area, d.area)), OuterFirst)

Says(containment) == [name |-> <<>>, kind |-> <<>>, credit |-> <<>>, containment |-> containment]
Inside(c) == [name |-> c.area.name, kind |-> c.area.kind, credit |-> c.credit, containment |-> "inside"]

\* Mutant of RankIndex: the whole stack is ranked.
RankAll(n, l) ==
    CASE n = 0 \/ l \notin DerivedLevels -> 0
      [] n > 0 /\ l = "locality" -> 1
      [] n > 1 /\ l = "neighbourhood" -> n
      [] n = 3 /\ l = "macrohood" -> 2
      [] OTHER -> 0

\* Of the three innermost of n: the outer one, the inner one, and that between.
RankIndex(n, l) ==
    LET base == Max({n - 3, 0})
    IN  CASE n - base = 0 -> 0
          [] n - base > 0 /\ l = "locality" -> base + 1
          [] n - base > 1 /\ l = "neighbourhood" -> n
          [] n - base = 3 /\ l = "macrohood" -> base + 2
          [] OTHER -> 0

AnswerFromStack(stack, l) ==
    IF stack = <<>> THEN Says("no data")
    ELSE IF RankIndex(Len(stack), l) = 0 THEN Says("outside")
    ELSE Inside(stack[RankIndex(Len(stack), l)])

\* The innermost, of the last file that has it.
DerivedCountry(sets, at) == StablySorted(Holding(sets, at, IsCountry), OuterFirst)

CityAt(sets, at) ==
    LET found == StablySorted(Holding(sets, at, IsCity), OuterFirst)
    IN  IF found # <<>> THEN Inside(Last(found))
        ELSE IF Holding(sets, at, LAMBDA a : TRUE) # <<>> THEN Says("outside") ELSE Says("no data")

LayerFor(l) == {l} \cap {Countries, Regions, Waters}

InLayer(layer, at) ==
    IF ~layer.ok THEN Says("no data")
    ELSE IF AreaAt(layer.areas, at) = 0 THEN Says("outside")
    ELSE Inside([area |-> layer.areas[AreaAt(layer.areas, at)], credit |-> NaturalEarthCredit])

LevelAt(src, l, at) ==
    LET country == IF src.countryFrom = "osm" THEN DerivedCountry(src.derived, at) ELSE <<>>
    IN  CASE l = Countries /\ country # <<>> -> Inside(Last(country))
          [] l = City -> CityAt(src.derived, at)
          [] l \in DerivedLevels -> AnswerFromStack(DerivedStack(src.derived, at), l)
          [] LayerFor(l) # {} /\ (l = Countries => country = <<>>) -> InLayer(src.natural[l], at)
          [] OTHER -> Says("no data")

\* Many levels of one point, for one stack.
ContainsLevels(src, at, levels) ==
    LET stack == DerivedStack(src.derived, at)
    IN  [i \in DOMAIN levels |->
            IF levels[i] \in DerivedLevels THEN AnswerFromStack(stack, levels[i])
            ELSE LevelAt(src, levels[i], at)]

HasDerived(src, Suits(_)) ==
    \E i \in DOMAIN src.derived : \E k \in DOMAIN src.derived[i].areas : Suits(src.derived[i].areas[k])
HasDerivedCountries(src) == HasDerived(src, IsCountry)

CoversLevel(src, l) ==
    \/ l = Countries /\ src.countryFrom = "osm" /\ HasDerivedCountries(src)
    \/ l = City /\ HasDerived(src, IsCity)
    \/ LayerFor(l) # {} /\ src.natural[l].ok /\ src.natural[l].areas # <<>>
    \/ l \in DerivedLevels /\ HasDerived(src, LAMBDA a : TRUE)

-----------------------------------------------------------------------------
(***************************************************************************)
(* What is loaded is within what the files share, and is what it would be  *)
(* without the files that cannot be read.  A derived file is known by its  *)
(* name, and an extract is never taken for one.                            *)
(***************************************************************************)
StoreIsLoaded(store, regions) ==
    LET got == Derived(store)
        Whole(e) == ReadDerived(e.bytes, WholeBudget).ok
        areas == FlattenSeq([i \in DOMAIN got.sets |-> got.sets[i].areas])
        limits == store.limits
    IN  /\ got.sets = Derived([store EXCEPT !.entries = SelectSeq(@, Whole)]).sets
        /\ Len(got.sets) <= limits.files /\ Len(areas) = limits.areas - got.left.areas
        /\ got.left.areas >= 0 /\ got.left.bytes >= 0
        /\ got.left.geometry.polygons = limits.geometry.polygons - SumOf(LAMBDA a : Len(a.polygons), areas)
        /\ got.left.geometry.polygons >= 0 /\ got.left.geometry.rings >= 0
        /\ got.sets # <<>> => Available(store)
        /\ \A r \in regions : ValidRegion(r) =>
              /\ RegionOf(DerivedFile(r).name) = [ok |-> TRUE, region |-> r]
              /\ ~RegionOf(ExtractFile(r).name).ok

(***************************************************************************)
(* The small areas a point is in: each once, whichever file has it and in   *)
(* whatever order; the innermost is named, with at most the two around it, *)
(* from the outer to the inner.  What says where a point is covers it, and *)
(* many levels asked at once say what each would.                          *)
(***************************************************************************)
PointIsPlaced(src, at, levels) ==
    LET stack == DerivedStack(src.derived, at)
        areas == [i \in DOMAIN stack |-> stack[i].area]
        named == {i \in 1..Len(stack) : \E l \in DerivedLevels : RankIndex(Len(stack), l) = i}
        Names(answer) == [answer EXCEPT !.credit = <<>>]
        TurnedRound == [src EXCEPT !.derived = Reverse(@)]
        Copied == [src EXCEPT !.derived = @ \o [i \in DOMAIN @ |-> [@[i] EXCEPT !.credit = <<>>]]]
        sizes == {BoxArea(areas[i]) : i \in DOMAIN areas}
    IN  /\ \A i, j \in DOMAIN areas : i < j =>
              /\ ~SameArea(areas[i], areas[j]) /\ BoxArea(areas[i]) >= BoxArea(areas[j])
        /\ \A s \in Range(src.derived) : \A a \in Range(s.areas) :
              HoldsPoint(a, at) /\ IsSmall(a) <=> \E i \in DOMAIN areas : SameArea(a, areas[i]) /\ HoldsPoint(a, at)
        /\ named = {i \in 1..Len(stack) : Len(stack) - i < 3}
        /\ RankIndex(3, "locality") < RankIndex(3, "macrohood")
        /\ RankIndex(3, "macrohood") < RankIndex(3, "neighbourhood")
        /\ ContainsLevels(src, at, levels) = [i \in DOMAIN levels |-> LevelAt(src, levels[i], at)]
        /\ \A l \in Range(levels) :
              /\ LevelAt(src, l, at).containment = "inside" => CoversLevel(src, l)
              /\ Names(LevelAt(Copied, l, at)) = Names(LevelAt(src, l, at))
              /\ Cardinality(sizes) = Len(areas) /\ l \in DerivedLevels =>
                    Names(LevelAt(TurnedRound, l, at)) = Names(LevelAt(src, l, at))
=============================================================================
