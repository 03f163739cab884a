--------------------------- MODULE TerrainProofs ---------------------------
(***************************************************************************)
(* That no cell claims a depth it does not have, and that a fill which     *)
(* ended well leaves nothing to offer and everything to credit, for any    *)
(* archives, cells and views (module Terrain).                             *)
(***************************************************************************)
EXTENDS Terrain, TLAPS

\* How the archives of a layout share the ground out, as regionFor's comment has
\* it: no cell is inside two regions, each goes on where the global archive stops,
\* and that one goes below the cells.
WellLaidOut ==
    /\ \A i, j \in 1..Last : i # j => Inside[i] \cap Inside[j] = {}
    /\ \A i \in 1..Last : Offers[Regions[i]].min > Offers["global"].max
    /\ Offers["global"].max >= 1

Deep == fill.want > Offers["global"].max

\* The archives a fill has a plan of, and one whose plan is carried out.
Wanted == {0} \cup {i \in fill.regions : fill.want >= Offers[Regions[i]].min}
              \cup (IF layout.coverage THEN {Last + 1} ELSE {})
Stored(i) == Asked(i) \subseteq tiles[Kind(Archive(i))]

\* Which cells are to be settled, and that a region of each was opened.
ExhaustInv ==
    /\ fill.phase \in {"planning", "storing", "copying"} =>
          /\ fill.exhaust = IF Deep THEN fill.view ELSE {}
          /\ fill.regions # {} => Deep
    /\ fill.phase \in {"planning", "storing", "copying", "settling"} =>
          /\ fill.exhaust \subseteq fill.view
          /\ fill.exhaust # {} => Deep
          /\ \A c \in fill.exhaust : RegionFor(c) \subseteq fill.regions
    /\ fill.phase = "done" => fill.exhaust = {}

\* What is on disk by the time the fill is at an archive.
StoredInv ==
    /\ fill.phase = "storing" =>
          /\ fill.at \in Wanted /\ fill.left \subseteq Wanted
          /\ 0 \notin fill.left
          /\ \A i \in Wanted : i = fill.at \/ i \in fill.left \/ Stored(i)
          /\ Asked(fill.at) \subseteq tiles[Kind(Archive(fill.at))] \cup fill.rest
          /\ fill.todo \subseteq Ground(fill.at)
    /\ fill.phase \in {"copying", "settling", "done"} => \A i \in Wanted : Stored(i)

\* What the view's cells are recorded to.
RecordedInv ==
    /\ fill.phase = "storing" /\ fill.want > 0 =>
          \A c \in fill.view : claims[c] >= Cap(0) \/ (fill.at = 0 /\ c \in fill.todo)
    /\ fill.phase \in {"copying", "settling", "done"} /\ fill.want > 0 /\ ~fill.empty =>
          \A c \in fill.view : claims[c] >= Cap(0)
    /\ fill.phase \in {"settling", "done"} /\ Deep =>
          \A c \in fill.view : c \in fill.exhaust \/ claims[c] = 0 \/ claims[c] >= fill.want

\* The list of sources is there or is to be copied, and the source reaches as
\* deep as the global archive.
OwedInv ==
    /\ fill.phase # "idle" => layout # None
    /\ fill.phase \in {"planning", "storing", "copying", "settling", "done"} =>
          sourceMax >= Offers["global"].max
    /\ fill.phase \in {"storing", "copying"} => fill.list \/ (layout.sources => sourcesList)
    /\ fill.phase \in {"settling", "done"} => (layout.sources => sourcesList)

Backed == ExhaustInv /\ StoredInv /\ RecordedInv /\ OwedInv /\ ClaimIsBacked
IInv == TypeOK /\ Backed

-----------------------------------------------------------------------------
(***************************************************************************)
(* The archives of a plan, and what is asked of them.                      *)
(***************************************************************************)
LEMMA ArchiveIsOne ==
    ASSUME TerrainAssumption, NEW i \in Places
    PROVE  /\ Archive(i) \in Archives
           /\ Offers[Archive(i)].min \in Nat /\ Offers[Archive(i)].max \in Nat
           /\ Kind(Archive(i)) = IF i > Last THEN "coverage" ELSE "elevation"
<1>1. CASE i = 0  BY <1>1 DEF TerrainAssumption, Archive, Archives, Kind, Places
<1>2. CASE i \in 1..Last  BY <1>2 DEF TerrainAssumption, Archive, Archives, Kind, Places
<1>3. CASE i = Last + 1  BY <1>3 DEF TerrainAssumption, Archive, Archives, Kind, Places
<1> QED  BY <1>1, <1>2, <1>3 DEF Places, TerrainAssumption

LEMMA AskedTypes ==
    ASSUME TerrainAssumption, TypeOK, NEW i \in Places
    PROVE  /\ Cap(i) \in 0..Deepest /\ Cap(i) <= fill.want
           /\ Cap(i) <= Offers[Archive(i)].max
           /\ Ground(i) \subseteq fill.view /\ fill.view \subseteq Cells
           /\ Asked(i) \subseteq (Cells \cup {World}) \X (0..Deepest)
           /\ Planned(i) \subseteq (Cells \cup {World}) \X (0..Deepest)
<1>1. fill.want \in 0..Deepest /\ fill.view \subseteq Cells  BY DEF TypeOK, Fill
<1>2. Offers[Archive(i)].max \in Nat  BY ArchiveIsOne
<1>3. Cap(i) \in 0..Deepest /\ Cap(i) <= fill.want /\ Cap(i) <= Offers[Archive(i)].max
  BY <1>1, <1>2 DEF Cap, Lesser, TerrainAssumption
<1>4. Ground(i) \subseteq fill.view  BY DEF Ground
<1>5. TilesOf(Ground(i), Cap(i)) \subseteq (Cells \cup {World}) \X (0..Deepest)
  BY <1>1, <1>3, <1>4 DEF TilesOf, TerrainAssumption
<1> QED  BY <1>1, <1>3, <1>4, <1>5 DEF Asked, Planned

LEMMA FirstRegion ==
    ASSUME TerrainAssumption, NEW c
    PROVE  RegionFor(c) \subseteq 1..Last
BY DEF RegionFor, Around

-----------------------------------------------------------------------------
(***************************************************************************)
(* Types.                                                                  *)
(***************************************************************************)
LEMMA AsleepTypes == TerrainAssumption => Asleep \in Fill
<1> SUFFICES ASSUME TerrainAssumption PROVE Asleep \in Fill  OBVIOUS
<1>1. 0 \in Places /\ 0 \in 0..Deepest  BY DEF TerrainAssumption, Places
<1>2. "idle" \in Phases  BY DEF Phases
<1> QED  BY <1>1, <1>2 DEF Asleep, Fill

\* The state a program that has not filled anything begins in is well typed.
LEMMA InitTypes == TerrainAssumption /\ Init => TypeOK
<1> SUFFICES ASSUME TerrainAssumption, Init PROVE TypeOK  OBVIOUS
<1>1. fill \in Fill  BY AsleepTypes DEF Init
<1>2. claims \in [Cells -> 0..Deepest]  BY DEF Init, TerrainAssumption
<1>3. tiles \in [{"elevation", "coverage"} -> SUBSET ((Cells \cup {World}) \X (0..Deepest))]
  BY DEF Init
<1> QED  BY <1>1, <1>2, <1>3 DEF Init, TypeOK

LEMMA DrawnZoomTypes ==
    ASSUME TerrainAssumption, TypeOK, NEW d \in 0..Deepest
    PROVE  DrawnZoom(d) \in 0..Deepest
BY DEF TerrainAssumption, TypeOK, DrawnZoom, Lesser

\* A fill that begins has the phase, the view and the depth it begins with.
LEMMA BeginIs ==
    ASSUME TerrainAssumption, TypeOK, NEW V \in SUBSET Cells, NEW d \in 0..Deepest, Begin(V, d)
    PROVE  /\ fill' \in Fill /\ fill'.phase = "opening" /\ layout # None
           /\ UNCHANGED <<layout, sourceMax, coverSource, tiles, claims, sourcesList>>
<1>1. Asleep \in Fill  BY AsleepTypes
<1>2. "opening" \in Phases  BY DEF Phases
<1>3. fill' \in Fill  BY <1>1, <1>2 DEF Begin, Fill
<1>4. fill'.phase = "opening"  BY <1>1 DEF Begin, Fill
<1> QED  BY <1>3, <1>4 DEF Begin

\* Every step keeps the types.
LEMMA StepTypes ==
    ASSUME TerrainAssumption, TypeOK, Next
    PROVE  TypeOK'
<1>0. /\ fill \in Fill /\ claims \in [Cells -> 0..Deepest] /\ Deepest \in Nat /\ Last \in Nat
      /\ sourceMax \in Nat \cup {-1}
      /\ tiles \in [{"elevation", "coverage"} -> SUBSET ((Cells \cup {World}) \X (0..Deepest))]
      /\ sourcesList \in BOOLEAN
  BY DEF TypeOK, TerrainAssumption
<1>1. CASE Locate
  BY <1>1 DEF Locate, TypeOK, TerrainAssumption
<1>2. ASSUME NEW V \in SUBSET Cells \ {{}}, NEW d \in 0..Deepest, Offered(V, d) \/ Fetched(V, d)
      PROVE  TypeOK'
  <2>1. \E e \in 0..Deepest : Begin(V, e)
    BY <1>2, DrawnZoomTypes DEF Offered, Fetched
  <2>2. PICK e \in 0..Deepest : Begin(V, e)  BY <2>1
  <2> QED  BY <2>2, BeginIs DEF TypeOK
<1>3. CASE Open
  <2>1. \A c \in Cells : RegionFor(c) \subseteq 1..Last  BY FirstRegion
  <2> DEFINE exhaust == IF Deep THEN fill.view ELSE {}
             needs == UNION {RegionFor(c) : c \in exhaust}
  <2>5. exhaust \in SUBSET Cells /\ needs \in SUBSET (1..Last)
    BY <1>0, <2>1 DEF Fill
  <2>6. fill' = [fill EXCEPT !.phase = "planning", !.exhaust = exhaust, !.regions = needs]
    BY <1>3 DEF Open, Deep
  <2>7. "planning" \in Phases  BY DEF Phases
  <2> HIDE DEF exhaust, needs
  <2>2. fill' \in Fill  BY <1>0, <2>5, <2>6, <2>7 DEF Fill
  <2>3. \A i \in (1..Last) \cup {0} : Offers[Archive(i)].max \in Nat
    BY ArchiveIsOne, <1>0 DEF Places
  <2>4. sourceMax' \in Nat \cup {-1}
    BY <1>0, <1>3, <2>1, <2>3 DEF Open, Fill
  <2> QED  BY <1>3, <2>2, <2>4 DEF Open, TypeOK
<1>4. CASE Plan
  <2>1. 0 \in Places /\ Last + 1 \in Places /\ 1..Last \subseteq Places
    BY <1>0 DEF Places
  <2>2. Planned(0) \subseteq (Cells \cup {World}) \X (0..Deepest)  BY <2>1, AskedTypes
  <2>3. layout \in [global: {TRUE}, coverage: BOOLEAN, sources: BOOLEAN] \/ layout = None
    BY DEF TypeOK
  <2>4. fill' \in Fill
    <3> DEFINE left == {i \in fill.regions : fill.want >= Offers[Regions[i]].min}
                       \cup (IF layout.coverage THEN {Last + 1} ELSE {})
               list == layout.sources /\ ~sourcesList
               empty == ~list /\ \A i \in left \cup {0} : Planned(i) = {}
               todo == IF fill.want > 0 THEN fill.view ELSE {}
               phase == IF empty THEN "settling" ELSE "storing"
    <3>1. left \in SUBSET Places  BY <1>0, <2>1 DEF Fill
    <3>2. todo \in SUBSET Cells  BY <1>0 DEF Fill
    <3>3. list \in BOOLEAN /\ empty \in BOOLEAN  OBVIOUS
    <3>4. phase \in Phases  BY DEF Phases
    <3>5. fill' = [fill EXCEPT !.phase = phase, !.at = 0, !.left = left, !.rest = Planned(0),
                              !.todo = todo, !.list = list, !.empty = empty]
      BY <1>4 DEF Plan
    <3> HIDE DEF left, list, empty, todo, phase
    <3> QED  BY <1>0, <2>1, <2>2, <3>1, <3>2, <3>3, <3>4, <3>5 DEF Fill
  <2>5. coverSource' \in BOOLEAN  BY <1>4 DEF Plan
  <2> QED  BY <1>4, <2>4, <2>5 DEF Plan, TypeOK
<1>5. ASSUME NEW t \in fill.rest, Store(t) PROVE TypeOK'
  <2>1. fill' \in Fill  BY <1>0, <1>5 DEF Store, Fill
  <2>2. t \in (Cells \cup {World}) \X (0..Deepest)  BY <1>0 DEF Fill
  <2>3. tiles' \in [{"elevation", "coverage"} -> SUBSET ((Cells \cup {World}) \X (0..Deepest))]
    BY <1>0, <1>5, <2>2 DEF Store
  <2> QED  BY <1>5, <2>1, <2>3 DEF Store, TypeOK
<1>6. ASSUME NEW c \in fill.todo, Record(c) PROVE TypeOK'
  <2>1. fill' \in Fill  BY <1>0, <1>6 DEF Record, Fill
  <2>2. c \in Cells /\ fill.at \in Places  BY <1>0 DEF Fill
  <2>3. Cap(fill.at) \in 0..Deepest  BY <2>2, AskedTypes
  <2>4. Greater(claims[c], Cap(fill.at)) \in 0..Deepest  BY <1>0, <2>2, <2>3 DEF Greater
  <2>5. claims' \in [Cells -> 0..Deepest]  BY <1>0, <1>6, <2>2, <2>4 DEF Record
  <2> QED  BY <1>6, <2>1, <2>5 DEF Record, TypeOK
<1>7. CASE NextArchive
  <2>1. ASSUME NEW i \in fill.left
        PROVE  Planned(i) \subseteq (Cells \cup {World}) \X (0..Deepest) /\ Ground(i) \subseteq Cells
    <3>1. i \in Places  BY <1>0 DEF Fill
    <3> QED  BY <3>1, AskedTypes
  <2>2. ASSUME NEW i \in fill.left,
               fill' = [fill EXCEPT !.at = i, !.left = @ \ {i}, !.rest = Planned(i),
                                    !.todo = IF fill.want = 0 THEN {} ELSE Ground(i)]
        PROVE  fill' \in Fill
    <3> DEFINE todo == IF fill.want = 0 THEN {} ELSE Ground(i)
               left == fill.left \ {i}
    <3>1. todo \in SUBSET Cells /\ left \in SUBSET Places /\ i \in Places
      BY <1>0, <2>1 DEF Fill
    <3>2. fill' = [fill EXCEPT !.at = i, !.left = left, !.rest = Planned(i), !.todo = todo]
      BY <1>0, <2>2 DEF Fill
    <3> HIDE DEF todo, left
    <3> QED  BY <1>0, <2>1, <3>1, <3>2 DEF Fill
  <2>3. "copying" \in Phases  BY DEF Phases
  <2>4. fill' \in Fill
    <3>1. CASE fill' = [fill EXCEPT !.phase = "copying"]  BY <1>0, <2>3, <3>1 DEF Fill
    <3> QED  BY <1>7, <2>2, <3>1 DEF NextArchive
  <2> QED  BY <1>7, <2>4 DEF NextArchive, TypeOK
<1>8. CASE CopySources
  <2>0. "settling" \in Phases  BY DEF Phases
  <2>1. fill' \in Fill /\ sourcesList' \in BOOLEAN
    BY <1>0, <1>8, <2>0 DEF CopySources, Fill
  <2> QED  BY <1>8, <2>1 DEF CopySources, TypeOK
<1>9. CASE Settle
  <2>0. "done" \in Phases  BY DEF Phases
  <2>1. fill' \in Fill
    <3>1. ASSUME NEW c \in fill.exhaust, fill' = [fill EXCEPT !.exhaust = @ \ {c}]
          PROVE  fill' \in Fill
      <4> DEFINE kept == fill.exhaust \ {c}
      <4>1. kept \in SUBSET Cells  BY <1>0 DEF Fill
      <4>2. fill' = [fill EXCEPT !.exhaust = kept]  BY <1>0, <3>1 DEF Fill
      <4> HIDE DEF kept
      <4> QED  BY <1>0, <4>1, <4>2 DEF Fill
    <3>2. CASE fill' = [fill EXCEPT !.phase = "done"]  BY <1>0, <2>0, <3>2 DEF Fill
    <3> QED  BY <1>9, <3>1, <3>2 DEF Settle
  <2>2. \A c \in fill.exhaust : c \in Cells /\ Greater(claims[c], fill.want) \in 0..Deepest
    BY <1>0 DEF Greater, Fill
  <2>3. claims' \in [Cells -> 0..Deepest]
    <3>1. ASSUME NEW c \in fill.exhaust,
                 claims' = IF claims[c] = 0 THEN claims
                           ELSE [claims EXCEPT ![c] = Greater(@, fill.want)]
          PROVE  claims' \in [Cells -> 0..Deepest]
      <4>1. Greater(claims[c], fill.want) \in 0..Deepest  BY <2>2
      <4>2. CASE claims[c] = 0  BY <1>0, <3>1, <4>2
      <4>3. CASE claims[c] # 0  BY <1>0, <2>2, <3>1, <4>1, <4>3
      <4> QED  BY <4>2, <4>3
    <3> QED  BY <1>0, <1>9, <3>1 DEF Settle
  <2> QED  BY <1>9, <2>1, <2>3 DEF Settle, TypeOK
<1>10. CASE Fail
  BY <1>10, AsleepTypes DEF Fail, TypeOK
<1> QED
  BY <1>1, <1>2, <1>3, <1>4, <1>5, <1>6, <1>7, <1>8, <1>9, <1>10 DEF Next

-----------------------------------------------------------------------------
(***************************************************************************)
(* What is asked of an archive, and what a step that keeps the request has *)
(* in common with the state before it.                                     *)
(***************************************************************************)
LEMMA AskedHas ==
    ASSUME TerrainAssumption, TypeOK, NEW i \in 0..Last, NEW c \in fill.view,
           i # 0 => c \in Inside[i], NEW z \in 1..fill.want, Has(Archive(i), <<c, z>>)
    PROVE  <<c, z>> \in Asked(i) /\ Kind(Archive(i)) = "elevation"
<1>0. fill.want \in 0..Deepest /\ Last \in Nat /\ Deepest \in Nat
  BY DEF TypeOK, Fill, TerrainAssumption
<1>1. i \in Places  BY <1>0 DEF Places
<1>2. Offers[Archive(i)].max \in Nat /\ Kind(Archive(i)) = "elevation"
  BY <1>0, <1>1, ArchiveIsOne
<1>3. c \in Ground(i)  BY DEF Ground
<1>4. z <= Offers[Archive(i)].max  BY DEF Has
<1>5. z \in 1..Cap(i)  BY <1>0, <1>2, <1>4 DEF Cap, Lesser
<1>6. <<c, z>> \in TilesOf(Ground(i), Cap(i))  BY <1>3, <1>5 DEF TilesOf
<1> QED  BY <1>2, <1>6 DEF Asked

LEMMA SameRequest ==
    ASSUME fill'.want = fill.want, fill'.view = fill.view
    PROVE  /\ Deep' <=> Deep
           /\ \A i : Cap(i)' = Cap(i) /\ Ground(i)' = Ground(i) /\ Asked(i)' = Asked(i)
           /\ UNCHANGED tiles => \A i : Stored(i)' <=> Stored(i)
           /\ layout' = layout /\ fill'.regions = fill.regions => Wanted' = Wanted
<1>1. Deep' <=> Deep  BY DEF Deep
<1>2. \A i : Cap(i)' = Cap(i) /\ Ground(i)' = Ground(i)  BY DEF Cap, Ground
<1>3. \A i : Asked(i)' = Asked(i)  BY <1>2 DEF Asked
<1>4. UNCHANGED tiles => \A i : Stored(i)' <=> Stored(i)  BY <1>3 DEF Stored
<1>5. layout' = layout /\ fill'.regions = fill.regions => Wanted' = Wanted  BY DEF Wanted
<1> QED  BY <1>1, <1>2, <1>3, <1>4, <1>5

\* While a fill sleeps, or has but begun, it promises nothing.
LEMMA NothingYet ==
    ASSUME ClaimIsBacked, UNCHANGED <<tiles, claims>>, fill'.regions = {},
           fill'.phase \in {"idle", "opening"}, fill'.phase # "idle" => layout' # None
    PROVE  Backed'
<1>1. ClaimIsBacked'  BY DEF ClaimIsBacked
<1>2. ExhaustInv'  BY DEF ExhaustInv
<1>3. StoredInv'  BY DEF StoredInv
<1>4. RecordedInv'  BY DEF RecordedInv
<1>5. OwedInv'  BY DEF OwedInv
<1> QED  BY <1>1, <1>2, <1>3, <1>4, <1>5 DEF Backed

LEMMA InitBacked == TerrainAssumption /\ Init => Backed
<1> SUFFICES ASSUME TerrainAssumption, Init PROVE Backed  OBVIOUS
<1>0. fill.phase = "idle" /\ fill.regions = {} /\ \A c \in Cells : claims[c] = 0
  BY DEF Init, Asleep
<1>1. ClaimIsBacked  BY <1>0 DEF ClaimIsBacked
<1>2. ExhaustInv  BY <1>0 DEF ExhaustInv
<1>3. StoredInv  BY <1>0 DEF StoredInv
<1>4. RecordedInv  BY <1>0 DEF RecordedInv
<1>5. OwedInv  BY <1>0 DEF OwedInv
<1> QED  BY <1>1, <1>2, <1>3, <1>4, <1>5 DEF Backed

-----------------------------------------------------------------------------
(***************************************************************************)
(* One lemma for each action.                                              *)
(***************************************************************************)
LEMMA LocateBacked ==
    ASSUME TypeOK, Backed, Locate
    PROVE  Backed'
<1>1. layout = None /\ layout' # None
  BY DEF Locate, None
<1>2. fill.phase = "idle"  BY <1>1 DEF Backed, OwedInv
<1>3. UNCHANGED <<fill, tiles, claims>>  BY DEF Locate
<1>4. ClaimIsBacked'  BY <1>3 DEF Backed, ClaimIsBacked
<1>5. ExhaustInv'  BY <1>2, <1>3 DEF Backed, ExhaustInv
<1>6. StoredInv'  BY <1>2, <1>3 DEF StoredInv
<1>7. RecordedInv'  BY <1>2, <1>3 DEF RecordedInv
<1>8. OwedInv'  BY <1>1, <1>2, <1>3 DEF OwedInv
<1> QED  BY <1>4, <1>5, <1>6, <1>7, <1>8 DEF Backed

LEMMA BeginBacked ==
    ASSUME TerrainAssumption, TypeOK, Backed,
           NEW V \in SUBSET Cells, NEW d \in 0..Deepest, Begin(V, d)
    PROVE  Backed'
<1>1. fill'.phase = "opening" /\ layout # None /\ UNCHANGED <<layout, tiles, claims>>
  BY BeginIs
<1>2. fill'.regions = {}  BY DEF Begin, Asleep
<1> QED  BY <1>1, <1>2, NothingYet DEF Backed

LEMMA FailBacked ==
    ASSUME Backed, Fail
    PROVE  Backed'
<1>1. fill'.phase = "idle" /\ fill'.regions = {} /\ UNCHANGED <<tiles, claims>>
  BY DEF Fail, Asleep
<1> QED  BY <1>1, NothingYet DEF Backed

LEMMA OpenBacked ==
    ASSUME TerrainAssumption, TypeOK, Backed, Open
    PROVE  Backed'
<1> DEFINE exhaust == IF Deep THEN fill.view ELSE {}
           needs == UNION {RegionFor(c) : c \in exhaust}
<1>0. fill \in Fill  BY DEF TypeOK
<1>1. fill' = [fill EXCEPT !.phase = "planning", !.exhaust = exhaust, !.regions = needs]
  BY DEF Open, Deep
<1>2. fill.phase = "opening" /\ UNCHANGED <<layout, tiles, claims, sourcesList>>
  BY DEF Open
<1>3. \A c \in exhaust : RegionFor(c) \subseteq needs  OBVIOUS
<1>4. needs # {} => Deep  OBVIOUS
<1>6. exhaust \subseteq fill.view /\ (exhaust # {} => Deep)  OBVIOUS
<1>7. exhaust = IF Deep THEN fill.view ELSE {}  OBVIOUS
<1> HIDE DEF exhaust, needs
<1>8. /\ fill'.phase = "planning" /\ fill'.exhaust = exhaust /\ fill'.regions = needs
      /\ fill'.want = fill.want /\ fill'.view = fill.view
  BY <1>0, <1>1 DEF Fill
<1>9. Deep' <=> Deep  BY <1>8, SameRequest
<1>10. ExhaustInv'  BY <1>3, <1>4, <1>6, <1>7, <1>8, <1>9 DEF ExhaustInv
<1>11. StoredInv'  BY <1>8 DEF StoredInv
<1>12. RecordedInv'  BY <1>8 DEF RecordedInv
<1>13. layout # None  BY <1>2 DEF Backed, OwedInv
<1>14. Offers["global"].max \in {Offers[Archive(i)].max : i \in needs \cup {0}}
  BY DEF Archive
<1>15. sourceMax' >= Offers["global"].max
  BY <1>14 DEF Open, needs, exhaust, Deep
<1>16. OwedInv'  BY <1>2, <1>8, <1>13, <1>15 DEF OwedInv
<1>17. ClaimIsBacked'  BY <1>2 DEF Backed, ClaimIsBacked
<1> QED  BY <1>10, <1>11, <1>12, <1>16, <1>17 DEF Backed

LEMMA PlanBacked ==
    ASSUME TerrainAssumption, TypeOK, Backed, Plan
    PROVE  Backed'
<1> DEFINE left == {i \in fill.regions : fill.want >= Offers[Regions[i]].min}
                   \cup (IF layout.coverage THEN {Last + 1} ELSE {})
           list == layout.sources /\ ~sourcesList
           empty == ~list /\ \A i \in left \cup {0} : Planned(i) = {}
           todo == IF fill.want > 0 THEN fill.view ELSE {}
           phase == IF empty THEN "settling" ELSE "storing"
<1>0. fill \in Fill /\ Last \in Nat  BY DEF TypeOK, TerrainAssumption
<1>1. fill' = [fill EXCEPT !.phase = phase, !.at = 0, !.left = left, !.rest = Planned(0),
                           !.todo = todo, !.list = list, !.empty = empty]
  BY DEF Plan
<1>2. fill.phase = "planning" /\ UNCHANGED <<layout, sourceMax, tiles, claims, sourcesList>>
  BY DEF Plan
<1>3. {0} \cup left = Wanted  BY DEF Wanted
<1>4. 0 \notin left  BY <1>0 DEF Fill
<1>6. empty => (layout.sources => sourcesList) /\ \A i \in Wanted : Planned(i) = {}
  BY <1>3
<1>7. list \/ (layout.sources => sourcesList)  OBVIOUS
<1>8. fill.want > 0 => todo = fill.view  OBVIOUS
<1>9. todo \subseteq fill.view  OBVIOUS
<1>5. (phase = "storing" /\ ~empty) \/ (phase = "settling" /\ empty)  OBVIOUS
<1> HIDE DEF left, list, empty, todo
<1> HIDE DEF phase
<1>10. /\ fill'.phase = phase /\ fill'.at = 0 /\ fill'.left = left /\ fill'.rest = Planned(0)
       /\ fill'.todo = todo /\ fill'.list = list /\ fill'.empty = empty
       /\ fill'.want = fill.want /\ fill'.view = fill.view
       /\ fill'.exhaust = fill.exhaust /\ fill'.regions = fill.regions
  BY <1>0, <1>1 DEF Fill
<1>11. /\ Deep' <=> Deep
       /\ \A i : Cap(i)' = Cap(i) /\ Ground(i)' = Ground(i) /\ Asked(i)' = Asked(i)
       /\ \A i : Stored(i)' <=> Stored(i)
       /\ Wanted' = Wanted
  BY <1>2, <1>10, SameRequest
<1>12. ExhaustInv'  BY <1>2, <1>5, <1>10, <1>11 DEF Backed, ExhaustInv
<1>13. StoredInv'
  <2>1. CASE phase = "settling"
    <3>1. \A i \in Wanted : Stored(i)  BY <1>5, <1>6, <2>1 DEF Planned, Stored
    <3> QED  BY <1>10, <1>11, <2>1, <3>1 DEF StoredInv
  <2>2. CASE phase = "storing"
    <3>1. Asked(0) \subseteq tiles[Kind(Archive(0))] \cup Planned(0)  BY DEF Planned
    <3>2. Ground(0) = fill.view  BY <1>0 DEF Ground
    <3>3. /\ fill'.at \in Wanted' /\ fill'.left \subseteq Wanted'
          /\ 0 \notin fill'.left
          /\ \A i \in Wanted' : i = fill'.at \/ i \in fill'.left
      BY <1>3, <1>4, <1>10, <1>11
    <3>4. Asked(fill.at)' \subseteq tiles'[Kind(Archive(fill'.at))] \cup fill'.rest
      BY <1>2, <1>10, <1>11, <3>1 DEF Asked, Cap, Ground
    <3>5. fill'.todo \subseteq Ground(fill.at)'
      BY <1>9, <1>10, <3>2 DEF Ground
    <3> QED  BY <1>10, <2>2, <3>3, <3>4, <3>5 DEF StoredInv
  <2> QED  BY <1>5, <2>1, <2>2
<1>14. Deep => fill.exhaust = fill.view  BY <1>2 DEF Backed, ExhaustInv
<1>15. RecordedInv'  BY <1>2, <1>5, <1>8, <1>10, <1>11, <1>14 DEF RecordedInv
<1>16. OwedInv'  BY <1>2, <1>5, <1>6, <1>7, <1>10 DEF Backed, OwedInv
<1>17. ClaimIsBacked'  BY <1>2 DEF Backed, ClaimIsBacked
<1> QED  BY <1>12, <1>13, <1>15, <1>16, <1>17 DEF Backed

LEMMA StoreBacked ==
    ASSUME TerrainAssumption, TypeOK, Backed, NEW t \in fill.rest, Store(t)
    PROVE  Backed'
<1> DEFINE kind == Kind(Archive(fill.at))
<1>0. fill \in Fill /\ kind \in {"elevation", "coverage"}
      /\ DOMAIN tiles = {"elevation", "coverage"}
      /\ tiles = [k \in {"elevation", "coverage"} |-> tiles[k]]
  BY DEF TypeOK, Kind
<1>1. fill' = [fill EXCEPT !.rest = @ \ {t}] /\ fill.phase = "storing"
      /\ tiles' = [tiles EXCEPT ![kind] = @ \cup {t}]
      /\ UNCHANGED <<layout, sourceMax, claims, sourcesList>>
  BY DEF Store
<1>2. /\ tiles[kind] \cup {t} = tiles'[kind]
      /\ \A k \in {"elevation", "coverage"} : tiles[k] \subseteq tiles'[k]
  BY <1>0, <1>1
<1>3. /\ fill'.phase = fill.phase /\ fill'.at = fill.at /\ fill'.left = fill.left
      /\ fill'.rest = fill.rest \ {t}
      /\ fill'.todo = fill.todo /\ fill'.list = fill.list /\ fill'.empty = fill.empty
      /\ fill'.want = fill.want /\ fill'.view = fill.view
      /\ fill'.exhaust = fill.exhaust /\ fill'.regions = fill.regions
  BY <1>0, <1>1 DEF Fill
<1>4. /\ Deep' <=> Deep
      /\ \A i : Cap(i)' = Cap(i) /\ Ground(i)' = Ground(i) /\ Asked(i)' = Asked(i)
      /\ Wanted' = Wanted
  BY <1>1, <1>3, SameRequest
<1>5. \A i : Stored(i) => Stored(i)'
  BY <1>2, <1>4 DEF Stored, Kind
<1>6. ExhaustInv'  BY <1>3, <1>4 DEF Backed, ExhaustInv
<1>7. StoredInv'
  <2>1. Asked(fill.at) \subseteq tiles[kind] \cup fill.rest  BY <1>1 DEF Backed, StoredInv
  <2>2. Asked(fill.at) \subseteq tiles'[kind] \cup (fill.rest \ {t})  BY <1>2, <2>1
  <2>3. Asked(fill.at)' \subseteq tiles'[Kind(Archive(fill'.at))] \cup fill'.rest
    BY <1>3, <2>2 DEF Asked, Cap, Ground
  <2>4. fill'.todo \subseteq Ground(fill.at)'
    BY <1>1, <1>3 DEF Backed, StoredInv, Ground
  <2>5. \A i \in Wanted' : i = fill'.at \/ i \in fill'.left \/ Stored(i)'
    BY <1>1, <1>3, <1>4, <1>5 DEF Backed, StoredInv
  <2> QED  BY <1>1, <1>3, <1>4, <2>3, <2>4, <2>5 DEF Backed, StoredInv
<1>8. RecordedInv'  BY <1>1, <1>3, <1>4 DEF Backed, RecordedInv
<1>9. OwedInv'  BY <1>1, <1>3 DEF Backed, OwedInv
<1>10. ClaimIsBacked'  BY <1>1, <1>2 DEF Backed, ClaimIsBacked
<1> QED  BY <1>6, <1>7, <1>8, <1>9, <1>10 DEF Backed

LEMMA CopySourcesBacked ==
    ASSUME TerrainAssumption, TypeOK, Backed, CopySources
    PROVE  Backed'
<1>0. fill \in Fill  BY DEF TypeOK
<1>1. fill' = [fill EXCEPT !.phase = "settling"] /\ fill.phase = "copying"
      /\ sourcesList' = (sourcesList \/ fill.list)
      /\ UNCHANGED <<layout, sourceMax, claims, tiles>>
  BY DEF CopySources
<1>2. /\ fill'.phase = "settling" /\ fill'.at = fill.at /\ fill'.left = fill.left
      /\ fill'.todo = fill.todo /\ fill'.list = fill.list /\ fill'.empty = fill.empty
      /\ fill'.want = fill.want /\ fill'.view = fill.view
      /\ fill'.exhaust = fill.exhaust /\ fill'.regions = fill.regions
  BY <1>0, <1>1 DEF Fill
<1>3. /\ Deep' <=> Deep
      /\ \A i : Cap(i)' = Cap(i)
      /\ \A i : Stored(i)' <=> Stored(i)
      /\ Wanted' = Wanted
  BY <1>1, <1>2, SameRequest
<1>4. ExhaustInv'  BY <1>1, <1>2, <1>3 DEF Backed, ExhaustInv
<1>5. StoredInv'  BY <1>1, <1>2, <1>3 DEF Backed, StoredInv
<1>6. Deep => fill.exhaust = fill.view  BY <1>1 DEF Backed, ExhaustInv
<1>7. RecordedInv'  BY <1>1, <1>2, <1>3, <1>6 DEF Backed, RecordedInv
<1>8. OwedInv'  BY <1>1, <1>2 DEF Backed, OwedInv
<1>9. ClaimIsBacked'  BY <1>1 DEF Backed, ClaimIsBacked
<1> QED  BY <1>4, <1>5, <1>7, <1>8, <1>9 DEF Backed

LEMMA NextArchiveBacked ==
    ASSUME TerrainAssumption, TypeOK, Backed, NextArchive
    PROVE  Backed'
<1>0. fill \in Fill /\ Last \in Nat  BY DEF TypeOK, TerrainAssumption
<1>1. /\ fill.phase = "storing" /\ fill.rest = {} /\ fill.todo = {}
      /\ UNCHANGED <<layout, sourceMax, coverSource, tiles, claims, sourcesList>>
  BY DEF NextArchive
<1>2. Stored(fill.at)  BY <1>1 DEF Backed, StoredInv, Stored
<1>3. \A j \in Wanted : j \in fill.left \/ Stored(j)  BY <1>1, <1>2 DEF Backed, StoredInv
<1>4. fill.want > 0 => \A c \in fill.view : claims[c] >= Cap(0)
  BY <1>1 DEF Backed, RecordedInv
<1>5. ClaimIsBacked'  BY <1>1 DEF Backed, ClaimIsBacked
<1>6. ASSUME NEW i \in fill.left,
             fill' = [fill EXCEPT !.at = i, !.left = @ \ {i}, !.rest = Planned(i),
                                  !.todo = IF fill.want = 0 THEN {} ELSE Ground(i)]
      PROVE  Backed'
  <2> DEFINE todo == IF fill.want = 0 THEN {} ELSE Ground(i)
  <2>0. todo \subseteq Ground(i)  OBVIOUS
  <2> HIDE DEF todo
  <2>1. /\ fill'.phase = "storing" /\ fill'.at = i /\ fill'.left = fill.left \ {i}
        /\ fill'.rest = Planned(i) /\ fill'.todo = todo
        /\ fill'.list = fill.list /\ fill'.empty = fill.empty
        /\ fill'.want = fill.want /\ fill'.view = fill.view
        /\ fill'.exhaust = fill.exhaust /\ fill'.regions = fill.regions
    BY <1>0, <1>1, <1>6 DEF Fill, todo
  <2>2. /\ Deep' <=> Deep
        /\ \A j : Cap(j)' = Cap(j)
        /\ \A j : Stored(j)' <=> Stored(j)
        /\ Wanted' = Wanted
    BY <1>1, <2>1, SameRequest
  <2>3. ExhaustInv'  BY <1>1, <2>1, <2>2 DEF Backed, ExhaustInv
  <2>4. StoredInv'
    <3>1. fill.left \subseteq Wanted /\ 0 \notin fill.left
      BY <1>1 DEF Backed, StoredInv
    <3>3. Asked(i) \subseteq tiles[Kind(Archive(i))] \cup Planned(i)  BY DEF Planned
    <3>4. Asked(fill.at)' \subseteq tiles'[Kind(Archive(fill'.at))] \cup fill'.rest
      BY <1>1, <2>1, <3>3 DEF Asked, Cap, Ground
    <3>5. fill'.todo \subseteq Ground(fill.at)'  BY <2>0, <2>1 DEF Ground
    <3> QED  BY <1>3, <2>1, <2>2, <3>1, <3>4, <3>5 DEF StoredInv
  <2>5. RecordedInv'  BY <1>1, <1>4, <2>1, <2>2 DEF RecordedInv
  <2>6. OwedInv'  BY <1>1, <2>1 DEF Backed, OwedInv
  <2> QED  BY <1>5, <2>3, <2>4, <2>5, <2>6 DEF Backed
<1>7. ASSUME fill.left = {}, fill' = [fill EXCEPT !.phase = "copying"]
      PROVE  Backed'
  <2>1. /\ fill'.phase = "copying" /\ fill'.list = fill.list /\ fill'.empty = fill.empty
        /\ fill'.want = fill.want /\ fill'.view = fill.view
        /\ fill'.exhaust = fill.exhaust /\ fill'.regions = fill.regions
    BY <1>0, <1>7 DEF Fill
  <2>2. /\ Deep' <=> Deep
        /\ \A j : Cap(j)' = Cap(j)
        /\ \A j : Stored(j)' <=> Stored(j)
        /\ Wanted' = Wanted
    BY <1>1, <2>1, SameRequest
  <2>3. ExhaustInv'  BY <1>1, <2>1, <2>2 DEF Backed, ExhaustInv
  <2>4. StoredInv'  BY <1>3, <1>7, <2>1, <2>2 DEF StoredInv
  <2>5. RecordedInv'  BY <1>1, <1>4, <2>1, <2>2 DEF RecordedInv
  <2>6. OwedInv'  BY <1>1, <2>1 DEF Backed, OwedInv
  <2> QED  BY <1>5, <2>3, <2>4, <2>5, <2>6 DEF Backed
<1> QED  BY <1>6, <1>7 DEF NextArchive

\* An archive of the layout that has a tile of a cell whose region was opened is
\* among those the fill carries out, and is asked for the tile.
LEMMA WantedHas ==
    ASSUME TerrainAssumption, TypeOK, NEW c \in fill.view, NEW i \in RegionFor(c) \cup {0},
           i # 0 => i \in fill.regions, NEW z \in 1..fill.want, Has(Archive(i), <<c, z>>)
    PROVE  i \in Wanted /\ i \in 0..Last /\ <<c, z>> \in Asked(i)
           /\ Kind(Archive(i)) = "elevation"
<1>0. Last \in Nat /\ Deepest \in Nat /\ fill.want \in 0..Deepest
  BY DEF TerrainAssumption, TypeOK, Fill
<1>1. i \in 0..Last  BY <1>0, FirstRegion
<1>2. i # 0 => c \in Inside[i]  BY DEF RegionFor, Around
<1>3. i # 0 => Archive(i) = Regions[i]  BY <1>0, <1>1 DEF Archive
<1>4. i # 0 => Offers[Regions[i]].min \in Nat
  BY <1>0, <1>1, <1>3, ArchiveIsOne DEF Places
<1>5. i # 0 => fill.want >= Offers[Regions[i]].min
  BY <1>0, <1>3, <1>4 DEF Has
<1>6. i \in Wanted  BY <1>5 DEF Wanted
<1> QED  BY <1>1, <1>2, <1>6, AskedHas

LEMMA RecordBacked ==
    ASSUME TerrainAssumption, WellLaidOut, TypeOK, Backed, NEW c \in fill.todo, Record(c)
    PROVE  Backed'
<1>0. /\ fill \in Fill /\ Last \in Nat /\ claims \in [Cells -> 0..Deepest] /\ Deepest \in Nat
      /\ fill.at \in Places /\ fill.view \subseteq Cells /\ fill.want \in 0..Deepest
      /\ c \in Cells
  BY DEF TypeOK, TerrainAssumption, Fill
<1>1. /\ fill' = [fill EXCEPT !.todo = @ \ {c}] /\ fill.phase = "storing"
      /\ {t \in fill.rest : t[1] \in {c, World}} = {}
      /\ claims' = IF Kind(Archive(fill.at)) = "elevation"
                   THEN [claims EXCEPT ![c] = Greater(@, Cap(fill.at))] ELSE claims
      /\ UNCHANGED <<layout, sourceMax, tiles, sourcesList>>
  BY DEF Record
<1>2. /\ fill'.phase = fill.phase /\ fill'.at = fill.at /\ fill'.left = fill.left
      /\ fill'.rest = fill.rest /\ fill'.todo = fill.todo \ {c}
      /\ fill'.list = fill.list /\ fill'.empty = fill.empty
      /\ fill'.want = fill.want /\ fill'.view = fill.view
      /\ fill'.exhaust = fill.exhaust /\ fill'.regions = fill.regions
  BY <1>0, <1>1 DEF Fill
<1>3. /\ Deep' <=> Deep
      /\ \A i : Cap(i)' = Cap(i)
      /\ \A i : Stored(i)' <=> Stored(i)
      /\ Wanted' = Wanted
  BY <1>1, <1>2, SameRequest
<1>4. Cap(fill.at) \in 0..Deepest /\ Cap(fill.at) <= fill.want /\ Cap(0) \in 0..Deepest
      /\ Cap(fill.at) <= Offers[Archive(fill.at)].max
      /\ Cap(0) <= Offers["global"].max
  <2>1. 0 \in Places  BY <1>0 DEF Places
  <2> QED  BY <1>0, <2>1, AskedTypes DEF Archive
<1>5. /\ \A e \in Cells : claims'[e] >= claims[e]
      /\ \A e \in Cells \ {c} : claims'[e] = claims[e]
      /\ Kind(Archive(fill.at)) # "elevation" => claims'[c] = claims[c]
      /\ Kind(Archive(fill.at)) = "elevation" =>
            claims'[c] = claims[c] \/ claims'[c] = Cap(fill.at)
      /\ Kind(Archive(fill.at)) = "elevation" => claims'[c] >= Cap(fill.at)
  BY <1>0, <1>1, <1>4 DEF Greater
<1>6. c \in Ground(fill.at) /\ Ground(fill.at) \subseteq fill.view /\ fill.at \in Wanted
  BY <1>1 DEF Backed, StoredInv, Ground
<1>7. ExhaustInv'  BY <1>2, <1>3 DEF Backed, ExhaustInv
<1>8. StoredInv'
  <2>1. Asked(fill.at)' \subseteq tiles'[Kind(Archive(fill'.at))] \cup fill'.rest
    BY <1>1, <1>2 DEF Backed, StoredInv, Asked, Cap, Ground
  <2>2. fill'.todo \subseteq Ground(fill.at)'
    BY <1>1, <1>2 DEF Backed, StoredInv, Ground
  <2> QED  BY <1>1, <1>2, <1>3, <2>1, <2>2 DEF Backed, StoredInv
<1>9. RecordedInv'
  <2>1. Kind(Archive(0)) = "elevation"  BY DEF Archive, Kind
  <2>2. ASSUME fill.want > 0, NEW e \in fill.view
        PROVE  claims'[e] >= Cap(0) \/ (fill'.at = 0 /\ e \in fill'.todo)
    <3>1. claims[e] >= Cap(0) \/ (fill.at = 0 /\ e \in fill.todo)
      BY <1>1, <2>2 DEF Backed, RecordedInv
    <3>2. claims[e] \in Int /\ claims'[e] \in Int
      BY <1>0, <1>4, <1>5
    <3>3. CASE claims[e] >= Cap(0)  BY <1>0, <1>4, <1>5, <3>2, <3>3
    <3>4. CASE fill.at = 0 /\ e = c  BY <1>0, <1>5, <2>1, <3>4
    <3>5. CASE fill.at = 0 /\ e \in fill.todo /\ e # c  BY <1>2, <3>5
    <3> QED  BY <3>1, <3>3, <3>4, <3>5
  <2> QED  BY <1>1, <1>2, <1>3, <2>2 DEF RecordedInv
<1>10. OwedInv'  BY <1>1, <1>2 DEF Backed, OwedInv
<1>11. ASSUME Kind(Archive(fill.at)) = "elevation", NEW z \in 1..Cap(fill.at),
              NEW i \in RegionFor(c) \cup {0}, Has(Archive(i), <<c, z>>)
       PROVE  <<c, z>> \in tiles["elevation"]
  <2>0. z \in 1..fill.want /\ fill.at \in 0..Last /\ i \in 0..Last
    <3>1. z \in 1..fill.want  BY <1>0, <1>4
    <3>2. Kind(Archive(fill.at)) = IF fill.at > Last THEN "coverage" ELSE "elevation"
      BY <1>0, ArchiveIsOne
    <3>3. ~(fill.at > Last)  BY <1>11, <3>2
    <3>4. fill.at \in 0..Last  BY <1>0, <3>3 DEF Places
    <3>5. RegionFor(c) \subseteq 1..Last  BY FirstRegion
    <3>6. i \in 0..Last  BY <1>0, <3>5
    <3> QED  BY <3>1, <3>4, <3>6
  <2>1. <<c, z>> \notin fill.rest  BY <1>1
  <2>2. CASE i = fill.at
    <3>1. i # 0 => c \in Inside[i]  BY DEF RegionFor, Around
    <3>2. <<c, z>> \in Asked(i)  BY <1>6, <1>11, <2>0, <3>1, AskedHas
    <3>3. Asked(fill.at) \subseteq tiles["elevation"] \cup fill.rest
      BY <1>1, <1>11 DEF Backed, StoredInv
    <3> QED  BY <2>1, <2>2, <3>2, <3>3
  <2>3. CASE i # fill.at /\ fill.at = 0
    <3>1. Offers[Regions[i]].min > Offers["global"].max /\ Archive(i) = Regions[i]
      BY <1>0, <2>0, <2>3 DEF WellLaidOut, Archive
    <3>2. Offers[Regions[i]].min \in Nat /\ Offers["global"].max \in Nat
      <4>1. i \in Places /\ 0 \in Places  BY <1>0, <2>0 DEF Places
      <4>2. Offers[Archive(i)].min \in Nat /\ Offers[Archive(0)].max \in Nat
        BY <4>1, ArchiveIsOne
      <4>3. Archive(0) = "global"  BY DEF Archive
      <4> QED  BY <3>1, <4>2, <4>3
    <3>3. Offers[Regions[i]].min <= z  BY <1>11, <3>1 DEF Has
    <3> QED  BY <1>0, <1>4, <2>3, <3>1, <3>2, <3>3
  <2>4. CASE i # fill.at /\ fill.at # 0
    <3>1. fill.at \in 1..Last  BY <1>0, <2>0, <2>4
    <3>2. c \in Inside[fill.at]  BY <1>6, <3>1 DEF Ground
    <3>3. i = 0
      <4>1. i # 0 => i \in 1..Last /\ c \in Inside[i]  BY <1>0, <2>0 DEF RegionFor, Around
      <4> QED  BY <2>4, <3>1, <3>2, <4>1 DEF WellLaidOut
    <3>4. 0 \in Wanted /\ <<c, z>> \in Asked(0) /\ Kind(Archive(0)) = "elevation"
      BY <1>6, <1>11, <2>0, <3>3, WantedHas
    <3>5. Stored(0)  BY <1>1, <2>4, <3>4 DEF Backed, StoredInv
    <3> QED  BY <3>4, <3>5 DEF Stored
  <2> QED  BY <2>2, <2>3, <2>4
<1>12. ClaimIsBacked'
  <2>1. ASSUME NEW e \in Cells, NEW z \in 1..claims'[e],
               NEW i \in RegionFor(e) \cup {0}, Has(Archive(i), <<e, z>>)
        PROVE  <<e, z>> \in tiles["elevation"]
    <3>1. CASE claims'[e] = claims[e]  BY <2>1, <3>1 DEF Backed, ClaimIsBacked
    <3>2. CASE e = c /\ Kind(Archive(fill.at)) = "elevation" /\ claims'[c] = Cap(fill.at)
      BY <1>11, <2>1, <3>2
    <3> QED  BY <1>5, <3>1, <3>2
  <2> QED  BY <1>1, <2>1 DEF ClaimIsBacked, Has, Archive, RegionFor, Around
<1> QED  BY <1>7, <1>8, <1>9, <1>10, <1>12 DEF Backed

LEMMA SettleBacked ==
    ASSUME TerrainAssumption, TypeOK, Backed, Settle
    PROVE  Backed'
<1>0. /\ fill \in Fill /\ claims \in [Cells -> 0..Deepest] /\ Deepest \in Nat
      /\ fill.view \subseteq Cells /\ fill.want \in 0..Deepest
      /\ fill.exhaust \subseteq Cells
  BY DEF TypeOK, TerrainAssumption, Fill
<1>1. fill.phase = "settling" /\ UNCHANGED <<layout, sourceMax, tiles, sourcesList>>
  BY DEF Settle
<1>2. ASSUME NEW c \in fill.exhaust,
             claims' = IF claims[c] = 0 THEN claims
                       ELSE [claims EXCEPT ![c] = Greater(@, fill.want)],
             fill' = [fill EXCEPT !.exhaust = @ \ {c}]
      PROVE  Backed'
  <2>0. c \in Cells /\ c \in fill.view /\ RegionFor(c) \subseteq fill.regions
    BY <1>0, <1>1 DEF Backed, ExhaustInv
  <2>1. /\ fill'.phase = fill.phase /\ fill'.exhaust = fill.exhaust \ {c}
        /\ fill'.list = fill.list /\ fill'.empty = fill.empty
        /\ fill'.want = fill.want /\ fill'.view = fill.view
        /\ fill'.regions = fill.regions
    BY <1>0, <1>2 DEF Fill
  <2>2. /\ Deep' <=> Deep
        /\ \A i : Cap(i)' = Cap(i)
        /\ \A i : Stored(i)' <=> Stored(i)
        /\ Wanted' = Wanted
    BY <1>1, <2>1, SameRequest
  <2>3. /\ \A e \in Cells : claims'[e] >= claims[e]
        /\ \A e \in Cells \ {c} : claims'[e] = claims[e]
        /\ claims'[c] = claims[c] \/ claims'[c] = fill.want
        /\ claims'[c] = 0 \/ claims'[c] >= fill.want
        /\ \A e \in Cells : claims'[e] \in Int
    BY <1>0, <1>2, <2>0 DEF Greater
  <2>4. ExhaustInv'  BY <1>1, <2>1, <2>2 DEF Backed, ExhaustInv
  <2>5. StoredInv'  BY <1>1, <2>1, <2>2 DEF Backed, StoredInv
  <2>6. RecordedInv'
    <3>1. 0 \in Places /\ Cap(0) \in 0..Deepest  BY AskedTypes DEF Places, TerrainAssumption
    <3>2. ASSUME fill.want > 0, ~fill.empty, NEW e \in fill.view
          PROVE  claims'[e] >= Cap(0)
      <4>1. claims[e] >= Cap(0)  BY <1>1, <3>2 DEF Backed, RecordedInv
      <4>2. claims'[e] >= claims[e] /\ claims'[e] \in Int /\ claims[e] \in Int
        BY <1>0, <2>3
      <4> QED  BY <1>0, <3>1, <4>1, <4>2
    <3>3. ASSUME Deep, NEW e \in fill.view
          PROVE  e \in fill.exhaust \ {c} \/ claims'[e] = 0 \/ claims'[e] >= fill.want
      <4>1. e \in fill.exhaust \/ claims[e] = 0 \/ claims[e] >= fill.want
        BY <1>1, <3>3 DEF Backed, RecordedInv
      <4>2. CASE e = c  BY <2>3, <4>2
      <4>3. CASE e # c  BY <1>0, <2>3, <4>1, <4>3
      <4> QED  BY <4>2, <4>3
    <3> QED  BY <1>1, <2>1, <2>2, <3>2, <3>3 DEF RecordedInv
  <2>7. OwedInv'  BY <1>1, <2>1 DEF Backed, OwedInv
  <2>8. ClaimIsBacked'
    <3>1. ASSUME NEW e \in Cells, NEW z \in 1..claims'[e],
                 NEW i \in RegionFor(e) \cup {0}, Has(Archive(i), <<e, z>>)
          PROVE  <<e, z>> \in tiles["elevation"]
      <4>1. CASE claims'[e] = claims[e]  BY <3>1, <4>1 DEF Backed, ClaimIsBacked
      <4>2. CASE e = c /\ claims'[c] = fill.want
        <5>1. i # 0 => i \in fill.regions  BY <2>0, <4>2
        <5>2. i \in Wanted /\ <<c, z>> \in Asked(i) /\ Kind(Archive(i)) = "elevation"
          BY <2>0, <3>1, <4>2, <5>1, WantedHas
        <5>3. Stored(i)  BY <1>1, <5>2 DEF Backed, StoredInv
        <5> QED  BY <4>2, <5>2, <5>3 DEF Stored
      <4> QED  BY <2>3, <4>1, <4>2
    <3> QED  BY <1>1, <3>1 DEF ClaimIsBacked, Has, Archive, RegionFor, Around
  <2> QED  BY <2>4, <2>5, <2>6, <2>7, <2>8 DEF Backed
<1>3. ASSUME fill.exhaust = {}, fill' = [fill EXCEPT !.phase = "done"], UNCHANGED claims
      PROVE  Backed'
  <2>1. /\ fill'.phase = "done" /\ fill'.exhaust = {}
        /\ fill'.list = fill.list /\ fill'.empty = fill.empty
        /\ fill'.want = fill.want /\ fill'.view = fill.view
        /\ fill'.regions = fill.regions
    BY <1>0, <1>3 DEF Fill
  <2>2. /\ Deep' <=> Deep
        /\ \A i : Cap(i)' = Cap(i)
        /\ \A i : Stored(i)' <=> Stored(i)
        /\ Wanted' = Wanted
    BY <1>1, <2>1, SameRequest
  <2>3. ExhaustInv'  BY <1>1, <2>1 DEF Backed, ExhaustInv
  <2>4. StoredInv'  BY <1>1, <2>1, <2>2 DEF Backed, StoredInv
  <2>5. RecordedInv'  BY <1>1, <1>3, <2>1, <2>2 DEF Backed, RecordedInv
  <2>6. OwedInv'  BY <1>1, <2>1 DEF Backed, OwedInv
  <2>7. ClaimIsBacked'  BY <1>1, <1>3 DEF Backed, ClaimIsBacked
  <2> QED  BY <2>3, <2>4, <2>5, <2>6, <2>7 DEF Backed
<1> QED  BY <1>2, <1>3 DEF Settle

-----------------------------------------------------------------------------
(***************************************************************************)
(* The inductive invariant, and what follows from it.                      *)
(***************************************************************************)
LEMMA StepBacked ==
    ASSUME TerrainAssumption, WellLaidOut, TypeOK, Backed, Next
    PROVE  Backed'
<1>1. ASSUME NEW V \in SUBSET Cells \ {{}}, NEW d \in 0..Deepest, Offered(V, d) \/ Fetched(V, d)
      PROVE  Backed'
  <2>1. PICK e \in 0..Deepest : Begin(V, e)
    BY <1>1, DrawnZoomTypes DEF Offered, Fetched
  <2> QED  BY <2>1, BeginBacked
<1> QED
  BY <1>1, LocateBacked, OpenBacked, PlanBacked, StoreBacked, RecordBacked,
     NextArchiveBacked, CopySourcesBacked, SettleBacked, FailBacked DEF Next

\* Every state of the store is well typed, whatever the archives hold.
THEOREM TerrainTypeCorrect == Spec => []TypeOK
<1>1. Init => TypeOK  BY InitTypes, TerrainAssumption
<1>2. TypeOK /\ [Next]_vars => TypeOK'
  <2> SUFFICES ASSUME TypeOK, [Next]_vars PROVE TypeOK'  OBVIOUS
  <2>1. CASE Next  BY <2>1, StepTypes, TerrainAssumption
  <2>2. CASE UNCHANGED vars  BY <2>2 DEF vars, TypeOK
  <2> QED  BY <2>1, <2>2
<1> QED  BY <1>1, <1>2, PTL DEF Spec

\* Where regions go on below the global archive, the invariant is inductive.
THEOREM TerrainInvariant == ASSUME WellLaidOut PROVE Spec => []IInv
<1>1. Init => IInv  BY InitTypes, InitBacked, TerrainAssumption DEF IInv
<1>2. IInv /\ [Next]_vars => IInv'
  <2> SUFFICES ASSUME IInv, [Next]_vars PROVE IInv'  OBVIOUS
  <2>1. CASE Next  BY <2>1, StepTypes, StepBacked, TerrainAssumption DEF IInv
  <2>2. CASE UNCHANGED vars
    <3>1. /\ fill' = fill /\ tiles' = tiles /\ claims' = claims /\ layout' = layout
          /\ sourceMax' = sourceMax /\ sourcesList' = sourcesList
      BY <2>2 DEF vars
    <3>2. TypeOK'  BY <2>2 DEF vars, TypeOK, IInv
    <3>3. /\ Deep' <=> Deep
          /\ \A i : Cap(i)' = Cap(i) /\ Ground(i)' = Ground(i) /\ Asked(i)' = Asked(i)
          /\ \A i : Stored(i)' <=> Stored(i)
          /\ Wanted' = Wanted
      BY <3>1, SameRequest
    <3>4. ExhaustInv'  BY <3>1, <3>3 DEF IInv, Backed, ExhaustInv
    <3>5. StoredInv'
      <4>1. Asked(fill.at)' = Asked(fill.at) /\ Ground(fill.at)' = Ground(fill.at)
        BY <3>1 DEF Asked, Cap, Ground
      <4> QED  BY <3>1, <3>3, <4>1 DEF IInv, Backed, StoredInv
    <3>6. RecordedInv'  BY <3>1, <3>3 DEF IInv, Backed, RecordedInv
    <3>7. OwedInv'  BY <3>1 DEF IInv, Backed, OwedInv
    <3>8. ClaimIsBacked'  BY <3>1 DEF IInv, Backed, ClaimIsBacked
    <3> QED  BY <3>2, <3>4, <3>5, <3>6, <3>7, <3>8 DEF IInv, Backed
  <2> QED  BY <2>1, <2>2
<1> QED  BY <1>1, <1>2, PTL DEF Spec

\* A cell.json claims no depth of which an archive of the layout has a tile that
\* is not on disk, after any fills, whole or cut short (terrain.go, Settle).
THEOREM NoClaimIsHollow == ASSUME WellLaidOut PROVE Spec => []ClaimIsBacked
<1>1. IInv => ClaimIsBacked  BY DEF IInv, Backed
<1> QED  BY <1>1, TerrainInvariant, PTL

\* A fill that ended well is not offered again, but for the plan that had
\* nothing to fetch and a cell nothing had recorded (terrain.go, Settle).
THEOREM AFillSuffices == ASSUME WellLaidOut PROVE Spec => []FilledIsEnough
<1>1. IInv => FilledIsEnough
  <2> SUFFICES ASSUME IInv, fill.phase = "done", Has("global", <<World, 0>>),
                      ~(fill.empty /\ \E c \in fill.view : claims[c] < Cap(0))
               PROVE  Held(fill.view, DrawnZoom(fill.want))
    BY DEF FilledIsEnough
  <2>0. /\ TypeOK /\ fill.want \in 0..Deepest /\ fill.view \subseteq Cells
        /\ claims \in [Cells -> 0..Deepest] /\ Deepest \in Nat /\ sourceMax \in Int
        /\ 0 \in Places
    <3>1. TypeOK  BY DEF IInv
    <3>2. fill \in Fill /\ claims \in [Cells -> 0..Deepest] /\ sourceMax \in Int
      BY <3>1 DEF TypeOK
    <3>3. fill.want \in 0..Deepest /\ fill.view \subseteq Cells  BY <3>2 DEF Fill
    <3>4. Deepest \in Nat /\ 0 \in Places
      BY TerrainAssumption DEF TerrainAssumption, Places
    <3> QED  BY <3>1, <3>2, <3>3, <3>4
  <2>1. Archive(0) = "global" /\ Kind(Archive(0)) = "elevation" /\ Ground(0) = fill.view
    BY DEF Archive, Kind, Ground
  <2>2. Offers["global"].max \in Nat  BY <2>0, <2>1, TerrainAssumption, ArchiveIsOne
  <2>3. sourceMax >= 1
    BY <2>0, <2>2 DEF IInv, Backed, OwedInv, WellLaidOut
  <2>4. Stored(0)  BY DEF IInv, Backed, StoredInv, Wanted
  <2>5. CASE DrawnZoom(fill.want) = 0
    <3>1. <<World, 0>> \in Asked(0)  BY <2>1 DEF Asked, TilesOf
    <3> QED  BY <2>1, <2>4, <2>5, <3>1 DEF Stored, Held
  <2>6. CASE DrawnZoom(fill.want) # 0
    <3>1. fill.want > 0 /\ DrawnZoom(fill.want) <= fill.want /\ DrawnZoom(fill.want) \in Int
      BY <2>0, <2>3, <2>6 DEF DrawnZoom, Lesser
    <3>2. Cap(0) \in Int /\ Cap(0) >= 1 /\ (~Deep => Cap(0) = fill.want)
      BY <2>0, <2>1, <2>2, <3>1 DEF Cap, Lesser, Deep, WellLaidOut
    <3>3. ASSUME NEW c \in fill.view
          PROVE  claims[c] >= fill.want
      <4>1. c \in Cells /\ claims[c] \in Int  BY <2>0
      <4>2. claims[c] >= Cap(0)
        BY <3>1, <3>2, <4>1 DEF IInv, Backed, RecordedInv
      <4>3. Deep => claims[c] = 0 \/ claims[c] >= fill.want
        BY DEF IInv, Backed, RecordedInv, ExhaustInv
      <4> QED  BY <2>0, <3>2, <4>1, <4>2, <4>3
    <3>4. \A c \in fill.view : claims[c] >= DrawnZoom(fill.want)
      BY <2>0, <3>1, <3>3
    <3> QED  BY <2>6, <3>4 DEF Held
  <2> QED  BY <2>5, <2>6
<1> QED  BY <1>1, TerrainInvariant, PTL

\* A fill that ended well left the coverage of its ground and the list of who
\* made each source on disk (terrain.go, Fetch and copySources).
THEOREM AFillIsCredited == ASSUME WellLaidOut PROVE Spec => []FilledIsCredited
<1>1. IInv => FilledIsCredited
  <2> SUFFICES ASSUME IInv, fill.phase = "done"
               PROVE  /\ layout.sources => sourcesList
                      /\ layout.coverage =>
                            {t \in TilesOf(fill.view, Lesser(fill.want, Offers["coverage"].max)) :
                                Has("coverage", t)} \subseteq tiles["coverage"]
    BY DEF FilledIsCredited
  <2>1. layout.sources => sourcesList  BY DEF IInv, Backed, OwedInv
  <2>2. ASSUME layout.coverage
        PROVE  Asked(Last + 1) \subseteq tiles[Kind(Archive(Last + 1))]
    BY <2>2 DEF IInv, Backed, StoredInv, Wanted, Stored
  <2>3. /\ Archive(Last + 1) = "coverage" /\ Kind("coverage") = "coverage"
        /\ Ground(Last + 1) = fill.view
    BY TerrainAssumption DEF TerrainAssumption, Archive, Kind, Ground
  <2> QED  BY <2>1, <2>2, <2>3 DEF Asked, Cap
<1> QED  BY <1>1, TerrainInvariant, PTL
=============================================================================
