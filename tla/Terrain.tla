------------------------------ MODULE Terrain ------------------------------
(***************************************************************************)
(* Filling the terrain store (package terrain: Locate, Prepare, Plan.Fetch,*)
(* Plan.Settle, Measure).  The elevation of one view comes from several    *)
(* archives: a global one for the shallow zooms, a regional one for the    *)
(* deep zooms of the cells inside it, and a coverage archive that says who *)
(* is owed credit for the ground.  They are written one after the other,   *)
(* and any of them may fail, or the process end, with the others done.     *)
(*                                                                         *)
(* A tile is <<cell, zoom>>.  Zoom 0 stands for the zooms above the cell   *)
(* zoom, whose tile <<World, 0>> every cell shares; the cell zoom is 1.    *)
(* How a cell is written is the module Slice; how its bytes are read, the  *)
(* module AcquireFetch.                                                    *)
(***************************************************************************)
EXTENDS Integers

CONSTANTS
    Cells,              \* the cells of the store
    World,              \* whose tile is the overview
    Listed,             \* the archives a host's index, or a directory, lists
    Hosted,             \* whether it is a host's index
    Last,               \* how many regional archives there are
    Regions,            \* the regional archives, 1 to Last in the order of their tiles
    Inside,             \* the cells inside each regional archive's tile
    Offers,             \* the range of zooms of each archive
    Sea,                \* the cells no archive holds a tile of
    Deepest             \* the deepest elevation zoom a view asks for

Archives == {"global", "coverage"} \cup {Regions[i] : i \in 1..Last}

ASSUME TerrainAssumption ==
    /\ World \notin Cells
    /\ Hosted \in BOOLEAN
    /\ Sea \subseteq Cells
    /\ Last \in Nat
    /\ \A i \in 1..Last : Regions[i] \notin {"global", "coverage"}
    /\ \A i, j \in 1..Last : Regions[i] = Regions[j] => i = j
    /\ Inside \in [1..Last -> SUBSET Cells]
    /\ Offers \in [Archives -> [min: Nat, max: Nat]]
    /\ Deepest \in Nat

VARIABLES
    layout,             \* what Locate made of the listing, None before it has
    sourceMax,          \* the elevation source's recorded depth; -1, no source
    coverSource,        \* whether the coverage source has been registered
    tiles,              \* the tiles on disk, of "elevation" and of "coverage"
    claims,             \* the depth each cell.json records, 0 where none is
    sourcesList,        \* whether attribution.json is in the store
    fill                \* the fill that is running, or that ran last

vars == <<layout, sourceMax, coverSource, tiles, claims, sourcesList, fill>>

None == [global |-> FALSE]
Kind(a) == IF a = "coverage" THEN "coverage" ELSE "elevation"
Lesser(m, n) == IF m <= n THEN m ELSE n
Greater(m, n) == IF m <= n THEN n ELSE m

\* The tiles of a view of the cells V to the depth d, as a plan lists them: the
\* overview, then each cell's pyramid if the depth reaches the cells.
TilesOf(V, d) == {<<World, 0>>} \cup (V \X (1..d))

\* What an archive's index has of them: only its own zooms, and nothing at sea.
Has(a, t) ==
    /\ Offers[a].min <= t[2] /\ t[2] <= Offers[a].max
    /\ t[1] \notin Sea
    /\ \A i \in 1..Last : Regions[i] = a => t[1] \in Inside[i]

\* The archives of a plan: Fetch takes the global one first, then the regions,
\* then the coverage.
Places == 0..(Last + 1)
Archive(i) == IF i = 0 THEN "global" ELSE IF i > Last THEN "coverage" ELSE Regions[i]

Phases == {"idle", "opening", "planning", "storing", "copying", "settling", "done"}
Fill == [phase: Phases, view: SUBSET Cells, want: 0..Deepest,
         exhaust: SUBSET Cells, regions: SUBSET (1..Last),
         at: Places, left: SUBSET Places,
         rest: SUBSET ((Cells \cup {World}) \X (0..Deepest)),
         todo: SUBSET Cells, list: BOOLEAN, empty: BOOLEAN]

Asleep == [phase |-> "idle", view |-> {}, want |-> 0, exhaust |-> {},
           regions |-> {}, at |-> 0, left |-> {}, rest |-> {}, todo |-> {},
           list |-> FALSE, empty |-> FALSE]

\* Types.
TypeOK ==
    /\ layout \in {None} \cup [global: {TRUE}, coverage: BOOLEAN, sources: BOOLEAN]
    /\ sourceMax \in Nat \cup {-1}
    /\ coverSource \in BOOLEAN
    /\ tiles \in [{"elevation", "coverage"} ->
                     SUBSET ((Cells \cup {World}) \X (0..Deepest))]
    /\ claims \in [Cells -> 0..Deepest]
    /\ sourcesList \in BOOLEAN
    /\ fill \in Fill

Init ==
    /\ layout = None
    /\ sourceMax = -1
    /\ coverSource = FALSE
    /\ tiles = [k \in {"elevation", "coverage"} |-> {}]
    /\ claims = [c \in Cells |-> 0]
    /\ sourcesList = FALSE
    /\ fill = Asleep

-----------------------------------------------------------------------------
(***************************************************************************)
(* The layout, and what a store lacks.                                     *)
(***************************************************************************)
\* Locate, by ReadIndex or ReadDir: without a global archive it is refused.  A
\* host's coverage archive is taken to be there; a directory's is listed.
Locate ==
    /\ layout = None
    /\ "global" \in Listed
    /\ layout' = [global |-> TRUE,
                  coverage |-> Hosted \/ "coverage" \in Listed,
                  sources |-> Hosted \/ "sources" \in Listed]
    /\ UNCHANGED <<sourceMax, coverSource, tiles, claims, sourcesList, fill>>

\* regionFor: the first region listed whose tile the cell is in.  The set of its
\* place, or the empty set.
Around(c) == {i \in 1..Last : c \in Inside[i] /\ Regions[i] \in Listed}
RegionFor(c) == {i \in Around(c) : \A k \in Around(c) : i <= k}

\* fetch.DrawnZoom: a view is measured no deeper than the source's own range.
DrawnZoom(d) == IF sourceMax < 0 THEN d ELSE Lesser(d, sourceMax)

\* Source.HeldAt: a tile of a cell is held when the cell.json reaches its zoom,
\* the overview's when it is on disk.
Held(V, z) == IF z = 0 THEN <<World, 0>> \in tiles["elevation"]
                       ELSE \A c \in V : claims[c] >= z

\* Measure, of a view of V whose elevation is drawn at zoom d.
Lacks(V, d) == sourceMax < 0 \/ ~Held(V, DrawnZoom(d))

-----------------------------------------------------------------------------
(***************************************************************************)
(* Fill: Prepare, Fetch, Settle.                                           *)
(***************************************************************************)

\* A fill is asked for: the view V, its elevation a zoom shallower than its map.
Begin(V, d) ==
    /\ layout # None
    /\ fill.phase \in {"idle", "done"}
    /\ fill' = [Asleep EXCEPT !.phase = "opening", !.view = V, !.want = d]
    /\ UNCHANGED <<layout, sourceMax, coverSource, tiles, claims, sourcesList>>

\* A map that is drawn with terrain: what it lacks is asked for.
Offered(V, d) == Lacks(V, d) /\ Begin(V, DrawnZoom(d))

\* osmbase fetch --terrain, which measures nothing.
Fetched(V, d) == Begin(V, d)

\* Prepare's first half: a region is opened only when the depth goes below the
\* global archive and a cell is inside it; then elevationSource records how
\* deep the source has come to reach.
Open ==
    LET deep == fill.want > Offers["global"].max
        exhaust == IF deep THEN fill.view ELSE {}
        needs == UNION {RegionFor(c) : c \in exhaust}
        reach == {Offers[Archive(i)].max : i \in needs \cup {0}} \cup {sourceMax}
    IN
    /\ fill.phase = "opening"
    /\ sourceMax' \in {m \in reach : \A n \in reach : n <= m}
    /\ fill' = [fill EXCEPT !.phase = "planning", !.exhaust = exhaust,
                            !.regions = needs]
    /\ UNCHANGED <<layout, coverSource, tiles, claims, sourcesList>>

\* The depth each archive is asked for, the cells inside it, and the tiles its
\* plan then has.
Cap(i) == Lesser(fill.want, Offers[Archive(i)].max)
Ground(i) == IF i \in 1..Last THEN fill.view \cap Inside[i] ELSE fill.view
Asked(i) == {t \in TilesOf(Ground(i), Cap(i)) : Has(Archive(i), t)}
Planned(i) == Asked(i) \ tiles[Kind(Archive(i))]

\* Prepare's second half: each archive's plan, and the coverage source.  A
\* region that starts below the depth is left out.
Plan ==
    LET regions == {i \in fill.regions : fill.want >= Offers[Regions[i]].min}
        left == regions \cup (IF layout.coverage THEN {Last + 1} ELSE {})
        list == layout.sources /\ ~sourcesList
        empty == ~list /\ \A i \in left \cup {0} : Planned(i) = {}
    IN
    /\ fill.phase = "planning"
    /\ layout.coverage => "coverage" \in Listed
    /\ coverSource' = (coverSource \/ layout.coverage)
    /\ fill' = [fill EXCEPT !.phase = IF empty THEN "settling" ELSE "storing",
                            !.at = 0, !.left = left,
                            !.rest = Planned(0),
                            !.todo = IF fill.want > 0 THEN fill.view ELSE {},
                            !.list = list, !.empty = empty]
    /\ UNCHANGED <<layout, sourceMax, tiles, claims, sourcesList>>

\* Fetch stores a tile of the archive it is at: the overview first, then cell
\* by cell.
Store(t) ==
    /\ fill.phase = "storing"
    /\ t \in fill.rest
    /\ t[2] > 0 => <<World, 0>> \notin fill.rest
    /\ tiles' = [tiles EXCEPT ![Kind(Archive(fill.at))] = @ \cup {t}]
    /\ fill' = [fill EXCEPT !.rest = @ \ {t}]
    /\ UNCHANGED <<layout, sourceMax, coverSource, claims, sourcesList>>

\* A cell whose tiles are all there is recorded, as deep as the archive was
\* asked for, empty or not.
Record(c) ==
    /\ fill.phase = "storing"
    /\ c \in fill.todo
    /\ {t \in fill.rest : t[1] \in {c, World}} = {}
    /\ claims' = IF Kind(Archive(fill.at)) = "elevation"
                 THEN [claims EXCEPT ![c] = Greater(@, Cap(fill.at))] ELSE claims
    /\ fill' = [fill EXCEPT !.todo = @ \ {c}]
    /\ UNCHANGED <<layout, sourceMax, coverSource, tiles, sourcesList>>

\* The archive is done, and the next one is begun, or there is none.  The regions
\* are taken as the view's cells came to need them, in any order.
NextArchive ==
    /\ fill.phase = "storing"
    /\ fill.rest = {} /\ fill.todo = {}
    /\ \/ \E i \in fill.left :
             /\ i > Last => fill.left = {i}
             /\ fill' = [fill EXCEPT !.at = i, !.left = @ \ {i}, !.rest = Planned(i),
                                     !.todo = IF fill.want = 0 THEN {} ELSE Ground(i)]
       \/ fill.left = {} /\ fill' = [fill EXCEPT !.phase = "copying"]
    /\ UNCHANGED <<layout, sourceMax, coverSource, tiles, claims, sourcesList>>

\* Mutant of CopySources: the list is left for the next fill.
CopySourcesNever ==
    /\ fill.phase = "copying"
    /\ fill' = [fill EXCEPT !.phase = "settling"]
    /\ UNCHANGED <<layout, sourceMax, coverSource, tiles, claims, sourcesList>>

\* copySources, after every archive: renamed into place, so whole or not there.
CopySources ==
    /\ fill.phase = "copying"
    /\ sourcesList' = (sourcesList \/ fill.list)
    /\ fill' = [fill EXCEPT !.phase = "settling"]
    /\ UNCHANGED <<layout, sourceMax, coverSource, tiles, claims>>

\* Mutant of Settle: the archives that stop shallower are not recorded.
SettleNothing ==
    /\ fill.phase = "settling"
    /\ fill' = [fill EXCEPT !.phase = "done"]
    /\ UNCHANGED <<layout, sourceMax, coverSource, tiles, claims, sourcesList>>

\* Settle, by Source.Exhaust: a cell that has a cell.json holds all there is to
\* the depth asked for.  One cell at a time, in any order.
Settle ==
    /\ fill.phase = "settling"
    /\ \/ \E c \in fill.exhaust :
            /\ claims' = IF claims[c] = 0 THEN claims
                         ELSE [claims EXCEPT ![c] = Greater(@, fill.want)]
            /\ fill' = [fill EXCEPT !.exhaust = @ \ {c}]
       \/ /\ fill.exhaust = {}
          /\ fill' = [fill EXCEPT !.phase = "done"]
          /\ UNCHANGED claims
    /\ UNCHANGED <<layout, sourceMax, coverSource, tiles, sourcesList>>

\* Mutant of Fail: an archive that fails is passed over, and the rest settled.
FailSettles ==
    /\ fill.phase = "storing"
    /\ fill' = [fill EXCEPT !.phase = "settling"]
    /\ UNCHANGED <<layout, sourceMax, coverSource, tiles, claims, sourcesList>>

\* An archive cannot be opened or read, a write fails, the program is
\* interrupted or killed: whatever is on disk stays there, and nothing settles.
Fail ==
    /\ fill.phase \notin {"idle", "done"}
    /\ fill' = Asleep
    /\ UNCHANGED <<layout, sourceMax, coverSource, tiles, claims, sourcesList>>

Next ==
    \/ Locate
    \/ \E V \in SUBSET Cells \ {{}}, d \in 0..Deepest : Offered(V, d)
    \/ \E V \in SUBSET Cells \ {{}}, d \in 0..Deepest : Fetched(V, d)
    \/ Open
    \/ Plan
    \/ \E t \in fill.rest : Store(t)
    \/ \E c \in fill.todo : Record(c)
    \/ NextArchive
    \/ CopySources
    \/ Settle
    \/ Fail

Spec == Init /\ [][Next]_vars

-----------------------------------------------------------------------------
\* A cell recorded to a depth holds every elevation tile the layout's archives
\* have of it to that depth: no fill that stopped between two archives has the
\* deeper one's tiles taken as there (terrain.go, Settle and Fetch's order).
ClaimIsBacked ==
    \A c \in Cells : \A z \in 1..claims[c] :
        (\E i \in RegionFor(c) \cup {0} : Has(Archive(i), <<c, z>>))
            => <<c, z>> \in tiles["elevation"]

\* A fill that came to its end without an error leaves a view measured as
\* lacking nothing at the depth it was asked for, so the same download is not
\* offered again (terrain.go, Settle's comment), where the archives have the
\* overview.  But for a plan with nothing to fetch over a cell whose tiles are
\* there and whose cell.json does not say so yet: nothing writes it.
FilledIsEnough ==
    (fill.phase = "done" /\ Has("global", <<World, 0>>)) =>
        \/ Held(fill.view, DrawnZoom(fill.want))
        \/ fill.empty /\ \E c \in fill.view : claims[c] < Cap(0)

\* Such a fill has also brought everything a credit for the view is made of: the
\* coverage of its ground and the list of who made each source.
FilledIsCredited ==
    fill.phase = "done" =>
        /\ layout.sources => sourcesList
        /\ layout.coverage =>
              {t \in TilesOf(fill.view, Lesser(fill.want, Offers["coverage"].max)) :
                  Has("coverage", t)} \subseteq tiles["coverage"]

\* docs/elevation.md:27: "One credit per source used in the view".  Ground with
\* elevation on disk has a credit: the layout's name while the store has no
\* coverage source, and what the nearest coverage tile says once it has one
\* (store.go, Credit).  Not so: Prepare registers the coverage source, Fetch
\* reads it last, and a fill that stops before it leaves elevation that is
\* drawn with no credit at all.
DrawnIsCredited ==
    fill.phase \in {"idle", "done"} => \A t \in tiles["elevation"] :
        coverSource => \E z \in 0..t[2], c \in {t[1], World} :
                           <<c, z>> \in tiles["coverage"]
=============================================================================
