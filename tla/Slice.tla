------------------------------- MODULE Slice -------------------------------
(***************************************************************************)
(* The cells of one source of a slice on disk (package slice), under every *)
(* interleaving of the calls that write them: Fill and Exhaust by fetches, *)
(* Hold and Release by renders, Evict by whoever keeps the budget, in one  *)
(* process or in several that share the root, any of which may be killed   *)
(* between two file operations.                                            *)
(*                                                                         *)
(* A cell is a directory of tile files and, once a fetch has finished, a   *)
(* cell.json.  Every file is written under a temporary name and renamed,   *)
(* so a file is there whole or not at all, and one write is one action.    *)
(* Tiles are names with a zoom; what is in a tile is not modelled.  Sizes  *)
(* count files: one for a tile, one for a cell.json.                       *)
(***************************************************************************)
EXTENDS Manifest, Integers, FiniteSets

CONSTANTS
    Cells,              \* cells, as numbers in the order of their (Y, X)
    Tiles,              \* the tiles of a cell's sub-pyramid
    TileZoom,           \* the zoom of each tile
    CellZoom,           \* the zoom cells are keyed at
    Archive,            \* the <<cell, tile>> pairs the archive holds
    Fillers,            \* goroutines that fetch: Fill, then Exhaust
    Renders,            \* goroutines that draw: Hold, then Release
    Evictors,           \* goroutines that call Evict
    Budgets,            \* the budgets Evict is called with
    TouchEvery,         \* how often a Store moves a cell's clock at most
    MaxTime,            \* bound: the last tick of the wall clock
    EvictBesideFill,    \* whether Evict is called during an acquisition
    HoldBesideFill,     \* whether Hold is called during an acquisition
    CutRemovals         \* whether a removal can be cut short

ASSUME TilesAssumption ==
    /\ IsFiniteSet(Tiles)
    /\ IsFiniteSet(Cells)
    /\ CellZoom \in Nat
    /\ TileZoom \in [Tiles -> CellZoom..MaxZoom]
    /\ Archive \subseteq Cells \X Tiles
    /\ Cells \subseteq Nat

ASSUME ActorsAssumption ==
    /\ \A p \in Fillers \cup Renders \cup Evictors : StoreOf[p] \in Stores
    /\ Evictors \subseteq Lockers
    /\ Evictors \cap Adders = {}
    /\ IsFiniteSet(Renders)

ASSUME NumbersAssumption ==
    /\ Budgets \subseteq Nat
    /\ TouchEvery \in Nat
    /\ MaxTime \in Nat
    /\ EvictBesideFill \in BOOLEAN
    /\ HoldBesideFill \in BOOLEAN
    /\ CutRemovals \in BOOLEAN

VARIABLES
    tiles,              \* the tile files in each cell's directory
    info,               \* each cell's cell.json, None when there is none
    mtime,              \* the modification time of each cell's directory
    time,               \* the wall clock
    held,               \* Store.held: how many holds each cell has
    touched,            \* Store.touched: when the Store last moved each clock
    fill,               \* the fetching goroutines
    hold,               \* the drawing goroutines and the Hold each has
    ev                  \* the Evict calls

diskVars == <<tiles, info, mtime>>
storeVars == <<held, touched>>
sliceVars == <<tiles, info, mtime, time, held, touched, fill, hold,
               ev>>
vars == <<sliceVars, manifestVars>>

Time == 0..MaxTime

\* CellInfo: the zoom range fetched and the eviction clock.  Complete is true
\* in every file this package writes, so the file's existence stands for it.
CellInfo == [zoom: ZoomRange(MaxZoom), used: Time]

\* PyramidTiles: the tiles of a cell within a zoom range.  Zooms shallower than
\* the cell zoom belong to no cell, and no tile here has one.
PyramidTiles(z) == {t \in Tiles : InRange(z, TileZoom[t])}

\* A tile of cell c that a finished fetch may leave without a file.
HeldOrAbsent(c, t) == t \in tiles[c] \/ <<c, t>> \notin Archive

\* Nothing of zoom range z that the archive holds is missing from cell c.
Whole(c, z) == \A t \in PyramidTiles(z) : HeldOrAbsent(c, t)

HasFiles(c) == tiles[c] # {} \/ info[c] # None

\* dirBytes of a cell's directory.
CellBytes(c) == Cardinality(tiles[c]) + (IF info[c] = None THEN 0 ELSE 1)

\* The modification time of c's directory once tile t has come or gone beside
\* the tiles others: a tile is in the directory of its zoom, and only making or
\* removing that one moves the cell's own.
MtimeAfterTile(others, c, t) ==
    IF \E u \in others : TileZoom[u] = TileZoom[t] THEN mtime[c] ELSE time

-----------------------------------------------------------------------------
\* What a goroutine is when it is doing nothing.
NoFill == [phase |-> "idle", cell |-> None, zoom |-> EmptyZoom, todo |-> {},
           read |-> None]
NoHold == [phase |-> "released", cells |-> {}, now |-> 0, due |-> {},
           cell |-> None, read |-> None]
NoEvict == [phase |-> "idle", budget |-> 0, after |-> 0, left |-> {},
            cands |-> {}, victim |-> None, listed |-> {}, json |-> FALSE]

\* What Evict knows about one cell (Evicted).
Candidate == [cell: Cells, used: Time, bytes: Nat]

ASSUME NoneAssumption ==
    None \notin Cells /\ None \notin CellInfo /\ None \notin Candidate
    /\ None \notin Time

FillState == [phase: {"idle", "tiles", "record", "overwrite", "widen",
                      "exhaust"},
              cell: Cells \cup {None}, zoom: SliceRange,
              todo: SUBSET Tiles, read: CellInfo \cup {None}]
HoldState == [phase: {"claimed", "touching", "writing", "held", "released"},
              cells: SUBSET Cells, now: Time, due: SUBSET Cells,
              cell: Cells \cup {None}, read: CellInfo \cup {None}]
EvictState == [phase: {"idle", "measure", "list", "choose", "remove"},
               budget: Nat, after: Int, left: SUBSET Cells,
               cands: SUBSET Candidate, victim: Candidate \cup {None},
               listed: SUBSET Tiles, json: BOOLEAN]

DiskTypeOK ==
    /\ tiles \in [Cells -> SUBSET Tiles]
    /\ info \in [Cells -> CellInfo \cup {None}]
    /\ mtime \in [Cells -> Time]
    /\ time \in Time

StoreTypeOK ==
    /\ held \in [Stores -> [Cells -> Nat]]
    /\ touched \in [Stores -> [Cells -> Time \cup {None}]]

FillTypeOK ==
    /\ fill \in [Fillers -> FillState]
    /\ \A f \in Fillers :
        /\ (fill[f].cell = None) <=> (fill[f].phase = "idle")
        /\ fill[f].phase = "exhaust" => fill[f].read # None
        /\ fill[f].phase = "overwrite" => fill[f].read = None
        /\ fill[f].phase # "idle" => fill[f].zoom \in ZoomRange(MaxZoom)
        /\ fill[f].phase # "tiles" => fill[f].todo = {}

HoldTypeOK ==
    /\ hold \in [Renders -> HoldState]
    /\ \A r \in Renders :
        /\ (hold[r].cell # None) <=> (hold[r].phase = "writing")
        /\ (hold[r].read # None) <=> (hold[r].phase = "writing")
        /\ hold[r].cell \in hold[r].due \cup {None}
        /\ hold[r].due \subseteq hold[r].cells

EvictTypeOK ==
    /\ ev \in [Evictors -> EvictState]
    /\ \A e \in Evictors :
        /\ (ev[e].victim # None) <=> (ev[e].phase = "remove")
        /\ (ev[e].phase \in {"choose", "remove"}) <=> (mu[StoreOf[e]] = e)

\* What each variable holds, and what the phase of each call says about the
\* locals that go with it and about the mutex.
TypeOK ==
    /\ DiskTypeOK
    /\ StoreTypeOK
    /\ FillTypeOK
    /\ HoldTypeOK
    /\ EvictTypeOK
    /\ ManifestTypeOK

Init ==
    /\ tiles = [c \in Cells |-> {}]
    /\ info = [c \in Cells |-> None]
    /\ mtime = [c \in Cells |-> 0]
    /\ time = 0
    /\ held = [s \in Stores |-> [c \in Cells |-> 0]]
    /\ touched = [s \in Stores |-> [c \in Cells |-> None]]
    /\ fill = [f \in Fillers |-> NoFill]
    /\ hold = [r \in Renders |-> NoHold]
    /\ ev = [e \in Evictors |-> NoEvict]
    /\ manifest = EmptyZoom
    /\ memory = [s \in Stores |-> EmptyZoom]
    /\ mu = [s \in Stores |-> None]
    /\ add = [a \in Adders |-> [phase |-> "idle", read |-> None]]

-----------------------------------------------------------------------------
(***************************************************************************)
(* Fill and Exhaust.                                                       *)
(***************************************************************************)

\* Evict belongs at the end of an acquisition and at the start of a render,
\* never during one: callers that keep to it have EvictBesideFill = FALSE.
\* Nothing asks them to keep Hold out of an acquisition: HoldBesideFill = FALSE
\* is a program that does so all the same.
NobodyFills == \A f \in Fillers : fill[f].phase = "idle"
NobodyEvicts == \A e \in Evictors : ev[e].phase = "idle"
NobodyTouches == \A r \in Renders : hold[r].phase \in {"held", "released"}

\* An acquisition may begin, or come to a cell; Exhaust ends one.
MayFill == /\ EvictBesideFill \/ NobodyEvicts
           /\ HoldBesideFill \/ NobodyTouches

\* Fill is called for cell c over zoom range z.  A range entirely above the
\* cell zoom is refused.
FillStart(f, c, z) ==
    /\ fill[f].phase = "idle"
    /\ memory[StoreOf[f]] # None
    /\ MayFill
    /\ z.max >= CellZoom
    /\ fill' = [fill EXCEPT ![f] =
                   [phase |-> "tiles", cell |-> c, zoom |-> z,
                    todo |-> PyramidTiles(z), read |-> None]]
    /\ UNCHANGED <<diskVars, time, storeVars, hold, ev, manifestVars>>

\* The tile Fill comes to next: shallowest first.
NextTiles(f) == {t \in fill[f].todo :
                    \A u \in fill[f].todo : TileZoom[t] <= TileZoom[u]}

\* store1: a tile already on disk is skipped, one the archive lacks leaves no
\* file, any other is written under its own name.
FillTile(f) ==
    \E t \in NextTiles(f) :
        LET c == fill[f].cell IN
        /\ fill[f].phase = "tiles"
        /\ IF t \in tiles[c] \/ <<c, t>> \notin Archive
           THEN UNCHANGED diskVars
           ELSE /\ tiles' = [tiles EXCEPT ![c] = @ \cup {t}]
                /\ mtime' = [mtime EXCEPT ![c] = MtimeAfterTile(tiles[c], c, t)]
                /\ UNCHANGED info
        /\ fill' = [fill EXCEPT ![f].todo = @ \ {t}]
        /\ UNCHANGED <<time, storeVars, hold, ev, manifestVars>>

\* Mutant of FillReadInfo: the range recorded is what this call covered.
FillForgetsInfo(f) ==
    /\ fill[f].phase = "tiles"
    /\ fill[f].todo = {}
    /\ fill' = [fill EXCEPT ![f].phase = "record"]
    /\ UNCHANGED <<diskVars, time, storeVars, hold, ev, manifestVars>>

\* Every tile done, Fill reads the cell.json an earlier fetch left.
FillReadInfo(f) ==
    /\ fill[f].phase = "tiles"
    /\ fill[f].todo = {}
    /\ fill' = [fill EXCEPT ![f].phase = "record",
                            ![f].read = info[fill[f].cell]]
    /\ UNCHANGED <<diskVars, time, storeVars, hold, ev, manifestVars>>

\* That cell.json cannot be read or decoded: Fill drops the error, and goes on
\* as if there had been none.
FillMissesInfo(f) ==
    /\ fill[f].phase = "tiles"
    /\ fill[f].todo = {}
    /\ info[fill[f].cell] # None
    /\ fill' = [fill EXCEPT ![f].phase = "overwrite", ![f].read = None]
    /\ UNCHANGED <<diskVars, time, storeVars, hold, ev, manifestVars>>

\* The range Fill records: its own, and what the cell was fetched over before.
RecordedZoom(z, prev) ==
    IF prev = None THEN z ELSE UnionOf(z, prev.zoom)

\* Mutant of FillRecord: cell.json is written while tiles are still to come.
FillRecordEarly(f) ==
    LET c == fill[f].cell IN
    /\ fill[f].phase \in {"tiles", "record", "overwrite"}
    /\ info' = [info EXCEPT ![c] =
                   [zoom |-> RecordedZoom(fill[f].zoom, fill[f].read),
                    used |-> time]]
    /\ fill' = [fill EXCEPT ![f].phase =
                   IF fill[f].todo = {} THEN "widen" ELSE "tiles"]
    /\ UNCHANGED <<tiles, mtime, time, storeVars, hold, ev,
                   manifestVars>>

\* Fill writes cell.json, last of the cell's files.
FillRecord(f) ==
    LET c == fill[f].cell IN
    /\ fill[f].phase \in {"record", "overwrite"}
    /\ info' = [info EXCEPT ![c] =
                   [zoom |-> RecordedZoom(fill[f].zoom, fill[f].read),
                    used |-> time]]
    /\ mtime' = [mtime EXCEPT ![c] = time]
    /\ fill' = [fill EXCEPT ![f].phase = "widen"]
    /\ UNCHANGED <<tiles, time, storeVars, hold, ev, manifestVars>>

\* Fill widens the slice's own range and returns.
FillWiden(f) ==
    /\ fill[f].phase = "widen"
    /\ FetchWidens(StoreOf[f], fill[f].zoom)
    /\ fill' = [fill EXCEPT ![f] = NoFill]
    /\ UNCHANGED <<diskVars, time, storeVars, hold, ev>>

\* Fill or Exhaust returns an error: the context ended, the archive could not
\* be read, a file could not be written.  What was written stays.
FillFail(f) ==
    /\ fill[f].phase # "idle"
    /\ fill' = [fill EXCEPT ![f] = NoFill]
    /\ UNCHANGED <<diskVars, time, storeVars, hold, ev, manifestVars>>

\* Exhaust is called for a cell whose archive has nothing more down to zoom
\* through, and reads its cell.json.  The caller vouches for the archive: it
\* has just fetched all there was (terrain.Plan.Settle).  A cell with no
\* cell.json, or one that reaches through already, is left alone.
ExhaustRead(f, c, through) ==
    /\ fill[f].phase = "idle"
    /\ memory[StoreOf[f]] # None
    /\ MayFill
    /\ Whole(c, [min |-> 0, max |-> through])
    /\ info[c] # None
    /\ info[c].zoom.max < through
    /\ fill' = [fill EXCEPT ![f] =
                   [phase |-> "exhaust", cell |-> c,
                    zoom |-> [min |-> info[c].zoom.min, max |-> through],
                    todo |-> {}, read |-> info[c]]]
    /\ UNCHANGED <<diskVars, time, storeVars, hold, ev, manifestVars>>

\* Exhaust writes what it read with the deeper end put in.
ExhaustWrite(f) ==
    LET c == fill[f].cell IN
    /\ fill[f].phase = "exhaust"
    /\ info' = [info EXCEPT ![c] = [zoom |-> fill[f].zoom,
                                    used |-> fill[f].read.used]]
    /\ mtime' = [mtime EXCEPT ![c] = time]
    /\ fill' = [fill EXCEPT ![f] = NoFill]
    /\ UNCHANGED <<tiles, time, storeVars, hold, ev, manifestVars>>

-----------------------------------------------------------------------------
(***************************************************************************)
(* Hold and Release.                                                       *)
(***************************************************************************)

\* The holds of Store s on cell c that have not been released.
Holding(s, c) == {r \in Renders : /\ StoreOf[r] = s
                                  /\ hold[r].phase # "released"
                                  /\ c \in hold[r].cells}

\* Mutant of HoldClaim: the count is moved without the mutex.
HoldUnlocked(r, C) ==
    LET s == StoreOf[r] IN
    /\ hold[r].phase = "released"
    /\ memory[s] # None
    /\ held' = [held EXCEPT ![s] = [c \in Cells |->
                   IF c \in C THEN held[s][c] + 1 ELSE held[s][c]]]
    /\ hold' = [hold EXCEPT ![r] =
                   [phase |-> "claimed", cells |-> C, now |-> time,
                    due |-> {}, cell |-> None, read |-> None]]
    /\ UNCHANGED <<diskVars, time, touched, fill, ev, manifestVars>>

\* Hold counts the cells as held, under Store.mu.  touch takes its time now.
HoldClaim(r, C) ==
    LET s == StoreOf[r] IN
    /\ hold[r].phase = "released"
    /\ HoldBesideFill \/ NobodyFills
    /\ memory[s] # None
    /\ mu[s] = None
    /\ held' = [held EXCEPT ![s] = [c \in Cells |->
                   IF c \in C THEN held[s][c] + 1 ELSE held[s][c]]]
    /\ hold' = [hold EXCEPT ![r] =
                   [phase |-> "claimed", cells |-> C, now |-> time,
                    due |-> {}, cell |-> None, read |-> None]]
    /\ UNCHANGED <<diskVars, time, touched, fill, ev, manifestVars>>

\* A cell whose clock this Store moved within TouchEvery is passed over.
IsDue(s, c, now) == touched[s][c] = None \/ now >= touched[s][c] + TouchEvery

\* touch marks, under Store.mu, the cells whose clock it will move.
TouchDue(r) ==
    LET s == StoreOf[r]
        due == {c \in hold[r].cells : IsDue(s, c, hold[r].now)}
    IN
    /\ hold[r].phase = "claimed"
    /\ mu[s] = None
    /\ touched' = [touched EXCEPT ![s] = [c \in Cells |->
                      IF c \in due THEN hold[r].now ELSE touched[s][c]]]
    /\ hold' = [hold EXCEPT ![r].phase = "touching", ![r].due = due]
    /\ UNCHANGED <<diskVars, time, held, fill, ev, manifestVars>>

\* touch reads the cell.json of a cell, without a lock.
TouchRead(r, c) ==
    /\ hold[r].phase = "touching"
    /\ c \in hold[r].due
    /\ info[c] # None
    /\ hold' = [hold EXCEPT ![r].phase = "writing", ![r].cell = c,
                            ![r].read = info[c]]
    /\ UNCHANGED <<diskVars, time, storeVars, fill, ev, manifestVars>>

\* touch passes over a cell that has no cell.json.
TouchNone(r, c) ==
    /\ hold[r].phase = "touching"
    /\ c \in hold[r].due
    /\ info[c] = None
    /\ hold' = [hold EXCEPT ![r].due = @ \ {c}]
    /\ UNCHANGED <<diskVars, time, storeVars, fill, ev, manifestVars>>

\* touch writes back the cell.json it read, with its clock moved.
TouchWrite(r) ==
    LET c == hold[r].cell IN
    /\ hold[r].phase = "writing"
    /\ info' = [info EXCEPT ![c] = [zoom |-> hold[r].read.zoom,
                                    used |-> hold[r].now]]
    /\ mtime' = [mtime EXCEPT ![c] = time]
    /\ hold' = [hold EXCEPT ![r].phase = "touching", ![r].due = @ \ {c},
                            ![r].cell = None, ![r].read = None]
    /\ UNCHANGED <<tiles, time, storeVars, fill, ev, manifestVars>>

\* touch cannot read or write a cell.json: TouchError says so, and the cell's
\* clock stays where it was.
TouchFail(r, c) ==
    /\ hold[r].phase \in {"touching", "writing"}
    /\ c \in hold[r].due
    /\ hold[r].cell \in {None, c}
    /\ hold' = [hold EXCEPT ![r].phase = "touching", ![r].due = @ \ {c},
                            ![r].cell = None, ![r].read = None]
    /\ UNCHANGED <<diskVars, time, storeVars, fill, ev, manifestVars>>

\* Hold returns, and the render draws.
HoldReturn(r) ==
    /\ hold[r].phase = "touching"
    /\ hold[r].due = {}
    /\ hold' = [hold EXCEPT ![r].phase = "held"]
    /\ UNCHANGED <<diskVars, time, storeVars, fill, ev, manifestVars>>

\* Mutant of Release: the released flag is not looked at.
ReleaseTwice(r) ==
    LET s == StoreOf[r] IN
    /\ hold[r].phase \in {"held", "released"}
    /\ mu[s] = None
    /\ held' = [held EXCEPT ![s] = [c \in Cells |->
                   IF c \in hold[r].cells /\ held[s][c] > 0
                   THEN held[s][c] - 1 ELSE held[s][c]]]
    /\ hold' = [hold EXCEPT ![r].phase = "released"]
    /\ UNCHANGED <<diskVars, time, touched, fill, ev, manifestVars>>

\* Release gives the cells back, the first time it is called.
Release(r) ==
    LET s == StoreOf[r] IN
    /\ hold[r].phase = "held"
    /\ mu[s] = None
    /\ held' = [held EXCEPT ![s] = [c \in Cells |->
                   IF c \in hold[r].cells /\ held[s][c] > 0
                   THEN held[s][c] - 1 ELSE held[s][c]]]
    /\ hold' = [hold EXCEPT ![r].phase = "released"]
    /\ UNCHANGED <<diskVars, time, touched, fill, ev, manifestVars>>

-----------------------------------------------------------------------------
(***************************************************************************)
(* Evict.                                                                  *)
(***************************************************************************)

\* The directory walk reaches cells in this order.
First(C) == {c \in C : \A d \in C : c <= d}

\* Evict is called with a budget and begins to measure the store.
EvictStart(e, b) ==
    /\ ev[e].phase = "idle"
    /\ memory[StoreOf[e]] # None
    /\ EvictBesideFill \/ NobodyFills
    /\ ev' = [ev EXCEPT ![e] = [NoEvict EXCEPT !.phase = "measure",
                                               !.budget = b, !.left = Cells]]
    /\ UNCHANGED <<diskVars, time, storeVars, fill, hold, manifestVars>>

\* Store.Bytes walks the store, one directory after another.
EvictMeasure(e) ==
    \E c \in First(ev[e].left) :
        /\ ev[e].phase = "measure"
        /\ ev' = [ev EXCEPT ![e].left = @ \ {c},
                            ![e].after = @ + CellBytes(c)]
        /\ UNCHANGED <<diskVars, time, storeVars, fill, hold, manifestVars>>

\* A store that fits is left alone; otherwise the cell directories are listed.
EvictMeasured(e) ==
    /\ ev[e].phase = "measure"
    /\ ev[e].left = {}
    /\ ev' = [ev EXCEPT ![e] =
                 IF ev[e].after <= ev[e].budget THEN NoEvict
                 ELSE [ev[e] EXCEPT !.phase = "list",
                                    !.left = {c \in Cells : HasFiles(c)}]]
    /\ UNCHANGED <<diskVars, time, storeVars, fill, hold, manifestVars>>

\* A cell's clock: cell.json's, or the directory's own for an interrupted
\* fetch.  A directory gone since it was listed has the zero time.
ClockOf(c) == IF info[c] # None THEN info[c].used
              ELSE IF HasFiles(c) THEN mtime[c] ELSE 0

\* Mutant of EvictList: cells with no cell.json are not candidates.
EvictListComplete(e) ==
    \E c \in First(ev[e].left) :
        /\ ev[e].phase = "list"
        /\ ev' = [ev EXCEPT ![e].left = @ \ {c},
                            ![e].cands = IF info[c] = None THEN @ ELSE @ \cup
                                {[cell |-> c, used |-> ClockOf(c),
                                  bytes |-> CellBytes(c)]}]
        /\ UNCHANGED <<diskVars, time, storeVars, fill, hold, manifestVars>>

\* candidates reads what eviction needs to know of each directory.
EvictList(e) ==
    \E c \in First(ev[e].left) :
        /\ ev[e].phase = "list"
        /\ ev' = [ev EXCEPT ![e].left = @ \ {c},
                            ![e].cands = @ \cup
                                {[cell |-> c, used |-> ClockOf(c),
                                  bytes |-> CellBytes(c)]}]
        /\ UNCHANGED <<diskVars, time, storeVars, fill, hold, manifestVars>>

\* The walk of the store, or a cell.json, cannot be read: Evict returns the
\* error before it has taken the mutex.
EvictGiveUp(e) ==
    /\ ev[e].phase \in {"measure", "list"}
    /\ ev' = [ev EXCEPT ![e] = NoEvict]
    /\ UNCHANGED <<diskVars, time, storeVars, fill, hold, manifestVars>>

\* Every directory listed, Evict takes Store.mu and keeps it until it returns.
EvictLock(e) ==
    /\ ev[e].phase = "list"
    /\ ev[e].left = {}
    /\ mu[StoreOf[e]] = None
    /\ mu' = [mu EXCEPT ![StoreOf[e]] = e]
    /\ ev' = [ev EXCEPT ![e].phase = "choose"]
    /\ UNCHANGED <<diskVars, time, storeVars, fill, hold, manifest, memory,
                   add>>

\* Mutant of Older: the most recently used cell goes first.
Newer(v, w) == v.used > w.used \/ (v.used = w.used /\ v.cell < w.cell)

\* The order cells are removed in: least recently used first, then by place.
Older(v, w) == v.used < w.used \/ (v.used = w.used /\ v.cell < w.cell)

Oldest(cands) == {v \in cands : \A w \in cands \ {v} : Older(v, w)}

\* Evict passes over the next cell because a render in this process has it.
EvictSkip(e) ==
    \E v \in Oldest(ev[e].cands) :
        /\ ev[e].phase = "choose"
        /\ ev[e].after > ev[e].budget
        /\ held[StoreOf[e]][v.cell] > 0
        /\ ev' = [ev EXCEPT ![e].cands = @ \ {v}]
        /\ UNCHANGED <<diskVars, time, storeVars, fill, hold, manifestVars>>

\* os.RemoveAll begins by listing the victim's directory.
RemoveNext(e, v) ==
    [ev EXCEPT ![e].phase = "remove", ![e].victim = v,
               ![e].listed = tiles[v.cell], ![e].json = info[v.cell] # None]

\* Mutant of EvictTake: holds are not looked at.
EvictTakeHeld(e) ==
    \E v \in Oldest(ev[e].cands) :
        /\ ev[e].phase = "choose"
        /\ ev[e].after > ev[e].budget
        /\ ev' = RemoveNext(e, v)
        /\ UNCHANGED <<diskVars, time, storeVars, fill, hold, manifestVars>>

\* Mutant of EvictTake: removals go on whatever the store has come down to.
EvictTakeAll(e) ==
    \E v \in Oldest(ev[e].cands) :
        /\ ev[e].phase = "choose"
        /\ held[StoreOf[e]][v.cell] = 0
        /\ ev' = RemoveNext(e, v)
        /\ UNCHANGED <<diskVars, time, storeVars, fill, hold, manifestVars>>

\* Evict begins to remove the next cell's directory.
EvictTake(e) ==
    \E v \in Oldest(ev[e].cands) :
        /\ ev[e].phase = "choose"
        /\ ev[e].after > ev[e].budget
        /\ held[StoreOf[e]][v.cell] = 0
        /\ ev' = RemoveNext(e, v)
        /\ UNCHANGED <<diskVars, time, storeVars, fill, hold, manifestVars>>

\* os.RemoveAll unlinks one file of the victim, in whatever order the
\* directory has them: cell.json, or a tile.  The directories of the zooms are
\* listed as it comes to them, so a tile that arrived since may go too.
EvictUnlink(e) ==
    LET c == ev[e].victim.cell IN
    /\ ev[e].phase = "remove"
    /\ \/ /\ ev[e].json
          /\ info[c] # None
          /\ info' = [info EXCEPT ![c] = None]
          /\ mtime' = [mtime EXCEPT ![c] = time]
          /\ ev' = [ev EXCEPT ![e].json = FALSE]
          /\ UNCHANGED tiles
       \/ \E t \in tiles[c] :
            /\ tiles' = [tiles EXCEPT ![c] = @ \ {t}]
            /\ mtime' = [mtime EXCEPT ![c] = MtimeAfterTile(tiles'[c], c, t)]
            /\ ev' = [ev EXCEPT ![e].listed = @ \ {t}]
            /\ UNCHANGED info
    /\ UNCHANGED <<time, storeVars, fill, hold, manifestVars>>

\* The directory is gone, and so are its bytes.
EvictRemoved(e) ==
    /\ ev[e].phase = "remove"
    /\ ~HasFiles(ev[e].victim.cell)
    /\ ev' = [ev EXCEPT ![e].phase = "choose", ![e].victim = None,
                        ![e].cands = @ \ {ev[e].victim},
                        ![e].after = @ - ev[e].victim.bytes,
                        ![e].listed = {}, ![e].json = FALSE]
    /\ UNCHANGED <<diskVars, time, storeVars, fill, hold, manifestVars>>

\* Mutant of EvictReturn: the mutex is not given back.
EvictReturnLocked(e) ==
    /\ ev[e].phase = "choose"
    /\ ev[e].after <= ev[e].budget \/ ev[e].cands = {}
    /\ ev' = [ev EXCEPT ![e] = NoEvict]
    /\ UNCHANGED <<diskVars, time, storeVars, fill, hold, manifestVars>>

\* Evict returns: the store fits, or there is nothing more it may remove.
EvictReturn(e) ==
    /\ ev[e].phase = "choose"
    /\ ev[e].after <= ev[e].budget \/ ev[e].cands = {}
    /\ ev' = [ev EXCEPT ![e] = NoEvict]
    /\ mu' = [mu EXCEPT ![StoreOf[e]] = None]
    /\ UNCHANGED <<diskVars, time, storeVars, fill, hold, manifest, memory,
                   add>>

\* Everything os.RemoveAll listed is gone and the directory is not empty:
\* somebody has written into it meanwhile.  Evict returns the error.
EvictNotEmpty(e) ==
    LET c == ev[e].victim.cell IN
    /\ ev[e].phase = "remove"
    /\ HasFiles(c)
    /\ ev[e].listed \cap tiles[c] = {}
    /\ ev[e].json => info[c] = None
    /\ ev' = [ev EXCEPT ![e] = NoEvict]
    /\ mu' = [mu EXCEPT ![StoreOf[e]] = None]
    /\ UNCHANGED <<diskVars, time, storeVars, fill, hold, manifest, memory,
                   add>>

\* os.RemoveAll fails part way, at a file that will not go.  Evict returns the
\* error, and what is left of the directory stays.
EvictFail(e) ==
    /\ ev[e].phase = "remove"
    /\ CutRemovals
    /\ ev' = [ev EXCEPT ![e] = NoEvict]
    /\ mu' = [mu EXCEPT ![StoreOf[e]] = None]
    /\ UNCHANGED <<diskVars, time, storeVars, fill, hold, manifest, memory,
                   add>>

-----------------------------------------------------------------------------
\* The process that has Store s ends between two file operations, and another
\* opens the root.  CutRemovals decides whether it may end inside a removal.
Kill(s) ==
    LET mine == {p \in Fillers \cup Renders \cup Evictors : StoreOf[p] = s} IN
    /\ CutRemovals \/ \A e \in Evictors \cap mine : ev[e].phase # "remove"
    /\ fill' = [f \in Fillers |-> IF f \in mine THEN NoFill ELSE fill[f]]
    /\ hold' = [r \in Renders |-> IF r \in mine THEN NoHold ELSE hold[r]]
    /\ ev' = [e \in Evictors |-> IF e \in mine THEN NoEvict ELSE ev[e]]
    /\ held' = [held EXCEPT ![s] = [c \in Cells |-> 0]]
    /\ touched' = [touched EXCEPT ![s] = [c \in Cells |-> None]]
    /\ Reopen(s)
    /\ UNCHANGED <<diskVars, time>>

Tick ==
    /\ time < MaxTime
    /\ time' = time + 1
    /\ UNCHANGED <<diskVars, storeVars, fill, hold, ev, manifestVars>>

\* The Store's own calls on its manifest.
ManifestStep ==
    /\ \/ \E s \in Stores : OpenSource(s)
       \/ \E a \in Adders : AddRead(a)
       \/ \E a \in Adders : AddWrite(a)
       \/ \E a \in Adders : Attach(a)
       \/ \E a \in Adders : AddFail(a)
    /\ UNCHANGED sliceVars

FillStep ==
    \E f \in Fillers :
        \/ \E c \in Cells, z \in Ranges : FillStart(f, c, z)
        \/ FillTile(f)
        \/ FillReadInfo(f)
        \/ FillMissesInfo(f)
        \/ FillRecord(f)
        \/ FillWiden(f)
        \/ FillFail(f)
        \/ \E c \in Cells, through \in CellZoom..MaxZoom :
                ExhaustRead(f, c, through)
        \/ ExhaustWrite(f)

HoldStep ==
    \E r \in Renders :
        \/ \E C \in (SUBSET Cells) \ {{}} : HoldClaim(r, C)
        \/ TouchDue(r)
        \/ \E c \in Cells : TouchRead(r, c)
        \/ \E c \in Cells : TouchNone(r, c)
        \/ TouchWrite(r)
        \/ \E c \in Cells : TouchFail(r, c)
        \/ HoldReturn(r)
        \/ Release(r)

EvictStep ==
    \E e \in Evictors :
        \/ \E b \in Budgets : EvictStart(e, b)
        \/ EvictMeasure(e)
        \/ EvictMeasured(e)
        \/ EvictList(e)
        \/ EvictGiveUp(e)
        \/ EvictLock(e)
        \/ EvictSkip(e)
        \/ EvictTake(e)
        \/ EvictUnlink(e)
        \/ EvictRemoved(e)
        \/ EvictReturn(e)
        \/ EvictNotEmpty(e)
        \/ EvictFail(e)

Next ==
    \/ FillStep
    \/ HoldStep
    \/ EvictStep
    \/ ManifestStep
    \/ \E s \in Stores : Kill(s)
    \/ Tick

Spec == Init /\ [][Next]_vars

-----------------------------------------------------------------------------
(***************************************************************************)
(* What the package promises.                                              *)
(***************************************************************************)

\* An eviction is in the middle of this cell's directory.
BeingRemoved(c) ==
    \E e \in Evictors : ev[e].phase = "remove" /\ ev[e].victim.cell = c

\* A cell that has a cell.json has no holes: every tile of the range recorded
\* is on disk or is not in the archive (manifest.go, CellInfo: "It is written
\* LAST, after every tile of the cell is on disk").
CompleteMeansWhole ==
    \A c \in Cells : info[c] # None /\ ~BeingRemoved(c)
                     => Whole(c, info[c].zoom)

\* Store.held is exactly the holds that have not been released, however often
\* Release is called and whoever is killed (source.go, Hold: "Holding the same
\* cell twice holds it until both are released").
HeldCountsHolds ==
    \A s \in Stores, c \in Cells : held[s][c] = Cardinality(Holding(s, c))

\* The directory being removed is not one a render of the same Store has been
\* granted a hold on, before the eviction took its mutex or since.
VictimIsNotHeld ==
    \A e \in Evictors : ev[e].phase = "remove"
        => Holding(StoreOf[e], ev[e].victim.cell) = {}

\* While a render has a cell, nothing in it goes away (source.go, Hold: "they
\* are the cells nothing may remove until it finishes").
HeldCellsStay ==
    [][\A r \in Renders :
          hold[r].phase = "held" /\ hold'[r].phase = "held"
          => \A c \in hold[r].cells :
                /\ tiles[c] \subseteq tiles'[c]
                /\ info[c] # None => info'[c] # None]_vars

\* Fetch f writes a cell.json for cell c that it could not read the old one of.
WritesOver(f, c) ==
    /\ fill[f].phase = "overwrite" /\ fill'[f].phase = "widen"
    /\ fill[f].cell = c
    /\ info'[c].zoom = fill[f].zoom

\* A cell refilled at another depth keeps the deeper answer (fill.go, Fill): its
\* recorded range shrinks, while its cell.json is there, only when a Fill that
\* could not read the old one puts its own range in its place.
DeeperAnswerKept ==
    [][\A c \in Cells : info[c] # None /\ info'[c] # None
          => \/ Covers(info'[c].zoom, info[c].zoom)
             \/ \E f \in Fillers : WritesOver(f, c)]_vars

\* What all the cells take up on the disk.
DiskBytes == Cardinality({p \in Cells \X Tiles : p[2] \in tiles[p[1]]})
             + Cardinality({c \in Cells : info[c] # None})

\* A cell is removed only while the store is really over the budget: one
\* eviction's running total never runs above what is on the disk, whatever is
\* fetched or removed beside it (evict.go, Evict: "until the store fits in
\* budget").
EvictsOnlyWhileOver ==
    [][\A e \in Evictors :
          ev[e].phase = "choose" /\ ev'[e].phase = "remove"
          => DiskBytes > ev[e].budget]_vars

\* The cell an eviction takes was, when it was listed, used no later than any
\* other on the disk is now that nobody holds: a render or a fetch that came
\* after the listing never makes a cell older (evict.go, "Least recently used,
\* by cell").
LeastRecentlyUsedFirst ==
    [][\A e \in Evictors :
          ev[e].phase = "choose" /\ ev'[e].phase = "remove"
          => \A c \in Cells \ {ev'[e].victim.cell} :
                HasFiles(c) /\ held[StoreOf[e]][c] = 0
                => ev'[e].victim.used <= ClockOf(c)]_vars

\* An eviction that ends above its budget leaves nothing behind but cells
\* renders hold (evict.go, Eviction.Held: "there is simply nothing this call
\* is allowed to remove").  Callers keep acquisitions out of it.
BudgetMissedOnlyForHolds ==
    [][\A e \in Evictors :
          EvictReturn(e) /\ ev[e].after > ev[e].budget
          => \A c \in Cells : HasFiles(c) => held[StoreOf[e]][c] > 0]_vars

-----------------------------------------------------------------------------
(***************************************************************************)
(* Liveness.  Goroutines that can run do run; a goroutine waiting for a    *)
(* mutex that is free again and again gets it (sync.Mutex hands over to a  *)
(* waiter it has starved).  Nobody is obliged to call anything.            *)
(***************************************************************************)
EvictRuns(e) == \/ EvictMeasure(e) \/ EvictMeasured(e) \/ EvictList(e)
                \/ EvictSkip(e) \/ EvictTake(e) \/ EvictUnlink(e)
                \/ EvictRemoved(e) \/ EvictReturn(e) \/ EvictNotEmpty(e)
HoldRuns(r) == \/ HoldReturn(r) \/ TouchWrite(r)
               \/ \E c \in Cells : TouchRead(r, c) \/ TouchNone(r, c)

AddRuns(a) == (AddWrite(a) \/ Attach(a)) /\ UNCHANGED sliceVars

FairSpec ==
    /\ Spec
    /\ \A a \in Adders : WF_vars(AddRuns(a))
    /\ \A e \in Evictors : WF_vars(EvictRuns(e)) /\ SF_vars(EvictLock(e))
    /\ \A r \in Renders : WF_vars(HoldRuns(r)) /\ SF_vars(TouchDue(r))

\* A render's Hold returns, whatever evictions come one after another.
HoldIsGranted ==
    \A r \in Renders : hold[r].phase = "claimed" ~>
                       hold[r].phase \in {"held", "released"}

=============================================================================
