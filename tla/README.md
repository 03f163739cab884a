# A verification project for osmbase

osmbase cuts pieces out of PMTiles archives (package `acquire`), keeps them on
disk as a *slice* (package `slice`), draws maps from them (`render`,
`perspective`) and says what a point is in or near (`boundary`, `locate`).
Goroutines, and programs, work on one slice at a time: fetches fill its cells,
renders hold and touch them, and whoever keeps the disk budget evicts the least
recently used ones.  Any of them may be killed between two file operations.  What
is fetched is decoded by readers of its own (`pmtiles`, `mvt`, `osmpbf`), none of
which trusts the file it is given.  The modules here model that, TLC checks them
on small instances, and TLAPS proves what matters most for every instance.

Run the model checker as `tlc -config MCSlice_whole.cfg MCSlice`, and the
proofs as `tlapm SliceProofs.tla`.

## Inventory

### Modelled

**slice: cells, holds, eviction** (`src/slice/fill.go`, `source.go`,
`evict.go`, `layout.go`).
*State*: a directory of tile files for each cell, its `cell.json` (zoom range
and the time it was last used), the directory's modification time; in each
process a `Store` with a mutex `mu`, `held` (holds of each cell) and `touched`
(when it last moved each cell's clock).
*Operations*: `Source.Fill`, `Source.Exhaust`, `Store.Hold` (with its touch),
`Hold.Release`, `Store.Evict`.
*Interactions*: a fetch calls `Fill` from one goroutine; a render calls `Hold`
before it draws and `Release` after; `Evict` takes `mu` for its removals and
lists its candidates before it has it.  Other programs share the directory and
nothing else (`docs/architecture.md`: two programs on one machine share a
slice), so `held` does not protect from their evictions.
*Hard*: every write is a file renamed into place and nothing is locked across
two of them; `touch` is a read-modify-write of `cell.json` beside `Fill`'s; a
removal is many unlinks; kills.
*Correct when*: a cell with a `cell.json` has every tile of the range it names
that the archive has; a held cell loses no file to its own process; a deeper
answer is never replaced by a shallower one; an eviction removes nothing it
need not, oldest first, and leaves a store over its budget only because of what
is held; nobody waits for ever for `mu`.

**slice: manifest and source handles** (`slice.go`, `manifest.go`).
*State*: `manifest.json`, the copy in each process's `Source`, `Store.mu` and
`Source.mu`.  *Operations*: `Store.Source`, `AddSource`, `attach`, `widen`.
*Hard*: the file is written under two different mutexes.  *Correct when*: the
recorded zoom range only ever grows, and memory agrees with the file.

**acquire: plan and fetch** (`plan.go`, `fetch.go`).
*State*: the plan (each group's missing tiles and the ranges they were
coalesced into), the slots, a goroutine for each group ahead and for each range
in flight, the channel of arrivals, each group's result, the context.
*Operations*: `PlanFor`, `Plan.Empty`, `Fetch`, `fetchRanges`,
`bufferArchive.RawTile`.
*Interactions*: plans from `Source.Has` and the archive's index, reads through
`io.ReaderAt`, stores through `Source.Fill`, reports to a callback.
*Hard*: results and arrivals come through different channels and in any order;
failure and cancellation part way; the plan is stale by the time it is stored;
run again after a kill.  *Correct when*: what is stored is a prefix of the plan,
cell by cell; the progress has heard of all of a group before it is stored;
memory is bounded; it returns, and leaves nothing running; run again it
finishes what was left.

**Caches and frames** (`dem/dem.go`, `render/tilecache.go`,
`perspective/tiles.go`, `perspective/frames.go`).
*State*: in each cache a map and a list of entries under a mutex, and with each
entry a channel closed once it is read; in `eachFrame` a counter, a context, the
first error and how many frames are done.
*Operations*: `Source.Heights`, `TileCache.get`, `Tiles.tile`, `eachFrame`.
*Interactions*: the frames of a flight are drawn from tiles of `Tiles`, each
drawn by a render that reads through `TileCache`, over heights from `Heights`.
*Hard*: reading is done with the mutex let go, so an entry may be evicted, and
made again, before it is read; all who wait share an error.  *Correct when*: what
is counted is what is kept; a failure is not kept; nobody waits for ever; no
frame is missed, and success is said only of all of them.

**terrain** (`terrain/terrain.go`, `terrain/store.go`).
*State*: the sources registered in the terrain store and the zooms they are
recorded to, its cells, the copied list of sources.  *Operations*: `ReadDir` and
`ReadIndex` (what a layout offers), `Measure`, `Prepare`, `Plan.Fetch`,
`Plan.Settle`, the credit of a view.  *Interactions*: one view is fetched from a
global archive, a regional one and one that says whom to credit, each by
`acquire.Fetch`.  *Hard*: the archives stop at different depths, are written one
after the other and any may fail.  *Correct when*: no cell claims a depth an
archive still has tiles for, a fill that ended well leaves nothing to offer, and
all of it is credited.

**cmd/osmbase and fetch: what a command does** (`cmd/osmbase/render.go`,
`render3d.go`, `offer.go`, `terrain.go`, `fetch.go`, `main.go`,
`fetch/offer.go`, `fetch/fetch.go`).
*State*: the command under way, what it was allowed, the two stores, the image
and its `.partial`, whether it was interrupted.  *Operations*: measure, ask,
contact the host, register, fill, carry on without, draw, encode, rename.
*Interactions*: with a person, a pipe or nobody at the other end; with another
command on the same stores.  *Correct when*: nobody is contacted without a yes,
no half image has its name, a render run by a script ends.

**cmd/osmbase boundaries** (`boundaries.go`, `boundaries_osm.go`,
`acquire/download.go`).  *State*: the directory with its extracts, derived files
and temporary files; what the host offers.  *Operations*: sweep, download,
three passes, write, remove.  *Hard*: two runs in one directory, a host that
publishes anew, renames and removals that fail, interrupts and kills.  *Correct
when*: nothing is left that was not asked for or said to be, and an extract that
another run cut short between two passes makes no outlines.

**boundary/osm** (`pipeline.go`, `rings.go`, `areas.go`): three passes that each
read only the blocks the first saw fit, limits on all that is collected, and
ways joined into rings.  *Correct when*: the passes together say what one
reading of everything would, and rings that can be closed are, whatever the
order and direction of ways.

**boundary** (`boundary.go`, `derived.go`, `source.go`, `find.go`): what holds a
point, files of outlines written and read, a store of them within shared limits,
what a point is called at each level, where a name is.  *Correct when*: a file
is read as written or refused whole; each polygon's hole is its own; no file
that is refused costs the others anything; answers do not turn on the order of
files.

**locate** (`lookup.go`, `area.go`, `feature.go`): the levels of a place from
the boundaries where they know it and the nearest features of tiles elsewhere.
*Hard*: tiles cut the world, which closes on itself, and are read in a random
order.  *Correct when*: nearest means of all there is.

**Readers** (`internal/protobuf`, `internal/inflate`, `pmtiles`, `mvt`,
`osmpbf`): varints and fields, directories and leaves along a Hilbert curve with
a cache of leaves, command streams and ring orientation, delta coding and
blobs.  State only in the cache of leaves.  *Correct when*: what an encoder
wrote is read back, at the ends of words too, and limits are kept.

**Plans and hosts** (`acquire/plan.go`, `areas.go`, `depth.go`, `coalesce.go`,
`acquire.go`, `mercator`, `slice/layout.go`): areas become cells, overviews and
depths, tiles become ranges, ranges are asked of a host that may answer anything.
*Correct when*: every tile missing is in exactly one range and none other; a
stretch of another edition is never taken for one of this.

### Not modelled, or in part

| Component | What is left out, and why |
|---|---|
| `slice` | `FillOverview` (no `cell.json` describes those tiles and nothing evicts them; `AcquireFetch` has them), the calls that only list, `Open` and `Create` |
| `acquire` HTTP | the transport, TLS and time limits, which are `net/http`'s |
| `mercator` | the formulas, which are floating point, `Unproject` and `TileTransform`; `Tiling` has projecting as a monotone table |
| `locate` | `PlacePoints`, cancellation, how levels are printed |
| `dem` | pixels to heights: floating point |
| `render`, `perspective` | geometry, styles, meshes and label layout: floating point, and nothing is kept between calls but the caches, which are modelled |
| `raster` | filling and stroking in floating point: pixels are outside TLC's arithmetic |
| `cmd/osmbase` | flags, reports and layout of output; `evict` and `status` are calls `Slice` has |
| `osmbasetest`, `internal/importcheck` | fixtures, used by tests only |

`PROJECT.json` lists the same components with their files, and the hazards
found in them at their lines.

## The modules

| Module | Models | |
|---|---|---|
| `Layout` | zoom ranges: empty, contains, union | used by `Manifest`, `Tiling`, `Planning` |
| `Manifest` | `manifest.json` and the copies of it | `AddSource` as read, write and attach; `widen` |
| `Slice` | the cells, with `Manifest` beside them | every call is a record with a phase; one action for each file operation or critical section |
| `SequentialFetch` | abstract: a fetch that reads a group and stores it, one after the next | what `AcquireFetch` implements |
| `AcquireFetch` | `PlanFor` and `Fetch` | one action for each send, receive, slot or tile |
| `TileCaches` | `dem.Source`, `render.TileCache`, `perspective.Tiles`: one map and list of entries in three forms | one action for each hold of the mutex, each read, each close and each wait |
| `Frames` | `eachFrame`, whose frames' work is a call of a cache | the counter, the check of the context, the work, the report |
| `Terrain` | a terrain store filled from several archives | one action for each archive opened, planned, tile stored, list copied, settling |
| `Commands` | the commands that draw, read or fetch | a run is a record of where it is, what it may and what it has seen |
| `Extract` | the three passes over an extract | functions of the blobs of the file each pass read |
| `Boundaries` | `osmbase boundaries`, on `Extract` | one action for each file operation and pass |
| `Rings` | ways to rings, rings to areas | |
| `Wire` | fields and varints | a word of `WordBits` bits |
| `Elements`, `VectorTile`, `Archive` | `osmpbf`, `mvt`, `pmtiles`, on `Wire` | bytes in, what is decoded or a failure out |
| `Tiling`, `Planning`, `Remote` | tiles and cells of an area; plans and ranges; a reader of a host | |
| `Outlines`, `Places`, `Gazetteer` | outlines and their files; stores of them and what is where; where what is | |
| `Nearby` | `locate` | |
| `MCSlice`, `MCAcquireFetch`, `MCFrames`, `MCTerrain`, `MCCommands`, `MCBoundaries`, `MCAlgorithms` | values of the constants, and inputs | |
| `SliceProofs`, `SliceActionProofs`, `FetchProofs`, `FrameProofs`, `CommandProofs`, `TerrainProofs`, `BoundariesProofs`, `AcquireProofs` | the proofs | of `Slice` with `Manifest`, `AcquireFetch`, `Frames` with `TileCaches`, `Commands`, `Terrain`, `Boundaries`; and of `Planning`, `Tiling` and `Remote` |

How state and actions correspond to the code:

- *Files.* Everything is written by `writeFileAtomic` (a temporary name, then a
  rename), so a write is one action and a file is whole or absent.  Tiles are
  names with a zoom; their bytes are left out and a size counts files.
- *`Fill`* is `FillStart` (arguments), a `FillTile` for each tile (skip it when
  it is there, leave it when the archive lacks it), `FillReadInfo` with
  `FillRecord` (the zoom range recorded before, joined to this one, and
  `cell.json` written last), `FillWiden` (the manifest).  A `cell.json` that is
  there and cannot be read or decoded is taken for none (`FillMissesInfo`), so
  that `FillRecord` writes this range alone.  `FillFail` is any other
  error or cancellation, after which the goroutine is idle and the files stay.
- *`Hold`* is `HoldClaim` (the critical section that counts it and copies what
  is due), then for each due cell `TouchRead` and `TouchWrite`, outside the
  mutex as in the code; `Release` is idempotent.
- *`Evict`* is `EvictMeasure`, `EvictList`, `EvictLock` (the mutex), `EvictTake`
  and `EvictSkip` for each candidate oldest first, an `EvictUnlink` for each
  file of the victim, `EvictRemoved`, `EvictReturn`.
- *`Kill(s)`* ends a process anywhere: its goroutines are idle, its memory is
  new, the files stay.
- *Fetch.* The caller's goroutine is `main`; a group's goroutine and those of
  its ranges are one record (`todo`, `slots`, `reading`, `failed`).  A range is
  the set of tiles whose bytes it holds: `Coalesced` allows every division, a
  superset of what `coalesce` can return.  A group's ranges are asked for in
  any order, a superset of the code's.  What the code stores through `Fill`,
  and `Slice` models in full, is here a tile at a time and a `cell.json`.

The two models meet in the state of a cell: `AcquireFetch` uses of `Slice` that
tiles appear one by one and `cell.json` last, and that a removed cell loses
both.

- *Caches.* An entry is named by the call that made it, and `form` says which
  cache it is; it never changes.  `Hit` and `Miss` are the critical section a
  call begins with, `ReadTile` and `ReadFails` the read outside it, `Forget` and
  `Count` the critical section after, `Close` the closing of the channel,
  `Answer` the end of a wait.  `dem` and `perspective` evict in `Miss`, by count;
  `render` in `Count`, by bytes, where an entry read after it was evicted
  (`Unlisted`) is not counted.  `Tiles.Drawn`'s counter is left out.
- *Frames.* A frame's work is one call of a cache; a frame that asks for many
  tiles is many frames of one.  `Tell` is the critical section after it.

- *Terrain.* `Open` and `Plan` are the halves of `Prepare`, `Store` a tile of
  `Plan.Fetch` and `Record` a cell's `cell.json`, `NextArchive` goes to the next
  plan, `CopySources` and `Settle` are the end; `Fail` is any error or kill.  What `acquire.Fetch` does inside is `AcquireFetch`, how a cell is
  written `Slice`.
- *Commands.* A run goes through the phases of its command.  Of the renders,
  `Look` measures the stores, `Ask` puts the question (a yes needs a flag or a
  terminal, and without one the render goes on), `Contact` opens an archive at
  its host, `Load` raises a store's level, `FillReturns` and `FillFails` end that,
  then `Open` or `ReadArchive`, `Draw`, `Create` and `Rename`.  Of a fetch, `Plan`,
  `Decide`, `Confirm` (which also reads a pipe), `Load`, `FetchReturns` and
  `FetchFails`.  `Interrupt` cancels the context, which each command notices where
  the code asks it, or kills the process.
- *Boundaries.* A pass opens its file again, as in the code, so each has its own
  edition of the extract; what the three give is `Extract`'s `Read` of the three.
  Which edition a host has is chosen as a download ends (`Transfer`).  A download,
  a rename, a write and a removal may each fail: `Discard` is the removal of a
  temporary file that saving defers, of whose failure nobody hears, and `Cleanup`
  that of the extract, which says so when it fails.
- *Functions.* The modules without state say what a call returns, as the code
  computes it: `Failed`, `Unreadable` or `ok |-> FALSE` is an error of the code,
  whichever.  Beside them, in the same module, is what the result is for,
  written with no regard to how it is found (an encoder for a decoder, all
  features of the world for the nearest tile's), and `MCAlgorithms` compares the
  two.  Words are narrower than the code's and limits lower, in proportion, so
  that overflow and refusal are among the inputs.

### Switches

What the code relies on its callers for is a constant, so that each run and
each theorem says whether it needs it.

- `EvictBesideFill`, `EvictBesideFetch`: whether an eviction may run during an
  acquisition.  `docs/architecture.md` says "at the end of an acquisition and at
  the start of a render, never during one"; nothing enforces it between
  programs.
- `HoldBesideFill`: whether a render may touch a cell that is being filled.
- `AddBesideWiden`: whether a source is registered again during a fetch of it.
- `CutRemovals`: whether `os.RemoveAll` may stop part way, by a kill or by a
  file that will not go.

## What the runs check

| Run | Instance | Shows |
|---|---|---|
| `slice_whole` | one cell of three tiles, two fetches of overlapping ranges, a render, an eviction, kills | `CompleteMeansWhole`, `HeldCellsStay`: no complete cell has a hole; a held one loses nothing |
| `slice_deeper` | a fetch that tops a cell up, a source added again, two renders that do not touch a cell during the fetch, and an eviction beside all of them, at one mutex, kills, cut removals, all errors, a `cell.json` that cannot be read | `DeeperAnswerKept`, `RangeOnlyGrows`, `HeldCountsHolds`, `VictimIsNotHeld`, `HoldIsGranted` |
| `slice_evict` | two cells of two tiles, a render, a fetch, an eviction but not during the fetch, a clock that ticks, kills, cut removals | `EvictsOnlyWhileOver`, `LeastRecentlyUsedFirst`, `BudgetMissedOnlyForHolds` |
| `fetch_returns` | the overview, a cell of three tiles one of which the archive lacks, a cell of one; two requests; asked for three times; a cell removed between two of them | `StoresInOrder` (it implements `SequentialFetch`), `CellsAreWhole`, `ToldBeforeStored`, `BuffersAreBounded`, `NothingAfterReturn`, `FetchReturns` |
| `frames_caches` | four frames, two goroutines, two tiles, each of the three caches with room for one, a read that fails, an interrupt | `TypeOK`, `UsedIsKept`, `FailureIsNotKept`, `DoneMeansEveryFrame`, `FramesReturn` |
| `terrain_fill` | three cells, one in a region that goes on where the global archive stops, one in a region that starts deeper, one at sea; any views to any depth, stopped anywhere | `ClaimIsBacked`, `FilledIsEnough`, `FilledIsCredited` |
| `commands_consent` | one process that draws in every way, attended or not, beside one that fetches and reads; failures, interrupts, kills | `ReadsOnlyGranted`, `ImageIsWhole`, `UnattendedRenderEnds` |
| `boundaries_clean` | two processes, one region, a host with an edition or one cut short; downloads, renames, writes and removals that fail, interrupts, kills | `NothingIsLeft`, `ShorterIsNoticed`: what stays was kept, killed over or said; a later pass that finds the extract too short ends the run |
| `algorithms_agree` | every input of the sets `MCAlgorithms` defines | each pure module against what its result is for, below |
| `fetch_hole`, `slice_touch`, `algorithms_v_batch` | a cell removed during a fetch; a touch beside a fetch; points of one batch | the findings below |

`algorithms_agree` picks a module and then one of its inputs, and has a property
of every such answer for each group of modules, whose conjuncts are named for
what they say:

- `RingsAgree`: ways of two loops, cut anywhere, in every order and direction,
  make the same rings, and a way is in one ring.
- `ExtractAgrees`: three passes that skip blocks find what one reading finds.
- `ElementsAgree`: up to three nodes, at the ends of their words, written and
  read; of a blob's payloads the one that counts, within what it declared.
- `TilesAgree`: geometry written and read; outer rings and holes told apart, the
  area of one leaving a word.
- `ArchivesAgree`: tile numbers follow the curve and come back; the directories'
  runs are found through leaves and a cache too small for them.
- `PlansAgree`: ranges hold each tile once and stay within their limits; an
  area's tiles are those that touch it; plans of several areas ask for each cell
  once; what is read of a host is of one edition and of the stretch asked for.
- `OutlinesAgree`: cutting a ring in two divides the ground between the halves;
  holes go to the smallest outline that has them, and along its edge to one that
  is around them; a file written is read as it was, and none of its beginnings nor
  it with more after it is read at all; steps that leave the Earth, or a word, are
  refused.
- `PlacesAgree`: a store loads what is whole and within its limits, whatever is
  refused beside it; a point is placed by every area once, whichever file is
  first; a name finds what is called that and nothing twice.
- `LookupsAgree`: the nearest is nearest in all the world and not in a tile; a
  point is on the way it is nearest to; a batch fails only for one of its points;
  boundaries that know a place are not overruled by tiles.

Every run checks deadlock but `algorithms_agree`, which asks one question and
is over.  *Bounds.* A cell of three tiles has all the kinds there are: one at
the cell zoom, one below it, one the archive lacks.  Two fetches, or a fetch and
a render and an eviction, are every pair of writers of one `cell.json`; a third
brings no new pair.  Two cells are what an order of victims needs, one tick what
a clock needs to tell earlier from same with `TouchEvery` of one.  Three groups
with two requests are the least with groups launched at the start, one launched
in the place of another, and ranges of two groups that compete for slots.  Three
runs of a fetch are a kill, a failure and a clean one in any order.  A cache with
room for one of two tiles evicts at every miss, entries being read too; of its
tiles one fits the byte limit and one is over it alone.  Four frames let a tile
be read, evicted while it is read, read again by another and asked for once more.
In `Terrain` two regions differ in both ends of their zooms, and views ask at every
depth that any archive reaches and deeper than most.  A store's level in `Commands` is none or full, since what
is between is the other modules' business, and two processes are the least of
which one can find what the other left.  In `Wire` a group of a varint has seven
bits, as in the code, and a word 15, so that the longest varint ends in one bit,
as that of 64 does.  The limits of files, areas, rings, points, redirects and
cells are 2 to 9 where the code's are thousands: each is reached and passed, but
for `MaxForks`, which five ways cannot reach.
The proofs below remove the bounds for the properties they cover.

*Fairness.* A goroutine that can run does run (weak fairness for each).  A
request ends, if only by the client's timeout, so `ReadOk \/ ReadFail` is
weakly fair.  A goroutine that waits for `mu` gets it if it is free again and
again (strong fairness): `sync.Mutex` hands itself to a waiter that has starved
for a millisecond.  Nothing is assumed of callers: nobody has to ask, cancel,
release or kill.  So `HoldIsGranted` is about the mutex only, and `FetchReturns`
about slots, channels and waits only.  `FramesReturn` assumes that every
goroutine runs and that every read of a tile ends; it does not assume that
anybody cancels.  In `Commands` a process that can go on does (weak fairness of
its steps): a person at a terminal answers, in whatever way, and nothing is
assumed of a pipe, on which a fetch may wait for ever.  So
`UnattendedRenderEnds` is about renders, whose questions nobody has to answer.

## Findings

Each is the counterexample of a run that is meant to find it.

1. **A tile removed after it was planned is recorded as absent** (`fetch_hole`,
   `acquire/fetch.go:345`).  `RawTile` is documented to answer such a tile with
   an error, and has the code for it, but `fetchRanges` marks as absent every
   tile of the group it did not fetch, those held at planning among them.
2. **A render undoes a deeper fetch** (`slice_touch`, `slice/source.go:473`).
   `touch` writes back the whole `cell.json` it read, and a `Fill` that recorded
   a deeper range in between is forgotten, though a cell "keeps the deeper answer"
   (`fill.go:133`) and a `Store` and a `Source` are "safe for concurrent use".
3. **A batch answers otherwise than its points** (`algorithms_v_batch`,
   `locate/area.go:63`).  Labels are remembered by area for the whole batch,
   "not found" too, and found by the tile that a range over a map gave first.

Eight more have a configuration each, which TLC ends with a counterexample under,
and are not among `PROJECT.json`'s runs:

- **A removal cut short leaves a complete cell with holes** (`MCSlice_v_cut.cfg`,
  `CompleteMeansWhole`, `slice/evict.go:130`).  `os.RemoveAll` unlinks in no
  particular order, so a kill or an error part way can leave `cell.json` beside
  missing tiles, for good.  Removing `cell.json` first would do.
- **Adding a source undoes a widening** (`MCSlice_v_add.cfg`, `RangeOnlyGrows`,
  `slice/slice.go:299`).  `AddSource` and `widen` write one file under two
  mutexes.
- **A fetch killed before its last `cell.json` is never finished**
  (`MCAcquireFetch_v_empty.cfg`, `EmptyMeansFinished`, `fetch/offer.go:150` and
  `cmd/osmbase/fetch.go:180`).  All tiles are there, so the plan is empty and
  `Fill` is never called again.
- **The cache of vector tiles outgrows its budget** (`MCFrames_v_budget.cfg`,
  `OverByOneTile`, `render/tilecache.go:95`).  The loop that evicts stops when
  the last of the list is the tile just read and leaves those in front of it.
- **Elevation is drawn and credited to nobody** (`MCTerrain_v_credit.cfg`,
  `DrawnIsCredited`, `terrain/terrain.go:485`).  The source that says whom to
  credit is registered first and filled last.
- **A render refuses what it could draw** (`MCCommands_v_carry.cfg`,
  `CarriesOn`, `cmd/osmbase/render.go:660`).  After a fill that failed part of
  the way the error is the one from before there was a store.
- **Outlines are written that cannot be read** (`MCAlgorithms_v_write.cfg`,
  `WrittenIsRead`, `boundary/derived.go:349`).  `checkWritable` lets through a
  hole without points and points off the Earth, which `ReadDerived` refuses.
- **A hole is cut out of the wrong outline** (`MCAlgorithms_v_edges.cfg`,
  `SharedEdges`, `boundary/derived.go:238`).  The first of a hole's points that any
  outline is around decides; one on the edge of the smallest outline may count as
  outside it and inside a larger one around that.

### Seen while modelling

Read in the code and not the subject of a run.

- *Slice and fetch.*  A tile can be decoded twice at once although `dem.go:129`
  says once, when its entry is evicted while it is being read.  Of two renders
  that touch a cell, the one that read the clock first may write last.
  `fetch.go`'s "Memory" says as many cells as there are requests, and it is one
  more while a group is stored (`BuffersAreBounded` states what holds).  The
  union of two ranges that do not touch claims the zooms between them, which no
  planned fetch asks for.  A `Fill` that cannot read the `cell.json` there is
  drops the error and records its own range only (`fill.go:141`).  The clock of an interrupted cell is its directory's
  modification time, which a tile written into an existing zoom does not move.
  Two processes that evict one store together remove more than the budget asked.
  With two processes, what one remembers of `manifest.json` may be older than the
  file, and the next `widen` writes that back.
- *Terrain.*  `Measure` asks no deeper than the recorded range, which only a
  fill moves, so a store filled shallow is never offered deeper terrain
  (`store.go:207`).  `elevationSource` lists and then writes (`terrain.go:520`),
  and the list of sources goes through one fixed `.partial` (`terrain.go:645`):
  two processes can undo or tear each other's.  A second layout registers a
  second elevation source, and `Open` then refuses the store.
- *Commands.*  An interrupt at a prompt is noticed once it is answered.  `fetch`
  contacts the host to plan before it asks, where `offer.go:41` calls that asking
  for something done; its own `confirm` reads a pipe.  "dry run: nothing was
  written" (`fetch.go:190`) comes after a store was made and its source
  registered.  An interrupt during the first fill of an empty store ends with 1,
  not 130.  Two renders to one name share its `.partial`.
  `render3d.go:139`'s order of questions is not `render.go`'s.
- *Boundaries.*  The sweep removes another run's temporary file, whose rename
  then fails; it does not know Natural Earth's temporary names, nor is it run for
  them; it would take a user's extract with such a name.  A run without
  `--keep-extract` removes an extract that another kept.  A temporary file that
  cannot be removed is not mentioned (`boundaries.go:246`).  An extract replaced
  between two passes by one of as many blocks or more is not noticed; the check
  for a block past the first pass's (`pipeline.go:517`) is never reached, since
  `keep` has refused the block before, and nothing says that it is.
- *Files and hosts.*  Whether an empty way is seen depends on the decoder's
  scratch buffer.  `osmpbf` reads ids and coordinates whatever wire type the tag
  says.  `DecodeDirectory` takes bytes after the end.  `mvt` reads a reversed tile
  whose first ring encloses nothing by the absolute convention.  `Waste` is
  negative where distinct tiles overlap, a negative `MaxGap` still joins ranges
  that abut (`coalesce.go:156`), and an archive published anew at the same length
  is not noticed.  A plan of the world with a shallow cell zoom stops a zoom short
  of it.
- *Places.*  `inRing`'s comment says that reversing a ring changes nothing; on an
  edge it does.  `outermostFirst` is not transitive among areas of one extent
  with and without numbers for kinds.  A file with bytes after its end is taken
  when the shared budget ends exactly there.  `aroundPoint` turns its box over
  north of the map.  A country in two files has the last one's credit.
- *Locate.*  Under `Prominent` a place first shown at zoom 7 reaches past the
  level's own neighbouring tiles and is in no shallow one, though
  `lookup.go:340` says the shallow ones have "exactly the ones with that reach".
  Distances to lines do not close at the antimeridian, as `tilesNear` does.  Of
  places that tie after rounding, the random order of tiles decides.

## What is proved

**SliceProofs**.  `TypeCorrect` and
`ManifestTypeCorrect` need nothing.  `HoldsAreCounted` and `VictimsAreNotHeld`
hold for any number of processes, renders, evictions and kills: the invariant
`HoldsInv` joins the types, the hold counts and that a victim is not held, for a
hold can be granted only without the mutex that an eviction keeps from its
choice of a victim until the files are gone.  `HeldCellsAreKept` adds that there
is one process.  `CompleteCellsAreWhole` is for one process that evicts outside
acquisitions, fetches ranges from the cell zoom or above, and whose removals
finish.  `CompleteMeansWhole` alone is not inductive: a `Fill` about to write
`cell.json` must have every tile of its range already (`FillsAreWhole`), a touch
about to write one must have read it from a cell that is still whole
(`TouchesAreWhole`), a removal must have started on the whole cell
(`RemovalsAreTotal`) and a recorded range must begin low enough for the union of
two to have no gap (`InfosAreLow`).  `OneStoreAgrees` and `OneStoreOnlyGrows`
are the manifest's, without `AddBesideWiden`.

**SliceActionProofs**, of what no step of `Slice` may do; each theorem says what
it needs of the callers, and each of these is needed.

- `DeeperAnswersAreKept`: a recorded range never shrinks but by a `Fill` that
  could not read the `cell.json` there was, for any Stores, evictions and kills,
  where no hold falls into an acquisition (finding 2) and no two fetches are on one
  cell.  `DeeperInv` says that whoever else is about to write a `cell.json` read
  the one that is there, or one that was evicted since.
- `EvictionsAreNeeded`: the one eviction there is takes a cell only from a store
  over its budget.  The running total is tied to the disk by the tiles and
  records it still counts, all of which are there (`TotalsAreCounted`).  Two
  evictions would each count what the other takes.
- `BudgetIsMissedForHolds`: in one process, evictions out of acquisitions, an
  eviction that ends above its budget leaves only what renders hold.  `Accounts`
  says that every cell on the disk is still before the eviction or is held.
  A fetch beside an eviction re-creates a cell after its turn.
- `LeastRecentlyUsedGoes`: in one process, evictions and touches out of
  acquisitions, what is taken is the least recently used of what may be taken, by
  the clocks as they are then.  `LeastInv` adds that no clock goes back: nothing is
  later than the wall clock (`ClocksArePast`), no two touches are of one cell
  (`TouchInv`), and what was listed of a cell is no later than its clock (`Aged`).
  Without `TouchesAreShort` (a render done touching within `touchEvery`, an hour)
  of two touches of a cell the earlier may write last and move its clock back.

**FetchProofs**, for any plan, any number of requests, any number of runs.
`FetchInv` joins the types, what goes with each phase of the caller's goroutine
(`MainInv`), that a group's ranges are each in one place and only an asking
group has any (`GroupsInv`), that a range which is neither asked for nor failed
has been heard of (`ToldInv`), and how far launching may be ahead of storing
(`AheadInv`).  From it: `FetchTypeCorrect` (with the count of slots),
`NothingRunsAfterReturn`, `ProgressIsComplete`, `MemoryIsBounded`.
`FetchedCellsAreWhole` and `FetchIsSequential` also need that no cell is removed
during a fetch, finding 1; their invariant `WholeFetch` says that at every
moment of a fetch each planned group's missing tiles are on disk or planned.
`FetchIsSequential` is the refinement: every step of `AcquireFetch` is one of
`SequentialFetch` or a stutter.

**FrameProofs**, for any number of frames, goroutines and tiles, any limit and
all three caches.  `CacheInv` says what the map may hold: entries of the right
tile (`MapIsOfEntries`), owned by who reads them (`EntryOwned`), answered only
once closed (`AnswersAreClosed`), and out of the map before a failed one is
settled (`FailedIsForgotten`); eviction only ever takes from the map, so none of
this needs the list or the bytes.  `IInv` adds the pool: no frame is two
goroutines' (`FramesAreTaken`), what is asked for is asked by whose frame it is
(`AsksAreOfWorkers`), and while nothing cancels the rest every frame the counter
has passed is over or somebody's (`NoneIsMissed`).  `FailuresAreRetried`,
`ProgressIsExact`, `FramesAreOver` and `SuccessIsOfAll` follow.  `ListInv` is about
the list and the bytes: the list holds what the map does, each entry once
(`ListIsMap`), a size is known only of what was read (`SizesAreLate`), and the
bytes counted are those of the entries listed, so `BytesAreCounted` and
`TypesHold`.  The bytes are a fold over a set; what folds come to is proved in the
same module by the smallest set it would not hold of.

**CommandProofs**, for any processes, command lines and answers.  `Inv` joins the
types and, for each process, which phases go with which command, grant and
interrupt (`Shape`), that it has contacted only whom it was granted (`Granted`),
and that a half image has only the `.partial` name and only while its process
encodes or failed to remove it.  `CommandTypeCorrect`, `OnlyTheGrantedAreTold`
and `ImagesAreWhole` follow; the question's outcome is an assumption on
constants no stronger than what a flag or a terminal can say.

**TerrainProofs**, for any cells, any number of regions, any ranges of zooms and
any fills.  `TerrainTypeCorrect` needs nothing; the rest is under `WellLaidOut`,
how a host's archives share the ground out: no cell is inside two regions
(`regionFor`'s comment), each region goes on where the global archive stops, and
that one goes below the cells.  The code does not check it; the instance that TLC
runs satisfies it.  `IInv` joins the types and four invariants: which cells are to
be settled, with a region of each opened (`ExhaustInv`); that of the archives a
fill has a plan of, each is stored, being stored or still to come (`StoredInv`);
that a view's cells are recorded to the global archive's depth once it is done,
and to the depth asked for once settled (`RecordedInv`); and that the list of
sources is there or to be copied (`OwedInv`).  `ClaimIsBacked` alone is not
inductive: when a cell is recorded or settled, nothing in it says that the other
archives' tiles of the cell are there.  `NoClaimIsHollow`, `AFillSuffices` and
`AFillIsCredited` follow.

**BoundariesProofs**, for any processes, regions, hosts and extracts, and
whatever fails.  `BoundariesInv` joins what goes with each place a run can be at
(`RunsInv`), that an extract on the disk is to be kept, a kill's, one that its run
said it could not delete, or of a run that will remove it (`ExtractsAreOwned`),
and that a temporary file was left by a kill or a failed removal or is of the run
that writes it (`TempsAreOwned`).  `NothingIsLeft` does not say which
temporary file a run has, so that the step which renames or removes it would not
keep it.  `NothingStays` follows, and what the passes read is nowhere
used.

**AcquireProofs**, of the functions a fetch is planned with, for every input.
They fold over sets and sequences, and the library's induction is out of the
prover's reach, so induction is by the least counterexample: were there an input
for which the claim fails there would be a smallest (`LeastNatural`,
`SmallestSet`, from the well-foundedness of the naturals), and it fails for none.
So go sums, powers of two, cardinalities of unions, and folds over the prefixes of
a sequence.

- `CoalesceServes`: of any finite set of locations and any limits.  By induction
  along the sorted list: what the stretches so far hold is the locations so far
  (`JoinServes`); the waste is what the stretches hold less the sum of the tiles,
  which the union of disjoint intervals gives (`WasteIsGaps`).  It discharges
  what `AcquireFetch` assumes of `Coalesced`.
- `AreasAreTiled`: of any area, any table of latitudes that only rises and any
  zooms.  Division by the side of a tile is taken apart once (`SpanIsReached`);
  pyramids by powers that add (`PowersAdd`).
- `RadiusIsCovered`: of any point and radius and any table of cosines.
- `OneAreaIsPlanned`, `SeveralAreasArePlanned`, `AreasAreSplit`: `PlansAgree`'s
  three statements of plans, of any archive, copy, limits and areas.  The plan's
  groups are apart because no tile is under two cells (`UnderIsApart`), so its
  totals count the union (`GroupsAreCounted`); a cell is as deep as the deepest
  area it is in, which holds what is under it for each of them
  (`DepthsAreDeepest`); and of the batches of the first `k` areas each fits, they
  hold those areas, and are several only if those would not fit as one
  (`SplitIsKept`).  The areas' ground must be on the map somewhere (`OnMap`): one
  wholly past its north or south edge asks for no ground and is planned as the
  tiles along it.  `AreasAreSplit` is of an archive whose directories read
  (`Readable`) and that goes no deeper below the cells than `PyramidTiles` lists
  (`depthLimit`, six zooms), or a plan is refused for what it is, not for its size.
- `HostsAreRead`: of any requests to a host that answers as it likes, each answer
  from some edition (`OfEdition`; a host that sends other bytes than it says is
  the decoders' business).

`MemoryMatchesDisk`, `NothingRunsOn`, `ToldIsFinished` and the types of `Commands`
are stated by theorems alone: no run lists them.

**Only model-checked**: `HoldIsGranted`, `FetchReturns`, `FramesReturn`,
`UnattendedRenderEnds`, since liveness is outside the prover;
`ShorterIsNoticed`, which is about what the passes read; and of
`algorithms_agree` all but `PlansAgree`: `RingsAgree`, `ExtractAgrees`,
`ElementsAgree`, `TilesAgree`, `ArchivesAgree`, `OutlinesAgree`, `PlacesAgree` and
`LookupsAgree`.  `Wire`, `Elements`, `VectorTile`, `Archive`, `Rings`, `Outlines`
and `Gazetteer` declare `RECURSIVE` operators, of which the prover has no
definition; of `Extract`, `Places` and `Nearby` no theorem has been stated yet.

## What is left out

A machine that loses power (renames without fsync), what is in a tile of a
slice, and what the table under "Not modelled, or in part" lists.  Floating point
is integers throughout: distances along axes, areas exact, projections tables
that only rise.  Where the code rounds, the model does (`Rounded`, `Quantise`);
where it relies on two roundings agreeing, that is not checked.

## The plan

Done: everything in the table of modules, and a theorem for every invariant and
action property of the components with state.  What could follow: of the
functions, that each way is in one ring (`Rings`) and that three passes find what
one does (`Extract`), by the same induction; `CellPromise`, what a cell promises
its readers, as an abstract specification `Slice` implements; two processes on one
terrain store, which would show the races listed above.
