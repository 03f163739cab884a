---------------------------- MODULE SliceProofs ----------------------------
(***************************************************************************)
(* The safety of Slice for every set of cells, tiles, zoom ranges, Stores  *)
(* and goroutines.  First the types: every variable has its type whatever  *)
(* steps are taken, and the locals of each call go with its phase; those   *)
(* of manifest.json on its own, and for one Store that nobody adds a       *)
(* source to while it fetches, that file and memory agree and the range    *)
(* only grows.  Then the holds: the counts are right and no eviction ever  *)
(* removes a cell that a render of its own Store has.  Then the cells: in  *)
(* one process that keeps evictions out of its acquisitions and whose      *)
(* removals are not cut short, no cell with a cell.json has a hole in it.  *)
(***************************************************************************)
EXTENDS Slice, TLAPS, FiniteSetTheorems

-----------------------------------------------------------------------------
(***************************************************************************)
(* manifest.json.                                                          *)
(***************************************************************************)

\* The narrowest range holding two is a range of the same zooms.
LEMMA UnionTyped ==
    ASSUME NEW a \in SliceRange, NEW b \in SliceRange
    PROVE  UnionOf(a, b) \in SliceRange
BY RangesAssumption
DEF UnionOf, SliceRange, ZoomRange, IsEmpty, EmptyZoom, Lesser, Greater

\* It holds both of them.
LEMMA UnionCovers ==
    ASSUME NEW a \in SliceRange, NEW b \in SliceRange
    PROVE  Covers(UnionOf(a, b), a) /\ Covers(UnionOf(a, b), b)
BY RangesAssumption
DEF UnionOf, Covers, SliceRange, ZoomRange, IsEmpty, EmptyZoom, Lesser, Greater

LEMMA CoversItself ==
    ASSUME NEW a \in SliceRange
    PROVE  Covers(a, a)
BY RangesAssumption DEF Covers, SliceRange, ZoomRange, IsEmpty, EmptyZoom

LEMMA NoneIsNoRange == None \notin SliceRange
BY StoresAssumption DEF SliceRange

LEMMA WidenTyped ==
    ASSUME ManifestTypeOK, NEW s \in Stores, NEW z \in SliceRange, Widen(s, z)
    PROVE  ManifestTypeOK'
<1>1. memory[s] \in SliceRange
  BY DEF ManifestTypeOK, Widen
<1>2. UnionOf(memory[s], z) \in SliceRange
  BY <1>1, UnionTyped
<1>3. manifest' \in SliceRange \cup {None}
  BY <1>2 DEF ManifestTypeOK, Widen
<1>4. memory' \in [Stores -> SliceRange \cup {None}]
  BY <1>2 DEF ManifestTypeOK, Widen
<1>5. QED
  BY <1>3, <1>4 DEF ManifestTypeOK, Widen

LEMMA OpenSourceTyped ==
    ASSUME ManifestTypeOK, NEW s \in Stores, OpenSource(s)
    PROVE  ManifestTypeOK'
BY DEF ManifestTypeOK, OpenSource

LEMMA AddReadTyped ==
    ASSUME ManifestTypeOK, NEW a \in Adders, AddRead(a)
    PROVE  ManifestTypeOK'
<1>1. /\ StoreOf[a] \in Stores
      /\ a \in Lockers
      /\ a # None
  BY StoresAssumption
<1>2. EmptyZoom \in SliceRange
  BY DEF SliceRange
<1>3. DEFINE r == IF manifest = None THEN EmptyZoom ELSE manifest
<1>4. r \in SliceRange /\ r # None
  BY <1>2, NoneIsNoRange DEF ManifestTypeOK
<1>5. add' = [add EXCEPT ![a] = [phase |-> "write", read |-> r]]
  BY DEF AddRead
<1> HIDE DEF r
<1>6. add' \in [Adders -> [phase: {"idle", "write", "attach"},
                           read: SliceRange \cup {None}]]
  BY <1>4, <1>5 DEF ManifestTypeOK
<1>7. ASSUME NEW b \in Adders
      PROVE  /\ (add'[b].phase = "idle") <=> (add'[b].read = None)
             /\ (add'[b].phase # "idle") <=> (mu'[StoreOf[b]] = b)
  <2>1. CASE b = a
    BY <1>1, <1>4, <1>5, <2>1 DEF ManifestTypeOK, AddRead
  <2>2. CASE b # a
    BY <1>1, <1>5, <2>2, StoresAssumption DEF ManifestTypeOK, AddRead
  <2>3. QED BY <2>1, <2>2
<1>8. QED
  BY <1>1, <1>6, <1>7 DEF ManifestTypeOK, AddRead

LEMMA AddWriteTyped ==
    ASSUME ManifestTypeOK, NEW a \in Adders, AddWrite(a)
    PROVE  ManifestTypeOK'
BY DEF ManifestTypeOK, AddWrite

\* AddSource returning, with or without an error, gives back the mutex it has.
LEMMA AddLeavesTyped ==
    ASSUME ManifestTypeOK, NEW a \in Adders, Attach(a) \/ AddFail(a)
    PROVE  ManifestTypeOK'
<1>1. StoreOf[a] \in Stores /\ mu[StoreOf[a]] = a /\ a # None
  BY StoresAssumption DEF ManifestTypeOK, Attach, AddFail
<1>2. /\ add' = [add EXCEPT ![a] = [phase |-> "idle", read |-> None]]
      /\ mu' = [mu EXCEPT ![StoreOf[a]] = None]
  BY DEF Attach, AddFail
<1>3. ASSUME NEW b \in Adders
      PROVE  /\ (add'[b].phase = "idle") <=> (add'[b].read = None)
             /\ (add'[b].phase # "idle") <=> (mu'[StoreOf[b]] = b)
  <2>1. CASE b = a
    BY <1>1, <1>2, <2>1 DEF ManifestTypeOK
  <2>2. CASE b # a
    BY <1>1, <1>2, <2>2, StoresAssumption DEF ManifestTypeOK
  <2>3. QED BY <2>1, <2>2
<1>4. /\ manifest' \in SliceRange \cup {None}
      /\ memory' \in [Stores -> SliceRange \cup {None}]
  BY DEF ManifestTypeOK, Attach, AddFail
<1>5. QED
  BY <1>1, <1>2, <1>3, <1>4 DEF ManifestTypeOK

LEMMA ReopenTyped ==
    ASSUME ManifestTypeOK, NEW s \in Stores, Reopen(s)
    PROVE  ManifestTypeOK'
<1>1. ASSUME NEW b \in Adders
      PROVE  /\ (add'[b].phase = "idle") <=> (add'[b].read = None)
             /\ (add'[b].phase # "idle") <=> (mu'[StoreOf[b]] = b)
  BY StoresAssumption DEF ManifestTypeOK, Reopen
<1>2. QED
  BY <1>1 DEF ManifestTypeOK, Reopen

\* The types of the manifest's variables, and that an AddSource under way is
\* one that holds its Store's mutex (slice.go, AddSource).
THEOREM ManifestTypeCorrect == ManifestSpec => []ManifestTypeOK
<1>1. ManifestInit => ManifestTypeOK
  BY StoresAssumption DEF ManifestInit, ManifestTypeOK
<1>2. ManifestTypeOK /\ [ManifestNext]_manifestVars => ManifestTypeOK'
  <2> SUFFICES ASSUME ManifestTypeOK, [ManifestNext]_manifestVars
               PROVE  ManifestTypeOK'
    OBVIOUS
  <2>1. ASSUME NEW s \in Stores, NEW z \in Ranges, FetchWidens(s, z)
        PROVE  ManifestTypeOK'
    BY <2>1, WidenTyped, RangesAssumption DEF FetchWidens, SliceRange
  <2>2. CASE UNCHANGED manifestVars
    BY <2>2 DEF manifestVars, ManifestTypeOK
  <2>3. QED
    BY <2>1, <2>2, OpenSourceTyped, AddReadTyped, AddWriteTyped,
       AddLeavesTyped, ReopenTyped DEF ManifestNext
<1>3. QED BY <1>1, <1>2, PTL DEF ManifestSpec

-----------------------------------------------------------------------------
\* What keeps one Store's copies together: besides the disk agreeing with the
\* memory, an AddSource past its read is about to write back what is there,
\* since nothing widens the slice meanwhile.
OneStoreInv ==
    /\ ManifestTypeOK
    /\ MemoryMatchesDisk
    /\ \A a \in Adders :
        /\ add[a].phase = "write" =>
              add[a].read = IF manifest = None THEN EmptyZoom ELSE manifest
        /\ add[a].phase = "attach" => add[a].read = manifest
    /\ manifest = None => \A s \in Stores : memory[s] = None

LEMMA OneStoreStep ==
    ASSUME NEW s0 \in Stores, Stores = {s0}, AddBesideWiden = FALSE,
           OneStoreInv, [ManifestNext]_manifestVars, ManifestTypeOK'
    PROVE  /\ OneStoreInv'
           /\ manifest # None => Covers(manifest', manifest)
<1> USE DEF OneStoreInv, MemoryMatchesDisk
<1>0. /\ \A a \in Adders : StoreOf[a] = s0
      /\ \A a \in Adders : add[a].phase # "idle" => mu[s0] = a
      /\ \A a \in Adders : a # None
      /\ manifest # None => manifest \in SliceRange /\ Covers(manifest, manifest)
  BY StoresAssumption, CoversItself DEF ManifestTypeOK
<1>1. ASSUME NEW s \in Stores, OpenSource(s)
      PROVE  OneStoreInv' /\ (manifest # None => Covers(manifest', manifest))
  BY <1>0, <1>1 DEF OpenSource, ManifestTypeOK
<1>2. ASSUME NEW a \in Adders, AddRead(a)
      PROVE  OneStoreInv' /\ (manifest # None => Covers(manifest', manifest))
  <2>1. add' = [add EXCEPT ![a] =
                  [phase |-> "write",
                   read |-> IF manifest = None THEN EmptyZoom ELSE manifest]]
    BY <1>2 DEF AddRead
  <2>2. \A b \in Adders : add[b].phase = "idle"
    BY <1>0, <1>2 DEF AddRead
  <2>3. UNCHANGED <<manifest, memory>>
    BY <1>2 DEF AddRead
  <2>4. QED
    BY <1>0, <2>1, <2>2, <2>3 DEF ManifestTypeOK
<1>3. ASSUME NEW a \in Adders, AddWrite(a)
      PROVE  OneStoreInv' /\ (manifest # None => Covers(manifest', manifest))
  <2>1. /\ add[a].phase = "write"
        /\ manifest' = add[a].read
        /\ add'[a].phase = "attach"
        /\ add'[a].read = add[a].read
        /\ \A b \in Adders : b # a => add'[b] = add[b] /\ add[b].phase = "idle"
        /\ UNCHANGED memory
    BY <1>0, <1>3 DEF AddWrite, ManifestTypeOK
  <2>2. manifest' # None
    BY <2>1, NoneIsNoRange DEF ManifestTypeOK, SliceRange
  <2>3. QED
    BY <1>0, <2>1, <2>2
<1>4. ASSUME NEW a \in Adders, Attach(a)
      PROVE  OneStoreInv' /\ (manifest # None => Covers(manifest', manifest))
  <2>1. /\ add[a].phase = "attach"
        /\ add[a].read = manifest
        /\ manifest' = manifest
        /\ add'[a].phase = "idle"
        /\ \A b \in Adders : b # a => add'[b] = add[b] /\ add[b].phase = "idle"
        /\ memory'[s0] = manifest
    BY <1>0, <1>4 DEF Attach, ManifestTypeOK
  <2>2. manifest # None
    BY <1>4, <2>1 DEF ManifestTypeOK
  <2>3. QED
    BY <1>0, <2>1, <2>2
<1>5. ASSUME NEW a \in Adders, AddFail(a)
      PROVE  OneStoreInv' /\ (manifest # None => Covers(manifest', manifest))
  BY <1>0, <1>5 DEF AddFail, ManifestTypeOK
<1>6. ASSUME NEW s \in Stores, NEW z \in Ranges, FetchWidens(s, z)
      PROVE  OneStoreInv' /\ (manifest # None => Covers(manifest', manifest))
  <2>1. \A a \in Adders : add[a].phase = "idle"
    BY <1>6 DEF FetchWidens
  <2>2. memory[s0] = manifest /\ manifest # None /\ s = s0
    BY <1>6, <2>1 DEF FetchWidens, Widen, ManifestTypeOK
  <2>3. z \in SliceRange
    BY RangesAssumption DEF SliceRange
  <2>4. /\ Covers(UnionOf(manifest, z), manifest)
        /\ UnionOf(manifest, z) # None
    BY <1>0, <2>2, <2>3, UnionCovers, UnionTyped, NoneIsNoRange
  <2>5. /\ manifest' = UnionOf(manifest, z) \/ manifest' = manifest
        /\ memory'[s0] = manifest'
        /\ add' = add
    BY <1>6, <2>2 DEF FetchWidens, Widen, ManifestTypeOK
  <2>6. QED
    BY <1>0, <2>1, <2>2, <2>4, <2>5
<1>7. ASSUME NEW s \in Stores, Reopen(s)
      PROVE  OneStoreInv' /\ (manifest # None => Covers(manifest', manifest))
  <2>1. /\ \A a \in Adders : add'[a].phase = "idle"
        /\ memory'[s0] = None
        /\ manifest' = manifest
    BY <1>0, <1>7 DEF Reopen, ManifestTypeOK
  <2>2. QED
    BY <1>0, <2>1
<1>8. CASE UNCHANGED manifestVars
  BY <1>0, <1>8 DEF manifestVars
<1>9. QED
  BY <1>1, <1>2, <1>3, <1>4, <1>5, <1>6, <1>7, <1>8 DEF ManifestNext

\* One Store, which adds no source while it fetches: its memory never disagrees
\* with manifest.json outside the last step of AddSource.
THEOREM OneStoreAgrees ==
    ASSUME NEW s0 \in Stores, Stores = {s0}, AddBesideWiden = FALSE
    PROVE  ManifestSpec => []MemoryMatchesDisk
<1>1. ManifestInit => OneStoreInv
  BY StoresAssumption
  DEF ManifestInit, OneStoreInv, MemoryMatchesDisk, ManifestTypeOK
<1>2. OneStoreInv /\ ManifestTypeOK' /\ [ManifestNext]_manifestVars
      => OneStoreInv'
  BY OneStoreStep
<1>3. OneStoreInv => MemoryMatchesDisk
  BY DEF OneStoreInv
<1>4. QED
  BY <1>1, <1>2, <1>3, ManifestTypeCorrect, PTL DEF ManifestSpec

\* Under the same discipline the range recorded on disk is never narrowed: what
\* widen's comment says of it (fill.go, "It only ever grows").
THEOREM OneStoreOnlyGrows ==
    ASSUME NEW s0 \in Stores, Stores = {s0}, AddBesideWiden = FALSE
    PROVE  ManifestSpec => RangeOnlyGrows
<1>1. ManifestInit => OneStoreInv
  BY StoresAssumption
  DEF ManifestInit, OneStoreInv, MemoryMatchesDisk, ManifestTypeOK
<1>2. OneStoreInv /\ ManifestTypeOK' /\ [ManifestNext]_manifestVars
      => OneStoreInv' /\ [manifest # None
                          => Covers(manifest', manifest)]_manifestVars
  BY OneStoreStep
<1>3. QED
  BY <1>1, <1>2, ManifestTypeCorrect, PTL DEF ManifestSpec, RangeOnlyGrows

-----------------------------------------------------------------------------
(***************************************************************************)
(* What the actions compute.                                               *)
(***************************************************************************)

LEMMA TimeIsNat == Time \subseteq Nat /\ 0 \in Time /\ None \notin Time
BY NumbersAssumption, NoneAssumption DEF Time

LEMMA PyramidInTiles ==
    ASSUME NEW z PROVE PyramidTiles(z) \subseteq Tiles
BY DEF PyramidTiles

LEMMA CellBytesIsNat ==
    ASSUME TypeOK, NEW c \in Cells
    PROVE  CellBytes(c) \in Nat
<1>1. IsFiniteSet(tiles[c])
  BY FS_Subset, TilesAssumption DEF TypeOK, DiskTypeOK
<1>2. Cardinality(tiles[c]) \in Nat
  BY <1>1, FS_CardinalityType
<1>3. QED BY <1>2 DEF CellBytes

LEMMA RecordedTyped ==
    ASSUME NEW z \in ZoomRange(MaxZoom), NEW prev \in CellInfo \cup {None}
    PROVE  RecordedZoom(z, prev) \in ZoomRange(MaxZoom)
BY RangesAssumption
DEF RecordedZoom, UnionOf, ZoomRange, CellInfo, IsEmpty, Lesser, Greater

LEMMA NoFillTyped == NoFill \in FillState
BY DEF NoFill, FillState, SliceRange

LEMMA NoHoldTyped == NoHold \in HoldState
BY TimeIsNat DEF NoHold, HoldState

LEMMA NoEvictTyped == NoEvict \in EvictState
BY DEF NoEvict, EvictState

LEMMA SameManifest ==
    ASSUME TypeOK, UNCHANGED manifestVars PROVE ManifestTypeOK'
BY DEF TypeOK, ManifestTypeOK, manifestVars

LEMMA SameDisk ==
    ASSUME TypeOK, UNCHANGED diskVars, UNCHANGED time PROVE DiskTypeOK'
BY DEF TypeOK, DiskTypeOK, diskVars

LEMMA SameStore ==
    ASSUME TypeOK, UNCHANGED storeVars PROVE StoreTypeOK'
BY DEF TypeOK, StoreTypeOK, storeVars

LEMMA SameFill ==
    ASSUME TypeOK, UNCHANGED fill PROVE FillTypeOK'
BY DEF TypeOK, FillTypeOK

LEMMA SameHold ==
    ASSUME TypeOK, UNCHANGED hold PROVE HoldTypeOK'
BY DEF TypeOK, HoldTypeOK

LEMMA SameEvict ==
    ASSUME TypeOK, UNCHANGED ev, UNCHANGED mu PROVE EvictTypeOK'
BY DEF TypeOK, EvictTypeOK

-----------------------------------------------------------------------------
(***************************************************************************)
(* Fill and Exhaust.                                                       *)
(***************************************************************************)

\* What a fetching goroutine's next state must be for FillTypeOK to go on.
FillOK(x) ==
    /\ x \in FillState
    /\ (x.cell = None) <=> (x.phase = "idle")
    /\ x.phase = "exhaust" => x.read # None
    /\ x.phase = "overwrite" => x.read = None
    /\ x.phase # "idle" => x.zoom \in ZoomRange(MaxZoom)
    /\ x.phase # "tiles" => x.todo = {}

LEMMA FillMoves ==
    ASSUME TypeOK, NEW f \in Fillers, NEW x, FillOK(x),
           fill' = [fill EXCEPT ![f] = x]
    PROVE  FillTypeOK'
BY DEF TypeOK, FillTypeOK, FillOK

LEMMA FillWas ==
    ASSUME TypeOK, NEW f \in Fillers
    PROVE  FillOK(fill[f]) /\ (fill[f].phase # "idle" => fill[f].cell \in Cells)
BY DEF TypeOK, FillTypeOK, FillOK, FillState

LEMMA NoFillOK == FillOK(NoFill)
BY NoFillTyped DEF FillOK, NoFill

LEMMA FillStartTyped ==
    ASSUME TypeOK, NEW f \in Fillers, NEW c \in Cells, NEW z \in Ranges,
           FillStart(f, c, z)
    PROVE  TypeOK'
<1>1. DEFINE x == [phase |-> "tiles", cell |-> c, zoom |-> z,
                   todo |-> PyramidTiles(z), read |-> None]
<1>2. FillOK(x)
  BY PyramidInTiles, RangesAssumption, NoneAssumption
  DEF FillOK, FillState, SliceRange
<1>3. fill' = [fill EXCEPT ![f] = x]
  BY DEF FillStart
<1> HIDE DEF x
<1>4. FillTypeOK'
  BY <1>2, <1>3, FillMoves
<1>5. QED
  BY <1>4, SameDisk, SameStore, SameHold, SameEvict, SameManifest
  DEF FillStart, TypeOK, manifestVars

LEMMA FillTileTyped ==
    ASSUME TypeOK, NEW f \in Fillers, FillTile(f)
    PROVE  TypeOK'
<1>1. PICK t \in NextTiles(f) : FillTile(f)!(t)
  BY DEF FillTile
<1>2. t \in Tiles
  BY <1>1 DEF NextTiles, TypeOK, FillTypeOK, FillState
<1>3. fill[f].cell \in Cells
  BY <1>1, FillWas
<1>4. DEFINE x == [fill[f] EXCEPT !.todo = @ \ {t}]
<1>5. FillOK(x)
  BY <1>1, FillWas DEF FillOK, FillState
<1>6. fill' = [fill EXCEPT ![f] = x]
  BY <1>1
<1> HIDE DEF x
<1>7. FillTypeOK'
  BY <1>5, <1>6, FillMoves
<1>8. MtimeAfterTile(tiles[fill[f].cell], fill[f].cell, t) \in Time
  BY <1>3 DEF MtimeAfterTile, TypeOK, DiskTypeOK
<1>9. DiskTypeOK'
  BY <1>1, <1>2, <1>3, <1>8 DEF TypeOK, DiskTypeOK, diskVars
<1>10. QED
  BY <1>1, <1>7, <1>9, SameStore, SameHold, SameEvict, SameManifest
  DEF TypeOK, manifestVars

\* Fill's next step that only moves its own phase and what it read.
LEMMA FillReadInfoTyped ==
    ASSUME TypeOK, NEW f \in Fillers, FillReadInfo(f)
    PROVE  TypeOK'
<1>1. DEFINE x == [fill[f] EXCEPT !.phase = "record",
                                  !.read = info[fill[f].cell]]
<1>2. FillOK(x)
  BY FillWas DEF FillReadInfo, FillOK, FillState, TypeOK, DiskTypeOK
<1>3. fill' = [fill EXCEPT ![f] = x]
  BY DEF FillReadInfo
<1> HIDE DEF x
<1>4. FillTypeOK'
  BY <1>2, <1>3, FillMoves
<1>5. QED
  BY <1>4, SameDisk, SameStore, SameHold, SameEvict, SameManifest
  DEF FillReadInfo, TypeOK, manifestVars

LEMMA FillMissesInfoTyped ==
    ASSUME TypeOK, NEW f \in Fillers, FillMissesInfo(f)
    PROVE  TypeOK'
<1>1. DEFINE x == [fill[f] EXCEPT !.phase = "overwrite", !.read = None]
<1>2. FillOK(x)
  BY FillWas DEF FillMissesInfo, FillOK, FillState
<1>3. fill' = [fill EXCEPT ![f] = x]
  BY DEF FillMissesInfo
<1> HIDE DEF x
<1>4. FillTypeOK'
  BY <1>2, <1>3, FillMoves
<1>5. QED
  BY <1>4, SameDisk, SameStore, SameHold, SameEvict, SameManifest
  DEF FillMissesInfo, TypeOK, manifestVars

\* What writing a cell.json does to the disk, whoever writes it.
LEMMA InfoTyped ==
    ASSUME TypeOK, NEW c \in Cells, NEW i \in CellInfo \cup {None},
           info' = [info EXCEPT ![c] = i],
           mtime' = [mtime EXCEPT ![c] = time],
           UNCHANGED <<tiles, time>>
    PROVE  DiskTypeOK'
BY DEF TypeOK, DiskTypeOK

LEMMA FillRecordTyped ==
    ASSUME TypeOK, NEW f \in Fillers, FillRecord(f)
    PROVE  TypeOK'
<1>1. fill[f].cell \in Cells /\ fill[f].phase \in {"record", "overwrite"}
  BY FillWas DEF FillRecord
<1>2. DEFINE i == [zoom |-> RecordedZoom(fill[f].zoom, fill[f].read),
                   used |-> time]
             x == [fill[f] EXCEPT !.phase = "widen"]
<1>3. i \in CellInfo
  BY <1>1, FillWas, RecordedTyped
  DEF CellInfo, FillOK, FillState, TypeOK, DiskTypeOK
<1>4. FillOK(x)
  BY <1>1, FillWas DEF FillOK, FillState
<1>5. /\ info' = [info EXCEPT ![fill[f].cell] = i]
      /\ fill' = [fill EXCEPT ![f] = x]
  BY DEF FillRecord
<1> HIDE DEF i, x
<1>6. FillTypeOK'
  BY <1>4, <1>5, FillMoves
<1>8. DiskTypeOK'
  BY <1>1, <1>3, <1>5, InfoTyped DEF FillRecord
<1>9. QED
  BY <1>6, <1>8, SameStore, SameHold, SameEvict, SameManifest
  DEF FillRecord, TypeOK, manifestVars

LEMMA FillWidenTyped ==
    ASSUME TypeOK, NEW f \in Fillers, FillWiden(f)
    PROVE  TypeOK'
<1>1. fill[f].zoom \in SliceRange /\ StoreOf[f] \in Stores
  BY ActorsAssumption DEF TypeOK, FillTypeOK, FillState
<1>2. ManifestTypeOK'
  BY <1>1, WidenTyped DEF FillWiden, FetchWidens, TypeOK
<1>3. UNCHANGED mu
  BY DEF FillWiden, FetchWidens, Widen
<1>4. FillTypeOK'
  BY NoFillOK, FillMoves DEF FillWiden
<1>5. QED
  BY <1>2, <1>3, <1>4, SameDisk, SameStore, SameHold, SameEvict
  DEF FillWiden, TypeOK

LEMMA FillFailTyped ==
    ASSUME TypeOK, NEW f \in Fillers, FillFail(f)
    PROVE  TypeOK'
<1>1. FillTypeOK'
  BY NoFillOK, FillMoves DEF FillFail
<1>2. QED
  BY <1>1, SameDisk, SameStore, SameHold, SameEvict, SameManifest
  DEF FillFail, TypeOK, manifestVars

LEMMA ExhaustReadTyped ==
    ASSUME TypeOK, NEW f \in Fillers, NEW c \in Cells,
           NEW through \in CellZoom..MaxZoom, ExhaustRead(f, c, through)
    PROVE  TypeOK'
<1>1. DEFINE x == [phase |-> "exhaust", cell |-> c,
                   zoom |-> [min |-> info[c].zoom.min, max |-> through],
                   todo |-> {}, read |-> info[c]]
<1>2. through \in 0..MaxZoom
  BY RangesAssumption, TilesAssumption
<1>3. info[c] \in CellInfo
  BY DEF ExhaustRead, TypeOK, DiskTypeOK
<1>4. FillOK(x)
  BY <1>2, <1>3, NoneAssumption
  DEF FillOK, FillState, SliceRange, ZoomRange, CellInfo
<1>5. fill' = [fill EXCEPT ![f] = x]
  BY DEF ExhaustRead
<1> HIDE DEF x
<1>6. FillTypeOK'
  BY <1>4, <1>5, FillMoves
<1>7. QED
  BY <1>6, SameDisk, SameStore, SameHold, SameEvict, SameManifest
  DEF ExhaustRead, TypeOK, manifestVars

LEMMA ExhaustWriteTyped ==
    ASSUME TypeOK, NEW f \in Fillers, ExhaustWrite(f)
    PROVE  TypeOK'
<1>1. /\ fill[f].cell \in Cells
      /\ fill[f].phase = "exhaust"
      /\ fill[f].read \in CellInfo
      /\ fill[f].zoom \in ZoomRange(MaxZoom)
  BY FillWas DEF ExhaustWrite, FillOK, FillState
<1>2. DEFINE i == [zoom |-> fill[f].zoom, used |-> fill[f].read.used]
<1>3. i \in CellInfo
  BY <1>1 DEF CellInfo
<1>4. info' = [info EXCEPT ![fill[f].cell] = i]
  BY DEF ExhaustWrite
<1> HIDE DEF i
<1>6. DiskTypeOK'
  BY <1>1, <1>3, <1>4, InfoTyped DEF ExhaustWrite
<1>7. FillTypeOK'
  BY NoFillOK, FillMoves DEF ExhaustWrite
<1>8. QED
  BY <1>6, <1>7, SameStore, SameHold, SameEvict, SameManifest
  DEF ExhaustWrite, TypeOK, manifestVars

-----------------------------------------------------------------------------
(***************************************************************************)
(* Hold and Release.                                                       *)
(***************************************************************************)

\* What a drawing goroutine's next state must be for HoldTypeOK to go on.
HoldOK(x) ==
    /\ x \in HoldState
    /\ (x.cell # None) <=> (x.phase = "writing")
    /\ (x.read # None) <=> (x.phase = "writing")
    /\ x.cell \in x.due \cup {None}
    /\ x.due \subseteq x.cells

LEMMA HoldMoves ==
    ASSUME TypeOK, NEW r \in Renders, NEW x, HoldOK(x),
           hold' = [hold EXCEPT ![r] = x]
    PROVE  HoldTypeOK'
BY DEF TypeOK, HoldTypeOK, HoldOK

LEMMA HoldWas ==
    ASSUME TypeOK, NEW r \in Renders
    PROVE  HoldOK(hold[r]) /\ StoreOf[r] \in Stores
BY ActorsAssumption DEF TypeOK, HoldTypeOK, HoldOK

LEMMA HoldClaimTyped ==
    ASSUME TypeOK, NEW r \in Renders, NEW C \in (SUBSET Cells) \ {{}},
           HoldClaim(r, C)
    PROVE  TypeOK'
<1>1. DEFINE x == [phase |-> "claimed", cells |-> C, now |-> time,
                   due |-> {}, cell |-> None, read |-> None]
<1>2. HoldOK(x)
  BY DEF HoldOK, HoldState, TypeOK, DiskTypeOK
<1>3. hold' = [hold EXCEPT ![r] = x]
  BY DEF HoldClaim
<1> HIDE DEF x
<1>4. HoldTypeOK'
  BY <1>2, <1>3, HoldMoves
<1>5. StoreTypeOK'
  BY HoldWas DEF HoldClaim, TypeOK, StoreTypeOK
<1>6. QED
  BY <1>4, <1>5, SameDisk, SameFill, SameEvict, SameManifest
  DEF HoldClaim, TypeOK, manifestVars

LEMMA TouchDueTyped ==
    ASSUME TypeOK, NEW r \in Renders, TouchDue(r)
    PROVE  TypeOK'
<1>1. DEFINE due == {c \in hold[r].cells : IsDue(StoreOf[r], c, hold[r].now)}
             x == [hold[r] EXCEPT !.phase = "touching", !.due = due]
<1>2. due \in SUBSET Cells /\ due \subseteq hold[r].cells
  BY HoldWas DEF HoldOK, HoldState
<1>3. hold' = [hold EXCEPT ![r] = x]
  BY DEF TouchDue
<1>4. StoreTypeOK'
  <2>1. hold[r].now \in Time
    BY HoldWas DEF HoldOK, HoldState
  <2>2. touched' = [touched EXCEPT ![StoreOf[r]] = [c \in Cells |->
                      IF c \in due THEN hold[r].now
                      ELSE touched[StoreOf[r]][c]]]
    BY DEF TouchDue
  <2> HIDE DEF due
  <2>3. QED
    BY <2>1, <2>2, HoldWas DEF TouchDue, TypeOK, StoreTypeOK
<1> HIDE DEF due
<1>5. HoldOK(x)
  BY <1>2, HoldWas DEF TouchDue, HoldOK, HoldState
<1> HIDE DEF x
<1>6. HoldTypeOK'
  BY <1>3, <1>5, HoldMoves
<1>7. QED
  BY <1>4, <1>6, SameDisk, SameFill, SameEvict, SameManifest
  DEF TouchDue, TypeOK, manifestVars

LEMMA TouchReadTyped ==
    ASSUME TypeOK, NEW r \in Renders, NEW c \in Cells, TouchRead(r, c)
    PROVE  TypeOK'
<1>1. DEFINE x == [hold[r] EXCEPT !.phase = "writing", !.cell = c,
                                  !.read = info[c]]
<1>2. HoldOK(x)
  BY HoldWas, NoneAssumption
  DEF TouchRead, HoldOK, HoldState, TypeOK, DiskTypeOK
<1>3. hold' = [hold EXCEPT ![r] = x]
  BY DEF TouchRead
<1> HIDE DEF x
<1>4. HoldTypeOK'
  BY <1>2, <1>3, HoldMoves
<1>5. QED
  BY <1>4, SameDisk, SameStore, SameFill, SameEvict, SameManifest
  DEF TouchRead, TypeOK, manifestVars

LEMMA TouchNoneTyped ==
    ASSUME TypeOK, NEW r \in Renders, NEW c \in Cells, TouchNone(r, c)
    PROVE  TypeOK'
<1>1. DEFINE x == [hold[r] EXCEPT !.due = @ \ {c}]
<1>2. HoldOK(x)
  BY HoldWas DEF TouchNone, HoldOK, HoldState
<1>3. hold' = [hold EXCEPT ![r] = x]
  BY DEF TouchNone
<1> HIDE DEF x
<1>4. HoldTypeOK'
  BY <1>2, <1>3, HoldMoves
<1>5. QED
  BY <1>4, SameDisk, SameStore, SameFill, SameEvict, SameManifest
  DEF TouchNone, TypeOK, manifestVars

\* What touch leaves of its state when it is done with cell c.
LEMMA TouchedOK ==
    ASSUME TypeOK, NEW r \in Renders, NEW c
    PROVE  HoldOK([hold[r] EXCEPT !.phase = "touching", !.due = @ \ {c},
                                  !.cell = None, !.read = None])
BY HoldWas DEF HoldOK, HoldState

LEMMA TouchWriteTyped ==
    ASSUME TypeOK, NEW r \in Renders, TouchWrite(r)
    PROVE  TypeOK'
<1>1. DEFINE c == hold[r].cell
             i == [zoom |-> hold[r].read.zoom, used |-> hold[r].now]
             x == [hold[r] EXCEPT !.phase = "touching", !.due = @ \ {c},
                                  !.cell = None, !.read = None]
<1>2. c \in Cells /\ hold[r].read \in CellInfo /\ hold[r].now \in Time
  BY HoldWas DEF TouchWrite, HoldOK, HoldState
<1>3. i \in CellInfo
  BY <1>2 DEF CellInfo
<1>4. HoldOK(x)
  BY TouchedOK
<1>5. info' = [info EXCEPT ![c] = i] /\ hold' = [hold EXCEPT ![r] = x]
  BY DEF TouchWrite
<1>6. mtime' = [mtime EXCEPT ![c] = time] /\ UNCHANGED <<tiles, time>>
  BY DEF TouchWrite
<1> HIDE DEF c, i, x
<1>7. HoldTypeOK'
  BY <1>4, <1>5, HoldMoves
<1>8. DiskTypeOK'
  BY <1>2, <1>3, <1>5, <1>6, InfoTyped DEF TouchWrite, TypeOK, DiskTypeOK
<1>9. QED
  BY <1>7, <1>8, SameStore, SameFill, SameEvict, SameManifest
  DEF TouchWrite, TypeOK, manifestVars

LEMMA TouchFailTyped ==
    ASSUME TypeOK, NEW r \in Renders, NEW c \in Cells, TouchFail(r, c)
    PROVE  TypeOK'
<1>1. DEFINE x == [hold[r] EXCEPT !.phase = "touching", !.due = @ \ {c},
                                  !.cell = None, !.read = None]
<1>2. HoldOK(x)
  BY TouchedOK
<1>3. hold' = [hold EXCEPT ![r] = x]
  BY DEF TouchFail
<1> HIDE DEF x
<1>4. HoldTypeOK'
  BY <1>2, <1>3, HoldMoves
<1>5. QED
  BY <1>4, SameDisk, SameStore, SameFill, SameEvict, SameManifest
  DEF TouchFail, TypeOK, manifestVars

LEMMA HoldReturnTyped ==
    ASSUME TypeOK, NEW r \in Renders, HoldReturn(r)
    PROVE  TypeOK'
<1>1. DEFINE x == [hold[r] EXCEPT !.phase = "held"]
<1>2. HoldOK(x)
  BY HoldWas DEF HoldReturn, HoldOK, HoldState
<1>3. hold' = [hold EXCEPT ![r] = x]
  BY DEF HoldReturn
<1> HIDE DEF x
<1>4. HoldTypeOK'
  BY <1>2, <1>3, HoldMoves
<1>5. QED
  BY <1>4, SameDisk, SameStore, SameFill, SameEvict, SameManifest
  DEF HoldReturn, TypeOK, manifestVars

LEMMA ReleaseTyped ==
    ASSUME TypeOK, NEW r \in Renders, Release(r)
    PROVE  TypeOK'
<1>1. DEFINE x == [hold[r] EXCEPT !.phase = "released"]
<1>2. HoldOK(x)
  BY HoldWas DEF Release, HoldOK, HoldState
<1>3. hold' = [hold EXCEPT ![r] = x]
  BY DEF Release
<1> HIDE DEF x
<1>4. HoldTypeOK'
  BY <1>2, <1>3, HoldMoves
<1>5. \A n \in Nat : n > 0 => n - 1 \in Nat
  OBVIOUS
<1>6. StoreTypeOK'
  BY <1>5, HoldWas DEF Release, TypeOK, StoreTypeOK
<1>7. QED
  BY <1>4, <1>6, SameDisk, SameFill, SameEvict, SameManifest
  DEF Release, TypeOK, manifestVars

-----------------------------------------------------------------------------
(***************************************************************************)
(* Evict.                                                                  *)
(***************************************************************************)

\* What an eviction's next state must be for EvictTypeOK to go on, apart from
\* the mutex: that is InLock.
EvictOK(x) ==
    /\ x \in EvictState
    /\ (x.victim # None) <=> (x.phase = "remove")

InLock(x) == x.phase \in {"choose", "remove"}

LEMMA EvictWas ==
    ASSUME TypeOK, NEW e \in Evictors
    PROVE  /\ EvictOK(ev[e])
           /\ InLock(ev[e]) <=> (mu[StoreOf[e]] = e)
           /\ StoreOf[e] \in Stores
           /\ e # None
BY ActorsAssumption, StoresAssumption
DEF TypeOK, EvictTypeOK, EvictOK, InLock

LEMMA EvictFields ==
    ASSUME TypeOK, NEW e \in Evictors
    PROVE  /\ ev[e] \in EvictState
           /\ ev[e].budget \in Nat
           /\ ev[e].after \in Int
           /\ ev[e].left \in SUBSET Cells
           /\ ev[e].cands \in SUBSET Candidate
           /\ ev[e].listed \in SUBSET Tiles
BY EvictWas DEF EvictOK, EvictState

\* An eviction's step that leaves every mutex where it is.
LEMMA EvictMoves ==
    ASSUME TypeOK, NEW e \in Evictors, NEW x, EvictOK(x),
           InLock(x) <=> InLock(ev[e]), UNCHANGED mu,
           ev' = [ev EXCEPT ![e] = x]
    PROVE  EvictTypeOK'
BY EvictWas DEF TypeOK, EvictTypeOK, EvictOK, InLock

\* An eviction takes the mutex of its Store, or gives it back.
LEMMA EvictLocks ==
    ASSUME TypeOK, NEW e \in Evictors, NEW x, EvictOK(x),
           NEW m, mu' = [mu EXCEPT ![StoreOf[e]] = m],
           \/ InLock(x) /\ m = e /\ mu[StoreOf[e]] = None
           \/ ~InLock(x) /\ m = None /\ mu[StoreOf[e]] = e,
           ev' = [ev EXCEPT ![e] = x],
           UNCHANGED <<manifest, memory, add>>
    PROVE  EvictTypeOK' /\ ManifestTypeOK'
<1>1. /\ mu'[StoreOf[e]] = m
      /\ \A s \in Stores : s # StoreOf[e] => mu'[s] = mu[s]
  BY EvictWas DEF TypeOK, ManifestTypeOK
<1>2. mu' \in [Stores -> Lockers \cup {None}]
  BY ActorsAssumption DEF TypeOK, ManifestTypeOK
<1>3. ev' \in [Evictors -> EvictState]
  BY DEF TypeOK, EvictTypeOK, EvictOK
<1>4. ASSUME NEW d \in Evictors
      PROVE  /\ (ev'[d].victim # None) <=> (ev'[d].phase = "remove")
             /\ (ev'[d].phase \in {"choose", "remove"})
                <=> (mu'[StoreOf[d]] = d)
  <2>1. CASE d = e
    BY <1>1, <2>1, EvictWas DEF TypeOK, EvictTypeOK, EvictOK, InLock
  <2>2. CASE d # e
    <3>1. ev'[d] = ev[d]
      BY <2>2 DEF TypeOK, EvictTypeOK
    <3>2. (mu'[StoreOf[d]] = d) <=> (mu[StoreOf[d]] = d)
      BY <1>1, <2>2, EvictWas
    <3>3. QED
      BY <3>1, <3>2 DEF TypeOK, EvictTypeOK
  <2>3. QED BY <2>1, <2>2
<1>5. ASSUME NEW a \in Adders
      PROVE  (mu'[StoreOf[a]] = a) <=> (mu[StoreOf[a]] = a)
  BY <1>1, StoresAssumption, ActorsAssumption
<1>6. QED
  BY <1>2, <1>3, <1>4, <1>5 DEF TypeOK, EvictTypeOK, ManifestTypeOK

LEMMA EvictStartTyped ==
    ASSUME TypeOK, NEW e \in Evictors, NEW b \in Budgets, EvictStart(e, b)
    PROVE  TypeOK'
<1>1. DEFINE x == [NoEvict EXCEPT !.phase = "measure", !.budget = b,
                                  !.left = Cells]
<1>2. EvictOK(x) /\ ~InLock(x)
  BY NoEvictTyped, NumbersAssumption DEF EvictOK, EvictState, InLock, NoEvict
<1>3. ~InLock(ev[e])
  BY DEF EvictStart, InLock
<1>4. ev' = [ev EXCEPT ![e] = x]
  BY DEF EvictStart
<1> HIDE DEF x
<1>5. EvictTypeOK'
  BY <1>2, <1>3, <1>4, EvictMoves DEF EvictStart, manifestVars
<1>6. QED
  BY <1>5, SameDisk, SameStore, SameFill, SameHold, SameManifest
  DEF EvictStart, TypeOK

LEMMA EvictMeasureTyped ==
    ASSUME TypeOK, NEW e \in Evictors, EvictMeasure(e)
    PROVE  TypeOK'
<1>1. PICK c \in First(ev[e].left) : EvictMeasure(e)!(c)
  BY DEF EvictMeasure
<1>2. c \in Cells
  BY <1>1, EvictWas DEF First, EvictOK, EvictState
<1>3. DEFINE x == [ev[e] EXCEPT !.left = @ \ {c}, !.after = @ + CellBytes(c)]
<1>4. CellBytes(c) \in Nat
  BY <1>2, CellBytesIsNat
<1>5. EvictOK(x) /\ (InLock(x) <=> InLock(ev[e]))
  <2>1. ev[e].after + CellBytes(c) \in Int
    BY <1>4, EvictFields
  <2>2. x \in EvictState
    BY <2>1, EvictFields DEF EvictState
  <2>3. x.victim = ev[e].victim /\ x.phase = ev[e].phase
    BY EvictFields DEF EvictState
  <2>4. QED
    BY <2>2, <2>3, EvictWas DEF EvictOK, InLock
<1>6. ev' = [ev EXCEPT ![e] = x]
  BY <1>1
<1> HIDE DEF x
<1>7. EvictTypeOK'
  BY <1>1, <1>5, <1>6, EvictMoves DEF manifestVars
<1>8. QED
  BY <1>1, <1>7, SameDisk, SameStore, SameFill, SameHold, SameManifest
  DEF TypeOK

LEMMA EvictMeasuredTyped ==
    ASSUME TypeOK, NEW e \in Evictors, EvictMeasured(e)
    PROVE  TypeOK'
<1>1. DEFINE x == IF ev[e].after <= ev[e].budget THEN NoEvict
                  ELSE [ev[e] EXCEPT !.phase = "list",
                                     !.left = {c \in Cells : HasFiles(c)}]
<1>2. ev[e].phase = "measure"
  BY DEF EvictMeasured
<1>3. EvictOK(NoEvict) /\ ~InLock(NoEvict) /\ ~InLock(ev[e])
  BY <1>2, NoEvictTyped DEF EvictOK, NoEvict, InLock
<1>4. EvictOK(x) /\ ~InLock(x)
  <2>1. DEFINE y == [ev[e] EXCEPT !.phase = "list",
                                  !.left = {c \in Cells : HasFiles(c)}]
  <2>2. {c \in Cells : HasFiles(c)} \in SUBSET Cells
    OBVIOUS
  <2>3. y \in EvictState
    BY <2>2, EvictFields DEF EvictState
  <2>4. y.victim = ev[e].victim /\ y.phase = "list"
    BY EvictFields DEF EvictState
  <2> HIDE DEF y
  <2>5. EvictOK(y) /\ ~InLock(y)
    BY <1>2, <2>3, <2>4, EvictWas DEF EvictOK, InLock
  <2>6. x = NoEvict \/ x = y
    BY DEF y
  <2>7. QED
    BY <1>3, <2>5, <2>6
<1>5. ev' = [ev EXCEPT ![e] = x]
  BY DEF EvictMeasured
<1> HIDE DEF x
<1>6. EvictTypeOK'
  BY <1>3, <1>4, <1>5, EvictMoves DEF EvictMeasured, manifestVars
<1>7. QED
  BY <1>6, SameDisk, SameStore, SameFill, SameHold, SameManifest
  DEF EvictMeasured, TypeOK

LEMMA EvictListTyped ==
    ASSUME TypeOK, NEW e \in Evictors, EvictList(e)
    PROVE  TypeOK'
<1>1. PICK c \in First(ev[e].left) : EvictList(e)!(c)
  BY DEF EvictList
<1>2. c \in Cells
  BY <1>1, EvictWas DEF First, EvictOK, EvictState
<1>3. DEFINE v == [cell |-> c, used |-> ClockOf(c), bytes |-> CellBytes(c)]
             x == [ev[e] EXCEPT !.left = @ \ {c}, !.cands = @ \cup {v}]
<1>4. ClockOf(c) \in Time
  BY <1>2, TimeIsNat DEF ClockOf, TypeOK, DiskTypeOK, CellInfo
<1>5. v \in Candidate
  BY <1>2, <1>4, CellBytesIsNat DEF Candidate
<1>6. ev' = [ev EXCEPT ![e] = x]
  BY <1>1
<1> HIDE DEF v
<1>7. EvictOK(x) /\ (InLock(x) <=> InLock(ev[e]))
  <2>1. x \in EvictState
    BY <1>5, EvictFields DEF EvictState
  <2>2. x.victim = ev[e].victim /\ x.phase = ev[e].phase
    BY EvictFields DEF EvictState
  <2>3. QED
    BY <2>1, <2>2, EvictWas DEF EvictOK, InLock
<1> HIDE DEF x
<1>8. EvictTypeOK'
  BY <1>1, <1>6, <1>7, EvictMoves DEF manifestVars
<1>9. QED
  BY <1>1, <1>8, SameDisk, SameStore, SameFill, SameHold, SameManifest
  DEF TypeOK

LEMMA EvictGiveUpTyped ==
    ASSUME TypeOK, NEW e \in Evictors, EvictGiveUp(e)
    PROVE  TypeOK'
<1>1. EvictOK(NoEvict) /\ ~InLock(NoEvict) /\ ~InLock(ev[e])
  BY NoEvictTyped DEF EvictGiveUp, EvictOK, NoEvict, InLock
<1>2. EvictTypeOK'
  BY <1>1, EvictMoves DEF EvictGiveUp, manifestVars
<1>3. QED
  BY <1>2, SameDisk, SameStore, SameFill, SameHold, SameManifest
  DEF EvictGiveUp, TypeOK

LEMMA EvictLockTyped ==
    ASSUME TypeOK, NEW e \in Evictors, EvictLock(e)
    PROVE  TypeOK'
<1>1. DEFINE x == [ev[e] EXCEPT !.phase = "choose"]
<1>2. EvictOK(x) /\ InLock(x)
  BY EvictWas DEF EvictLock, EvictOK, EvictState, InLock
<1>3. ev' = [ev EXCEPT ![e] = x]
  BY DEF EvictLock
<1> HIDE DEF x
<1>4. EvictTypeOK' /\ ManifestTypeOK'
  BY <1>2, <1>3, EvictLocks DEF EvictLock
<1>5. QED
  BY <1>4, SameDisk, SameStore, SameFill, SameHold DEF EvictLock, TypeOK

LEMMA EvictSkipTyped ==
    ASSUME TypeOK, NEW e \in Evictors, EvictSkip(e)
    PROVE  TypeOK'
<1>1. PICK v \in Oldest(ev[e].cands) : EvictSkip(e)!(v)
  BY DEF EvictSkip
<1>2. DEFINE x == [ev[e] EXCEPT !.cands = @ \ {v}]
<1>3. EvictOK(x) /\ (InLock(x) <=> InLock(ev[e]))
  BY EvictWas DEF EvictOK, EvictState, InLock
<1>4. ev' = [ev EXCEPT ![e] = x]
  BY <1>1
<1> HIDE DEF x
<1>5. EvictTypeOK'
  BY <1>1, <1>3, <1>4, EvictMoves DEF manifestVars
<1>6. QED
  BY <1>1, <1>5, SameDisk, SameStore, SameFill, SameHold, SameManifest
  DEF TypeOK

LEMMA EvictTakeTyped ==
    ASSUME TypeOK, NEW e \in Evictors, EvictTake(e)
    PROVE  TypeOK'
<1>1. PICK v \in Oldest(ev[e].cands) : EvictTake(e)!(v)
  BY DEF EvictTake
<1>2. v \in Candidate /\ v.cell \in Cells /\ v # None
  BY <1>1, EvictWas, NoneAssumption
  DEF Oldest, EvictOK, EvictState, Candidate
<1>3. DEFINE x == [ev[e] EXCEPT !.phase = "remove", !.victim = v,
                                !.listed = tiles[v.cell],
                                !.json = (info[v.cell] # None)]
<1>4. tiles[v.cell] \in SUBSET Tiles /\ (info[v.cell] # None) \in BOOLEAN
  BY <1>2 DEF TypeOK, DiskTypeOK
<1>5. EvictOK(x) /\ (InLock(x) <=> InLock(ev[e]))
  <2>1. x \in EvictState
    BY <1>2, <1>4, EvictFields DEF EvictState
  <2>2. x.victim = v /\ x.phase = "remove"
    BY EvictFields DEF EvictState
  <2>3. QED
    BY <1>1, <1>2, <2>1, <2>2 DEF EvictOK, InLock
<1>6. ev' = [ev EXCEPT ![e] = x]
  BY <1>1 DEF RemoveNext
<1> HIDE DEF x
<1>7. EvictTypeOK'
  BY <1>1, <1>5, <1>6, EvictMoves DEF manifestVars
<1>8. QED
  BY <1>1, <1>7, SameDisk, SameStore, SameFill, SameHold, SameManifest
  DEF TypeOK

LEMMA EvictUnlinkTyped ==
    ASSUME TypeOK, NEW e \in Evictors, EvictUnlink(e)
    PROVE  TypeOK'
<1> DEFINE c == ev[e].victim.cell
<1>1. ev[e].phase = "remove" /\ ev[e].victim \in Candidate /\ c \in Cells
  BY EvictWas DEF EvictUnlink, EvictOK, EvictState, Candidate
<1>2. UNCHANGED <<time, storeVars, fill, hold, manifestVars>>
  BY DEF EvictUnlink
<1>3. CASE /\ info' = [info EXCEPT ![c] = None]
           /\ mtime' = [mtime EXCEPT ![c] = time]
           /\ ev' = [ev EXCEPT ![e].json = FALSE]
           /\ UNCHANGED tiles
  <2>1. DEFINE x == [ev[e] EXCEPT !.json = FALSE]
  <2>2. x \in EvictState /\ x.victim = ev[e].victim /\ x.phase = ev[e].phase
    BY EvictFields DEF EvictState
  <2>3. EvictOK(x) /\ (InLock(x) <=> InLock(ev[e]))
    BY <2>2, EvictWas DEF EvictOK, InLock
  <2>4. ev' = [ev EXCEPT ![e] = x]
    BY <1>3
  <2> HIDE DEF x
  <2>5. EvictTypeOK'
    BY <1>2, <2>3, <2>4, EvictMoves DEF manifestVars
  <2>6. DiskTypeOK'
    BY <1>1, <1>2, <1>3, InfoTyped DEF TypeOK, DiskTypeOK
  <2>7. QED
    BY <1>2, <2>5, <2>6, SameStore, SameFill, SameHold, SameManifest
    DEF TypeOK
<1>4. ASSUME NEW t \in tiles[c],
             tiles' = [tiles EXCEPT ![c] = @ \ {t}],
             mtime' = [mtime EXCEPT ![c] = MtimeAfterTile(tiles'[c], c, t)],
             ev' = [ev EXCEPT ![e].listed = @ \ {t}],
             UNCHANGED info
      PROVE  TypeOK'
  <2>1. DEFINE x == [ev[e] EXCEPT !.listed = @ \ {t}]
  <2>2. x \in EvictState /\ x.victim = ev[e].victim /\ x.phase = ev[e].phase
    BY EvictFields DEF EvictState
  <2>3. EvictOK(x) /\ (InLock(x) <=> InLock(ev[e]))
    BY <2>2, EvictWas DEF EvictOK, InLock
  <2>4. ev' = [ev EXCEPT ![e] = x]
    BY <1>4
  <2> HIDE DEF x
  <2>5. EvictTypeOK'
    BY <1>2, <2>3, <2>4, EvictMoves DEF manifestVars
  <2>6. MtimeAfterTile(tiles'[c], c, t) \in Time
    BY <1>1 DEF MtimeAfterTile, TypeOK, DiskTypeOK
  <2>7. DiskTypeOK'
    BY <1>1, <1>2, <1>4, <2>6 DEF TypeOK, DiskTypeOK
  <2>8. QED
    BY <1>2, <2>5, <2>7, SameStore, SameFill, SameHold, SameManifest
    DEF TypeOK
<1>5. QED
  BY <1>3, <1>4 DEF EvictUnlink

LEMMA EvictRemovedTyped ==
    ASSUME TypeOK, NEW e \in Evictors, EvictRemoved(e)
    PROVE  TypeOK'
<1>1. DEFINE x == [ev[e] EXCEPT !.phase = "choose", !.victim = None,
                                !.cands = @ \ {ev[e].victim},
                                !.after = @ - ev[e].victim.bytes,
                                !.listed = {}, !.json = FALSE]
<1>2. ev[e].phase = "remove" /\ ev[e].victim \in Candidate
  BY EvictWas DEF EvictRemoved, EvictOK, EvictState
<1>3. ev[e].after - ev[e].victim.bytes \in Int
  BY <1>2, EvictFields DEF Candidate
<1>4. x \in EvictState /\ x.victim = None /\ x.phase = "choose"
  BY <1>3, EvictFields DEF EvictState
<1>5. ev' = [ev EXCEPT ![e] = x]
  BY DEF EvictRemoved
<1> HIDE DEF x
<1>6. EvictOK(x) /\ (InLock(x) <=> InLock(ev[e]))
  BY <1>2, <1>4 DEF EvictOK, InLock
<1>7. EvictTypeOK'
  BY <1>5, <1>6, EvictMoves DEF EvictRemoved, manifestVars
<1>8. QED
  BY <1>7, SameDisk, SameStore, SameFill, SameHold, SameManifest
  DEF EvictRemoved, TypeOK

\* Evict returning, with or without an error, gives back the mutex it has.
LEMMA EvictLeavesTyped ==
    ASSUME TypeOK, NEW e \in Evictors,
           EvictReturn(e) \/ EvictNotEmpty(e) \/ EvictFail(e)
    PROVE  TypeOK'
<1>1. mu[StoreOf[e]] = e
  BY EvictWas DEF EvictReturn, EvictNotEmpty, EvictFail, InLock
<1>2. EvictOK(NoEvict) /\ ~InLock(NoEvict)
  BY NoEvictTyped DEF EvictOK, InLock, NoEvict
<1>3. /\ ev' = [ev EXCEPT ![e] = NoEvict]
      /\ mu' = [mu EXCEPT ![StoreOf[e]] = None]
      /\ UNCHANGED <<diskVars, time, storeVars, fill, hold, manifest, memory,
                     add>>
  BY DEF EvictReturn, EvictNotEmpty, EvictFail
<1>4. EvictTypeOK' /\ ManifestTypeOK'
  BY <1>1, <1>2, <1>3, EvictLocks
<1>5. QED
  BY <1>3, <1>4, SameDisk, SameStore, SameFill, SameHold DEF TypeOK

-----------------------------------------------------------------------------
(***************************************************************************)
(* Everything else, and the theorem.                                       *)
(***************************************************************************)

LEMMA KillTyped ==
    ASSUME TypeOK, NEW s \in Stores, Kill(s)
    PROVE  TypeOK'
<1>1. ManifestTypeOK'
  BY ReopenTyped DEF Kill, TypeOK
<1>2. DiskTypeOK'
  BY SameDisk DEF Kill
<1>3. StoreTypeOK'
  BY DEF Kill, TypeOK, StoreTypeOK
<1>4. FillTypeOK'
  <2>1. ASSUME NEW f \in Fillers
        PROVE  FillOK(fill'[f])
    BY NoFillOK, FillWas DEF Kill
  <2>2. DOMAIN fill' = Fillers /\ fill' = [f \in Fillers |-> fill'[f]]
    BY DEF Kill
  <2>3. QED BY <2>1, <2>2 DEF FillOK, FillTypeOK
<1>5. HoldTypeOK'
  <2>1. HoldOK(NoHold)
    BY NoHoldTyped DEF HoldOK, NoHold
  <2>2. ASSUME NEW r \in Renders
        PROVE  HoldOK(hold'[r])
    BY <2>1, HoldWas DEF Kill
  <2>3. hold' = [r \in Renders |-> hold'[r]]
    BY DEF Kill
  <2>4. QED BY <2>2, <2>3 DEF HoldOK, HoldTypeOK
<1>6. EvictTypeOK'
  <2>1. EvictOK(NoEvict) /\ ~InLock(NoEvict)
    BY NoEvictTyped DEF EvictOK, InLock, NoEvict
  <2>2. /\ mu' = [mu EXCEPT ![s] = None]
        /\ \A e \in Evictors :
              ev'[e] = IF StoreOf[e] = s THEN NoEvict ELSE ev[e]
        /\ ev' = [e \in Evictors |-> ev'[e]]
    BY DEF Kill, Reopen
  <2>3. ASSUME NEW e \in Evictors
        PROVE  EvictOK(ev'[e]) /\ (InLock(ev'[e]) <=> (mu'[StoreOf[e]] = e))
    <3>1. CASE StoreOf[e] = s
      BY <2>1, <2>2, <3>1, EvictWas DEF TypeOK, ManifestTypeOK
    <3>2. CASE StoreOf[e] # s
      BY <2>2, <3>2, EvictWas DEF TypeOK, ManifestTypeOK
    <3>3. QED BY <3>1, <3>2
  <2>4. QED BY <2>2, <2>3 DEF EvictOK, InLock, EvictTypeOK
<1>7. QED
  BY <1>1, <1>2, <1>3, <1>4, <1>5, <1>6 DEF TypeOK

LEMMA TickTyped ==
    ASSUME TypeOK, Tick PROVE TypeOK'
<1>1. time' \in Time
  BY NumbersAssumption DEF Tick, Time, TypeOK, DiskTypeOK
<1>2. DiskTypeOK'
  BY <1>1 DEF Tick, diskVars, TypeOK, DiskTypeOK
<1>3. QED
  BY <1>2, SameStore, SameFill, SameHold, SameEvict, SameManifest
  DEF Tick, TypeOK, manifestVars

\* AddSource takes a mutex nobody has and gives back its own: no eviction's.
LEMMA ManifestStepTyped ==
    ASSUME TypeOK, ManifestStep PROVE TypeOK'
<1>1. ManifestTypeOK'
  BY OpenSourceTyped, AddReadTyped, AddWriteTyped, AddLeavesTyped
  DEF ManifestStep, TypeOK
<1>2. UNCHANGED <<diskVars, time, storeVars, fill, hold, ev>>
  BY DEF ManifestStep, sliceVars, diskVars, storeVars
<1>3. ASSUME NEW e \in Evictors
      PROVE  (mu'[StoreOf[e]] = e) <=> (mu[StoreOf[e]] = e)
  <2>1. CASE UNCHANGED mu
    BY <2>1
  <2>2. ASSUME NEW a \in Adders, AddRead(a)
        PROVE  (mu'[StoreOf[e]] = e) <=> (mu[StoreOf[e]] = e)
    BY <2>2, EvictWas, ActorsAssumption DEF AddRead, TypeOK, ManifestTypeOK
  <2>3. ASSUME NEW a \in Adders, Attach(a) \/ AddFail(a)
        PROVE  (mu'[StoreOf[e]] = e) <=> (mu[StoreOf[e]] = e)
    <3>1. mu[StoreOf[a]] = a
      BY <2>3 DEF Attach, AddFail, TypeOK, ManifestTypeOK
    <3>2. mu' = [mu EXCEPT ![StoreOf[a]] = None]
      BY <2>3 DEF Attach, AddFail
    <3>3. QED
      BY <3>1, <3>2, EvictWas, ActorsAssumption DEF TypeOK, ManifestTypeOK
  <2>4. QED
    BY <2>1, <2>2, <2>3 DEF ManifestStep, OpenSource, AddWrite
<1>4. EvictTypeOK'
  BY <1>2, <1>3 DEF TypeOK, EvictTypeOK
<1>5. QED
  BY <1>1, <1>2, <1>4, SameDisk, SameStore, SameFill, SameHold DEF TypeOK

LEMMA NextTyped ==
    ASSUME TypeOK, [Next]_vars PROVE TypeOK'
<1>1. CASE FillStep
  BY <1>1, FillStartTyped, FillTileTyped, FillReadInfoTyped,
     FillMissesInfoTyped, FillRecordTyped, FillWidenTyped, FillFailTyped, ExhaustReadTyped, ExhaustWriteTyped
  DEF FillStep
<1>2. CASE HoldStep
  BY <1>2, HoldClaimTyped, TouchDueTyped, TouchReadTyped, TouchNoneTyped,
     TouchWriteTyped, TouchFailTyped, HoldReturnTyped, ReleaseTyped
  DEF HoldStep
<1>3. CASE EvictStep
  BY <1>3, EvictStartTyped, EvictMeasureTyped, EvictMeasuredTyped,
     EvictListTyped, EvictGiveUpTyped, EvictLockTyped, EvictSkipTyped,
     EvictTakeTyped,
     EvictUnlinkTyped, EvictRemovedTyped, EvictLeavesTyped
  DEF EvictStep
<1>4. CASE UNCHANGED vars
  <2>1. UNCHANGED <<diskVars, time, storeVars, fill, hold, ev, manifestVars>>
    BY <1>4 DEF vars, sliceVars, diskVars, storeVars
  <2>2. QED
    BY <2>1, SameDisk, SameStore, SameFill, SameHold, SameEvict, SameManifest
    DEF TypeOK, manifestVars
<1>5. QED
  BY <1>1, <1>2, <1>3, <1>4, ManifestStepTyped, KillTyped, TickTyped DEF Next

LEMMA InitTyped == Init => TypeOK
<1> SUFFICES ASSUME Init PROVE TypeOK
  OBVIOUS
<1>1. DiskTypeOK /\ StoreTypeOK
  BY TimeIsNat DEF Init, DiskTypeOK, StoreTypeOK
<1>2. FillTypeOK
  BY NoFillTyped DEF Init, FillTypeOK, NoFill
<1>3. HoldTypeOK
  BY NoHoldTyped DEF Init, HoldTypeOK, NoHold
<1>4. ManifestTypeOK
  BY StoresAssumption DEF Init, ManifestTypeOK, SliceRange
<1>5. EvictTypeOK
  BY NoEvictTyped, ActorsAssumption, StoresAssumption
  DEF Init, EvictTypeOK, NoEvict
<1>6. QED BY <1>1, <1>2, <1>3, <1>4, <1>5 DEF TypeOK

\* Every variable has its type whatever calls come, in whatever order and
\* number; the locals of each call go with its phase; and an eviction past its
\* listing is the one that has its Store's mutex (package slice).
THEOREM TypeCorrect == Spec => []TypeOK
<1>1. QED
  BY InitTyped, NextTyped, PTL DEF Spec

-----------------------------------------------------------------------------
(***************************************************************************)
(* Holds.                                                                  *)
(***************************************************************************)

HoldsInv == TypeOK /\ HeldCountsHolds /\ VictimIsNotHeld

LEMMA HoldingIsFinite ==
    ASSUME NEW s, NEW c
    PROVE  /\ IsFiniteSet(Holding(s, c))
           /\ Cardinality(Holding(s, c)) \in Nat
           /\ Cardinality(Holding(s, c)) = 0 <=> Holding(s, c) = {}
BY ActorsAssumption, FS_Subset, FS_CardinalityType, FS_EmptySet DEF Holding

\* The steps that leave every hold on the cells it had.
LEMMA HoldsUntouched ==
    ASSUME UNCHANGED held,
           \A r \in Renders :
              /\ hold'[r].cells = hold[r].cells
              /\ hold'[r].phase = "released" <=> hold[r].phase = "released"
    PROVE  /\ \A s, c : Holding(s, c)' = Holding(s, c)
           /\ HeldCountsHolds => HeldCountsHolds'
<1>1. ASSUME NEW s, NEW c
      PROVE  Holding(s, c)' = Holding(s, c)
  BY DEF Holding
<1>2. QED
  BY <1>1 DEF HeldCountsHolds

LEMMA OneHoldMoves ==
    ASSUME TypeOK, NEW r \in Renders, NEW x, x.cells = hold[r].cells,
           x.phase # "released", hold[r].phase # "released",
           hold' = [hold EXCEPT ![r] = x]
    PROVE  \A q \in Renders :
              /\ hold'[q].cells = hold[q].cells
              /\ hold'[q].phase = "released" <=> hold[q].phase = "released"
BY DEF TypeOK, HoldTypeOK

\* A step of touch changes which cells are still to be touched, and no more.
LEMMA TouchKeepsHolds ==
    ASSUME TypeOK, NEW r \in Renders,
           \/ TouchDue(r)
           \/ \E c \in Cells : TouchRead(r, c)
           \/ \E c \in Cells : TouchNone(r, c)
           \/ TouchWrite(r)
           \/ \E c \in Cells : TouchFail(r, c)
           \/ HoldReturn(r)
    PROVE  /\ UNCHANGED <<held, mu, ev>>
           /\ \A q \in Renders :
              /\ hold'[q].cells = hold[q].cells
              /\ hold'[q].phase = "released" <=> hold[q].phase = "released"
<1>1. hold \in [Renders -> HoldState]
  BY DEF TypeOK, HoldTypeOK
<1>2. CASE TouchDue(r)
  BY <1>1, <1>2 DEF TouchDue, HoldState, manifestVars
<1>3. CASE \E c \in Cells : TouchRead(r, c)
  <2>1. PICK c \in Cells : TouchRead(r, c)
    BY <1>3
  <2>2. DEFINE x == [hold[r] EXCEPT !.phase = "writing", !.cell = c,
                                    !.read = info[c]]
  <2>3. x.cells = hold[r].cells /\ x.phase = "writing"
    BY <1>1 DEF HoldState
  <2>4. hold' = [hold EXCEPT ![r] = x] /\ hold[r].phase = "touching"
    BY <2>1 DEF TouchRead
  <2> HIDE DEF x
  <2>5. QED
    BY <2>1, <2>3, <2>4, OneHoldMoves DEF TouchRead, manifestVars, storeVars
<1>4. CASE \E c \in Cells : TouchNone(r, c)
  BY <1>1, <1>4 DEF TouchNone, HoldState, manifestVars, storeVars
<1>5. CASE TouchWrite(r)
  BY <1>1, <1>5 DEF TouchWrite, HoldState, manifestVars, storeVars
<1>6. CASE \E c \in Cells : TouchFail(r, c)
  <2>1. PICK c \in Cells : TouchFail(r, c)
    BY <1>6
  <2>2. DEFINE x == [hold[r] EXCEPT !.phase = "touching", !.due = @ \ {c},
                                    !.cell = None, !.read = None]
  <2>3. x.cells = hold[r].cells /\ x.phase = "touching"
    BY <1>1 DEF HoldState
  <2>4. hold' = [hold EXCEPT ![r] = x] /\ hold[r].phase # "released"
    BY <2>1 DEF TouchFail
  <2> HIDE DEF x
  <2>5. QED
    BY <2>1, <2>3, <2>4, OneHoldMoves DEF TouchFail, manifestVars, storeVars
<1>7. CASE HoldReturn(r)
  BY <1>1, <1>7 DEF HoldReturn, HoldState, manifestVars, storeVars
<1>8. QED
  BY <1>2, <1>3, <1>4, <1>5, <1>6, <1>7

\* Hold adds one hold to each cell it names, and is counted once for each.
LEMMA ClaimCounts ==
    ASSUME HoldsInv, NEW r \in Renders, NEW C \in (SUBSET Cells) \ {{}},
           HoldClaim(r, C)
    PROVE  HeldCountsHolds'
<1> SUFFICES ASSUME NEW s \in Stores, NEW c \in Cells
             PROVE  held'[s][c] = Cardinality(Holding(s, c)')
  BY DEF HeldCountsHolds
<1>1. held[s][c] = Cardinality(Holding(s, c))
  BY DEF HoldsInv, HeldCountsHolds
<1>2. /\ hold'[r].phase = "claimed"
      /\ hold'[r].cells = C
      /\ hold[r].phase = "released"
      /\ \A q \in Renders : q # r => hold'[q] = hold[q]
  BY DEF HoldClaim, HoldsInv, TypeOK, HoldTypeOK
<1>3. r \notin Holding(s, c)
  BY <1>2 DEF Holding
<1>4. held'[s][c] = IF s = StoreOf[r] /\ c \in C THEN held[s][c] + 1
                    ELSE held[s][c]
  BY HoldWas DEF HoldClaim, HoldsInv, TypeOK, StoreTypeOK
<1>5. CASE s = StoreOf[r] /\ c \in C
  <2>1. Holding(s, c)' = Holding(s, c) \cup {r}
    BY <1>2, <1>5 DEF Holding
  <2>2. Cardinality(Holding(s, c) \cup {r}) = Cardinality(Holding(s, c)) + 1
    BY <1>3, HoldingIsFinite, FS_AddElement
  <2>3. QED
    BY <1>1, <1>4, <1>5, <2>1, <2>2
<1>6. CASE ~(s = StoreOf[r] /\ c \in C)
  <2>1. Holding(s, c)' = Holding(s, c)
    BY <1>2, <1>6 DEF Holding
  <2>2. QED BY <1>1, <1>4, <1>6, <2>1
<1>7. QED BY <1>5, <1>6

\* Release takes away exactly what its Hold added.
LEMMA ReleaseCounts ==
    ASSUME HoldsInv, NEW r \in Renders, Release(r)
    PROVE  HeldCountsHolds'
<1> SUFFICES ASSUME NEW s \in Stores, NEW c \in Cells
             PROVE  held'[s][c] = Cardinality(Holding(s, c)')
  BY DEF HeldCountsHolds
<1>1. held[s][c] = Cardinality(Holding(s, c))
  BY DEF HoldsInv, HeldCountsHolds
<1>2. /\ hold'[r].phase = "released"
      /\ hold[r].phase = "held"
      /\ \A q \in Renders : q # r => hold'[q] = hold[q]
  BY DEF Release, HoldsInv, TypeOK, HoldTypeOK, HoldState
<1>3. Holding(s, c)' = Holding(s, c) \ {r}
  BY <1>2 DEF Holding
<1>4. held'[s][c] = IF s = StoreOf[r] /\ c \in hold[r].cells /\ held[s][c] > 0
                    THEN held[s][c] - 1 ELSE held[s][c]
  BY HoldWas DEF Release, HoldsInv, TypeOK, StoreTypeOK
<1>5. r \in Holding(s, c) <=> s = StoreOf[r] /\ c \in hold[r].cells
  BY <1>2 DEF Holding
<1>6. r \in Holding(s, c) => Cardinality(Holding(s, c)) > 0
  BY HoldingIsFinite
<1>7. Cardinality(Holding(s, c) \ {r}) =
         IF r \in Holding(s, c) THEN Cardinality(Holding(s, c)) - 1
         ELSE Cardinality(Holding(s, c))
  BY HoldingIsFinite, FS_RemoveElement
<1>8. QED
  BY <1>1, <1>3, <1>4, <1>5, <1>6, <1>7

\* The process that ends takes all its holds with it, and nobody else's.
LEMMA KillCounts ==
    ASSUME HoldsInv, NEW k \in Stores, Kill(k)
    PROVE  HeldCountsHolds'
<1> SUFFICES ASSUME NEW s \in Stores, NEW c \in Cells
             PROVE  held'[s][c] = Cardinality(Holding(s, c)')
  BY DEF HeldCountsHolds
<1>1. \A r \in Renders :
         hold'[r] = IF StoreOf[r] = k THEN NoHold ELSE hold[r]
  BY DEF Kill
<1>2. CASE s = k
  <2>1. Holding(s, c)' = {}
    BY <1>1, <1>2 DEF Holding, NoHold
  <2>2. held'[s][c] = 0
    BY <1>2 DEF Kill, HoldsInv, TypeOK, StoreTypeOK
  <2>3. QED BY <2>1, <2>2, FS_EmptySet
<1>3. CASE s # k
  <2>1. Holding(s, c)' = Holding(s, c)
    BY <1>1, <1>3 DEF Holding
  <2>2. held'[s][c] = held[s][c]
    BY <1>3 DEF Kill, HoldsInv, TypeOK, StoreTypeOK
  <2>3. QED BY <2>1, <2>2 DEF HoldsInv, HeldCountsHolds
<1>4. QED BY <1>2, <1>3

LEMMA CountsStep ==
    ASSUME HoldsInv, [Next]_vars
    PROVE  HeldCountsHolds'
<1>1. CASE FillStep
  <2>1. UNCHANGED <<held, hold>>
    BY <1>1 DEF FillStep, FillStart, FillTile, FillReadInfo,
       FillMissesInfo, FillRecord, FillWiden, FillFail, ExhaustRead, ExhaustWrite, storeVars
  <2>2. QED BY <2>1, HoldsUntouched DEF HoldsInv
<1>2. CASE EvictStep
  <2>1. UNCHANGED <<held, hold>>
    BY <1>2 DEF EvictStep, EvictStart, EvictMeasure, EvictMeasured, EvictList,
       EvictGiveUp, EvictLock, EvictSkip, EvictTake, EvictUnlink,
       EvictRemoved, EvictReturn,
       EvictNotEmpty, EvictFail, storeVars
  <2>2. QED BY <2>1, HoldsUntouched DEF HoldsInv
<1>3. CASE ManifestStep \/ Tick \/ UNCHANGED vars
  <2>1. UNCHANGED <<held, hold>>
    BY <1>3 DEF ManifestStep, Tick, vars, sliceVars, storeVars
  <2>2. QED BY <2>1, HoldsUntouched DEF HoldsInv
<1>4. CASE HoldStep
  <2>1. PICK r \in Renders :
           \/ \E C \in (SUBSET Cells) \ {{}} : HoldClaim(r, C)
           \/ TouchDue(r)
           \/ \E c \in Cells : TouchRead(r, c)
           \/ \E c \in Cells : TouchNone(r, c)
           \/ TouchWrite(r)
           \/ \E c \in Cells : TouchFail(r, c)
           \/ HoldReturn(r)
           \/ Release(r)
    BY <1>4 DEF HoldStep
  <2>2. CASE \E C \in (SUBSET Cells) \ {{}} : HoldClaim(r, C)
    BY <2>2, ClaimCounts
  <2>3. CASE Release(r)
    BY <2>3, ReleaseCounts
  <2>4. QED
    BY <2>1, <2>2, <2>3, TouchKeepsHolds, HoldsUntouched DEF HoldsInv
<1>5. QED
  BY <1>1, <1>2, <1>3, <1>4, KillCounts DEF Next

\* One call of Evict takes a step.
EvictAct(d) ==
    \/ \E b \in Budgets : EvictStart(d, b)
    \/ EvictMeasure(d)
    \/ EvictMeasured(d)
    \/ EvictList(d)
    \/ EvictGiveUp(d)
    \/ EvictLock(d)
    \/ EvictSkip(d)
    \/ EvictTake(d)
    \/ EvictUnlink(d)
    \/ EvictRemoved(d)
    \/ EvictReturn(d)
    \/ EvictNotEmpty(d)
    \/ EvictFail(d)

\* The other evictions do not move while one takes a step.
LEMMA OneEvicts ==
    ASSUME TypeOK, EvictStep
    PROVE  \E d \in Evictors :
              EvictAct(d) /\ \A e \in Evictors \ {d} : ev'[e] = ev[e]
<1>1. PICK d \in Evictors : EvictAct(d)
  BY DEF EvictStep, EvictAct
<1>2. ev \in [Evictors -> EvictState]
  BY DEF TypeOK, EvictTypeOK
<1>3. ASSUME NEW e \in Evictors \ {d}
      PROVE  ev'[e] = ev[e]
  <2>1. ASSUME \/ \E b \in Budgets : EvictStart(d, b)
               \/ EvictMeasure(d) \/ EvictMeasured(d) \/ EvictList(d)
               \/ EvictGiveUp(d) \/ EvictLock(d) \/ EvictSkip(d)
        PROVE  ev'[e] = ev[e]
    BY <1>2, <2>1 DEF EvictStart, EvictMeasure, EvictMeasured, EvictList,
       EvictGiveUp, EvictLock, EvictSkip
  <2>2. ASSUME EvictTake(d) PROVE ev'[e] = ev[e]
    BY <1>2, <2>2 DEF EvictTake, RemoveNext
  <2>3. ASSUME EvictUnlink(d) PROVE ev'[e] = ev[e]
    BY <1>2, <2>3 DEF EvictUnlink
  <2>4. ASSUME \/ EvictRemoved(d) \/ EvictReturn(d) \/ EvictNotEmpty(d)
               \/ EvictFail(d)
        PROVE  ev'[e] = ev[e]
    BY <1>2, <2>4 DEF EvictRemoved, EvictReturn, EvictNotEmpty, EvictFail
  <2>5. QED
    BY <1>1, <2>1, <2>2, <2>3, <2>4 DEF EvictAct
<1>4. QED
  BY <1>1, <1>3

\* A removal under way began with EvictTake, and keeps to its victim.
LEMMA RemovalBegins ==
    ASSUME TypeOK, [Next]_vars, NEW e \in Evictors, ev'[e].phase = "remove"
    PROVE  \/ EvictTake(e)
           \/ ev[e].phase = "remove" /\ ev'[e].victim = ev[e].victim
<1>1. CASE EvictStep
  <2>1. PICK d \in Evictors :
              EvictAct(d) /\ \A x \in Evictors \ {d} : ev'[x] = ev[x]
    BY <1>1, OneEvicts
  <2>2. CASE e # d
    BY <2>1, <2>2
  <2>3. CASE e = d
    <3>1. ev[e] \in EvictState /\ ev \in [Evictors -> EvictState]
      BY DEF TypeOK, EvictTypeOK
    <3>3. ASSUME NEW b \in Budgets, EvictStart(e, b) PROVE FALSE
      BY <3>1, <3>3 DEF EvictStart, NoEvict
    <3>2. ASSUME EvictMeasure(e) PROVE FALSE
      BY <3>1, <3>2 DEF EvictMeasure, EvictState
    <3>4. ASSUME EvictSkip(e) PROVE FALSE
      BY <3>1, <3>4 DEF EvictSkip, EvictState
    <3>11. ASSUME EvictList(e) PROVE FALSE
      <4>1. PICK c \in First(ev[e].left) : EvictList(e)!(c)
        BY <3>11 DEF EvictList
      <4>2. DEFINE x == [ev[e] EXCEPT !.left = @ \ {c}, !.cands = @ \cup
                           {[cell |-> c, used |-> ClockOf(c),
                             bytes |-> CellBytes(c)]}]
      <4>3. x.phase = "list"
        BY <3>1, <4>1 DEF EvictState
      <4>4. ev' = [ev EXCEPT ![e] = x]
        BY <4>1
      <4> HIDE DEF x
      <4>5. QED BY <3>1, <4>3, <4>4
    <3>5. ASSUME EvictMeasured(e) PROVE FALSE
      BY <3>1, <3>5 DEF EvictMeasured, NoEvict, EvictState
    <3>6. ASSUME EvictLock(e) PROVE FALSE
      BY <3>1, <3>6 DEF EvictLock, EvictState
    <3>7. ASSUME EvictUnlink(e)
          PROVE  ev[e].phase = "remove" /\ ev'[e].victim = ev[e].victim
      BY <3>1, <3>7 DEF EvictUnlink, EvictState
    <3>8. ASSUME EvictRemoved(e) PROVE FALSE
      BY <3>1, <3>8 DEF EvictRemoved, EvictState
    <3>9. ASSUME \/ EvictReturn(e) \/ EvictNotEmpty(e) \/ EvictFail(e)
                  \/ EvictGiveUp(e)
           PROVE  FALSE
      BY <3>1, <3>9
      DEF EvictReturn, EvictNotEmpty, EvictFail, EvictGiveUp, NoEvict
    <3>12. QED
      BY <2>1, <2>3, <3>2, <3>3, <3>4, <3>5, <3>6, <3>7, <3>8, <3>9,
         <3>11 DEF EvictAct
  <2>4. QED BY <2>2, <2>3
<1>2. CASE \E s \in Stores : Kill(s)
  BY <1>2 DEF Kill, NoEvict
<1>3. CASE FillStep \/ ManifestStep \/ Tick \/ UNCHANGED vars
  <2>1. UNCHANGED ev
    BY <1>3 DEF FillStep, FillStart, FillTile, FillReadInfo,
       FillMissesInfo, FillRecord, FillWiden, FillFail, ExhaustRead, ExhaustWrite, ManifestStep, Tick,
       vars, sliceVars
  <2>2. QED BY <2>1
<1>4. CASE HoldStep
  <2>1. UNCHANGED ev
    BY <1>4 DEF HoldStep, HoldClaim, TouchDue, TouchRead, TouchNone,
       TouchWrite, TouchFail, HoldReturn, Release
  <2>2. QED BY <2>1
<1>5. QED
  BY <1>1, <1>2, <1>3, <1>4 DEF Next

\* While one eviction removes a cell, no hold is granted in its Store: a new
\* hold on a cell means HoldClaim, which finds the mutex free.
LEMMA NoNewHolds ==
    ASSUME TypeOK, [Next]_vars, NEW s \in Stores, NEW c \in Cells,
           mu[s] # None
    PROVE  Holding(s, c)' \subseteq Holding(s, c)
<1>1. CASE HoldStep
  <2>1. ASSUME NEW r \in Renders, NEW C \in (SUBSET Cells) \ {{}},
               HoldClaim(r, C)
        PROVE  Holding(s, c)' \subseteq Holding(s, c)
    <3>1. StoreOf[r] # s /\ \A q \in Renders : q # r => hold'[q] = hold[q]
      BY <2>1 DEF HoldClaim, TypeOK, HoldTypeOK
    <3>2. QED BY <3>1 DEF Holding
  <2>2. ASSUME NEW r \in Renders, Release(r)
        PROVE  Holding(s, c)' \subseteq Holding(s, c)
    <3>1. /\ hold'[r].phase = "released"
          /\ \A q \in Renders : q # r => hold'[q] = hold[q]
      BY <2>2 DEF Release, TypeOK, HoldTypeOK, HoldState
    <3>2. QED BY <3>1 DEF Holding
  <2>3. QED
    BY <1>1, <2>1, <2>2, TouchKeepsHolds, HoldsUntouched DEF HoldStep
<1>2. CASE \E k \in Stores : Kill(k)
  BY <1>2 DEF Kill, NoHold, Holding
<1>3. CASE FillStep \/ EvictStep \/ ManifestStep \/ Tick \/ UNCHANGED vars
  <2>1. UNCHANGED hold
    BY <1>3 DEF FillStep, FillStart, FillTile, FillReadInfo,
       FillMissesInfo, FillRecord, FillWiden, FillFail, ExhaustRead, ExhaustWrite, EvictStep, EvictStart,
       EvictMeasure, EvictMeasured, EvictList,
       EvictGiveUp, EvictLock, EvictSkip, EvictTake, EvictUnlink,
       EvictRemoved, EvictReturn, EvictNotEmpty, EvictFail,
       ManifestStep, Tick, vars, sliceVars
  <2>2. QED BY <2>1 DEF Holding
<1>4. QED
  BY <1>1, <1>2, <1>3 DEF Next

LEMMA VictimStep ==
    ASSUME HoldsInv, [Next]_vars
    PROVE  VictimIsNotHeld'
<1> SUFFICES ASSUME NEW e \in Evictors, ev'[e].phase = "remove",
                    NEW c, c = ev'[e].victim.cell
             PROVE  Holding(StoreOf[e], c)' = {}
  BY DEF VictimIsNotHeld, Holding
<1>1. TypeOK
  BY DEF HoldsInv
<1>2. CASE EvictTake(e)
  <2>1. PICK v \in Oldest(ev[e].cands) : EvictTake(e)!(v)
    BY <1>2 DEF EvictTake
  <2>2. ev'[e].victim = v
    BY <1>1, <2>1 DEF RemoveNext, TypeOK, EvictTypeOK, EvictState
  <2>3. v.cell \in Cells
    BY <1>1, EvictFields DEF Oldest, Candidate
  <2>4. Holding(StoreOf[e], v.cell) = {}
    BY <1>1, <2>1, <2>3, EvictWas, HoldingIsFinite DEF HoldsInv, HeldCountsHolds
  <2>5. Holding(StoreOf[e], v.cell)' = Holding(StoreOf[e], v.cell)
    BY <2>1 DEF Holding
  <2>6. QED BY <2>2, <2>4, <2>5
<1>3. CASE ev[e].phase = "remove" /\ ev'[e].victim = ev[e].victim
  <2>1. mu[StoreOf[e]] = e /\ e # None /\ StoreOf[e] \in Stores
    BY <1>1, <1>3, EvictWas DEF InLock
  <2>2. ev[e].victim \in Candidate
    BY <1>1, <1>3, EvictWas DEF EvictOK, EvictState
  <2>3. Holding(StoreOf[e], ev[e].victim.cell) = {}
    BY <1>3 DEF HoldsInv, VictimIsNotHeld
  <2>4. QED
    BY <1>1, <1>3, <2>1, <2>2, <2>3, NoNewHolds DEF Candidate
<1>4. QED
  BY <1>1, <1>2, <1>3, RemovalBegins

LEMMA InitHolds == Init => HoldsInv
<1> SUFFICES ASSUME Init PROVE HeldCountsHolds /\ VictimIsNotHeld
  BY InitTyped DEF HoldsInv
<1>1. \A s \in Stores, c \in Cells : Holding(s, c) = {}
  BY DEF Init, Holding, NoHold
<1>2. HeldCountsHolds
  BY <1>1, FS_EmptySet DEF Init, HeldCountsHolds
<1>3. VictimIsNotHeld
  BY DEF Init, VictimIsNotHeld, NoEvict
<1>4. QED BY <1>2, <1>3

LEMMA HoldsInvariant == Spec => []HoldsInv
<1>1. Init => HoldsInv
  BY InitHolds
<1>2. HoldsInv /\ [Next]_vars => HoldsInv'
  BY NextTyped, CountsStep, VictimStep DEF HoldsInv
<1>3. QED
  BY <1>1, <1>2, PTL DEF Spec

\* The count of holds Store keeps for a cell is the number of Hold values not
\* released that name it (source.go, Hold and Release).
THEOREM HoldsAreCounted == Spec => []HeldCountsHolds
<1>1. HoldsInv => HeldCountsHolds
  BY DEF HoldsInv
<1>2. QED
  BY <1>1, HoldsInvariant, PTL

\* An eviction removes no cell a render of the same Store has: neither one that
\* had it before the mutex was taken nor one that asks for it during the
\* removal (evict.go, Evict).
THEOREM VictimsAreNotHeld == Spec => []VictimIsNotHeld
<1>1. HoldsInv => VictimIsNotHeld
  BY DEF HoldsInv
<1>2. QED
  BY <1>1, HoldsInvariant, PTL

-----------------------------------------------------------------------------
(***************************************************************************)
(* Nothing but an eviction takes a file away.                              *)
(***************************************************************************)

LEMMA FillKeepsFiles ==
    ASSUME TypeOK, FillStep, NEW c \in Cells
    PROVE  /\ tiles[c] \subseteq tiles'[c]
           /\ info[c] # None => info'[c] # None
<1>1. PICK f \in Fillers :
        \/ \E d \in Cells, z \in Ranges : FillStart(f, d, z)
        \/ FillTile(f)
        \/ FillReadInfo(f)
        \/ FillMissesInfo(f)
        \/ FillRecord(f)
        \/ FillWiden(f)
        \/ FillFail(f)
        \/ \E d \in Cells, through \in CellZoom..MaxZoom :
                ExhaustRead(f, d, through)
        \/ ExhaustWrite(f)
  BY DEF FillStep
<1>2. ASSUME \/ \E d \in Cells, z \in Ranges : FillStart(f, d, z)
             \/ FillReadInfo(f)
             \/ FillMissesInfo(f)
             \/ FillWiden(f)
             \/ FillFail(f)
             \/ \E d \in Cells, through \in CellZoom..MaxZoom :
                    ExhaustRead(f, d, through)
      PROVE  UNCHANGED <<tiles, info>>
  BY <1>2 DEF FillStart, FillReadInfo, FillMissesInfo, FillWiden, FillFail,
     ExhaustRead, diskVars
<1>3. CASE FillTile(f)
  BY <1>3 DEF FillTile, TypeOK, DiskTypeOK, diskVars
<1>4. CASE FillRecord(f)
  <2>1. DEFINE i == [zoom |-> RecordedZoom(fill[f].zoom, fill[f].read),
                     used |-> time]
  <2>2. i \in CellInfo
    BY <1>4, FillWas, RecordedTyped
    DEF FillRecord, CellInfo, FillOK, FillState, TypeOK, DiskTypeOK
  <2>3. info' = [info EXCEPT ![fill[f].cell] = i] /\ UNCHANGED tiles
    BY <1>4 DEF FillRecord
  <2> HIDE DEF i
  <2>4. QED
    BY <2>2, <2>3, NoneAssumption DEF TypeOK, DiskTypeOK
<1>5. CASE ExhaustWrite(f)
  <2>1. DEFINE i == [zoom |-> fill[f].zoom, used |-> fill[f].read.used]
  <2>2. i \in CellInfo
    BY <1>5, FillWas DEF ExhaustWrite, CellInfo, FillOK, FillState
  <2>3. info' = [info EXCEPT ![fill[f].cell] = i] /\ UNCHANGED tiles
    BY <1>5 DEF ExhaustWrite
  <2> HIDE DEF i
  <2>4. QED
    BY <2>2, <2>3, NoneAssumption DEF TypeOK, DiskTypeOK
<1>6. QED BY <1>1, <1>2, <1>3, <1>4, <1>5

LEMMA HoldKeepsFiles ==
    ASSUME TypeOK, HoldStep, NEW c \in Cells
    PROVE  /\ UNCHANGED tiles
           /\ info[c] # None => info'[c] # None
<1>1. PICK r \in Renders :
        \/ \E C \in (SUBSET Cells) \ {{}} : HoldClaim(r, C)
        \/ TouchDue(r)
        \/ \E d \in Cells : TouchRead(r, d)
        \/ \E d \in Cells : TouchNone(r, d)
        \/ TouchWrite(r)
        \/ \E d \in Cells : TouchFail(r, d)
        \/ HoldReturn(r)
        \/ Release(r)
  BY DEF HoldStep
<1>2. CASE TouchWrite(r)
  <2>1. DEFINE i == [zoom |-> hold[r].read.zoom, used |-> hold[r].now]
  <2>2. i \in CellInfo
    BY <1>2, HoldWas DEF TouchWrite, CellInfo, HoldOK, HoldState
  <2>3. info' = [info EXCEPT ![hold[r].cell] = i] /\ UNCHANGED tiles
    BY <1>2 DEF TouchWrite
  <2> HIDE DEF i
  <2>4. QED
    BY <2>2, <2>3, NoneAssumption DEF TypeOK, DiskTypeOK
<1>3. CASE ~TouchWrite(r)
  BY <1>1, <1>3 DEF HoldClaim, TouchDue, TouchRead, TouchNone, TouchFail,
     HoldReturn, Release, diskVars
<1>4. QED BY <1>2, <1>3

LEMMA OnlyUnlinkTakes ==
    ASSUME TypeOK, NEW d \in Evictors, EvictAct(d), ~EvictUnlink(d)
    PROVE  UNCHANGED <<tiles, info>>
BY DEF EvictAct, EvictStart, EvictMeasure, EvictMeasured, EvictList,
   EvictGiveUp, EvictLock, EvictSkip, EvictTake, EvictRemoved, EvictReturn,
   EvictNotEmpty,
   EvictFail, diskVars

LEMMA UnlinkTakesVictim ==
    ASSUME TypeOK, NEW d \in Evictors, EvictUnlink(d), NEW c \in Cells,
           c # ev[d].victim.cell
    PROVE  tiles'[c] = tiles[c] /\ info'[c] = info[c]
BY DEF EvictUnlink, TypeOK, DiskTypeOK

\* A cell no eviction is in the middle of keeps every file it has.
LEMMA OnlyRemovalTakes ==
    ASSUME TypeOK, [Next]_vars, NEW c \in Cells, ~BeingRemoved(c)
    PROVE  /\ tiles[c] \subseteq tiles'[c]
           /\ info[c] # None => info'[c] # None
<1>1. CASE EvictStep
  <2>1. PICK d \in Evictors : EvictAct(d)
    BY <1>1, OneEvicts
  <2>2. CASE EvictUnlink(d)
    BY <2>2, UnlinkTakesVictim DEF BeingRemoved, EvictUnlink
  <2>3. CASE ~EvictUnlink(d)
    BY <2>1, <2>3, OnlyUnlinkTakes
  <2>4. QED BY <2>2, <2>3
<1>2. CASE (\E s \in Stores : Kill(s)) \/ ManifestStep \/ Tick \/ UNCHANGED vars
  BY <1>2 DEF Kill, ManifestStep, Tick, vars, sliceVars, diskVars
<1>3. QED
  BY <1>1, <1>2, FillKeepsFiles, HoldKeepsFiles DEF Next

\* Where there is one process, what a render holds is not being removed.
LEMMA HeldIsNotRemoved ==
    ASSUME NEW s0 \in Stores, Stores = {s0}, HoldsInv,
           NEW r \in Renders, hold[r].phase # "released",
           NEW c \in hold[r].cells
    PROVE  ~BeingRemoved(c)
<1>1. r \in Holding(s0, c)
  BY ActorsAssumption DEF Holding
<1>2. QED
  BY <1>1, ActorsAssumption DEF HoldsInv, VictimIsNotHeld, BeingRemoved

\* In one process, a cell that a render holds keeps its tiles and its cell.json
\* until the render is done (source.go, Hold).
THEOREM HeldCellsAreKept ==
    ASSUME NEW s0 \in Stores, Stores = {s0}
    PROVE  Spec => HeldCellsStay
<1>1. HoldsInv /\ [Next]_vars =>
        [\A r \in Renders :
            hold[r].phase = "held" /\ hold'[r].phase = "held"
            => \A c \in hold[r].cells :
                  /\ tiles[c] \subseteq tiles'[c]
                  /\ info[c] # None => info'[c] # None]_vars
  <2> SUFFICES ASSUME HoldsInv, [Next]_vars, NEW r \in Renders,
                      hold[r].phase = "held", NEW c \in hold[r].cells
               PROVE  /\ tiles[c] \subseteq tiles'[c]
                      /\ info[c] # None => info'[c] # None
    OBVIOUS
  <2>1. TypeOK
    BY DEF HoldsInv
  <2>2. c \in Cells
    BY <2>1 DEF TypeOK, HoldTypeOK, HoldState
  <2>3. ~BeingRemoved(c)
    BY HeldIsNotRemoved
  <2>4. QED
    BY <2>1, <2>2, <2>3, OnlyRemovalTakes
<1>2. QED
  BY <1>1, HoldsInvariant, PTL DEF Spec, HeldCellsStay

-----------------------------------------------------------------------------
(***************************************************************************)
(* Complete cells are whole.  CompleteMeansWhole is not inductive: it      *)
(* needs what every call that is about to write a cell.json already knows  *)
(* of the cell, and that a removal which ends leaves nothing.              *)
(***************************************************************************)

\* A range that begins no deeper than the cells do.  Two of these never have a
\* gap between them that a cell's tiles could fall into.
Low(z) == z.min <= CellZoom

\* What a fetch has been through of its range is on disk, and so is the range
\* of the cell.json it read; no eviction is under way beside it.
FillsAreWhole ==
    \A f \in Fillers : fill[f].phase # "idle" =>
        /\ NobodyEvicts
        /\ \A t \in PyramidTiles(fill[f].zoom) \ fill[f].todo :
              HeldOrAbsent(fill[f].cell, t)
        /\ Low(fill[f].zoom)
        /\ fill[f].phase \in {"record", "overwrite"} /\ fill[f].read # None =>
              /\ Whole(fill[f].cell, fill[f].read.zoom)
              /\ Low(fill[f].read.zoom)

\* What a touch is about to write back is on disk.
TouchesAreWhole ==
    \A r \in Renders : hold[r].phase = "writing" =>
        Whole(hold[r].cell, hold[r].read.zoom) /\ Low(hold[r].read.zoom)

\* A removal has everything there is left of its victim before it.
RemovalsAreTotal ==
    \A e \in Evictors : ev[e].phase = "remove" =>
        /\ tiles[ev[e].victim.cell] \subseteq ev[e].listed
        /\ info[ev[e].victim.cell] # None => ev[e].json

InfosAreLow == \A c \in Cells : info[c] # None => Low(info[c].zoom)

WholeInv ==
    /\ HoldsInv
    /\ FillsAreWhole
    /\ TouchesAreWhole
    /\ RemovalsAreTotal
    /\ InfosAreLow
    /\ CompleteMeansWhole

\* The program the theorem is about: one process, that fetches ranges down
\* from the cell zoom or above it, and does not evict while it fetches.
Careful == /\ \E s0 \in Stores : Stores = {s0}
           /\ ~EvictBesideFill
           /\ ~CutRemovals
           /\ \A z \in Ranges : Low(z)

LEMMA PyramidOfUnion ==
    ASSUME NEW a \in ZoomRange(MaxZoom), NEW b \in ZoomRange(MaxZoom),
           Low(a), Low(b)
    PROVE  /\ Low(UnionOf(a, b))
           /\ PyramidTiles(UnionOf(a, b))
                 \subseteq PyramidTiles(a) \cup PyramidTiles(b)
<1>1. /\ CellZoom \in Nat
      /\ MaxZoom \in Nat
      /\ \A t \in Tiles : TileZoom[t] \in Nat /\ TileZoom[t] >= CellZoom
  BY TilesAssumption, RangesAssumption
<1>2. a.min \in Nat /\ a.max \in Nat /\ b.min \in Nat /\ b.max \in Nat
  BY <1>1 DEF ZoomRange
<1>3. Low(UnionOf(a, b))
  BY <1>1, <1>2 DEF Low, UnionOf, IsEmpty, Lesser
<1>4. ASSUME NEW t \in PyramidTiles(UnionOf(a, b))
      PROVE  t \in PyramidTiles(a) \/ t \in PyramidTiles(b)
  BY <1>1, <1>2
  DEF PyramidTiles, InRange, Low, UnionOf, IsEmpty, Lesser, Greater
<1>5. QED
  BY <1>3, <1>4

LEMMA TileStays ==
    ASSUME TypeOK, [Next]_vars, NEW c \in Cells, ~BeingRemoved(c),
           NEW t, HeldOrAbsent(c, t)
    PROVE  HeldOrAbsent(c, t)'
BY OnlyRemovalTakes DEF HeldOrAbsent

LEMMA WholeStays ==
    ASSUME TypeOK, [Next]_vars, NEW c \in Cells, ~BeingRemoved(c),
           NEW z, Whole(c, z)
    PROVE  Whole(c, z)'
BY TileStays DEF Whole, PyramidTiles

LEMMA NobodyRemoves ==
    ASSUME NobodyEvicts PROVE \A c : ~BeingRemoved(c)
BY DEF NobodyEvicts, BeingRemoved

\* A cell.json that stays as it was still tells the truth.
LEMMA SameInfoWhole ==
    ASSUME WholeInv, [Next]_vars, NEW c \in Cells, ~BeingRemoved(c),
           info'[c] = info[c], info[c] # None, NEW z, z = info[c].zoom
    PROVE  Whole(c, z)' /\ Low(z)
<1>1. Whole(c, z) /\ Low(z)
  BY DEF WholeInv, CompleteMeansWhole, InfosAreLow
<1>2. QED
  BY <1>1, WholeStays DEF WholeInv, HoldsInv

\* What every cell.json must be after a step.
LEMMA InfoGoal ==
    ASSUME \A c \in Cells : \A z :
              info'[c] # None /\ z = info'[c].zoom
              => /\ Low(z)
                 /\ BeingRemoved(c)' \/ Whole(c, z)'
    PROVE  InfosAreLow' /\ CompleteMeansWhole'
BY DEF InfosAreLow, CompleteMeansWhole, Low, Whole, PyramidTiles, HeldOrAbsent

\* FillsAreWhole of one goroutine's state, the evictions apart.
FillWhole(x) ==
    x.phase # "idle" =>
        /\ \A t \in PyramidTiles(x.zoom) \ x.todo : HeldOrAbsent(x.cell, t)
        /\ Low(x.zoom)
        /\ x.phase \in {"record", "overwrite"} /\ x.read # None =>
              Whole(x.cell, x.read.zoom) /\ Low(x.read.zoom)

LEMMA FillStaysWhole ==
    ASSUME WholeInv, [Next]_vars, NobodyEvicts, NEW f \in Fillers, NEW x,
           x = fill[f]
    PROVE  FillWhole(x)'
<1>1. FillWhole(x)
  BY DEF WholeInv, FillsAreWhole, FillWhole
<1>2. CASE x.phase = "idle"
  BY <1>2 DEF FillWhole
<1>3. CASE x.phase # "idle"
  <2>1. x.cell \in Cells /\ TypeOK
    BY <1>3, FillWas DEF WholeInv, HoldsInv
  <2>2. QED
    BY <1>1, <2>1, NobodyRemoves, TileStays, WholeStays DEF FillWhole
<1>4. QED BY <1>2, <1>3

LEMMA FillGoal ==
    ASSUME WholeInv, [Next]_vars, NobodyEvicts, UNCHANGED ev,
           NEW f \in Fillers, NEW x, fill' = [fill EXCEPT ![f] = x],
           FillWhole(x)'
    PROVE  FillsAreWhole'
<1> SUFFICES ASSUME NEW g \in Fillers, NEW y, y = fill'[g]
             PROVE  FillWhole(y)'
  BY DEF FillsAreWhole, FillWhole, NobodyEvicts, HeldOrAbsent, PyramidTiles,
     Low, Whole
<1>1. y = IF g = f THEN x ELSE fill[g]
  BY DEF WholeInv, HoldsInv, TypeOK, FillTypeOK
<1>2. QED
  BY <1>1, FillStaysWhole

\* A fetch has no eviction beside it, when it begins and while it goes on.
LEMMA FillIsAlone ==
    ASSUME WholeInv, Careful, FillStep
    PROVE  NobodyEvicts
<1>1. ASSUME NEW f \in Fillers, fill[f].phase # "idle"
      PROVE  NobodyEvicts
  BY <1>1 DEF WholeInv, FillsAreWhole
<1>2. QED
  BY <1>1 DEF Careful, FillStep, FillStart, FillTile, FillReadInfo,
     FillMissesInfo, FillRecord, FillWiden, FillFail, ExhaustRead, ExhaustWrite, MayFill

\* The cell.json files that this step of a fetch does not write.
LEMMA OtherInfos ==
    ASSUME WholeInv, [Next]_vars, NobodyEvicts, UNCHANGED info
    PROVE  InfosAreLow' /\ CompleteMeansWhole'
BY NobodyRemoves, SameInfoWhole, InfoGoal

LEMMA FillBeginsWhole ==
    ASSUME WholeInv, [Next]_vars, Careful, NobodyEvicts, NEW f \in Fillers,
           \/ \E c \in Cells, z \in Ranges : FillStart(f, c, z)
           \/ \E c \in Cells, through \in CellZoom..MaxZoom :
                    ExhaustRead(f, c, through)
    PROVE  FillsAreWhole' /\ InfosAreLow' /\ CompleteMeansWhole'
<1>1. ASSUME NEW c \in Cells, NEW z \in Ranges, FillStart(f, c, z)
      PROVE  FillsAreWhole'
  <2>1. PICK x : x = [phase |-> "tiles", cell |-> c, zoom |-> z,
                      todo |-> PyramidTiles(z), read |-> None]
    OBVIOUS
  <2>2. FillWhole(x)'
    BY <2>1 DEF FillWhole, Careful
  <2>3. QED
    BY <1>1, <2>1, <2>2, FillGoal DEF FillStart
<1>2. ASSUME NEW c \in Cells, NEW through \in CellZoom..MaxZoom,
             ExhaustRead(f, c, through)
      PROVE  FillsAreWhole'
  <2>1. PICK x : x = [phase |-> "exhaust", cell |-> c,
                      zoom |-> [min |-> info[c].zoom.min, max |-> through],
                      todo |-> {}, read |-> info[c]]
    OBVIOUS
  <2>2. info[c] \in CellInfo /\ Low(info[c].zoom)
    BY <1>2 DEF ExhaustRead, WholeInv, HoldsInv, TypeOK, DiskTypeOK, InfosAreLow
  <2>3. \A t \in Tiles : TileZoom[t] \in Nat
    BY TilesAssumption
  <2>4. PyramidTiles(x.zoom)
           \subseteq PyramidTiles([min |-> 0, max |-> through])
    BY <2>1, <2>2, <2>3 DEF PyramidTiles, InRange, CellInfo, ZoomRange
  <2>5. \A t \in PyramidTiles(x.zoom) : HeldOrAbsent(c, t)'
    BY <1>2, <2>4 DEF ExhaustRead, Whole, HeldOrAbsent, diskVars
  <2>6. FillWhole(x)'
    BY <2>1, <2>2, <2>5 DEF FillWhole, Low
  <2>7. QED
    BY <1>2, <2>1, <2>6, FillGoal DEF ExhaustRead
<1>3. UNCHANGED info
  BY DEF FillStart, ExhaustRead, diskVars
<1>4. QED
  BY <1>1, <1>2, <1>3, OtherInfos

LEMMA FillTileWhole ==
    ASSUME WholeInv, [Next]_vars, NobodyEvicts, NEW f \in Fillers, FillTile(f)
    PROVE  FillsAreWhole' /\ InfosAreLow' /\ CompleteMeansWhole'
<1>1. PICK t \in NextTiles(f) : FillTile(f)!(t)
  BY DEF FillTile
<1>2. PICK c \in Cells : c = fill[f].cell
  BY <1>1, FillWas DEF WholeInv, HoldsInv
<1>3. PICK x : x = [fill[f] EXCEPT !.todo = @ \ {t}]
  OBVIOUS
<1>4. /\ fill[f] \in FillState /\ fill[f].phase = "tiles"
      /\ tiles \in [Cells -> SUBSET Tiles]
  BY <1>1 DEF WholeInv, HoldsInv, TypeOK, FillTypeOK, DiskTypeOK
<1>5. /\ x.phase = "tiles" /\ x.cell = c /\ x.zoom = fill[f].zoom
      /\ x.todo = fill[f].todo \ {t}
  BY <1>2, <1>3, <1>4 DEF FillState
<1>6. HeldOrAbsent(c, t)'
  BY <1>1, <1>2, <1>4 DEF HeldOrAbsent, diskVars
<1>7. PICK y : y = fill[f]
  OBVIOUS
<1>8. FillWhole(y)'
  BY <1>7, FillStaysWhole
<1>9. FillWhole(x)'
  BY <1>2, <1>4, <1>5, <1>6, <1>7, <1>8 DEF FillWhole
<1>10. FillsAreWhole'
  BY <1>1, <1>3, <1>9, FillGoal
<1>11. UNCHANGED info
  BY <1>1 DEF diskVars
<1>12. QED
  BY <1>10, <1>11, OtherInfos

LEMMA FillReadInfoWhole ==
    ASSUME WholeInv, [Next]_vars, NobodyEvicts, NEW f \in Fillers,
           FillReadInfo(f)
    PROVE  FillsAreWhole' /\ InfosAreLow' /\ CompleteMeansWhole'
<1>1. PICK c \in Cells : c = fill[f].cell
  BY FillWas DEF FillReadInfo, WholeInv, HoldsInv
<1>2. PICK x : x = [fill[f] EXCEPT !.phase = "record", !.read = info[c]]
  OBVIOUS
<1>3. fill[f] \in FillState /\ fill[f].phase = "tiles"
  BY DEF FillReadInfo, WholeInv, HoldsInv, TypeOK, FillTypeOK
<1>4. /\ x.phase = "record" /\ x.cell = c /\ x.zoom = fill[f].zoom
      /\ x.todo = fill[f].todo /\ x.read = info[c]
  BY <1>1, <1>2, <1>3 DEF FillState
<1>5. PICK y : y = fill[f]
  OBVIOUS
<1>6. FillWhole(y)'
  BY <1>5, FillStaysWhole
<1>7. UNCHANGED info
  BY DEF FillReadInfo, diskVars
<1>8. x.read # None => Whole(c, x.read.zoom)' /\ Low(x.read.zoom)
  BY <1>4, <1>7, NobodyRemoves, SameInfoWhole
<1>9. FillWhole(x)'
  BY <1>1, <1>3, <1>4, <1>5, <1>6, <1>8 DEF FillWhole
<1>10. FillsAreWhole'
  BY <1>1, <1>2, <1>9, FillGoal DEF FillReadInfo
<1>11. QED
  BY <1>7, <1>10, OtherInfos

LEMMA FillMissesInfoWhole ==
    ASSUME WholeInv, [Next]_vars, NobodyEvicts, NEW f \in Fillers,
           FillMissesInfo(f)
    PROVE  FillsAreWhole' /\ InfosAreLow' /\ CompleteMeansWhole'
<1>1. PICK x : x = [fill[f] EXCEPT !.phase = "overwrite", !.read = None]
  OBVIOUS
<1>2. fill[f] \in FillState /\ fill[f].phase = "tiles"
  BY DEF FillMissesInfo, WholeInv, HoldsInv, TypeOK, FillTypeOK
<1>3. /\ x.cell = fill[f].cell /\ x.zoom = fill[f].zoom
      /\ x.todo = fill[f].todo /\ x.read = None
  BY <1>1, <1>2 DEF FillState
<1>4. PICK y : y = fill[f]
  OBVIOUS
<1>5. FillWhole(y)'
  BY <1>4, FillStaysWhole
<1>6. FillWhole(x)'
  BY <1>2, <1>3, <1>4, <1>5 DEF FillWhole
<1>7. FillsAreWhole'
  BY <1>1, <1>6, FillGoal DEF FillMissesInfo
<1>8. UNCHANGED info
  BY DEF FillMissesInfo, diskVars
<1>9. QED
  BY <1>7, <1>8, OtherInfos

\* One cell.json is written, and it tells the truth.
LEMMA OneInfo ==
    ASSUME WholeInv, [Next]_vars, NEW c \in Cells, NEW i \in CellInfo,
           info' = [info EXCEPT ![c] = i], Whole(c, i.zoom)', Low(i.zoom),
           \A d \in Cells \ {c} : ~BeingRemoved(d) \/ BeingRemoved(d)'
    PROVE  InfosAreLow' /\ CompleteMeansWhole'
<1>1. info \in [Cells -> CellInfo \cup {None}]
  BY DEF WholeInv, HoldsInv, TypeOK, DiskTypeOK
<1>2. ASSUME NEW d \in Cells, NEW z, info'[d] # None, z = info'[d].zoom
      PROVE  Low(z) /\ (BeingRemoved(d)' \/ Whole(d, z)')
  <2>1. CASE d = c
    BY <1>1, <1>2, <2>1
  <2>2. CASE d # c
    <3>1. info'[d] = info[d]
      BY <1>1, <2>2
    <3>2. Low(z)
      BY <1>2, <3>1 DEF WholeInv, InfosAreLow
    <3>3. QED
      BY <1>2, <2>2, <3>1, <3>2, SameInfoWhole
  <2>3. QED BY <2>1, <2>2
<1>3. QED
  BY <1>2, InfoGoal

LEMMA FillRecordWhole ==
    ASSUME WholeInv, [Next]_vars, NobodyEvicts, NEW f \in Fillers,
           FillRecord(f)
    PROVE  FillsAreWhole' /\ InfosAreLow' /\ CompleteMeansWhole'
<1>1. PICK c \in Cells : c = fill[f].cell
  BY FillWas DEF FillRecord, WholeInv, HoldsInv
<1>2. PICK y : y = fill[f]
  OBVIOUS
<1>3. /\ y \in FillState /\ y.phase \in {"record", "overwrite"}
      /\ y.todo = {} /\ y.cell = c
      /\ y.zoom \in ZoomRange(MaxZoom)
  BY <1>1, <1>2, FillWas DEF FillRecord, WholeInv, HoldsInv, FillOK
<1>4. FillWhole(y)'
  BY <1>2, FillStaysWhole
<1>5. PICK x : x = [fill[f] EXCEPT !.phase = "widen"]
  OBVIOUS
<1>6. /\ x.phase = "widen" /\ x.cell = c /\ x.zoom = y.zoom /\ x.todo = {}
  BY <1>2, <1>3, <1>5 DEF FillState
<1>7. FillWhole(x)'
  BY <1>3, <1>4, <1>6 DEF FillWhole
<1>8. FillsAreWhole'
  BY <1>5, <1>7, FillGoal DEF FillRecord
<1>9. PICK i : i = [zoom |-> RecordedZoom(y.zoom, y.read), used |-> time]
  OBVIOUS
<1>10. y.read \in CellInfo \cup {None}
  BY <1>3 DEF FillState
<1>11. i \in CellInfo
  BY <1>3, <1>9, <1>10, RecordedTyped
  DEF CellInfo, WholeInv, HoldsInv, TypeOK, DiskTypeOK
<1>12. Whole(c, y.zoom)' /\ Low(y.zoom)
  BY <1>3, <1>4 DEF FillWhole, Whole
<1>13. Whole(c, i.zoom)' /\ Low(i.zoom)
  <2>1. CASE y.read = None
    BY <1>9, <1>12, <2>1 DEF RecordedZoom
  <2>2. CASE y.read # None
    <3>1. Whole(c, y.read.zoom)' /\ Low(y.read.zoom)
      BY <1>3, <1>4, <2>2 DEF FillWhole
    <3>2. y.read.zoom \in ZoomRange(MaxZoom)
      BY <1>10, <2>2 DEF CellInfo
    <3>3. Low(y.zoom) /\ Low(y.read.zoom)
      BY <1>12, <3>1
    <3>4. /\ Low(UnionOf(y.zoom, y.read.zoom))
          /\ PyramidTiles(UnionOf(y.zoom, y.read.zoom))
                \subseteq PyramidTiles(y.zoom) \cup PyramidTiles(y.read.zoom)
      BY <1>3, <3>2, <3>3, PyramidOfUnion
    <3>5. QED
      BY <1>9, <1>12, <2>2, <3>1, <3>4 DEF RecordedZoom, Whole
  <2>3. QED BY <2>1, <2>2
<1>14. info' = [info EXCEPT ![c] = i]
  BY <1>1, <1>2, <1>9 DEF FillRecord
<1>15. QED
  BY <1>8, <1>11, <1>13, <1>14, NobodyRemoves, OneInfo

LEMMA ExhaustWriteWhole ==
    ASSUME WholeInv, [Next]_vars, NobodyEvicts, NEW f \in Fillers,
           ExhaustWrite(f)
    PROVE  FillsAreWhole' /\ InfosAreLow' /\ CompleteMeansWhole'
<1>1. PICK c \in Cells : c = fill[f].cell
  BY FillWas DEF ExhaustWrite, WholeInv, HoldsInv
<1>2. PICK y : y = fill[f]
  OBVIOUS
<1>3. /\ y.phase = "exhaust" /\ y.todo = {} /\ y.cell = c
      /\ y.zoom \in ZoomRange(MaxZoom) /\ y.read \in CellInfo
  BY <1>1, <1>2, FillWas DEF ExhaustWrite, WholeInv, HoldsInv, FillOK, FillState
<1>4. FillWhole(y)'
  BY <1>2, FillStaysWhole
<1>5. PICK i : i = [zoom |-> y.zoom, used |-> y.read.used]
  OBVIOUS
<1>6. i \in CellInfo /\ Whole(c, i.zoom)' /\ Low(i.zoom)
  BY <1>3, <1>4, <1>5 DEF FillWhole, Whole, CellInfo
<1>7. info' = [info EXCEPT ![c] = i]
  BY <1>1, <1>2, <1>5 DEF ExhaustWrite
<1>8. FillsAreWhole'
  <2>1. PICK x : x = NoFill
    OBVIOUS
  <2>2. FillWhole(x)'
    BY <2>1 DEF FillWhole, NoFill
  <2>3. QED
    BY <2>1, <2>2, FillGoal DEF ExhaustWrite
<1>9. QED
  BY <1>6, <1>7, <1>8, NobodyRemoves, OneInfo

LEMMA FillEndsWhole ==
    ASSUME WholeInv, [Next]_vars, NobodyEvicts, NEW f \in Fillers,
           FillWiden(f) \/ FillFail(f)
    PROVE  FillsAreWhole' /\ InfosAreLow' /\ CompleteMeansWhole'
<1>1. PICK x : x = NoFill
  OBVIOUS
<1>2. FillWhole(x)'
  BY <1>1 DEF FillWhole, NoFill
<1>3. FillsAreWhole'
  BY <1>1, <1>2, FillGoal DEF FillWiden, FillFail
<1>4. UNCHANGED info
  BY DEF FillWiden, FillFail, diskVars
<1>5. QED
  BY <1>3, <1>4, OtherInfos

\* The touches under way are as right as they were: no step but their own
\* changes them, and their cells are held.
LEMMA TouchStaysWhole ==
    ASSUME WholeInv, Careful, [Next]_vars, NEW r \in Renders,
           hold[r].phase = "writing", NEW c, c = hold[r].cell,
           NEW z, z = hold[r].read.zoom
    PROVE  Whole(c, z)' /\ Low(z)
<1>1. Whole(c, z) /\ Low(z)
  BY DEF WholeInv, TouchesAreWhole
<1>2. c \in Cells /\ c \in hold[r].cells
  BY HoldWas DEF WholeInv, HoldsInv, HoldOK, HoldState
<1>3. ~BeingRemoved(c)
  BY <1>2, HeldIsNotRemoved DEF WholeInv, Careful
<1>4. QED
  BY <1>1, <1>2, <1>3, WholeStays DEF WholeInv, HoldsInv

LEMMA TouchGoal ==
    ASSUME \A r \in Renders : \A c, z :
              /\ hold'[r].phase = "writing"
              /\ c = hold'[r].cell
              /\ z = hold'[r].read.zoom
              => Whole(c, z)' /\ Low(z)
    PROVE  TouchesAreWhole'
BY DEF TouchesAreWhole, Whole, PyramidTiles, HeldOrAbsent, Low

LEMMA FillStepWhole ==
    ASSUME WholeInv, Careful, [Next]_vars, FillStep
    PROVE  /\ FillsAreWhole'
           /\ TouchesAreWhole'
           /\ RemovalsAreTotal'
           /\ InfosAreLow'
           /\ CompleteMeansWhole'
<1>1. NobodyEvicts
  BY FillIsAlone
<1>2. UNCHANGED <<hold, ev>>
  BY DEF FillStep, FillStart, FillTile, FillReadInfo, FillMissesInfo, FillRecord,
     FillWiden, FillFail, ExhaustRead, ExhaustWrite
<1>3. RemovalsAreTotal'
  BY <1>1, <1>2 DEF RemovalsAreTotal, NobodyEvicts
<1>4. TouchesAreWhole'
  BY <1>2, TouchStaysWhole, TouchGoal
<1>5. FillsAreWhole' /\ InfosAreLow' /\ CompleteMeansWhole'
  BY <1>1, FillBeginsWhole, FillTileWhole, FillReadInfoWhole,
     FillMissesInfoWhole, FillRecordWhole, ExhaustWriteWhole, FillEndsWhole DEF FillStep
<1>6. QED
  BY <1>3, <1>4, <1>5

\* A render's own step: it may read a cell.json or write one back.
LEMMA HoldStepWhole ==
    ASSUME WholeInv, Careful, [Next]_vars, HoldStep
    PROVE  /\ FillsAreWhole'
           /\ TouchesAreWhole'
           /\ RemovalsAreTotal'
           /\ InfosAreLow'
           /\ CompleteMeansWhole'
<1>1. PICK r \in Renders :
        \/ \E C \in (SUBSET Cells) \ {{}} : HoldClaim(r, C)
        \/ TouchDue(r)
        \/ \E d \in Cells : TouchRead(r, d)
        \/ \E d \in Cells : TouchNone(r, d)
        \/ TouchWrite(r)
        \/ \E d \in Cells : TouchFail(r, d)
        \/ HoldReturn(r)
        \/ Release(r)
  BY DEF HoldStep
<1>2. /\ TypeOK
      /\ hold \in [Renders -> HoldState]
      /\ hold[r] \in HoldState
      /\ info \in [Cells -> CellInfo \cup {None}]
  BY DEF WholeInv, HoldsInv, TypeOK, HoldTypeOK, DiskTypeOK
<1>3. UNCHANGED <<tiles, fill, ev>>
  BY <1>1 DEF HoldClaim, TouchDue, TouchRead, TouchNone, TouchWrite,
     TouchFail, HoldReturn, Release, diskVars
<1>4. FillsAreWhole'
  BY <1>3 DEF WholeInv, FillsAreWhole, NobodyEvicts, HeldOrAbsent, Whole,
     PyramidTiles, Low
<1>5. \A c : BeingRemoved(c)' <=> BeingRemoved(c)
  BY <1>3 DEF BeingRemoved
<1>6. \A q \in Renders \ {r} : hold'[q] = hold[q]
  <2>1. CASE \E d \in Cells : TouchRead(r, d)
    BY <1>2, <2>1 DEF TouchRead
  <2>2. CASE \E d \in Cells : TouchFail(r, d)
    BY <1>2, <2>2 DEF TouchFail
  <2>3. CASE TouchWrite(r)
    BY <1>2, <2>3 DEF TouchWrite
  <2>4. CASE \/ \E C \in (SUBSET Cells) \ {{}} : HoldClaim(r, C)
             \/ TouchDue(r)
             \/ \E d \in Cells : TouchNone(r, d)
             \/ HoldReturn(r)
             \/ Release(r)
    BY <1>2, <2>4 DEF HoldClaim, TouchDue, TouchNone, HoldReturn, Release
  <2>5. QED BY <1>1, <2>1, <2>2, <2>3, <2>4
<1>7. CASE TouchWrite(r)
  <2>1. PICK c \in Cells : c = hold[r].cell
    BY <1>2, <1>7, HoldWas DEF TouchWrite, HoldOK, HoldState
  <2>2. PICK y : y = hold[r].read
    OBVIOUS
  <2>3. y \in CellInfo /\ c \in hold[r].cells
    BY <1>2, <1>7, <2>1, <2>2, HoldWas DEF TouchWrite, HoldOK, HoldState
  <2>4. PICK i : i = [zoom |-> y.zoom, used |-> hold[r].now]
    OBVIOUS
  <2>5. i \in CellInfo /\ i.zoom = y.zoom
    BY <1>2, <2>3, <2>4 DEF CellInfo, HoldState
  <2>6. Whole(c, i.zoom)' /\ Low(i.zoom)
    <3>1. PICK z : z = y.zoom
      OBVIOUS
    <3>2. Whole(c, z)' /\ Low(z)
      BY <1>7, <2>1, <2>2, <3>1, TouchStaysWhole DEF TouchWrite
    <3>3. QED BY <2>5, <3>1, <3>2
  <2>7. info' = [info EXCEPT ![c] = i]
    BY <1>7, <2>1, <2>2, <2>4 DEF TouchWrite
  <2>8. InfosAreLow' /\ CompleteMeansWhole'
    BY <1>5, <2>5, <2>6, <2>7, OneInfo
  <2>9. ~BeingRemoved(c)
    BY <1>2, <1>7, <2>3, HeldIsNotRemoved
    DEF TouchWrite, WholeInv, Careful
  <2>10. RemovalsAreTotal'
    BY <1>2, <1>3, <2>7, <2>9 DEF WholeInv, RemovalsAreTotal, BeingRemoved
  <2>11. hold'[r].phase = "touching"
    <3>1. DEFINE x == [hold[r] EXCEPT !.phase = "touching", !.due = @ \ {c},
                                      !.cell = None, !.read = None]
    <3>2. x.phase = "touching"
      BY <1>2 DEF HoldState
    <3>3. hold' = [hold EXCEPT ![r] = x]
      BY <1>7, <2>1 DEF TouchWrite
    <3> HIDE DEF x
    <3>4. QED BY <1>2, <3>2, <3>3
  <2>12. TouchesAreWhole'
    BY <1>6, <2>11, TouchStaysWhole, TouchGoal
  <2>13. QED
    BY <1>4, <2>8, <2>10, <2>12
<1>8. CASE ~TouchWrite(r)
  <2>1. UNCHANGED info
    BY <1>1, <1>8 DEF HoldClaim, TouchDue, TouchRead, TouchNone, TouchFail,
       HoldReturn, Release, diskVars
  <2>2. RemovalsAreTotal'
    BY <1>3, <2>1 DEF WholeInv, RemovalsAreTotal
  <2>3. InfosAreLow' /\ CompleteMeansWhole'
    <3>1. ASSUME NEW d \in Cells, NEW z, info'[d] # None, z = info'[d].zoom
          PROVE  Low(z) /\ (BeingRemoved(d)' \/ Whole(d, z)')
      BY <1>5, <2>1, <3>1, SameInfoWhole DEF WholeInv, InfosAreLow
    <3>2. QED BY <3>1, InfoGoal
  <2>4. CASE \E d \in Cells : TouchRead(r, d)
    <3>1. PICK d \in Cells : TouchRead(r, d)
      BY <2>4
    <3>2. hold'[r].cell = d /\ hold'[r].read = info[d]
      <4>1. DEFINE x == [hold[r] EXCEPT !.phase = "writing", !.cell = d,
                                        !.read = info[d]]
      <4>2. x.cell = d /\ x.read = info[d]
        BY <1>2 DEF HoldState
      <4>3. hold' = [hold EXCEPT ![r] = x]
        BY <3>1 DEF TouchRead
      <4> HIDE DEF x
      <4>4. QED BY <1>2, <4>2, <4>3
    <3>3. ~BeingRemoved(d) /\ info[d] # None
      BY <1>2, <3>1, HoldWas, HeldIsNotRemoved
      DEF TouchRead, WholeInv, Careful, HoldOK
    <3>4. ASSUME NEW z, z = info[d].zoom
          PROVE  Whole(d, z)' /\ Low(z)
      BY <2>1, <3>3, <3>4, SameInfoWhole
    <3>5. QED
      BY <1>4, <1>6, <2>2, <2>3, <3>2, <3>4, TouchStaysWhole, TouchGoal
  <2>5. CASE ~\E d \in Cells : TouchRead(r, d)
    <3>1. hold'[r].phase # "writing"
      <4>1. CASE \E d \in Cells : TouchFail(r, d)
        <5>1. PICK d \in Cells : TouchFail(r, d)
          BY <4>1
        <5>2. DEFINE x == [hold[r] EXCEPT !.phase = "touching",
                             !.due = @ \ {d}, !.cell = None, !.read = None]
        <5>3. x.phase = "touching"
          BY <1>2 DEF HoldState
        <5>4. hold' = [hold EXCEPT ![r] = x]
          BY <5>1 DEF TouchFail
        <5> HIDE DEF x
        <5>5. QED BY <1>2, <5>3, <5>4
      <4>2. CASE \E C \in (SUBSET Cells) \ {{}} : HoldClaim(r, C)
        BY <1>2, <4>2 DEF HoldClaim
      <4>3. CASE TouchDue(r)
        BY <1>2, <4>3 DEF TouchDue, HoldState
      <4>4. CASE \E d \in Cells : TouchNone(r, d)
        BY <1>2, <4>4 DEF TouchNone, HoldState
      <4>5. CASE HoldReturn(r) \/ Release(r)
        BY <1>2, <4>5 DEF HoldReturn, Release, HoldState
      <4>6. QED BY <1>1, <1>8, <2>5, <4>1, <4>2, <4>3, <4>4, <4>5
    <3>2. QED
      BY <1>4, <1>6, <2>2, <2>3, <3>1, TouchStaysWhole, TouchGoal
  <2>6. QED BY <2>4, <2>5
<1>9. QED BY <1>7, <1>8

\* Two removals under way are one: each has the mutex of the only Store.
LEMMA OneRemoval ==
    ASSUME TypeOK, Careful, NEW d \in Evictors, NEW e \in Evictors,
           ev[d].phase = "remove", ev[e].phase = "remove"
    PROVE  d = e
BY EvictWas DEF InLock, Careful

\* A removal that ends has left nothing of its victim.
LEMMA EndedIsGone ==
    ASSUME WholeInv, Careful, NEW e \in Evictors, EvictAct(e),
           ev[e].phase = "remove", ev'[e].phase # "remove"
    PROVE  info[ev[e].victim.cell] = None
<1>1. /\ ev \in [Evictors -> EvictState]
      /\ ev[e] \in EvictState
  BY DEF WholeInv, HoldsInv, TypeOK, EvictTypeOK
<1>2. ~EvictUnlink(e)
  BY <1>1 DEF EvictUnlink, EvictState
<1>3. CASE EvictRemoved(e)
  BY <1>3 DEF EvictRemoved, HasFiles
<1>4. CASE EvictNotEmpty(e)
  BY <1>4 DEF EvictNotEmpty, WholeInv, RemovalsAreTotal
<1>5. QED
  BY <1>2, <1>3, <1>4
  DEF EvictAct, EvictStart, EvictMeasure, EvictMeasured, EvictList,
      EvictGiveUp, EvictLock, EvictSkip, EvictTake, EvictReturn, EvictFail,
      Careful

LEMMA EvictStepWhole ==
    ASSUME WholeInv, Careful, [Next]_vars, EvictStep
    PROVE  /\ FillsAreWhole'
           /\ TouchesAreWhole'
           /\ RemovalsAreTotal'
           /\ InfosAreLow'
           /\ CompleteMeansWhole'
<1>1. PICK d \in Evictors :
              EvictAct(d) /\ \A e \in Evictors \ {d} : ev'[e] = ev[e]
  BY OneEvicts DEF WholeInv, HoldsInv
<1>2. /\ TypeOK
      /\ ev \in [Evictors -> EvictState]
      /\ info \in [Cells -> CellInfo \cup {None}]
      /\ tiles \in [Cells -> SUBSET Tiles]
  BY DEF WholeInv, HoldsInv, TypeOK, EvictTypeOK, DiskTypeOK
<1>3. UNCHANGED <<fill, hold>>
  BY <1>1 DEF EvictAct, EvictStart, EvictMeasure, EvictMeasured, EvictList,
     EvictGiveUp, EvictLock, EvictSkip, EvictTake, EvictUnlink, EvictRemoved,
     EvictReturn,
     EvictNotEmpty, EvictFail
<1>4. NobodyFills
  <2>1. CASE ev[d].phase = "idle"
    BY <1>1, <2>1
    DEF EvictAct, EvictStart, EvictMeasure, EvictMeasured, EvictList,
        EvictGiveUp, EvictLock, EvictSkip, EvictTake, EvictUnlink,
        EvictRemoved,
        EvictReturn, EvictNotEmpty, EvictFail, Careful
  <2>2. CASE ev[d].phase # "idle"
    BY <2>2 DEF WholeInv, FillsAreWhole, NobodyEvicts, NobodyFills
  <2>3. QED BY <2>1, <2>2
<1>5. FillsAreWhole'
  BY <1>3, <1>4 DEF FillsAreWhole, NobodyFills
<1>6. TouchesAreWhole'
  BY <1>3, TouchStaysWhole, TouchGoal
<1>7. RemovalsAreTotal'
  <2> SUFFICES ASSUME NEW e \in Evictors, ev'[e].phase = "remove",
                      NEW c, c = ev'[e].victim.cell
               PROVE  /\ tiles'[c] \subseteq ev'[e].listed
                      /\ info'[c] # None => ev'[e].json
    BY DEF RemovalsAreTotal
  <2>1. CASE EvictTake(e)
    <3>1. PICK v \in Oldest(ev[e].cands) : EvictTake(e)!(v)
      BY <2>1 DEF EvictTake
    <3>2. DEFINE x == [ev[e] EXCEPT !.phase = "remove", !.victim = v,
                                    !.listed = tiles[v.cell],
                                    !.json = (info[v.cell] # None)]
    <3>3. /\ x.victim = v
          /\ x.listed = tiles[v.cell]
          /\ x.json <=> info[v.cell] # None
      BY <1>2 DEF EvictState
    <3>4. ev' = [ev EXCEPT ![e] = x] /\ UNCHANGED <<tiles, info>>
      BY <3>1 DEF RemoveNext, diskVars
    <3> HIDE DEF x
    <3>5. QED BY <1>2, <3>3, <3>4
  <2>2. CASE ev[e].phase = "remove" /\ ev'[e].victim = ev[e].victim
    <3>1. /\ tiles[c] \subseteq ev[e].listed
          /\ info[c] # None => ev[e].json
      BY <2>2 DEF WholeInv, RemovalsAreTotal
    <3>2. c \in Cells
      BY <1>2, <2>2, EvictWas DEF EvictOK, EvictState, Candidate
    <3>3. CASE EvictUnlink(d)
      <4>1. d = e
        BY <1>2, <2>2, <3>3, OneRemoval DEF EvictUnlink
      <4>2. CASE /\ info' = [info EXCEPT ![c] = None]
                 /\ ev' = [ev EXCEPT ![e].json = FALSE]
                 /\ UNCHANGED tiles
        BY <1>2, <3>1, <3>2, <4>2 DEF EvictState
      <4>3. ASSUME NEW t \in tiles[c],
                   tiles' = [tiles EXCEPT ![c] = @ \ {t}],
                   ev' = [ev EXCEPT ![e].listed = @ \ {t}],
                   UNCHANGED info
            PROVE  /\ tiles'[c] \subseteq ev'[e].listed
                   /\ info'[c] # None => ev'[e].json
        BY <1>2, <3>1, <3>2, <4>3 DEF EvictState
      <4>4. QED
        BY <2>2, <3>3, <4>1, <4>2, <4>3 DEF EvictUnlink
    <3>4. CASE ~EvictUnlink(d)
      <4>1. UNCHANGED <<tiles, info>>
        BY <1>1, <1>2, <3>4, OnlyUnlinkTakes
      <4>2. ev'[e] = ev[e]
        <5>1. CASE d # e
          BY <1>1, <5>1
        <5>2. CASE d = e
          <6>1. EvictRemoved(d) \/ EvictNotEmpty(d)
            BY <1>1, <2>2, <3>4, <5>2
            DEF EvictAct, EvictStart, EvictMeasure, EvictMeasured, EvictList,
                EvictGiveUp, EvictLock, EvictSkip, EvictTake, EvictReturn,
                EvictFail,
                Careful
          <6>2. ev'[d].phase # "remove"
            BY <1>2, <6>1
            DEF EvictRemoved, EvictNotEmpty, NoEvict, EvictState
          <6>3. QED BY <5>2, <6>2
        <5>3. QED BY <5>1, <5>2
      <4>3. QED BY <3>1, <4>1, <4>2
    <3>5. QED BY <3>3, <3>4
  <2>3. QED
    BY <1>2, <2>1, <2>2, RemovalBegins
<1>8. InfosAreLow' /\ CompleteMeansWhole'
  <2>1. ASSUME NEW c \in Cells, NEW z, info'[c] # None, z = info'[c].zoom
        PROVE  Low(z) /\ (BeingRemoved(c)' \/ Whole(c, z)')
    <3>1. info'[c] = info[c]
      BY <1>1, <1>2, <2>1, OnlyUnlinkTakes DEF EvictUnlink
    <3>2. Low(z)
      BY <2>1, <3>1 DEF WholeInv, InfosAreLow
    <3>3. CASE ~BeingRemoved(c)
      BY <2>1, <3>1, <3>2, <3>3, SameInfoWhole
    <3>4. ASSUME NEW e \in Evictors, ev[e].phase = "remove",
                 ev[e].victim.cell = c
          PROVE  BeingRemoved(c)'
      <4>1. ev'[e].phase = "remove"
        BY <1>1, <2>1, <3>1, <3>4, EndedIsGone
      <4>2. ev'[e].victim = ev[e].victim
        BY <1>2, <3>4, <4>1, RemovalBegins DEF EvictTake
      <4>3. QED
        BY <3>4, <4>1, <4>2 DEF BeingRemoved
    <3>5. QED
      BY <3>2, <3>3, <3>4 DEF BeingRemoved
  <2>2. QED BY <2>1, InfoGoal
<1>9. QED
  BY <1>5, <1>6, <1>7, <1>8

\* Steps that touch no file and end calls rather than move them on.
LEMMA OtherStepWhole ==
    ASSUME WholeInv, Careful, [Next]_vars,
           \/ \E s \in Stores : Kill(s)
           \/ ManifestStep
           \/ Tick
           \/ UNCHANGED vars
    PROVE  /\ FillsAreWhole'
           /\ TouchesAreWhole'
           /\ RemovalsAreTotal'
           /\ InfosAreLow'
           /\ CompleteMeansWhole'
<1>1. CASE \E s \in Stores : Kill(s)
  <2>1. PICK s \in Stores : Kill(s)
    BY <1>1
  <2>2. UNCHANGED <<tiles, info>>
    BY <2>1 DEF Kill, diskVars
  <2>3. /\ \A f \in Fillers : fill'[f] = NoFill
        /\ \A r \in Renders : hold'[r] = NoHold
        /\ \A e \in Evictors : ev'[e] = NoEvict /\ ev[e].phase # "remove"
    BY <2>1, ActorsAssumption DEF Kill, Careful
  <2>4. FillsAreWhole' /\ TouchesAreWhole' /\ RemovalsAreTotal'
    BY <2>3 DEF FillsAreWhole, TouchesAreWhole, RemovalsAreTotal, NoFill,
       NoHold, NoEvict
  <2>5. \A c : ~BeingRemoved(c)
    BY <2>3 DEF BeingRemoved
  <2>6. ASSUME NEW c \in Cells, NEW z, info'[c] # None, z = info'[c].zoom
        PROVE  Low(z) /\ (BeingRemoved(c)' \/ Whole(c, z)')
    BY <2>2, <2>5, <2>6, SameInfoWhole
  <2>7. QED BY <2>4, <2>6, InfoGoal
<1>2. CASE ManifestStep \/ Tick \/ UNCHANGED vars
  <2>1. UNCHANGED <<tiles, info, fill, hold, ev>>
    BY <1>2 DEF ManifestStep, Tick, vars, sliceVars, diskVars
  <2>2. FillsAreWhole'
    BY <2>1 DEF WholeInv, FillsAreWhole, NobodyEvicts, Whole, PyramidTiles,
       HeldOrAbsent, Low
  <2>3. TouchesAreWhole'
    BY <2>1, TouchStaysWhole, TouchGoal
  <2>4. RemovalsAreTotal' /\ InfosAreLow'
    BY <2>1 DEF WholeInv, RemovalsAreTotal, InfosAreLow, Low
  <2>5. CompleteMeansWhole'
    BY <2>1 DEF WholeInv, CompleteMeansWhole, BeingRemoved, Whole,
       PyramidTiles, HeldOrAbsent
  <2>6. QED BY <2>2, <2>3, <2>4, <2>5
<1>3. QED BY <1>1, <1>2

\* What manifest.go says of CellInfo: a cell that has a cell.json has every
\* tile of the range recorded that the archive holds.  It is true of one
\* process that keeps evictions out of its acquisitions (evict.go, Evict), that
\* fetches ranges from the cell zoom or above down (no gap for union to bridge),
\* and whose os.RemoveAll is never cut short.
THEOREM CompleteCellsAreWhole ==
    ASSUME Careful
    PROVE  Spec => []CompleteMeansWhole
<1>1. Init => WholeInv
  <2> SUFFICES ASSUME Init PROVE WholeInv
    OBVIOUS
  <2>1. HoldsInv
    <3>1. \A s \in Stores, c \in Cells : Holding(s, c) = {}
      BY DEF Init, Holding, NoHold
    <3>2. HeldCountsHolds
      BY <3>1, FS_EmptySet DEF Init, HeldCountsHolds
    <3>3. VictimIsNotHeld
      BY DEF Init, VictimIsNotHeld, NoEvict
    <3>4. QED BY <3>2, <3>3, InitTyped DEF HoldsInv
  <2>2. QED
    BY <2>1 DEF WholeInv, Init, FillsAreWhole, TouchesAreWhole,
       RemovalsAreTotal, InfosAreLow, CompleteMeansWhole, NoFill, NoHold,
       NoEvict
<1>2. WholeInv /\ HoldsInv' /\ [Next]_vars => WholeInv'
  BY FillStepWhole, HoldStepWhole, EvictStepWhole, OtherStepWhole
  DEF Next, WholeInv
<1>3. WholeInv => CompleteMeansWhole
  BY DEF WholeInv
<1>4. QED
  BY <1>1, <1>2, <1>3, HoldsInvariant, PTL DEF Spec
=============================================================================
