------------------------- MODULE SliceActionProofs -------------------------
(***************************************************************************)
(* What no step of Slice may do, for every set of cells, tiles, Stores and *)
(* goroutines: make the range a cell.json records smaller, evict from a    *)
(* store that fits its budget, take a cell that was used later than one it *)
(* leaves, or give up on the budget while there is something to remove.    *)
(***************************************************************************)
EXTENDS SliceProofs

-----------------------------------------------------------------------------
(***************************************************************************)
(* The deeper answer.  Whoever is about to write a cell.json has read what *)
(* is there now, or what has been evicted since.                           *)
(***************************************************************************)

\* No two fetches are on one cell at a time: acquire plans each cell once, and
\* works through its plan.
OneFetchPerCell ==
    \A f, g \in Fillers :
        f # g /\ fill[f].phase # "idle" /\ fill[g].phase # "idle"
        => fill[f].cell # fill[g].cell

FillsApart == NobodyFills \/ NobodyTouches

\* What a fetch is about to record covers what the cell.json says.
FillsCover ==
    \A f \in Fillers : fill[f].phase # "idle" /\ info[fill[f].cell] # None =>
        /\ fill[f].phase = "record" => fill[f].read = info[fill[f].cell]
        /\ fill[f].phase = "exhaust" =>
              Covers(fill[f].zoom, info[fill[f].cell].zoom)

\* What a touch is about to write back has the range of the cell.json, and of
\* what any other touch of the cell is about to write.
TouchesAgree ==
    \A r \in Renders : hold[r].phase = "writing" =>
        /\ info[hold[r].cell] # None =>
              info[hold[r].cell].zoom = hold[r].read.zoom
        /\ \A q \in Renders :
              hold[q].phase = "writing" /\ hold[q].cell = hold[r].cell
              => hold[q].read.zoom = hold[r].read.zoom

DeeperInv == TypeOK /\ FillsApart /\ FillsCover /\ TouchesAgree


\* One fetch takes a step.
FillAct(f) ==
    \/ \E c \in Cells, z \in Ranges : FillStart(f, c, z)
    \/ FillTile(f)
    \/ FillReadInfo(f)
    \/ FillMissesInfo(f)
    \/ FillRecord(f)
    \/ FillWiden(f)
    \/ FillFail(f)
    \/ \E c \in Cells, through \in CellZoom..MaxZoom :
            ExhaustRead(f, c, through)
    \/ ExhaustWrite(f)

\* Of the fetches one moves, and of the cell.json files its own alone.
LEMMA OneFills ==
    ASSUME TypeOK, FillStep
    PROVE  \E f \in Fillers :
              /\ FillAct(f)
              /\ \A g \in Fillers \ {f} : fill'[g] = fill[g]
              /\ \A c \in Cells : info'[c] = info[c] \/ c = fill[f].cell
<1>1. PICK f \in Fillers : FillAct(f)
  BY DEF FillStep, FillAct
<1>2. fill \in [Fillers -> FillState] /\ info \in [Cells -> CellInfo \cup {None}]
  BY DEF TypeOK, FillTypeOK, DiskTypeOK
<1>3. ASSUME NEW c \in Cells, NEW z \in Ranges, FillStart(f, c, z)
      PROVE  (\A g \in Fillers \ {f} : fill'[g] = fill[g]) /\ info' = info
  BY <1>2, <1>3 DEF FillStart, diskVars
<1>4. CASE FillTile(f)
  BY <1>1, <1>2, <1>4 DEF FillTile, diskVars
<1>5. CASE FillReadInfo(f) \/ FillMissesInfo(f)
  BY <1>1, <1>2, <1>5 DEF FillReadInfo, FillMissesInfo, diskVars
<1>6. CASE FillRecord(f)
  BY <1>1, <1>2, <1>6 DEF FillRecord
<1>7. CASE FillWiden(f) \/ FillFail(f)
  BY <1>1, <1>2, <1>7 DEF FillWiden, FillFail, diskVars
<1>8. ASSUME NEW c \in Cells, NEW through \in CellZoom..MaxZoom,
             ExhaustRead(f, c, through)
      PROVE  (\A g \in Fillers \ {f} : fill'[g] = fill[g]) /\ info' = info
  BY <1>2, <1>8 DEF ExhaustRead, diskVars
<1>9. CASE ExhaustWrite(f)
  BY <1>1, <1>2, <1>9 DEF ExhaustWrite
<1>10. QED
  BY <1>1, <1>3, <1>4, <1>5, <1>6, <1>7, <1>8, <1>9 DEF FillAct

\* What a fetch that moves is then about to write, and what it writes.
LEMMA FillActReads ==
    ASSUME TypeOK, NEW f \in Fillers, FillAct(f)
    PROVE  /\ fill'[f].phase = "record" =>
                 UNCHANGED info /\ fill'[f].read = info[fill'[f].cell]
           /\ fill'[f].phase = "exhaust" =>
                 /\ UNCHANGED info
                 /\ Covers(fill'[f].zoom, info[fill'[f].cell].zoom)
<1>1. fill \in [Fillers -> FillState] /\ info \in [Cells -> CellInfo \cup {None}]
  BY DEF TypeOK, FillTypeOK, DiskTypeOK
<1>2. ASSUME NEW c \in Cells, NEW z \in Ranges, FillStart(f, c, z)
      PROVE  fill'[f].phase = "tiles"
  BY <1>1, <1>2 DEF FillStart
<1>3. CASE FillTile(f)
  <2>1. PICK t \in NextTiles(f) : FillTile(f)!(t)
    BY <1>3 DEF FillTile
  <2>2. fill'[f].phase = "tiles"
    BY <1>1, <2>1 DEF FillState
  <2>3. QED BY <2>2
<1>4. CASE FillReadInfo(f)
  <2>1. /\ fill'[f].phase = "record"
        /\ fill'[f].read = info[fill'[f].cell]
        /\ UNCHANGED info
    BY <1>1, <1>4 DEF FillReadInfo, FillState, diskVars
  <2>2. QED BY <2>1
<1>5. CASE FillRecord(f)
  <2>1. fill'[f].phase = "widen"
    BY <1>1, <1>5 DEF FillRecord, FillState
  <2>2. QED BY <2>1
<1>6. CASE FillMissesInfo(f) \/ FillWiden(f) \/ FillFail(f) \/ ExhaustWrite(f)
  <2>1. fill'[f].phase \in {"idle", "overwrite"}
    BY <1>1, <1>6 DEF FillMissesInfo, FillWiden, FillFail, ExhaustWrite, NoFill,
       FillState
  <2>2. QED BY <2>1
<1>7. ASSUME NEW c \in Cells, NEW through \in CellZoom..MaxZoom,
             ExhaustRead(f, c, through)
      PROVE  /\ fill'[f].phase = "exhaust"
             /\ Covers(fill'[f].zoom, info[fill'[f].cell].zoom)
             /\ UNCHANGED info
  <2>1. /\ fill'[f].phase = "exhaust"
        /\ fill'[f].cell = c
        /\ fill'[f].zoom = [min |-> info[c].zoom.min, max |-> through]
    BY <1>1, <1>7 DEF ExhaustRead
  <2>2. info[c] \in CellInfo /\ info[c].zoom.max < through
    BY <1>1, <1>7 DEF ExhaustRead
  <2>3. Covers([min |-> info[c].zoom.min, max |-> through], info[c].zoom)
    BY <2>2, RangesAssumption, TilesAssumption DEF Covers, CellInfo, ZoomRange
  <2>4. QED BY <1>7, <2>1, <2>3 DEF ExhaustRead, diskVars
<1>8. QED
  BY <1>2, <1>3, <1>4, <1>5, <1>6, <1>7 DEF FillAct

\* A fetch has no touch beside it, when it begins and while it goes on.
LEMMA FillsAreApart ==
    ASSUME FillsApart, ~HoldBesideFill, FillStep
    PROVE  NobodyTouches /\ UNCHANGED <<hold, ev>>
BY DEF FillsApart, NobodyFills, MayFill, FillStep, FillStart, FillTile,
   FillReadInfo, FillMissesInfo, FillRecord, FillWiden, FillFail, ExhaustRead,
   ExhaustWrite

\* What DeeperAnswerKept says of a step.
RangesKept ==
    \A c \in Cells : info[c] # None /\ info'[c] # None
        => \/ Covers(info'[c].zoom, info[c].zoom)
           \/ \E f \in Fillers : WritesOver(f, c)

LEMMA SameRanges ==
    ASSUME TypeOK, \A c \in Cells : info'[c] \in {info[c], None}
    PROVE  RangesKept
BY CoversItself DEF RangesKept, TypeOK, DiskTypeOK, CellInfo, SliceRange

\* What a fetch writes covers what was there.
LEMMA FillKeepsRanges ==
    ASSUME DeeperInv, NEW f \in Fillers, FillAct(f), FillStep
    PROVE  RangesKept
<1>1. TypeOK /\ info \in [Cells -> CellInfo \cup {None}]
  BY DEF DeeperInv, TypeOK, DiskTypeOK
<1>2. CASE FillRecord(f) /\ fill[f].phase = "record"
  <2>1. PICK c \in Cells : c = fill[f].cell
    BY <1>1, <1>2, FillWas DEF FillRecord
  <2>2. DEFINE i == [zoom |-> RecordedZoom(fill[f].zoom, fill[f].read),
                     used |-> time]
  <2>3. info' = [info EXCEPT ![c] = i]
    BY <1>2, <2>1 DEF FillRecord
  <2>4. ASSUME info[c] # None
        PROVE  Covers(i.zoom, info[c].zoom)
    <3>1. fill[f].read = info[c]
      BY <1>2, <2>1, <2>4 DEF DeeperInv, FillsCover, FillRecord
    <3>2. i.zoom = UnionOf(fill[f].zoom, info[c].zoom)
      BY <2>4, <3>1 DEF RecordedZoom
    <3>3. fill[f].zoom \in SliceRange /\ info[c].zoom \in SliceRange
      BY <1>1, <2>4 DEF TypeOK, FillTypeOK, FillState, CellInfo, SliceRange
    <3>4. QED BY <3>2, <3>3, UnionCovers
  <2> HIDE DEF i
  <2>5. QED
    BY <1>1, <2>3, <2>4, CoversItself DEF RangesKept, CellInfo, SliceRange
<1>6. CASE FillRecord(f) /\ fill[f].phase = "overwrite"
  <2>1. PICK c \in Cells : c = fill[f].cell
    BY <1>1, <1>6, FillWas DEF FillRecord
  <2>2. DEFINE i == [zoom |-> RecordedZoom(fill[f].zoom, fill[f].read),
                     used |-> time]
  <2>3. info' = [info EXCEPT ![c] = i]
    BY <1>6, <2>1 DEF FillRecord
  <2>4. i.zoom = fill[f].zoom
    BY <1>1, <1>6 DEF RecordedZoom, TypeOK, FillTypeOK
  <2> HIDE DEF i
  <2>5. info'[c].zoom = fill[f].zoom
    BY <1>1, <2>3, <2>4
  <2>6. fill'[f].phase = "widen"
    BY <1>1, <1>6 DEF FillRecord, TypeOK, FillTypeOK, FillState
  <2>7. WritesOver(f, c)
    BY <1>6, <2>1, <2>5, <2>6 DEF WritesOver
  <2>8. ASSUME NEW d \in Cells, d # c, info[d] # None
        PROVE  Covers(info'[d].zoom, info[d].zoom)
    BY <1>1, <2>3, <2>8, CoversItself DEF CellInfo, SliceRange
  <2>9. QED BY <2>7, <2>8 DEF RangesKept
<1>3. CASE ExhaustWrite(f)
  <2>1. PICK c \in Cells : c = fill[f].cell
    BY <1>1, <1>3, FillWas DEF ExhaustWrite
  <2>2. DEFINE i == [zoom |-> fill[f].zoom, used |-> fill[f].read.used]
  <2>3. info' = [info EXCEPT ![c] = i]
    BY <1>3, <2>1 DEF ExhaustWrite
  <2>4. ASSUME info[c] # None
        PROVE  Covers(i.zoom, info[c].zoom)
    BY <1>3, <2>1, <2>4 DEF DeeperInv, FillsCover, ExhaustWrite
  <2> HIDE DEF i
  <2>5. QED
    BY <1>1, <2>3, <2>4, CoversItself DEF RangesKept, CellInfo, SliceRange
<1>4. CASE ~FillRecord(f) /\ ~ExhaustWrite(f)
  <2>1. UNCHANGED info
    BY <1>4 DEF FillAct, FillStart, FillTile, FillReadInfo, FillMissesInfo,
       FillWiden, FillFail, ExhaustRead, diskVars
  <2>2. QED BY <1>1, <2>1, SameRanges
<1>5. QED BY <1>2, <1>3, <1>4, <1>6 DEF FillRecord

LEMMA FillStepDeeper ==
    ASSUME DeeperInv, OneFetchPerCell, ~HoldBesideFill, FillStep
    PROVE  FillsApart' /\ FillsCover' /\ TouchesAgree' /\ RangesKept
<1>1. TypeOK
  BY DEF DeeperInv
<1>2. PICK f \in Fillers :
        /\ FillAct(f)
        /\ \A g \in Fillers \ {f} : fill'[g] = fill[g]
        /\ \A c \in Cells : info'[c] = info[c] \/ c = fill[f].cell
  BY <1>1, OneFills
<1>3. NobodyTouches /\ UNCHANGED <<hold, ev>>
  BY FillsAreApart DEF DeeperInv
<1>4. FillsApart' /\ TouchesAgree'
  BY <1>3 DEF FillsApart, NobodyTouches, TouchesAgree
<1>5. FillsCover'
  <2> SUFFICES ASSUME NEW g \in Fillers, fill'[g].phase # "idle",
                      info'[fill'[g].cell] # None,
                      fill'[g].phase \in {"record", "exhaust"}
               PROVE  /\ fill'[g].phase = "record" =>
                            fill'[g].read = info'[fill'[g].cell]
                      /\ fill'[g].phase = "exhaust" =>
                            Covers(fill'[g].zoom, info'[fill'[g].cell].zoom)
    BY DEF FillsCover
  <2>1. CASE g = f
    BY <1>1, <1>2, <2>1, FillActReads DEF DeeperInv
  <2>2. CASE g # f
    <3>1. fill'[g] = fill[g] /\ fill[g].cell \in Cells
      BY <1>1, <1>2, <2>2, FillWas
    <3>2. info'[fill[g].cell] = info[fill[g].cell]
      <4>1. CASE fill[f].phase = "idle"
        BY <1>1, <1>2, <3>1, <4>1, FillWas, NoneAssumption DEF FillOK
      <4>2. CASE fill[f].phase # "idle"
        BY <1>2, <2>2, <3>1, <4>2 DEF OneFetchPerCell
      <4>3. QED BY <4>1, <4>2
    <3>3. QED BY <3>1, <3>2 DEF DeeperInv, FillsCover
  <2>3. QED BY <2>1, <2>2
<1>6. QED BY <1>2, <1>4, <1>5, FillKeepsRanges

\* One render takes a step.
HoldAct(r) ==
    \/ \E C \in (SUBSET Cells) \ {{}} : HoldClaim(r, C)
    \/ TouchDue(r)
    \/ \E c \in Cells : TouchRead(r, c)
    \/ \E c \in Cells : TouchNone(r, c)
    \/ TouchWrite(r)
    \/ \E c \in Cells : TouchFail(r, c)
    \/ HoldReturn(r)
    \/ Release(r)

\* Of the renders one moves, and leaves every fetch and eviction alone.
LEMMA OneDraws ==
    ASSUME TypeOK, HoldStep
    PROVE  /\ UNCHANGED <<tiles, fill, ev, time>>
           /\ \E r \in Renders :
                 HoldAct(r) /\ \A q \in Renders \ {r} : hold'[q] = hold[q]
<1>1. PICK r \in Renders : HoldAct(r)
  BY DEF HoldStep, HoldAct
<1>2. hold \in [Renders -> HoldState]
  BY DEF TypeOK, HoldTypeOK
<1>3. UNCHANGED <<tiles, fill, ev, time>>
  BY <1>1 DEF HoldAct, HoldClaim, TouchDue, TouchRead, TouchNone, TouchWrite,
     TouchFail, HoldReturn, Release, diskVars
<1>4. \A q \in Renders \ {r} : hold'[q] = hold[q]
  <2>1. CASE \E c \in Cells : TouchRead(r, c)
    BY <1>2, <2>1 DEF TouchRead
  <2>2. CASE \E c \in Cells : TouchFail(r, c)
    BY <1>2, <2>2 DEF TouchFail
  <2>3. CASE TouchWrite(r)
    BY <1>2, <2>3 DEF TouchWrite
  <2>4. CASE \/ \E C \in (SUBSET Cells) \ {{}} : HoldClaim(r, C)
             \/ TouchDue(r)
             \/ \E c \in Cells : TouchNone(r, c)
             \/ HoldReturn(r)
             \/ Release(r)
    BY <1>2, <2>4 DEF HoldClaim, TouchDue, TouchNone, HoldReturn, Release
  <2>5. QED BY <1>1, <2>1, <2>2, <2>3, <2>4 DEF HoldAct
<1>5. QED BY <1>1, <1>3, <1>4

\* A render's step reads a cell.json, or writes back one it read, or neither.
LEMMA HoldActReads ==
    ASSUME TypeOK, NEW r \in Renders, HoldAct(r)
    PROVE  \/ /\ hold'[r].phase # "writing"
              /\ UNCHANGED <<info, mtime>>
           \/ \E c \in Cells :
                /\ TouchRead(r, c)
                /\ hold'[r].phase = "writing"
                /\ hold'[r].cell = c
                /\ hold'[r].read = info[c]
                /\ hold'[r].now = hold[r].now
                /\ hold'[r].cells = hold[r].cells
                /\ UNCHANGED <<info, mtime>>
           \/ /\ TouchWrite(r)
              /\ hold[r].cell \in Cells
              /\ hold[r].cell \in hold[r].cells
              /\ hold[r].read \in CellInfo
              /\ hold'[r].phase = "touching"
              /\ info' = [info EXCEPT ![hold[r].cell] =
                            [zoom |-> hold[r].read.zoom, used |-> hold[r].now]]
              /\ mtime' = [mtime EXCEPT ![hold[r].cell] = time]
<1>1. hold \in [Renders -> HoldState]
  BY DEF TypeOK, HoldTypeOK
<1>2. CASE TouchWrite(r)
  <2>1. /\ hold[r].cell \in Cells
        /\ hold[r].cell \in hold[r].cells
        /\ hold[r].read \in CellInfo
    BY <1>2, HoldWas DEF TouchWrite, HoldOK, HoldState
  <2>2. DEFINE x == [hold[r] EXCEPT !.phase = "touching",
                        !.due = @ \ {hold[r].cell}, !.cell = None, !.read = None]
  <2>3. x.phase = "touching"
    BY <1>1 DEF HoldState
  <2>4. hold' = [hold EXCEPT ![r] = x]
    BY <1>2 DEF TouchWrite
  <2> HIDE DEF x
  <2>5. hold'[r].phase = "touching"
    BY <1>1, <2>3, <2>4
  <2>6. QED BY <1>2, <2>1, <2>5 DEF TouchWrite
<1>3. CASE \E c \in Cells : TouchRead(r, c)
  <2>1. PICK c \in Cells : TouchRead(r, c)
    BY <1>3
  <2>2. DEFINE x == [hold[r] EXCEPT !.phase = "writing", !.cell = c,
                                    !.read = info[c]]
  <2>3. /\ x.phase = "writing" /\ x.cell = c /\ x.read = info[c]
        /\ x.now = hold[r].now /\ x.cells = hold[r].cells
    BY <1>1 DEF HoldState
  <2>4. hold' = [hold EXCEPT ![r] = x]
    BY <2>1 DEF TouchRead
  <2> HIDE DEF x
  <2>5. hold'[r] = x
    BY <1>1, <2>4
  <2>6. UNCHANGED <<info, mtime>>
    BY <2>1 DEF TouchRead, diskVars
  <2>7. QED BY <2>1, <2>3, <2>5, <2>6
<1>4. CASE \E c \in Cells : TouchFail(r, c)
  <2>1. PICK c \in Cells : TouchFail(r, c)
    BY <1>4
  <2>2. DEFINE x == [hold[r] EXCEPT !.phase = "touching", !.due = @ \ {c},
                                    !.cell = None, !.read = None]
  <2>3. x.phase = "touching"
    BY <1>1 DEF HoldState
  <2>4. hold' = [hold EXCEPT ![r] = x]
    BY <2>1 DEF TouchFail
  <2> HIDE DEF x
  <2>5. hold'[r].phase = "touching"
    BY <1>1, <2>3, <2>4
  <2>6. UNCHANGED <<info, mtime>>
    BY <2>1 DEF TouchFail, diskVars
  <2>7. QED BY <2>5, <2>6
<1>5. CASE \/ \E C \in (SUBSET Cells) \ {{}} : HoldClaim(r, C)
           \/ TouchDue(r)
           \/ \E c \in Cells : TouchNone(r, c)
           \/ HoldReturn(r)
           \/ Release(r)
  <2>1. UNCHANGED <<info, mtime>>
    BY <1>5 DEF HoldClaim, TouchDue, TouchNone, HoldReturn, Release, diskVars
  <2>2. CASE \E C \in (SUBSET Cells) \ {{}} : HoldClaim(r, C)
    BY <1>1, <2>1, <2>2 DEF HoldClaim
  <2>3. CASE TouchDue(r)
    BY <1>1, <2>1, <2>3 DEF TouchDue, HoldState
  <2>4. CASE \E c \in Cells : TouchNone(r, c)
    BY <1>1, <2>1, <2>4 DEF TouchNone, HoldState
  <2>5. CASE HoldReturn(r) \/ Release(r)
    BY <1>1, <2>1, <2>5 DEF HoldReturn, Release, HoldState
  <2>6. QED BY <1>5, <2>2, <2>3, <2>4, <2>5
<1>6. QED
  BY <1>2, <1>3, <1>4, <1>5 DEF HoldAct

\* A touch has no fetch beside it, when it begins and while it goes on.
LEMMA TouchesAreApart ==
    ASSUME TypeOK, FillsApart, ~HoldBesideFill, NEW r \in Renders, HoldAct(r),
           \A q \in Renders \ {r} : hold'[q] = hold[q], UNCHANGED fill
    PROVE  /\ FillsApart'
           /\ NobodyFills \/ UNCHANGED info
<1>1. CASE Release(r)
  <2>1. hold'[r].phase = "released"
    BY <1>1 DEF Release, TypeOK, HoldTypeOK, HoldState
  <2>2. QED
    BY <1>1, <2>1 DEF Release, FillsApart, NobodyFills, NobodyTouches, diskVars
<1>2. CASE ~Release(r)
  <2>1. NobodyFills
    BY <1>2 DEF HoldAct, FillsApart, NobodyTouches, HoldClaim, TouchDue,
       TouchRead, TouchNone, TouchWrite, TouchFail, HoldReturn
  <2>2. QED BY <2>1 DEF FillsApart, NobodyFills
<1>3. QED BY <1>1, <1>2

LEMMA HoldStepDeeper ==
    ASSUME DeeperInv, ~HoldBesideFill, HoldStep
    PROVE  FillsApart' /\ FillsCover' /\ TouchesAgree' /\ RangesKept
<1>1. TypeOK /\ info \in [Cells -> CellInfo \cup {None}]
  BY DEF DeeperInv, TypeOK, DiskTypeOK
<1>2. PICK r \in Renders :
        HoldAct(r) /\ \A q \in Renders \ {r} : hold'[q] = hold[q]
  BY <1>1, OneDraws
<1>3. UNCHANGED fill
  BY <1>1, OneDraws
<1>4. FillsApart' /\ (NobodyFills \/ UNCHANGED info)
  BY <1>1, <1>2, <1>3, TouchesAreApart DEF DeeperInv
<1>5. FillsCover'
  BY <1>3, <1>4 DEF DeeperInv, FillsCover, NobodyFills
<1>6. CASE hold'[r].phase # "writing" /\ UNCHANGED info
  <2>1. TouchesAgree'
    BY <1>2, <1>6 DEF DeeperInv, TouchesAgree
  <2>2. QED BY <1>1, <1>4, <1>5, <1>6, <2>1, SameRanges
<1>7. ASSUME NEW c \in Cells, TouchRead(r, c), hold'[r].phase = "writing",
             hold'[r].cell = c, hold'[r].read = info[c], UNCHANGED info
      PROVE  TouchesAgree' /\ RangesKept
  <2>1. info[c] # None
    BY <1>7 DEF TouchRead
  <2>2. \A q \in Renders \ {r} :
           hold'[q].phase = "writing" /\ hold'[q].cell = c
           => hold'[q].read.zoom = info[c].zoom
    BY <1>2, <2>1 DEF DeeperInv, TouchesAgree
  <2>3. TouchesAgree'
    BY <1>2, <1>7, <2>2 DEF DeeperInv, TouchesAgree
  <2>4. QED BY <1>1, <1>7, <2>3, SameRanges
<1>8. ASSUME NEW c \in Cells, c = hold[r].cell, hold[r].read \in CellInfo,
             hold[r].phase = "writing", hold'[r].phase = "touching",
             info' = [info EXCEPT ![c] = [zoom |-> hold[r].read.zoom,
                                          used |-> hold[r].now]]
      PROVE  TouchesAgree' /\ RangesKept
  <2>1. info'[c].zoom = hold[r].read.zoom
    BY <1>1, <1>8
  <2>2. \A d \in Cells \ {c} : info'[d] = info[d]
    BY <1>1, <1>8
  <2>3. TouchesAgree'
    <3> SUFFICES ASSUME NEW q \in Renders, hold'[q].phase = "writing"
                 PROVE  /\ info'[hold'[q].cell] # None =>
                              info'[hold'[q].cell].zoom = hold'[q].read.zoom
                        /\ \A p \in Renders :
                              hold'[p].phase = "writing" /\ hold'[p].cell = hold'[q].cell
                              => hold'[p].read.zoom = hold'[q].read.zoom
      BY DEF TouchesAgree
    <3>1. q # r /\ hold'[q] = hold[q]
      BY <1>2, <1>8
    <3>2. hold[q].cell \in Cells
      BY <1>1, <3>1, HoldWas DEF HoldOK, HoldState
    <3>3. \A p \in Renders : hold'[p].phase = "writing" => hold'[p] = hold[p]
      BY <1>2, <1>8
    <3>4. QED
      BY <1>8, <2>1, <2>2, <3>1, <3>2, <3>3 DEF DeeperInv, TouchesAgree
  <2>4. info[c] # None => info[c].zoom = hold[r].read.zoom
    BY <1>8 DEF DeeperInv, TouchesAgree
  <2>5. RangesKept
    <3>1. ASSUME NEW d \in Cells, info[d] # None, info'[d] # None
          PROVE  Covers(info'[d].zoom, info[d].zoom)
      <4>1. info'[d].zoom = info[d].zoom
        BY <2>1, <2>2, <2>4, <3>1
      <4>2. info[d].zoom \in SliceRange
        BY <1>1, <3>1 DEF CellInfo, SliceRange
      <4>3. QED BY <4>1, <4>2, CoversItself
    <3>2. QED BY <3>1 DEF RangesKept
  <2>6. QED BY <2>3, <2>5
<1>9. QED
  BY <1>1, <1>2, <1>4, <1>5, <1>6, <1>7, <1>8, HoldActReads DEF TouchWrite

\* A step that makes nothing but a cell.json go, and calls end.
LEMMA OtherStepDeeper ==
    ASSUME DeeperInv,
           \A c \in Cells : info'[c] \in {info[c], None},
           \A f \in Fillers : fill'[f] \in {fill[f], NoFill},
           \A r \in Renders : hold'[r] \in {hold[r], NoHold}
    PROVE  FillsApart' /\ FillsCover' /\ TouchesAgree' /\ RangesKept
<1>1. TypeOK
  BY DEF DeeperInv
<1>2. FillsApart'
  BY DEF DeeperInv, FillsApart, NobodyFills, NobodyTouches, NoFill, NoHold
<1>3. FillsCover'
  <2> SUFFICES ASSUME NEW f \in Fillers, fill'[f].phase # "idle",
                      info'[fill'[f].cell] # None
               PROVE  /\ fill'[f].phase = "record" =>
                            fill'[f].read = info'[fill'[f].cell]
                      /\ fill'[f].phase = "exhaust" =>
                            Covers(fill'[f].zoom, info'[fill'[f].cell].zoom)
    BY DEF FillsCover
  <2>1. fill'[f] = fill[f]
    BY DEF NoFill
  <2>2. info'[fill[f].cell] = info[fill[f].cell]
    BY <1>1, <2>1, FillWas
  <2>3. QED BY <2>1, <2>2 DEF DeeperInv, FillsCover
<1>4. TouchesAgree'
  <2>1. ASSUME NEW r \in Renders, hold'[r].phase = "writing"
        PROVE  /\ hold'[r] = hold[r]
               /\ hold[r].cell \in Cells
    BY <1>1, <2>1, HoldWas DEF NoHold, HoldOK, HoldState
  <2>2. ASSUME NEW r \in Renders, hold'[r].phase = "writing",
               info'[hold'[r].cell] # None
        PROVE  info'[hold'[r].cell] = info[hold[r].cell]
    BY <2>1, <2>2
  <2>3. QED
    BY <2>1, <2>2 DEF DeeperInv, TouchesAgree
<1>5. QED BY <1>1, <1>2, <1>3, <1>4, SameRanges

\* An eviction makes the cell.json of its victim go, and no other.
LEMMA EvictTakesInfos ==
    ASSUME TypeOK, EvictStep
    PROVE  /\ \A c \in Cells : info'[c] \in {info[c], None}
           /\ UNCHANGED <<fill, hold>>
<1>1. PICK d \in Evictors : EvictAct(d)
  BY OneEvicts
<1>2. UNCHANGED <<fill, hold>>
  BY <1>1 DEF EvictAct, EvictStart, EvictMeasure, EvictMeasured, EvictList,
     EvictGiveUp, EvictLock, EvictSkip, EvictTake, EvictUnlink, EvictRemoved,
     EvictReturn, EvictNotEmpty, EvictFail
<1>3. CASE EvictUnlink(d)
  BY <1>2, <1>3 DEF EvictUnlink, TypeOK, DiskTypeOK
<1>4. CASE ~EvictUnlink(d)
  BY <1>1, <1>2, <1>4, OnlyUnlinkTakes
<1>5. QED BY <1>2, <1>3, <1>4

LEMMA NextDeeper ==
    ASSUME DeeperInv, OneFetchPerCell, ~HoldBesideFill, [Next]_vars
    PROVE  DeeperInv' /\ RangesKept
<1>1. TypeOK /\ TypeOK'
  BY NextTyped DEF DeeperInv
<1>2. CASE EvictStep
  BY <1>1, <1>2, EvictTakesInfos, OtherStepDeeper DEF DeeperInv
<1>3. CASE (\E s \in Stores : Kill(s)) \/ ManifestStep \/ Tick \/ UNCHANGED vars
  <2>1. /\ \A c \in Cells : info'[c] \in {info[c], None}
        /\ \A f \in Fillers : fill'[f] \in {fill[f], NoFill}
        /\ \A r \in Renders : hold'[r] \in {hold[r], NoHold}
    BY <1>3 DEF Kill, ManifestStep, Tick, vars, sliceVars, diskVars
  <2>2. QED BY <1>1, <2>1, OtherStepDeeper DEF DeeperInv
<1>4. QED
  BY <1>1, <1>2, <1>3, FillStepDeeper, HoldStepDeeper DEF Next, DeeperInv

\* The range a cell.json records never shrinks while the file is there, whoever
\* writes it, evictions and other processes beside it, where no Hold falls into
\* an acquisition and no two fetches are on one cell (fill.go, Fill and
\* Exhaust; source.go, touch).
THEOREM DeeperAnswersAreKept ==
    ASSUME ~HoldBesideFill
    PROVE  Spec /\ []OneFetchPerCell => DeeperAnswerKept
<1>1. Init => DeeperInv
  BY InitTyped DEF Init, DeeperInv, FillsApart, NobodyFills, FillsCover,
     TouchesAgree, NoFill, NoHold
<1>2. DeeperInv /\ OneFetchPerCell /\ [Next]_vars => DeeperInv' /\ RangesKept
  BY NextDeeper
<1>3. RangesKept =>
        [\A c \in Cells : info[c] # None /\ info'[c] # None
            => \/ Covers(info'[c].zoom, info[c].zoom)
               \/ \E f \in Fillers : WritesOver(f, c)]_vars
  BY DEF RangesKept
<1>4. QED
  BY <1>1, <1>2, <1>3, PTL DEF Spec, DeeperAnswerKept

-----------------------------------------------------------------------------
(***************************************************************************)
(* Only while over the budget.  The files an eviction has counted and not  *)
(* yet taken away are all still there: they are a witness for its running  *)
(* total, which is why the total is never above what the disk holds.       *)
(***************************************************************************)

Removes(e, c) == ev[e].phase = "remove" /\ ev[e].victim.cell = c

\* The pairs of T that are of cell c.
OfCell(T, c) == {p \in T : p[1] = c}

\* The tiles T and the cell.json files of I are files that eviction e has
\* counted: all of its total, none of a directory it has yet to come to, of each
\* candidate no more than was listed, and but for its victim's still there.
Counted(e, T, I) ==
    /\ ev[e].after <= Cardinality(T) + Cardinality(I)
    /\ \A c \in Cells : ~Removes(e, c) =>
          /\ \A p \in OfCell(T, c) : p[2] \in tiles[c]
          /\ c \in I => info[c] # None
    /\ ev[e].phase = "measure" =>
          /\ ev[e].cands = {}
          /\ I \cap ev[e].left = {}
          /\ \A p \in T : p[1] \notin ev[e].left
    /\ \A v \in ev[e].cands :
          Cardinality(OfCell(T, v.cell)) + Cardinality(I \cap {v.cell})
             <= v.bytes

TotalsAreCounted ==
    \A e \in Evictors : ev[e].phase # "idle" =>
        \E T \in SUBSET (Cells \X Tiles), I \in SUBSET Cells : Counted(e, T, I)

\* Two evictions at a time would each count what the other takes away.
OneEvictor == \A d, e \in Evictors : d = e

LEMMA CountedIsFinite ==
    ASSUME NEW T \in SUBSET (Cells \X Tiles), NEW I \in SUBSET Cells, NEW c
    PROVE  /\ IsFiniteSet(T) /\ Cardinality(T) \in Nat
           /\ IsFiniteSet(I) /\ Cardinality(I) \in Nat
           /\ IsFiniteSet(OfCell(T, c)) /\ Cardinality(OfCell(T, c)) \in Nat
           /\ IsFiniteSet(I \cap {c}) /\ Cardinality(I \cap {c}) \in Nat
<1>1. IsFiniteSet(Cells \X Tiles) /\ IsFiniteSet(Cells)
  BY FS_Product, TilesAssumption
<1>2. IsFiniteSet(T) /\ IsFiniteSet(I)
  BY <1>1, FS_Subset
<1>3. OfCell(T, c) \subseteq T /\ I \cap {c} \subseteq I
  BY DEF OfCell
<1>4. IsFiniteSet(OfCell(T, c)) /\ IsFiniteSet(I \cap {c})
  BY <1>2, <1>3, FS_Subset
<1>5. QED
  BY <1>2, <1>4, FS_CardinalityType

\* A cell's tiles, paired with it, are as many as they were.
LEMMA PairedTiles ==
    ASSUME NEW c, NEW S \in SUBSET Tiles
    PROVE  /\ IsFiniteSet({c} \X S)
           /\ Cardinality({c} \X S) = Cardinality(S)
           /\ Cardinality(S) \in Nat
<1>1. IsFiniteSet(S)
  BY FS_Subset, TilesAssumption
<1>2. Cardinality(S) \in Nat
  BY <1>1, FS_CardinalityType
<1>3. IsFiniteSet({c}) /\ Cardinality({c}) = 1
  BY FS_Singleton
<1>4. /\ IsFiniteSet({c} \X S)
      /\ Cardinality({c} \X S) = Cardinality({c}) * Cardinality(S)
  BY <1>1, <1>3, FS_Product
<1>5. QED
  BY <1>1, <1>2, <1>3, <1>4

LEMMA StartIsCounted ==
    ASSUME TypeOK, NEW e \in Evictors, NEW b \in Budgets, EvictStart(e, b)
    PROVE  Counted(e, {}, {})'
<1>1. /\ ev'[e].phase = "measure"
      /\ ev'[e].after = 0
      /\ ev'[e].cands = {}
  BY DEF EvictStart, NoEvict, TypeOK, EvictTypeOK
<1>2. Cardinality({}) = 0
  BY FS_EmptySet
<1>3. QED
  BY <1>1, <1>2 DEF Counted, OfCell

\* A directory is measured: all of its files are counted.
LEMMA MeasureIsCounted ==
    ASSUME TypeOK, NEW e \in Evictors, EvictMeasure(e),
           NEW T \in SUBSET (Cells \X Tiles), NEW I \in SUBSET Cells,
           Counted(e, T, I)
    PROVE  \E U \in SUBSET (Cells \X Tiles), J \in SUBSET Cells :
              Counted(e, U, J)'
<1>1. PICK c \in First(ev[e].left) : EvictMeasure(e)!(c)
  BY DEF EvictMeasure
<1>2. c \in Cells /\ c \in ev[e].left
  BY <1>1, EvictFields DEF First
<1>3. /\ ev'[e].phase = "measure"
      /\ ev'[e].cands = ev[e].cands
      /\ ev'[e].left = ev[e].left \ {c}
      /\ ev'[e].after = ev[e].after + CellBytes(c)
      /\ ev[e].phase = "measure"
  BY <1>1 DEF EvictState, TypeOK, EvictTypeOK
<1>4. UNCHANGED <<tiles, info>>
  BY <1>1 DEF diskVars
<1>5. tiles[c] \in SUBSET Tiles
  BY <1>2 DEF TypeOK, DiskTypeOK
<1> DEFINE P == {c} \X tiles[c]
<1>16. PICK U \in SUBSET (Cells \X Tiles) : U = T \cup P
  BY <1>2, <1>5
<1>17. PICK J \in SUBSET Cells : J = IF info[c] = None THEN I ELSE I \cup {c}
  BY <1>2
<1>7. T \cap P = {} /\ c \notin I
  BY <1>2, <1>3 DEF Counted
<1>8. Cardinality(U) = Cardinality(T) + Cardinality(tiles[c])
  <2>1. IsFiniteSet(P) /\ Cardinality(P) = Cardinality(tiles[c])
    BY <1>5, PairedTiles
  <2>2. IsFiniteSet(T) /\ Cardinality(T) \in Nat
    BY CountedIsFinite
  <2>3. Cardinality(T \cup P) =
           Cardinality(T) + Cardinality(P) - Cardinality(T \cap P)
    BY <2>1, <2>2, FS_Union
  <2>4. Cardinality(T \cap P) = 0 /\ Cardinality(tiles[c]) \in Nat
    BY <1>5, <1>7, FS_EmptySet, PairedTiles
  <2>5. QED BY <1>16, <2>1, <2>2, <2>3, <2>4
<1>9. Cardinality(J) = Cardinality(I) + (IF info[c] = None THEN 0 ELSE 1)
  <2>1. IsFiniteSet(I) /\ Cardinality(I) \in Nat
    BY CountedIsFinite
  <2>2. Cardinality(I \cup {c}) = Cardinality(I) + 1
    BY <1>7, <2>1, FS_AddElement
  <2>3. QED BY <1>17, <2>1, <2>2
<1>10. ev'[e].after <= Cardinality(U) + Cardinality(J)
  <2>1. ev[e].after <= Cardinality(T) + Cardinality(I) /\ ev[e].after \in Int
    BY EvictFields DEF Counted
  <2>2. /\ Cardinality(T) \in Nat /\ Cardinality(I) \in Nat
        /\ Cardinality(tiles[c]) \in Nat
    BY <1>5, CountedIsFinite, PairedTiles
  <2>3. ev'[e].after = ev[e].after + (Cardinality(tiles[c])
                          + (IF info[c] = None THEN 0 ELSE 1))
    BY <1>3 DEF CellBytes
  <2>4. QED BY <1>8, <1>9, <2>1, <2>2, <2>3
<1>11. \A d \in Cells :
          /\ \A p \in OfCell(U, d) : p[2] \in tiles[d]
          /\ d \in J => info[d] # None
  BY <1>3, <1>16, <1>17 DEF Counted, OfCell, Removes
<1>12. J \cap ev'[e].left = {} /\ \A p \in U : p[1] \notin ev'[e].left
  BY <1>3, <1>16, <1>17 DEF Counted
<1>13. ev'[e].cands = {}
  BY <1>3 DEF Counted
<1>14. Counted(e, U, J)'
  BY <1>3, <1>4, <1>10, <1>11, <1>12, <1>13 DEF Counted, Removes, OfCell
<1>15. QED BY <1>14

\* A directory is listed: it has all that was counted of it.
LEMMA ListIsCounted ==
    ASSUME TypeOK, NEW e \in Evictors, EvictList(e),
           NEW T \in SUBSET (Cells \X Tiles), NEW I \in SUBSET Cells,
           Counted(e, T, I)
    PROVE  Counted(e, T, I)'
<1>1. PICK c \in First(ev[e].left) : EvictList(e)!(c)
  BY DEF EvictList
<1>2. c \in Cells
  BY <1>1, EvictFields DEF First
<1> DEFINE v == [cell |-> c, used |-> ClockOf(c), bytes |-> CellBytes(c)]
<1>3. v.cell = c /\ v.bytes = CellBytes(c)
  OBVIOUS
<1> HIDE DEF v
<1>4. /\ ev'[e].phase = "list"
      /\ ev'[e].cands = ev[e].cands \cup {v}
      /\ ev'[e].after = ev[e].after
      /\ ev[e].phase = "list"
  BY <1>1 DEF v, EvictState, TypeOK, EvictTypeOK
<1>5. UNCHANGED <<tiles, info>>
  BY <1>1 DEF diskVars
<1>6. tiles[c] \in SUBSET Tiles
  BY <1>2 DEF TypeOK, DiskTypeOK
<1>7. OfCell(T, c) \subseteq {c} \X tiles[c]
  BY <1>2, <1>4 DEF Counted, OfCell, Removes
<1>8. Cardinality(OfCell(T, c)) <= Cardinality(tiles[c])
  <2>1. IsFiniteSet({c} \X tiles[c])
    BY <1>6, PairedTiles
  <2>2. OfCell(T, c) \in SUBSET ({c} \X tiles[c])
    BY <1>7
  <2>3. Cardinality(OfCell(T, c)) <= Cardinality({c} \X tiles[c])
    BY <2>1, <2>2, FS_Subset
  <2>4. QED BY <1>6, <2>3, PairedTiles
<1>9. Cardinality(I \cap {c}) <= IF info[c] = None THEN 0 ELSE 1
  <2>1. CASE c \in I
    <3>1. I \cap {c} = {c} /\ info[c] # None
      BY <1>2, <1>4, <2>1 DEF Counted, Removes
    <3>2. Cardinality({c}) = 1
      BY FS_Singleton
    <3>3. QED BY <3>1, <3>2
  <2>2. CASE c \notin I
    <3>1. I \cap {c} = {}
      BY <2>2
    <3>2. QED BY <3>1, FS_EmptySet
  <2>3. QED BY <2>1, <2>2
<1>10. Cardinality(OfCell(T, v.cell)) + Cardinality(I \cap {v.cell}) <= v.bytes
  <2>1. /\ Cardinality(OfCell(T, c)) \in Nat
        /\ Cardinality(I \cap {c}) \in Nat
        /\ Cardinality(tiles[c]) \in Nat
    BY <1>6, CountedIsFinite, PairedTiles
  <2>2. QED
    BY <1>3, <1>8, <1>9, <2>1 DEF CellBytes
<1>11. QED
  BY <1>4, <1>5, <1>10 DEF Counted, Removes, OfCell

\* The victim is gone: what was counted of it goes from the witness, and no
\* more than that from the total.
LEMMA RemovedIsCounted ==
    ASSUME TypeOK, NEW e \in Evictors, EvictRemoved(e),
           ev[e].victim \in ev[e].cands,
           NEW T \in SUBSET (Cells \X Tiles), NEW I \in SUBSET Cells,
           Counted(e, T, I)
    PROVE  \E U \in SUBSET (Cells \X Tiles), J \in SUBSET Cells :
              Counted(e, U, J)'
<1>12. ev[e].victim \in Candidate
  BY EvictFields DEF EvictRemoved
<1>13. PICK v \in Candidate : v = ev[e].victim
  BY <1>12
<1>14. PICK c \in Cells : c = v.cell
  BY DEF Candidate
<1>15. PICK U \in SUBSET (Cells \X Tiles) : U = T \ OfCell(T, c)
  OBVIOUS
<1>16. PICK J \in SUBSET Cells : J = I \ {c}
  OBVIOUS
<1>1. ev[e].phase = "remove" /\ v \in ev[e].cands
  BY <1>13 DEF EvictRemoved
<1>2. /\ ev'[e].phase = "choose"
      /\ ev'[e].cands = ev[e].cands \ {v}
      /\ ev'[e].after = ev[e].after - v.bytes
  BY <1>13 DEF EvictRemoved, EvictState, TypeOK, EvictTypeOK
<1>3. UNCHANGED <<tiles, info>>
  BY DEF EvictRemoved, diskVars
<1>5. Cardinality(U) = Cardinality(T) - Cardinality(OfCell(T, c))
  <2>1. IsFiniteSet(T) /\ T \cap OfCell(T, c) = OfCell(T, c)
    BY CountedIsFinite DEF OfCell
  <2>2. Cardinality(T \ OfCell(T, c)) =
           Cardinality(T) - Cardinality(T \cap OfCell(T, c))
    BY <2>1, FS_Difference
  <2>3. QED BY <1>15, <2>1, <2>2
<1>6. Cardinality(J) = Cardinality(I) - Cardinality(I \cap {c})
  <2>1. IsFiniteSet(I)
    BY CountedIsFinite
  <2>2. QED BY <1>16, <2>1, FS_Difference
<1>7. ev'[e].after <= Cardinality(U) + Cardinality(J)
  <2>1. /\ ev[e].after \in Int /\ v.bytes \in Nat
        /\ ev[e].after <= Cardinality(T) + Cardinality(I)
        /\ Cardinality(OfCell(T, c)) + Cardinality(I \cap {c}) <= v.bytes
    BY <1>1, <1>14, EvictFields DEF Counted, Candidate
  <2>2. /\ Cardinality(T) \in Nat /\ Cardinality(I) \in Nat
        /\ Cardinality(OfCell(T, c)) \in Nat /\ Cardinality(I \cap {c}) \in Nat
    BY CountedIsFinite
  <2>3. QED BY <1>2, <1>5, <1>6, <2>1, <2>2
<1>8. \A d \in Cells :
         /\ \A p \in OfCell(U, d) : p[2] \in tiles[d]
         /\ d \in J => info[d] # None
  BY <1>13, <1>14, <1>15, <1>16 DEF Counted, OfCell, Removes
<1>9. ASSUME NEW w \in ev[e].cands
      PROVE  Cardinality(OfCell(U, w.cell)) + Cardinality(J \cap {w.cell})
                <= w.bytes
  <2>1. OfCell(U, w.cell) \in SUBSET OfCell(T, w.cell)
    BY <1>15 DEF OfCell
  <2>2. J \cap {w.cell} \in SUBSET (I \cap {w.cell})
    BY <1>16
  <2>7. IsFiniteSet(OfCell(T, w.cell)) /\ IsFiniteSet(I \cap {w.cell})
    BY CountedIsFinite
  <2>3. /\ Cardinality(OfCell(U, w.cell)) <= Cardinality(OfCell(T, w.cell))
        /\ Cardinality(OfCell(U, w.cell)) \in Nat
        /\ Cardinality(OfCell(T, w.cell)) \in Nat
    BY <2>1, <2>7, CountedIsFinite, FS_Subset
  <2>4. /\ Cardinality(J \cap {w.cell}) <= Cardinality(I \cap {w.cell})
        /\ Cardinality(J \cap {w.cell}) \in Nat
        /\ Cardinality(I \cap {w.cell}) \in Nat
    BY <2>2, <2>7, CountedIsFinite, FS_Subset
  <2>5. /\ Cardinality(OfCell(T, w.cell)) + Cardinality(I \cap {w.cell}) <= w.bytes
        /\ w.bytes \in Nat
    BY EvictFields DEF Counted, Candidate
  <2>6. QED BY <2>3, <2>4, <2>5
<1>10. Counted(e, U, J)'
  BY <1>2, <1>3, <1>7, <1>8, <1>9 DEF Counted, Removes, OfCell
<1>11. QED BY <1>10

\* A step that takes away no counted file, except of the cell being removed,
\* leaves the witness what it was.
LEMMA CountedStays ==
    ASSUME NEW e \in Evictors,
           NEW T \in SUBSET (Cells \X Tiles), NEW I \in SUBSET Cells,
           Counted(e, T, I),
           ev'[e] = ev[e] \/ ev'[e].phase # "measure",
           ev'[e].after = ev[e].after,
           ev'[e].cands \subseteq ev[e].cands,
           \A c \in Cells : ~Removes(e, c)' =>
              /\ ~Removes(e, c)
              /\ tiles[c] \subseteq tiles'[c]
              /\ info[c] # None => info'[c] # None
    PROVE  Counted(e, T, I)'
<1>1. /\ ev'[e].after <= Cardinality(T) + Cardinality(I)
      /\ \A v \in ev'[e].cands :
            Cardinality(OfCell(T, v.cell)) + Cardinality(I \cap {v.cell})
               <= v.bytes
  BY DEF Counted
<1>2. \A c \in Cells : ~Removes(e, c)' =>
         /\ \A p \in OfCell(T, c) : p[2] \in tiles'[c]
         /\ c \in I => info'[c] # None
  BY DEF Counted
<1>3. ev'[e].phase = "measure" =>
         /\ ev'[e].cands = {}
         /\ I \cap ev'[e].left = {}
         /\ \A p \in T : p[1] \notin ev'[e].left
  BY DEF Counted
<1>4. QED
  BY <1>1, <1>2, <1>3 DEF Counted, OfCell

\* The cell being removed is one of those listed.
VictimsAreListed ==
    \A e \in Evictors : ev[e].phase = "remove" => ev[e].victim \in ev[e].cands

TotalsInv == TypeOK /\ VictimsAreListed /\ TotalsAreCounted

\* What an eviction's own step that is neither a measure, a listing nor the end
\* of a removal does to its locals.
LEMMA OtherEvicts ==
    ASSUME TypeOK, NEW e \in Evictors, EvictAct(e), ev[e].phase # "idle",
           ev'[e].phase # "idle",
           ~EvictMeasure(e), ~EvictList(e), ~EvictRemoved(e)
    PROVE  /\ ev'[e].phase # "measure"
           /\ ev'[e].after = ev[e].after
           /\ ev'[e].cands \subseteq ev[e].cands
           /\ \A c \in Cells : ~Removes(e, c)' =>
                 /\ ~Removes(e, c)
                 /\ tiles'[c] = tiles[c]
                 /\ info'[c] = info[c]
           /\ ev'[e].phase = "remove" /\ ev[e].phase # "remove" =>
                 ev'[e].victim \in ev'[e].cands
           /\ ev'[e].phase = "remove" /\ ev[e].phase = "remove" =>
                 ev'[e].victim = ev[e].victim /\ ev'[e].cands = ev[e].cands
<1>1. /\ ev \in [Evictors -> EvictState]
      /\ ev[e] \in EvictState
      /\ tiles \in [Cells -> SUBSET Tiles]
      /\ info \in [Cells -> CellInfo \cup {None}]
  BY DEF TypeOK, EvictTypeOK, DiskTypeOK
<1>2. CASE EvictMeasured(e)
  <2>1. ev'[e] = [ev[e] EXCEPT !.phase = "list",
                               !.left = {c \in Cells : HasFiles(c)}]
    BY <1>1, <1>2 DEF EvictMeasured, NoEvict
  <2>2. QED
    BY <1>1, <1>2, <2>1 DEF EvictMeasured, EvictState, Removes, diskVars
<1>3. CASE EvictLock(e)
  BY <1>1, <1>3 DEF EvictLock, EvictState, Removes, diskVars
<1>4. CASE EvictSkip(e)
  BY <1>1, <1>4 DEF EvictSkip, EvictState, Removes, diskVars
<1>5. CASE EvictTake(e)
  <2>1. PICK v \in Oldest(ev[e].cands) : EvictTake(e)!(v)
    BY <1>5 DEF EvictTake
  <2>2. /\ ev'[e].phase = "remove"
        /\ ev'[e].victim = v
        /\ ev'[e].cands = ev[e].cands
        /\ ev'[e].after = ev[e].after
        /\ ev[e].phase = "choose"
    BY <1>1, <2>1 DEF RemoveNext, EvictState
  <2>3. v \in ev[e].cands
    BY DEF Oldest
  <2>4. UNCHANGED <<tiles, info>>
    BY <2>1 DEF diskVars
  <2>5. QED BY <2>2, <2>3, <2>4 DEF Removes
<1>6. CASE EvictUnlink(e)
  <2>1. /\ ev'[e].phase = "remove" /\ ev[e].phase = "remove"
        /\ ev'[e].victim = ev[e].victim
        /\ ev'[e].cands = ev[e].cands
        /\ ev'[e].after = ev[e].after
    BY <1>1, <1>6 DEF EvictUnlink, EvictState
  <2>2. \A c \in Cells : c # ev[e].victim.cell =>
           tiles'[c] = tiles[c] /\ info'[c] = info[c]
    BY <1>6, UnlinkTakesVictim
  <2>3. QED BY <2>1, <2>2 DEF Removes
<1>7. CASE EvictGiveUp(e) \/ EvictReturn(e) \/ EvictNotEmpty(e) \/ EvictFail(e)
  BY <1>1, <1>7 DEF EvictGiveUp, EvictReturn, EvictNotEmpty, EvictFail, NoEvict
<1>8. CASE \E b \in Budgets : EvictStart(e, b)
  BY <1>8 DEF EvictStart
<1>9. QED
  BY <1>2, <1>3, <1>4, <1>5, <1>6, <1>7, <1>8 DEF EvictAct

LEMMA OneEvictsCounted ==
    ASSUME TotalsInv, NEW e \in Evictors, EvictAct(e), ev'[e].phase # "idle"
    PROVE  /\ \E T \in SUBSET (Cells \X Tiles), I \in SUBSET Cells :
                 Counted(e, T, I)'
           /\ ev'[e].phase = "remove" => ev'[e].victim \in ev'[e].cands
<1>1. TypeOK /\ ev \in [Evictors -> EvictState] /\ ev[e] \in EvictState
  BY DEF TotalsInv, TypeOK, EvictTypeOK
<1>2. CASE ev[e].phase = "idle"
  <2>1. PICK b \in Budgets : EvictStart(e, b)
    BY <1>2 DEF EvictAct, EvictMeasure, EvictMeasured, EvictList, EvictGiveUp,
       EvictLock, EvictSkip, EvictTake, EvictUnlink, EvictRemoved, EvictReturn,
       EvictNotEmpty, EvictFail
  <2>2. Counted(e, {}, {})'
    BY <1>1, <2>1, StartIsCounted
  <2>3. ev'[e].phase = "measure"
    BY <1>1, <2>1 DEF EvictStart, NoEvict
  <2>4. QED BY <2>2, <2>3
<1>3. CASE ev[e].phase # "idle"
  <2>1. PICK T \in SUBSET (Cells \X Tiles), I \in SUBSET Cells : Counted(e, T, I)
    BY <1>3 DEF TotalsInv, TotalsAreCounted
  <2>2. CASE EvictMeasure(e)
    <3>1. ev'[e].phase = "measure"
      BY <1>1, <2>2 DEF EvictMeasure, EvictState
    <3>2. QED BY <1>1, <2>1, <2>2, <3>1, MeasureIsCounted
  <2>3. CASE EvictList(e)
    <3>1. ev'[e].phase # "remove"
      <4>1. ev[e].phase = "list" /\ ev'[e].victim = ev[e].victim
            /\ ev'[e].phase = ev[e].phase
        <5>1. PICK c \in First(ev[e].left) : EvictList(e)!(c)
          BY <2>3 DEF EvictList
        <5> DEFINE v == [cell |-> c, used |-> ClockOf(c), bytes |-> CellBytes(c)]
        <5>2. ev' = [ev EXCEPT ![e].left = @ \ {c}, ![e].cands = @ \cup {v}]
          BY <5>1
        <5> HIDE DEF v
        <5>3. QED BY <1>1, <5>1, <5>2 DEF EvictState
      <4>2. QED BY <4>1
    <3>2. QED BY <1>1, <2>1, <2>3, <3>1, ListIsCounted
  <2>4. CASE EvictRemoved(e)
    <3>1. ev[e].victim \in ev[e].cands
      BY <2>4 DEF TotalsInv, VictimsAreListed, EvictRemoved
    <3>2. ev'[e].phase = "choose"
      BY <1>1, <2>4 DEF EvictRemoved, EvictState
    <3>3. QED BY <1>1, <2>1, <2>4, <3>1, <3>2, RemovedIsCounted
  <2>5. CASE ~EvictMeasure(e) /\ ~EvictList(e) /\ ~EvictRemoved(e)
    <3>1. /\ ev'[e].phase # "measure"
          /\ ev'[e].after = ev[e].after
          /\ ev'[e].cands \subseteq ev[e].cands
          /\ \A c \in Cells : ~Removes(e, c)' =>
                /\ ~Removes(e, c)
                /\ tiles'[c] = tiles[c]
                /\ info'[c] = info[c]
          /\ ev'[e].phase = "remove" /\ ev[e].phase # "remove" =>
                ev'[e].victim \in ev'[e].cands
          /\ ev'[e].phase = "remove" /\ ev[e].phase = "remove" =>
                ev'[e].victim = ev[e].victim /\ ev'[e].cands = ev[e].cands
      BY <1>1, <1>3, <2>5, OtherEvicts
    <3>2. Counted(e, T, I)'
      BY <2>1, <3>1, CountedStays
    <3>3. QED BY <3>1, <3>2 DEF TotalsInv, VictimsAreListed
  <2>6. QED BY <2>2, <2>3, <2>4, <2>5
<1>4. QED BY <1>2, <1>3

\* While only one evicts, whatever else happens keeps its count.
LEMMA OthersAreCounted ==
    ASSUME TotalsInv, OneEvictor, [Next]_vars, ~EvictStep, NEW e \in Evictors,
           ev'[e] = ev[e], ev[e].phase # "idle"
    PROVE  \E T \in SUBSET (Cells \X Tiles), I \in SUBSET Cells :
              Counted(e, T, I)'
<1>1. TypeOK
  BY DEF TotalsInv
<1>2. PICK T \in SUBSET (Cells \X Tiles), I \in SUBSET Cells : Counted(e, T, I)
  BY DEF TotalsInv, TotalsAreCounted
<1>3. ASSUME NEW c \in Cells, ~Removes(e, c)
      PROVE  /\ tiles[c] \subseteq tiles'[c]
             /\ info[c] # None => info'[c] # None
  <2>1. ~BeingRemoved(c)
    BY <1>3 DEF BeingRemoved, Removes, OneEvictor
  <2>2. QED BY <1>1, <2>1, OnlyRemovalTakes
<1>4. \A c \in Cells : ~Removes(e, c)' => ~Removes(e, c)
  BY DEF Removes
<1>5. Counted(e, T, I)'
  BY <1>2, <1>3, <1>4, CountedStays
<1>6. QED BY <1>5

LEMMA EvictIsKept ==
    ASSUME [Next]_vars, ~EvictStep, NEW e \in Evictors
    PROVE  ev'[e] = ev[e] \/ ev'[e] = NoEvict
<1>1. CASE FillStep \/ ManifestStep \/ Tick \/ UNCHANGED vars
  BY <1>1 DEF FillStep, FillStart, FillTile, FillReadInfo,
     FillMissesInfo, FillRecord, FillWiden, FillFail, ExhaustRead, ExhaustWrite, ManifestStep, Tick,
     vars, sliceVars
<1>2. CASE HoldStep
  BY <1>2 DEF HoldStep, HoldClaim, TouchDue, TouchRead, TouchNone, TouchWrite,
     TouchFail, HoldReturn, Release
<1>3. CASE \E s \in Stores : Kill(s)
  BY <1>3 DEF Kill
<1>4. QED BY <1>1, <1>2, <1>3 DEF Next

LEMMA TotalsStep ==
    ASSUME TotalsInv, OneEvictor, [Next]_vars
    PROVE  TotalsInv'
<1>1. TypeOK /\ TypeOK'
  BY NextTyped DEF TotalsInv
<1>2. ASSUME NEW e \in Evictors, ev'[e].phase # "idle"
      PROVE  /\ \E T \in SUBSET (Cells \X Tiles), I \in SUBSET Cells :
                   Counted(e, T, I)'
             /\ ev'[e].phase = "remove" => ev'[e].victim \in ev'[e].cands
  <2>1. CASE EvictStep
    <3>1. EvictAct(e)
      BY <1>1, <2>1, OneEvicts DEF OneEvictor
    <3>2. QED BY <1>2, <3>1, OneEvictsCounted
  <2>2. CASE ~EvictStep
    <3>1. ev'[e] = ev[e]
      BY <1>2, <2>2, EvictIsKept DEF NoEvict
    <3>2. QED
      BY <1>2, <2>2, <3>1, OthersAreCounted DEF TotalsInv, VictimsAreListed
  <2>3. QED BY <2>1, <2>2
<1>3. TotalsAreCounted'
  BY <1>2 DEF TotalsAreCounted
<1>4. VictimsAreListed'
  BY <1>2 DEF VictimsAreListed
<1>5. QED BY <1>1, <1>3, <1>4 DEF TotalsInv

\* As long as nothing is being removed, what has been counted is on the disk.
LEMMA TotalIsOnDisk ==
    ASSUME TotalsInv, NEW e \in Evictors, ev[e].phase = "choose"
    PROVE  ev[e].after <= DiskBytes
<1>1. PICK T \in SUBSET (Cells \X Tiles), I \in SUBSET Cells : Counted(e, T, I)
  BY DEF TotalsInv, TotalsAreCounted
<1> DEFINE D == {p \in Cells \X Tiles : p[2] \in tiles[p[1]]}
           K == {c \in Cells : info[c] # None}
<1>2. T \in SUBSET D /\ I \in SUBSET K
  BY <1>1 DEF Counted, OfCell, Removes
<1>3. IsFiniteSet(D) /\ IsFiniteSet(K)
  <2>1. IsFiniteSet(Cells \X Tiles) /\ IsFiniteSet(Cells)
    BY FS_Product, TilesAssumption
  <2>2. D \in SUBSET (Cells \X Tiles) /\ K \in SUBSET Cells
    OBVIOUS
  <2> HIDE DEF D, K
  <2>3. QED BY <2>1, <2>2, FS_Subset
<1>4. DiskBytes = Cardinality(D) + Cardinality(K)
  BY DEF DiskBytes
<1> HIDE DEF D, K
<1>5. Cardinality(T) <= Cardinality(D) /\ Cardinality(I) <= Cardinality(K)
  BY <1>2, <1>3, FS_Subset
<1>6. /\ Cardinality(D) \in Nat /\ Cardinality(K) \in Nat
      /\ Cardinality(T) \in Nat /\ Cardinality(I) \in Nat
  BY <1>3, CountedIsFinite, FS_CardinalityType
<1>7. ev[e].after <= Cardinality(T) + Cardinality(I) /\ ev[e].after \in Int
  BY <1>1, EvictFields DEF Counted, TotalsInv
<1>8. QED BY <1>4, <1>5, <1>6, <1>7

\* Whatever is fetched, held, killed or failing beside it, the one eviction
\* there is takes a cell only from a store that is over its budget at that very
\* moment (evict.go, Evict: "until the store fits in budget").
THEOREM EvictionsAreNeeded ==
    ASSUME OneEvictor
    PROVE  Spec => EvictsOnlyWhileOver
<1>1. Init => TotalsInv
  BY InitTyped DEF Init, TotalsInv, VictimsAreListed, TotalsAreCounted, NoEvict
<1>2. TotalsInv /\ [Next]_vars => TotalsInv'
  BY TotalsStep
<1>3. TotalsInv /\ [Next]_vars =>
        [\A e \in Evictors :
            ev[e].phase = "choose" /\ ev'[e].phase = "remove"
            => DiskBytes > ev[e].budget]_vars
  <2> SUFFICES ASSUME TotalsInv, [Next]_vars, NEW e \in Evictors,
                      ev[e].phase = "choose", ev'[e].phase = "remove"
               PROVE  DiskBytes > ev[e].budget
    OBVIOUS
  <2>1. TypeOK
    BY DEF TotalsInv
  <2>2. EvictTake(e)
    BY <2>1, RemovalBegins
  <2>3. ev[e].after > ev[e].budget
    BY <2>2 DEF EvictTake
  <2>4. ev[e].after <= DiskBytes
    BY TotalIsOnDisk
  <2>5. /\ ev[e].after \in Int /\ ev[e].budget \in Nat
        /\ DiskBytes \in Nat
    <3>1. IsFiniteSet(Cells \X Tiles) /\ IsFiniteSet(Cells)
      BY FS_Product, TilesAssumption
    <3>2. /\ {p \in Cells \X Tiles : p[2] \in tiles[p[1]]}
                \in SUBSET (Cells \X Tiles)
          /\ {c \in Cells : info[c] # None} \in SUBSET Cells
      OBVIOUS
    <3>3. /\ Cardinality({p \in Cells \X Tiles : p[2] \in tiles[p[1]]}) \in Nat
          /\ Cardinality({c \in Cells : info[c] # None}) \in Nat
      BY <3>1, <3>2, FS_Subset, FS_CardinalityType
    <3>4. QED BY <2>1, <3>3, EvictFields DEF DiskBytes
  <2>6. QED BY <2>3, <2>4, <2>5
<1>4. QED
  BY <1>1, <1>2, <1>3, PTL DEF Spec, EvictsOnlyWhileOver

-----------------------------------------------------------------------------
(***************************************************************************)
(* Giving up on the budget.  In one process that does not fetch while it   *)
(* evicts, no file comes that the listing missed: every cell on the disk   *)
(* is yet to be listed, a candidate still, or held.                        *)
(***************************************************************************)

FillsOrEvicts == NobodyFills \/ NobodyEvicts

\* A touch writes back a cell.json that is still there: it makes no directory
\* that had gone.
TouchesAreLive ==
    \A r \in Renders : hold[r].phase = "writing" => info[hold[r].cell] # None

CandidateCells(e) == {v.cell : v \in ev[e].cands}

\* Eviction e has every cell on the disk before it, or cannot have it.
Accounts(e) ==
    \A c \in Cells : HasFiles(c) =>
        /\ ev[e].phase = "list" => c \in ev[e].left \/ c \in CandidateCells(e)
        /\ InLock(ev[e]) => held[StoreOf[e]][c] > 0 \/ c \in CandidateCells(e)

BudgetInv ==
    /\ HoldsInv
    /\ FillsOrEvicts
    /\ TouchesAreLive
    /\ \A e \in Evictors : Accounts(e)

LEMMA AccountStays ==
    ASSUME NEW e \in Evictors, Accounts(e), ev'[e] = ev[e],
           \A c \in Cells : HasFiles(c)' => HasFiles(c),
           InLock(ev[e]) => UNCHANGED held
    PROVE  Accounts(e)'
BY DEF Accounts, CandidateCells, InLock

\* An eviction makes no file.
LEMMA EvictShrinks ==
    ASSUME TypeOK, NEW d \in Evictors, EvictAct(d)
    PROVE  /\ UNCHANGED <<held, hold, fill, touched, time>>
           /\ \A c \in Cells : HasFiles(c)' => HasFiles(c)
<1>1. UNCHANGED <<held, hold, fill, touched, time>>
  BY DEF EvictAct, EvictStart, EvictMeasure, EvictMeasured, EvictList,
     EvictGiveUp, EvictLock, EvictSkip, EvictTake, EvictUnlink, EvictRemoved,
     EvictReturn, EvictNotEmpty, EvictFail, storeVars
<1>2. CASE EvictUnlink(d)
  <2>1. ASSUME NEW c \in Cells
        PROVE  tiles'[c] \subseteq tiles[c] /\ info'[c] \in {info[c], None}
    BY <1>2 DEF EvictUnlink, TypeOK, DiskTypeOK
  <2>2. QED BY <1>1, <2>1 DEF HasFiles
<1>3. CASE ~EvictUnlink(d)
  <2>1. UNCHANGED <<tiles, info>>
    BY <1>3, OnlyUnlinkTakes
  <2>2. QED BY <1>1, <2>1 DEF HasFiles
<1>4. QED BY <1>2, <1>3

\* A directory is listed: it was left, it is a candidate.
LEMMA ListAccounts ==
    ASSUME TypeOK, NEW e \in Evictors, EvictList(e), Accounts(e)
    PROVE  Accounts(e)'
<1>1. PICK c \in First(ev[e].left) : EvictList(e)!(c)
  BY DEF EvictList
<1> DEFINE v == [cell |-> c, used |-> ClockOf(c), bytes |-> CellBytes(c)]
<1>2. v.cell = c
  OBVIOUS
<1>3. ev' = [ev EXCEPT ![e].left = @ \ {c}, ![e].cands = @ \cup {v}]
  BY <1>1
<1> HIDE DEF v
<1>4. /\ ev'[e].phase = "list" /\ ev[e].phase = "list"
      /\ ev'[e].left = ev[e].left \ {c}
      /\ ev'[e].cands = ev[e].cands \cup {v}
  BY <1>1, <1>3 DEF TypeOK, EvictTypeOK, EvictState
<1>5. UNCHANGED <<tiles, info>>
  BY <1>1 DEF diskVars
<1>6. QED
  BY <1>2, <1>4, <1>5 DEF Accounts, CandidateCells, HasFiles, InLock

LEMMA EvictAccounts ==
    ASSUME TypeOK, NEW e \in Evictors, EvictAct(e), Accounts(e)
    PROVE  Accounts(e)'
<1>1. ev \in [Evictors -> EvictState] /\ ev[e] \in EvictState
  BY DEF TypeOK, EvictTypeOK
<1>2. UNCHANGED held /\ \A c \in Cells : HasFiles(c)' => HasFiles(c)
  BY EvictShrinks
<1>3. ASSUME ev'[e].phase \in {"idle", "measure"}
      PROVE  Accounts(e)'
  BY <1>3 DEF Accounts, InLock
<1>4. CASE (\E b \in Budgets : EvictStart(e, b)) \/ EvictMeasure(e)
  <2>1. ev'[e].phase = "measure"
    <3>1. CASE \E b \in Budgets : EvictStart(e, b)
      BY <1>1, <3>1 DEF EvictStart, NoEvict
    <3>2. CASE EvictMeasure(e)
      BY <1>1, <3>2 DEF EvictMeasure, EvictState
    <3>3. QED BY <1>4, <3>1, <3>2
  <2>2. QED BY <1>3, <2>1
<1>5. CASE EvictGiveUp(e) \/ EvictReturn(e) \/ EvictNotEmpty(e) \/ EvictFail(e)
  <2>1. ev'[e].phase = "idle"
    BY <1>1, <1>5 DEF EvictGiveUp, EvictReturn, EvictNotEmpty, EvictFail, NoEvict
  <2>2. QED BY <1>3, <2>1
<1>6. CASE EvictMeasured(e)
  <2>1. CASE ev'[e] = NoEvict
    BY <1>3, <2>1 DEF NoEvict
  <2>2. CASE ev'[e] = [ev[e] EXCEPT !.phase = "list",
                                    !.left = {c \in Cells : HasFiles(c)}]
    <3>1. /\ ev'[e].phase = "list"
          /\ ev'[e].left = {c \in Cells : HasFiles(c)}
      BY <1>1, <2>2 DEF EvictState
    <3>2. QED BY <1>2, <3>1 DEF Accounts, InLock
  <2>3. QED BY <1>1, <1>6, <2>1, <2>2 DEF EvictMeasured
<1>7. CASE EvictList(e)
  BY <1>7, ListAccounts
<1>8. CASE EvictLock(e)
  <2>1. /\ ev'[e].phase = "choose"
        /\ ev[e].phase = "list" /\ ev[e].left = {}
        /\ ev'[e].cands = ev[e].cands
    BY <1>1, <1>8 DEF EvictLock, EvictState
  <2>2. QED BY <1>2, <2>1 DEF Accounts, CandidateCells, InLock
<1>9. CASE EvictSkip(e)
  <2>1. PICK v \in Oldest(ev[e].cands) : EvictSkip(e)!(v)
    BY <1>9 DEF EvictSkip
  <2>2. /\ ev'[e].phase = "choose" /\ ev[e].phase = "choose"
        /\ ev'[e].cands = ev[e].cands \ {v}
        /\ held[StoreOf[e]][v.cell] > 0
    BY <1>1, <2>1 DEF EvictState
  <2>3. \A c \in CandidateCells(e) :
           c \in {w.cell : w \in ev[e].cands \ {v}} \/ c = v.cell
    BY DEF CandidateCells
  <2>4. QED BY <1>2, <2>2, <2>3 DEF Accounts, CandidateCells, InLock
<1>10. CASE EvictTake(e)
  <2>1. PICK v \in Oldest(ev[e].cands) : EvictTake(e)!(v)
    BY <1>10 DEF EvictTake
  <2>2. /\ ev'[e].phase = "remove" /\ ev[e].phase = "choose"
        /\ ev'[e].cands = ev[e].cands
    BY <1>1, <2>1 DEF EvictState, RemoveNext
  <2>3. QED BY <1>2, <2>2 DEF Accounts, CandidateCells, InLock
<1>11. CASE EvictUnlink(e)
  <2>1. /\ ev'[e].phase = "remove" /\ ev[e].phase = "remove"
        /\ ev'[e].cands = ev[e].cands
    BY <1>1, <1>11 DEF EvictUnlink, EvictState
  <2>2. QED BY <1>2, <2>1 DEF Accounts, CandidateCells, InLock
<1>12. CASE EvictRemoved(e)
  <2>1. /\ ev'[e].phase = "choose" /\ ev[e].phase = "remove"
        /\ ev'[e].cands = ev[e].cands \ {ev[e].victim}
        /\ ~HasFiles(ev[e].victim.cell)
    BY <1>1, <1>12 DEF EvictRemoved, EvictState
  <2>2. \A c \in CandidateCells(e) :
           \/ c \in {w.cell : w \in ev[e].cands \ {ev[e].victim}}
           \/ c = ev[e].victim.cell
    BY DEF CandidateCells
  <2>3. QED BY <1>2, <2>1, <2>2 DEF Accounts, CandidateCells, InLock
<1>13. QED
  BY <1>4, <1>5, <1>6, <1>7, <1>8, <1>9, <1>10, <1>11, <1>12 DEF EvictAct

\* A touch is over before its cell can be removed.
LEMMA LiveTouches ==
    ASSUME NEW s0 \in Stores, Stores = {s0}, HoldsInv, TouchesAreLive,
           [Next]_vars
    PROVE  TouchesAreLive'
<1>1. TypeOK
  BY DEF HoldsInv
<1>2. ASSUME NEW r \in Renders, hold[r].phase = "writing"
      PROVE  hold[r].cell \in Cells /\ info'[hold[r].cell] # None
  <2>1. hold[r].cell \in hold[r].cells /\ hold[r].cell \in Cells
    BY <1>1, <1>2, HoldWas DEF HoldOK, HoldState
  <2>2. ~BeingRemoved(hold[r].cell)
    BY <1>2, <2>1, HeldIsNotRemoved
  <2>3. QED
    BY <1>1, <1>2, <2>1, <2>2, OnlyRemovalTakes DEF TouchesAreLive
<1>3. CASE HoldStep
  <2>1. PICK r \in Renders :
              HoldAct(r) /\ \A q \in Renders \ {r} : hold'[q] = hold[q]
    BY <1>1, <1>3, OneDraws
  <2>2. ASSUME hold'[r].phase = "writing"
        PROVE  info'[hold'[r].cell] # None
    <3>1. PICK c \in Cells :
             TouchRead(r, c) /\ hold'[r].cell = c /\ UNCHANGED <<info, mtime>>
      BY <1>1, <2>1, <2>2, HoldActReads
    <3>2. QED BY <3>1 DEF TouchRead
  <2>3. QED BY <1>2, <2>1, <2>2 DEF TouchesAreLive
<1>4. CASE ~HoldStep
  <2>1. ASSUME NEW r \in Renders
        PROVE  hold'[r] \in {hold[r], NoHold}
    <3>1. CASE EvictStep
      BY <1>1, <3>1, EvictTakesInfos
    <3>2. CASE FillStep \/ (\E s \in Stores : Kill(s)) \/ ManifestStep \/ Tick
               \/ UNCHANGED vars
      BY <3>2 DEF FillStep, FillStart, FillTile, FillReadInfo,
         FillMissesInfo, FillRecord, FillWiden, FillFail, ExhaustRead, ExhaustWrite, Kill, ManifestStep,
         Tick, vars, sliceVars
    <3>3. QED BY <1>4, <3>1, <3>2 DEF Next
  <2>2. QED BY <1>2, <2>1 DEF TouchesAreLive, NoHold
<1>5. QED BY <1>3, <1>4

\* No fetch is under way beside an eviction, and neither begins beside the other.
LEMMA FillOrEvict ==
    ASSUME ~EvictBesideFill, FillsOrEvicts, [Next]_vars, TypeOK
    PROVE  /\ FillsOrEvicts'
           /\ FillStep => NobodyEvicts /\ UNCHANGED ev
<1>1. ASSUME FillStep
      PROVE  NobodyEvicts /\ UNCHANGED ev
  BY <1>1 DEF FillsOrEvicts, NobodyFills, NobodyEvicts, MayFill, FillStep,
     FillStart, FillTile, FillReadInfo, FillMissesInfo, FillRecord, FillWiden,
     FillFail,
     ExhaustRead, ExhaustWrite
<1>2. CASE EvictStep
  <2>1. PICK d \in Evictors :
              EvictAct(d) /\ \A e \in Evictors \ {d} : ev'[e] = ev[e]
    BY <1>2, OneEvicts
  <2>2. NobodyFills
    BY <2>1 DEF FillsOrEvicts, NobodyEvicts, EvictAct, EvictStart, EvictMeasure,
       EvictMeasured, EvictList, EvictGiveUp, EvictLock, EvictSkip, EvictTake,
       EvictUnlink, EvictRemoved, EvictReturn, EvictNotEmpty, EvictFail
  <2>3. UNCHANGED fill
    BY <1>2, EvictTakesInfos
  <2>4. QED BY <1>1, <2>2, <2>3 DEF FillsOrEvicts, NobodyFills
<1>3. CASE HoldStep
  <2>1. UNCHANGED <<fill, ev>>
    BY <1>3, OneDraws
  <2>2. QED BY <1>1, <2>1 DEF FillsOrEvicts, NobodyFills, NobodyEvicts
<1>4. CASE (\E s \in Stores : Kill(s)) \/ ManifestStep \/ Tick \/ UNCHANGED vars
  <2>1. /\ \A f \in Fillers : fill'[f] \in {fill[f], NoFill}
        /\ \A e \in Evictors : ev'[e] \in {ev[e], NoEvict}
    BY <1>4 DEF Kill, ManifestStep, Tick, vars, sliceVars
  <2>2. QED
    BY <1>1, <2>1 DEF FillsOrEvicts, NobodyFills, NobodyEvicts, NoFill, NoEvict
<1>5. CASE FillStep
  BY <1>1, <1>5 DEF FillsOrEvicts, NobodyEvicts
<1>6. QED BY <1>2, <1>3, <1>4, <1>5 DEF Next

\* A render makes no file where there is none, and while an eviction has the
\* mutex it changes no count.
LEMMA HoldsAccount ==
    ASSUME NEW s0 \in Stores, Stores = {s0}, BudgetInv, HoldStep
    PROVE  /\ \A c \in Cells : HasFiles(c)' => HasFiles(c)
           /\ mu[s0] # None => UNCHANGED held
<1>1. TypeOK
  BY DEF BudgetInv, HoldsInv
<1>2. PICK r \in Renders :
            HoldAct(r) /\ \A q \in Renders \ {r} : hold'[q] = hold[q]
  BY <1>1, OneDraws
<1>3. UNCHANGED tiles
  BY <1>1, OneDraws
<1>4. \A c \in Cells : info'[c] = info[c] \/ info[c] # None
  <2>1. CASE UNCHANGED info
    BY <2>1
  <2>2. CASE ~UNCHANGED info
    <3>1. /\ TouchWrite(r)
          /\ info' = [info EXCEPT ![hold[r].cell] =
                        [zoom |-> hold[r].read.zoom, used |-> hold[r].now]]
      BY <1>1, <1>2, <2>2, HoldActReads
    <3>2. info[hold[r].cell] # None
      BY <3>1 DEF TouchWrite, BudgetInv, TouchesAreLive
    <3>3. info \in [Cells -> CellInfo \cup {None}]
      BY <1>1 DEF TypeOK, DiskTypeOK
    <3>4. QED BY <3>1, <3>2, <3>3
  <2>3. QED BY <2>1, <2>2
<1>5. \A c \in Cells : HasFiles(c)' => HasFiles(c)
  BY <1>3, <1>4 DEF HasFiles
<1>6. ASSUME mu[s0] # None
      PROVE  UNCHANGED held
  BY <1>2, <1>6, ActorsAssumption DEF HoldAct, HoldClaim, TouchDue, TouchRead,
     TouchNone, TouchWrite, TouchFail, HoldReturn, Release, storeVars
<1>7. QED BY <1>5, <1>6

LEMMA AccountsStep ==
    ASSUME NEW s0 \in Stores, Stores = {s0}, ~EvictBesideFill, BudgetInv,
           [Next]_vars, NEW e \in Evictors
    PROVE  Accounts(e)'
<1>1. TypeOK /\ Accounts(e) /\ StoreOf[e] = s0
  BY ActorsAssumption DEF BudgetInv, HoldsInv
<1>2. CASE EvictStep
  <2>1. PICK d \in Evictors :
              EvictAct(d) /\ \A x \in Evictors \ {d} : ev'[x] = ev[x]
    BY <1>1, <1>2, OneEvicts
  <2>2. CASE e = d
    BY <1>1, <2>1, <2>2, EvictAccounts
  <2>3. CASE e # d
    <3>1. UNCHANGED held /\ \A c \in Cells : HasFiles(c)' => HasFiles(c)
      BY <1>1, <2>1, EvictShrinks
    <3>2. QED BY <1>1, <2>1, <2>3, <3>1, AccountStays
  <2>4. QED BY <2>2, <2>3
<1>3. ASSUME ev'[e].phase = "idle"
      PROVE  Accounts(e)'
  BY <1>3 DEF Accounts, InLock
<1>4. CASE FillStep
  <2>1. ev'[e].phase = "idle"
    BY <1>1, <1>4, FillOrEvict DEF BudgetInv, NobodyEvicts
  <2>2. QED BY <1>3, <2>1
<1>5. CASE HoldStep
  <2>1. ev'[e] = ev[e]
    BY <1>1, <1>5, OneDraws
  <2>2. /\ \A c \in Cells : HasFiles(c)' => HasFiles(c)
        /\ mu[s0] # None => UNCHANGED held
    BY <1>5, HoldsAccount
  <2>3. InLock(ev[e]) => UNCHANGED held
    BY <1>1, <2>2, EvictWas
  <2>4. QED BY <1>1, <2>1, <2>2, <2>3, AccountStays
<1>6. CASE \E s \in Stores : Kill(s)
  <2>1. ev'[e] = NoEvict
    BY <1>1, <1>6 DEF Kill
  <2>2. QED BY <1>3, <2>1 DEF NoEvict
<1>7. CASE ManifestStep \/ Tick \/ UNCHANGED vars
  <2>1. UNCHANGED <<ev, held, tiles, info>>
    BY <1>7 DEF ManifestStep, Tick, vars, sliceVars, diskVars, storeVars
  <2>2. \A c \in Cells : HasFiles(c)' => HasFiles(c)
    BY <2>1 DEF HasFiles
  <2>3. QED BY <1>1, <2>1, <2>2, AccountStays
<1>8. QED BY <1>2, <1>4, <1>5, <1>6, <1>7 DEF Next

LEMMA BudgetStep ==
    ASSUME NEW s0 \in Stores, Stores = {s0}, ~EvictBesideFill, BudgetInv,
           [Next]_vars
    PROVE  BudgetInv'
<1>1. HoldsInv'
  BY NextTyped, CountsStep, VictimStep DEF BudgetInv, HoldsInv
<1>2. FillsOrEvicts'
  BY FillOrEvict DEF BudgetInv, HoldsInv
<1>3. TouchesAreLive'
  BY LiveTouches DEF BudgetInv
<1>4. \A e \in Evictors : Accounts(e)'
  BY AccountsStep
<1>5. QED BY <1>1, <1>2, <1>3, <1>4 DEF BudgetInv

LEMMA InitBudget == Init => BudgetInv
BY InitHolds DEF Init, BudgetInv, FillsOrEvicts, NobodyFills, NoFill,
   TouchesAreLive, NoHold, Accounts, NoEvict, InLock

\* In one process that does not fetch while it evicts, an eviction that ends
\* above its budget has left nothing on the disk but cells its renders hold:
\* whatever was touched or released meanwhile, and whatever another eviction
\* took (evict.go, Eviction.Held).
THEOREM BudgetIsMissedForHolds ==
    ASSUME NEW s0 \in Stores, Stores = {s0}, ~EvictBesideFill
    PROVE  Spec => BudgetMissedOnlyForHolds
<1>1. Init => BudgetInv
  BY InitBudget
<1>2. BudgetInv /\ [Next]_vars => BudgetInv'
  BY BudgetStep
<1>3. BudgetInv =>
        [\A e \in Evictors :
            EvictReturn(e) /\ ev[e].after > ev[e].budget
            => \A c \in Cells : HasFiles(c) => held[StoreOf[e]][c] > 0]_vars
  <2> SUFFICES ASSUME BudgetInv, NEW e \in Evictors, EvictReturn(e),
                      ev[e].after > ev[e].budget, NEW c \in Cells, HasFiles(c)
               PROVE  held[StoreOf[e]][c] > 0
    OBVIOUS
  <2>1. ev[e].after \in Int /\ ev[e].budget \in Nat
    BY EvictFields DEF BudgetInv, HoldsInv
  <2>2. ev[e].cands = {} /\ InLock(ev[e])
    BY <2>1 DEF EvictReturn, InLock
  <2>3. QED BY <2>2 DEF BudgetInv, Accounts, CandidateCells
<1>4. QED
  BY <1>1, <1>2, <1>3, PTL DEF Spec, BudgetMissedOnlyForHolds

-----------------------------------------------------------------------------
(***************************************************************************)
(* Least recently used first.  In one process that keeps its evictions and *)
(* its touches out of its acquisitions no clock on the disk ever goes      *)
(* back, as long as no touch lasts until its Store would touch again.      *)
(***************************************************************************)

Midway(r) == hold[r].phase \in {"touching", "writing"}

\* A render is done touching its cells well before the Store would move the
\* same clocks again (source.go, touchEvery: an hour).
TouchesAreShort ==
    \A r \in Renders : Midway(r) => time < hold[r].now + TouchEvery

\* No cell is due to two touches at a time.
TouchesApart ==
    \A q, r \in Renders : q # r /\ Midway(q) /\ Midway(r)
        => hold[q].due \cap hold[r].due = {}

\* A cell that is due is marked as touched, then or since.
DueIsMarked ==
    \A r \in Renders : Midway(r) => \A c \in hold[r].due :
        /\ touched[StoreOf[r]][c] # None
        /\ hold[r].now <= touched[StoreOf[r]][c]

\* Nothing on the disk, and nothing about to be written there, is later than
\* the wall clock.
ClocksArePast ==
    /\ \A c \in Cells : mtime[c] <= time
    /\ \A c \in Cells : info[c] # None => info[c].used <= time
    /\ \A f \in Fillers : fill[f].phase = "exhaust" => fill[f].read.used <= time
    /\ \A r \in Renders : hold[r].now <= time

\* A touch never moves a clock back; a render still to mark its cells may find
\* that another has moved one further, which then has marked it.
TouchesAreLate ==
    \A r \in Renders :
        /\ hold[r].phase = "claimed" =>
              \A c \in hold[r].cells : info[c] # None =>
                 \/ info[c].used <= hold[r].now
                 \/ /\ touched[StoreOf[r]][c] # None
                    /\ info[c].used <= touched[StoreOf[r]][c]
        /\ Midway(r) =>
              \A c \in hold[r].due : info[c] # None =>
                 info[c].used <= hold[r].now

\* What eviction e has listed of a cell is not later than the cell's clock.
Aged(e) ==
    ev[e].phase # "idle" =>
        \A v \in ev[e].cands : HasFiles(v.cell) => v.used <= ClockOf(v.cell)

TouchInv == TouchesApart /\ DueIsMarked /\ TouchesAreLate

LeastInv ==
    /\ BudgetInv
    /\ FillsApart
    /\ ClocksArePast
    /\ TouchInv
    /\ \A e \in Evictors : Aged(e)

LEMMA ClocksAreNat ==
    ASSUME TypeOK, NEW c \in Cells
    PROVE  /\ time \in Nat /\ mtime[c] \in Nat
           /\ info[c] # None => info[c] \in CellInfo /\ info[c].used \in Nat
           /\ \A r \in Renders : hold[r].now \in Nat
           /\ \A s \in Stores : touched[s][c] # None => touched[s][c] \in Nat
           /\ TouchEvery \in Nat
<1>1. /\ time \in Time /\ mtime[c] \in Time
      /\ info[c] # None => info[c] \in CellInfo
      /\ \A s \in Stores : touched[s][c] # None => touched[s][c] \in Time
  BY DEF TypeOK, DiskTypeOK, StoreTypeOK
<1>2. \A r \in Renders : hold[r].now \in Time
  BY DEF TypeOK, HoldTypeOK, HoldState
<1>3. info[c] # None => info[c].used \in Time
  BY <1>1 DEF CellInfo
<1>4. QED
  BY <1>1, <1>2, <1>3, TimeIsNat, NumbersAssumption

LEMMA ApartStep ==
    ASSUME TypeOK, FillsApart, ~HoldBesideFill, [Next]_vars
    PROVE  FillsApart'
<1>1. CASE FillStep
  BY <1>1, FillsAreApart DEF FillsApart, NobodyTouches
<1>2. CASE HoldStep
  <2>1. PICK r \in Renders :
              HoldAct(r) /\ \A q \in Renders \ {r} : hold'[q] = hold[q]
    BY <1>2, OneDraws
  <2>2. UNCHANGED fill
    BY <1>2, OneDraws
  <2>3. QED BY <2>1, <2>2, TouchesAreApart
<1>3. CASE EvictStep
  BY <1>3, EvictTakesInfos DEF FillsApart, NobodyFills, NobodyTouches
<1>4. CASE (\E s \in Stores : Kill(s)) \/ ManifestStep \/ Tick \/ UNCHANGED vars
  <2>1. /\ \A f \in Fillers : fill'[f] \in {fill[f], NoFill}
        /\ \A r \in Renders : hold'[r] \in {hold[r], NoHold}
    BY <1>4 DEF Kill, ManifestStep, Tick, vars, sliceVars
  <2>2. QED
    BY <2>1 DEF FillsApart, NobodyFills, NobodyTouches, NoFill, NoHold
<1>5. QED BY <1>1, <1>2, <1>3, <1>4 DEF Next

\* What a fetch writes is not later than now.
LEMMA FillClocks ==
    ASSUME TypeOK, ClocksArePast, FillStep
    PROVE  ClocksArePast'
<1>1. PICK f \in Fillers :
        /\ FillAct(f)
        /\ \A g \in Fillers \ {f} : fill'[g] = fill[g]
        /\ \A c \in Cells : info'[c] = info[c] \/ c = fill[f].cell
  BY OneFills
<1>2. UNCHANGED <<time, hold>>
  BY <1>1 DEF FillAct, FillStart, FillTile, FillReadInfo, FillMissesInfo, FillRecord,
     FillWiden, FillFail, ExhaustRead, ExhaustWrite
<1>3. /\ fill \in [Fillers -> FillState]
      /\ info \in [Cells -> CellInfo \cup {None}]
      /\ mtime \in [Cells -> Time]
      /\ time \in Nat
  BY TimeIsNat DEF TypeOK, FillTypeOK, DiskTypeOK
<1>4. ASSUME NEW c \in Cells
      PROVE  mtime'[c] \in {mtime[c], time}
  <2>1. CASE FillTile(f)
    BY <1>3, <2>1 DEF FillTile, MtimeAfterTile, diskVars
  <2>2. CASE FillRecord(f) \/ ExhaustWrite(f)
    BY <1>3, <2>2 DEF FillRecord, ExhaustWrite
  <2>3. CASE ~FillTile(f) /\ ~FillRecord(f) /\ ~ExhaustWrite(f)
    BY <1>1, <2>3 DEF FillAct, FillStart, FillReadInfo, FillMissesInfo,
       FillWiden, FillFail, ExhaustRead, diskVars
  <2>4. QED BY <2>1, <2>2, <2>3
<1>5. ASSUME NEW c \in Cells, info'[c] # None
      PROVE  info'[c].used <= time
  <2>1. CASE FillRecord(f)
    <3> DEFINE z == RecordedZoom(fill[f].zoom, fill[f].read)
    <3>1. info' = [info EXCEPT ![fill[f].cell] = [zoom |-> z, used |-> time]]
      BY <2>1 DEF FillRecord
    <3> HIDE DEF z
    <3>2. CASE c = fill[f].cell
      BY <1>3, <3>1, <3>2
    <3>3. CASE c # fill[f].cell
      BY <1>1, <1>5, <3>3 DEF ClocksArePast
    <3>4. QED BY <3>2, <3>3
  <2>2. CASE ExhaustWrite(f)
    <3>1. info' = [info EXCEPT ![fill[f].cell] =
                     [zoom |-> fill[f].zoom, used |-> fill[f].read.used]]
      BY <2>2 DEF ExhaustWrite
    <3>2. fill[f].read.used <= time
      BY <2>2 DEF ExhaustWrite, ClocksArePast
    <3>3. CASE c = fill[f].cell
      BY <1>3, <3>1, <3>2, <3>3
    <3>4. CASE c # fill[f].cell
      BY <1>1, <1>5, <3>4 DEF ClocksArePast
    <3>5. QED BY <3>3, <3>4
  <2>3. CASE ~FillRecord(f) /\ ~ExhaustWrite(f)
    <3>1. UNCHANGED info
      BY <1>1, <2>3 DEF FillAct, FillStart, FillTile, FillReadInfo,
         FillMissesInfo, FillWiden, FillFail, ExhaustRead, diskVars
    <3>2. QED BY <1>5, <3>1 DEF ClocksArePast
  <2>4. QED BY <2>1, <2>2, <2>3
<1>6. ASSUME fill'[f].phase = "exhaust"
      PROVE  fill'[f].read.used <= time
  <2>1. PICK c \in Cells, through \in CellZoom..MaxZoom :
              ExhaustRead(f, c, through)
    <3>1. ~FillTile(f)
      BY <1>3, <1>6 DEF FillTile, FillState
    <3>2. ~FillReadInfo(f) /\ ~FillMissesInfo(f) /\ ~FillRecord(f)
      BY <1>3, <1>6 DEF FillReadInfo, FillMissesInfo, FillRecord, FillState
    <3>3. ~FillWiden(f) /\ ~FillFail(f) /\ ~ExhaustWrite(f)
      BY <1>3, <1>6 DEF FillWiden, FillFail, ExhaustWrite, NoFill
    <3>4. \A d \in Cells, z \in Ranges : ~FillStart(f, d, z)
      BY <1>3, <1>6 DEF FillStart
    <3>5. QED BY <1>1, <3>1, <3>2, <3>3, <3>4 DEF FillAct
  <2>2. fill'[f].read = info[c] /\ info[c] # None
    BY <1>3, <2>1 DEF ExhaustRead
  <2>3. QED BY <2>2 DEF ClocksArePast
<1>7. QED
  BY <1>1, <1>2, <1>3, <1>4, <1>5, <1>6 DEF ClocksArePast

LEMMA HoldClocks ==
    ASSUME TypeOK, ClocksArePast, HoldStep
    PROVE  ClocksArePast'
<1>1. PICK r \in Renders :
            HoldAct(r) /\ \A q \in Renders \ {r} : hold'[q] = hold[q]
  BY OneDraws
<1>2. UNCHANGED <<tiles, fill, ev, time>>
  BY OneDraws
<1>3. /\ hold \in [Renders -> HoldState]
      /\ info \in [Cells -> CellInfo \cup {None}]
      /\ mtime \in [Cells -> Time]
      /\ time \in Nat
  BY TimeIsNat DEF TypeOK, HoldTypeOK, DiskTypeOK
<1>4. \A c \in Cells : /\ mtime'[c] <= time
                       /\ info'[c] # None => info'[c].used <= time
  <2>1. CASE UNCHANGED <<info, mtime>>
    BY <2>1 DEF ClocksArePast
  <2>2. CASE /\ info' = [info EXCEPT ![hold[r].cell] =
                           [zoom |-> hold[r].read.zoom, used |-> hold[r].now]]
             /\ mtime' = [mtime EXCEPT ![hold[r].cell] = time]
    BY <1>3, <2>2 DEF ClocksArePast
  <2>3. QED BY <1>1, <2>1, <2>2, HoldActReads
<1>5. hold'[r].now \in {hold[r].now, time}
  <2>1. CASE \E C \in (SUBSET Cells) \ {{}} : HoldClaim(r, C)
    BY <1>3, <2>1 DEF HoldClaim
  <2>2. CASE TouchDue(r)
    BY <1>3, <2>2 DEF TouchDue, HoldState
  <2>3. CASE \E c \in Cells : TouchRead(r, c)
    <3>1. PICK c \in Cells : TouchRead(r, c)
      BY <2>3
    <3>2. PICK x : x = info[c]
      OBVIOUS
    <3>3. hold' = [hold EXCEPT ![r].phase = "writing", ![r].cell = c,
                               ![r].read = x]
      BY <3>1, <3>2 DEF TouchRead
    <3>4. QED BY <1>3, <3>3 DEF HoldState
  <2>4. CASE \E c \in Cells : TouchNone(r, c)
    BY <1>3, <2>4 DEF TouchNone, HoldState
  <2>5. CASE TouchWrite(r)
    BY <1>3, <2>5 DEF TouchWrite, HoldState
  <2>6. CASE \E c \in Cells : TouchFail(r, c)
    BY <1>3, <2>6 DEF TouchFail, HoldState
  <2>7. CASE HoldReturn(r) \/ Release(r)
    BY <1>3, <2>7 DEF HoldReturn, Release, HoldState
  <2>8. QED BY <1>1, <2>1, <2>2, <2>3, <2>4, <2>5, <2>6, <2>7 DEF HoldAct
<1>6. QED
  BY <1>1, <1>2, <1>3, <1>4, <1>5 DEF ClocksArePast

LEMMA EvictClocks ==
    ASSUME TypeOK, ClocksArePast, EvictStep
    PROVE  ClocksArePast'
<1>1. PICK d \in Evictors : EvictAct(d)
  BY OneEvicts
<1>2. UNCHANGED <<fill, hold, time>>
  BY <1>1, EvictShrinks
<1>3. mtime \in [Cells -> Time] /\ time \in Nat
  BY TimeIsNat DEF TypeOK, DiskTypeOK
<1>4. \A c \in Cells : info'[c] \in {info[c], None}
  BY EvictTakesInfos
<1>5. \A c \in Cells : mtime'[c] \in {mtime[c], time}
  <2>1. CASE EvictUnlink(d)
    BY <1>3, <2>1 DEF EvictUnlink, MtimeAfterTile
  <2>2. CASE ~EvictUnlink(d)
    BY <1>1, <2>2 DEF EvictAct, EvictStart, EvictMeasure, EvictMeasured,
       EvictList, EvictGiveUp, EvictLock, EvictSkip, EvictTake, EvictRemoved,
       EvictReturn, EvictNotEmpty, EvictFail, diskVars
  <2>3. QED BY <2>1, <2>2
<1>6. QED
  BY <1>2, <1>3, <1>4, <1>5 DEF ClocksArePast

LEMMA ClocksStep ==
    ASSUME TypeOK, ClocksArePast, [Next]_vars
    PROVE  ClocksArePast'
<1>1. CASE Tick
  <2>1. /\ time \in Nat /\ time' = time + 1
        /\ UNCHANGED <<info, mtime, fill, hold>>
    BY <1>1, TimeIsNat DEF Tick, TypeOK, DiskTypeOK, diskVars
  <2>2. /\ \A c \in Cells : mtime[c] \in Nat
        /\ \A c \in Cells : info[c] # None => info[c].used \in Nat
        /\ \A r \in Renders : hold[r].now \in Nat
    BY ClocksAreNat, TimeIsNat DEF TypeOK, HoldTypeOK, HoldState
  <2>3. \A f \in Fillers : fill[f].phase = "exhaust" => fill[f].read.used \in Nat
    <3>1. \A f \in Fillers : fill[f].phase = "exhaust" => fill[f].read \in CellInfo
      BY DEF TypeOK, FillTypeOK, FillState
    <3>2. QED BY <3>1, TimeIsNat DEF CellInfo
  <2>4. QED BY <2>1, <2>2, <2>3 DEF ClocksArePast
<1>2. CASE (\E s \in Stores : Kill(s)) \/ ManifestStep \/ UNCHANGED vars
  <2>1. /\ UNCHANGED <<info, mtime, time>>
        /\ \A f \in Fillers : fill'[f] \in {fill[f], NoFill}
        /\ \A r \in Renders : hold'[r] \in {hold[r], NoHold}
    BY <1>2 DEF Kill, ManifestStep, vars, sliceVars, diskVars
  <2>2. time \in Nat
    BY TimeIsNat DEF TypeOK, DiskTypeOK
  <2>3. QED BY <2>1, <2>2 DEF ClocksArePast, NoFill, NoHold
<1>3. QED
  BY <1>1, <1>2, FillClocks, HoldClocks, EvictClocks DEF Next

\* A touch under way has fewer cells before it, and the time it began with.
LEMMA TouchGoesOn ==
    ASSUME TypeOK, NEW r \in Renders, HoldAct(r),
           \A C \in (SUBSET Cells) \ {{}} : ~HoldClaim(r, C), ~TouchDue(r)
    PROVE  /\ UNCHANGED touched
           /\ hold'[r].phase # "claimed"
           /\ Midway(r)' => /\ Midway(r)
                            /\ hold'[r].now = hold[r].now
                            /\ hold'[r].due \subseteq hold[r].due
           /\ TouchWrite(r) => /\ hold[r].cell \in hold[r].due
                               /\ hold[r].cell \notin hold'[r].due
<1>1. hold \in [Renders -> HoldState]
  BY DEF TypeOK, HoldTypeOK
<1>2. UNCHANGED touched
  BY DEF HoldAct, TouchRead, TouchNone, TouchWrite, TouchFail, HoldReturn,
     Release, storeVars
<1>3. CASE \E c \in Cells : TouchRead(r, c)
  <2>1. PICK c \in Cells : TouchRead(r, c)
    BY <1>3
  <2>2. PICK x : x = info[c]
    OBVIOUS
  <2>3. hold' = [hold EXCEPT ![r].phase = "writing", ![r].cell = c,
                             ![r].read = x]
    BY <2>1, <2>2 DEF TouchRead
  <2>4. /\ hold'[r].phase = "writing" /\ hold'[r].now = hold[r].now
        /\ hold'[r].due = hold[r].due /\ hold[r].phase = "touching"
    BY <1>1, <2>1, <2>3 DEF HoldState, TouchRead
  <2>5. QED BY <1>2, <2>4 DEF Midway, TouchWrite
<1>4. CASE \E c \in Cells : TouchNone(r, c)
  <2>1. /\ hold'[r].phase = "touching" /\ hold'[r].now = hold[r].now
        /\ hold'[r].due \subseteq hold[r].due /\ hold[r].phase = "touching"
    BY <1>1, <1>4 DEF TouchNone, HoldState
  <2>2. QED BY <1>2, <2>1 DEF Midway, TouchWrite
<1>5. CASE TouchWrite(r)
  <2>1. /\ hold'[r].phase = "touching" /\ hold'[r].now = hold[r].now
        /\ hold'[r].due = hold[r].due \ {hold[r].cell}
        /\ hold[r].phase = "writing"
    BY <1>1, <1>5 DEF TouchWrite, HoldState
  <2>2. hold[r].cell \in hold[r].due
    BY <2>1, HoldWas DEF HoldOK
  <2>3. QED BY <1>2, <2>1, <2>2 DEF Midway
<1>6. CASE (\E c \in Cells : TouchFail(r, c)) /\ ~TouchWrite(r)
  <2>1. /\ hold'[r].phase = "touching" /\ hold'[r].now = hold[r].now
        /\ hold'[r].due \subseteq hold[r].due
        /\ hold[r].phase \in {"touching", "writing"}
    BY <1>1, <1>6 DEF TouchFail, HoldState
  <2>2. QED BY <1>2, <1>6, <2>1 DEF Midway
<1>7. CASE HoldReturn(r) \/ Release(r)
  <2>1. hold'[r].phase \in {"held", "released"}
    BY <1>1, <1>7 DEF HoldReturn, Release, HoldState
  <2>2. QED
    BY <1>2, <1>7, <2>1 DEF Midway, TouchWrite, HoldReturn, Release
<1>8. QED BY <1>3, <1>4, <1>5, <1>6, <1>7 DEF HoldAct

\* Nothing but calls ending and cell.json files going.
LEMMA OtherTouches ==
    ASSUME TypeOK, TouchInv, UNCHANGED touched,
           \A c \in Cells : info'[c] \in {info[c], None},
           \A r \in Renders : hold'[r] \in {hold[r], NoHold}
    PROVE  TouchInv'
<1>1. \A r \in Renders :
         /\ hold'[r].phase = "claimed" \/ Midway(r)' => hold'[r] = hold[r]
         /\ Midway(r)' => Midway(r)
         /\ hold[r].cells \subseteq Cells /\ hold[r].due \subseteq Cells
  BY DEF Midway, NoHold, TypeOK, HoldTypeOK, HoldState
<1>2. TouchesApart'
  BY <1>1 DEF TouchInv, TouchesApart
<1>3. DueIsMarked'
  BY <1>1 DEF TouchInv, DueIsMarked
<1>4. TouchesAreLate'
  BY <1>1 DEF TouchInv, TouchesAreLate
<1>5. QED BY <1>2, <1>3, <1>4 DEF TouchInv

LEMMA ClaimTouches ==
    ASSUME TypeOK, ClocksArePast, TouchInv,
           NEW r \in Renders, NEW C \in (SUBSET Cells) \ {{}}, HoldClaim(r, C),
           \A q \in Renders \ {r} : hold'[q] = hold[q]
    PROVE  TouchInv'
<1>1. /\ hold'[r].phase = "claimed" /\ hold'[r].now = time
      /\ hold'[r].cells = C
      /\ UNCHANGED <<touched, info>>
  BY DEF HoldClaim, TypeOK, HoldTypeOK, diskVars
<1>2. TouchesApart'
  BY <1>1 DEF TouchInv, TouchesApart, Midway
<1>3. DueIsMarked'
  BY <1>1 DEF TouchInv, DueIsMarked, Midway
<1>4. \A c \in C : info'[c] # None => info'[c].used <= hold'[r].now
  BY <1>1 DEF ClocksArePast
<1>5. TouchesAreLate'
  BY <1>1, <1>4 DEF TouchInv, TouchesAreLate, Midway
<1>6. QED BY <1>2, <1>3, <1>5 DEF TouchInv

\* What a render marks is due to nobody else, and is younger than its time.
LEMMA DueTouches ==
    ASSUME TypeOK, ClocksArePast, TouchInv, TouchesAreShort,
           NEW s0 \in Stores, Stores = {s0},
           NEW r \in Renders, TouchDue(r),
           \A q \in Renders \ {r} : hold'[q] = hold[q]
    PROVE  TouchInv'
<1> DEFINE now == hold[r].now
           due == {c \in hold[r].cells : IsDue(s0, c, now)}
<1>1. \A q \in Renders : StoreOf[q] = s0
  BY ActorsAssumption
<1>2. /\ hold[r].phase = "claimed" /\ hold'[r].phase = "touching"
      /\ hold'[r].now = now
      /\ hold'[r].due = due
      /\ due \subseteq Cells
      /\ UNCHANGED info
      /\ \A c \in Cells :
            touched'[s0][c] = IF c \in due THEN now ELSE touched[s0][c]
  <2>1. hold[r].cells \subseteq Cells
    BY DEF TypeOK, HoldTypeOK, HoldState
  <2>2. touched' = [touched EXCEPT ![s0] = [c \in Cells |->
                       IF c \in due THEN now ELSE touched[s0][c]]]
    BY <1>1 DEF TouchDue
  <2>3. hold' = [hold EXCEPT ![r].phase = "touching", ![r].due = due]
    <3>1. StoreOf[r] = s0
      BY <1>1
    <3>2. hold' = [hold EXCEPT ![r].phase = "touching",
                    ![r].due = {c \in hold[r].cells :
                                   IsDue(StoreOf[r], c, hold[r].now)}]
      BY DEF TouchDue
    <3>3. QED BY <3>1, <3>2, Zenon
  <2>5. hold[r].phase = "claimed" /\ UNCHANGED info /\ due \subseteq hold[r].cells
    BY DEF TouchDue, diskVars
  <2> HIDE DEF due
  <2>4. /\ hold'[r].phase = "touching" /\ hold'[r].now = now
        /\ hold'[r].due = due
    BY <2>3 DEF TypeOK, HoldTypeOK, HoldState
  <2>6. \A c \in Cells :
            touched'[s0][c] = IF c \in due THEN now ELSE touched[s0][c]
    BY <2>2 DEF TypeOK, StoreTypeOK
  <2>7. QED
    BY <2>1, <2>4, <2>5, <2>6
<1>3. ASSUME NEW c \in due
      PROVE  /\ c \in Cells /\ c \in hold[r].cells /\ now \in Nat
             /\ touched[s0][c] # None =>
                   /\ touched[s0][c] \in Nat
                   /\ touched[s0][c] + TouchEvery <= now
             /\ TouchEvery \in Nat
  BY <1>2, <1>3, ClocksAreNat DEF IsDue
<1>4. ASSUME NEW q \in Renders \ {r}, Midway(q), NEW c \in hold[q].due, c \in due
      PROVE  FALSE
  <2>1. touched[s0][c] # None /\ hold[q].now <= touched[s0][c]
    BY <1>1, <1>4 DEF TouchInv, DueIsMarked
  <2>2. time < hold[q].now + TouchEvery
    BY <1>4 DEF TouchesAreShort
  <2>3. now <= time /\ time \in Nat /\ hold[q].now \in Nat
    BY <1>3, <1>4, ClocksAreNat DEF ClocksArePast
  <2>4. QED BY <1>3, <1>4, <2>1, <2>2, <2>3
<1> HIDE DEF now, due
<1>5. \A q \in Renders \ {r} : Midway(q)' <=> Midway(q)
  BY DEF Midway
<1>6. TouchesApart'
  <2>1. \A q \in Renders \ {r} : Midway(q) => hold[q].due \cap due = {}
    BY <1>4
  <2>2. QED BY <1>2, <1>5, <2>1 DEF TouchInv, TouchesApart
<1>7. DueIsMarked'
  <2>1. ASSUME NEW c \in due
        PROVE  touched'[s0][c] # None /\ now <= touched'[s0][c]
    BY <1>2, <1>3, <2>1, NoneAssumption, ClocksAreNat
    DEF now, TypeOK, HoldTypeOK, HoldState
  <2>2. ASSUME NEW q \in Renders \ {r}, Midway(q), NEW c \in hold[q].due
        PROVE  touched'[s0][c] # None /\ hold[q].now <= touched'[s0][c]
    <3>1. c \in Cells /\ c \notin due
      BY <1>4, <2>2 DEF TypeOK, HoldTypeOK, HoldState
    <3>2. touched'[s0][c] = touched[s0][c]
      BY <1>2, <3>1
    <3>3. QED BY <1>1, <2>2, <3>2 DEF TouchInv, DueIsMarked
  <2>3. QED BY <1>1, <1>2, <1>5, <2>1, <2>2 DEF DueIsMarked
<1>8. TouchesAreLate'
  <2>1. ASSUME NEW c \in due, info[c] # None
        PROVE  info[c].used <= now
    <3>1. \/ info[c].used <= now
          \/ touched[s0][c] # None /\ info[c].used <= touched[s0][c]
      BY <1>1, <1>2, <1>3, <2>1 DEF TouchInv, TouchesAreLate, now
    <3>2. info[c].used \in Nat
      BY <1>3, <2>1, ClocksAreNat
    <3>3. QED BY <1>3, <2>1, <3>1, <3>2
  <2>2. ASSUME NEW q \in Renders \ {r}, hold[q].phase = "claimed",
               NEW c \in hold[q].cells, info[c] # None
        PROVE  \/ info[c].used <= hold[q].now
               \/ touched'[s0][c] # None /\ info[c].used <= touched'[s0][c]
    <3>1. c \in Cells
      BY DEF TypeOK, HoldTypeOK, HoldState
    <3>2. CASE c \in due
      <4>1. info[c].used <= now /\ touched'[s0][c] = now
        BY <1>2, <2>1, <2>2, <3>1, <3>2
      <4>2. now # None
        BY NoneAssumption DEF now, TypeOK, HoldTypeOK, HoldState
      <4>3. QED BY <4>1, <4>2
    <3>3. CASE c \notin due
      BY <1>1, <1>2, <2>2, <3>1, <3>3 DEF TouchInv, TouchesAreLate
    <3>4. QED BY <3>2, <3>3
  <2>3. ASSUME NEW q \in Renders \ {r}, Midway(q), NEW c \in hold[q].due,
               info[c] # None
        PROVE  info[c].used <= hold[q].now
    BY <2>3 DEF TouchInv, TouchesAreLate
  <2>4. QED
    BY <1>1, <1>2, <1>5, <2>1, <2>2, <2>3 DEF TouchesAreLate, Midway
<1>9. QED BY <1>6, <1>7, <1>8 DEF TouchInv

\* A touch that goes on writes at most the cell it has before it.
LEMMA GoingTouches ==
    ASSUME TypeOK, TouchInv, NEW s0 \in Stores, Stores = {s0},
           NEW r \in Renders, HoldAct(r),
           \A C \in (SUBSET Cells) \ {{}} : ~HoldClaim(r, C), ~TouchDue(r),
           \A q \in Renders \ {r} : hold'[q] = hold[q]
    PROVE  TouchInv'
<1>1. /\ UNCHANGED touched
      /\ hold'[r].phase # "claimed"
      /\ Midway(r)' => /\ Midway(r)
                       /\ hold'[r].now = hold[r].now
                       /\ hold'[r].due \subseteq hold[r].due
      /\ TouchWrite(r) => /\ hold[r].cell \in hold[r].due
                          /\ hold[r].cell \notin hold'[r].due
  BY TouchGoesOn
<1>2. \A q \in Renders \ {r} : Midway(q)' <=> Midway(q)
  BY DEF Midway
<1>3. \A q \in Renders :
         hold[q].cells \subseteq Cells /\ hold[q].due \subseteq Cells
  BY DEF TypeOK, HoldTypeOK, HoldState
<1>4. TouchesApart'
  BY <1>1, <1>2 DEF TouchInv, TouchesApart
<1>5. DueIsMarked'
  BY <1>1, <1>2 DEF TouchInv, DueIsMarked
<1>6. CASE UNCHANGED info
  <2>1. TouchesAreLate'
    BY <1>1, <1>2, <1>6 DEF TouchInv, TouchesAreLate
  <2>2. QED BY <1>4, <1>5, <2>1 DEF TouchInv
<1>7. CASE /\ TouchWrite(r)
           /\ info' = [info EXCEPT ![hold[r].cell] =
                         [zoom |-> hold[r].read.zoom, used |-> hold[r].now]]
  <2>1. PICK d \in Cells : d = hold[r].cell
    BY <1>1, <1>3, <1>7
  <2>2. /\ info'[d].used = hold[r].now
        /\ \A c \in Cells \ {d} : info'[c] = info[c]
    BY <1>7, <2>1 DEF TypeOK, DiskTypeOK
  <2>3. Midway(r) /\ d \in hold[r].due /\ d \notin hold'[r].due
    BY <1>1, <1>7, <2>1 DEF Midway, TouchWrite
  <2>4. touched[s0][d] # None /\ hold[r].now <= touched[s0][d]
    BY <2>3, ActorsAssumption DEF TouchInv, DueIsMarked
  <2>5. ASSUME NEW q \in Renders, hold'[q].phase = "claimed",
               NEW c \in hold'[q].cells, info'[c] # None
        PROVE  \/ info'[c].used <= hold'[q].now
               \/ /\ touched'[StoreOf[q]][c] # None
                  /\ info'[c].used <= touched'[StoreOf[q]][c]
    <3>1. q # r /\ hold'[q] = hold[q] /\ StoreOf[q] = s0 /\ c \in Cells
      BY <1>1, <1>3, <2>5, ActorsAssumption
    <3>2. CASE c = d
      BY <1>1, <2>2, <2>4, <3>1, <3>2
    <3>3. CASE c # d
      BY <1>1, <2>2, <2>5, <3>1, <3>3 DEF TouchInv, TouchesAreLate
    <3>4. QED BY <3>2, <3>3
  <2>6. ASSUME NEW q \in Renders, Midway(q)', NEW c \in hold'[q].due,
               info'[c] # None
        PROVE  info'[c].used <= hold'[q].now
    <3>1. /\ Midway(q) /\ c \in hold[q].due /\ c \in Cells
          /\ hold'[q].now = hold[q].now
      BY <1>1, <1>2, <1>3, <2>6
    <3>2. c # d
      <4>1. CASE q = r
        BY <2>3, <2>6, <4>1
      <4>2. CASE q # r
        BY <2>3, <3>1, <4>2 DEF TouchInv, TouchesApart
      <4>3. QED BY <4>1, <4>2
    <3>3. QED
      BY <2>2, <2>6, <3>1, <3>2 DEF TouchInv, TouchesAreLate
  <2>7. TouchesAreLate'
    BY <2>5, <2>6 DEF TouchesAreLate
  <2>8. QED BY <1>4, <1>5, <2>7 DEF TouchInv
<1>8. QED BY <1>6, <1>7, HoldActReads

LEMMA TouchStep ==
    ASSUME NEW s0 \in Stores, Stores = {s0}, ~HoldBesideFill,
           TypeOK, FillsApart, ClocksArePast, TouchInv, TouchesAreShort,
           [Next]_vars
    PROVE  TouchInv'
<1>1. CASE HoldStep
  <2>1. PICK r \in Renders :
              HoldAct(r) /\ \A q \in Renders \ {r} : hold'[q] = hold[q]
    BY <1>1, OneDraws
  <2>2. CASE TouchDue(r)
    BY <2>1, <2>2, DueTouches
  <2>3. CASE \E C \in (SUBSET Cells) \ {{}} : HoldClaim(r, C)
    BY <2>1, <2>3, ClaimTouches
  <2>4. CASE ~TouchDue(r) /\ \A C \in (SUBSET Cells) \ {{}} : ~HoldClaim(r, C)
    BY <2>1, <2>4, GoingTouches
  <2>5. QED BY <2>2, <2>3, <2>4
<1>2. CASE FillStep
  <2>1. NobodyTouches /\ UNCHANGED hold
    BY <1>2, FillsAreApart
  <2>2. \A r \in Renders : hold'[r].phase # "claimed" /\ ~Midway(r)'
    BY <2>1 DEF NobodyTouches, Midway
  <2>3. QED
    BY <2>2 DEF TouchInv, TouchesApart, DueIsMarked, TouchesAreLate
<1>3. CASE EvictStep
  <2>1. UNCHANGED <<touched, hold>>
    BY <1>3, OneEvicts, EvictShrinks
  <2>2. QED BY <1>3, <2>1, EvictTakesInfos, OtherTouches
<1>4. CASE \E s \in Stores : Kill(s)
  <2>1. \A r \in Renders : hold'[r] = NoHold
    BY <1>4, ActorsAssumption DEF Kill
  <2>2. \A r \in Renders : hold'[r].phase # "claimed" /\ ~Midway(r)'
    BY <2>1 DEF NoHold, Midway
  <2>3. QED
    BY <2>2 DEF TouchInv, TouchesApart, DueIsMarked, TouchesAreLate
<1>5. CASE ManifestStep \/ Tick \/ UNCHANGED vars
  <2>1. UNCHANGED <<touched, info, hold>>
    BY <1>5 DEF ManifestStep, Tick, vars, sliceVars, diskVars, storeVars
  <2>2. QED BY <2>1, OtherTouches
<1>6. QED BY <1>1, <1>2, <1>3, <1>4, <1>5 DEF Next

\* What is still on the disk after a step beside an eviction was there before
\* it, and has no earlier clock.
LEMMA ClocksRise ==
    ASSUME NEW s0 \in Stores, Stores = {s0}, LeastInv, [Next]_vars, ~FillStep,
           NEW c \in Cells, HasFiles(c)'
    PROVE  HasFiles(c) /\ ClockOf(c) <= ClockOf(c)'
<1>1. TypeOK
  BY DEF LeastInv, BudgetInv, HoldsInv
<1>2. /\ info[c] # None => info[c].used \in Nat /\ info[c].used <= time
      /\ mtime[c] \in Nat /\ mtime[c] <= time /\ time \in Nat
  BY <1>1, ClocksAreNat DEF LeastInv, ClocksArePast
<1>3. /\ info \in [Cells -> CellInfo \cup {None}]
      /\ tiles \in [Cells -> SUBSET Tiles]
      /\ mtime \in [Cells -> Time]
  BY <1>1 DEF TypeOK, DiskTypeOK
<1>4. CASE UNCHANGED <<tiles, info, mtime>>
  BY <1>2, <1>4 DEF HasFiles, ClockOf
<1>5. CASE EvictStep
  <2>1. PICK d \in Evictors : EvictAct(d)
    BY <1>1, <1>5, OneEvicts
  <2>2. HasFiles(c)
    BY <1>1, <2>1, EvictShrinks
  <2>3. CASE EvictUnlink(d)
    <3>1. mtime'[c] \in {mtime[c], time} /\ info'[c] \in {info[c], None}
      BY <1>3, <2>3 DEF EvictUnlink, MtimeAfterTile
    <3>2. info'[c] # info[c] => mtime'[c] = time
      BY <1>3, <2>3 DEF EvictUnlink
    <3>3. QED BY <1>2, <2>2, <3>1, <3>2 DEF HasFiles, ClockOf
  <2>4. CASE ~EvictUnlink(d)
    <3>1. UNCHANGED <<tiles, info, mtime>>
      BY <2>1, <2>4 DEF EvictAct, EvictStart, EvictMeasure, EvictMeasured,
         EvictList, EvictGiveUp, EvictLock, EvictSkip, EvictTake, EvictRemoved,
         EvictReturn, EvictNotEmpty, EvictFail, diskVars
    <3>2. QED BY <1>4, <3>1
  <2>5. QED BY <2>3, <2>4
<1>6. CASE HoldStep
  <2>1. PICK r \in Renders : HoldAct(r)
    BY <1>1, <1>6, OneDraws
  <2>2. UNCHANGED tiles
    BY <1>1, <1>6, OneDraws
  <2>3. CASE UNCHANGED <<info, mtime>>
    BY <1>4, <2>2, <2>3
  <2>4. CASE /\ TouchWrite(r)
             /\ hold[r].cell \in Cells
             /\ info' = [info EXCEPT ![hold[r].cell] =
                           [zoom |-> hold[r].read.zoom, used |-> hold[r].now]]
             /\ mtime' = [mtime EXCEPT ![hold[r].cell] = time]
    <3>1. CASE c # hold[r].cell
      <4>1. info'[c] = info[c] /\ mtime'[c] = mtime[c]
        BY <1>3, <2>4, <3>1
      <4>2. QED BY <1>2, <2>2, <4>1 DEF HasFiles, ClockOf
    <3>2. CASE c = hold[r].cell
      <4>1. info'[c] = [zoom |-> hold[r].read.zoom, used |-> hold[r].now]
        BY <1>3, <2>4, <3>2
      <4>2. hold[r].phase = "writing" /\ c \in hold[r].due
        BY <1>1, <2>4, <3>2, HoldWas DEF TouchWrite, HoldOK
      <4>3. info[c] # None
        BY <3>2, <4>2 DEF LeastInv, BudgetInv, TouchesAreLive
      <4>4. info[c].used <= hold[r].now
        BY <4>2, <4>3 DEF LeastInv, TouchInv, TouchesAreLate, Midway
      <4>5. info'[c] # None
        <5>1. hold[r].read \in CellInfo /\ hold[r].now \in Time
          BY <1>1, <4>2, HoldWas DEF HoldOK, HoldState
        <5>2. info'[c] \in CellInfo
          BY <4>1, <5>1 DEF CellInfo
        <5>3. QED BY <5>2, NoneAssumption
      <4>6. ClockOf(c)' = hold[r].now
        BY <4>1, <4>5 DEF ClockOf
      <4>7. ClockOf(c) = info[c].used
        BY <4>3 DEF ClockOf
      <4>8. QED BY <4>3, <4>4, <4>6, <4>7 DEF HasFiles
    <3>3. QED BY <3>1, <3>2
  <2>5. QED BY <1>1, <2>1, <2>3, <2>4, HoldActReads
<1>7. CASE (\E s \in Stores : Kill(s)) \/ ManifestStep \/ Tick \/ UNCHANGED vars
  BY <1>4, <1>7 DEF Kill, ManifestStep, Tick, vars, sliceVars, diskVars
<1>8. QED BY <1>5, <1>6, <1>7 DEF Next

\* A directory is listed with the clock it has.
LEMMA ListedAsItIs ==
    ASSUME TypeOK, NEW e \in Evictors, EvictList(e)
    PROVE  /\ \A v \in ev'[e].cands \ ev[e].cands : v.used = ClockOf(v.cell)
           /\ ev[e].phase # "idle"
<1>1. PICK c \in First(ev[e].left) : EvictList(e)!(c)
  BY DEF EvictList
<1> DEFINE v == [cell |-> c, used |-> ClockOf(c), bytes |-> CellBytes(c)]
<1>2. v.cell = c /\ v.used = ClockOf(c)
  OBVIOUS
<1>3. ev' = [ev EXCEPT ![e].left = @ \ {c}, ![e].cands = @ \cup {v}]
  BY <1>1
<1> HIDE DEF v
<1>4. ev'[e].cands = ev[e].cands \cup {v}
  BY <1>3 DEF TypeOK, EvictTypeOK, EvictState
<1>5. \A w \in ev'[e].cands \ ev[e].cands : w = v
  BY <1>4
<1>6. QED
  BY <1>1, <1>2, <1>5

\* What an eviction's step does to its candidates otherwise.
LEMMA CandidatesKept ==
    ASSUME TypeOK, NEW e \in Evictors, EvictAct(e), ~EvictList(e)
    PROVE  \/ ev'[e].cands = {}
           \/ ev[e].phase # "idle" /\ ev'[e].cands \subseteq ev[e].cands
<1>1. ev \in [Evictors -> EvictState] /\ ev[e] \in EvictState
  BY DEF TypeOK, EvictTypeOK
<1>2. CASE \E b \in Budgets : EvictStart(e, b)
  BY <1>1, <1>2 DEF EvictStart, NoEvict
<1>3. CASE EvictMeasure(e)
  BY <1>1, <1>3 DEF EvictMeasure, EvictState
<1>4. CASE EvictRemoved(e)
  BY <1>1, <1>4 DEF EvictRemoved, EvictState
<1>5. CASE ev'[e].phase = "idle" /\ ~\E b \in Budgets : EvictStart(e, b)
  <2>1. CASE EvictGiveUp(e) \/ EvictReturn(e) \/ EvictNotEmpty(e) \/ EvictFail(e)
    BY <1>1, <2>1
    DEF EvictGiveUp, EvictReturn, EvictNotEmpty, EvictFail, NoEvict
  <2>2. CASE EvictMeasured(e)
    <3>1. \/ ev'[e] = NoEvict
          \/ ev'[e] = [ev[e] EXCEPT !.phase = "list",
                                    !.left = {c \in Cells : HasFiles(c)}]
      BY <1>1, <2>2 DEF EvictMeasured
    <3>2. CASE ev'[e] = NoEvict
      BY <3>2 DEF NoEvict
    <3>3. CASE ev'[e] = [ev[e] EXCEPT !.phase = "list",
                                      !.left = {c \in Cells : HasFiles(c)}]
      BY <1>1, <1>5, <3>3 DEF EvictState
    <3>4. QED BY <3>1, <3>2, <3>3
  <2>3. CASE EvictTake(e)
    BY <1>1, <1>5, <2>3 DEF EvictTake, RemoveNext, EvictState
  <2>4. CASE EvictLock(e) \/ EvictSkip(e)
    BY <1>1, <1>5, <2>4 DEF EvictLock, EvictSkip, EvictState
  <2>5. CASE EvictUnlink(e)
    BY <1>1, <1>5, <2>5 DEF EvictUnlink, EvictState
  <2>6. QED BY <1>3, <1>4, <1>5, <2>1, <2>2, <2>3, <2>4, <2>5 DEF EvictAct
<1>6. CASE ev[e].phase # "idle" /\ ev'[e].phase # "idle"
           /\ ~EvictMeasure(e) /\ ~EvictRemoved(e)
  BY <1>6, OtherEvicts
<1>7. CASE ev[e].phase = "idle" /\ ~\E b \in Budgets : EvictStart(e, b)
  BY <1>7 DEF EvictAct, EvictMeasure, EvictMeasured, EvictList, EvictGiveUp,
     EvictLock, EvictSkip, EvictTake, EvictUnlink, EvictRemoved, EvictReturn,
     EvictNotEmpty, EvictFail
<1>8. QED BY <1>2, <1>3, <1>4, <1>5, <1>6, <1>7

\* No directory comes back to a cell that has gone, and none grows younger.
LEMMA AgedStep ==
    ASSUME NEW s0 \in Stores, Stores = {s0}, ~EvictBesideFill, LeastInv,
           [Next]_vars, NEW e \in Evictors
    PROVE  Aged(e)'
<1>1. TypeOK /\ TypeOK'
  BY NextTyped DEF LeastInv, BudgetInv, HoldsInv
<1> SUFFICES ASSUME ev'[e].phase # "idle", NEW v \in ev'[e].cands,
                    HasFiles(v.cell)'
             PROVE  v.used <= ClockOf(v.cell)'
  BY DEF Aged
<1>2. v.cell \in Cells /\ v.used \in Nat
  <2>1. v \in Candidate
    BY <1>1 DEF TypeOK, EvictTypeOK, EvictState
  <2>2. QED BY <2>1, TimeIsNat DEF Candidate
<1>3. CASE FillStep
  BY <1>1, <1>3, FillOrEvict DEF LeastInv, BudgetInv, NobodyEvicts
<1>4. CASE ~FillStep
  <2>1. HasFiles(v.cell) /\ ClockOf(v.cell) <= ClockOf(v.cell)'
    BY <1>2, <1>4, ClocksRise
  <2>2. /\ ClockOf(v.cell) \in Nat /\ ClockOf(v.cell)' \in Nat
    <3>1. /\ mtime[v.cell] \in Nat /\ mtime'[v.cell] \in Nat
          /\ info[v.cell] # None => info[v.cell].used \in Nat
          /\ info'[v.cell] # None => info'[v.cell].used \in Nat
      <4>1. /\ mtime[v.cell] \in Time /\ mtime'[v.cell] \in Time
            /\ info[v.cell] # None => info[v.cell] \in CellInfo
            /\ info'[v.cell] # None => info'[v.cell] \in CellInfo
        BY <1>1, <1>2 DEF TypeOK, DiskTypeOK
      <4>2. QED BY <4>1, TimeIsNat DEF CellInfo
    <3>2. QED BY <3>1 DEF ClockOf
  <2>3. v.used <= ClockOf(v.cell)
    <3>1. CASE EvictStep
      <4>1. PICK d \in Evictors :
                  EvictAct(d) /\ \A x \in Evictors \ {d} : ev'[x] = ev[x]
        BY <1>1, <3>1, OneEvicts
      <4>2. CASE d # e
        BY <2>1, <4>1, <4>2 DEF LeastInv, Aged
      <4>3. CASE d = e /\ EvictList(e)
        <5>1. CASE v \in ev[e].cands
          BY <1>1, <2>1, <4>3, <5>1, ListedAsItIs DEF LeastInv, Aged
        <5>2. CASE v \notin ev[e].cands
          <6>1. v.used = ClockOf(v.cell)
            BY <1>1, <4>3, <5>2, ListedAsItIs
          <6>2. QED BY <1>2, <6>1
        <5>3. QED BY <5>1, <5>2
      <4>4. CASE d = e /\ ~EvictList(e)
        <5>1. ev[e].phase # "idle" /\ v \in ev[e].cands
          BY <1>1, <4>1, <4>4, CandidatesKept
        <5>2. QED BY <2>1, <5>1 DEF LeastInv, Aged
      <4>5. QED BY <4>2, <4>3, <4>4
    <3>2. CASE ~EvictStep
      <4>1. ev'[e] = ev[e]
        BY <3>2, EvictIsKept DEF NoEvict
      <4>2. QED BY <2>1, <4>1 DEF LeastInv, Aged
    <3>3. QED BY <3>1, <3>2
  <2>4. QED BY <1>2, <2>1, <2>2, <2>3
<1>5. QED BY <1>3, <1>4

LEMMA LeastStep ==
    ASSUME NEW s0 \in Stores, Stores = {s0}, ~EvictBesideFill, ~HoldBesideFill,
           LeastInv, TouchesAreShort, [Next]_vars
    PROVE  LeastInv'
<1>1. TypeOK
  BY DEF LeastInv, BudgetInv, HoldsInv
<1>2. BudgetInv'
  BY BudgetStep DEF LeastInv
<1>3. FillsApart' /\ ClocksArePast'
  BY <1>1, ApartStep, ClocksStep DEF LeastInv
<1>4. TouchInv'
  BY <1>1, TouchStep DEF LeastInv
<1>5. \A e \in Evictors : Aged(e)'
  BY AgedStep
<1>6. QED BY <1>2, <1>3, <1>4, <1>5 DEF LeastInv

LEMMA InitLeast == Init => LeastInv
<1> SUFFICES ASSUME Init PROVE LeastInv
  OBVIOUS
<1>1. BudgetInv
  BY InitBudget
<1>2. FillsApart /\ TouchInv /\ \A e \in Evictors : Aged(e)
  BY DEF Init, NoFill, NoHold, NoEvict, FillsApart, NobodyFills, TouchInv,
     TouchesApart, DueIsMarked, TouchesAreLate, Midway, Aged
<1>3. ClocksArePast
  BY DEF Init, NoFill, NoHold, ClocksArePast
<1>4. QED BY <1>1, <1>2, <1>3 DEF LeastInv

\* The cell an eviction takes is, of all on the disk that it may take, the one
\* least recently used: by the clocks as they are at that moment, not only as
\* they were listed.  One process, evictions and touches out of acquisitions,
\* and touches shorter than touchEvery (evict.go, Evict and candidates).
THEOREM LeastRecentlyUsedGoes ==
    ASSUME NEW s0 \in Stores, Stores = {s0}, ~EvictBesideFill, ~HoldBesideFill
    PROVE  Spec /\ []TouchesAreShort => LeastRecentlyUsedFirst
<1>1. Init => LeastInv
  BY InitLeast
<1>2. LeastInv /\ TouchesAreShort /\ [Next]_vars => LeastInv'
  BY LeastStep
<1>3. LeastInv /\ [Next]_vars =>
        [\A e \in Evictors :
            ev[e].phase = "choose" /\ ev'[e].phase = "remove"
            => \A c \in Cells \ {ev'[e].victim.cell} :
                  HasFiles(c) /\ held[StoreOf[e]][c] = 0
                  => ev'[e].victim.used <= ClockOf(c)]_vars
  <2> SUFFICES ASSUME LeastInv, [Next]_vars, NEW e \in Evictors,
                      ev[e].phase = "choose", ev'[e].phase = "remove",
                      NEW c \in Cells \ {ev'[e].victim.cell},
                      HasFiles(c), held[StoreOf[e]][c] = 0
               PROVE  ev'[e].victim.used <= ClockOf(c)
    OBVIOUS
  <2>1. TypeOK
    BY DEF LeastInv, BudgetInv, HoldsInv
  <2>2. EvictTake(e)
    BY <2>1, RemovalBegins
  <2>3. PICK v \in Oldest(ev[e].cands) : EvictTake(e)!(v)
    BY <2>2 DEF EvictTake
  <2>4. ev'[e].victim = v
    BY <2>1, <2>3 DEF RemoveNext, TypeOK, EvictTypeOK, EvictState
  <2>5. c \in CandidateCells(e)
    BY DEF LeastInv, BudgetInv, Accounts, InLock
  <2>6. PICK w \in ev[e].cands : w.cell = c
    BY <2>5 DEF CandidateCells
  <2>7. v # w /\ Older(v, w)
    BY <2>3, <2>4, <2>6 DEF Oldest
  <2>8. v \in Candidate /\ w \in Candidate
    BY <2>1, EvictFields DEF Oldest
  <2>9. v.used \in Nat /\ w.used \in Nat
    BY <2>8, TimeIsNat DEF Candidate
  <2>10. v.used <= w.used
    BY <2>7, <2>9 DEF Older
  <2>11. w.used <= ClockOf(c)
    BY <2>6 DEF LeastInv, Aged
  <2>12. ClockOf(c) \in Nat
    BY <2>1, ClocksAreNat DEF ClockOf
  <2>13. QED BY <2>4, <2>9, <2>10, <2>11, <2>12
<1>4. QED
  BY <1>1, <1>2, <1>3, PTL DEF Spec, LeastRecentlyUsedFirst
=============================================================================
