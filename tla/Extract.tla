-------------------------------- MODULE Extract --------------------------------
(***************************************************************************)
(* What boundary/osm reads out of an OpenStreetMap extract in three passes  *)
(* (pipeline.go), and which blobs of the file osmpbf reads for it           *)
(* (blocks.go).                                                            *)
(*                                                                         *)
(* A file is a sequence of blobs.  A blob has a type, is whole or does not  *)
(* decode, and, when it is data, holds relations, ways and nodes.  Each     *)
(* pass is given its file, because each opens it again: the three are one   *)
(* file only if nobody replaced it in between.  Where a pass fails, which   *)
(* of several errors it is does not matter.                                *)
(***************************************************************************)
EXTENDS Integers, Sequences, SequencesExt, FiniteSets, FiniteSetsExt

CONSTANTS
    Levels,             \* the admin_level values wanted; empty for every one
    Language,           \* the key of the name preferred, or "name"
    MaxBoundaries, MaxWays, MaxNodes, MaxPoints

ASSUME ExtractAssumption ==
    /\ Levels \subseteq 1..12
    /\ {MaxBoundaries, MaxWays, MaxNodes, MaxPoints} \subseteq Nat

Failed == [ok |-> FALSE]

-----------------------------------------------------------------------------
(***************************************************************************)
(* Blobs and blocks.                                                       *)
(***************************************************************************)
IsData(blob) == blob.type = "OSMData"
Data(file) == SelectSeq(file, IsData)

\* How many of the first n blobs are data.
DataBefore(file, n) == Len(SelectSeq(SubSeq(file, 1, n), IsData))

\* The elements a block holds, and by which the later passes choose.
Holds(block) ==
    (IF block.nodes # <<>> THEN {"nodes"} ELSE {})
    \cup (IF block.ways # <<>> THEN {"ways"} ELSE {})
    \cup (IF block.relations # <<>> THEN {"relations"} ELSE {})

\* The last of the first pass's blocks that holds what is wanted.
LastOf(kinds, want) == Max({n \in DOMAIN kinds : want \in kinds[n]} \cup {0})

\* Mutant of Wants: the blocks are counted from one too few.
WantsNext(kinds, n, want) ==
    n + 1 \in DOMAIN kinds /\ want \in kinds[n + 1]

\* Whether a later pass reads data block n.
Wants(kinds, n, want) ==
    n \in DOMAIN kinds /\ want \in kinds[n]

\* The first pass reads every data block and every header.  Blobs of another
\* type are read and not inflated.
ReadsAll(file) ==
    IF \E n \in DOMAIN file :
          ~file[n].whole /\ file[n].type \in {"OSMHeader", "OSMData"}
    THEN Failed
    ELSE [ok |-> TRUE, blocks |-> Data(file)]

\* Mutant of ReadsOnly: the end of the file ends the pass.
ReadsOnlyToTheEnd(file, kinds, want) ==
    LET blocks == Data(file)
        wanted == SelectSeq([n \in DOMAIN blocks |-> n], LAMBDA n : Wants(kinds, n, want))
    IN  [ok |-> TRUE, blocks |-> [i \in DOMAIN wanted |-> blocks[wanted[i]]]]

\* A later pass inflates the blocks it wants, and ends with the last of them.
\* It fails when the file ends before that.
ReadsOnly(file, kinds, want) ==
    LET last == LastOf(kinds, want)
        ended == Len(Data(file)) < last
        upto == IF ended THEN Len(file)
                ELSE CHOOSE n \in DOMAIN file : IsData(file[n]) /\ DataBefore(file, n) = last
        Inflates(n) == \/ file[n].type = "OSMHeader"
                       \/ IsData(file[n]) /\ Wants(kinds, DataBefore(file, n), want)
        wanted == SelectSeq([n \in 1..last |-> n], LAMBDA n : Wants(kinds, n, want))
    IN  IF last = 0 THEN [ok |-> TRUE, blocks |-> <<>>]
        ELSE IF ended \/ \E n \in 1..upto : Inflates(n) /\ ~file[n].whole THEN Failed
        ELSE [ok |-> TRUE, blocks |-> [i \in DOMAIN wanted |-> Data(file)[wanted[i]]]]

-----------------------------------------------------------------------------
(***************************************************************************)
(* Tags.                                                                   *)
(***************************************************************************)
Tag(tags, key) == IF key \in DOMAIN tags THEN tags[key] ELSE ""

\* The extent of a city or a town, which is no level.
CityPlace(tags) ==
    IF Tag(tags, "boundary") = "place" /\ Tag(tags, "place") \in {"city", "town"}
    THEN Tag(tags, "place") ELSE ""

\* A level is a number from 1 to 12; anything else the tag holds is 0.
AdminLevel(tags) ==
    IF "admin_level" \in DOMAIN tags /\ tags["admin_level"] \in 1..12
    THEN tags["admin_level"] ELSE 0

PreferredName(tags) ==
    IF Tag(tags, Language) # "" THEN Tag(tags, Language) ELSE Tag(tags, "name")

\* Whether a relation is kept.
IsBoundary(r) ==
    /\ \/ CityPlace(r.tags) # ""
       \/ /\ Tag(r.tags, "boundary") = "administrative"
          /\ AdminLevel(r.tags) # 0
          /\ Levels = {} \/ AdminLevel(r.tags) \in Levels
    /\ PreferredName(r.tags) # ""

-----------------------------------------------------------------------------
(***************************************************************************)
(* The passes.                                                             *)
(***************************************************************************)
Concat(f(_), blocks) == FlattenSeq([n \in DOMAIN blocks |-> f(blocks[n])])

WayMembers(r) == SelectSeq(r.members, LAMBDA m : m.type = "way")

\* Pass 1: the relations, the ways they name and what each block holds.  The
\* limit on ways counts every mention (idSet.add).
ReadRelations(file) ==
    LET in == ReadsAll(file)
        found == SelectSeq(Concat(LAMBDA b : b.relations, in.blocks), IsBoundary)
        named == Concat(WayMembers, found)
    IN  IF ~in.ok THEN Failed
        ELSE IF Len(found) > MaxBoundaries \/ Len(named) > MaxWays THEN Failed
        ELSE [ok |-> TRUE, found |-> found,
              ways |-> {named[i].id : i \in DOMAIN named},
              kinds |-> [n \in DOMAIN in.blocks |-> Holds(in.blocks[n])]]

\* A way without nodes is kept as one only if an earlier way of its block had
\* some, and so gave the decoder a buffer (slices.Clone of nil is nil).
KeptWays(block) ==
    LET kept == SelectSeq([k \in DOMAIN block.ways |-> k],
                          LAMBDA k : \E j \in 1..k : block.ways[j].refs # <<>>)
    IN  [i \in DOMAIN kept |-> block.ways[kept[i]]]

\* Pass 2: the nodes of the ways asked for.
ReadWays(file, first) ==
    LET in == ReadsOnly(file, first.kinds, "ways")
        Wanted(w) == w.id \in first.ways
        all == SelectSeq(Concat(LAMBDA b : b.ways, in.blocks), Wanted)
        kept == SelectSeq(Concat(KeptWays, in.blocks), Wanted)
    IN  IF ~in.ok THEN Failed
        ELSE IF \E i, j \in DOMAIN all : i # j /\ all[i].id = all[j].id THEN Failed
        ELSE IF Len(Concat(LAMBDA w : w.refs, all)) > MaxNodes THEN Failed
        ELSE [ok |-> TRUE,
              refs |-> [id \in {kept[i].id : i \in DOMAIN kept} |->
                          (CHOOSE w \in ToSet(kept) : w.id = id).refs]]

NodesOf(refs) == UNION {ToSet(refs[id]) : id \in DOMAIN refs}

\* Pass 3: where those nodes are.  Each must be there, and once.
ReadNodes(file, first, second) ==
    LET in == ReadsOnly(file, first.kinds, "nodes")
        wanted == NodesOf(second.refs)
        kept == SelectSeq(Concat(LAMBDA b : b.nodes, in.blocks),
                          LAMBDA n : n.id \in wanted)
    IN  IF ~in.ok THEN Failed
        ELSE IF \E i, j \in DOMAIN kept : i # j /\ kept[i].id = kept[j].id THEN Failed
        ELSE IF {kept[i].id : i \in DOMAIN kept} # wanted THEN Failed
        ELSE [ok |-> TRUE,
              at |-> [id \in wanted |-> (CHOOSE n \in ToSet(kept) : n.id = id).at]]

\* The three joined: a boundary has the ways the file holds of those it names.
Collect(first, second, third) ==
    LET Has(m) == m.id \in DOMAIN second.refs
        WaysOf(r) == [i \in DOMAIN SelectSeq(WayMembers(r), Has) |->
                        LET m == SelectSeq(WayMembers(r), Has)[i] IN
                        [id |-> m.id, role |-> m.role, nodes |-> second.refs[m.id],
                         points |-> [k \in DOMAIN second.refs[m.id] |->
                                        third.at[second.refs[m.id][k]]]]]
        out == [i \in DOMAIN first.found |->
                  LET r == first.found[i] IN
                  [id |-> r.id, name |-> PreferredName(r.tags),
                   place |-> CityPlace(r.tags),
                   level |-> IF CityPlace(r.tags) # "" THEN 0 ELSE AdminLevel(r.tags),
                   ways |-> WaysOf(r)]]
    IN  IF Len(Concat(LAMBDA b : Concat(LAMBDA w : w.points, b.ways), out)) > MaxPoints
        THEN Failed
        ELSE [ok |-> TRUE, boundaries |-> out]

\* Read, with the file each pass opened.  ErrNoBoundaries is no failure.
Read(one, two, three) ==
    LET first == ReadRelations(one)
        second == ReadWays(two, first)
        third == ReadNodes(three, first, second)
    IN  IF ~first.ok THEN Failed
        ELSE IF first.found = <<>> THEN [ok |-> TRUE, boundaries |-> <<>>]
        ELSE IF ~second.ok THEN Failed
        ELSE IF ~third.ok THEN Failed
        ELSE Collect(first, second, third)

\* The same with every block read in every pass.
InOneReading(file) ==
    LET all == [n \in DOMAIN Data(file) |-> {"nodes", "ways", "relations"}]
        first == [ReadRelations(file) EXCEPT !.kinds = all]
        second == ReadWays(file, first)
        third == ReadNodes(file, first, second)
    IN  IF ~ReadRelations(file).ok THEN Failed
        ELSE IF first.found = <<>> THEN [ok |-> TRUE, boundaries |-> <<>>]
        ELSE IF ~second.ok THEN Failed
        ELSE IF ~third.ok THEN Failed
        ELSE Collect(first, second, third)
=============================================================================
