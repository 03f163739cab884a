--------------------------------- MODULE Archive ---------------------------------
(***************************************************************************)
(* The reader of PMTiles archives (pmtiles): the numbers of tiles along a   *)
(* Hilbert curve, directories and the leaves they point at, the cache of    *)
(* leaves, and the bytes of a tile.                                        *)
(*                                                                         *)
(* An archive is its header, field by field, and its bytes.                *)
(***************************************************************************)
EXTENDS Wire, FiniteSets, TLC

CONSTANTS
    DeepestZoom,        \* pmtiles.MaxZoom
    MaxLeafDepth, MaxCachedLeaves, MaxRootDirectory,
    DirectoryLimit, MetadataLimit, TileLimit,
    Gunzip              \* what gzip streams are of

ASSUME ArchiveAssumption ==
    /\ {DeepestZoom, MaxLeafDepth, MaxCachedLeaves} \subseteq Nat
    /\ MaxCachedLeaves > 0
    /\ 4^(DeepestZoom + 1) <= 2^WordBits * 3

-----------------------------------------------------------------------------
(***************************************************************************)
(* Tiles by number.                                                        *)
(***************************************************************************)
\* The tiles of every shallower zoom.
ZoomBase(z) == (4^z - 1) \div 3

\* Mutant of Rotate: the right quadrant is turned as the left one is.
RotateLeft(s, p, rx, ry) ==
    IF ry = 1 THEN p ELSE [x |-> p.y, y |-> p.x]

Rotate(s, p, rx, ry) ==
    IF ry = 1 THEN p
    ELSE IF rx = 1 THEN [x |-> s - 1 - p.y, y |-> s - 1 - p.x]
    ELSE [x |-> p.y, y |-> p.x]

\* One bit of x and y at a time, the most significant first.
RECURSIVE HilbertToOffset(_, _)
HilbertToOffset(s, p) ==
    LET rx == (p.x \div s) % 2
        ry == (p.y \div s) % 2
    IN  IF s = 0 THEN 0
        ELSE s * s * (IF rx = 1 THEN 3 - ry ELSE ry)
             + HilbertToOffset(s \div 2, Rotate(s, p, rx, ry))

\* And back, the least significant first.
RECURSIVE OffsetToHilbert(_, _, _, _)
OffsetToHilbert(n, s, t, p) ==
    LET rx == (t \div 2) % 2
        ry == (t + rx) % 2
        q == Rotate(s, p, rx, ry)
    IN  IF s >= n THEN p
        ELSE OffsetToHilbert(n, 2 * s, t \div 4, [x |-> q.x + s * rx, y |-> q.y + s * ry])

ZxyToID(z, x, y) ==
    IF z > DeepestZoom \/ x >= 2^z \/ y >= 2^z THEN Broken
    ELSE [ok |-> TRUE, v |-> ZoomBase(z) + HilbertToOffset(2^z \div 2, [x |-> x, y |-> y])]

IDToZxy(id) ==
    LET zooms == {z \in 0..DeepestZoom : id < ZoomBase(z) + 4^z}
        z == CHOOSE z \in zooms : \A w \in zooms : z <= w
        p == OffsetToHilbert(2^z, 1, id - ZoomBase(z), [x |-> 0, y |-> 0])
    IN  IF zooms = {} THEN Broken ELSE [ok |-> TRUE, z |-> z, x |-> p.x, y |-> p.y]

-----------------------------------------------------------------------------
(***************************************************************************)
(* Directories.                                                            *)
(***************************************************************************)
IsLeaf(e) == e.run = 0
Covers(e, id) == e.id <= id /\ id < e.id + e.run

\* How many numbers from byte i on, whatever follows them.
SomeNumbers(b, i, n) ==
    LET Next1(got, k) ==
          LET u == IF got.ok THEN Uvarint(b, got.next) ELSE Broken IN
          IF u.ok THEN [got EXCEPT !.next = u.next, !.v = Append(@, u.v)] ELSE Broken
    IN  FoldLeft(Next1, [ok |-> TRUE, next |-> i, v |-> <<>>], [k \in 1..n |-> k])

\* The ids of all entries, then their runs, lengths and offsets.
DecodeDirectory(b) ==
    LET count == Uvarint(b, 1)
        n == count.v
        all == SomeNumbers(b, count.next, 4 * n)
        delta(i) == all.v[i]
        run(i) == all.v[n + i]
        length(i) == all.v[2 * n + i]
        offset(i) == all.v[3 * n + i]
        ids == [i \in 1..n |-> FoldLeft(LAMBDA s, d : s + d, 0, SubSeq(all.v, 1, i))]
        at[i \in 1..n] == IF offset(i) = 0 THEN at[i - 1] + length(i - 1) ELSE offset(i) - 1
    IN  IF ~count.ok THEN Broken
        ELSE IF n = 0 \/ n > (Len(b) - count.next + 1) \div 4 \/ ~all.ok THEN Broken
        ELSE IF \E i \in 2..n : delta(i) = 0 THEN Broken
        ELSE IF ids[n] >= 2^WordBits THEN Broken
        ELSE IF \E i \in 1..n : ~FitsUnsigned(run(i)) \/ ~FitsUnsigned(length(i)) THEN Broken
        ELSE IF \E i \in 1..n : length(i) = 0 THEN Broken
        ELSE IF offset(1) = 0 \/ \E i \in 1..n : at[i] >= 2^WordBits THEN Broken
        ELSE [ok |-> TRUE,
              v |-> [i \in 1..n |-> [id |-> ids[i], run |-> run(i), length |-> length(i),
                                     offset |-> at[i]]]]

\* The last entry at or before a tile, if it serves it or points on.
Find(entries, id) ==
    LET before == {i \in DOMAIN entries : entries[i].id <= id}
        e == entries[CHOOSE i \in before : \A j \in before : j <= i]
    IN  IF before = {} THEN Broken
        ELSE IF IsLeaf(e) \/ Covers(e, id) THEN [ok |-> TRUE, v |-> e] ELSE Broken

-----------------------------------------------------------------------------
(***************************************************************************)
(* Reading.                                                                *)
(***************************************************************************)
\* A header the reader can act on.
ParseHeader(h) ==
    /\ h.magic = "PMTiles" /\ h.version = 3
    /\ {h.internal, h.compression} \subseteq {"unknown", "none", "gzip", "brotli", "zstd"}
    /\ h.minZoom <= h.maxZoom /\ h.maxZoom <= DeepestZoom
    /\ h.rootLength \in 1..MaxRootDirectory

\* Where an entry is, inside its section and without leaving a word.
SectionOffset(base, size, e) ==
    IF e.offset + e.length >= 2^WordBits \/ e.offset + e.length > size THEN Broken
    ELSE IF base + e.offset >= 2^WordBits THEN Broken
    ELSE [ok |-> TRUE, v |-> base + e.offset]

ReadAt(a, offset, length, limit) ==
    IF offset >= 2^(WordBits - 1) \/ length > limit THEN Broken
    ELSE IF offset + length > Len(a.bytes) THEN Broken
    ELSE [ok |-> TRUE, v |-> SubSeq(a.bytes, offset + 1, offset + length)]

Decompress(how, read, limit) ==
    IF ~read.ok THEN Broken
    ELSE CASE how = "none" -> Within(read, limit)
           [] how = "gzip" -> IF read.v \in DOMAIN Gunzip
                              THEN Within([ok |-> TRUE, v |-> Gunzip[read.v]], limit) ELSE Broken
           [] OTHER -> Broken

DirectoryAt(a, offset, length) ==
    LET plain == Decompress(a.header.internal, ReadAt(a, offset, length, DirectoryLimit),
                            DirectoryLimit)
    IN  IF plain.ok THEN DecodeDirectory(plain.v) ELSE Broken

Metadata(a) ==
    LET h == a.header IN
    IF h.metadataLength = 0 THEN [ok |-> TRUE, v |-> <<>>]
    ELSE IF ~FitsUnsigned(h.metadataLength) THEN Broken
    ELSE Decompress(h.internal, ReadAt(a, h.metadataOffset, h.metadataLength, MetadataLimit),
                    MetadataLimit)

\* NewReader: the root directory, or no reader.
OpenArchive(a) ==
    IF ParseHeader(a.header) THEN DirectoryAt(a, a.header.rootOffset, a.header.rootLength)
    ELSE Broken

\* A leaf, which the cache has by where it is and how long; a full cache is
\* emptied.
LeafAt(a, cache, e) ==
    LET key == <<e.offset, e.length>>
        at == SectionOffset(a.header.leafOffset, a.header.leafLength, e)
        read == IF at.ok THEN DirectoryAt(a, at.v, e.length) ELSE Broken
        room == IF Cardinality(DOMAIN cache) >= MaxCachedLeaves THEN <<>> ELSE cache
    IN  IF key \in DOMAIN cache THEN [ok |-> TRUE, v |-> cache[key], cache |-> cache]
        ELSE IF ~read.ok THEN [ok |-> FALSE, cache |-> cache]
        ELSE [ok |-> TRUE, v |-> read.v, cache |-> (key :> read.v) @@ room]

\* A tile's location, through the leaves on the way: absent, there, or an error.
RECURSIVE LocateFrom(_, _, _, _, _)
LocateFrom(a, cache, entries, id, depth) ==
    LET found == Find(entries, id)
        e == found.v
        at == SectionOffset(a.header.dataOffset, a.header.dataLength, e)
        leaf == LeafAt(a, cache, e)
        Answer(is, what) == [is |-> is, v |-> what, cache |-> cache]
    IN  IF depth > MaxLeafDepth THEN Answer("error", "loop")
        ELSE IF ~found.ok THEN Answer("absent", <<>>)
        ELSE IF ~IsLeaf(e)
        THEN IF ~at.ok THEN Answer("error", "section")
             ELSE IF at.v + e.length >= 2^(WordBits - 1) THEN Answer("error", "address")
             ELSE Answer("there", [offset |-> at.v, length |-> e.length])
        ELSE IF ~leaf.ok THEN Answer("error", "leaf")
        ELSE LocateFrom(a, leaf.cache, leaf.v, id, depth + 1)

LocateID(a, cache, root, id) == LocateFrom(a, cache, root, id, 0)

\* Its bytes.
TileByID(a, cache, root, id) ==
    LET got == LocateID(a, cache, root, id)
        raw == ReadAt(a, got.v.offset, got.v.length, TileLimit)
        data == Decompress(a.header.compression, raw, TileLimit)
    IN  IF got.is # "there" THEN got
        ELSE IF ~data.ok THEN [got EXCEPT !.is = "error"]
        ELSE [got EXCEPT !.v = data.v]

-----------------------------------------------------------------------------
(***************************************************************************)
(* Archives as others write them: tiles as runs of ids, so many entries to  *)
(* a leaf, so many levels of leaves.                                       *)
(***************************************************************************)
AsDirectory(entries) ==
    LET Id(i) == entries[i].id - IF i = 1 THEN 0 ELSE entries[i - 1].id
        Follows(i) == /\ i > 1
                      /\ entries[i].offset = entries[i - 1].offset + entries[i - 1].length
        Offset1(i) == IF Follows(i) THEN 0 ELSE entries[i].offset + 1
    IN  Varint(Len(entries)) \o Varints([i \in DOMAIN entries |-> Id(i)])
        \o Varints([i \in DOMAIN entries |-> entries[i].run])
        \o Varints([i \in DOMAIN entries |-> entries[i].length])
        \o Varints([i \in DOMAIN entries |-> Offset1(i)])

\* The entries of a level in leaves of k, behind what the leaf section has: the
\* longer section and the entries that point into it.
InLeaves(entries, k, section) ==
    LET Leaf(n) == AsDirectory(SubSeq(entries, (n - 1) * k + 1,
                                      IF n * k < Len(entries) THEN n * k ELSE Len(entries)))
        leaves == [n \in 1..(Len(entries) + k - 1) \div k |-> Leaf(n)]
        Before(n) == section \o FlattenSeq(SubSeq(leaves, 1, n - 1))
    IN  [section |-> section \o FlattenSeq(leaves),
         entries |-> [n \in DOMAIN leaves |->
                        [id |-> entries[(n - 1) * k + 1].id, run |-> 0,
                         length |-> Len(leaves[n]), offset |-> Len(Before(n))]]]

RECURSIVE Levels1(_, _, _, _)
Levels1(entries, k, section, levels) ==
    LET up == InLeaves(entries, k, section) IN
    IF levels = 0 THEN [section |-> section, entries |-> entries]
    ELSE Levels1(up.entries, k, up.section, levels - 1)

\* Tile n of an archive is the bytes <<n, n>>.
AsArchive(runs, k, levels) ==
    LET tiles == [n \in DOMAIN runs |-> [id |-> runs[n][1], run |-> runs[n][2],
                                         length |-> 2, offset |-> 2 * n - 2]]
        data == FlattenSeq([n \in DOMAIN runs |-> <<n, n>>])
        all == Levels1(tiles, k, <<>>, levels)
        root == AsDirectory(all.entries)
    IN  [bytes |-> root \o all.section \o data,
         header |-> [magic |-> "PMTiles", version |-> 3, internal |-> "none",
                     compression |-> "none", minZoom |-> 0, maxZoom |-> DeepestZoom,
                     rootOffset |-> 0, rootLength |-> Len(root),
                     leafOffset |-> Len(root), leafLength |-> Len(all.section),
                     dataOffset |-> Len(root) + Len(all.section), dataLength |-> Len(data),
                     metadataOffset |-> 0, metadataLength |-> 0]]

\* Every tile of a run is read, whatever was looked up before, and nothing else
\* is there; too deep an archive is refused (pmtiles.go, locateByID and leafAt).
ArchiveIsRead(runs, k, levels, ids) ==
    LET a == AsArchive(runs, k, levels)
        root == OpenArchive(a)
        Serves(id) == {n \in DOMAIN runs : runs[n][1] <= id /\ id < runs[n][1] + runs[n][2]}
        Ask(acc, id) == LET got == TileByID(a, acc.cache, root.v, id) IN
                        [cache |-> got.cache, all |-> Append(acc.all, got)]
        answers == FoldLeft(Ask, [cache |-> <<>>, all |-> <<>>], ids).all
    IN  /\ root.ok
        /\ \A i \in DOMAIN ids :
              LET got == answers[i] IN
              /\ Cardinality(DOMAIN got.cache) <= MaxCachedLeaves
              /\ levels <= MaxLeafDepth =>
                    IF Serves(ids[i]) = {} THEN got.is = "absent"
                    ELSE got.is = "there" /\ \E n \in Serves(ids[i]) : got.v = <<n, n>>
              /\ levels > MaxLeafDepth => got.is \in {"absent", "error"}
        /\ ~OpenArchive([a EXCEPT !.header.rootLength = @ - 1]).ok

\* A tile's number gives the tile back, and the next number of a zoom is a
\* neighbour's (tileid.go, ZxyToID and IDToZxy).
TilesAreInOrder(z, x, y) ==
    LET id == ZxyToID(z, x, y)
        here == IDToZxy(id.v)
        next == IDToZxy(id.v + 1)
        Apart(a, b) == IF a > b THEN a - b ELSE b - a
    IN  IF ~id.ok THEN z > DeepestZoom \/ ~({x, y} \subseteq 0..2^z - 1)
        ELSE /\ here = [ok |-> TRUE, z |-> z, x |-> x, y |-> y]
             /\ IF id.v + 1 = ZoomBase(z + 1)
                THEN next.ok => next = [ok |-> TRUE, z |-> z + 1, x |-> 0, y |-> 0]
                ELSE next.z = z /\ Apart(next.x, x) + Apart(next.y, y) = 1
=============================================================================
