-------------------------------- MODULE Elements --------------------------------
(***************************************************************************)
(* What osmpbf decodes of a blob of an extract: its header, what it inflates *)
(* to, and of a block of data the nodes, ways and relations                *)
(* (blocks.go, header.go, primitive.go, elements.go).                      *)
(***************************************************************************)
EXTENDS Wire

CONSTANTS
    MaxLat, MaxLon,             \* in nanodegrees
    MaxGranularity, DefaultGranularity,
    MaxBlobBytes, MaxBlockBytes,
    MaxStrings, MaxStringBytes, MaxGroupsOfBlock, MaxFeatures,
    MaxTags, MaxRefs, MaxMembers, MaxDense, MaxDenseTags,
    Supported,                  \* the features the program supports
    Zlib                        \* what compressed bytes are of

ASSUME ElementsAssumption ==
    /\ {MaxLat, MaxLon, MaxGranularity, DefaultGranularity} \subseteq Nat \ {0}
    /\ 2 * MaxLon < 2^(WordBits - 1) /\ MaxLat <= MaxLon
    /\ DefaultGranularity <= MaxGranularity /\ MaxGranularity < 2^(NarrowBits - 1)
    /\ MaxBlobBytes <= MaxBlockBytes

-----------------------------------------------------------------------------
(***************************************************************************)
(* Blobs.                                                                  *)
(***************************************************************************)
BlobHeader(b) ==
    LET m == Fields(b, [f \in {1, 3} |-> IF f = 1 THEN "bytes" ELSE "number"])
        sizes == Given(m, 3)
    IN  IF ~m.ok THEN Broken
        ELSE IF \E i \in DOMAIN sizes : sizes[i] >= MaxBlobBytes THEN Broken
        ELSE IF Scalar(m, 1, <<>>) = <<>> \/ sizes = <<>> THEN Broken
        ELSE [ok |-> TRUE, type |-> Scalar(m, 1, <<>>), size |-> Last(sizes)]

Unzlib(compressed, declared) ==
    IF compressed \notin DOMAIN Zlib THEN Broken
    ELSE Within([ok |-> TRUE, v |-> Zlib[compressed]],
                IF declared = 0 THEN MaxBlockBytes - 1 ELSE declared)

\* Uncompressed or with zlib, and not both; 4 to 7 are what it does not read.
Inflate(blob) ==
    LET m == Fields(blob, [f \in 1..7 |-> IF f = 2 THEN "number" ELSE "bytes"])
        sizes == Given(m, 2)
        raw == Given(m, 1)
        zlib == Given(m, 3)
    IN  IF ~m.ok THEN Broken
        ELSE IF \E i \in DOMAIN sizes : sizes[i] >= MaxBlockBytes THEN Broken
        ELSE IF \E f \in 4..7 : Given(m, f) # <<>> THEN Broken
        ELSE IF (raw = <<>>) = (zlib = <<>>) THEN Broken
        ELSE IF raw # <<>> THEN [ok |-> TRUE, v |-> Last(raw)]
        ELSE Unzlib(Last(zlib), Scalar(m, 2, 0))

\* The header block: whether the program can read such a file.
DecodeHeader(b) ==
    LET m == Fields(b, [f \in {4, 5} |-> "bytes"]) IN
    /\ m.ok
    /\ Len(Given(m, 4)) <= MaxFeatures /\ Len(Given(m, 5)) <= MaxFeatures
    /\ ToSet(Given(m, 4)) \subseteq Supported

-----------------------------------------------------------------------------
(***************************************************************************)
(* A block of data.                                                        *)
(***************************************************************************)
DecodeStringTable(b) ==
    LET m == Fields(b, [f \in {1} |-> "bytes"])
        strings == Given(m, 1)
    IN  IF ~m.ok THEN Broken
        ELSE IF Len(strings) > MaxStrings THEN Broken
        ELSE IF \E i \in DOMAIN strings : Len(strings[i]) > MaxStringBytes THEN Broken
        ELSE [ok |-> TRUE, v |-> strings]

\* An offset no axis has is refused wherever it is written.
OffsetsFit(m, field, limit) ==
    \A v \in ToSet(Signs(Given(m, field))) : -limit <= v /\ v <= limit
Offset(m, field) == Signed(Scalar(m, field, 0), WordBits)

DecodePrimitiveBlock(b) ==
    LET m == Fields(b, [f \in {1, 2} \cup 17..20 |-> IF f < 17 THEN "bytes" ELSE "number"])
        tables == Over(DecodeStringTable, Given(m, 1))
        g == Scalar(m, 17, DefaultGranularity)
    IN  IF ~m.ok THEN Broken
        ELSE IF \E i \in DOMAIN tables : ~tables[i].ok THEN Broken
        ELSE IF Len(Given(m, 2)) > MaxGroupsOfBlock THEN Broken
        ELSE IF \E v \in ToSet(Given(m, 17)) : v > MaxGranularity THEN Broken
        ELSE IF \E v \in ToSet(Given(m, 18)) : v >= 2^(NarrowBits - 1) THEN Broken
        ELSE IF ~OffsetsFit(m, 19, MaxLat) \/ ~OffsetsFit(m, 20, MaxLon) THEN Broken
        ELSE IF g = 0 THEN Broken
        ELSE [ok |-> TRUE, groups |-> Given(m, 2), granularity |-> g,
              strings |-> IF tables = <<>> THEN <<>> ELSE Last(tables).v,
              lat |-> Offset(m, 19), lon |-> Offset(m, 20)]

\* String 0 is no string, nor is one past the table.
StringAt(block, i) ==
    IF i \in 1..Len(block.strings) - 1 THEN block.strings[i + 1] ELSE <<>>

Place3(block, lat, lon) ==
    [lat |-> block.lat + block.granularity * lat, lon |-> block.lon + block.granularity * lon]

\* On the Earth before the block's origin is applied and after.
OnEarth(block, lat, lon) ==
    LET g == block.granularity
        at == Place3(block, lat, lon)
        Inside(x, limit) == -limit <= x /\ x <= limit
    IN  /\ Inside(lat, MaxLat \div g) /\ Inside(lon, MaxLon \div g)
        /\ Inside(at.lat, MaxLat) /\ Inside(at.lon, MaxLon)

\* Mutant of Undelta: each from the one before it alone.
UndeltaOnce(deltas) ==
    [i \in DOMAIN deltas |-> IF i = 1 THEN deltas[1] ELSE deltas[i - 1] + deltas[i]]

\* Each the sum of those up to it, in a word that wraps.
Undelta(deltas) ==
    LET Sum(n) == FoldLeft(LAMBDA a, d : a + d, 0, SubSeq(deltas, 1, n))
    IN  [i \in DOMAIN deltas |-> Signed(Sum(i) % 2^WordBits, WordBits)]

\* Packed integers of the narrower kind.
Small(m, field, most) ==
    LET all == Signs(Listed(m, field)) IN
    IF Len(all) > most \/ \E i \in DOMAIN all : ~FitsSigned(all[i]) THEN Broken
    ELSE [ok |-> TRUE, v |-> all]
Deltas(m, field, most) ==
    IF Len(Listed(m, field)) > most THEN Broken
    ELSE [ok |-> TRUE, v |-> Undelta(Unzigzags(Listed(m, field)))]

\* The tags of a node, a way or a relation: as many keys as values.
PairedTags(m) ==
    LET keys == Small(m, 2, MaxTags)
        vals == Small(m, 3, MaxTags)
    IN  IF ~keys.ok \/ ~vals.ok THEN Broken
        ELSE IF Len(keys.v) # Len(vals.v) THEN Broken
        ELSE [ok |-> TRUE, v |-> [i \in DOMAIN keys.v |-> <<keys.v[i], vals.v[i]>>]]

-----------------------------------------------------------------------------
(***************************************************************************)
(* Elements.  Each decoder answers the elements of one field of a group.    *)
(***************************************************************************)
PlainNode(block, b) ==
    LET m == Fields(b, [f \in {1, 2, 3, 8, 9} |->
                           IF f \in {2, 3} THEN "packed" ELSE "blindly"])
        Read1(f) == Unzigzag(Scalar(m, f, 0))
    IN  IF ~m.ok THEN Broken
        ELSE IF ~OnEarth(block, Read1(8), Read1(9)) \/ ~PairedTags(m).ok THEN Broken
        ELSE [ok |-> TRUE, v |-> <<[id |-> Read1(1), at |-> Place3(block, Read1(8), Read1(9)),
                                    tags |-> PairedTags(m).v]>>]

\* The runs of keys and values, each ended by a 0, one for each node; or none
\* at all for any.
RECURSIVE DenseTags(_, _)
DenseTags(kv, nodes) ==
    LET zeros == {i \in DOMAIN kv : i % 2 = 1 /\ kv[i] = 0}
        n == (CHOOSE i \in zeros : \A j \in zeros : i <= j) - 1
        rest == DenseTags(SubSeq(kv, n + 2, Len(kv)), nodes - 1)
    IN  IF nodes = 0 THEN (IF kv = <<>> THEN [ok |-> TRUE, v |-> <<>>] ELSE Broken)
        ELSE IF zeros = {} THEN Broken
        ELSE IF n \div 2 > MaxTags \/ ~rest.ok THEN Broken
        ELSE [ok |-> TRUE,
              v |-> <<[i \in 1..n \div 2 |-> <<kv[2 * i - 1], kv[2 * i]>>]>> \o rest.v]

DenseNodes(block, b) ==
    LET m == Fields(b, [f \in {1, 8, 9, 10} |-> "packed"])
        ids == Deltas(m, 1, MaxDense)
        lats == Deltas(m, 8, MaxDense)
        lons == Deltas(m, 9, MaxDense)
        kv == Small(m, 10, MaxDenseTags)
        tags == IF kv.v = <<>> THEN [ok |-> TRUE, v |-> [i \in DOMAIN ids.v |-> <<>>]]
                ELSE DenseTags(kv.v, Len(ids.v))
    IN  IF ~m.ok THEN Broken
        ELSE IF ~(ids.ok /\ lats.ok /\ lons.ok /\ kv.ok) THEN Broken
        ELSE IF Len(lats.v) # Len(ids.v) \/ Len(lons.v) # Len(ids.v) THEN Broken
        ELSE IF \E i \in DOMAIN ids.v : ~OnEarth(block, lats.v[i], lons.v[i]) THEN Broken
        ELSE IF ~tags.ok THEN Broken
        ELSE [ok |-> TRUE,
              v |-> [i \in DOMAIN ids.v |->
                       [id |-> ids.v[i], at |-> Place3(block, lats.v[i], lons.v[i]),
                        tags |-> tags.v[i]]]]

DecodeWay(b) ==
    LET m == Fields(b, [f \in {1, 2, 3, 8} |-> IF f = 1 THEN "blindly" ELSE "packed"])
        refs == Deltas(m, 8, MaxRefs)
    IN  IF ~m.ok THEN Broken
        ELSE IF ~refs.ok \/ ~PairedTags(m).ok THEN Broken
        ELSE [ok |-> TRUE, v |-> <<[id |-> Signed(Scalar(m, 1, 0), WordBits),
                                    refs |-> refs.v, tags |-> PairedTags(m).v]>>]

DecodeRelation(block, b) ==
    LET m == Fields(b, [f \in {1, 2, 3, 8, 9, 10} |-> IF f = 1 THEN "blindly" ELSE "packed"])
        roles == Small(m, 8, MaxMembers)
        ids == Deltas(m, 9, MaxMembers)
        types == Small(m, 10, MaxMembers)
    IN  IF ~m.ok THEN Broken
        ELSE IF ~(roles.ok /\ ids.ok /\ types.ok) \/ ~PairedTags(m).ok THEN Broken
        ELSE IF Len(roles.v) # Len(ids.v) \/ Len(types.v) # Len(ids.v) THEN Broken
        ELSE IF ~(ToSet(types.v) \subseteq 0..2) THEN Broken
        ELSE [ok |-> TRUE,
              v |-> <<[id |-> Signed(Scalar(m, 1, 0), WordBits), tags |-> PairedTags(m).v,
                       members |-> [i \in DOMAIN ids.v |->
                                      [type |-> types.v[i], id |-> ids.v[i],
                                       role |-> StringAt(block, roles.v[i])]]]>>]

\* The elements of a kind in every group; fields 1 and 2 of a group are nodes, 3
\* ways and 4 relations.
Decoded(block, f) ==
    CASE f.field = 1 -> PlainNode(block, f.v)
      [] f.field = 2 -> DenseNodes(block, f.v)
      [] f.field = 3 -> DecodeWay(f.v)
      [] f.field = 4 -> DecodeRelation(block, f.v)

Each(block, want) ==
    LET groups == Over(LAMBDA g : Fields(g, [f \in want |-> "bytes"]), block.groups)
        fields == FlattenSeq(Over(LAMBDA g : g.fields, groups))
        got == Over(LAMBDA f : Decoded(block, f), fields)
    IN  IF \E i \in DOMAIN groups : ~groups[i].ok THEN Broken
        ELSE IF \E i \in DOMAIN got : ~got[i].ok THEN Broken
        ELSE [ok |-> TRUE, v |-> FlattenSeq(Over(LAMBDA g : g.v, got))]

EachNode(block) == Each(block, {1, 2})
EachWay(block) == Each(block, {3})
EachRelation(block) == Each(block, {4})

\* The kinds of element there are, by the tags of the groups alone.
HoldsKinds(block) ==
    LET groups == Over(LAMBDA g : Fields(g, [f \in 1..4 |-> "bytes"]), block.groups)
        Kind(f) == CASE f.field \in {1, 2} -> "nodes" [] f.field = 3 -> "ways"
                     [] f.field = 4 -> "relations"
    IN  IF \E i \in DOMAIN groups : ~groups[i].ok THEN Broken
        ELSE [ok |-> TRUE,
              v |-> UNION {{Kind(f) : f \in ToSet(groups[i].fields)} : i \in DOMAIN groups}]

-----------------------------------------------------------------------------
(***************************************************************************)
(* The same elements as others write them.                                 *)
(***************************************************************************)
Redelta(values) ==
    [i \in DOMAIN values |->
       Zigzag(Signed((values[i] - IF i = 1 THEN 0 ELSE values[i - 1]) % 2^WordBits, WordBits))]
KeysAndVals(tags) ==
    IF tags = <<>> THEN <<>>
    ELSE Block(2, Varints([i \in DOMAIN tags |-> tags[i][1]]))
         \o Block(3, Varints([i \in DOMAIN tags |-> tags[i][2]]))
AsPlain(n) ==
    Block(1, Number(1, Zigzag(n.id)) \o KeysAndVals(n.tags)
             \o Number(8, Zigzag(n.lat)) \o Number(9, Zigzag(n.lon)))
AsDense(nodes) ==
    LET Field(n, f(_)) == Block(n, Varints(Redelta(Over(f, nodes))))
        Ended(n) == FlattenSeq(n.tags) \o <<0>>
    IN  Block(2, Field(1, LAMBDA n : n.id) \o Field(8, LAMBDA n : n.lat)
                 \o Field(9, LAMBDA n : n.lon)
                 \o IF \A i \in DOMAIN nodes : nodes[i].tags = <<>> THEN <<>>
                    ELSE Block(10, Varints(FlattenSeq(Over(Ended, nodes)))))
AsWay(id, refs, tags) ==
    Block(3, Number(1, Word(id)) \o KeysAndVals(tags) \o Block(8, Varints(Redelta(refs))))
AsBlock(in, group) ==
    Block(1, Block(1, <<>>) \o Block(1, <<1>>)) \o Block(2, group)
    \o Number(17, in.granularity) \o Number(19, Word(in.lat))

AsRelation(id, members) ==
    Block(4, Number(1, Word(id)) \o Block(8, Varints(Over(LAMBDA m : 1, members)))
             \o Block(9, Varints(Redelta(members)))
             \o Block(10, Varints(Over(LAMBDA m : 0, members))))

\* Nodes are the same whether a block lists them or holds them in a dense run:
\* read, where they are, or refused together; and the ids a way refers to are
\* the ids of the nodes (eachDenseNode and undelta in elements.go).
NodesAreRead(in) ==
    LET block == DecodePrimitiveBlock(AsBlock(in, <<>>))
        Of(group) == DecodePrimitiveBlock(AsBlock(in, group))
        dense == EachNode(Of(AsDense(in.nodes)))
        plain == EachNode(Of(FlattenSeq(Over(AsPlain, in.nodes))))
        ids == Over(LAMBDA n : n.id, in.nodes)
        other == Of(AsWay(-1, ids, <<>>) \o AsRelation(-2, ids))
        way == EachWay(other)
        relation == EachRelation(other)
    IN  /\ dense = plain
        /\ dense.ok <=> \A i \in DOMAIN in.nodes :
              /\ OnEarth(block, in.nodes[i].lat, in.nodes[i].lon)
              /\ Len(in.nodes[i].tags) <= MaxTags
        /\ dense.ok => Over(LAMBDA n : n.id, dense.v) = ids
        /\ way.ok /\ way.v = <<[id |-> -1, refs |-> ids, tags |-> <<>>]>>
        /\ relation.ok
        /\ relation.v[1].id = -2
        /\ relation.v[1].members = Over(LAMBDA n : [type |-> 0, id |-> n, role |-> <<1>>], ids)
        /\ HoldsKinds(other).v = {"ways", "relations"}

\* The bytes of a blob are the ones its only payload holds or inflates to, no
\* longer than it declares; anything else is refused, and so is a blob cut short
\* in a field (inflate and unzlib in blocks.go).
BlobsAreRead(fields, cut) ==
    LET whole == FlattenSeq(fields)
        payloads == SelectSeq(fields, LAMBDA f : f[1] \in {10, 26})
        sizes == SelectSeq(fields, LAMBDA f : f[1] = 16)
        got == Inflate(SubSeq(whole, 1, Len(whole) - cut))
        bytes == IF payloads[1][1] = 10 THEN SubSeq(payloads[1], 3, Len(payloads[1]))
                 ELSE Zlib[SubSeq(payloads[1], 3, Len(payloads[1]))]
        Fits == sizes = <<>> \/ Last(sizes)[2] \in {0} \cup Len(bytes)..MaxBlockBytes
    IN  CASE cut > 0 -> cut < Len(Last(fields)) => ~got.ok
          [] OTHER ->
             /\ got.ok => /\ payloads # <<>>
                          /\ \A i \in DOMAIN payloads : payloads[i][1] = payloads[1][1]
             /\ Len(payloads) = 1 /\ (\A i \in DOMAIN fields : fields[i][1] # 34) =>
                   got = IF payloads[1][1] = 10 \/ Fits THEN [ok |-> TRUE, v |-> bytes]
                         ELSE Broken
=============================================================================
