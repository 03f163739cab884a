---------------------------- MODULE MCBoundaries ----------------------------
(***************************************************************************)
(* An instance of Boundaries for TLC: two processes, one region, a host    *)
(* that offers an extract and one cut short, and a local one with no more  *)
(* than relations.                                                         *)
(***************************************************************************)
EXTENDS Boundaries, TLC

CONSTANTS p1, p2, old, short, empty

Blob(relations, ways, nodes) ==
    [type |-> "OSMData", whole |-> TRUE,
     relations |-> relations, ways |-> ways, nodes |-> nodes]

Town(way) == [id |-> 1, members |-> <<[type |-> "way", id |-> way, role |-> "outer"]>>,
              tags |-> "boundary" :> "administrative" @@ "admin_level" :> 7
                       @@ "name" :> "Town"]

Relations == Blob(<<Town(1)>>, <<>>, <<>>)
Ways(refs) == Blob(<<>>, <<[id |-> 1, refs |-> refs]>>, <<>>)
Nodes(at) == Blob(<<>>, <<>>, <<[id |-> 1, at |-> at], [id |-> 2, at |-> at]>>)

Editions ==
    old :> <<Nodes("here"), Ways(<<1, 2>>), Relations>>
    @@ short :> <<Nodes("here")>>
    @@ empty :> <<Relations>>

Runs(from, keeps) ==
    [osm: {TRUE}, region: Regions, from: from, keep: keeps, yes: {TRUE}]
TwoRuns ==
    p1 :> Runs({None}, BOOLEAN)
          \cup [osm: {FALSE}, region: {"dk"}, from: {None}, keep: {FALSE}, yes: {FALSE}]
    @@ p2 :> Runs({None}, {FALSE}) \cup Runs({empty}, {FALSE})

Files == <<"countries", "regions">>
=============================================================================
