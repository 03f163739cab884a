----------------------------- MODULE MCTerrain -----------------------------
(***************************************************************************)
(* An instance of Terrain for TLC: three cells, one in a region that goes  *)
(* on where the global archive stops, one in a region that starts deeper,  *)
(* one in no region, and views that ask for more than any of them has.     *)
(***************************************************************************)
EXTENDS Terrain

CONSTANTS a, b, o

TwoRegions == <<"r1", "r2">>
InsideThem == <<{a}, {b}>>
TheirZooms == [global |-> [min |-> 0, max |-> 2],
               coverage |-> [min |-> 0, max |-> 1],
               r1 |-> [min |-> 3, max |-> 3],
               r2 |-> [min |-> 4, max |-> 4]]
=============================================================================
