------------------------------ MODULE MCSlice ------------------------------
(***************************************************************************)
(* Instances of Slice for TLC.  A cell's pyramid is three tiles: its own   *)
(* at the cell zoom, 1, and two below it, at zoom 2; the archive has the   *)
(* second of those for no cell.                                            *)
(***************************************************************************)
EXTENDS Slice

CONSTANTS s1, a1, f1, f2, r1, r2, e1, t1, t2a, t2b

Zooms == [t \in Tiles |-> IF t = t1 THEN 1 ELSE 2]

WithoutOne == {p \in Cells \X Tiles : p[2] # t2b}

Actors == Fillers \cup Renders \cup Evictors \cup Adders

OneStore == [p \in Actors |-> s1]

Shallow == [min |-> 1, max |-> 1]
Full == [min |-> 1, max |-> 2]
FromOverview == [min |-> 0, max |-> 2]

ContiguousRanges == {Shallow, FromOverview}
FullOnly == {Full}
TopUps == {Shallow, Full}
=============================================================================
