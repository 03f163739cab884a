--------------------------- MODULE MCAcquireFetch ---------------------------
(***************************************************************************)
(* Instances of AcquireFetch for TLC: the overview, a cell of three tiles  *)
(* and a cell of one.  The archive lacks a tile of the first cell.         *)
(***************************************************************************)
EXTENDS AcquireFetch

CONSTANTS o, a1, a2, a3, b

ThreeGroups == <<{o}, {a1, a2, a3}, {b}>>
LacksA3 == {o, a1, a2, b}
=============================================================================
