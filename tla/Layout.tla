------------------------------- MODULE Layout -------------------------------
(***************************************************************************)
(* Zoom ranges as package slice computes with them (slice/layout.go): the  *)
(* range a cell was fetched over, and the range a whole slice reaches.     *)
(***************************************************************************)
EXTENDS Naturals

\* A ZoomRange value whose zooms are drawn from 0..top.
ZoomRange(top) == [min: 0..top, max: 0..top]

\* The range of a slice that holds nothing: its maximum is below its minimum.
EmptyZoom == [min |-> 1, max |-> 0]

IsEmpty(z) == z.max < z.min

InRange(z, zoom) == z.min <= zoom /\ zoom <= z.max

\* Every zoom of b is a zoom of a.
Covers(a, b) == IsEmpty(b) \/ (a.min <= b.min /\ b.max <= a.max)

Lesser(a, b) == IF a <= b THEN a ELSE b
Greater(a, b) == IF a <= b THEN b ELSE a

\* The narrowest range holding both.  Two ranges that do not touch come back
\* as one with nothing in the middle.
UnionOf(a, b) ==
    IF IsEmpty(a) THEN b
    ELSE IF IsEmpty(b) THEN a
    ELSE [min |-> Lesser(a.min, b.min), max |-> Greater(a.max, b.max)]
=============================================================================
