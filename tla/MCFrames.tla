------------------------------ MODULE MCFrames ------------------------------
(***************************************************************************)
(* Instances of Frames for TLC: two goroutines, and a limit of two entries *)
(* or of a tile and what any tile takes besides.                           *)
(***************************************************************************)
EXTENDS Frames

CONSTANTS a, b, c, w1, w2

FramesAsk == FrameNumbers

OneEach == [k \in Tiles |-> 1]
NoneForA == [k \in Tiles |-> IF k = a THEN 0 ELSE 1]
=============================================================================
