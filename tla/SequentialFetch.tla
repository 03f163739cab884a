--------------------------- MODULE SequentialFetch ---------------------------
(***************************************************************************)
(* What a fetch does to the store, as fetch.go's documentation has it:     *)
(* "one group after the next in the plan's order", each cell "stored       *)
(* whole, in order, and the rest not begun".  There are no requests, no    *)
(* goroutines and no buffers here: a group is read in one step and then    *)
(* stored tile by tile, every tile the archive holds among them.           *)
(***************************************************************************)
EXTENDS Naturals

CONSTANTS
    Groups,             \* 1..N, in the plan's order
    Overviews,          \* the groups of shared tiles, which no cell.json ends
    Refs,               \* the tiles of each group
    Archive             \* the tiles the archive holds

VARIABLES
    tiles,              \* the tiles on disk
    complete,           \* the cells with a cell.json
    phase,              \* "idle", "reading", "storing" or "ended"
    cur,                \* the group it is at
    rest                \* the tiles of that group still to store

vars == <<tiles, complete, phase, cur, rest>>

Init ==
    /\ tiles = {}
    /\ complete = {}
    /\ phase = "idle"
    /\ cur = 1
    /\ rest = {}

Begin ==
    /\ phase = "idle"
    /\ phase' = "reading"
    /\ cur' = 1
    /\ UNCHANGED <<tiles, complete, rest>>

Read ==
    /\ phase = "reading"
    /\ phase' = "storing"
    /\ rest' = Refs[cur]
    /\ UNCHANGED <<tiles, complete, cur>>

Store(t) ==
    /\ phase = "storing"
    /\ t \in rest
    /\ rest' = rest \ {t}
    /\ tiles' = tiles \cup ({t} \cap Archive)
    /\ UNCHANGED <<complete, phase, cur>>

Record ==
    /\ phase = "storing"
    /\ rest = {}
    /\ complete' = complete \cup ({cur} \ Overviews)
    /\ cur' = cur + 1
    /\ phase' = IF cur + 1 \in Groups THEN "reading" ELSE "ended"
    /\ UNCHANGED <<tiles, rest>>

\* It ends early: an error, a cancelled context, nothing to fetch.
Stop ==
    /\ phase \in {"reading", "storing"}
    /\ phase' = "ended"
    /\ rest' = {}
    /\ UNCHANGED <<tiles, complete, cur>>

\* The program is killed, or asks again.
Again ==
    /\ phase' = "idle"
    /\ cur' = 1
    /\ rest' = {}
    /\ UNCHANGED <<tiles, complete>>

\* A cell's directory is removed while nobody fetches.
Vanish(g) ==
    /\ phase \in {"idle", "ended"}
    /\ tiles' = tiles \ Refs[g]
    /\ complete' = complete \ {g}
    /\ UNCHANGED <<phase, cur, rest>>

Next ==
    \/ Begin
    \/ Read
    \/ \E g \in Groups : \E t \in Refs[g] : Store(t)
    \/ Record
    \/ Stop
    \/ Again
    \/ \E g \in Groups \ Overviews : Vanish(g)

Spec == Init /\ [][Next]_vars
=============================================================================
