--------------------------------- MODULE Rings ---------------------------------
(***************************************************************************)
(* How boundary/osm joins a boundary's ways into rings (rings.go), and      *)
(* which boundaries become areas (areas.go).                               *)
(*                                                                         *)
(* A way is its role and its nodes; Place says where on a grid a node is.   *)
(* A chain keeps its nodes, where the code keeps their points and the two   *)
(* at its ends, and the ways it is made of.  Points are compared only by    *)
(* winding and wrapping, which are exact on the grid.                      *)
(***************************************************************************)
EXTENDS Integers, Sequences, SequencesExt, FiniteSets, FiniteSetsExt

CONSTANTS
    Place,              \* the position of each node: [x, y]
    MaxForks,           \* how many continuations are considered at one node
    HalfTurn            \* a longer step crosses the antimeridian

ASSUME RingsAssumption == MaxForks \in Nat \ {0} /\ HalfTurn \in Nat

IsInner(way) == way.role \in {"inner", "enclave"}

\* Twice the area, counterclockwise positive, relative to the first point.
Area2(nodes) ==
    LET X(i) == Place[nodes[i]].x - Place[nodes[1]].x
        Y(i) == Place[nodes[i]].y - Place[nodes[1]].y
        next(i) == IF i = Len(nodes) THEN 1 ELSE i + 1
    IN  MapThenSumSet(LAMBDA i : X(i) * Y(next(i)) - X(next(i)) * Y(i), DOMAIN nodes)

Winding(nodes) ==
    IF Len(nodes) < 3 \/ Area2(nodes) = 0 THEN 0
    ELSE IF Area2(nodes) > 0 THEN 1 ELSE -1

Orient(nodes, want) == IF Winding(nodes) = want THEN nodes ELSE Reverse(nodes)

-----------------------------------------------------------------------------
(***************************************************************************)
(* Chains.                                                                 *)
(***************************************************************************)
\* A way that is a loop by itself; one that runs out and back is not.
IsRing(nodes) == Len(nodes) > 3 /\ Head(nodes) = Last(nodes)

StartAt(ways, i) == [nodes |-> ways[i].nodes, ways |-> <<i>>]
Closed(c) == IsRing(c.nodes)
Turned(c) == [c EXCEPT !.nodes = Reverse(@)]

\* The unused ways that have the node as an end, in the file's order, and no
\* more than MaxForks of them.
ForksAt(ways, node, used) ==
    LET live == SelectSeq([i \in DOMAIN ways |-> i],
                   LAMBDA i : i \notin used /\ node \in {Head(ways[i].nodes), Last(ways[i].nodes)})
    IN  SubSeq(live, 1, IF Len(live) < MaxForks THEN Len(live) ELSE MaxForks)

\* Whether way i leads from the chain's tail to its head, by more than a return.
Closes(c, ways, i) ==
    LET n == ways[i].nodes IN
    /\ Len(c.nodes) + Len(n) - 1 > 3
    /\ {Head(n), Last(n)} = {Last(c.nodes), Head(c.nodes)}
    /\ Head(n) = Last(c.nodes) \/ Last(n) = Last(c.nodes)

\* Mutant of NextWay: at a fork the first way is taken.
NextWayAny(c, ways, used) ==
    LET live == ForksAt(ways, Last(c.nodes), used) IN
    IF live = <<>> THEN 0 ELSE live[1]

\* The way that continues the chain, or 0: the only one there is, or the first
\* of several that closes the loop.  Another fork is not guessed at.
NextWay(c, ways, used) ==
    LET live == ForksAt(ways, Last(c.nodes), used)
        closing == SelectSeq(live, LAMBDA i : Closes(c, ways, i))
    IN  IF Len(live) = 1 THEN live[1]
        ELSE IF closing # <<>> THEN closing[1]
        ELSE 0

\* Way i put at the tail, turned if it ends there.  Where only one way is there
\* a loop of it is turned as well; where there are forks it is not.
Joined(c, ways, i, used) ==
    LET n == ways[i].nodes
        back == IF Len(ForksAt(ways, Last(c.nodes), used)) = 1
                THEN Last(n) = Last(c.nodes)
                ELSE Head(n) # Last(c.nodes) \/ Last(n) # Head(c.nodes)
    IN  [nodes |-> c.nodes \o Tail(IF back THEN Reverse(n) ELSE n),
         ways |-> Append(c.ways, i)]

RECURSIVE Extend(_, _, _)
Extend(c, ways, used) ==
    LET i == NextWay(c, ways, used) IN
    IF Closed(c) \/ i = 0 THEN [chain |-> c, used |-> used]
    ELSE Extend(Joined(c, ways, i, used), ways, used \cup {i})

\* The chain that way i is part of: extended from its tail, and unless that
\* closed it, from its head.
ChainOf(ways, i, used) ==
    LET ahead == Extend(StartAt(ways, i), ways, used \cup {i})
        behind == Extend(Turned(ahead.chain), ways, ahead.used)
    IN  IF Closed(ahead.chain) THEN ahead
        ELSE IF Len(behind.chain.ways) = Len(ahead.chain.ways)
             THEN [behind EXCEPT !.chain = ahead.chain]
        ELSE behind

-----------------------------------------------------------------------------
(***************************************************************************)
(* One role's ways into rings and open chains.                             *)
(***************************************************************************)
NoRings == [rings |-> <<>>, open |-> <<>>, used |-> {}]

\* A way too short, or a loop by itself, before anything is joined.
Alone(ways) ==
    LET Put(acc, i) ==
          LET n == ways[i].nodes IN
          IF Len(n) < 2 \/ (IsRing(n) /\ Winding(Front(n)) = 0)
          THEN [acc EXCEPT !.open = Append(@, [nodes |-> n, ways |-> <<i>>]),
                           !.used = @ \cup {i}]
          ELSE IF IsRing(n)
          THEN [acc EXCEPT !.rings = Append(@, [nodes |-> Front(n), ways |-> <<i>>]),
                           !.used = @ \cup {i}]
          ELSE acc
    IN  FoldLeft(Put, NoRings, [i \in DOMAIN ways |-> i])

\* The others, joined.  A loop that encloses nothing is an open chain.
AssembleRole(ways) ==
    LET Put(acc, i) ==
          LET got == ChainOf(ways, i, acc.used)
              c == got.chain
          IN  IF i \in acc.used THEN acc
              ELSE IF Closed(c) /\ Winding(Front(c.nodes)) # 0
              THEN [acc EXCEPT !.used = got.used,
                       !.rings = Append(@, [c EXCEPT !.nodes = Front(@)])]
              ELSE [acc EXCEPT !.used = got.used, !.open = Append(@, c)]
    IN  FoldLeft(Put, Alone(ways), [i \in DOMAIN ways |-> i])

Outers(ways) == SelectSeq(ways, LAMBDA w : ~IsInner(w))
Inners(ways) == SelectSeq(ways, IsInner)

\* A role nobody knows is an outline's.
Assemble(ways) ==
    LET outer == AssembleRole(Outers(ways))
        inner == AssembleRole(Inners(ways))
        Wound(rings, want) == [i \in DOMAIN rings |->
                                 [rings[i] EXCEPT !.nodes = Orient(@, want)]]
    IN  [outer |-> Wound(outer.rings, 1), inner |-> Wound(inner.rings, -1),
         open |-> outer.open \o inner.open]

-----------------------------------------------------------------------------
(***************************************************************************)
(* Areas.                                                                  *)
(***************************************************************************)
\* A ring with a step that long has crossed the antimeridian and cannot be
\* tested against.
Wraps(nodes) ==
    \E i \in DOMAIN nodes :
        LET j == IF i = Len(nodes) THEN 1 ELSE i + 1
            step == Place[nodes[j]].x - Place[nodes[i]].x
        IN  step > HalfTurn \/ -step > HalfTurn

Keep(rings) == SelectSeq(rings, LAMBDA r : ~Wraps(r.nodes))

\* What becomes of a boundary, by the outlines that are left.
Outcome(ways) ==
    LET got == Assemble(ways) IN
    IF Keep(got.outer) = <<>> THEN "unclosed"
    ELSE IF got.open = <<>> THEN "complete" ELSE "partial"

-----------------------------------------------------------------------------
(***************************************************************************)
(* What must hold of the answer, of ways that meet only at their ends.     *)
(***************************************************************************)
Ends(way) == {Head(way.nodes), Last(way.nodes)}

\* A set of open ways that is one loop, apart from all the others: of two ways
\* at each of their ends, and of no part that is a loop.
IsLoop(ways, S) ==
    LET OneLoop(T) == \A n \in UNION {Ends(ways[i]) : i \in T} :
                         /\ Cardinality({i \in T : n \in Ends(ways[i])}) = 2
                         /\ \A i \in DOMAIN ways \ T : ways[i].nodes = <<>> \/ n \notin Ends(ways[i])
    IN  /\ S # {} /\ \A i \in S : Len(ways[i].nodes) >= 2 /\ Cardinality(Ends(ways[i])) = 2
        /\ OneLoop(S)
        /\ \A T \in (SUBSET S) \ {{}, S} : ~OneLoop(T)

\* Ways that share no node but their ends, and run over none twice.
MeetAtEnds(ways) ==
    \A i, j \in DOMAIN ways : \A k \in DOMAIN ways[i].nodes, l \in DOMAIN ways[j].nodes :
        ways[i].nodes[k] = ways[j].nodes[l] =>
           <<i, k>> = <<j, l>> \/ ({k} \subseteq {1, Len(ways[i].nodes)}
                                  /\ {l} \subseteq {1, Len(ways[j].nodes)}
                                  /\ (i = j => Len(ways[i].nodes) > 3))

\* Every way is in one ring or one open chain; no ring comes twice through a
\* node, so loops that touch are not welded (rings.go:120); and a loop whose
\* ways meet no others comes out, in whatever order and direction they are.
RoleIsAssembled(ways) ==
    LET got == AssembleRole(ways)
        all == got.rings \o got.open
    IN  /\ \A i \in DOMAIN ways :
              Cardinality({k \in DOMAIN all : i \in ToSet(all[k].ways)}) = 1
        /\ MapThenSumSet(LAMBDA k : Len(all[k].ways), DOMAIN all) = Len(ways)
        /\ MeetAtEnds(ways) => \A k \in DOMAIN got.rings :
              Cardinality(ToSet(got.rings[k].nodes)) = Len(got.rings[k].nodes)
        /\ \A S \in SUBSET DOMAIN ways :
              IsLoop(ways, S) =>
                 \/ \E k \in DOMAIN got.rings : ToSet(got.rings[k].ways) = S
                 \/ \E k \in DOMAIN got.open :
                       /\ ToSet(got.open[k].ways) = S
                       /\ Winding(Front(got.open[k].nodes)) = 0
WaysAreAssembled(ways) ==
    /\ RoleIsAssembled(Outers(ways))
    /\ RoleIsAssembled(Inners(ways))
    /\ \A r \in ToSet(Assemble(ways).outer) : Winding(r.nodes) = 1
    /\ \A r \in ToSet(Assemble(ways).inner) : Winding(r.nodes) = -1
=============================================================================
