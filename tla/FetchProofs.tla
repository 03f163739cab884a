---------------------------- MODULE FetchProofs ----------------------------
(***************************************************************************)
(* Proofs about AcquireFetch, for any plan, any number of requests and any *)
(* number of runs.  The inductive invariant is FetchInv; WholeFetch, which *)
(* needs that nobody removes a cell during a fetch, joins it for what the  *)
(* tiles on disk are.                                                      *)
(***************************************************************************)
EXTENDS AcquireFetch, FiniteSetTheorems, TLAPS

\* The types, without the count of requests.
FetchTypes ==
    /\ tiles \subseteq Tiles
    /\ complete \subseteq Groups \ Overviews
    /\ ranges \in [Groups -> SUBSET (SUBSET Tiles)]
    /\ main \in MainState
    /\ next \in 1..(N + 1)
    /\ group \in [Groups -> GroupState]
    /\ cancelled \in BOOLEAN
    /\ rest \subseteq Tiles
    /\ runs \in 0..MaxRuns
    /\ removals \in 0..MaxRemovals

\* What goes with each phase of the goroutine that called Fetch.
MainInv ==
    /\ main.phase \in {"idle", "planning", "planned"}
       => group = NobodyRuns /\ arrivals = {} /\ told = {}
    /\ main.phase \in {"planning", "waiting", "draining", "storing"}
       => main.cur \in Groups
    /\ main.phase \in {"idle", "planned"} => main.cur = 1
    /\ main.phase # "storing" => rest = {}
    /\ main.phase = "storing" => rest \subseteq Refs[main.cur]
    /\ main.phase = "draining" => group[main.cur].phase = "done"
    /\ main.phase = "returned" => \A g \in Groups : group[g].phase # "asking"

\* A group's ranges are where they can be, and only its goroutine has any.
Asked(s) == s.todo \cup s.slots \cup s.reading
GroupOK(s, R) ==
    /\ Asked(s) \subseteq R
    /\ s.todo \cap (s.slots \cup s.reading) = {}
    /\ s.slots \cap s.reading = {}
    /\ s.phase # "asking" => Asked(s) = {}
GroupsInv == \A g \in Groups : GroupOK(group[g], ranges[g])

\* Of a launched group that has not failed, each range is still asked for or
\* has been heard of, and never both.
HeardOK(g, s, R, H) ==
    /\ \A r \in Asked(s) : <<g, r>> \notin H
    /\ s.phase = "idle" => \A r \in R : <<g, r>> \notin H
    /\ s.phase # "idle" /\ ~s.failed
       => \A r \in R : r \in Asked(s) \/ <<g, r>> \in H
ToldInv ==
    /\ arrivals \subseteq Groups \X SUBSET Tiles
    /\ told \subseteq Groups \X SUBSET Tiles
    /\ \A a \in arrivals \cup told : a[2] \in ranges[a[1]]
    /\ arrivals \cap told = {}
    /\ \A g \in Groups : HeardOK(g, group[g], ranges[g], arrivals \cup told)
    /\ main.phase \in {"waiting", "draining", "storing"}
       => \A g \in 1..(main.cur - 1) : \A r \in ranges[g] : <<g, r>> \in told
    /\ main.phase = "storing"
       => \A r \in ranges[main.cur] : <<main.cur, r>> \in told

\* How far the launching may be ahead of the storing.
AheadInv ==
    /\ main.phase \in {"planned", "waiting", "draining", "storing"}
       => \A g \in Groups : Launched(g) => g < next
    /\ main.phase \in {"waiting", "draining"} => next <= main.cur + Requests
    /\ main.phase = "storing" => next <= main.cur + Requests + 1

FetchInv == FetchTypes /\ MainInv /\ GroupsInv /\ ToldInv /\ AheadInv

\* What the disk has of what has been planned.
PlanCovers(g) == Refs[g] \cap Archive \subseteq tiles \cup Planned(g)
WholeFetch ==
    /\ CellsAreWhole
    /\ \A g \in Groups : Planned(g) \subseteq Refs[g] \cap Archive
    /\ main.phase = "planning" => \A g \in Groups : g < main.cur => PlanCovers(g)
    /\ main.phase \in {"planned", "waiting", "draining", "storing"}
       => \A g \in Groups : PlanCovers(g)
    /\ main.phase = "storing"
       => Refs[main.cur] \cap Archive \subseteq tiles \cup rest

-----------------------------------------------------------------------------
(***************************************************************************)
(* Types of what the actions build.                                        *)
(***************************************************************************)
LEMMA Bounds ==
    /\ N \in Nat /\ 1 \in Groups /\ 1 \in 1..(N + 1)
    /\ \A g \in Groups : g \in 1..(N + 1) /\ g + 1 \in 1..(N + 1)
    /\ \A g \in Groups : g < N => g + 1 \in Groups
    /\ \A g \in Groups : g \in Int
BY FetchAssumption DEF Groups

LEMMA RangeTyped ==
    ASSUME FetchTypes, NEW g \in Groups, NEW r \in ranges[g]
    PROVE  r \in SUBSET Tiles
BY DEF FetchTypes

LEMMA RefsTyped ==
    ASSUME NEW g \in Groups
    PROVE  Refs[g] \subseteq Tiles
BY DEF Tiles

LEMMA CoalescedTyped ==
    ASSUME NEW g \in Groups, NEW P, P \subseteq Refs[g], NEW Q \in Coalesced(P)
    PROVE  Q \in SUBSET (SUBSET Tiles)
<1>1. P \subseteq Tiles
  BY RefsTyped
<1>2. Q \subseteq SUBSET P
  BY DEF Coalesced
<1> QED
  BY <1>1, <1>2

LEMMA StartingTyped ==
    ASSUME FetchTypes
    PROVE  /\ Idle \in GroupState
           /\ \A g \in Groups : Starting(g) \in GroupState
<1>1. {} \in SUBSET (SUBSET Tiles)
  OBVIOUS
<1>2. Idle \in GroupState
  BY <1>1 DEF Idle, GroupState
<1>3. ASSUME NEW g \in Groups PROVE Starting(g) \in GroupState
  <2>1. ranges[g] \in SUBSET (SUBSET Tiles)
    BY DEF FetchTypes
  <2> QED
    BY <1>1, <2>1 DEF GroupState, Starting
<1> QED
  BY <1>2, <1>3

\* Start launches no more groups than there are slots, nor than there are.
LEMMA FirstCounted ==
    /\ Cardinality(First) + 1 \in 1..(N + 1)
    /\ Cardinality(First) \in Nat
    /\ Cardinality(First) <= Requests
    /\ \A g \in First : g < Cardinality(First) + 1
<1>1. CASE Requests <= N
  <2>1. First = 1..Requests
    BY <1>1, FetchAssumption DEF Groups, First
  <2>2. Cardinality(1..Requests) = Requests
    BY FS_Interval, FetchAssumption
  <2> QED
    BY <1>1, <2>1, <2>2, FetchAssumption
<1>2. CASE N < Requests
  <2>1. First = 1..N
    BY <1>2, FetchAssumption DEF Groups, First
  <2>2. Cardinality(1..N) = N
    BY FS_Interval, FetchAssumption
  <2> QED
    BY <1>2, <2>1, <2>2, FetchAssumption
<1> QED
  BY <1>1, <1>2, FetchAssumption

-----------------------------------------------------------------------------
(***************************************************************************)
(* What the goroutines of a group do, seen from outside it.                *)
(***************************************************************************)
WorkStep(g) ==
    /\ group[g].phase = "asking"
    /\ \E s \in GroupState :
        /\ Moves(g, s)
        /\ s.phase \in {"asking", "done"}
        /\ GroupOK(s, ranges[g])
        /\ HeardOK(g, s, ranges[g], arrivals' \cup told)
        /\ \/ s.slots \cup s.reading \subseteq group[g].slots \cup group[g].reading
           \/ /\ Cardinality(InFlight) < Requests
              /\ \E r \in ranges[g] :
                    s.slots \cup s.reading
                      \subseteq group[g].slots \cup group[g].reading \cup {r}
    /\ \/ arrivals' = arrivals
       \/ \E r \in ranges[g] : /\ <<g, r>> \notin arrivals \cup told
                               /\ arrivals' = arrivals \cup {<<g, r>>}
    /\ UNCHANGED <<tiles, complete, ranges, main, next, cancelled, told, rest,
                   runs, removals>>

LEMMA WorkSteps ==
    ASSUME FetchInv, NEW g \in Groups, Work(g)
    PROVE  WorkStep(g)
<1> DEFINE s == group[g]
           H == arrivals \cup told
<1>1. s \in GroupState /\ GroupOK(s, ranges[g]) /\ HeardOK(g, s, ranges[g], H)
  BY DEF FetchInv, FetchTypes, GroupsInv, ToldInv
<1>2. \A A \in SUBSET (SUBSET Tiles) : \A r \in ranges[g] :
          A \ {r} \in SUBSET (SUBSET Tiles) /\ A \cup {r} \in SUBSET (SUBSET Tiles)
  BY RangeTyped DEF FetchInv
<1>3. ASSUME NEW r \in ranges[g], TakeSlot(g, r) PROVE WorkStep(g)
  <2> DEFINE x == [s EXCEPT !.todo = @ \ {r}, !.slots = @ \cup {r}]
  <2>1. x \in GroupState /\ x.phase = "asking" /\ x.failed = s.failed
    BY <1>1, <1>2, <1>3 DEF GroupState, TakeSlot
  <2>2. /\ x.todo = s.todo \ {r} /\ x.slots = s.slots \cup {r}
        /\ x.reading = s.reading /\ r \in s.todo
    BY <1>1, <1>3 DEF GroupState, TakeSlot
  <2>3. /\ arrivals' = arrivals /\ s.phase = "asking" /\ Moves(g, x)
        /\ Cardinality(InFlight) < Requests
        /\ UNCHANGED <<tiles, complete, ranges, main, next, cancelled, told,
                       rest, runs, removals>>
    BY <1>3 DEF TakeSlot, diskVars, boundVars
  <2> HIDE DEF x
  <2>4. GroupOK(x, ranges[g]) /\ Asked(x) = Asked(s)
    BY <1>1, <2>1, <2>2 DEF GroupOK, Asked
  <2>5. HeardOK(g, x, ranges[g], H)
    BY <1>1, <2>1, <2>3, <2>4 DEF HeardOK
  <2> QED
    BY <2>1, <2>2, <2>3, <2>4, <2>5 DEF WorkStep
<1>4. CASE GiveUp(g)
  <2> DEFINE x == [s EXCEPT !.todo = {}, !.failed = TRUE]
  <2>1. x \in GroupState /\ x.phase = "asking" /\ x.failed
    BY <1>1, <1>4 DEF GroupState, GiveUp
  <2>2. x.todo = {} /\ x.slots = s.slots /\ x.reading = s.reading
    BY <1>1 DEF GroupState
  <2>3. /\ arrivals' = arrivals /\ s.phase = "asking" /\ Moves(g, x)
        /\ UNCHANGED <<tiles, complete, ranges, main, next, cancelled, told,
                       rest, runs, removals>>
    BY <1>4 DEF GiveUp, diskVars, boundVars
  <2> HIDE DEF x
  <2>4. GroupOK(x, ranges[g]) /\ Asked(x) \subseteq Asked(s)
    BY <1>1, <2>1, <2>2 DEF GroupOK, Asked
  <2>5. HeardOK(g, x, ranges[g], H)
    BY <1>1, <2>1, <2>4 DEF HeardOK
  <2> QED
    BY <2>1, <2>2, <2>3, <2>4, <2>5 DEF WorkStep
<1>5. ASSUME NEW r \in ranges[g], BeginRead(g, r), cancelled PROVE WorkStep(g)
  <2> DEFINE x == [s EXCEPT !.slots = @ \ {r}, !.failed = TRUE]
  <2>1. s.phase = "asking"
    BY <1>1, <1>5 DEF GroupOK, Asked, BeginRead
  <2>2. x \in GroupState /\ x.phase = "asking" /\ x.failed
    BY <1>1, <1>2, <2>1 DEF GroupState
  <2>3. x.todo = s.todo /\ x.slots = s.slots \ {r} /\ x.reading = s.reading
    BY <1>1 DEF GroupState
  <2>4. /\ arrivals' = arrivals /\ Moves(g, x)
        /\ UNCHANGED <<tiles, complete, ranges, main, next, cancelled, told,
                       rest, runs, removals>>
    BY <1>5 DEF BeginRead, diskVars, boundVars
  <2> HIDE DEF x
  <2>5. GroupOK(x, ranges[g]) /\ Asked(x) \subseteq Asked(s)
    BY <1>1, <2>2, <2>3 DEF GroupOK, Asked
  <2>6. HeardOK(g, x, ranges[g], H)
    BY <1>1, <2>2, <2>5 DEF HeardOK
  <2> QED
    BY <2>1, <2>2, <2>3, <2>4, <2>5, <2>6 DEF WorkStep
<1>6. ASSUME NEW r \in ranges[g], BeginRead(g, r), ~cancelled PROVE WorkStep(g)
  <2> DEFINE x == [s EXCEPT !.slots = @ \ {r}, !.reading = @ \cup {r}]
  <2>1. s.phase = "asking" /\ r \in s.slots
    BY <1>1, <1>6 DEF GroupOK, Asked, BeginRead
  <2>2. x \in GroupState /\ x.phase = "asking" /\ x.failed = s.failed
    BY <1>1, <1>2, <2>1 DEF GroupState
  <2>3. /\ x.todo = s.todo /\ x.slots = s.slots \ {r}
        /\ x.reading = s.reading \cup {r}
    BY <1>1 DEF GroupState
  <2>4. /\ arrivals' = arrivals /\ Moves(g, x)
        /\ UNCHANGED <<tiles, complete, ranges, main, next, cancelled, told,
                       rest, runs, removals>>
    BY <1>6 DEF BeginRead, diskVars, boundVars
  <2> HIDE DEF x
  <2>5. GroupOK(x, ranges[g]) /\ Asked(x) = Asked(s)
    BY <1>1, <2>1, <2>2, <2>3 DEF GroupOK, Asked
  <2>6. HeardOK(g, x, ranges[g], H)
    BY <1>1, <2>1, <2>2, <2>5 DEF HeardOK
  <2> QED
    BY <2>1, <2>2, <2>3, <2>4, <2>5, <2>6 DEF WorkStep
<1>7. ASSUME NEW r \in ranges[g], ReadOk(g, r) PROVE WorkStep(g)
  <2> DEFINE x == [s EXCEPT !.reading = @ \ {r}]
             K == H \cup {<<g, r>>}
  <2>1. s.phase = "asking" /\ r \in s.reading /\ <<g, r>> \notin H
    BY <1>1, <1>7 DEF GroupOK, HeardOK, Asked, ReadOk
  <2>2. x \in GroupState /\ x.phase = "asking" /\ x.failed = s.failed
    BY <1>1, <1>2, <2>1 DEF GroupState
  <2>3. x.todo = s.todo /\ x.slots = s.slots /\ x.reading = s.reading \ {r}
    BY <1>1 DEF GroupState
  <2>4. /\ arrivals' = arrivals \cup {<<g, r>>} /\ Moves(g, x)
        /\ UNCHANGED <<tiles, complete, ranges, main, next, cancelled, told,
                       rest, runs, removals>>
    BY <1>7 DEF ReadOk, diskVars, boundVars
  <2> HIDE DEF x
  <2>5. GroupOK(x, ranges[g]) /\ Asked(x) = Asked(s) \ {r}
    BY <1>1, <2>1, <2>2, <2>3 DEF GroupOK, Asked
  <2>6. HeardOK(g, x, ranges[g], K)
    <3>1. \A q : <<g, q>> \in K <=> <<g, q>> \in H \/ q = r
      OBVIOUS
    <3> HIDE DEF K
    <3> QED
      BY <1>1, <2>1, <2>2, <2>5, <3>1 DEF HeardOK
  <2>7. arrivals' \cup told = K
    BY <2>4
  <2> QED
    BY <2>1, <2>2, <2>3, <2>4, <2>5, <2>6, <2>7 DEF WorkStep
<1>8. ASSUME NEW r \in ranges[g], ReadFail(g, r) PROVE WorkStep(g)
  <2> DEFINE x == [s EXCEPT !.reading = @ \ {r}, !.failed = TRUE]
  <2>1. s.phase = "asking"
    BY <1>1, <1>8 DEF GroupOK, Asked, ReadFail
  <2>2. x \in GroupState /\ x.phase = "asking" /\ x.failed
    BY <1>1, <1>2, <2>1 DEF GroupState
  <2>3. x.todo = s.todo /\ x.slots = s.slots /\ x.reading = s.reading \ {r}
    BY <1>1 DEF GroupState
  <2>4. /\ arrivals' = arrivals /\ Moves(g, x)
        /\ UNCHANGED <<tiles, complete, ranges, main, next, cancelled, told,
                       rest, runs, removals>>
    BY <1>8 DEF ReadFail, diskVars, boundVars
  <2> HIDE DEF x
  <2>5. GroupOK(x, ranges[g]) /\ Asked(x) \subseteq Asked(s)
    BY <1>1, <2>2, <2>3 DEF GroupOK, Asked
  <2>6. HeardOK(g, x, ranges[g], H)
    BY <1>1, <2>2, <2>5 DEF HeardOK
  <2> QED
    BY <2>1, <2>2, <2>3, <2>4, <2>5, <2>6 DEF WorkStep
<1>9. CASE GroupReturns(g)
  <2> DEFINE x == [s EXCEPT !.phase = "done"]
  <2>1. x \in GroupState /\ x.phase = "done" /\ x.failed = s.failed
    BY <1>1 DEF GroupState
  <2>2. x.todo = s.todo /\ x.slots = s.slots /\ x.reading = s.reading
    BY <1>1 DEF GroupState
  <2>3. /\ arrivals' = arrivals /\ s.phase = "asking" /\ Moves(g, x)
        /\ s.todo = {} /\ s.slots = {} /\ s.reading = {}
        /\ UNCHANGED <<tiles, complete, ranges, main, next, cancelled, told,
                       rest, runs, removals>>
    BY <1>9 DEF GroupReturns, diskVars, boundVars
  <2> HIDE DEF x
  <2>4. GroupOK(x, ranges[g]) /\ Asked(x) = Asked(s)
    BY <1>1, <2>1, <2>2, <2>3 DEF GroupOK, Asked
  <2>5. HeardOK(g, x, ranges[g], H)
    BY <1>1, <2>1, <2>3, <2>4 DEF HeardOK
  <2> QED
    BY <2>1, <2>2, <2>3, <2>4, <2>5 DEF WorkStep
<1> QED
  BY <1>3, <1>4, <1>5, <1>6, <1>7, <1>8, <1>9 DEF Work


LEMMA TypesStep ==
    ASSUME FetchInv, [Next]_vars
    PROVE  FetchTypes'
<1>1. CASE Ask
  BY <1>1, FetchAssumption DEF Ask, FetchInv, FetchTypes, MainState, vars,
    diskVars, workVars, boundVars
<1>2. CASE PlanGroup
  <2>1. ranges' \in [Groups -> SUBSET (SUBSET Tiles)]
    <3>1. main.cur \in Groups /\ ranges \in [Groups -> SUBSET (SUBSET Tiles)]
      BY <1>2 DEF FetchInv, FetchTypes, MainInv, PlanGroup
    <3> QED
      BY <1>2, <3>1, CoalescedTyped DEF PlanGroup
  <2>2. main' \in MainState
    <3>1. main \in MainState /\ main.cur \in Groups
      BY <1>2 DEF FetchInv, FetchTypes, MainInv, PlanGroup
    <3>2. CASE main.cur < N
      BY <1>2, <3>1, <3>2, Bounds DEF PlanGroup, MainState
    <3>3. CASE ~(main.cur < N)
      BY <1>2, <3>1, <3>3, Bounds DEF PlanGroup, MainState
    <3> QED
      BY <3>2, <3>3
  <2> QED
    BY <1>2, <2>1, <2>2
    DEF PlanGroup, FetchInv, FetchTypes, diskVars, workVars, boundVars
<1>3. CASE PlanFail
  BY <1>3, FetchAssumption DEF PlanFail, FetchInv, FetchTypes, MainState,
    vars, diskVars, workVars, boundVars
<1>4. CASE PlanEmpty
  BY <1>4, FetchAssumption DEF PlanEmpty, FetchInv, FetchTypes, MainState,
    vars, diskVars, workVars, boundVars
<1>5. CASE Start
  BY <1>5, FetchAssumption, StartingTyped, FirstCounted DEF Start, FetchInv,
    FetchTypes, MainState, diskVars, boundVars
<1>6. ASSUME NEW g \in Groups, WorkStep(g)
      PROVE  FetchTypes'
  BY <1>6, FetchAssumption DEF WorkStep, FetchInv, FetchTypes, Moves
<1>7. ASSUME NEW a \in arrivals, Arrive(a)
      PROVE  FetchTypes'
  BY <1>7, FetchAssumption DEF Arrive, FetchInv, FetchTypes, MainState, vars,
    diskVars, workVars, boundVars
<1>8. CASE TakeResult
  BY <1>8, FetchAssumption DEF TakeResult, FetchInv, FetchTypes, MainState,
    vars, diskVars, workVars, boundVars
<1>9. CASE Failed
  BY <1>9, FetchAssumption DEF Failed, FetchInv, FetchTypes, MainState, vars,
    diskVars, workVars, boundVars
<1>10. CASE Fetched
  <2>1. main.cur \in Groups
    BY <1>10 DEF Fetched, FetchInv, MainInv
  <2>2. rest' \subseteq Tiles
    BY <1>10, <2>1, RefsTyped DEF Fetched
  <2>3. next' \in 1..(N + 1) /\ group' \in [Groups -> GroupState]
    <3>1. next \in 1..(N + 1) /\ group \in [Groups -> GroupState]
      BY DEF FetchInv, FetchTypes
    <3>2. CASE next <= N
      <4>1. next \in Groups
        BY <3>1, <3>2, FetchAssumption DEF Groups
      <4>2. Starting(next) \in GroupState
        BY <4>1, StartingTyped DEF FetchInv
      <4> QED
        BY <1>10, <3>1, <3>2, <4>1, <4>2, FetchAssumption DEF Fetched, Groups
    <3>3. CASE ~(next <= N)
      BY <1>10, <3>1, <3>3 DEF Fetched
    <3> QED
      BY <3>2, <3>3
  <2> QED
    BY <1>10, <2>2, <2>3 DEF Fetched, FetchInv, FetchTypes, MainState,
      diskVars, boundVars
<1>11. ASSUME NEW t \in rest, StoreTile(t)
      PROVE  FetchTypes'
  BY <1>11, FetchAssumption DEF StoreTile, FetchInv, FetchTypes, MainState,
    vars, diskVars, workVars, boundVars
<1>12. CASE StoreFail
  BY <1>12, FetchAssumption DEF StoreFail, FetchInv, FetchTypes, MainState,
    vars, diskVars, workVars, boundVars
<1>13. CASE Stored
  <2>1. main.cur \in Groups
    BY <1>13 DEF Stored, FetchInv, MainInv
  <2>2. main.cur + 1 \in 1..(N + 1)
    BY <2>1, FetchAssumption DEF Groups
  <2>3. complete' \subseteq Groups \ Overviews
    BY <1>13, <2>1 DEF Stored, FetchInv, FetchTypes
  <2>4. main' \in MainState
    BY <1>13, <2>2 DEF Stored, FetchInv, FetchTypes, MainState
  <2> QED
    BY <1>13, <2>3, <2>4 DEF Stored, FetchInv, FetchTypes, workVars, boundVars
<1>14. CASE Return
  BY <1>14, FetchAssumption DEF Return, FetchInv, FetchTypes, MainState, vars,
    diskVars, workVars, boundVars
<1>15. CASE Cancel
  BY <1>15, FetchAssumption DEF Cancel, FetchInv, FetchTypes, MainState, vars,
    diskVars, workVars, boundVars
<1>16. CASE Fresh
  <2>1. group' \in [Groups -> GroupState]
    BY <1>16, StartingTyped DEF Fresh, FetchInv, NobodyRuns
  <2>2. ranges' \in [Groups -> SUBSET (SUBSET Tiles)]
    BY <1>16 DEF Fresh, NoPlan
  <2>3. main' \in MainState
    BY <1>16, FetchAssumption DEF Fresh, Asleep, MainState
  <2>4. runs' \in 0..MaxRuns
    BY <1>16, FetchAssumption DEF Fresh, FetchInv, FetchTypes
  <2>5. next' \in 1..(N + 1) /\ cancelled' \in BOOLEAN /\ rest' = {}
    BY <1>16, Bounds DEF Fresh
  <2>6. UNCHANGED <<tiles, complete, removals>>
    BY <1>16 DEF Fresh, diskVars
  <2> QED
    BY <2>1, <2>2, <2>3, <2>4, <2>5, <2>6 DEF FetchInv, FetchTypes
<1>17. ASSUME NEW g \in Groups, OtherEvicts(g)
      PROVE  FetchTypes'
  BY <1>17, FetchAssumption DEF OtherEvicts, FetchInv, FetchTypes, MainState,
    vars, diskVars, workVars, boundVars
<1>18. CASE UNCHANGED vars
  BY <1>18, FetchAssumption DEF FetchInv, FetchTypes, MainState, vars,
    diskVars, workVars, boundVars
<1> QED
  BY <1>1, <1>2, <1>3, <1>4, <1>5, <1>6, <1>7, <1>8, <1>9, <1>10, <1>11,
  <1>12, <1>13, <1>14, <1>15, <1>16, <1>17, <1>18, WorkSteps DEF Next, Plan,
  Main, Kill, Again, Ended

LEMMA MainStep ==
    ASSUME FetchInv, [Next]_vars
    PROVE  MainInv'
<1>1. CASE Ask
  BY <1>1, Bounds DEF Ask, FetchInv, FetchTypes, MainInv, MainState, vars,
    diskVars, workVars, boundVars
<1>2. CASE PlanGroup
  BY <1>2, Bounds DEF PlanGroup, FetchInv, FetchTypes, MainInv, MainState,
    vars, diskVars, workVars, boundVars
<1>3. CASE PlanFail
  <2>1. /\ main'.phase = "returned"
        /\ rest' = {}
        /\ group' = NobodyRuns
    BY <1>3 DEF PlanFail, FetchInv, MainInv, workVars
  <2> QED
    BY <2>1 DEF MainInv, NobodyRuns, Idle
<1>4. CASE PlanEmpty
  <2>1. /\ main'.phase = "returned"
        /\ rest' = {}
        /\ group' = NobodyRuns
    BY <1>4 DEF PlanEmpty, FetchInv, FetchTypes, MainState, MainInv, workVars
  <2> QED
    BY <2>1 DEF MainInv, NobodyRuns, Idle
<1>5. CASE Start
  BY <1>5, Bounds DEF Start, FetchInv, FetchTypes, MainInv, MainState, vars,
    diskVars, workVars, boundVars
<1>6. ASSUME NEW g \in Groups, WorkStep(g)
      PROVE  MainInv'
  <2>1. group[g].phase = "asking" /\ group[g] \in GroupState
    BY <1>6 DEF WorkStep, FetchInv, FetchTypes
  <2>2. main.phase \notin {"idle", "planning", "planned", "returned"}
    BY <1>6, <2>1 DEF FetchInv, MainInv, NobodyRuns, Idle
  <2>3. main.phase = "draining" => main.cur # g
    BY <1>6, <2>1 DEF FetchInv, MainInv
  <2> QED
    BY <1>6, <2>2, <2>3 DEF WorkStep, FetchInv, FetchTypes, MainInv, Moves
<1>7. ASSUME NEW a \in arrivals, Arrive(a)
      PROVE  MainInv'
  BY <1>7, Bounds DEF Arrive, FetchInv, FetchTypes, MainInv, MainState, vars,
    diskVars, workVars, boundVars
<1>8. CASE TakeResult
  BY <1>8, Bounds DEF TakeResult, FetchInv, FetchTypes, MainInv, MainState,
    vars, diskVars, workVars, boundVars
<1>9. CASE Failed
  BY <1>9, Bounds DEF Failed, FetchInv, FetchTypes, MainInv, MainState, vars,
    diskVars, workVars, boundVars
<1>10. CASE Fetched
  <2>1. main \in MainState /\ main.cur \in Groups
    BY <1>10 DEF Fetched, FetchInv, FetchTypes, MainInv
  <2>2. main'.phase = "storing" /\ main'.cur = main.cur
    BY <1>10, <2>1 DEF Fetched, MainState
  <2> QED
    BY <1>10, <2>1, <2>2 DEF Fetched, MainInv
<1>11. ASSUME NEW t \in rest, StoreTile(t)
      PROVE  MainInv'
  BY <1>11, Bounds DEF StoreTile, FetchInv, FetchTypes, MainInv, MainState,
    vars, diskVars, workVars, boundVars
<1>12. CASE StoreFail
  BY <1>12, Bounds DEF StoreFail, FetchInv, FetchTypes, MainInv, MainState,
    vars, diskVars, workVars, boundVars
<1>13. CASE Stored
  BY <1>13, Bounds DEF Stored, FetchInv, FetchTypes, MainInv, MainState, vars,
    diskVars, workVars, boundVars
<1>14. CASE Return
  <2>1. main'.phase = "returned" /\ rest' = rest /\ group' = group
    BY <1>14 DEF Return, FetchInv, FetchTypes, MainState, workVars
  <2> QED
    BY <1>14, <2>1 DEF Return, FetchInv, MainInv
<1>15. CASE Cancel
  BY <1>15, Bounds DEF Cancel, FetchInv, FetchTypes, MainInv, MainState, vars,
    diskVars, workVars, boundVars
<1>16. CASE Fresh
  BY <1>16, Bounds DEF Fresh, MainInv, Asleep
<1>17. ASSUME NEW g \in Groups, OtherEvicts(g)
      PROVE  MainInv'
  BY <1>17, Bounds DEF OtherEvicts, FetchInv, FetchTypes, MainInv, MainState,
    vars, diskVars, workVars, boundVars
<1>18. CASE UNCHANGED vars
  BY <1>18, Bounds DEF FetchInv, FetchTypes, MainInv, MainState, vars,
    diskVars, workVars, boundVars
<1> QED
  BY <1>1, <1>2, <1>3, <1>4, <1>5, <1>6, <1>7, <1>8, <1>9, <1>10, <1>11,
  <1>12, <1>13, <1>14, <1>15, <1>16, <1>17, <1>18, WorkSteps DEF Next, Plan,
  Main, Kill, Again, Ended

LEMMA GroupsStep ==
    ASSUME FetchInv, [Next]_vars
    PROVE  GroupsInv'
<1>1. CASE Ask
  BY <1>1, Bounds DEF Ask, FetchInv, FetchTypes, GroupsInv, vars, diskVars,
    workVars, boundVars
<1>2. CASE PlanGroup
  <2>1. group' = NobodyRuns
    BY <1>2 DEF PlanGroup, FetchInv, MainInv, workVars
  <2> QED
    BY <2>1 DEF GroupsInv, GroupOK, Asked, NobodyRuns, Idle
<1>3. CASE PlanFail
  BY <1>3, Bounds DEF PlanFail, FetchInv, FetchTypes, GroupsInv, vars,
    diskVars, workVars, boundVars
<1>4. CASE PlanEmpty
  BY <1>4, Bounds DEF PlanEmpty, FetchInv, FetchTypes, GroupsInv, vars,
    diskVars, workVars, boundVars
<1>5. CASE Start
  BY <1>5, Bounds DEF Start, GroupsInv, GroupOK, Asked, Starting, Idle
<1>6. ASSUME NEW g \in Groups, WorkStep(g)
      PROVE  GroupsInv'
  BY <1>6, Bounds DEF WorkStep, FetchInv, FetchTypes, GroupsInv, Moves
<1>7. ASSUME NEW a \in arrivals, Arrive(a)
      PROVE  GroupsInv'
  BY <1>7, Bounds DEF Arrive, FetchInv, FetchTypes, GroupsInv, vars, diskVars,
    workVars, boundVars
<1>8. CASE TakeResult
  BY <1>8, Bounds DEF TakeResult, FetchInv, FetchTypes, GroupsInv, vars,
    diskVars, workVars, boundVars
<1>9. CASE Failed
  BY <1>9, Bounds DEF Failed, FetchInv, FetchTypes, GroupsInv, vars, diskVars,
    workVars, boundVars
<1>10. CASE Fetched
  <2>1. CASE next <= N
    <3>1. next \in Groups
      BY <2>1, FetchAssumption DEF FetchInv, FetchTypes, Groups
    <3>2. /\ group' = [group EXCEPT ![next] = Starting(next)]
          /\ ranges' = ranges
      BY <1>10, <2>1 DEF Fetched
    <3> QED
      BY <3>1, <3>2 DEF FetchInv, FetchTypes, GroupsInv, GroupOK, Asked,
        Starting
  <2>2. CASE ~(next <= N)
    BY <1>10, <2>2 DEF Fetched, FetchInv, GroupsInv
  <2> QED
    BY <2>1, <2>2
<1>11. ASSUME NEW t \in rest, StoreTile(t)
      PROVE  GroupsInv'
  BY <1>11, Bounds DEF StoreTile, FetchInv, FetchTypes, GroupsInv, vars,
    diskVars, workVars, boundVars
<1>12. CASE StoreFail
  BY <1>12, Bounds DEF StoreFail, FetchInv, FetchTypes, GroupsInv, vars,
    diskVars, workVars, boundVars
<1>13. CASE Stored
  BY <1>13, Bounds DEF Stored, FetchInv, FetchTypes, GroupsInv, vars,
    diskVars, workVars, boundVars
<1>14. CASE Return
  BY <1>14, Bounds DEF Return, FetchInv, FetchTypes, GroupsInv, vars,
    diskVars, workVars, boundVars
<1>15. CASE Cancel
  BY <1>15, Bounds DEF Cancel, FetchInv, FetchTypes, GroupsInv, vars,
    diskVars, workVars, boundVars
<1>16. CASE Fresh
  BY <1>16, Bounds DEF Fresh, GroupsInv, GroupOK, Asked, NobodyRuns, Idle
<1>17. ASSUME NEW g \in Groups, OtherEvicts(g)
      PROVE  GroupsInv'
  BY <1>17, Bounds DEF OtherEvicts, FetchInv, FetchTypes, GroupsInv, vars,
    diskVars, workVars, boundVars
<1>18. CASE UNCHANGED vars
  BY <1>18, Bounds DEF FetchInv, FetchTypes, GroupsInv, vars, diskVars,
    workVars, boundVars
<1> QED
  BY <1>1, <1>2, <1>3, <1>4, <1>5, <1>6, <1>7, <1>8, <1>9, <1>10, <1>11,
  <1>12, <1>13, <1>14, <1>15, <1>16, <1>17, <1>18, WorkSteps DEF Next, Plan,
  Main, Kill, Again, Ended

LEMMA ToldStep ==
    ASSUME FetchInv, [Next]_vars
    PROVE  ToldInv'
<1>1. CASE Ask
  BY <1>1, FetchAssumption DEF Ask, FetchInv, FetchTypes, MainState, MainInv,
    ToldInv, vars, diskVars, workVars, boundVars
<1>2. CASE PlanGroup
  <2>1. /\ main'.phase \in {"planning", "planned"} /\ group' = NobodyRuns
        /\ arrivals' = {} /\ told' = {}
    BY <1>2 DEF PlanGroup, FetchInv, FetchTypes, MainState, MainInv, workVars
  <2> QED
    BY <2>1 DEF ToldInv, HeardOK, Asked, NobodyRuns, Idle
<1>3. CASE PlanFail
  BY <1>3, FetchAssumption DEF PlanFail, FetchInv, FetchTypes, MainState,
    MainInv, ToldInv, vars, diskVars, workVars, boundVars
<1>4. CASE PlanEmpty
  BY <1>4, FetchAssumption DEF PlanEmpty, FetchInv, FetchTypes, MainState,
    MainInv, ToldInv, vars, diskVars, workVars, boundVars
<1>5. CASE Start
  <2>1. /\ main'.phase = "waiting" /\ main'.cur = 1
        /\ arrivals' = {} /\ told' = {} /\ ranges' = ranges
    BY <1>5 DEF Start, FetchInv, FetchTypes, MainState, MainInv
  <2>2. ASSUME NEW g \in Groups
        PROVE  HeardOK(g, group'[g], ranges[g], {})
    BY <1>5 DEF Start, HeardOK, Asked, Starting, Idle
  <2> QED
    BY <2>1, <2>2 DEF ToldInv
<1>6. ASSUME NEW g \in Groups, WorkStep(g)
      PROVE  ToldInv'
  <2>1. PICK s \in GroupState :
           /\ group' = [group EXCEPT ![g] = s]
           /\ HeardOK(g, s, ranges[g], arrivals' \cup told)
    BY <1>6 DEF WorkStep, Moves
  <2>2. /\ arrivals \subseteq arrivals'
        /\ \A a \in arrivals' : a \in arrivals \/ \E r \in ranges[g] : a = <<g, r>>
        /\ arrivals' \cap told = {}
    BY <1>6 DEF WorkStep, FetchInv, ToldInv
  <2>3. ASSUME NEW h \in Groups
        PROVE  HeardOK(h, group'[h], ranges[h], arrivals' \cup told)
    <3>1. CASE h = g
      BY <2>1, <3>1 DEF FetchInv, FetchTypes
    <3>2. CASE h # g
      <4>1. group'[h] = group[h]
        BY <2>1, <3>2 DEF FetchInv, FetchTypes
      <4>2. \A r : <<h, r>> \in arrivals' \cup told <=> <<h, r>> \in arrivals \cup told
        BY <2>2, <3>2
      <4>3. HeardOK(h, group[h], ranges[h], arrivals \cup told)
        BY DEF FetchInv, ToldInv
      <4> QED
        BY <4>1, <4>2, <4>3 DEF HeardOK
    <3> QED
      BY <3>1, <3>2
  <2>4. UNCHANGED <<main, ranges, told>>
    BY <1>6 DEF WorkStep
  <2>5. \A a \in arrivals' \cup told : a[2] \in ranges[a[1]]
    BY <2>2 DEF FetchInv, ToldInv
  <2>6. arrivals' \subseteq Groups \X SUBSET Tiles
    BY <2>2, RangeTyped DEF FetchInv, ToldInv
  <2> QED
    BY <2>2, <2>3, <2>4, <2>5, <2>6 DEF FetchInv, ToldInv
<1>7. ASSUME NEW a \in arrivals, Arrive(a)
      PROVE  ToldInv'
  <2>1. /\ arrivals' \cup told' = arrivals \cup told
        /\ arrivals' \cap told' = {}
        /\ arrivals' \subseteq arrivals
        /\ told \subseteq told'
    BY <1>7 DEF Arrive, FetchInv, ToldInv
  <2>2. told' \subseteq Groups \X SUBSET Tiles
    BY <1>7 DEF Arrive, FetchInv, ToldInv
  <2>3. UNCHANGED <<main, ranges, group>>
    BY <1>7 DEF Arrive
  <2> QED
    BY <2>1, <2>2, <2>3 DEF FetchInv, ToldInv
<1>8. CASE TakeResult
  BY <1>8, FetchAssumption DEF TakeResult, FetchInv, FetchTypes, MainState,
    MainInv, ToldInv, vars, diskVars, workVars, boundVars
<1>9. CASE Failed
  BY <1>9, FetchAssumption DEF Failed, FetchInv, FetchTypes, MainState,
    MainInv, ToldInv, vars, diskVars, workVars, boundVars
<1>10. CASE Fetched
  <2>1. /\ main.phase = "draining" /\ main.cur \in Groups
        /\ main'.phase = "storing" /\ main'.cur = main.cur
        /\ arrivals = {}
        /\ UNCHANGED <<ranges, arrivals, told>>
    BY <1>10 DEF Fetched, FetchInv, FetchTypes, MainState, MainInv
  <2>2. \A r \in ranges[main.cur] : <<main.cur, r>> \in told
    <3>1. group[main.cur].phase = "done" /\ ~group[main.cur].failed
      BY <1>10 DEF Fetched, FetchInv, MainInv
    <3>2. Asked(group[main.cur]) = {}
      BY <2>1, <3>1 DEF FetchInv, GroupsInv, GroupOK
    <3>3. HeardOK(main.cur, group[main.cur], ranges[main.cur], arrivals \cup told)
      BY <2>1 DEF FetchInv, ToldInv
    <3> QED
      BY <2>1, <3>1, <3>2, <3>3 DEF HeardOK
  <2>3. ASSUME NEW h \in Groups
        PROVE  HeardOK(h, group'[h], ranges[h], arrivals \cup told)
    <3>1. HeardOK(h, group[h], ranges[h], arrivals \cup told)
      BY DEF FetchInv, ToldInv
    <3>2. CASE next <= N /\ h = next
      <4>1. group'[h] = Starting(h)
        BY <1>10, <3>2 DEF Fetched, FetchInv, FetchTypes
      <4>2. group[h].phase = "idle"
        <5>1. ~(next < next)
          BY FetchAssumption DEF FetchInv, FetchTypes
        <5> QED
          BY <2>1, <3>2, <5>1 DEF FetchInv, AheadInv, Launched
      <4>3. \A r \in ranges[h] : <<h, r>> \notin arrivals \cup told
        BY <3>1, <4>2 DEF HeardOK
      <4> QED
        BY <4>1, <4>3 DEF HeardOK, Asked, Starting
    <3>3. CASE ~(next <= N /\ h = next)
      <4>1. group'[h] = group[h]
        BY <1>10, <3>3 DEF Fetched, FetchInv, FetchTypes
      <4> QED
        BY <3>1, <4>1
    <3> QED
      BY <3>2, <3>3
  <2> QED
    BY <2>1, <2>2, <2>3 DEF FetchInv, ToldInv
<1>11. ASSUME NEW t \in rest, StoreTile(t)
      PROVE  ToldInv'
  BY <1>11, FetchAssumption DEF StoreTile, FetchInv, FetchTypes, MainState,
    MainInv, ToldInv, vars, diskVars, workVars, boundVars
<1>12. CASE StoreFail
  BY <1>12, FetchAssumption DEF StoreFail, FetchInv, FetchTypes, MainState,
    MainInv, ToldInv, vars, diskVars, workVars, boundVars
<1>13. CASE Stored
  <2>1. /\ main.phase = "storing" /\ main \in MainState /\ main.cur \in Groups
        /\ UNCHANGED <<ranges, group, arrivals, told>>
    BY <1>13 DEF Stored, FetchInv, FetchTypes, MainInv, workVars
  <2>2. CASE main.cur < N
    <3>1. main'.phase = "waiting" /\ main'.cur = main.cur + 1
      BY <1>13, <2>1, <2>2 DEF Stored, MainState
    <3>2. \A g \in 1..(main'.cur - 1) : g \in 1..(main.cur - 1) \/ g = main.cur
      BY <2>1, <3>1, FetchAssumption DEF Groups
    <3>3. \A g \in 1..(main.cur - 1) : \A r \in ranges[g] : <<g, r>> \in told
      BY <2>1 DEF FetchInv, ToldInv
    <3>4. \A r \in ranges[main.cur] : <<main.cur, r>> \in told
      BY <2>1 DEF FetchInv, ToldInv
    <3>5. \A g \in 1..(main'.cur - 1) : \A r \in ranges[g] : <<g, r>> \in told
      BY <3>2, <3>3, <3>4
    <3> QED
      BY <2>1, <3>1, <3>5 DEF FetchInv, ToldInv
  <2>3. CASE ~(main.cur < N)
    <3>1. main'.phase = "ending"
      BY <1>13, <2>1, <2>3 DEF Stored, MainState
    <3> QED
      BY <2>1, <3>1 DEF FetchInv, ToldInv
  <2> QED
    BY <2>2, <2>3
<1>14. CASE Return
  BY <1>14, FetchAssumption DEF Return, FetchInv, FetchTypes, MainState,
    MainInv, ToldInv, vars, diskVars, workVars, boundVars
<1>15. CASE Cancel
  BY <1>15, FetchAssumption DEF Cancel, FetchInv, FetchTypes, MainState,
    MainInv, ToldInv, vars, diskVars, workVars, boundVars
<1>16. CASE Fresh
  <2>1. /\ main'.phase = "idle" /\ group' = NobodyRuns
        /\ arrivals' = {} /\ told' = {}
    BY <1>16 DEF Fresh, Asleep
  <2> QED
    BY <2>1 DEF ToldInv, HeardOK, Asked, NobodyRuns, Idle
<1>17. ASSUME NEW g \in Groups, OtherEvicts(g)
      PROVE  ToldInv'
  BY <1>17, FetchAssumption DEF OtherEvicts, FetchInv, FetchTypes, MainState,
    MainInv, ToldInv, vars, diskVars, workVars, boundVars
<1>18. CASE UNCHANGED vars
  BY <1>18, FetchAssumption DEF FetchInv, FetchTypes, MainState, MainInv,
    ToldInv, vars, diskVars, workVars, boundVars
<1> QED
  BY <1>1, <1>2, <1>3, <1>4, <1>5, <1>6, <1>7, <1>8, <1>9, <1>10, <1>11,
  <1>12, <1>13, <1>14, <1>15, <1>16, <1>17, <1>18, WorkSteps DEF Next, Plan,
  Main, Kill, Again, Ended

LEMMA AheadStep ==
    ASSUME FetchInv, [Next]_vars
    PROVE  AheadInv'
<1>1. CASE Ask
  BY <1>1, FetchAssumption DEF Ask, FetchInv, FetchTypes, MainInv, MainState,
    AheadInv, Launched, vars, diskVars, workVars, boundVars
<1>2. CASE PlanGroup
  <2>1. main'.phase \in {"planning", "planned"} /\ group' = NobodyRuns
    BY <1>2 DEF PlanGroup, FetchInv, FetchTypes, MainState, MainInv, workVars
  <2> QED
    BY <2>1 DEF AheadInv, Launched, NobodyRuns, Idle
<1>3. CASE PlanFail
  BY <1>3, FetchAssumption DEF PlanFail, FetchInv, FetchTypes, MainInv,
    MainState, AheadInv, Launched, vars, diskVars, workVars, boundVars
<1>4. CASE PlanEmpty
  BY <1>4, FetchAssumption DEF PlanEmpty, FetchInv, FetchTypes, MainInv,
    MainState, AheadInv, Launched, vars, diskVars, workVars, boundVars
<1>5. CASE Start
  <2>1. main'.phase = "waiting" /\ main'.cur = 1
    BY <1>5 DEF Start, FetchInv, FetchTypes, MainState, MainInv
  <2>2. /\ next' = Cardinality(First) + 1
        /\ next' \in 1..(N + 1)
        /\ Cardinality(First) \in Nat
        /\ Cardinality(First) <= Requests
    BY <1>5, FirstCounted DEF Start
  <2>3. next' <= 1 + Requests
    BY <2>2, FetchAssumption
  <2>4. ASSUME NEW g \in Groups, Launched(g)' PROVE g < next'
    <3>1. g \in First
      BY <1>5, <2>4 DEF Start, Launched, Idle
    <3> QED
      BY <2>2, <3>1, FirstCounted
  <2> QED
    BY <2>1, <2>3, <2>4 DEF AheadInv
<1>6. ASSUME NEW g \in Groups, WorkStep(g)
      PROVE  AheadInv'
  BY <1>6, FetchAssumption DEF WorkStep, FetchInv, FetchTypes, MainInv,
    AheadInv, Launched, Moves, GroupState
<1>7. ASSUME NEW a \in arrivals, Arrive(a)
      PROVE  AheadInv'
  BY <1>7, FetchAssumption DEF Arrive, FetchInv, FetchTypes, MainInv,
    MainState, AheadInv, Launched, vars, diskVars, workVars, boundVars
<1>8. CASE TakeResult
  BY <1>8, FetchAssumption DEF TakeResult, FetchInv, FetchTypes, MainInv,
    MainState, AheadInv, Launched, vars, diskVars, workVars, boundVars
<1>9. CASE Failed
  BY <1>9, FetchAssumption DEF Failed, FetchInv, FetchTypes, MainInv,
    MainState, AheadInv, Launched, vars, diskVars, workVars, boundVars
<1>10. CASE Fetched
  <2>1. /\ main'.phase = "storing" /\ main'.cur = main.cur
        /\ main.cur \in Groups /\ next \in 1..(N + 1)
        /\ next <= main.cur + Requests
        /\ \A g \in Groups : Launched(g) => g < next
    BY <1>10 DEF Fetched, FetchInv, FetchTypes, MainState, MainInv, AheadInv
  <2>2. next' <= main.cur + Requests + 1
    BY <1>10, <2>1, FetchAssumption DEF Fetched, Groups
  <2>3. ASSUME NEW g \in Groups, Launched(g)' PROVE g < next'
    <3>1. CASE next <= N
      <4>1. g # next => Launched(g)
        BY <1>10, <2>3, <3>1 DEF Fetched, Launched, FetchInv, FetchTypes
      <4> QED
        BY <1>10, <2>1, <3>1, <4>1, FetchAssumption DEF Fetched, Groups
    <3>2. CASE ~(next <= N)
      BY <1>10, <2>1, <2>3, <3>2 DEF Fetched, Launched
    <3> QED
      BY <3>1, <3>2
  <2> QED
    BY <2>1, <2>2, <2>3 DEF AheadInv
<1>11. ASSUME NEW t \in rest, StoreTile(t)
      PROVE  AheadInv'
  BY <1>11, FetchAssumption DEF StoreTile, FetchInv, FetchTypes, MainInv,
    MainState, AheadInv, Launched, vars, diskVars, workVars, boundVars
<1>12. CASE StoreFail
  BY <1>12, FetchAssumption DEF StoreFail, FetchInv, FetchTypes, MainInv,
    MainState, AheadInv, Launched, vars, diskVars, workVars, boundVars
<1>13. CASE Stored
  <2>1. /\ main.phase = "storing" /\ main \in MainState
        /\ next' = next /\ group' = group
        /\ main.cur \in Groups /\ next \in 1..(N + 1)
    BY <1>13 DEF Stored, FetchInv, FetchTypes, MainInv, workVars
  <2>2. CASE main.cur < N
    <3>1. main'.phase = "waiting" /\ main'.cur = main.cur + 1
      BY <1>13, <2>1, <2>2 DEF Stored, MainState
    <3> QED
      BY <2>1, <3>1, FetchAssumption
      DEF FetchInv, AheadInv, Launched, Groups
  <2>3. CASE ~(main.cur < N)
    <3>1. main'.phase = "ending"
      BY <1>13, <2>1, <2>3 DEF Stored, MainState
    <3> QED
      BY <3>1 DEF AheadInv
  <2> QED
    BY <2>2, <2>3
<1>14. CASE Return
  BY <1>14, FetchAssumption DEF Return, FetchInv, FetchTypes, MainInv,
    MainState, AheadInv, Launched, vars, diskVars, workVars, boundVars
<1>15. CASE Cancel
  BY <1>15, FetchAssumption DEF Cancel, FetchInv, FetchTypes, MainInv,
    MainState, AheadInv, Launched, vars, diskVars, workVars, boundVars
<1>16. CASE Fresh
  <2>1. main'.phase = "idle"
    BY <1>16 DEF Fresh, Asleep
  <2> QED
    BY <2>1 DEF AheadInv
<1>17. ASSUME NEW g \in Groups, OtherEvicts(g)
      PROVE  AheadInv'
  BY <1>17, FetchAssumption DEF OtherEvicts, FetchInv, FetchTypes, MainInv,
    MainState, AheadInv, Launched, vars, diskVars, workVars, boundVars
<1>18. CASE UNCHANGED vars
  BY <1>18, FetchAssumption DEF FetchInv, FetchTypes, MainInv, MainState,
    AheadInv, Launched, vars, diskVars, workVars, boundVars
<1> QED
  BY <1>1, <1>2, <1>3, <1>4, <1>5, <1>6, <1>7, <1>8, <1>9, <1>10, <1>11,
  <1>12, <1>13, <1>14, <1>15, <1>16, <1>17, <1>18, WorkSteps DEF Next, Plan,
  Main, Kill, Again, Ended

LEMMA WholeStep ==
    ASSUME FetchInv, WholeFetch, ~EvictBesideFetch, [Next]_vars
    PROVE  WholeFetch'
<1>1. CASE Ask
  <2>1. /\ main'.phase = "planning" /\ main'.cur = 1
        /\ UNCHANGED <<tiles, complete, ranges>>
    BY <1>1 DEF Ask, FetchInv, FetchTypes, MainState, MainInv, diskVars
  <2>2. \A g \in Groups : ~(g < 1)
    BY FetchAssumption DEF Groups
  <2> QED
    BY <2>1, <2>2 DEF WholeFetch, CellsAreWhole, Planned
<1>2. CASE PlanGroup
  <2> DEFINE c == main.cur
             missing == (Refs[c] \ tiles) \cap Archive
  <2>1. /\ c \in Groups /\ main \in MainState /\ main.phase = "planning"
        /\ UNCHANGED <<tiles, complete>>
    BY <1>2 DEF PlanGroup, FetchInv, FetchTypes, MainInv, diskVars
  <2>2. PICK Q \in Coalesced(missing) : ranges' = [ranges EXCEPT ![c] = Q]
    BY <1>2 DEF PlanGroup
  <2>3. UNION Q = missing
    BY DEF Coalesced
  <2>4. /\ (UNION ranges'[c]) = missing
        /\ \A g \in Groups : g # c => ranges'[g] = ranges[g]
    BY <2>1, <2>2, <2>3 DEF FetchInv, FetchTypes
  <2>5. \A g \in Groups : g < c \/ g = c => PlanCovers(g)'
    BY <2>1, <2>4 DEF WholeFetch, PlanCovers, Planned
  <2>6. \A g \in Groups : Planned(g)' \subseteq Refs[g] \cap Archive
    BY <2>1, <2>4 DEF WholeFetch, Planned
  <2>7. CellsAreWhole'
    BY <2>1 DEF WholeFetch, CellsAreWhole
  <2>8. CASE c < N
    <3>1. main'.phase = "planning" /\ main'.cur = c + 1
      BY <1>2, <2>1, <2>8 DEF PlanGroup, MainState
    <3>2. \A g \in Groups : g < c + 1 => g < c \/ g = c
      BY <2>1, FetchAssumption DEF Groups
    <3> QED
      BY <2>5, <2>6, <2>7, <3>1, <3>2 DEF WholeFetch
  <2>9. CASE ~(c < N)
    <3>1. main'.phase = "planned"
      BY <1>2, <2>1, <2>9 DEF PlanGroup, MainState
    <3>2. \A g \in Groups : g < c \/ g = c
      BY <2>1, <2>9, FetchAssumption DEF Groups
    <3> QED
      BY <2>5, <2>6, <2>7, <3>1, <3>2 DEF WholeFetch
  <2> QED
    BY <2>8, <2>9
<1>3. CASE PlanFail
  BY <1>3, FetchAssumption DEF PlanFail, FetchInv, FetchTypes, MainState,
    MainInv, WholeFetch, PlanCovers, Planned, CellsAreWhole, vars, diskVars,
    workVars, boundVars
<1>4. CASE PlanEmpty
  BY <1>4, FetchAssumption DEF PlanEmpty, FetchInv, FetchTypes, MainState,
    MainInv, WholeFetch, PlanCovers, Planned, CellsAreWhole, vars, diskVars,
    workVars, boundVars
<1>5. CASE Start
  <2>1. /\ main'.phase = "waiting" /\ main.phase = "planned"
        /\ UNCHANGED <<tiles, complete, ranges>>
    BY <1>5 DEF Start, FetchInv, FetchTypes, MainState, diskVars
  <2> QED
    BY <2>1 DEF WholeFetch, CellsAreWhole, PlanCovers, Planned
<1>6. ASSUME NEW g \in Groups, WorkStep(g)
      PROVE  WholeFetch'
  BY <1>6, FetchAssumption DEF WorkStep, WholeFetch, PlanCovers, Planned,
    CellsAreWhole
<1>7. ASSUME NEW a \in arrivals, Arrive(a)
      PROVE  WholeFetch'
  BY <1>7, FetchAssumption DEF Arrive, FetchInv, FetchTypes, MainState,
    MainInv, WholeFetch, PlanCovers, Planned, CellsAreWhole, vars, diskVars,
    workVars, boundVars
<1>8. CASE TakeResult
  BY <1>8, FetchAssumption DEF TakeResult, FetchInv, FetchTypes, MainState,
    MainInv, WholeFetch, PlanCovers, Planned, CellsAreWhole, vars, diskVars,
    workVars, boundVars
<1>9. CASE Failed
  BY <1>9, FetchAssumption DEF Failed, FetchInv, FetchTypes, MainState,
    MainInv, WholeFetch, PlanCovers, Planned, CellsAreWhole, vars, diskVars,
    workVars, boundVars
<1>10. CASE Fetched
  <2>1. /\ main.phase = "draining" /\ main.cur \in Groups
        /\ main'.phase = "storing" /\ main'.cur = main.cur
        /\ UNCHANGED <<tiles, complete, ranges>> /\ rest' = Refs[main.cur]
    BY <1>10 DEF Fetched, FetchInv, FetchTypes, MainState, MainInv, diskVars
  <2> QED
    BY <2>1 DEF WholeFetch, CellsAreWhole, PlanCovers, Planned
<1>11. ASSUME NEW t \in rest, StoreTile(t)
      PROVE  WholeFetch'
  <2> DEFINE c == main.cur
  <2>1. /\ main.phase = "storing" /\ c \in Groups
        /\ UNCHANGED <<main, complete, ranges>> /\ rest' = rest \ {t}
        /\ tiles \subseteq tiles'
    BY <1>11 DEF StoreTile, FetchInv, MainInv
  <2>2. t \in Archive => t \in tiles'
    <3>1. t \in Refs[c]
      BY <2>1 DEF FetchInv, MainInv
    <3>2. t \in Archive => t \in tiles \/ t \in Planned(c)
      BY <2>1, <3>1 DEF WholeFetch, PlanCovers
    <3> QED
      BY <1>11, <3>2 DEF StoreTile, RawTile
  <2>3. Refs[c] \cap Archive \subseteq tiles' \cup rest'
    BY <2>1, <2>2 DEF WholeFetch
  <2> QED
    BY <2>1, <2>3 DEF WholeFetch, CellsAreWhole, PlanCovers, Planned
<1>12. CASE StoreFail
  BY <1>12, FetchAssumption DEF StoreFail, FetchInv, FetchTypes, MainState,
    MainInv, WholeFetch, PlanCovers, Planned, CellsAreWhole, vars, diskVars,
    workVars, boundVars
<1>13. CASE Stored
  <2>1. /\ main.phase = "storing" /\ main \in MainState /\ rest = {}
        /\ UNCHANGED <<tiles, ranges>>
        /\ complete' \subseteq complete \cup {main.cur}
    BY <1>13 DEF Stored, FetchInv, FetchTypes
  <2>2. main'.phase \in {"waiting", "ending"}
    BY <1>13, <2>1 DEF Stored, MainState
  <2>3. CellsAreWhole'
    BY <2>1 DEF WholeFetch, CellsAreWhole
  <2> QED
    BY <2>1, <2>2, <2>3 DEF WholeFetch, PlanCovers, Planned
<1>14. CASE Return
  BY <1>14, FetchAssumption DEF Return, FetchInv, FetchTypes, MainState,
    MainInv, WholeFetch, PlanCovers, Planned, CellsAreWhole, vars, diskVars,
    workVars, boundVars
<1>15. CASE Cancel
  BY <1>15, FetchAssumption DEF Cancel, FetchInv, FetchTypes, MainState,
    MainInv, WholeFetch, PlanCovers, Planned, CellsAreWhole, vars, diskVars,
    workVars, boundVars
<1>16. CASE Fresh
  <2>1. /\ main'.phase = "idle" /\ UNCHANGED <<tiles, complete>>
        /\ \A g \in Groups : ranges'[g] = {}
    BY <1>16 DEF Fresh, Asleep, NoPlan, diskVars
  <2> QED
    BY <2>1 DEF WholeFetch, CellsAreWhole, Planned
<1>17. ASSUME NEW g \in Groups, OtherEvicts(g)
      PROVE  WholeFetch'
  <2>1. /\ main.phase \in {"idle", "returned"}
        /\ UNCHANGED <<main, ranges>>
        /\ tiles' = tiles \ Refs[g] /\ complete' = complete \ {g}
    BY <1>17 DEF OtherEvicts
  <2>2. \A h \in complete' : h \in Groups /\ Refs[h] \cap Refs[g] = {}
    BY <2>1, FetchAssumption DEF FetchInv, FetchTypes
  <2>3. CellsAreWhole'
    BY <2>1, <2>2 DEF WholeFetch, CellsAreWhole
  <2> QED
    BY <2>1, <2>3 DEF WholeFetch, Planned
<1>18. CASE UNCHANGED vars
  BY <1>18, FetchAssumption DEF FetchInv, FetchTypes, MainState, MainInv,
    WholeFetch, PlanCovers, Planned, CellsAreWhole, vars, diskVars, workVars,
    boundVars
<1> QED
  BY <1>1, <1>2, <1>3, <1>4, <1>5, <1>6, <1>7, <1>8, <1>9, <1>10, <1>11,
  <1>12, <1>13, <1>14, <1>15, <1>16, <1>17, <1>18, WorkSteps DEF Next, Plan,
  Main, Kill, Again, Ended

-----------------------------------------------------------------------------
(***************************************************************************)
(* The slots.                                                              *)
(***************************************************************************)
SlotsInv == IsFiniteSet(InFlight) /\ Cardinality(InFlight) <= Requests
SlotsOf(g) == group[g].slots \cup group[g].reading

LEMMA SlotsStep ==
    ASSUME FetchInv, SlotsInv, [Next]_vars
    PROVE  SlotsInv'
<1> DEFINE Out(A) == UNION {{<<g, r>> : r \in A[g]} : g \in Groups}
<1>1. ASSUME InFlight' \subseteq InFlight PROVE SlotsInv'
  <2>1. /\ IsFiniteSet(InFlight') /\ Cardinality(InFlight') \in Nat
        /\ Cardinality(InFlight) \in Nat
        /\ Cardinality(InFlight') <= Cardinality(InFlight)
    BY <1>1, FS_Subset, FS_CardinalityType DEF SlotsInv
  <2> QED
    BY <2>1, FetchAssumption DEF SlotsInv
<1>2. ASSUME \A g \in Groups : SlotsOf(g)' \subseteq SlotsOf(g) PROVE SlotsInv'
  <2>1. InFlight' \subseteq InFlight
    BY <1>2 DEF InFlight, SlotsOf
  <2> QED
    BY <1>1, <2>1
<1>3. ASSUME NEW g \in Groups, NEW r, Cardinality(InFlight) < Requests,
             SlotsOf(g)' \subseteq SlotsOf(g) \cup {r},
             \A h \in Groups : h # g => SlotsOf(h)' = SlotsOf(h)
      PROVE  SlotsInv'
  <2> DEFINE more == InFlight \cup {<<g, r>>}
  <2>1. InFlight' \subseteq more
    BY <1>3 DEF InFlight, SlotsOf
  <2>2. /\ IsFiniteSet(more) /\ Cardinality(more) \in Nat
        /\ Cardinality(InFlight) \in Nat
        /\ Cardinality(more) <= Cardinality(InFlight) + 1
    <3>1. IsFiniteSet(InFlight)
      BY DEF SlotsInv
    <3>2. /\ IsFiniteSet(more)
          /\ \/ Cardinality(more) = Cardinality(InFlight)
             \/ Cardinality(more) = Cardinality(InFlight) + 1
      BY <3>1, FS_AddElement
    <3>3. Cardinality(more) \in Nat /\ Cardinality(InFlight) \in Nat
      BY <3>1, <3>2, FS_CardinalityType
    <3> QED
      BY <3>2, <3>3
  <2> HIDE DEF more
  <2>3. /\ IsFiniteSet(InFlight') /\ Cardinality(InFlight') \in Nat
        /\ Cardinality(InFlight') <= Cardinality(more)
    BY <2>1, <2>2, FS_Subset, FS_CardinalityType
  <2> QED
    BY <1>3, <2>2, <2>3, FetchAssumption DEF SlotsInv
<1>4. ASSUME NEW g \in Groups, WorkStep(g) PROVE SlotsInv'
  <2>1. PICK s \in GroupState :
           /\ group' = [group EXCEPT ![g] = s]
           /\ \/ s.slots \cup s.reading \subseteq SlotsOf(g)
              \/ /\ Cardinality(InFlight) < Requests
                 /\ \E r \in ranges[g] :
                       s.slots \cup s.reading \subseteq SlotsOf(g) \cup {r}
    BY <1>4 DEF WorkStep, Moves, SlotsOf
  <2>2. /\ SlotsOf(g)' = s.slots \cup s.reading
        /\ \A h \in Groups : h # g => SlotsOf(h)' = SlotsOf(h)
    BY <2>1 DEF SlotsOf, FetchInv, FetchTypes
  <2> QED
    BY <1>2, <1>3, <2>1, <2>2
<1>5. ASSUME \A g \in Groups : \/ group'[g] = group[g]
                               \/ group'[g] = Idle
                               \/ group'[g] = Starting(g)
      PROVE  SlotsInv'
  <2>1. \A g \in Groups : SlotsOf(g)' \subseteq SlotsOf(g)
    <3>1. /\ Idle.slots = {} /\ Idle.reading = {}
          /\ \A g \in Groups : Starting(g).slots = {} /\ Starting(g).reading = {}
      BY DEF Idle, Starting
    <3>2. \A g \in Groups : \/ SlotsOf(g)' = SlotsOf(g)
                             \/ SlotsOf(g)' = {}
      BY <1>5, <3>1 DEF SlotsOf
    <3> QED
      BY <3>2
  <2> QED
    BY <1>2, <2>1
<1>6. ASSUME group' = group PROVE SlotsInv'
  BY <1>5, <1>6
<1>7. CASE Plan
  BY <1>6, <1>7
  DEF Plan, Ask, PlanGroup, PlanFail, PlanEmpty, workVars
<1>8. CASE Start
  BY <1>5, <1>8 DEF Start
<1>9. CASE Main
  <2>1. CASE Fetched
    <3>1. \A g \in Groups : group'[g] = group[g] \/ group'[g] = Starting(g)
      BY <2>1 DEF Fetched, FetchInv, FetchTypes
    <3> QED
      BY <1>5, <3>1
  <2> QED
    BY <1>6, <1>9, <2>1 DEF Main, Arrive, TakeResult, Failed, StoreTile,
       StoreFail, Stored, Return, workVars
<1>10. CASE Kill \/ Again
  BY <1>5, <1>10 DEF Kill, Again, Fresh, NobodyRuns
<1>11. CASE Cancel \/ Ended \/ (\E g \in Groups : OtherEvicts(g)) \/ UNCHANGED vars
  BY <1>6, <1>11 DEF Cancel, Ended, OtherEvicts, workVars, vars
<1> QED
  BY <1>4, <1>7, <1>8, <1>9, <1>10, <1>11, WorkSteps DEF Next

-----------------------------------------------------------------------------
(***************************************************************************)
(* The invariants of the specification.                                    *)
(***************************************************************************)
LEMMA FetchBegins ==
    ASSUME Init PROVE FetchInv /\ SlotsInv /\ WholeFetch
<1>1. /\ Asleep \in MainState
      /\ NobodyRuns \in [Groups -> GroupState]
      /\ NoPlan \in [Groups -> SUBSET (SUBSET Tiles)]
      /\ 0 \in 0..MaxRuns /\ 0 \in 0..MaxRemovals
  <2>1. Idle \in GroupState
    <3>1. {} \in SUBSET (SUBSET Tiles)
      OBVIOUS
    <3> QED
      BY <3>1 DEF Idle, GroupState
  <2> QED
    BY <2>1, Bounds, FetchAssumption DEF Asleep, MainState, NobodyRuns, NoPlan
<1>2. FetchTypes
  BY <1>1, Bounds DEF Init, FetchTypes
<1>3. MainInv
  BY DEF Init, MainInv, Asleep
<1>4. GroupsInv /\ ToldInv
  BY DEF Init, GroupsInv, GroupOK, ToldInv, HeardOK, Asked, Asleep, NobodyRuns,
         Idle, NoPlan
<1>5. AheadInv
  BY DEF Init, AheadInv, Asleep
<1>6. InFlight = {}
  BY DEF Init, InFlight, NobodyRuns, Idle
<1>7. SlotsInv
  BY <1>6, FS_EmptySet, FetchAssumption DEF SlotsInv
<1>8. WholeFetch
  BY DEF Init, WholeFetch, CellsAreWhole, Asleep, Planned, NoPlan
<1> QED
  BY <1>2, <1>3, <1>4, <1>5, <1>7, <1>8 DEF FetchInv

LEMMA FetchStep ==
    ASSUME FetchInv, [Next]_vars PROVE FetchInv'
BY TypesStep, MainStep, GroupsStep, ToldStep, AheadStep DEF FetchInv

LEMMA FetchInvariant == Spec => [](FetchInv /\ SlotsInv)
<1>1. Init => FetchInv /\ SlotsInv
  BY FetchBegins
<1>2. FetchInv /\ SlotsInv /\ [Next]_vars => (FetchInv /\ SlotsInv)'
  BY FetchStep, SlotsStep
<1> QED
  BY <1>1, <1>2, PTL DEF Spec

\* The types of every variable, and never more requests out than slots
\* (fetch.go, slots), for any plan and any number of requests.
THEOREM FetchTypeCorrect == Spec => []TypeOK
<1>1. FetchInv /\ SlotsInv => TypeOK
  BY DEF FetchInv, FetchTypes, SlotsInv, ToldInv, TypeOK
<1> QED
  BY <1>1, FetchInvariant, PTL

\* Once Fetch has returned, none of its goroutines runs and no request is out
\* (fetch.go, the deferred cancel and wg.Wait).
THEOREM NothingRunsAfterReturn == Spec => []NothingAfterReturn
<1>1. FetchInv => NothingAfterReturn
  <2> SUFFICES ASSUME FetchInv, main.phase = "returned"
               PROVE  InFlight = {} /\ \A g \in Groups : group[g].phase # "asking"
    BY DEF NothingAfterReturn
  <2>1. \A g \in Groups : group[g].phase # "asking"
    BY DEF FetchInv, MainInv
  <2>2. \A g \in Groups : group[g].slots \cup group[g].reading = {}
    BY <2>1 DEF FetchInv, GroupsInv, GroupOK, Asked
  <2> QED
    BY <2>1, <2>2 DEF InFlight
<1> QED
  BY <1>1, FetchInvariant, PTL

\* When a group is stored the progress has been told of all of its ranges, and
\* of those of every group before it (fetch.go, the drain after the select).
THEOREM ProgressIsComplete == Spec => []ToldBeforeStored
<1>1. FetchInv => ToldBeforeStored
  <2> SUFFICES ASSUME FetchInv, main.phase = "storing",
                      NEW g \in 1..main.cur, NEW r \in ranges[g]
               PROVE  <<g, r>> \in told
    BY DEF ToldBeforeStored
  <2>1. main.cur \in Groups
    BY DEF FetchInv, MainInv
  <2>2. g = main.cur \/ g \in 1..(main.cur - 1)
    BY <2>1, FetchAssumption DEF Groups
  <2> QED
    BY <2>2 DEF FetchInv, ToldInv
<1> QED
  BY <1>1, FetchInvariant, PTL

\* No more groups are read and not yet stored than there may be requests, and
\* the one being stored (fetch.go, Fetch, "Memory").
THEOREM MemoryIsBounded == Spec => []BuffersAreBounded
<1>1. FetchInv => BuffersAreBounded
  <2> DEFINE ahead == {g \in Groups : Launched(g) /\ g >= main.cur}
             bound == Requests + (IF main.phase = "storing" THEN 1 ELSE 0)
  <2> SUFFICES ASSUME FetchInv, main.phase \in {"waiting", "draining", "storing"}
               PROVE  Cardinality(ahead) <= bound
    BY DEF BuffersAreBounded
  <2>1. main.cur \in Groups /\ next \in 1..(N + 1)
    BY DEF FetchInv, FetchTypes, MainInv
  <2>2. bound \in Nat /\ next <= main.cur + bound
    BY <2>1, FetchAssumption DEF FetchInv, AheadInv, Groups
  <2> HIDE DEF bound
  <2>3. ahead \subseteq main.cur..(main.cur + bound - 1)
    <3> SUFFICES ASSUME NEW g \in ahead
                 PROVE  g \in main.cur..(main.cur + bound - 1)
      OBVIOUS
    <3>1. g \in Groups /\ g >= main.cur /\ g < next
      BY DEF FetchInv, AheadInv
    <3> QED
      BY <2>1, <2>2, <3>1, FetchAssumption DEF Groups
  <2> HIDE DEF ahead
  <2>4. /\ IsFiniteSet(main.cur..(main.cur + bound - 1))
        /\ Cardinality(main.cur..(main.cur + bound - 1)) <= bound
    <3>1. main.cur \in Int /\ main.cur + bound - 1 \in Int
      BY <2>1, <2>2, Bounds
    <3> DEFINE hi == main.cur + bound - 1
    <3>2. hi - main.cur + 1 = bound
      BY <2>1, <2>2, Bounds
    <3> HIDE DEF hi
    <3>3. /\ IsFiniteSet(main.cur..hi)
          /\ Cardinality(main.cur..hi) = IF main.cur > hi THEN 0
                                         ELSE hi - main.cur + 1
      BY <3>1, FS_Interval DEF hi
    <3>4. Cardinality(main.cur..hi) <= bound
      BY <2>2, <3>2, <3>3
    <3> QED
      BY <3>3, <3>4 DEF hi
  <2>5. /\ Cardinality(ahead) \in Nat
        /\ Cardinality(ahead) <= Cardinality(main.cur..(main.cur + bound - 1))
        /\ Cardinality(main.cur..(main.cur + bound - 1)) \in Nat
    BY <2>3, <2>4, FS_Subset, FS_CardinalityType
  <2> QED
    BY <2>2, <2>4, <2>5
<1> QED
  BY <1>1, FetchInvariant, PTL

\* While no cell is removed during a fetch, a cell recorded complete lacks no
\* tile of the archive, whatever failed, was cancelled or was killed before.
THEOREM FetchedCellsAreWhole == ~EvictBesideFetch => (Spec => []CellsAreWhole)
<1> SUFFICES ASSUME ~EvictBesideFetch PROVE Spec => []CellsAreWhole
  OBVIOUS
<1>1. Init => FetchInv /\ WholeFetch
  BY FetchBegins
<1>2. FetchInv /\ WholeFetch /\ [Next]_vars => (FetchInv /\ WholeFetch)'
  BY FetchStep, WholeStep
<1>3. FetchInv /\ WholeFetch => CellsAreWhole
  BY DEF WholeFetch
<1> QED
  BY <1>1, <1>2, <1>3, PTL DEF Spec

-----------------------------------------------------------------------------
(***************************************************************************)
(* AcquireFetch implements SequentialFetch.                                *)
(***************************************************************************)
LEMMA PhaseOf ==
    /\ SeqPhase("idle") = "idle"
    /\ SeqPhase("planning") = "reading" /\ SeqPhase("planned") = "reading"
    /\ SeqPhase("waiting") = "reading" /\ SeqPhase("draining") = "reading"
    /\ SeqPhase("storing") = "storing"
    /\ SeqPhase("ending") = "ended" /\ SeqPhase("returned") = "ended"
BY DEF SeqPhase

\* A step that leaves the disk and the group in hand is a stutter.
LEMMA Stutters ==
    ASSUME UNCHANGED <<tiles, complete, rest>>,
           SeqPhase(main'.phase) = SeqPhase(main.phase),
           SeqCur(main') = SeqCur(main)
    PROVE  UNCHANGED OneAtATime!vars
BY DEF OneAtATime!vars

\* A step that ends the fetch early.
LEMMA Stops ==
    ASSUME SeqPhase(main.phase) \in {"reading", "storing"},
           SeqPhase(main'.phase) = "ended", rest' = {},
           SeqCur(main') = SeqCur(main), UNCHANGED <<tiles, complete>>
    PROVE  OneAtATime!Stop
BY DEF OneAtATime!Stop

LEMMA RefinesStep ==
    ASSUME FetchInv, WholeFetch, ~EvictBesideFetch, [Next]_vars
    PROVE  OneAtATime!Next \/ UNCHANGED OneAtATime!vars
<1> DEFINE Goal == OneAtATime!Next \/ UNCHANGED OneAtATime!vars
<1>t. main \in MainState
  BY DEF FetchInv, FetchTypes
<1>1. CASE Ask
  <2>1. /\ main.phase = "idle" /\ main.cur = 1 /\ main'.phase = "planning"
        /\ UNCHANGED <<tiles, complete, rest>>
    BY <1>t, <1>1 DEF Ask, FetchInv, MainInv, MainState, diskVars
  <2>2. OneAtATime!Begin
    BY <2>1, PhaseOf DEF OneAtATime!Begin, SeqCur
  <2> QED
    BY <2>2 DEF OneAtATime!Next
<1>2. CASE PlanGroup
  <2>1. /\ main.phase = "planning" /\ UNCHANGED <<tiles, complete, rest>>
        /\ main'.phase \in {"planning", "planned"}
        /\ main'.phase = "planned" => main'.cur = 1
    BY <1>t, <1>2 DEF PlanGroup, MainState, diskVars
  <2> QED
    BY <2>1, PhaseOf, Stutters DEF SeqCur
<1>3. CASE PlanFail
  <2>1. /\ main.phase = "planning" /\ main'.phase = "returned"
        /\ main'.cur = 1 /\ rest' = {} /\ UNCHANGED <<tiles, complete>>
    BY <1>3 DEF PlanFail, FetchInv, MainInv, diskVars
  <2>2. OneAtATime!Stop
    BY <2>1, PhaseOf, Stops DEF SeqCur
  <2> QED
    BY <2>2 DEF OneAtATime!Next
<1>4. CASE PlanEmpty
  <2>1. /\ main.phase = "planned" /\ main'.phase = "returned"
        /\ main'.cur = main.cur /\ rest' = {} /\ UNCHANGED <<tiles, complete>>
    BY <1>t, <1>4 DEF PlanEmpty, FetchInv, MainInv, MainState, diskVars
  <2>2. OneAtATime!Stop
    BY <2>1, PhaseOf, Stops DEF SeqCur
  <2> QED
    BY <2>2 DEF OneAtATime!Next
<1>5. CASE Start
  <2>1. /\ main.phase = "planned" /\ main'.phase = "waiting"
        /\ main'.cur = main.cur /\ UNCHANGED <<tiles, complete, rest>>
    BY <1>t, <1>5 DEF Start, MainState, diskVars
  <2> QED
    BY <2>1, PhaseOf, Stutters DEF SeqCur
<1>6. ASSUME UNCHANGED <<tiles, complete, main, rest>> PROVE Goal
  BY <1>6, Stutters
<1>7. CASE TakeResult
  <2>1. /\ main.phase = "waiting" /\ main'.phase = "draining"
        /\ main'.cur = main.cur /\ UNCHANGED <<tiles, complete, rest>>
    BY <1>t, <1>7 DEF TakeResult, MainState, diskVars
  <2> QED
    BY <2>1, PhaseOf, Stutters DEF SeqCur
<1>8. CASE Failed
  <2>1. /\ main.phase = "draining" /\ main'.phase = "ending"
        /\ main'.cur = main.cur /\ rest' = {} /\ UNCHANGED <<tiles, complete>>
    BY <1>t, <1>8 DEF Failed, FetchInv, MainInv, MainState, diskVars
  <2>2. OneAtATime!Stop
    BY <2>1, PhaseOf, Stops DEF SeqCur
  <2> QED
    BY <2>2 DEF OneAtATime!Next
<1>9. CASE Fetched
  <2>1. /\ main.phase = "draining" /\ main'.phase = "storing"
        /\ main'.cur = main.cur /\ rest' = Refs[main.cur]
        /\ UNCHANGED <<tiles, complete>>
    BY <1>t, <1>9 DEF Fetched, MainState, diskVars
  <2>2. OneAtATime!Read
    BY <2>1, PhaseOf DEF OneAtATime!Read, SeqCur
  <2> QED
    BY <2>2 DEF OneAtATime!Next
<1>10. ASSUME NEW t \in rest, StoreTile(t) PROVE Goal
  <2> DEFINE c == main.cur
  <2>1. /\ main.phase = "storing" /\ c \in Groups /\ t \in Refs[c]
        /\ UNCHANGED <<main, complete>> /\ rest' = rest \ {t}
    BY <1>10 DEF StoreTile, FetchInv, MainInv
  <2>2. t \in Archive => t \in tiles \/ t \in Planned(c)
    BY <2>1 DEF WholeFetch, PlanCovers
  <2>3. t \in Planned(c) => t \in Archive
    BY <2>1 DEF WholeFetch
  <2>4. tiles' = tiles \cup ({t} \cap Archive)
    BY <1>10, <2>2, <2>3 DEF StoreTile, RawTile
  <2>5. OneAtATime!Store(t)
    BY <1>10, <2>1, <2>4, PhaseOf DEF OneAtATime!Store
  <2> QED
    BY <2>1, <2>5 DEF OneAtATime!Next, OneAtATime!Store, Groups
<1>11. CASE StoreFail
  <2>1. /\ main.phase = "storing" /\ main'.phase = "ending"
        /\ main'.cur = main.cur /\ rest' = {} /\ UNCHANGED <<tiles, complete>>
    BY <1>t, <1>11 DEF StoreFail, MainState, diskVars
  <2>2. OneAtATime!Stop
    BY <2>1, PhaseOf, Stops DEF SeqCur
  <2> QED
    BY <2>2 DEF OneAtATime!Next
<1>12. CASE Stored
  <2>1. /\ main.phase = "storing" /\ main.cur \in Groups /\ rest = {}
        /\ complete' = complete \cup ({main.cur} \ Overviews)
        /\ main'.cur = main.cur + 1 /\ UNCHANGED <<tiles, rest>>
    BY <1>t, <1>12 DEF Stored, FetchInv, MainInv, MainState
  <2>2. main'.phase = IF main.cur < N THEN "waiting" ELSE "ending"
    BY <1>t, <1>12 DEF Stored, MainState
  <2>3. main.cur + 1 \in Groups <=> main.cur < N
    BY <2>1, FetchAssumption DEF Groups
  <2>4. OneAtATime!Record
    BY <2>1, <2>2, <2>3, PhaseOf DEF OneAtATime!Record, SeqCur
  <2> QED
    BY <2>4 DEF OneAtATime!Next
<1>13. CASE Return
  <2>1. /\ main.phase = "ending" /\ main'.phase = "returned"
        /\ main'.cur = main.cur /\ UNCHANGED <<tiles, complete, rest>>
    BY <1>t, <1>13 DEF Return, MainState, diskVars
  <2> QED
    BY <2>1, PhaseOf, Stutters DEF SeqCur
<1>14. CASE Kill \/ Again
  <2>1. /\ main'.phase = "idle" /\ main'.cur = 1 /\ rest' = {}
        /\ UNCHANGED <<tiles, complete>>
    BY <1>14 DEF Kill, Again, Fresh, Asleep, diskVars
  <2>2. OneAtATime!Again
    BY <2>1, PhaseOf DEF OneAtATime!Again, SeqCur
  <2> QED
    BY <2>2 DEF OneAtATime!Next
<1>15. ASSUME NEW g \in Groups, OtherEvicts(g) PROVE Goal
  <2>1. /\ main.phase \in {"idle", "returned"} /\ g \in Groups \ Overviews
        /\ UNCHANGED <<main, rest>>
        /\ tiles' = tiles \ Refs[g] /\ complete' = complete \ {g}
    BY <1>15 DEF OtherEvicts
  <2>2. OneAtATime!Vanish(g)
    BY <2>1, PhaseOf DEF OneAtATime!Vanish
  <2> QED
    BY <2>1, <2>2 DEF OneAtATime!Next
<1>16. ASSUME NEW g \in Groups, WorkStep(g) PROVE Goal
  BY <1>6, <1>16 DEF WorkStep
<1>17. ASSUME NEW a \in arrivals, Arrive(a) PROVE Goal
  BY <1>6, <1>17 DEF Arrive, diskVars
<1>18. CASE Cancel \/ Ended \/ UNCHANGED vars
  BY <1>6, <1>18 DEF Cancel, Ended, vars, diskVars
<1> QED
  BY <1>1, <1>2, <1>3, <1>4, <1>5, <1>7, <1>8, <1>9, <1>10, <1>11, <1>12,
     <1>13, <1>14, <1>15, <1>16, <1>17, <1>18, WorkSteps DEF Next, Plan, Main

\* While no cell is removed during a fetch, the pipeline of requests comes to
\* one goroutine that reads the groups and stores them one after the next.
THEOREM FetchIsSequential == ~EvictBesideFetch => (Spec => StoresInOrder)
<1> SUFFICES ASSUME ~EvictBesideFetch PROVE Spec => StoresInOrder
  OBVIOUS
<1>1. Init => FetchInv /\ WholeFetch
  BY FetchBegins
<1>2. FetchInv /\ WholeFetch /\ [Next]_vars => (FetchInv /\ WholeFetch)'
  BY FetchStep, WholeStep
<1>3. Init => OneAtATime!Init
  BY PhaseOf DEF Init, Asleep, OneAtATime!Init, SeqCur
<1>4. FetchInv /\ WholeFetch /\ [Next]_vars => [OneAtATime!Next]_(OneAtATime!vars)
  BY RefinesStep
<1> QED
  BY <1>1, <1>2, <1>3, <1>4, PTL DEF Spec, StoresInOrder, OneAtATime!Spec

=============================================================================
