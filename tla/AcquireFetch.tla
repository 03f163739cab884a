---------------------------- MODULE AcquireFetch ----------------------------
(***************************************************************************)
(* A fetch (package acquire: PlanFor and Fetch), with its concurrency.     *)
(* The plan is made by asking the store and the archive's index about      *)
(* every tile.  Then one goroutine for each group ahead of the store asks  *)
(* for the group's ranges, one goroutine for each range reads it once it   *)
(* has a slot, and the caller's goroutine takes the groups in the plan's   *)
(* order and stores them.  The context may be cancelled, a read or a write *)
(* may fail, the process may be killed, at any moment.                     *)
(*                                                                         *)
(* How the store writes a cell is the module Slice; here a cell is its     *)
(* tiles and whether it has a cell.json.  A range stands for the set of    *)
(* planned tiles whose bytes it holds; bytes and offsets are left out.     *)
(***************************************************************************)
EXTENDS Integers, FiniteSets

CONSTANTS
    N,                  \* how many groups the plan has
    Overviews,          \* the groups of shared tiles, filled by FillOverview
    Refs,               \* the tiles of each group
    Archive,            \* the tiles the archive's index has
    Requests,           \* range requests in flight at once
    MaxRuns,            \* bound: how often the fetch is asked for again
    MaxRemovals,        \* bound: how often a cell's directory is removed
    EvictBesideFetch    \* whether that may happen during a fetch

Groups == 1..N
Tiles == UNION {Refs[g] : g \in Groups}

ASSUME FetchAssumption ==
    /\ N \in Nat \ {0}
    /\ Overviews \subseteq Groups
    /\ DOMAIN Refs = Groups
    /\ \A g, h \in Groups : g # h => Refs[g] \cap Refs[h] = {}
    /\ Archive \subseteq Tiles
    /\ Requests \in Nat \ {0}
    /\ MaxRuns \in Nat
    /\ MaxRemovals \in Nat
    /\ EvictBesideFetch \in BOOLEAN

VARIABLES
    tiles,              \* the tiles on disk
    complete,           \* the cells that have a cell.json
    ranges,             \* the plan: each group's ranges
    main,               \* the goroutine that called Fetch
    next,               \* the next group to launch
    group,              \* the goroutine of each group, with those of its ranges
    cancelled,          \* whether the fetch's context is done
    arrivals,           \* the channel of ranges that have arrived
    told,               \* the ranges the progress has been told of
    rest,               \* the tiles Fill has still to come to
    runs,               \* how often the fetch has been asked for again
    removals            \* how often a cell has been removed

diskVars == <<tiles, complete>>
workVars == <<next, group, arrivals>>
boundVars == <<runs, removals>>
vars == <<tiles, complete, ranges, main, next, group, cancelled, arrivals,
          told, rest, runs, removals>>

Idle == [phase |-> "idle", todo |-> {}, slots |-> {}, reading |-> {},
         failed |-> FALSE]

\* The ways coalesce may divide tiles among ranges: each tile in one of them.
Coalesced(P) ==
    {Q \in SUBSET ((SUBSET P) \ {{}}) :
        /\ UNION Q = P
        /\ \A r, s \in Q : r # s => r \cap s = {}}

Planned(g) == UNION ranges[g]
Launched(g) == group[g].phase # "idle"

\* The requests of every group that hold a slot.
InFlight ==
    UNION {{<<g, r>> : r \in group[g].slots \cup group[g].reading} :
              g \in Groups}

MainState ==
    [phase: {"idle", "planning", "planned", "waiting", "draining", "storing",
             "ending", "returned"},
     cur: 1..(N + 1),
     outcome: {"none", "ok", "error", "nothing"}]

GroupState ==
    [phase: {"idle", "asking", "done"}, todo: SUBSET (SUBSET Tiles),
     slots: SUBSET (SUBSET Tiles), reading: SUBSET (SUBSET Tiles),
     failed: BOOLEAN]

\* Types, that no more requests are out than there are slots, and that the
\* bounded channel of arrivals, which has room for every range of the plan, is
\* never asked for more.
TypeOK ==
    /\ tiles \subseteq Tiles
    /\ complete \subseteq Groups \ Overviews
    /\ ranges \in [Groups -> SUBSET (SUBSET Tiles)]
    /\ main \in MainState
    /\ next \in 1..(N + 1)
    /\ group \in [Groups -> GroupState]
    /\ cancelled \in BOOLEAN
    /\ arrivals \subseteq Groups \X SUBSET Tiles
    /\ \A a \in arrivals \cup told : a[2] \in ranges[a[1]]
    /\ arrivals \cap told = {}
    /\ rest \subseteq Tiles
    /\ Cardinality(InFlight) <= Requests
    /\ runs \in 0..MaxRuns
    /\ removals \in 0..MaxRemovals

Asleep == [phase |-> "idle", cur |-> 1, outcome |-> "none"]
NoPlan == [g \in Groups |-> {}]
NobodyRuns == [g \in Groups |-> Idle]

Init ==
    /\ tiles = {}
    /\ complete = {}
    /\ ranges = NoPlan
    /\ main = Asleep
    /\ next = 1
    /\ group = NobodyRuns
    /\ cancelled = FALSE
    /\ arrivals = {}
    /\ told = {}
    /\ rest = {}
    /\ runs = 0
    /\ removals = 0

-----------------------------------------------------------------------------
(***************************************************************************)
(* PlanFor.                                                                *)
(***************************************************************************)
Ask ==
    /\ main.phase = "idle"
    /\ main' = [main EXCEPT !.phase = "planning"]
    /\ UNCHANGED <<diskVars, ranges, workVars, cancelled, told, rest, boundVars>>

\* planGroup: the tiles the store lacks and the archive has, coalesced.
PlanGroup ==
    LET g == main.cur
        missing == (Refs[g] \ tiles) \cap Archive
    IN
    /\ main.phase = "planning"
    /\ ~cancelled
    /\ \E Q \in Coalesced(missing) : ranges' = [ranges EXCEPT ![g] = Q]
    /\ main' = IF g < N THEN [main EXCEPT !.cur = g + 1]
               ELSE [main EXCEPT !.phase = "planned", !.cur = 1]
    /\ UNCHANGED <<diskVars, workVars, cancelled, told, rest, boundVars>>

\* The index cannot be read, or the context is done.
PlanFail ==
    /\ main.phase = "planning"
    /\ main' = [phase |-> "returned", cur |-> 1, outcome |-> "error"]
    /\ UNCHANGED <<diskVars, ranges, workVars, cancelled, told, rest, boundVars>>

\* Every caller of Fetch asks Plan.Empty first, and fetches nothing if it is.
PlanEmpty ==
    /\ main.phase = "planned"
    /\ \A g \in Groups : Planned(g) = {}
    /\ main' = [main EXCEPT !.phase = "returned", !.outcome = "nothing"]
    /\ UNCHANGED <<diskVars, ranges, workVars, cancelled, told, rest, boundVars>>

-----------------------------------------------------------------------------
(***************************************************************************)
(* Fetch: the groups' goroutines and their requests.                       *)
(***************************************************************************)
\* A group's goroutine, or one of its ranges, goes on to the state s.
Moves(g, s) == group' = [group EXCEPT ![g] = s]

Starting(g) == [phase |-> "asking", todo |-> ranges[g], slots |-> {},
                reading |-> {}, failed |-> FALSE]

\* Mutant of Start: every group is launched at once.
StartAll ==
    /\ main.phase = "planned"
    /\ \E g \in Groups : Planned(g) # {}
    /\ group' = [g \in Groups |-> Starting(g)]
    /\ next' = N + 1
    /\ main' = [main EXCEPT !.phase = "waiting"]
    /\ UNCHANGED <<diskVars, ranges, cancelled, arrivals, told, rest, boundVars>>

\* The groups that are launched at once, as many as there are slots.
First == {g \in Groups : g <= Requests}

Start ==
    /\ main.phase = "planned"
    /\ \E g \in Groups : Planned(g) # {}
    /\ group' = [g \in Groups |-> IF g \in First THEN Starting(g) ELSE Idle]
    /\ next' = Cardinality(First) + 1
    /\ main' = [main EXCEPT !.phase = "waiting"]
    /\ UNCHANGED <<diskVars, ranges, cancelled, arrivals, told, rest, boundVars>>

\* Mutant of TakeSlot: a range waits for no slot.
TakeSlotFreely(g, r) ==
    /\ group[g].phase = "asking"
    /\ r \in group[g].todo
    /\ Moves(g, [group[g] EXCEPT !.todo = @ \ {r}, !.slots = @ \cup {r}])
    /\ UNCHANGED <<diskVars, ranges, main, next, cancelled, arrivals, told,
                   rest, boundVars>>

\* fetchRanges: a range gets a slot and a goroutine of its own.
TakeSlot(g, r) ==
    /\ group[g].phase = "asking"
    /\ r \in group[g].todo
    /\ Cardinality(InFlight) < Requests
    /\ Moves(g, [group[g] EXCEPT !.todo = @ \ {r}, !.slots = @ \cup {r}])
    /\ UNCHANGED <<diskVars, ranges, main, next, cancelled, arrivals, told,
                   rest, boundVars>>

\* The context is done: the group asks for none of the ranges it has left.
GiveUp(g) ==
    /\ group[g].phase = "asking"
    /\ group[g].todo # {}
    /\ cancelled
    /\ Moves(g, [group[g] EXCEPT !.todo = {}, !.failed = TRUE])
    /\ UNCHANGED <<diskVars, ranges, main, next, cancelled, arrivals, told,
                   rest, boundVars>>

\* The range's goroutine looks at the context once, and then reads.
BeginRead(g, r) ==
    /\ r \in group[g].slots
    /\ IF cancelled
       THEN Moves(g, [group[g] EXCEPT !.slots = @ \ {r}, !.failed = TRUE])
       ELSE Moves(g, [group[g] EXCEPT !.slots = @ \ {r}, !.reading = @ \cup {r}])
    /\ UNCHANGED <<diskVars, ranges, main, next, cancelled, arrivals, told,
                   rest, boundVars>>

\* The bytes arrive, the progress is sent word, the slot is given back.
ReadOk(g, r) ==
    /\ r \in group[g].reading
    /\ arrivals' = arrivals \cup {<<g, r>>}
    /\ Moves(g, [group[g] EXCEPT !.reading = @ \ {r}])
    /\ UNCHANGED <<diskVars, ranges, main, next, cancelled, told, rest,
                   boundVars>>

\* The read fails, or ends before the range does.
ReadFail(g, r) ==
    /\ r \in group[g].reading
    /\ Moves(g, [group[g] EXCEPT !.reading = @ \ {r}, !.failed = TRUE])
    /\ UNCHANGED <<diskVars, ranges, main, next, cancelled, arrivals, told,
                   rest, boundVars>>

\* Mutant of GroupReturns: the channel has no room, so the result is handed
\* over only to a Fetch that waits for it.
GroupReturnsUnbuffered(g) ==
    /\ group[g].phase = "asking"
    /\ group[g].todo = {}
    /\ group[g].slots = {}
    /\ group[g].reading = {}
    /\ main.phase = "waiting" /\ main.cur = g
    /\ Moves(g, [group[g] EXCEPT !.phase = "done"])
    /\ UNCHANGED <<diskVars, ranges, main, next, cancelled, arrivals, told,
                   rest, boundVars>>

\* Every request of the group is back: fetchRanges returns, and the result
\* waits in the group's own channel.
GroupReturns(g) ==
    /\ group[g].phase = "asking"
    /\ group[g].todo = {}
    /\ group[g].slots = {}
    /\ group[g].reading = {}
    /\ Moves(g, [group[g] EXCEPT !.phase = "done"])
    /\ UNCHANGED <<diskVars, ranges, main, next, cancelled, arrivals, told,
                   rest, boundVars>>

-----------------------------------------------------------------------------
(***************************************************************************)
(* Fetch: the goroutine that called it.                                    *)
(***************************************************************************)

\* It is told of a range that has arrived, while it waits for a group or once
\* it has the group's result.
Arrive(a) ==
    /\ main.phase \in {"waiting", "draining"}
    /\ a \in arrivals
    /\ arrivals' = arrivals \ {a}
    /\ told' = told \cup {a}
    /\ UNCHANGED <<diskVars, ranges, main, next, group, cancelled, rest,
                   boundVars>>

\* It receives the result of the group it is at.
TakeResult ==
    /\ main.phase = "waiting"
    /\ group[main.cur].phase = "done"
    /\ main' = [main EXCEPT !.phase = "draining"]
    /\ UNCHANGED <<diskVars, ranges, workVars, cancelled, told, rest, boundVars>>

\* Mutant of Failed: the next group is taken all the same.
FailedSkips ==
    /\ main.phase = "draining"
    /\ arrivals = {}
    /\ group[main.cur].failed
    /\ main.cur < N
    /\ main' = [main EXCEPT !.phase = "waiting", !.cur = @ + 1]
    /\ IF next <= N
       THEN next' = next + 1 /\ group' = [group EXCEPT ![next] = Starting(next)]
       ELSE UNCHANGED <<next, group>>
    /\ UNCHANGED <<diskVars, ranges, cancelled, arrivals, told, rest, boundVars>>

\* The group failed: Fetch returns its error, cancelling the others first.
Failed ==
    /\ main.phase = "draining"
    /\ arrivals = {}
    /\ group[main.cur].failed
    /\ main' = [main EXCEPT !.phase = "ending", !.outcome = "error"]
    /\ cancelled' = TRUE
    /\ UNCHANGED <<diskVars, ranges, workVars, told, rest, boundVars>>

\* Mutant of Fetched: what has arrived meanwhile is not looked at.
FetchedUndrained ==
    /\ main.phase = "draining"
    /\ ~group[main.cur].failed
    /\ IF next <= N
       THEN next' = next + 1 /\ group' = [group EXCEPT ![next] = Starting(next)]
       ELSE UNCHANGED <<next, group>>
    /\ rest' = Refs[main.cur]
    /\ main' = [main EXCEPT !.phase = "storing"]
    /\ UNCHANGED <<diskVars, ranges, cancelled, arrivals, told, boundVars>>

\* Nothing more has arrived and the group is there: another is launched in its
\* place, and Fill, or FillOverview, begins.
Fetched ==
    /\ main.phase = "draining"
    /\ arrivals = {}
    /\ ~group[main.cur].failed
    /\ IF next <= N
       THEN next' = next + 1 /\ group' = [group EXCEPT ![next] = Starting(next)]
       ELSE UNCHANGED <<next, group>>
    /\ rest' = Refs[main.cur]
    /\ main' = [main EXCEPT !.phase = "storing"]
    /\ UNCHANGED <<diskVars, ranges, cancelled, arrivals, told, boundVars>>

\* RawTile: what the group's buffer says of a tile.  The tiles of the group
\* that no range was planned for are what it holds to be absent.
RawTile(g, t) ==
    IF t \in Planned(g) THEN "tile"
    ELSE IF t \in Refs[g] \ Planned(g) THEN "absent"
    ELSE "error"

\* Fill comes to a tile: one on disk is skipped, one the buffer has is
\* written, one it holds to be absent leaves no file.
StoreTile(t) ==
    /\ main.phase = "storing"
    /\ ~cancelled
    /\ t \in rest
    /\ t \in tiles \/ RawTile(main.cur, t) # "error"
    /\ tiles' = IF t \notin tiles /\ RawTile(main.cur, t) = "tile"
                THEN tiles \cup {t} ELSE tiles
    /\ rest' = rest \ {t}
    /\ UNCHANGED <<complete, ranges, main, workVars, cancelled, told, boundVars>>

\* Mutant of StoreFail: a tile that cannot be written is passed over.
StoreFailGoesOn ==
    /\ main.phase = "storing"
    /\ \E t \in rest : rest' = rest \ {t}
    /\ UNCHANGED <<diskVars, ranges, main, workVars, cancelled, told, boundVars>>

\* The context is done, a file cannot be written, or the store asked for a
\* tile the buffer does not know: Fetch returns the error.
StoreFail ==
    /\ main.phase = "storing"
    /\ main' = [main EXCEPT !.phase = "ending", !.outcome = "error"]
    /\ cancelled' = TRUE
    /\ rest' = {}
    /\ UNCHANGED <<diskVars, ranges, workVars, told, boundVars>>

\* Every tile stored, a cell gets its cell.json.  The progress is told that
\* the group is done, and the next one is waited for.
Stored ==
    LET g == main.cur IN
    /\ main.phase = "storing"
    /\ rest = {}
    /\ complete' = complete \cup ({g} \ Overviews)
    /\ IF g < N
       THEN /\ main' = [main EXCEPT !.phase = "waiting", !.cur = g + 1]
            /\ UNCHANGED cancelled
       ELSE /\ main' = [main EXCEPT !.phase = "ending", !.cur = g + 1,
                                    !.outcome = "ok"]
            /\ cancelled' = TRUE
    /\ UNCHANGED <<tiles, ranges, workVars, told, rest, boundVars>>

\* Mutant of Return: the goroutines are not waited for.
ReturnEarly ==
    /\ main.phase = "ending"
    /\ main' = [main EXCEPT !.phase = "returned"]
    /\ UNCHANGED <<diskVars, ranges, workVars, cancelled, told, rest, boundVars>>

\* Every goroutine is back, and Fetch returns.
Return ==
    /\ main.phase = "ending"
    /\ \A g \in Groups : group[g].phase # "asking"
    /\ main' = [main EXCEPT !.phase = "returned"]
    /\ UNCHANGED <<diskVars, ranges, workVars, cancelled, told, rest, boundVars>>

-----------------------------------------------------------------------------
\* The caller cancels the context it passed.
Cancel ==
    /\ main.phase \notin {"idle", "returned"}
    /\ ~cancelled
    /\ cancelled' = TRUE
    /\ UNCHANGED <<diskVars, ranges, main, workVars, told, rest, boundVars>>

\* What a process that has fetched, or has been killed, starts from.
Fresh ==
    /\ runs < MaxRuns
    /\ runs' = runs + 1
    /\ ranges' = NoPlan
    /\ main' = Asleep
    /\ next' = 1
    /\ group' = NobodyRuns
    /\ cancelled' = FALSE
    /\ arrivals' = {}
    /\ told' = {}
    /\ rest' = {}
    /\ UNCHANGED <<diskVars, removals>>

Kill == main.phase \notin {"idle", "returned"} /\ Fresh
Again == main.phase = "returned" /\ Fresh

\* A program that has fetched need not do so again.
Ended == main.phase = "returned" /\ UNCHANGED vars

\* Another program evicts a cell, or somebody clears its directory.
OtherEvicts(g) ==
    /\ removals < MaxRemovals
    /\ \/ main.phase \in {"idle", "returned"}
       \/ EvictBesideFetch /\ main.phase # "storing"
    /\ g \notin Overviews
    /\ tiles' = tiles \ Refs[g]
    /\ complete' = complete \ {g}
    /\ removals' = removals + 1
    /\ UNCHANGED <<ranges, main, workVars, cancelled, told, rest, runs>>

Plan == Ask \/ PlanGroup \/ PlanFail \/ PlanEmpty

Work(g) ==
    \/ \E r \in ranges[g] : TakeSlot(g, r)
    \/ GiveUp(g)
    \/ \E r \in ranges[g] : BeginRead(g, r)
    \/ \E r \in ranges[g] : ReadOk(g, r)
    \/ \E r \in ranges[g] : ReadFail(g, r)
    \/ GroupReturns(g)

Main ==
    \/ \E a \in arrivals : Arrive(a)
    \/ TakeResult
    \/ Failed
    \/ Fetched
    \/ \E t \in rest : StoreTile(t)
    \/ StoreFail
    \/ Stored
    \/ Return

Next ==
    \/ Plan
    \/ Start
    \/ \E g \in Groups : Work(g)
    \/ Main
    \/ Cancel
    \/ Kill
    \/ Again
    \/ Ended
    \/ \E g \in Groups : OtherEvicts(g)

Spec == Init /\ [][Next]_vars

\* Goroutines that can run do run.  A request ends, if only by the client's
\* timeout.  Nobody is obliged to ask for a fetch, to cancel or to kill it.
GroupRuns(g) == \/ \E r \in ranges[g] : TakeSlot(g, r)
                \/ GiveUp(g)
                \/ GroupReturns(g)
FairSpec ==
    /\ Spec
    /\ WF_vars(PlanGroup \/ PlanFail \/ PlanEmpty \/ Start)
    /\ WF_vars(Main)
    /\ \A g \in Groups :
        /\ WF_vars(GroupRuns(g))
        /\ WF_vars(\E r \in ranges[g] : BeginRead(g, r))
        /\ WF_vars(\E r \in ranges[g] : ReadOk(g, r) \/ ReadFail(g, r))

-----------------------------------------------------------------------------
(***************************************************************************)
(* What a fetch promises.                                                  *)
(***************************************************************************)

\* A cell that has a cell.json lacks no tile the archive holds, whatever failed
\* and whoever was killed before (fetch.go, RawTile: answering wrongly would
\* leave "a hole nobody sees until that square of the world is drawn").
CellsAreWhole == \A g \in complete : Refs[g] \cap Archive \subseteq tiles

\* The groups read and not yet stored are bounded: as many as there may be
\* requests, and the one being stored (fetch.go, Fetch, "Memory").
BuffersAreBounded ==
    main.phase \in {"waiting", "draining", "storing"}
    => Cardinality({g \in Groups : Launched(g) /\ g >= main.cur})
       <= Requests + (IF main.phase = "storing" THEN 1 ELSE 0)

\* By the time a group is done, the progress has had a call for every one of
\* its ranges (fetch.go, FetchOptions.Progress).
ToldBeforeStored ==
    main.phase = "storing"
    => \A g \in 1..main.cur : \A r \in ranges[g] : <<g, r>> \in told

\* Once Fetch has returned, nothing of it runs: no request is out and none will
\* be started (fetch.go: "a fetch that fails leaves no request to be started
\* after it returns").
NothingAfterReturn ==
    main.phase = "returned"
    => InFlight = {} /\ \A g \in Groups : group[g].phase # "asking"

\* A cell of a plan that has nothing left to fetch is finished (plan.go, Empty:
\* "what a finished area looks like when the command is run again").
EmptyMeansFinished ==
    main.outcome = "nothing" => Groups \ Overviews \subseteq complete

\* Every fetch returns, or is killed: slots, channels and waits never hold one
\* another up.
FetchReturns ==
    main.phase \notin {"idle", "returned"} ~> main.phase \in {"idle", "returned"}

\* What the caller's goroutine is at, as SequentialFetch has it.
SeqPhase(p) ==
    CASE p = "idle" -> "idle"
      [] p \in {"planning", "planned", "waiting", "draining"} -> "reading"
      [] p = "storing" -> "storing"
      [] p \in {"ending", "returned"} -> "ended"
SeqCur(m) == IF m.phase = "planning" THEN 1 ELSE m.cur

OneAtATime == INSTANCE SequentialFetch WITH
    phase <- SeqPhase(main.phase), cur <- SeqCur(main)

\* All the concurrency comes to what one goroutine would do that read the
\* groups and stored them one after the next (fetch.go, Fetch, "Concurrency":
\* "A fetch stopped part way leaves what it left before -- cells stored whole,
\* in order, and the rest not begun").
StoresInOrder == OneAtATime!Spec
=============================================================================
