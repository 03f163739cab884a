------------------------------- MODULE Frames -------------------------------
(***************************************************************************)
(* perspective.eachFrame: the frames of a flight, worked through by as     *)
(* many goroutines as there are processors, which take them from one       *)
(* counter and share the caches of TileCaches.  A frame's work stands for  *)
(* one of the many tiles it asks for.  The first error cancels the rest.   *)
(***************************************************************************)
EXTENDS TileCaches

CONSTANTS N, Workers

FrameNumbers == 0..N - 1

ASSUME FramesAssumption ==
    /\ N \in Nat
    /\ Workers # {}
    /\ Asks = FrameNumbers
    /\ None \notin {"failed", "interrupted", "done"}

VARIABLES
    next,               \* the counter frames are taken from
    worker,             \* each goroutine: how far it is, and its frame
    firstErr,           \* the frame whose error was the first
    finished,           \* done: how many frames are
    told,               \* what the progress was last told
    returned            \* what eachFrame returned

frameVars == <<next, worker, firstErr, finished, told, returned>>
vars == <<cacheVars, frameVars>>

\* The frames' own context: done at the first error, or when the caller's is.
Cancelled == interrupted \/ firstErr # None

Init ==
    /\ CacheInit
    /\ next = 0
    /\ worker = [w \in Workers |-> [phase |-> "taking", frame |-> None]]
    /\ firstErr = None
    /\ finished = 0
    /\ told = 0
    /\ returned = None

\* next.Add(1) - 1
Take(w) ==
    /\ worker[w].phase = "taking"
    /\ next' = next + 1
    /\ worker' = [worker EXCEPT ![w] = [phase |-> "taken", frame |-> next]]
    /\ UNCHANGED <<cacheVars, firstErr, finished, told, returned>>

\* Mutant of Stop: the last frame is left out.
StopBeforeLast(w) ==
    /\ worker[w].phase = "taken"
    /\ worker[w].frame >= N - 1 \/ Cancelled
    /\ worker' = [worker EXCEPT ![w] = [phase |-> "stopped", frame |-> None]]
    /\ UNCHANGED <<cacheVars, next, firstErr, finished, told, returned>>

\* No frame is left, or none is wanted any more.
Stop(w) ==
    /\ worker[w].phase = "taken"
    /\ worker[w].frame >= N \/ Cancelled
    /\ worker' = [worker EXCEPT ![w] = [phase |-> "stopped", frame |-> None]]
    /\ UNCHANGED <<cacheVars, next, firstErr, finished, told, returned>>

\* ctx.Err() is nil, and the frame's work begins.
Check(w) ==
    /\ worker[w].phase = "taken"
    /\ worker[w].frame < N
    /\ ~Cancelled
    /\ worker' = [worker EXCEPT ![w].phase = "working"]
    /\ UNCHANGED <<cacheVars, next, firstErr, finished, told, returned>>

\* work(i)
Work(w) ==
    /\ worker[w].phase = "working"
    /\ Ask(worker[w].frame) \/ Goes(worker[w].frame)
    /\ UNCHANGED frameVars

\* The frame is done: under the mutex its error is noted, if it is the first,
\* and the progress told, if there is none.
Tell(w) ==
    LET i == worker[w].frame IN
    /\ worker[w].phase = "working"
    /\ ask[i].phase = "answered"
    /\ firstErr' = IF firstErr = None /\ AnswerOf(i) = "failed" THEN i
                   ELSE firstErr
    /\ finished' = finished + 1
    /\ told' = IF firstErr' = None THEN finished' ELSE told
    /\ worker' = [worker EXCEPT ![w] = [phase |-> "taking", frame |-> None]]
    /\ UNCHANGED <<cacheVars, next, returned>>

\* wg.Wait() is over.
Return ==
    /\ returned = None
    /\ \A w \in Workers : worker[w].phase = "stopped"
    /\ returned' = IF firstErr # None THEN "failed"
                   ELSE IF interrupted THEN "interrupted" ELSE "done"
    /\ UNCHANGED <<cacheVars, next, worker, firstErr, finished, told>>

InterruptFrames ==
    /\ returned = None
    /\ Interrupt
    /\ UNCHANGED frameVars

Returned == returned # None /\ UNCHANGED vars

Moves(w) == Take(w) \/ Stop(w) \/ Check(w) \/ Work(w) \/ Tell(w)

Next == (\E w \in Workers : Moves(w)) \/ Return \/ InterruptFrames \/ Returned

Spec == Init /\ [][Next]_vars

\* Every goroutine is run, and every read ends.
FairSpec ==
    /\ Spec
    /\ \A w \in Workers : WF_vars(Moves(w))
    /\ WF_vars(Return)

-----------------------------------------------------------------------------
(* Properties                                                              *)

AskState ==
    [phase: {"idle", "waiting", "reading", "read", "settled", "answered"},
     tile: Tiles \cup {None}, entry: Asks \cup {None}]

WorkerState ==
    [phase: {"taking", "taken", "working", "stopped"},
     frame: Nat \cup {None}]

\* Types.  The list holds just the entries the map does, each once.
TypeOK ==
    /\ form \in Forms
    /\ entries \in [Tiles -> Asks \cup {None}]
    /\ lru \in Seq(Asks)
    /\ IsInjective(lru)
    /\ ToSet(lru) = Kept
    /\ used \in Nat
    /\ ask \in [Asks -> AskState]
    /\ outcome \in [Asks -> {None, "tile", "absent", "failed"}]
    /\ size \in [Asks -> Nat]
    /\ closed \subseteq Asks
    /\ interrupted \in BOOLEAN
    /\ failures \in 0..MaxFailures
    /\ next \in Nat
    /\ worker \in [Workers -> WorkerState]
    /\ firstErr \in FrameNumbers \cup {None}
    /\ finished \in 0..N
    /\ told \in 0..N
    /\ returned \in {None, "failed", "interrupted", "done"}

\* The bytes a render.TileCache counts are those of the tiles it keeps: an
\* entry evicted while it was being read is never counted, and one that is
\* counted is uncounted exactly once, whoever evicts it (TileCache.get).
UsedIsKept == used = Bytes(size, ToSet(lru))

\* A failed read is not kept: no entry that others can still be given has
\* failed and been closed, so the next to ask reads again (get, Heights and
\* tile: "a failed read is tried again next time").
FailureIsNotKept ==
    \A e \in Kept : e \in closed => outcome[e] # "failed"

\* Success means every frame was worked through without an error, and the
\* progress was told of all of them (eachFrame).
DoneMeansEveryFrame ==
    returned = "done" =>
        /\ told = N
        /\ \A i \in FrameNumbers :
              ask[i].phase = "answered" /\ AnswerOf(i) # "failed"

\* eachFrame returns "once every frame started has finished", and the error
\* it returns is that of a frame which failed.
NothingRunsOn ==
    returned # None =>
        /\ \A i \in FrameNumbers : ask[i].phase \in {"idle", "answered"}
        /\ returned = "failed" <=> firstErr # None
        /\ firstErr # None => AnswerOf(firstErr) = "failed"

\* As long as no frame has failed, what the progress was last told is how many
\* frames are done: none is told of before it is, and none is missed
\* (eachFrame: "how many are done as each is").
ToldIsFinished ==
    firstErr = None =>
        told = Cardinality({i \in FrameNumbers :
                               /\ ask[i].phase = "answered"
                               /\ \A w \in Workers : worker[w].frame # i})

\* eachFrame returns: no goroutine waits for ever for an entry another made,
\* whatever is evicted, fails or is interrupted meanwhile.
FramesReturn == <>(returned # None)

\* render.TileCache is over its limit by at most the tile just read:
\* "keeps about budget bytes of decoded tiles, dropping the least recently
\* used beyond that" (NewTileCache).
OverByOneTile ==
    form \in ByBytes =>
        \/ used <= Limit
        \/ \E e \in Kept : used <= Limit + size[e]

=============================================================================
