--------------------------- MODULE BoundariesProofs ---------------------------
(***************************************************************************)
(* What runs of osmbase boundaries leave in their directory, proved of any  *)
(* processes, regions and extracts.  What the passes make of an extract is  *)
(* nowhere used.                                                           *)
(***************************************************************************)
EXTENDS Boundaries, SequenceTheorems, TLAPS

Places == {"idle", "confirm", "sweep", "temp", "transfer", "rename",
           "read", "write", "put", "cleanup"}
Asking == {"confirm", "sweep", "temp", "transfer", "rename"}
Fetching == {"temp", "transfer", "rename"}
Working == {"read", "write", "put", "cleanup"}
Saving == {"transfer", "rename", "put"}

Records == [at: Places, cmd: Invocations \cup {None}, got: Offered \cup {None},
            seen: Seq(DOMAIN Contents), todo: Seq(STRING), cancelled: BOOLEAN]

\* A run under way has a command line; one that makes a temporary file for a
\* download does fetch, and has something to fetch; one that works from an
\* extract builds from one.
Sound(r) ==
    /\ r \in Records
    /\ r.at # "idle" => r.cmd \in Invocations
    /\ r.at \in Fetching => r.cmd.from = None
    /\ r.at \in Working => r.cmd.osm
    /\ r.at = "rename" /\ r.cmd.osm => r.got \in Offered
    /\ r.at \in Asking /\ ~r.cmd.osm => r.todo # <<>>

RunsInv ==
    /\ extract \in [Regions -> Offered \cup {None}]
    /\ DOMAIN run = Procs /\ run = [p \in Procs |-> run[p]]
    /\ \A p \in Procs : Sound(run[p])

\* An extract that nothing was said of is one that a run will remove.
ExtractsAreOwned ==
    \A r \in Regions :
       extract[r] # None /\ r \notin stays =>
          \E p \in Procs : Works(p) /\ Region(p) = r /\ MustRemove(p)

\* A temporary file that was not left behind is the one its process will rename
\* or remove next.
TempsAreOwned ==
    /\ temps \subseteq [by: Procs \cup {None}, of: {"extract", "derived", "outline"}]
    /\ \A t \in temps : t.by # None => run[t.by].at \in Saving /\ t = Temp(t.by)

BoundariesInv == RunsInv /\ ExtractsAreOwned /\ TempsAreOwned

-----------------------------------------------------------------------------
\* What the flags may come to (boundaries.go, runBoundaries).
LEMMA CommandFacts ==
    ASSUME NEW c \in Invocations
    PROVE  /\ c.region \in Regions
           /\ c.osm \in BOOLEAN /\ c.keep \in BOOLEAN /\ c.yes \in BOOLEAN
           /\ c.from \in DOMAIN Contents \cup {None}
           /\ c.from # None => c.osm
BY DEF Invocations

LEMMA TailOfMore ==
    ASSUME NEW S, NEW s \in Seq(S), s # <<>>, Len(s) # 1
    PROVE  Tail(s) \in Seq(S) /\ Tail(s) # <<>>
<1>1. Len(s) \in Nat /\ Len(s) > 1
  BY EmptySeq
<1>2. Tail(s) \in Seq(S) /\ Len(Tail(s)) = Len(s) - 1
  BY <1>1
<1>3. Len(Tail(s)) # 0
  BY <1>1, <1>2
<1>4. Tail(s) # <<>>
  BY <1>3, EmptySeq
<1>5. QED BY <1>2, <1>4

LEMMA IdleIsSound == Sound(Idle) /\ Idle.at = "idle"
BY BoundariesAssumption DEF Sound, Idle, Records, Places, Asking, Fetching, Working

\* A process moves on itself and leaves the others where they are.
LEMMA Moves ==
    ASSUME RunsInv, NEW p \in Procs, NEW r, Becomes(p, r)
    PROVE  /\ run'[p] = r
           /\ \A q \in Procs \ {p} : run'[q] = run[q]
           /\ DOMAIN run' = Procs /\ run' = [q \in Procs |-> run'[q]]
BY DEF RunsInv, Becomes

\* To another place with nothing else changed.
LEMMA MovesOn ==
    ASSUME NEW r, Sound(r), NEW place \in Places,
           r.at # "idle",
           place \in Fetching => r.cmd.from = None,
           place \in Working => r.cmd.osm,
           place = "rename" /\ r.cmd.osm => r.got \in Offered,
           place \in Asking => r.at \in Asking
    PROVE  /\ Sound([r EXCEPT !.at = place])
           /\ [r EXCEPT !.at = place].at = place
           /\ [r EXCEPT !.at = place].cmd = r.cmd
BY DEF Sound, Records

LEMMA GoesOn ==
    ASSUME RunsInv, NEW p \in Procs, ~At(p, "idle"), NEW place \in Places, GoesTo(p, place),
           place \in Fetching => Fetches(p),
           place \in Working => run[p].cmd.osm,
           place = "rename" /\ run[p].cmd.osm => run[p].got \in Offered,
           place \in Asking => run[p].at \in Asking
    PROVE  Sound(run'[p]) /\ run'[p].at = place /\ run'[p].cmd = run[p].cmd
<1>1. PICK r : r = [run[p] EXCEPT !.at = place]
  OBVIOUS
<1>2. /\ Sound([run[p] EXCEPT !.at = place])
      /\ [run[p] EXCEPT !.at = place].at = place
      /\ [run[p] EXCEPT !.at = place].cmd = run[p].cmd
  <2>1. Sound(run[p]) /\ run[p].at # "idle"
    BY DEF RunsInv, At
  <2>2. QED BY <2>1, MovesOn DEF Fetches
<1>3. run'[p] = r
  BY <1>1, Moves DEF GoesTo
<1>4. QED BY <1>1, <1>2, <1>3

-----------------------------------------------------------------------------
(***************************************************************************)
(* What a step of a run does to the extracts and to what is said of them.  *)
(***************************************************************************)
RunStep(p) ==
    \/ \E c \in Asked[p] : Begin(p, c)
    \/ Confirm(p) \/ Sweep(p) \/ CreateTemp(p) \/ Transfer(p)
    \/ RenameExtract(p) \/ RenameOutline(p)
    \/ Pass(p) \/ Write(p) \/ Put(p) \/ Cleanup(p) \/ Interrupt(p)

SameExtracts == extract' = extract /\ stays' = stays

Rests(p) == ~Works(p) /\ run'[p].at \notin Working /\ SameExtracts
KeepsWorking(p) ==
    Works(p) /\ run'[p].at \in Working /\ run'[p].cmd = run[p].cmd /\ SameExtracts
WorksFromLocal(p) == ~Works(p) /\ run'[p].cmd.from # None /\ SameExtracts
WorksFromFetched(p) ==
    /\ ~Works(p) /\ run'[p].at \in Working /\ run'[p].cmd = run[p].cmd /\ Fetches(p)
    /\ Region(p) \in Regions
    /\ extract' = [extract EXCEPT ![Region(p)] = run[p].got] /\ run[p].got \in Offered
    /\ stays' = IF run[p].cmd.keep THEN stays \cup {Region(p)} ELSE stays \ {Region(p)}
Removes(p) ==
    /\ Works(p) /\ run'[p].at \notin Working /\ Region(p) \in Regions
    /\ extract' = [extract EXCEPT ![Region(p)] = None] /\ stays' = stays \ {Region(p)}
SaysSo(p) ==
    /\ run'[p].at \notin Working /\ extract' = extract
    /\ stays \subseteq stays'
    /\ Works(p) /\ MustRemove(p) => Region(p) \in stays'

Does(p) ==
    \/ Rests(p) \/ KeepsWorking(p) \/ WorksFromLocal(p) \/ WorksFromFetched(p)
    \/ Removes(p) \/ SaysSo(p)

LEMMA RunStepDoes ==
    ASSUME RunsInv, NEW p \in Procs, RunStep(p)
    PROVE  Sound(run'[p]) /\ Does(p) /\ \E r : Becomes(p, r)
<1>0. /\ Sound(run[p]) /\ Idle.at = "idle" /\ Sound(Idle)
      /\ run[p].at # "idle" => /\ Region(p) \in Regions
                               /\ run[p].cmd.osm \in BOOLEAN /\ run[p].cmd.keep \in BOOLEAN
                               /\ ~Fetches(p) => run[p].cmd.osm
  BY IdleIsSound, CommandFacts DEF RunsInv, Sound, Region, Fetches
<1>a. ASSUME Becomes(p, Idle), SameExtracts, ~Works(p)
      PROVE  Sound(run'[p]) /\ Does(p) /\ \E r : Becomes(p, r)
  BY <1>a, <1>0, Moves DEF Does, Rests, Working
<1>1. ASSUME NEW c \in Asked[p], Begin(p, c)
      PROVE  Sound(run'[p]) /\ Does(p) /\ \E r : Becomes(p, r)
  <2>1. PICK r : /\ Becomes(p, r)
                 /\ r = [Idle EXCEPT !.at = IF c.yes THEN "sweep" ELSE "confirm", !.cmd = c,
                                     !.todo = IF c.osm THEN <<>> ELSE Layers]
    BY <1>1 DEF Begin
  <2>2. c \in Invocations
    BY BoundariesAssumption
  <2>3. Sound(r) /\ r.at \notin Working
    <3>1. /\ r.cmd = c /\ r.got = None /\ r.seen = <<>> /\ r.cancelled = FALSE
          /\ r.at = IF c.yes THEN "sweep" ELSE "confirm"
          /\ r.todo = IF c.osm THEN <<>> ELSE Layers
          /\ r = [at |-> r.at, cmd |-> r.cmd, got |-> r.got, seen |-> r.seen,
                  todo |-> r.todo, cancelled |-> r.cancelled]
      BY <2>1 DEF Idle
    <3>2. r.at \in {"sweep", "confirm"}
      BY <2>2, <3>1, CommandFacts
    <3>3. r.todo \in Seq(STRING) /\ (~c.osm => r.todo # <<>>)
      <4>1. c.osm \in BOOLEAN /\ <<>> \in Seq(STRING)
        BY <2>2, CommandFacts
      <4>2. CASE c.osm
        BY <3>1, <4>1, <4>2
      <4>3. CASE ~c.osm
        BY <3>1, <4>3, BoundariesAssumption
      <4>4. QED BY <4>1, <4>2, <4>3
    <3>4. r \in Records
      <4>1. <<>> \in Seq(DOMAIN Contents)
        OBVIOUS
      <4>2. QED BY <2>2, <3>1, <3>2, <3>3, <4>1 DEF Records, Places
    <3>5. QED
      BY <2>2, <3>1, <3>2, <3>3, <3>4 DEF Sound, Asking, Fetching, Working
  <2>4. run'[p] = r
    BY <2>1, Moves
  <2>5. SameExtracts /\ ~Works(p)
    BY <1>1 DEF Begin, SameExtracts, Works, At, Working
  <2>6. QED BY <2>1, <2>3, <2>4, <2>5 DEF Does, Rests
<1>2. CASE Confirm(p)
  <2>1. SameExtracts /\ ~Works(p) /\ ~At(p, "idle") /\ run[p].at \in Asking
    BY <1>2 DEF Confirm, SameExtracts, Works, At, Working, Asking
  <2>2. CASE GoesTo(p, "sweep")
    BY <2>1, <2>2, GoesOn DEF GoesTo, Does, Rests, Places, Asking, Fetching, Working
  <2>3. QED BY <1>2, <1>a, <2>1, <2>2 DEF Confirm
<1>3. CASE Sweep(p)
  <2>1. SameExtracts /\ ~Works(p) /\ ~At(p, "idle") /\ run[p].at \in Asking
    BY <1>3 DEF Sweep, SameExtracts, Works, At, Working, Asking
  <2>2. CASE GoesTo(p, "temp") /\ Fetches(p)
    BY <2>1, <2>2, GoesOn DEF GoesTo, Does, Rests, Places, Asking, Fetching, Working
  <2>3. CASE GoesTo(p, "read") /\ ~Fetches(p)
    <3>1. Sound(run'[p]) /\ run'[p].cmd = run[p].cmd
      BY <1>0, <2>1, <2>3, GoesOn DEF Places, Asking, Fetching, Working, At
    <3>2. QED BY <2>1, <2>3, <3>1 DEF GoesTo, Does, WorksFromLocal, Fetches
  <2>4. QED BY <1>3, <1>a, <2>1, <2>2, <2>3 DEF Sweep
<1>4. CASE CreateTemp(p)
  <2>1. /\ SameExtracts /\ ~Works(p) /\ ~At(p, "idle") /\ Fetches(p)
        /\ run[p].at \in Asking
    BY <1>0, <1>4
       DEF CreateTemp, SameExtracts, Works, At, Working, Sound, Asking, Fetching, Fetches
  <2>2. CASE GoesTo(p, "transfer")
    BY <2>1, <2>2, GoesOn DEF GoesTo, Does, Rests, Places, Asking, Fetching, Working
  <2>3. QED BY <1>4, <1>a, <2>1, <2>2 DEF CreateTemp
<1>5. CASE Transfer(p)
  <2>1. SameExtracts /\ ~Works(p) /\ ~At(p, "idle") /\ Fetches(p)
    BY <1>0, <1>5 DEF Transfer, SameExtracts, Works, At, Working, Sound, Fetching, Fetches
  <2>2. ASSUME NEW w \in Offered, NEW r, Becomes(p, r),
               r = [run[p] EXCEPT !.at = "rename",
                                  !.got = IF run[p].cmd.osm THEN w ELSE None]
        PROVE  Sound(run'[p]) /\ Does(p)
    <3>1. run'[p] = r /\ run[p].cmd.osm \in BOOLEAN
      BY <1>0, <2>1, <2>2, Moves DEF RunsInv, At
    <3>2. Sound(r) /\ r.at = "rename"
      <4>1. PICK v : v = IF run[p].cmd.osm THEN w ELSE None
        OBVIOUS
      <4>2. v \in Offered \cup {None} /\ (run[p].cmd.osm => v \in Offered)
        BY <3>1, <4>1
      <4>3. /\ r.at = "rename" /\ r.got = v /\ r.cmd = run[p].cmd /\ r.todo = run[p].todo
            /\ r \in Records
        BY <1>0, <2>2, <4>1, <4>2 DEF Sound, Records, Places
      <4>4. run[p].at = "transfer"
        BY <1>5 DEF Transfer, At
      <4>5. QED
        BY <1>0, <2>1, <4>2, <4>3, <4>4 DEF Sound, Asking, Fetching, Working, Fetches
    <3>3. QED BY <2>1, <3>1, <3>2 DEF Does, Rests, Working
  <2>3. QED BY <1>5, <1>a, <2>1, <2>2 DEF Transfer
<1>6. CASE RenameExtract(p)
  <2>1. ~Works(p) /\ ~At(p, "idle") /\ Fetches(p) /\ run[p].cmd.osm /\ run[p].got \in Offered
    BY <1>0, <1>6 DEF RenameExtract, Works, At, Working, Sound, Fetching, Fetches
  <2>2. CASE Temp(p) \in temps /\ Becomes(p, [run[p] EXCEPT !.at = "read", !.got = None])
    <3>1. PICK r : r = [run[p] EXCEPT !.at = "read", !.got = None]
      OBVIOUS
    <3>2. run'[p] = r
      BY <2>2, <3>1, Moves
    <3>3. r.at = "read" /\ r.cmd = run[p].cmd /\ r \in Records
      BY <1>0, <3>1 DEF Sound, Records, Places
    <3>4. Sound(r)
      BY <1>0, <2>1, <3>3 DEF Sound, Asking, Fetching, Working, At
    <3>5. ~(Becomes(p, Idle))
      BY <3>2, <3>3, IdleIsSound, Moves
    <3>6. QED
      BY <1>0, <1>6, <2>1, <2>2, <3>2, <3>3, <3>4, <3>5
         DEF RenameExtract, Does, WorksFromFetched, Working, At
  <2>3. QED BY <1>6, <1>a, <2>1, <2>2 DEF RenameExtract, SameExtracts
<1>7. CASE RenameOutline(p)
  <2>1. SameExtracts /\ ~Works(p) /\ ~At(p, "idle") /\ Fetches(p)
    BY <1>0, <1>7 DEF RenameOutline, SameExtracts, Works, At, Working, Sound, Fetching, Fetches
  <2>2. ASSUME NEW r, Becomes(p, r), Len(run[p].todo) # 1,
               r = [run[p] EXCEPT !.at = "temp", !.todo = Tail(@)]
        PROVE  Sound(run'[p]) /\ Does(p)
    <3>1. run'[p] = r
      BY <2>2, Moves
    <3>2. Sound(r) /\ r.at = "temp"
      <4>1. PICK v : v = Tail(run[p].todo)
        OBVIOUS
      <4>2. run[p].todo \in Seq(STRING) /\ run[p].todo # <<>> /\ ~run[p].cmd.osm
        BY <1>0, <1>7 DEF RenameOutline, At, Sound, Records, Asking
      <4>3. v \in Seq(STRING) /\ v # <<>>
        BY <2>2, <4>1, <4>2, TailOfMore
      <4>4. r.at = "temp" /\ r.cmd = run[p].cmd /\ r.todo = v /\ r \in Records
        BY <1>0, <2>2, <4>1, <4>3 DEF Sound, Records, Places
      <4>5. QED
        BY <1>0, <2>1, <4>2, <4>3, <4>4 DEF Sound, Asking, Fetching, Working, Fetches, At
    <3>3. QED BY <2>1, <3>1, <3>2 DEF Does, Rests, Working
  <2>3. QED BY <1>7, <1>a, <2>1, <2>2 DEF RenameOutline
<1>8. CASE Pass(p)
  <2>1. SameExtracts /\ Works(p) /\ ~At(p, "idle") /\ run[p].cmd.osm
    BY <1>0, <1>8 DEF Pass, SameExtracts, Works, At, Working, Sound
  <2>2. CASE GoesTo(p, "cleanup")
    BY <2>1, <2>2, GoesOn DEF GoesTo, Does, KeepsWorking, Places, Asking, Fetching, Working
  <2>3. ASSUME Path(p) # None, NEW place \in {"read", "cleanup", "write"},
               NEW r, Becomes(p, r),
               r = [[run[p] EXCEPT !.seen = Append(run[p].seen, Path(p))] EXCEPT !.at = place]
        PROVE  Sound(run'[p]) /\ Does(p)
    <3>1. run'[p] = r
      BY <2>3, Moves
    <3>2. Path(p) \in DOMAIN Contents
      <4>1. run[p].cmd.from \in DOMAIN Contents \cup {None} /\ Region(p) \in Regions
        BY <1>0, <2>1, CommandFacts DEF At, Sound
      <4>2. QED BY <2>3, <4>1, BoundariesAssumption DEF Path, Fetches, RunsInv
    <3>3. PICK v : v = Append(run[p].seen, Path(p))
      OBVIOUS
    <3>4. v \in Seq(DOMAIN Contents)
      BY <1>0, <3>2, <3>3 DEF Sound, Records
    <3>5. r.at = place /\ r.cmd = run[p].cmd /\ r \in Records
      BY <1>0, <2>3, <3>3, <3>4 DEF Sound, Records, Places
    <3>6. Sound(r)
      BY <1>0, <2>1, <3>5 DEF Sound, Asking, Fetching, Working, At
    <3>7. QED BY <2>1, <3>1, <3>5, <3>6 DEF Does, KeepsWorking, Working
  <2>4. QED
    <3>1. CASE Path(p) = None \/ run[p].cancelled
      BY <1>8, <2>2, <3>1 DEF Pass, GoesTo
    <3>2. CASE ~(Path(p) = None \/ run[p].cancelled)
      <4>1. PICK place \in {"read", "cleanup", "write"} :
               Becomes(p, [[run[p] EXCEPT !.seen = Append(run[p].seen, Path(p))]
                              EXCEPT !.at = place])
        <5>1. PICK place : place = IF Passes(Append(run[p].seen, Path(p))) = "on" THEN "read"
                                   ELSE IF Passes(Append(run[p].seen, Path(p))) = "ends"
                                        THEN "cleanup" ELSE "write"
          OBVIOUS
        <5>2. Becomes(p, [[run[p] EXCEPT !.seen = Append(run[p].seen, Path(p))]
                              EXCEPT !.at = place])
          BY <1>8, <3>2, <5>1 DEF Pass
        <5>3. place \in {"read", "cleanup", "write"}
          BY <5>1
        <5>4. QED BY <5>2, <5>3
      <4>2. QED BY <2>3, <3>2, <4>1
    <3>3. QED BY <3>1, <3>2
<1>9. CASE Write(p) \/ Put(p)
  <2>1. SameExtracts /\ Works(p) /\ ~At(p, "idle") /\ run[p].cmd.osm
    BY <1>0, <1>9 DEF Write, Put, SameExtracts, Works, At, Working, Sound
  <2>2. PICK place \in {"put", "cleanup"} : GoesTo(p, place)
    BY <1>9 DEF Write, Put
  <2>3. QED
    BY <2>1, <2>2, GoesOn DEF GoesTo, Does, KeepsWorking, Places, Asking, Fetching, Working
<1>10. CASE Cleanup(p)
  <2>1. Works(p) /\ ~At(p, "idle") /\ run'[p] = Idle
    BY <1>10, Moves DEF Cleanup, Works, At, Working
  <2>2. Removes(p) \/ SaysSo(p)
    BY <1>0, <1>10, <2>1 DEF Cleanup, RemoveExtract, Removes, SaysSo, At, Working
  <2>3. QED BY <1>0, <1>10, <2>1, <2>2 DEF Cleanup, Does
<1>11. CASE Interrupt(p)
  <2>1. CASE ~run[p].cancelled
    <3>1. PICK r : r = [run[p] EXCEPT !.cancelled = TRUE] /\ Becomes(p, r)
      BY <1>11, <2>1 DEF Interrupt
    <3>2. SameExtracts /\ run'[p] = r
      BY <1>11, <2>1, <3>1, Moves DEF Interrupt, SameExtracts
    <3>3. Sound(r) /\ r.at = run[p].at /\ r.cmd = run[p].cmd
      BY <1>0, <3>1 DEF Sound, Records
    <3>4. QED BY <3>1, <3>2, <3>3 DEF Does, Rests, KeepsWorking, Working, Works
  <2>2. CASE run[p].cancelled
    <3>1. Becomes(p, Idle) /\ run'[p] = Idle
      BY <1>11, <2>2, Moves DEF Interrupt
    <3>2. SaysSo(p)
      BY <1>0, <1>11, <2>2, <3>1 DEF Interrupt, SaysSo, Works, Working
    <3>3. QED BY <1>0, <3>1, <3>2 DEF Does
  <2>3. QED BY <2>1, <2>2
<1>12. QED
  BY <1>1, <1>2, <1>3, <1>4, <1>5, <1>6, <1>7, <1>8, <1>9, <1>10, <1>11 DEF RunStep

LEMMA RunsStep ==
    ASSUME RunsInv, [Next]_vars
    PROVE  RunsInv'
<1>1. ASSUME NEW p \in Procs, RunStep(p)
      PROVE  RunsInv'
  <2>1. PICK r : Becomes(p, r)
    BY <1>1, RunStepDoes
  <2>2. \A q \in Procs : Sound(run'[q])
    BY <1>1, <2>1, Moves, RunStepDoes DEF RunsInv
  <2>4. extract' \in [Regions -> Offered \cup {None}]
    BY <1>1, RunStepDoes
       DEF RunsInv, Does, Rests, KeepsWorking, WorksFromLocal, WorksFromFetched, Removes,
           SaysSo, SameExtracts
  <2>5. DOMAIN run' = Procs /\ run' = [q \in Procs |-> run'[q]]
    BY <2>1, Moves
  <2>6. QED BY <2>2, <2>4, <2>5 DEF RunsInv
<1>2. CASE UNCHANGED vars
  BY <1>2 DEF vars, RunsInv
<1>3. QED BY <1>1, <1>2 DEF Next, RunStep

LEMMA ExtractsStep ==
    ASSUME RunsInv, ExtractsAreOwned, [Next]_vars
    PROVE  ExtractsAreOwned'
<1>1. ASSUME NEW p \in Procs, RunStep(p)
      PROVE  ExtractsAreOwned'
  <2>1. Does(p) /\ \A q \in Procs \ {p} : run'[q] = run[q]
    BY <1>1, RunStepDoes, Moves
  <2>2. SUFFICES ASSUME NEW r \in Regions, extract'[r] # None, r \notin stays'
                 PROVE  \E q \in Procs : /\ run'[q].at \in Working
                                         /\ run'[q].cmd.region = r
                                         /\ run'[q].cmd.from = None /\ ~run'[q].cmd.keep
    BY DEF ExtractsAreOwned, Works, Working, Fetches, Region, MustRemove
  <2>3. CASE WorksFromFetched(p) /\ Region(p) = r
    BY <2>2, <2>3 DEF WorksFromFetched, Region, Fetches
  <2>4. CASE ~(WorksFromFetched(p) /\ Region(p) = r)
    <3>1. extract[r] # None /\ r \notin stays /\ ~(Removes(p) /\ Region(p) = r)
      BY <2>1, <2>2, <2>4
         DEF RunsInv, Does, Rests, KeepsWorking, WorksFromLocal, WorksFromFetched,
             Removes, SaysSo, SameExtracts
    <3>2. PICK q \in Procs : Works(q) /\ Region(q) = r /\ MustRemove(q)
      BY <3>1 DEF ExtractsAreOwned
    <3>3. CASE q # p
      BY <2>1, <3>2, <3>3 DEF Works, Working, Region, Fetches, MustRemove
    <3>4. CASE q = p
      <4>1. ~Rests(p) /\ ~WorksFromLocal(p) /\ ~WorksFromFetched(p) /\ ~Removes(p)
        BY <3>1, <3>2, <3>4 DEF Rests, WorksFromLocal, WorksFromFetched
      <4>2. ~SaysSo(p)
        BY <2>2, <3>2, <3>4 DEF SaysSo
      <4>3. KeepsWorking(p)
        BY <2>1, <4>1, <4>2 DEF Does
      <4>4. QED BY <3>2, <3>4, <4>3 DEF KeepsWorking, Region, Fetches, MustRemove
    <3>5. QED BY <3>3, <3>4
  <2>5. QED BY <2>3, <2>4
<1>2. ASSUME UNCHANGED <<extract, run, stays>>
      PROVE  ExtractsAreOwned'
  BY <1>2 DEF ExtractsAreOwned, Works, Fetches, Region, MustRemove
<1>3. QED BY <1>1, <1>2 DEF Next, RunStep, vars

-----------------------------------------------------------------------------
(***************************************************************************)
(* Temporary files.                                                        *)
(***************************************************************************)
\* The temporary files of a run that is not about to save one are leftovers.
LEMMA TempsStep ==
    ASSUME RunsInv, TempsAreOwned, [Next]_vars
    PROVE  TempsAreOwned'
<1> DEFINE Files == [by: Procs \cup {None}, of: {"extract", "derived", "outline"}]
           Owned(t) == /\ t \in Files
                       /\ t.by # None => run'[t.by].at \in Saving /\ t = Temp(t.by)'
<1>0. SUFFICES ASSUME NEW t \in temps'
               PROVE  Owned(t)
  BY DEF TempsAreOwned
<1>1. ASSUME NEW p \in Procs, RunStep(p)
      PROVE  Owned(t)
  <2>0. PICK r : Becomes(p, r)
    BY <1>1, RunStepDoes
  <2>1. run'[p] = r /\ \A q \in Procs \ {p} : run'[q] = run[q]
    BY <2>0, Moves
  <2>2. ASSUME t \in temps, t.by # p
        PROVE  Owned(t)
    BY <2>1, <2>2 DEF TempsAreOwned, Temp
  <2>3. ASSUME t \in temps, run[p].at \notin Saving
        PROVE  t.by # p
    BY <2>3, BoundariesAssumption DEF TempsAreOwned
  <2>4. ASSUME t \in temps, temps' = temps \ {Temp(p)}
        PROVE  t.by # p
    BY <2>4, BoundariesAssumption DEF TempsAreOwned
  <2>5. ASSUME t \in temps, t.by = p, run[p].at \in Saving,
               run'[p].cmd = run[p].cmd,
               \/ run'[p].at = run[p].at
               \/ run[p].at = "transfer" /\ run'[p].at = "rename"
        PROVE  Owned(t)
    BY <2>5 DEF TempsAreOwned, Temp, Saving
  <2>6. ASSUME NEW of, t = [by |-> p, of |-> of],
               run'[p].at \in Saving,
               of = IF ~run'[p].cmd.osm THEN "outline"
                    ELSE IF run'[p].at \in {"transfer", "rename"} THEN "extract"
                    ELSE "derived"
        PROVE  Owned(t)
    BY <2>6 DEF Temp
  <2>a. ASSUME NEW u \in {Temp(p)} \cup temps, t = Leftover(u)
        PROVE  Owned(t)
    BY <2>a DEF TempsAreOwned, Leftover, Temp
  <2>b. ASSUME Discard(Temp(p))
        PROVE  Owned(t)
    <3>1. CASE t \in temps \ {Temp(p)}
      <4>1. t.by # p
        BY <3>1, BoundariesAssumption DEF TempsAreOwned
      <4>2. QED BY <2>2, <3>1, <4>1
    <3>2. CASE t = Leftover(Temp(p))
      BY <2>a, <3>2
    <3>3. QED BY <2>b, <3>1, <3>2 DEF Discard
  <2>7. CASE \E c \in Asked[p] : Begin(p, c)
    BY <2>2, <2>3, <2>7 DEF Begin, At, Saving
  <2>8. CASE Confirm(p) \/ Sweep(p)
    BY <2>2, <2>3, <2>8 DEF Confirm, Sweep, At, Saving
  <2>9. CASE CreateTemp(p)
    <3>1. CASE t \in temps
      BY <2>2, <2>3, <2>9, <3>1 DEF CreateTemp, At, Saving
    <3>2. CASE t \notin temps
      <4>1. GoesTo(p, "transfer")
        BY <2>9, <3>2 DEF CreateTemp
      <4>2. run'[p].at = "transfer" /\ run'[p].cmd = run[p].cmd
        BY <4>1, Moves DEF GoesTo, RunsInv, Sound, Records
      <4>3. t = [by |-> p,
                 of |-> IF run[p].cmd.osm THEN "extract" ELSE "outline"]
        BY <2>9, <3>2 DEF CreateTemp, MakesTemp
      <4>4. QED BY <2>6, <4>2, <4>3 DEF Saving
    <3>3. QED BY <3>1, <3>2
  <2>10. CASE Transfer(p)
    <3>1. CASE UNCHANGED temps /\ run'[p].at = "rename" /\ run'[p].cmd = run[p].cmd
      BY <2>2, <2>5, <2>10, <3>1 DEF Transfer, At, Saving
    <3>2. CASE Discard(Temp(p))
      BY <2>b, <3>2
    <3>3. ASSUME UNCHANGED temps, NEW v,
                 Becomes(p, [run[p] EXCEPT !.at = "rename",
                                           !.got = IF run[p].cmd.osm THEN v ELSE None])
          PROVE  Owned(t)
      <4>1. run'[p] = [run[p] EXCEPT !.at = "rename",
                                     !.got = IF run[p].cmd.osm THEN v ELSE None]
        BY <3>3, Moves
      <4>2. run'[p].at = "rename" /\ run'[p].cmd = run[p].cmd
        BY <4>1 DEF RunsInv, Sound, Records
      <4>3. QED BY <3>1, <3>3, <4>2
    <3>4. QED BY <2>10, <3>2, <3>3 DEF Transfer
  <2>11. CASE RenameExtract(p) \/ RenameOutline(p) \/ Put(p)
    BY <2>2, <2>4, <2>b, <2>11 DEF RenameExtract, RenameOutline, Put
  <2>12. CASE Pass(p) \/ Cleanup(p)
    BY <2>2, <2>3, <2>12 DEF Pass, Cleanup, At, Saving
  <2>13. CASE Write(p)
    <3>1. CASE t \in temps
      BY <2>2, <2>3, <2>13, <3>1 DEF Write, At, Saving
    <3>2. CASE t \notin temps
      <4>0. CASE t = Leftover(Temp(p))
        BY <2>a, <4>0
      <4>9. SUFFICES ASSUME t # Leftover(Temp(p)) PROVE Owned(t)
        BY <4>0
      <4>1. GoesTo(p, "put") /\ run[p].cmd.osm
        BY <2>13, <3>2, <4>9 DEF Write, At, RunsInv, Sound, Working
      <4>2. run'[p].at = "put" /\ run'[p].cmd = run[p].cmd
        BY <4>1, Moves DEF GoesTo, RunsInv, Sound, Records
      <4>3. t = [by |-> p, of |-> "derived"]
        BY <2>13, <3>2, <4>9 DEF Write, MakesTemp
      <4>4. QED BY <2>6, <4>1, <4>2, <4>3 DEF Saving
    <3>3. QED BY <3>1, <3>2
  <2>14. CASE Interrupt(p)
    <3>1. CASE ~run[p].cancelled
      <4>1. /\ UNCHANGED temps
            /\ run'[p] = [run[p] EXCEPT !.cancelled = TRUE]
        BY <2>14, <3>1, Moves DEF Interrupt
      <4>2. run'[p].at = run[p].at /\ run'[p].cmd = run[p].cmd
        BY <4>1 DEF RunsInv, Sound, Records
      <4>3. QED BY <2>2, <2>3, <2>5, <4>1, <4>2
    <3>2. CASE run[p].cancelled
      <4>1. PICK u \in temps : t = IF u.by = p THEN Leftover(u) ELSE u
        BY <2>14, <3>2 DEF Interrupt
      <4>2. CASE u.by = p
        BY <2>a, <4>1, <4>2
      <4>3. CASE u.by # p
        BY <2>2, <4>1, <4>3
      <4>4. QED BY <4>2, <4>3
    <3>3. QED BY <3>1, <3>2
  <2>15. QED
    BY <1>1, <2>7, <2>8, <2>9, <2>10, <2>11, <2>12, <2>13, <2>14 DEF RunStep
<1>2. ASSUME UNCHANGED <<temps, run>>
      PROVE  Owned(t)
  BY <1>2 DEF TempsAreOwned, Temp
<1>3. QED BY <1>1, <1>2 DEF Next, RunStep, vars

-----------------------------------------------------------------------------
LEMMA InitBoundaries == Init => BoundariesInv
<1> SUFFICES ASSUME Init PROVE BoundariesInv
  OBVIOUS
<1>1. RunsInv
  BY IdleIsSound DEF Init, RunsInv
<1>2. ExtractsAreOwned /\ TempsAreOwned
  BY DEF Init, ExtractsAreOwned, TempsAreOwned
<1>3. QED BY <1>1, <1>2 DEF BoundariesInv

\* However many processes fetch and build in one directory, sweep one another's
\* temporary files, fail to write, rename or remove and are interrupted: an
\* extract that no run will remove is one that was to be kept, that a kill left or
\* of which a run said that it could not delete it, and a temporary file nobody
\* writes is a kill's or one that would not go (boundaries_osm.go:116, the deferred
\* removeExtract; saveThroughTemp).
THEOREM NothingStays == Spec => []NothingIsLeft
<1>1. Init => BoundariesInv
  BY InitBoundaries
<1>2. BoundariesInv /\ [Next]_vars => BoundariesInv'
  BY RunsStep, ExtractsStep, TempsStep DEF BoundariesInv
<1>3. BoundariesInv => NothingIsLeft
  BY DEF BoundariesInv, ExtractsAreOwned, TempsAreOwned, NothingIsLeft, Saving
<1>4. QED BY <1>1, <1>2, <1>3, PTL DEF Spec
=============================================================================
