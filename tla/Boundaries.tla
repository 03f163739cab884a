------------------------------ MODULE Boundaries ------------------------------
(***************************************************************************)
(* osmbase boundaries (cmd/osmbase/boundaries.go, boundaries_osm.go): runs  *)
(* of it by several processes in one directory of outlines.  A run either   *)
(* fetches the Natural Earth files, or builds a derived file out of an      *)
(* extract that it fetches or that the user has, in the three passes of     *)
(* Extract.                                                                *)
(***************************************************************************)
EXTENDS Extract

CONSTANTS
    Procs,
    Regions,            \* names for an extract and the derived file of it
    Layers,             \* the Natural Earth files, in order
    Contents,           \* the extracts there are, by version
    Offered,            \* the versions a host may offer, one today and another tomorrow
    Asked,              \* what each process may be asked to do
    None

\* A command line.  A local source is the version it holds.
Invocations ==
    [osm: {FALSE}, region: Regions, from: {None}, keep: {FALSE}, yes: BOOLEAN]
    \cup [osm: {TRUE}, region: Regions, from: DOMAIN Contents \cup {None},
          keep: BOOLEAN, yes: BOOLEAN]

ASSUME BoundariesAssumption ==
    /\ Offered \subseteq DOMAIN Contents
    /\ None \notin DOMAIN Contents \cup Procs
    /\ Layers \in Seq(STRING) /\ Layers # <<>>
    /\ Asked \in [Procs -> SUBSET Invocations]

VARIABLES
    extract,            \* the extract of each region in the directory
    derived,            \* the derived file of each region
    outlines,           \* the Natural Earth files there are
    temps,              \* the temporary files, by what of and by whom; by None: nobody
                        \* will rename or remove this one
    run,                \* what each process does
    stays               \* the regions whose extract lies there because it was to be kept,
                        \* its run was killed, or said that it could not delete it

vars == <<extract, derived, outlines, temps, run, stays>>

Idle == [at |-> "idle", cmd |-> None, got |-> None, seen |-> <<>>, todo |-> <<>>,
         cancelled |-> FALSE]

TypeOK ==
    /\ extract \in [Regions -> Offered \cup {None}]
    /\ \A r \in Regions : derived[r].of \in Seq(DOMAIN Contents)
    /\ outlines \subseteq ToSet(Layers)
    /\ temps \subseteq [by: Procs \cup {None}, of: {"extract", "derived", "outline"}]
    /\ \A p \in Procs :
          /\ run[p].at \in {"idle", "confirm", "sweep", "temp", "transfer", "rename",
                            "read", "write", "put", "cleanup"}
          /\ run[p].cmd \in Invocations \cup {None}
          /\ run[p].seen \in Seq(DOMAIN Contents) /\ Len(run[p].seen) <= 3
          /\ IsSuffix(run[p].todo, Layers)
    /\ stays \subseteq Regions

Init ==
    /\ extract = [r \in Regions |-> None]
    /\ derived = [r \in Regions |-> [of |-> <<>>, areas |-> <<>>]]
    /\ outlines = {}
    /\ temps = {}
    /\ run = [p \in Procs |-> Idle]
    /\ stays = {}

-----------------------------------------------------------------------------
At(p, place) == run[p].at = place
Becomes(p, r) == run' = [run EXCEPT ![p] = r]
GoesTo(p, place) == Becomes(p, [run[p] EXCEPT !.at = place])
Region(p) == run[p].cmd.region
Fetches(p) == run[p].cmd.from = None
Works(p) == run[p].at \in {"read", "write", "put", "cleanup"}
Temp(p) == [by |-> p,
            of |-> IF ~run[p].cmd.osm THEN "outline"
                   ELSE IF run[p].at \in {"transfer", "rename"} THEN "extract"
                   ELSE "derived"]
MakesTemp(p, of) == temps' = temps \cup {[by |-> p, of |-> of]}
Leftover(t) == [t EXCEPT !.by = None]

\* The deferred os.Remove of saveThroughTemp, of a file t unless somebody swept
\* it.  When it fails nobody hears of it.
Discard(t) ==
    \/ temps' = temps \ {t}
    \/ t \in temps /\ temps' = (temps \ {t}) \cup {Leftover(t)}

Begin(p, c) ==
    /\ At(p, "idle")
    /\ Becomes(p, [Idle EXCEPT !.at = IF c.yes THEN "sweep" ELSE "confirm", !.cmd = c,
                               !.todo = IF c.osm THEN <<>> ELSE Layers])
    /\ UNCHANGED <<extract, derived, outlines, temps, stays>>

\* A closed or empty standard input is a no.
Confirm(p) ==
    /\ At(p, "confirm")
    /\ GoesTo(p, "sweep") \/ Becomes(p, Idle)
    /\ UNCHANGED <<extract, derived, outlines, temps, stays>>

\* The directory is made.  A run over an extract removes whatever temporary
\* file of an extract or a derived file is there, whoever's it is, and says
\* nothing of one that will not go.
Sweep(p) ==
    /\ At(p, "sweep")
    /\ \/ /\ IF run[p].cmd.osm
             THEN \E gone \in SUBSET {t \in temps : t.of # "outline"} : temps' = temps \ gone
             ELSE UNCHANGED temps
          /\ GoesTo(p, IF Fetches(p) THEN "temp" ELSE "read")
       \/ Becomes(p, Idle) /\ UNCHANGED temps
    /\ UNCHANGED <<extract, derived, outlines, stays>>

(***************************************************************************)
(* saveThroughTemp of a download.                                          *)
(***************************************************************************)
CreateTemp(p) ==
    /\ At(p, "temp")
    /\ \/ /\ MakesTemp(p, IF run[p].cmd.osm THEN "extract" ELSE "outline")
          /\ GoesTo(p, "transfer")
       \/ Becomes(p, Idle) /\ UNCHANGED temps
    /\ UNCHANGED <<extract, derived, outlines, stays>>

\* acquire.DownloadContext: all of the edition the host has by now, or an error.
Transfer(p) ==
    /\ At(p, "transfer")
    /\ \/ /\ ~run[p].cancelled
          /\ \E v \in Offered :
                Becomes(p, [run[p] EXCEPT !.at = "rename",
                                          !.got = IF run[p].cmd.osm THEN v ELSE None])
          /\ UNCHANGED temps
       \/ Becomes(p, Idle) /\ Discard(Temp(p))
    /\ UNCHANGED <<extract, derived, outlines, stays>>

\* os.Rename into place, which fails if somebody swept the temporary file, and
\* may fail otherwise.
RenameExtract(p) ==
    LET r == Region(p) IN
    /\ At(p, "rename") /\ run[p].cmd.osm
    /\ \/ /\ Temp(p) \in temps
          /\ temps' = temps \ {Temp(p)}
          /\ extract' = [extract EXCEPT ![r] = run[p].got]
          /\ stays' = IF run[p].cmd.keep THEN stays \cup {r} ELSE stays \ {r}
          /\ Becomes(p, [run[p] EXCEPT !.at = "read", !.got = None])
       \/ Becomes(p, Idle) /\ Discard(Temp(p)) /\ UNCHANGED <<extract, stays>>
    /\ UNCHANGED <<derived, outlines>>

RenameOutline(p) ==
    /\ At(p, "rename") /\ ~run[p].cmd.osm
    /\ \/ /\ temps' = temps \ {Temp(p)}
          /\ outlines' = outlines \cup {Head(run[p].todo)}
          /\ IF Len(run[p].todo) = 1 THEN Becomes(p, Idle)
             ELSE Becomes(p, [run[p] EXCEPT !.at = "temp", !.todo = Tail(@)])
       \/ Becomes(p, Idle) /\ Discard(Temp(p)) /\ UNCHANGED outlines
    /\ UNCHANGED <<extract, derived, stays>>

(***************************************************************************)
(* buildFromExtract, and what is done with its answer.                     *)
(***************************************************************************)
Path(p) == IF Fetches(p) THEN extract[Region(p)] ELSE run[p].cmd.from

\* What the passes made so far come to.
Passes(seen) ==
    LET File(n) == Contents[seen[n]]
        first == ReadRelations(File(1))
        second == ReadWays(File(2), first)
    IN  CASE Len(seen) = 1 -> IF first.ok /\ first.found # <<>> THEN "on" ELSE "ends"
          [] Len(seen) = 2 -> IF second.ok THEN "on" ELSE "ends"
          [] Len(seen) = 3 -> IF Read(File(1), File(2), File(3)).ok THEN "read" ELSE "ends"

\* One pass, over the file that has the name when it opens it.  An interrupt
\* fails the next read (ctxReader).
Pass(p) ==
    LET seen == Append(run[p].seen, Path(p))
        fails == Path(p) = None \/ run[p].cancelled
        r == [run[p] EXCEPT !.seen = seen]
    IN
    /\ At(p, "read")
    /\ IF fails THEN GoesTo(p, "cleanup")
       ELSE Becomes(p, [r EXCEPT !.at = IF Passes(seen) = "on" THEN "read"
                                        ELSE IF Passes(seen) = "ends" THEN "cleanup"
                                        ELSE "write"])
    /\ UNCHANGED <<extract, derived, outlines, temps, stays>>

\* saveThroughTemp of the derived file: what was written of it before a failure
\* is removed, or stays.
Write(p) ==
    /\ At(p, "write")
    /\ \/ GoesTo(p, "put") /\ MakesTemp(p, "derived")
       \/ GoesTo(p, "cleanup") /\ UNCHANGED temps
       \/ GoesTo(p, "cleanup") /\ temps' = temps \cup {Leftover(Temp(p))}
    /\ UNCHANGED <<extract, derived, outlines, stays>>

Put(p) ==
    LET File(n) == Contents[run[p].seen[n]] IN
    /\ At(p, "put")
    /\ \/ /\ Temp(p) \in temps
          /\ temps' = temps \ {Temp(p)}
          /\ derived' = [derived EXCEPT ![Region(p)] =
                          [of |-> run[p].seen,
                           areas |-> Read(File(1), File(2), File(3)).boundaries]]
       \/ Discard(Temp(p)) /\ UNCHANGED derived
    /\ GoesTo(p, "cleanup")
    /\ UNCHANGED <<extract, outlines, stays>>

\* Whether this run has an extract to remove: the one with the name, fetched by
\* it or by another since.
MustRemove(p) == Fetches(p) /\ ~run[p].cmd.keep /\ extract[Region(p)] # None

RemoveExtract(p) ==
    /\ extract' = [extract EXCEPT ![Region(p)] = None]
    /\ stays' = stays \ {Region(p)}

\* Mutant of Cleanup: only after a success.
CleanupAfterSuccess(p) ==
    /\ At(p, "cleanup")
    /\ Becomes(p, Idle)
    /\ IF MustRemove(p) /\ Len(run[p].seen) = 3 THEN RemoveExtract(p)
       ELSE UNCHANGED <<extract, stays>>
    /\ UNCHANGED <<derived, outlines, temps>>

\* The deferred removeExtract, however the run went.  A file that will not go
\* stays, and the run says "could not delete".
Cleanup(p) ==
    /\ At(p, "cleanup")
    /\ Becomes(p, Idle)
    /\ IF MustRemove(p)
       THEN \/ RemoveExtract(p)
            \/ stays' = stays \cup {Region(p)} /\ UNCHANGED extract
       ELSE UNCHANGED <<extract, stays>>
    /\ UNCHANGED <<derived, outlines, temps>>

(***************************************************************************)
(* Ctrl-C, once and again.                                                 *)
(***************************************************************************)
Interrupt(p) ==
    /\ ~At(p, "idle")
    /\ IF ~run[p].cancelled
       THEN /\ Becomes(p, [run[p] EXCEPT !.cancelled = TRUE])
            /\ UNCHANGED <<temps, stays>>
       ELSE /\ Becomes(p, Idle)
            /\ temps' = {IF t.by = p THEN Leftover(t) ELSE t : t \in temps}
            /\ stays' = IF Works(p) /\ MustRemove(p) THEN stays \cup {Region(p)}
                        ELSE stays
    /\ UNCHANGED <<extract, derived, outlines>>

Next ==
    \E p \in Procs :
       \/ \E c \in Asked[p] : Begin(p, c)
       \/ Confirm(p) \/ Sweep(p) \/ CreateTemp(p) \/ Transfer(p)
       \/ RenameExtract(p) \/ RenameOutline(p)
       \/ Pass(p) \/ Write(p) \/ Put(p) \/ Cleanup(p) \/ Interrupt(p)

Spec == Init /\ [][Next]_vars

-----------------------------------------------------------------------------
\* A fetched extract is gone once nobody who is to remove it works from it, unless
\* --keep-extract left it, or a kill, or the run has said that it could not
\* delete it (boundaries_osm.go:116, "Removed whatever happens next", and 321, "half
\* a gigabyte staying behind silently"); and a temporary file is of a run that is
\* about to save one, or was left by a kill or by a removal that failed.
NothingIsLeft ==
    /\ \A r \in Regions :
          extract[r] # None /\ r \notin stays =>
             \E p \in Procs : Works(p) /\ Region(p) = r /\ MustRemove(p)
    /\ \A t \in temps : t.by # None => run[t.by].at \in {"transfer", "rename", "put"}

\* No outlines are written of an extract that a later pass found too short for the
\* blocks the first one saw, whoever replaced or removed it in between
\* (pipeline.go:510, "the extract ended before block"; skip_test.go:96, "finds the
\* file shorter is reading a different one, and says so").
ShorterIsNoticed ==
    \A r \in Regions : derived[r].of # <<>> =>
       LET of == derived[r].of
           kinds == ReadRelations(Contents[of[1]]).kinds
           Blocks(n) == Len(Data(Contents[of[n]]))
       IN  Blocks(2) >= LastOf(kinds, "ways") /\ Blocks(3) >= LastOf(kinds, "nodes")
=============================================================================
