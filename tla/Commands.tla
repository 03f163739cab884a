------------------------------ MODULE Commands ------------------------------
(***************************************************************************)
(* The commands of cmd/osmbase that draw or fetch, run by several processes *)
(* over one map store and the terrain store beside it: what they measure,   *)
(* the question they ask, whom they contact and when, what they carry on    *)
(* without, and how they end.                                               *)
(*                                                                         *)
(* An archive is "map" or "ground"; a store of it has been given a source   *)
(* or not, and holds the view every command is about to some level, from 0  *)
(* (nothing) to Full.  How a level is reached, stopped at and recorded are  *)
(* the modules Slice, AcquireFetch and Terrain.                             *)
(***************************************************************************)
EXTENDS Integers

CONSTANTS
    Procs,              \* the processes
    Asked,              \* what each process may be asked to do
    Remote,             \* the archives that are on a host
    Full                \* the level at which a store lacks nothing of the view

Archives == {"map", "ground"}
Renders == {"render", "render3d"}

\* A command line, and what its standard input is.
Invocations ==
    [cmd: {"render"}, named: {"store", "archive", "neither"}, terrain: BOOLEAN,
     yes: BOOLEAN, dry: {FALSE}, stdin: {"terminal", "pipe", "closed"}]
    \cup [cmd: {"render3d"}, named: {"store"}, terrain: {TRUE},
          yes: BOOLEAN, dry: {FALSE}, stdin: {"terminal", "pipe", "closed"}]
    \cup [cmd: {"fetch"}, named: {"archive"}, terrain: BOOLEAN,
          yes: BOOLEAN, dry: BOOLEAN, stdin: {"terminal", "pipe", "closed"}]
    \cup [cmd: {"read"}, named: {"archive"}, terrain: {FALSE},
          yes: {FALSE}, dry: {FALSE}, stdin: {"closed"}]

ASSUME CommandsAssumption ==
    /\ Remote \subseteq Archives
    /\ Full \in Nat \ {0}
    /\ \A p \in Procs : Asked[p] \subseteq Invocations

VARIABLES
    store,              \* what the store of each archive holds
    png,                \* the image each process writes, and its .partial
    run                 \* the command each process runs, or ran last

vars == <<store, png, run>>

Run == [at: {"idle", "offer", "ask", "contact", "register", "plan", "decide",
             "confirm", "load", "open", "archive", "draw", "create", "encode"},
        cmd: Renders \cup {"fetch", "read"}, from: {"store", "archive"},
        of: Archives \cup {"none"},       \* the archive it is at, and the one
        after: Archives \cup {"none"},     \* that comes after
        yes: BOOLEAN, dry: BOOLEAN,
        stdin: {"terminal", "pipe", "closed"},
        empty: BOOLEAN,             \* there was no map at all when it looked
        filled: BOOLEAN,            \* the fill it was granted went through
        lacks: SUBSET Archives,     \* what a fetch's plans have to fetch
        granted: SUBSET Archives, contacted: SUBSET Archives, took: SUBSET Archives,
        cancelled: BOOLEAN,
        status: {"ok", "failed", "no store", "interrupted", "killed"}]

\* A command that has done nothing yet.
Fresh(at, cmd, from, of, after, yes, dry, stdin) ==
    [at |-> at, cmd |-> cmd, from |-> from, of |-> of, after |-> after,
     yes |-> yes, dry |-> dry, stdin |-> stdin, empty |-> FALSE,
     filled |-> FALSE, lacks |-> {}, granted |-> {}, contacted |-> {},
     took |-> {}, cancelled |-> FALSE, status |-> "ok"]

Resting == Fresh("idle", "read", "store", "none", "none", FALSE, FALSE, "closed")

\* Types.
TypeOK ==
    /\ store \in [Archives -> [source: BOOLEAN, level: 0..Full]]
    /\ png \in [Procs -> [out: {"none", "half", "whole"},
                          partial: {"none", "half", "left"}]]
    /\ run \in [Procs -> Run]

Init ==
    /\ store = [w \in Archives |-> [source |-> FALSE, level |-> 0]]
    /\ png = [p \in Procs |-> [out |-> "none", partial |-> "none"]]
    /\ run = [p \in Procs |-> Resting]

-----------------------------------------------------------------------------
At(p, place) == run[p].at = place
Becomes(p, r) == run' = [run EXCEPT ![p] = r]
GoesTo(p, place) == Becomes(p, [run[p] EXCEPT !.at = place])
Ends(p, how) == Becomes(p, [Resting EXCEPT !.status = how])

\* runContext: an error that is the context's is an interrupt, not a failure.
Fails(p) == \E how \in {"failed"} \cup IF run[p].cancelled THEN {"interrupted"}
                                       ELSE {} : Ends(p, how)

\* The archive a command is at.  A fetch that loads takes the map's first.
Of(p) == IF run[p].cmd # "fetch" \/ run[p].at # "load" THEN run[p].of
         ELSE IF "map" \in run[p].lacks THEN "map" ELSE "ground"

(***************************************************************************)
(* Starting a command.                                                     *)
(***************************************************************************)
\* With neither a store nor a SOURCE named, the default store if it has a map.
From(named) ==
    IF named # "neither" THEN named
    ELSE IF store["map"].source THEN "store" ELSE "archive"

\* What a render measures and offers, or a fetch plans: a render the terrain
\* first, if it is to be drawn, the others the map.
First(cmd, from, terrain) ==
    IF cmd = "render" /\ terrain THEN "ground"
    ELSE IF cmd = "read" \/ (from = "archive" /\ cmd = "render") THEN "none"
    ELSE "map"
Second(cmd, from, terrain) ==
    IF cmd = "render" /\ terrain /\ from = "store" THEN "map"
    ELSE IF cmd # "render" /\ terrain THEN "ground"
    ELSE "none"

Begin(p, i) ==
    LET from == IF i.cmd = "render" THEN From(i.named) ELSE i.named
        first == First(i.cmd, from, i.terrain)
        at == IF first = "none" THEN "archive"
              ELSE IF i.cmd = "fetch" THEN "contact" ELSE "offer"
    IN
    /\ At(p, "idle")
    /\ Becomes(p, Fresh(at, i.cmd, from, first, Second(i.cmd, from, i.terrain),
                        i.yes, i.dry, i.stdin))
    /\ UNCHANGED <<store, png>>

(***************************************************************************)
(* Offering to fetch what a view lacks (offerToFill, offerTerrain).        *)
(***************************************************************************)
\* Measured from the disk alone.
Look(p) ==
    LET s == store[Of(p)] IN
    /\ At(p, "offer")
    /\ Becomes(p, [run[p] EXCEPT !.at = IF s.level < Full THEN "ask" ELSE "open",
                                 !.empty = ~s.source, !.filled = FALSE])
    /\ UNCHANGED <<store, png>>

\* Mutant of Ask: the answer is read whatever stdin is.
AskAnyone(p) ==
    /\ At(p, "ask")
    /\ \/ /\ run[p].yes
          /\ Becomes(p, [run[p] EXCEPT !.at = "contact", !.granted = @ \cup {Of(p)}])
       \/ /\ ~run[p].yes /\ run[p].stdin # "pipe"
          /\ GoesTo(p, "open")
    /\ UNCHANGED <<store, png>>

\* Consent.Ask: --yes answers; where nobody can answer nothing is read; else a
\* person says yes, or no, or ends the input.
Ask(p) ==
    /\ At(p, "ask")
    /\ \/ /\ run[p].yes \/ run[p].stdin = "terminal"
          /\ Becomes(p, [run[p] EXCEPT !.at = "contact", !.granted = @ \cup {Of(p)}])
       \/ /\ ~run[p].yes
          /\ GoesTo(p, "open")
    /\ UNCHANGED <<store, png>>

\* Mutant of Contact: it is opened while the question is being put.
ContactEarly(p) ==
    /\ run[p].at \in {"ask", "contact"}
    /\ Becomes(p, [run[p] EXCEPT !.at = IF @ = "ask" THEN "ask" ELSE "register",
                                 !.contacted = @ \cup ({Of(p)} \cap Remote)])
    /\ UNCHANGED <<store, png>>

\* The archive is opened, or the terrain's list of archives read: whoever hosts
\* it is told.
Contact(p) ==
    /\ At(p, "contact")
    /\ Becomes(p, [run[p] EXCEPT !.at = "register",
                                 !.contacted = @ \cup ({Of(p)} \cap Remote)])
    /\ UNCHANGED <<store, png>>

\* Create and AddTo, or Prepare: the store is made and the source registered.
Register(p) ==
    /\ At(p, "register")
    /\ store' = [store EXCEPT ![Of(p)].source = TRUE]
    /\ GoesTo(p, IF run[p].cmd = "fetch" THEN "plan" ELSE "load")
    /\ UNCHANGED png

\* Mutant of Load: more arrives than was planned.
LoadPast(p) ==
    /\ At(p, "load")
    /\ ~run[p].cancelled
    /\ store' = [store EXCEPT ![Of(p)].level = @ + 1]
    /\ Becomes(p, [run[p] EXCEPT !.took = @ \cup {Of(p)}])
    /\ UNCHANGED png

\* Tiles arrive, of what a fill or a fetch is at.
Load(p) ==
    /\ At(p, "load")
    /\ ~run[p].cancelled
    /\ store[Of(p)].level < Full
    /\ store' = [store EXCEPT ![Of(p)].level = @ + 1]
    /\ Becomes(p, [run[p] EXCEPT !.took = @ \cup {Of(p)}])
    /\ UNCHANGED png

\* A fill is done; what was filled is opened.
FillReturns(p) ==
    /\ At(p, "load") /\ run[p].cmd \in Renders
    /\ store[Of(p)].level = Full
    /\ Becomes(p, [run[p] EXCEPT !.at = "open", !.filled = TRUE])
    /\ UNCHANGED <<store, png>>

\* A fill that fails, or is interrupted, is reported and not returned.
FillFails(p) ==
    /\ run[p].at \in {"contact", "register", "load"} /\ run[p].cmd \in Renders
    /\ GoesTo(p, "open")
    /\ UNCHANGED <<store, png>>

\* mapFor's and openTerrain's end.  Without a map at all the old refusal is
\* returned unless a fill went through; without terrain it is looked for again.
Open(p) ==
    /\ At(p, "open")
    /\ IF Of(p) = "map" /\ run[p].empty /\ ~run[p].filled THEN Ends(p, "no store")
       ELSE IF ~store[Of(p)].source THEN Ends(p, "failed")
       ELSE Becomes(p, [run[p] EXCEPT !.of = run[p].after, !.after = "none",
                           !.at = IF run[p].after # "none" THEN "offer"
                                  ELSE IF run[p].from = "archive" THEN "archive"
                                  ELSE "draw"])
    /\ UNCHANGED <<store, png>>

(***************************************************************************)
(* Reading an archive, drawing, and writing the image.                     *)
(***************************************************************************)
\* inspect, tile and geojson open an archive and report; a render draws from it.
ReadArchive(p) ==
    LET r == [run[p] EXCEPT !.contacted = @ \cup ({"map"} \cap Remote)] IN
    /\ At(p, "archive")
    /\ \/ Ends(p, "failed")
       \/ run[p].cmd = "read" /\ Ends(p, "ok")
       \/ run[p].cmd # "read" /\ Becomes(p, [r EXCEPT !.at = "draw"])
    /\ UNCHANGED <<store, png>>

\* Renderer.Render, which looks at its context.
Draw(p) ==
    /\ At(p, "draw")
    /\ IF run[p].cancelled THEN Ends(p, "interrupted")
       ELSE IF run[p].from = "store" /\ store["map"].level = 0
            THEN Ends(p, "failed")         \* ErrNoCoverage
       ELSE GoesTo(p, "create") \/ Ends(p, "failed")
    /\ UNCHANGED <<store, png>>

\* writePNG.
Create(p) ==
    /\ At(p, "create")
    /\ \/ Ends(p, "failed") /\ UNCHANGED png
       \/ GoesTo(p, "encode") /\ png' = [png EXCEPT ![p].partial = "half"]
    /\ UNCHANGED store

\* Mutant of Rename: the image is written under its own name.
RenameNothing(p) ==
    /\ At(p, "encode")
    /\ \/ Ends(p, "ok") /\ png' = [png EXCEPT ![p].out = "whole"]
       \/ GoesTo(p, "encode") /\ png' = [png EXCEPT ![p].out = "half"]
    /\ UNCHANGED store

Rename(p) ==
    /\ At(p, "encode")
    /\ \/ /\ Ends(p, "ok")
          /\ png' = [png EXCEPT ![p] = [out |-> "whole", partial |-> "none"]]
       \/ /\ Ends(p, "failed")
          /\ png' = [png EXCEPT ![p].partial = "none"]
    /\ UNCHANGED store

(***************************************************************************)
(* osmbase fetch: planned first, asked about once, then loaded.            *)
(***************************************************************************)
Plan(p) ==
    /\ At(p, "plan")
    /\ IF run[p].cancelled THEN Ends(p, "interrupted")
       ELSE Becomes(p, [run[p] EXCEPT !.of = run[p].after, !.after = "none",
                !.at = IF run[p].after = "none" THEN "decide" ELSE "contact",
                !.lacks = IF store[Of(p)].level < Full THEN @ \cup {Of(p)} ELSE @])
    /\ UNCHANGED <<store, png>>

Decide(p) ==
    LET asks == run[p].lacks \cap Remote # {} IN
    /\ At(p, "decide")
    /\ IF run[p].lacks = {} \/ run[p].dry THEN Ends(p, "ok")
       ELSE IF run[p].yes \/ ~asks
            THEN Becomes(p, [run[p] EXCEPT !.at = "load",
                                !.granted = @ \cup run[p].lacks])
       ELSE GoesTo(p, "confirm")
    /\ UNCHANGED <<store, png>>

\* confirm: one question for every host with something to fetch.  It reads
\* whatever stdin is: of a pipe nobody closes, for ever.
Confirm(p) ==
    /\ At(p, "confirm")
    /\ run[p].stdin # "pipe"
    /\ \/ Ends(p, "ok")
       \/ /\ run[p].stdin = "terminal"
          /\ Becomes(p, [run[p] EXCEPT !.at = "load", !.granted = @ \cup run[p].lacks])
    /\ UNCHANGED <<store, png>>

\* One archive is done; the map's comes first.
FetchReturns(p) ==
    LET rest == run[p].lacks \ {Of(p)} IN
    /\ At(p, "load") /\ run[p].cmd = "fetch"
    /\ store[Of(p)].level = Full
    /\ IF rest = {} THEN Ends(p, "ok") ELSE Becomes(p, [run[p] EXCEPT !.lacks = rest])
    /\ UNCHANGED <<store, png>>

FetchFails(p) ==
    /\ run[p].at \in {"contact", "register", "plan", "load"} /\ run[p].cmd = "fetch"
    /\ Fails(p)
    /\ UNCHANGED <<store, png>>

(***************************************************************************)
(* Ctrl-C: the first cancels the context, another ends the process.        *)
(***************************************************************************)
Interrupt(p) ==
    /\ ~At(p, "idle")
    /\ IF run[p].cancelled
       THEN /\ Ends(p, "killed")
            /\ png' = [png EXCEPT ![p].partial = IF @ = "half" THEN "left" ELSE @]
       ELSE /\ Becomes(p, [run[p] EXCEPT !.cancelled = TRUE])
            /\ UNCHANGED png
    /\ UNCHANGED store

Steps(p) ==
    \/ Look(p) \/ Ask(p) \/ Contact(p) \/ Register(p) \/ Load(p)
    \/ FillReturns(p) \/ FillFails(p) \/ Open(p)
    \/ ReadArchive(p) \/ Draw(p) \/ Create(p) \/ Rename(p)
    \/ Plan(p) \/ Decide(p) \/ Confirm(p) \/ FetchReturns(p) \/ FetchFails(p)

Next == \E p \in Procs : (\E i \in Asked[p] : Begin(p, i)) \/ Steps(p) \/ Interrupt(p)

Spec == Init /\ [][Next]_vars

FairSpec == Spec /\ \A p \in Procs : WF_vars(Steps(p))

-----------------------------------------------------------------------------
\* Nobody is told what is looked at without a yes that named them (offer.go,
\* "Why it asks before anything is read"): a render from a store contacts only
\* the hosts it was granted, one from an archive that archive's besides, and a
\* fetch, which plans before it asks, takes tiles only from those its one
\* question was about, or those that are no host.
ReadsOnlyGranted ==
    \A p \in Procs :
        LET r == run[p] IN
        /\ r.cmd \in Renders =>
              r.contacted \subseteq r.granted
                                    \cup IF r.from = "archive" THEN {"map"} ELSE {}
        /\ r.took \cap Remote \subseteq r.granted

\* The name the user asked for holds a whole image or none, also after kills,
\* and a command that was not killed leaves no .partial of its own (writePNG).
ImageIsWhole ==
    \A p \in Procs :
        /\ png[p].out # "half"
        /\ png[p].partial = "half" => run[p].at = "encode"

\* A render nobody attends ends, whatever it lacks: it asks no question that
\* cannot be answered (offer.go, Consent).  Not so a fetch (Confirm).
UnattendedRenderEnds ==
    \A p \in Procs :
        (/\ run[p].at # "idle"
         /\ run[p].cmd \in Renders
         /\ run[p].stdin # "terminal") ~> (run[p].at = "idle")

\* offer.go:49: "a failed download is not an error.  The render carries on with
\* what the store holds".  Not so of a store that was empty: a fill that fails
\* after it put tiles there is answered with the refusal made before it, that
\* there is no store.
CarriesOn ==
    [][\A p \in Procs :
          /\ run[p].at # "idle" /\ run'[p].status = "no store"
          /\ "map" \in run[p].took
          => store["map"].level = 0]_vars
=============================================================================
