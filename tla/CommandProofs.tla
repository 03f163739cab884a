--------------------------- MODULE CommandProofs ---------------------------
(***************************************************************************)
(* That no command contacts a host it was not granted, and that no image   *)
(* is ever half written under its own name, for any number of processes    *)
(* and any command lines (module Commands).                                *)
(***************************************************************************)
EXTENDS Commands, TLAPS

\* What goes with each place a command can be at.
Shape(r) ==
    /\ r.at \in {"offer", "ask", "open"} => r.cmd \in Renders /\ r.of # "none"
    /\ r.at \in {"contact", "register"} =>
          r.cmd \in Renders \cup {"fetch"} /\ r.of # "none"
    /\ r.at = "plan" => r.cmd = "fetch" /\ r.of # "none"
    /\ r.at = "decide" => r.cmd = "fetch"
    /\ r.at = "confirm" => r.cmd = "fetch" /\ r.lacks # {}
    /\ r.at = "load" => \/ r.cmd \in Renders /\ r.of # "none"
                        \/ r.cmd = "fetch" /\ r.lacks # {}
    /\ r.at = "archive" => \/ r.cmd = "read"
                           \/ r.cmd \in Renders /\ r.from = "archive"
    /\ r.at \in {"draw", "create", "encode"} => r.cmd \in Renders

\* A yes comes before what it is for.
Granted(r) ==
    /\ r.at \in {"contact", "register", "load"} /\ r.cmd \in Renders =>
          r.of \in r.granted
    /\ r.at = "load" /\ r.cmd = "fetch" => r.lacks \cap Remote \subseteq r.granted
    /\ r.cmd \in Renders =>
          r.contacted \subseteq r.granted
                                \cup IF r.from = "archive" THEN {"map"} ELSE {}
    /\ r.took \cap Remote \subseteq r.granted

Inv == TypeOK /\ ImageIsWhole /\ \A p \in Procs : Shape(run[p]) /\ Granted(run[p])

\* Of is an archive wherever it is asked.
LEMMA OfIsAnArchive ==
    ASSUME Inv, NEW p \in Procs,
           run[p].at \in {"offer", "ask", "open", "contact", "register", "plan", "load"}
    PROVE  Of(p) \in Archives
<1>1. run[p] \in Run  BY DEF Inv, TypeOK
<1>2. Shape(run[p])  BY DEF Inv
<1>3. CASE run[p].cmd # "fetch" \/ run[p].at # "load"
  BY <1>1, <1>2, <1>3 DEF Of, Run, Shape
<1>4. CASE run[p].cmd = "fetch" /\ run[p].at = "load"
  BY <1>4 DEF Of, Archives
<1> QED  BY <1>3, <1>4

\* A step that changes one process's command, to a good one, and the rest as it
\* was, keeps the invariant of the commands.
LEMMA OneBecomes ==
    ASSUME Inv, NEW p \in Procs, NEW r \in Run, Shape(r), Granted(r), Becomes(p, r)
    PROVE  /\ run' \in [Procs -> Run]
           /\ \A q \in Procs : (Shape(run[q]) /\ Granted(run[q]))'
<1>1. run' = [run EXCEPT ![p] = r]  BY DEF Becomes
<1>2. run \in [Procs -> Run]  BY DEF Inv, TypeOK
<1>3. ASSUME NEW q \in Procs PROVE Shape(run'[q]) /\ Granted(run'[q])
  <2>1. CASE q = p  BY <1>1, <1>2, <2>1
  <2>2. CASE q # p  BY <1>1, <1>2, <2>2 DEF Inv
  <2> QED  BY <2>1, <2>2
<1> QED  BY <1>1, <1>2, <1>3 DEF Shape, Granted

LEMMA RestingIsGood == Resting \in Run /\ Shape(Resting) /\ Granted(Resting)
BY DEF Resting, Fresh, Run, Shape, Granted, Renders, Archives

\* A command that ends keeps the invariant of the commands.
LEMMA OneEnds ==
    ASSUME Inv, NEW p \in Procs,
           NEW how \in {"ok", "failed", "no store", "interrupted", "killed"}, Ends(p, how)
    PROVE  /\ run' \in [Procs -> Run]
           /\ \A q \in Procs : (Shape(run[q]) /\ Granted(run[q]))'
           /\ run'[p].at = "idle"
<1> DEFINE r == [Resting EXCEPT !.status = how]
<1>2. r \in Run /\ Shape(r) /\ Granted(r) /\ r.at = "idle"
  BY DEF Resting, Fresh, Run, Shape, Granted, Renders, Archives
<1>3. Becomes(p, r)  BY DEF Ends
<1>4. run'[p] = r  BY <1>3 DEF Becomes, Inv, TypeOK
<1> HIDE DEF r
<1> QED  BY <1>2, <1>3, <1>4, OneBecomes

\* What a step changes of one process, and whose image it is.
Keeps == /\ run' \in [Procs -> Run]
         /\ \A q \in Procs : (Shape(run[q]) /\ Granted(run[q]))'

\* Steps that leave the images alone and end what they do away from "encode",
\* by a process that was not there.
LEMMA ImagesStay ==
    ASSUME Inv, NEW p \in Procs, png' = png, run[p].at # "encode",
           \A q \in Procs : q # p => run'[q] = run[q]
    PROVE  ImageIsWhole'
<1>1. ASSUME NEW q \in Procs PROVE png[q].partial = "half" => run'[q].at = "encode"
  BY DEF Inv, ImageIsWhole
<1> QED  BY <1>1 DEF Inv, ImageIsWhole

LEMMA OthersStay ==
    ASSUME Inv, NEW p \in Procs, NEW r, Becomes(p, r)
    PROVE  \A q \in Procs : q # p => run'[q] = run[q]
BY DEF Becomes, Inv, TypeOK

THEOREM InitIsGood == CommandsAssumption /\ Init => Inv
<1> SUFFICES ASSUME CommandsAssumption, Init PROVE Inv  OBVIOUS
<1>1. TypeOK  BY RestingIsGood DEF Init, TypeOK, CommandsAssumption
<1>2. ImageIsWhole  BY DEF Init, ImageIsWhole
<1> QED  BY <1>1, <1>2, RestingIsGood DEF Inv, Init

\* A command begins with its own list of archives, and nothing granted yet.
LEMMA BeginKeeps ==
    ASSUME Inv, CommandsAssumption, NEW p \in Procs, NEW i \in Asked[p], Begin(p, i)
    PROVE  Keeps /\ store' = store /\ png' = png /\ run[p].at = "idle"
<1> DEFINE from == IF i.cmd = "render" THEN From(i.named) ELSE i.named
           first == First(i.cmd, from, i.terrain)
           second == Second(i.cmd, from, i.terrain)
           at == IF first = "none" THEN "archive"
                 ELSE IF i.cmd = "fetch" THEN "contact" ELSE "offer"
           r == Fresh(at, i.cmd, from, first, second, i.yes, i.dry, i.stdin)
<1>1. i \in Invocations  BY DEF CommandsAssumption
<1>2. /\ i.cmd \in Renders \cup {"fetch", "read"} /\ i.yes \in BOOLEAN /\ i.dry \in BOOLEAN
      /\ i.stdin \in {"terminal", "pipe", "closed"} /\ i.terrain \in BOOLEAN
      /\ i.named \in {"store", "archive", "neither"}
      /\ i.cmd # "render" => i.named \in {"store", "archive"}
      /\ i.cmd = "render3d" => i.named = "store"
  BY <1>1 DEF Invocations, Renders
<1>3. from \in {"store", "archive"}  BY <1>2 DEF From
<1>4. /\ first \in Archives \cup {"none"} /\ second \in Archives \cup {"none"}
      /\ i.cmd \in {"render3d", "fetch"} => first # "none"
      /\ i.cmd = "read" => first = "none"
      /\ i.cmd = "render" /\ from = "store" => first # "none"
  BY <1>2, <1>3 DEF First, Second, Archives, Renders
<1>5. r \in Run
  <2> HIDE DEF first, second, from
  <2> QED  BY <1>2, <1>3, <1>4 DEF Run, Fresh, Renders
<1>6. Shape(r) /\ Granted(r)
  <2> HIDE DEF first, second, from
  <2> QED  BY <1>2, <1>3, <1>4 DEF Shape, Granted, Fresh, Renders
<1>7. Becomes(p, r) /\ store' = store /\ png' = png /\ run[p].at = "idle"
  BY DEF Begin, At
<1> HIDE DEF r
<1> QED  BY <1>5, <1>6, <1>7, OneBecomes DEF Keeps

\* Each step of a command: what it leaves the commands, the stores and the images.
LEMMA StepKeeps ==
    ASSUME Inv, CommandsAssumption, NEW p \in Procs, Steps(p)
    PROVE  Inv'
<1> DEFINE old == run[p]
<1>1. old \in Run /\ Shape(old) /\ Granted(old)  BY DEF Inv, TypeOK
<1>2. TypeOK /\ ImageIsWhole  BY DEF Inv
<1>3. ASSUME Keeps, store' \in [Archives -> [source: BOOLEAN, level: 0..Full]],
             png' = png, run[p].at # "encode", \A q \in Procs : q # p => run'[q] = run[q]
      PROVE  Inv'
  <2>1. ImageIsWhole'  BY <1>3, ImagesStay
  <2>2. TypeOK'  BY <1>2, <1>3 DEF TypeOK, Keeps
  <2> QED  BY <1>3, <2>1, <2>2 DEF Inv, Keeps
<1>4. ASSUME NEW r \in Run, Shape(r), Granted(r), Becomes(p, r),
             store' \in [Archives -> [source: BOOLEAN, level: 0..Full]],
             png' = png, run[p].at # "encode"
      PROVE  Inv'
  BY <1>3, <1>4, OneBecomes, OthersStay DEF Keeps
<1>5. ASSUME NEW how \in {"ok", "failed", "no store", "interrupted", "killed"}, Ends(p, how),
             store' = store, png' = png, run[p].at # "encode"
      PROVE  Inv'
  <2>1. Keeps  BY <1>5, OneEnds DEF Keeps
  <2>2. \A q \in Procs : q # p => run'[q] = run[q]
    BY <1>5, OthersStay DEF Ends
  <2> QED  BY <1>2, <1>3, <1>5, <2>1, <2>2 DEF TypeOK
<1>6. store \in [Archives -> [source: BOOLEAN, level: 0..Full]]  BY <1>2 DEF TypeOK
<1> HIDE DEF old
<1>7. CASE Look(p)
  <2> DEFINE r == [run[p] EXCEPT !.at = IF store[Of(p)].level < Full THEN "ask" ELSE "open",
                                 !.empty = ~store[Of(p)].source, !.filled = FALSE]
  <2>1. Of(p) \in Archives  BY <1>7, OfIsAnArchive DEF Look, At, Inv
  <2>2. run[p].at = "offer" /\ Becomes(p, r) /\ store' = store /\ png' = png
    BY <1>7 DEF Look, At
  <2>3. r \in Run /\ Shape(r) /\ Granted(r)
    <3> DEFINE at == IF store[Of(p)].level < Full THEN "ask" ELSE "open"
               empty == ~store[Of(p)].source
    <3>1. at \in {"ask", "open"}  OBVIOUS
    <3>2. empty \in BOOLEAN  OBVIOUS
    <3>3. r = [run[p] EXCEPT !.at = at, !.empty = empty, !.filled = FALSE]  OBVIOUS
    <3> HIDE DEF at, empty, r
    <3> QED  BY <1>1, <2>2, <3>1, <3>2, <3>3 DEF old, Run, Shape, Granted, Renders
  <2> HIDE DEF r
  <2> QED  BY <1>4, <1>6, <2>2, <2>3
<1>8. CASE Ask(p)
  <2>1. /\ run[p].at = "ask" /\ store' = store /\ png' = png
        /\ Of(p) = run[p].of /\ run[p].of \in Archives
    BY <1>1, <1>8 DEF Ask, At, Of, old, Run, Shape
  <2>2. CASE Becomes(p, [run[p] EXCEPT !.at = "contact", !.granted = @ \cup {Of(p)}])
    <3> DEFINE r == [run[p] EXCEPT !.at = "contact", !.granted = @ \cup {run[p].of}]
    <3>1. r \in Run /\ Shape(r) /\ Granted(r)
      BY <1>1, <2>1 DEF old, Run, Shape, Granted, Renders
    <3>2. Becomes(p, r)  BY <2>1, <2>2
    <3> HIDE DEF r
    <3> QED  BY <1>4, <1>6, <2>1, <3>1, <3>2
  <2>3. CASE GoesTo(p, "open")
    <3> DEFINE r == [run[p] EXCEPT !.at = "open"]
    <3>1. r \in Run /\ Shape(r) /\ Granted(r)
      BY <1>1, <2>1 DEF old, Run, Shape, Granted, Renders
    <3>2. Becomes(p, r)  BY <2>3 DEF GoesTo
    <3> HIDE DEF r
    <3> QED  BY <1>4, <1>6, <2>1, <3>1, <3>2
  <2> QED  BY <1>8, <2>2, <2>3 DEF Ask
<1>9. CASE Contact(p)
  <2> DEFINE r == [run[p] EXCEPT !.at = "register",
                                 !.contacted = @ \cup ({run[p].of} \cap Remote)]
  <2>1. /\ run[p].at = "contact" /\ store' = store /\ png' = png
        /\ Of(p) = run[p].of /\ run[p].of \in Archives
    BY <1>1, <1>9 DEF Contact, At, Of, old, Run, Shape
  <2>2. Becomes(p, r)  BY <1>9, <2>1 DEF Contact
  <2>3. r \in Run /\ Shape(r) /\ Granted(r)
    BY <1>1, <2>1 DEF old, Run, Shape, Granted, Renders
  <2> HIDE DEF r
  <2> QED  BY <1>4, <1>6, <2>1, <2>2, <2>3
<1>10. CASE Register(p)
  <2> DEFINE r == [run[p] EXCEPT !.at = IF run[p].cmd = "fetch" THEN "plan" ELSE "load"]
  <2>1. run[p].at = "register" /\ png' = png /\ Becomes(p, r)
    BY <1>10 DEF Register, At, GoesTo
  <2>2. Of(p) \in Archives  BY <1>10, OfIsAnArchive DEF Register, At, Inv
  <2>3. store' \in [Archives -> [source: BOOLEAN, level: 0..Full]]
    BY <1>6, <1>10, <2>2 DEF Register
  <2>4. r \in Run /\ Shape(r) /\ Granted(r)
    BY <1>1, <2>1 DEF old, Run, Shape, Granted, Renders
  <2> HIDE DEF r
  <2> QED  BY <1>4, <2>1, <2>3, <2>4
<1>11. CASE Load(p)
  <2> DEFINE r == [run[p] EXCEPT !.took = @ \cup {Of(p)}]
  <2>1. run[p].at = "load" /\ png' = png /\ Becomes(p, r)
    BY <1>11 DEF Load, At
  <2>2. Of(p) \in Archives  BY <1>11, OfIsAnArchive DEF Load, At, Inv
  <2>3. store' \in [Archives -> [source: BOOLEAN, level: 0..Full]]
    <3>1. store[Of(p)].level \in 0..Full /\ store[Of(p)].level < Full
      BY <1>6, <1>11, <2>2 DEF Load
    <3>2. store[Of(p)].level + 1 \in 0..Full  BY <3>1 DEF CommandsAssumption
    <3>3. store' = [store EXCEPT ![Of(p)].level = @ + 1]  BY <1>11 DEF Load
    <3> QED  BY <1>6, <2>2, <3>2, <3>3
  <2>4. Of(p) \in Remote => Of(p) \in run[p].granted
    <3>1. CASE run[p].cmd \in Renders
      <4>1. Of(p) = run[p].of  BY <3>1 DEF Of, Renders
      <4> QED  BY <1>1, <2>1, <3>1, <4>1 DEF old, Granted
    <3>2. CASE run[p].cmd = "fetch" /\ run[p].lacks # {}
      <4>1. Of(p) \in run[p].lacks
        BY <1>1, <2>1, <3>2 DEF old, Of, Run, Archives
      <4> QED  BY <1>1, <2>1, <3>2, <4>1 DEF old, Granted
    <3> QED  BY <1>1, <2>1, <3>1, <3>2 DEF old, Shape
  <2>5. r \in Run  BY <1>1, <2>2 DEF old, Run
  <2>6. /\ r.at = run[p].at /\ r.cmd = run[p].cmd /\ r.of = run[p].of
        /\ r.lacks = run[p].lacks /\ r.granted = run[p].granted /\ r.from = run[p].from
        /\ r.contacted = run[p].contacted /\ r.took = run[p].took \cup {Of(p)}
    BY <1>1 DEF old, Run
  <2>7. Shape(r)  BY <1>1, <2>6 DEF old, Shape
  <2>8. Granted(r)  BY <1>1, <2>4, <2>6 DEF old, Granted
  <2> HIDE DEF r
  <2> QED  BY <1>4, <2>1, <2>3, <2>5, <2>7, <2>8
<1>12. CASE FillReturns(p)
  <2> DEFINE r == [run[p] EXCEPT !.at = "open", !.filled = TRUE]
  <2>1. /\ run[p].at = "load" /\ run[p].cmd \in Renders
        /\ store' = store /\ png' = png /\ Becomes(p, r)
    BY <1>12 DEF FillReturns, At
  <2>2. r \in Run /\ Shape(r) /\ Granted(r)
    BY <1>1, <2>1 DEF old, Run, Shape, Granted, Renders
  <2> HIDE DEF r
  <2> QED  BY <1>4, <1>6, <2>1, <2>2
<1>13. CASE FillFails(p)
  <2> DEFINE r == [run[p] EXCEPT !.at = "open"]
  <2>1. /\ run[p].at \in {"contact", "register", "load"} /\ run[p].cmd \in Renders
        /\ store' = store /\ png' = png /\ Becomes(p, r)
    BY <1>13 DEF FillFails, GoesTo
  <2>2. r \in Run /\ Shape(r) /\ Granted(r)
    BY <1>1, <2>1 DEF old, Run, Shape, Granted, Renders
  <2> HIDE DEF r
  <2> QED  BY <1>4, <1>6, <2>1, <2>2
<1>14. CASE Open(p)
  <2> DEFINE r == [run[p] EXCEPT !.of = run[p].after, !.after = "none",
                           !.at = IF run[p].after # "none" THEN "offer"
                                  ELSE IF run[p].from = "archive" THEN "archive"
                                  ELSE "draw"]
  <2>1. /\ run[p].at = "open" /\ store' = store /\ png' = png
        /\ Ends(p, "no store") \/ Ends(p, "failed") \/ Becomes(p, r)
    BY <1>14 DEF Open, At
  <2>2. r \in Run /\ Shape(r) /\ Granted(r)
    <3>1. run[p].cmd \in Renders  BY <1>1, <2>1 DEF old, Shape
    <3>2. r \in Run
      <4> DEFINE at == IF run[p].after # "none" THEN "offer"
                       ELSE IF run[p].from = "archive" THEN "archive" ELSE "draw"
      <4>1. at \in {"offer", "archive", "draw"}  OBVIOUS
      <4>2. r = [run[p] EXCEPT !.of = run[p].after, !.after = "none", !.at = at]
        OBVIOUS
      <4> HIDE DEF at, r
      <4> QED  BY <1>1, <4>1, <4>2 DEF old, Run
    <3>3. /\ r.cmd = run[p].cmd /\ r.from = run[p].from /\ r.granted = run[p].granted
          /\ r.contacted = run[p].contacted /\ r.took = run[p].took
          /\ r.of = run[p].after
          /\ r.at = IF run[p].after # "none" THEN "offer"
                    ELSE IF run[p].from = "archive" THEN "archive" ELSE "draw"
      BY <1>1 DEF old, Run
    <3> HIDE DEF r
    <3>4. Shape(r)  BY <3>1, <3>3 DEF Shape
    <3>5. Granted(r)  BY <1>1, <3>1, <3>3 DEF old, Granted, Renders
    <3> QED  BY <3>2, <3>4, <3>5
  <2> HIDE DEF r
  <2> QED  BY <1>4, <1>5, <1>6, <2>1, <2>2
<1>15. CASE ReadArchive(p)
  <2> DEFINE r == [[run[p] EXCEPT !.contacted = @ \cup ({"map"} \cap Remote)]
                      EXCEPT !.at = "draw"]
  <2>1. /\ run[p].at = "archive" /\ store' = store /\ png' = png
        /\ \/ Ends(p, "failed")
           \/ Ends(p, "ok")
           \/ run[p].cmd # "read" /\ Becomes(p, r)
    BY <1>15, Zenon DEF ReadArchive, At
  <2>2. CASE run[p].cmd # "read" /\ Becomes(p, r)
    <3>0. run[p].from = "archive"  BY <1>1, <2>1, <2>2 DEF old, Shape
    <3>1. r \in Run /\ r.at = "draw" /\ r.cmd = run[p].cmd /\ r.from = "archive"
          /\ r.granted = run[p].granted /\ r.took = run[p].took
          /\ r.contacted = run[p].contacted \cup ({"map"} \cap Remote)
      BY <1>1, <2>1, <3>0 DEF old, Run, Archives
    <3>2. run[p].cmd \in Renders
      BY <1>1, <2>1, <2>2 DEF old, Run, Shape
    <3>3. Shape(r) /\ Granted(r)
      BY <1>1, <2>1, <3>0, <3>1, <3>2 DEF old, Shape, Granted, Renders
    <3> HIDE DEF r
    <3> QED  BY <1>4, <1>6, <2>1, <2>2, <3>1, <3>3
  <2> QED  BY <1>5, <2>1, <2>2
<1>16. CASE Draw(p)
  <2> DEFINE r == [run[p] EXCEPT !.at = "create"]
  <2>1. /\ run[p].at = "draw" /\ store' = store /\ png' = png
        /\ Ends(p, "interrupted") \/ Ends(p, "failed") \/ Becomes(p, r)
    BY <1>16 DEF Draw, At, GoesTo
  <2>2. r \in Run /\ Shape(r) /\ Granted(r)
    BY <1>1, <2>1 DEF old, Run, Shape, Granted, Renders
  <2> HIDE DEF r
  <2> QED  BY <1>4, <1>5, <1>6, <2>1, <2>2
<1>17. CASE Create(p)
  <2>1. run[p].at = "create" /\ store' = store  BY <1>17 DEF Create, At
  <2>2. CASE Ends(p, "failed") /\ png' = png  BY <1>5, <2>1, <2>2
  <2>3. CASE GoesTo(p, "encode") /\ png' = [png EXCEPT ![p].partial = "half"]
    <3> DEFINE r == [run[p] EXCEPT !.at = "encode"]
    <3>1. r \in Run /\ Shape(r) /\ Granted(r) /\ r.at = "encode"
      BY <1>1, <2>1 DEF old, Run, Shape, Granted, Renders
    <3>2. Becomes(p, r)  BY <2>3 DEF GoesTo
    <3>3. run'[p] = r  BY <1>2, <3>2 DEF Becomes, TypeOK
    <3> HIDE DEF r
    <3>4. Keeps /\ \A q \in Procs : q # p => run'[q] = run[q]
      BY <3>1, <3>2, OneBecomes, OthersStay DEF Keeps
    <3>5. ImageIsWhole'
      BY <1>2, <2>3, <3>1, <3>3, <3>4 DEF ImageIsWhole, TypeOK
    <3>6. TypeOK'  BY <1>2, <2>1, <2>3, <3>4 DEF TypeOK, Keeps
    <3> QED  BY <3>4, <3>5, <3>6 DEF Inv, Keeps
  <2> QED  BY <1>17, <2>2, <2>3 DEF Create
<1>18. CASE Rename(p)
  <2>1. run[p].at = "encode" /\ store' = store  BY <1>18 DEF Rename, At
  <2>2. PICK how \in {"ok", "failed"} : Ends(p, how)  BY <1>18 DEF Rename
  <2>3. Keeps /\ \A q \in Procs : q # p => run'[q] = run[q]
    BY <2>2, OneEnds, OthersStay DEF Keeps, Ends
  <2>4. /\ png' \in [Procs -> [out: {"none", "half", "whole"},
                               partial: {"none", "half", "left"}]]
        /\ png'[p].out # "half" /\ png'[p].partial # "half"
        /\ \A q \in Procs : q # p => png'[q] = png[q]
    BY <1>2, <1>18 DEF Rename, TypeOK, ImageIsWhole
  <2>5. ImageIsWhole'  BY <1>2, <2>3, <2>4 DEF ImageIsWhole
  <2>6. TypeOK'  BY <1>2, <2>1, <2>3, <2>4 DEF TypeOK, Keeps
  <2> QED  BY <2>3, <2>5, <2>6 DEF Inv, Keeps
<1>19. CASE Plan(p)
  <2> DEFINE r == [run[p] EXCEPT !.of = run[p].after, !.after = "none",
                !.at = IF run[p].after = "none" THEN "decide" ELSE "contact",
                !.lacks = IF store[run[p].of].level < Full THEN @ \cup {run[p].of} ELSE @]
  <2>1. /\ run[p].at = "plan" /\ store' = store /\ png' = png
        /\ Of(p) = run[p].of /\ run[p].of \in Archives
    BY <1>1, <1>19 DEF Plan, At, Of, old, Run, Shape
  <2>2. Ends(p, "interrupted") \/ Becomes(p, r)  BY <1>19, <2>1 DEF Plan
  <2>3. r \in Run /\ Shape(r) /\ Granted(r)
    BY <1>1, <2>1 DEF old, Run, Shape, Granted, Renders
  <2> HIDE DEF r
  <2> QED  BY <1>4, <1>5, <1>6, <2>1, <2>2, <2>3
<1>20. CASE Decide(p)
  <2> DEFINE r1 == [run[p] EXCEPT !.at = "load", !.granted = @ \cup run[p].lacks]
             r2 == [run[p] EXCEPT !.at = "confirm"]
  <2>1. run[p].at = "decide" /\ store' = store /\ png' = png  BY <1>20 DEF Decide, At
  <2>2. \/ Ends(p, "ok")
        \/ run[p].lacks # {} /\ (Becomes(p, r1) \/ Becomes(p, r2))
    BY <1>20 DEF Decide, GoesTo
  <2>3. run[p].lacks # {} => r2 \in Run /\ Shape(r2) /\ Granted(r2)
    BY <1>1, <2>1 DEF old, Run, Shape, Granted, Renders
  <2>4. run[p].lacks # {} => r1 \in Run /\ Shape(r1) /\ Granted(r1)
    BY <1>1, <2>1 DEF old, Run, Shape, Granted, Renders
  <2> HIDE DEF r1, r2
  <2> QED  BY <1>4, <1>5, <1>6, <2>1, <2>2, <2>3, <2>4
<1>21. CASE Confirm(p)
  <2> DEFINE r == [run[p] EXCEPT !.at = "load", !.granted = @ \cup run[p].lacks]
  <2>1. /\ run[p].at = "confirm" /\ store' = store /\ png' = png
        /\ Ends(p, "ok") \/ Becomes(p, r)
    BY <1>21 DEF Confirm, At
  <2>2. run[p].lacks # {} => r \in Run /\ Shape(r) /\ Granted(r)
    BY <1>1, <2>1 DEF old, Run, Shape, Granted, Renders
  <2>3. run[p].lacks # {}  BY <1>1, <2>1 DEF old, Shape
  <2> HIDE DEF r
  <2> QED  BY <1>4, <1>5, <1>6, <2>1, <2>2, <2>3
<1>22. CASE FetchReturns(p)
  <2> DEFINE r == [run[p] EXCEPT !.lacks = run[p].lacks \ {Of(p)}]
  <2>1. /\ run[p].at = "load" /\ run[p].cmd = "fetch" /\ store' = store /\ png' = png
        /\ Ends(p, "ok") \/ (r.lacks # {} /\ Becomes(p, r))
    BY <1>1, <1>22 DEF FetchReturns, At, old, Run
  <2>2. r.lacks # {} => r \in Run /\ Shape(r) /\ Granted(r)
    BY <1>1, <2>1 DEF old, Run, Shape, Granted, Renders
  <2> HIDE DEF r
  <2> QED  BY <1>4, <1>5, <1>6, <2>1, <2>2
<1>23. CASE FetchFails(p)
  <2>1. /\ run[p].at # "encode" /\ store' = store /\ png' = png
        /\ Ends(p, "failed") \/ Ends(p, "interrupted")
    BY <1>23 DEF FetchFails, Fails
  <2> QED  BY <1>5, <2>1
<1> QED  BY <1>7, <1>8, <1>9, <1>10, <1>11, <1>12, <1>13, <1>14, <1>15, <1>16, <1>17,
            <1>18, <1>19, <1>20, <1>21, <1>22, <1>23 DEF Steps

\* Ctrl-C, or a kill, which may leave a .partial.
LEMMA InterruptKeeps ==
    ASSUME Inv, NEW p \in Procs, Interrupt(p)
    PROVE  Inv'
<1>1. TypeOK /\ ImageIsWhole /\ run[p] \in Run /\ Shape(run[p]) /\ Granted(run[p])
  BY DEF Inv, TypeOK
<1>2. CASE run[p].cancelled
  <2>1. /\ Ends(p, "killed") /\ store' = store
        /\ png' = [png EXCEPT ![p].partial = IF @ = "half" THEN "left" ELSE @]
    BY <1>2 DEF Interrupt
  <2>2. Keeps /\ \A q \in Procs : q # p => run'[q] = run[q]
    BY <2>1, OneEnds, OthersStay DEF Keeps, Ends
  <2>3. ImageIsWhole'  BY <1>1, <2>1, <2>2 DEF ImageIsWhole, TypeOK
  <2>4. TypeOK'  BY <1>1, <2>1, <2>2 DEF TypeOK, Keeps
  <2> QED  BY <2>2, <2>3, <2>4 DEF Inv, Keeps
<1>3. CASE ~run[p].cancelled
  <2> DEFINE r == [run[p] EXCEPT !.cancelled = TRUE]
  <2>1. Becomes(p, r) /\ store' = store /\ png' = png
    BY <1>3 DEF Interrupt
  <2>a. r \in Run  BY <1>1 DEF Run
  <2>b. /\ r.at = run[p].at /\ r.cmd = run[p].cmd /\ r.from = run[p].from
        /\ r.of = run[p].of /\ r.after = run[p].after /\ r.yes = run[p].yes
        /\ r.dry = run[p].dry /\ r.stdin = run[p].stdin
        /\ r.granted = run[p].granted /\ r.contacted = run[p].contacted
        /\ r.took = run[p].took /\ r.lacks = run[p].lacks
    BY <1>1 DEF Run
  <2>2. r \in Run /\ Shape(r) /\ Granted(r) /\ r.at = run[p].at
    <3> HIDE DEF r
    <3>1. Shape(r)  BY <1>1, <2>b DEF Shape
    <3>2. Granted(r)  BY <1>1, <2>b DEF Granted
    <3> QED  BY <2>a, <2>b, <3>1, <3>2
  <2>3. run'[p] = r  BY <1>1, <2>1 DEF Becomes, TypeOK
  <2> HIDE DEF r
  <2>4. Keeps /\ \A q \in Procs : q # p => run'[q] = run[q]
    BY <2>1, <2>2, OneBecomes, OthersStay DEF Keeps
  <2>5. ImageIsWhole'  BY <1>1, <2>1, <2>2, <2>3, <2>4 DEF ImageIsWhole
  <2>6. TypeOK'  BY <1>1, <2>1, <2>4 DEF TypeOK, Keeps
  <2> QED  BY <2>4, <2>5, <2>6 DEF Inv, Keeps
<1> QED  BY <1>2, <1>3

THEOREM NextIsGood == CommandsAssumption /\ Inv /\ [Next]_vars => Inv'
<1> SUFFICES ASSUME CommandsAssumption, Inv, [Next]_vars PROVE Inv'  OBVIOUS
<1>1. CASE UNCHANGED vars
  BY <1>1 DEF vars, Inv, TypeOK, ImageIsWhole, Shape, Granted
<1>2. ASSUME NEW p \in Procs, NEW i \in Asked[p], Begin(p, i) PROVE Inv'
  <2>1. Keeps /\ store' = store /\ png' = png /\ run[p].at = "idle"
    BY <1>2, BeginKeeps
  <2>2. \A q \in Procs : q # p => run'[q] = run[q]
    BY <1>2, OthersStay DEF Begin
  <2>3. ImageIsWhole'  BY <2>1, <2>2, ImagesStay
  <2>4. TypeOK'  BY <2>1 DEF TypeOK, Keeps, Inv
  <2> QED  BY <2>1, <2>3, <2>4 DEF Inv, Keeps
<1> QED  BY <1>1, <1>2, StepKeeps, InterruptKeeps DEF Next

LEMMA InvAlways == CommandsAssumption /\ Spec => []Inv
<1>1. CommandsAssumption /\ Init => Inv  BY InitIsGood
<1>2. CommandsAssumption /\ Inv /\ [Next]_vars => Inv'  BY NextIsGood
<1> QED  BY <1>1, <1>2, CommandsAssumption, PTL DEF Spec

\* The types, for any processes and command lines.
THEOREM CommandTypeCorrect == Spec => []TypeOK
<1>1. Inv => TypeOK  BY DEF Inv
<1> QED  BY <1>1, InvAlways, CommandsAssumption, PTL

\* No command, whatever is asked of it beside whichever others, contacts a host
\* before a yes that named it, but the fetch that plans (offer.go:43).
THEOREM OnlyTheGrantedAreTold == Spec => []ReadsOnlyGranted
<1>1. Inv => ReadsOnlyGranted  BY DEF Inv, Granted, ReadsOnlyGranted
<1> QED  BY <1>1, InvAlways, CommandsAssumption, PTL

\* The image's own name never has half an image (render.go, writePNG).
THEOREM ImagesAreWhole == Spec => []ImageIsWhole
<1>1. Inv => ImageIsWhole  BY DEF Inv
<1> QED  BY <1>1, InvAlways, CommandsAssumption, PTL
=============================================================================
