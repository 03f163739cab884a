----------------------------- MODULE MCCommands -----------------------------
(***************************************************************************)
(* An instance of Commands for TLC: one process that draws in every way,   *)
(* attended or not, beside one that fetches and reads archives.            *)
(***************************************************************************)
EXTENDS Commands, TLC

CONSTANTS p1, p2

Answers == {[yes |-> TRUE, stdin |-> "closed"], [yes |-> FALSE, stdin |-> "terminal"],
            [yes |-> FALSE, stdin |-> "pipe"]}

Draws == {i \in Invocations :
             /\ i.cmd \in Renders
             /\ [yes |-> i.yes, stdin |-> i.stdin] \in Answers
             /\ i.named = "store" => i.cmd = "render3d"
             /\ i.terrain \/ i.stdin = "terminal"
             /\ i.named # "archive"
             /\ i.cmd = "render3d" => ~i.yes}

Fetch(terrain, yes, dry, stdin) ==
    [cmd |-> "fetch", named |-> "archive", terrain |-> terrain,
     yes |-> yes, dry |-> dry, stdin |-> stdin]

Fetches == {Fetch(TRUE, FALSE, FALSE, "terminal"), Fetch(FALSE, FALSE, FALSE, "pipe"),
            Fetch(FALSE, TRUE, TRUE, "closed")}
           \cup {i \in Invocations : i.cmd = "read"}

DrawsAndFetches == p1 :> Draws @@ p2 :> Fetches
=============================================================================
