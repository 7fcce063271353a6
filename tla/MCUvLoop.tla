------------------------------ MODULE MCUvLoop ------------------------------
(***************************************************************************)
(* UvLoop and UvFile, whose operations are called back by a loop, on small *)
(* instances.  A behaviour concerns one of the two, chosen.                *)
(*                                                                         *)
(* Two calls of CallUv share an object its user holds.  Every method is    *)
(* called on one file, one with and one without a handler on the other.    *)
(***************************************************************************)
EXTENDS UvLoop, UvFile, TLC

CONSTANTS k1, k2, k3, o1, o2, f1, f2

MCCalls == {k1, k2, k3}
MCCbs == {o1, o2}
MCHeld == {o1}
MCCbOf == (k1 :> o1) @@ (k2 :> o1) @@ (k3 :> o2)

MCFiles == {f1, f2}
MCAsked == (f1 :> Methods) @@ (f2 :> {"Open", "Lstat"})

VARIABLE chosen

MCInit ==
    /\ Init /\ FileInit
    /\ chosen \in {"loop", "file"}
    /\ chosen = "file" => miUvRunMode = "default"   \* one of the states that look alike

MCNext ==
    /\ \/ chosen = "loop" /\ Next /\ UNCHANGED filevars
       \/ chosen = "file" /\ FileNext /\ UNCHANGED vars
    /\ UNCHANGED chosen

MCSpec ==
    /\ MCInit /\ [][MCNext]_<<vars, filevars, chosen>>
    /\ Fairness /\ FileFairness
=============================================================================
