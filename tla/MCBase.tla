------------------------------- MODULE MCBase -------------------------------
(***************************************************************************)
(* The classes of base that keep to themselves, on small instances: the    *)
(* singletons, or what CLog is built on.  A behaviour concerns one of the  *)
(* two, chosen.                                                            *)
(*                                                                         *)
(* Singletons: a block of 3 words instead of 624, and words of 3 bits.     *)
(* LogBase: a default length of 2 instead of 1024, lines of 4 bytes at     *)
(* first instead of 6144.                                                  *)
(***************************************************************************)
EXTENDS Singletons, LogBase

VARIABLE chosen

MCInit ==
    /\ ClsInit /\ BaseInit
    /\ chosen \in {"singletons", "log"}
    /\ chosen = "singletons" => part = "buffer"   \* one of the states that look
    /\ chosen = "log" => cls = "event"            \* alike

MCNext ==
    /\ \/ chosen = "singletons" /\ ClsNext /\ UNCHANGED basevars
       \/ chosen = "log" /\ BaseNext /\ UNCHANGED allvars
    /\ UNCHANGED chosen

MCSpec ==
    /\ MCInit /\ [][MCNext]_<<allvars, basevars, chosen>>
    /\ WF_vars(Dispatching)
=============================================================================
