----------------------------- MODULE CallQueue ------------------------------
(***************************************************************************)
(* What CUvLoop::CallUv promises, without threads or handles: every call   *)
(* posted is served once, in the order of posting.                         *)
(***************************************************************************)
EXTENDS Sequences, SequencesExt

CONSTANT Calls

VARIABLES waiting,   \* posted, not served yet, in order
          served     \* served, in order

cqvars == <<waiting, served>>

CQInit == waiting = <<>> /\ served = <<>>

Post(c) ==
    /\ ~Contains(waiting, c) /\ ~Contains(served, c)
    /\ waiting' = Append(waiting, c)
    /\ UNCHANGED served

Serve ==
    /\ waiting # <<>>
    /\ served' = Append(served, Head(waiting))
    /\ waiting' = Tail(waiting)

CQNext == Serve \/ \E c \in Calls : Post(c)

CQSpec == CQInit /\ [][CQNext]_cqvars
=============================================================================
