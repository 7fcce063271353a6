---------------------------- MODULE TaskService -----------------------------
(***************************************************************************)
(* What a task pool promises its clients, without threads: tasks are given *)
(* out in the order they were submitted, each one once, every one given    *)
(* out is run, and none is run twice.  UvTaskPool implements it as long as *)
(* waits return only on signals.                                           *)
(***************************************************************************)
EXTENDS Sequences, SequencesExt

CONSTANT Tasks

VARIABLES queue,   \* submitted, not given out yet
          given,   \* given out, not run yet
          done     \* run

tsvars == <<queue, given, done>>

TSInit ==
    /\ queue = <<>>
    /\ given = {}
    /\ done = {}

Submit(t) ==
    /\ ~Contains(queue, t) /\ t \notin given \cup done
    /\ queue' = Append(queue, t)
    /\ UNCHANGED <<given, done>>

Give ==
    /\ queue # <<>>
    /\ given' = given \cup {Head(queue)}
    /\ queue' = Tail(queue)
    /\ UNCHANGED done

Run(t) ==
    /\ t \in given
    /\ given' = given \ {t}
    /\ done' = done \cup {t}
    /\ UNCHANGED queue

TSNext == Give \/ \E t \in Tasks : Submit(t) \/ Run(t)

TSSpec == TSInit /\ [][TSNext]_tsvars
=============================================================================
