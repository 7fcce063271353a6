------------------------------ MODULE RcObject ------------------------------
(***************************************************************************)
(* The intrusive reference counter every shared object of the library      *)
(* derives from (CRcObject).  A component keeps one function               *)
(* refs \in [Objects -> Int] and one set of the objects already deleted;   *)
(* these operators are the two macros REF and UNREF on that pair.  Each    *)
(* counter has its own mutex, so one increment or decrement is one step.   *)
(***************************************************************************)
EXTENDS Integers

\* miReferCount of freshly constructed objects.
NewRefs(Objects) == [o \in Objects |-> 0]

\* REF(X): IncRef() unless X is NULL.
REF(refs, X, NULL) ==
    IF X = NULL THEN refs ELSE [refs EXCEPT ![X] = @ + 1]

\* The counter part of UNREF(X): DecRef() unless X is NULL.
UNREF(refs, X, NULL) ==
    IF X = NULL THEN refs ELSE [refs EXCEPT ![X] = @ - 1]

\* The deletion part of UNREF(X): the objects DODELETE frees, none or X.
Freed(refs, X, NULL) ==
    IF X # NULL /\ refs[X] - 1 <= 0 THEN {X} ELSE {}
=============================================================================
