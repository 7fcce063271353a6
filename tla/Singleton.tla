----------------------------- MODULE Singleton ------------------------------
(***************************************************************************)
(* CSingleton<T>: Instance() makes the one T when it is first asked for,   *)
(* by double-checked locking: the pointer is tested without a lock, then   *)
(* again under it.  The pointer is a plain one, so a build may make it     *)
(* visible before what the constructor wrote (StoresReordered).            *)
(*                                                                         *)
(* The instance is never deleted: CGarbo, whose destructor would, has no   *)
(* object (singleton.h:52-53).                                             *)
(***************************************************************************)
EXTENDS Integers, FiniteSets

CONSTANTS
    Users,             \* threads that call Instance
    StoresReordered    \* may the pointer be seen before the object?

ASSUME ReorderedAssumption == StoresReordered \in BOOLEAN

VARIABLES
    mpInstance,     \* is the pointer set
    built,          \* has the constructor's work been done, and seen
    ipc,            \* where each thread is in Instance
    \* history
    allocated,      \* objects allocated so far
    got, unbuilt    \* threads that have returned, and those that did too early

instance == <<mpInstance, built, ipc, allocated, got, unbuilt>>

\* What CUvMutex lets at most one thread be in.
Locked == {"test", "new", "finish", "unlock"}

SingletonInit ==
    /\ mpInstance = FALSE /\ built = FALSE
    /\ ipc = [u \in Users |-> "out"]
    /\ allocated = 0 /\ got = {} /\ unbuilt = {}

Goto(u, pc) == ipc' = [ipc EXCEPT ![u] = pc]

\* The test without the lock; a thread that finds the pointer set returns it.
FirstTest(u) ==
    /\ ipc[u] = "out" /\ u \notin got
    /\ IF mpInstance
       THEN /\ got' = got \cup {u}
            /\ unbuilt' = IF built THEN unbuilt ELSE unbuilt \cup {u}
            /\ UNCHANGED ipc
       ELSE Goto(u, "lock") /\ UNCHANGED <<got, unbuilt>>
    /\ UNCHANGED <<mpInstance, built, allocated>>

\* Mutant: the pointer is not tested again under the lock.
LockUntested(u) ==
    /\ ipc[u] = "lock" /\ \A v \in Users : ipc[v] \notin Locked
    /\ Goto(u, "new")
    /\ UNCHANGED <<mpInstance, built, allocated, got, unbuilt>>

Lock(u) ==
    /\ ipc[u] = "lock" /\ \A v \in Users : ipc[v] \notin Locked
    /\ Goto(u, "test")
    /\ UNCHANGED <<mpInstance, built, allocated, got, unbuilt>>

\* The condition of the while loop.
SecondTest(u) ==
    /\ ipc[u] = "test"
    /\ Goto(u, IF mpInstance THEN "unlock" ELSE "new")
    /\ UNCHANGED <<mpInstance, built, allocated, got, unbuilt>>

\* new T(): the constructor's stores, then the pointer's, or the other way.
New(u) ==
    /\ ipc[u] = "new"
    /\ allocated' = allocated + 1
    /\ \/ built' = TRUE /\ UNCHANGED mpInstance
       \/ StoresReordered /\ mpInstance' = TRUE /\ UNCHANGED built
    /\ Goto(u, "finish")
    /\ UNCHANGED <<got, unbuilt>>

FinishNew(u) ==
    /\ ipc[u] = "finish"
    /\ mpInstance' = TRUE /\ built' = TRUE
    /\ Goto(u, "test")
    /\ UNCHANGED <<allocated, got, unbuilt>>

UnLock(u) ==
    /\ ipc[u] = "unlock"
    /\ got' = got \cup {u}
    /\ Goto(u, "out")
    /\ UNCHANGED <<mpInstance, built, allocated, unbuilt>>

Instance(u) ==
    FirstTest(u) \/ Lock(u) \/ SecondTest(u) \/ New(u) \/ FinishNew(u) \/ UnLock(u)

\* Threads that may use the object.
Ready == got \ unbuilt

-----------------------------------------------------------------------------
(* Properties. *)

InstanceTypeOK ==
    /\ mpInstance \in BOOLEAN /\ built \in BOOLEAN
    /\ ipc \in [Users -> {"out", "lock"} \cup Locked]
    /\ allocated \in Nat
    /\ got \in SUBSET Users /\ unbuilt \in SUBSET got

OneInLock == \A u, v \in Users : ipc[u] \in Locked /\ ipc[v] \in Locked => u = v

\* However many threads ask for the first time at once, one object is made
\* and every thread that has returned got it; a thread got it before it was
\* built only if the build lets the pointer be seen first
\* (singleton.h:56-69).
OneInstance ==
    /\ InstanceTypeOK /\ OneInLock
    /\ allocated <= 1
    /\ got # {} => mpInstance /\ allocated = 1
    /\ mpInstance /\ ~built => StoresReordered /\ \E u \in Users : ipc[u] = "finish"
    /\ unbuilt # {} => StoresReordered
=============================================================================
