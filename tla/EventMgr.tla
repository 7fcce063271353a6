------------------------------ MODULE EventMgr ------------------------------
(***************************************************************************)
(* CEventMgr: listeners registered under names, under one mutex that is    *)
(* not recursive.  DispatchEvent holds it while it calls every listener    *)
(* there is, whatever name it is given (EventMgr.cpp:54-61), so names only *)
(* tell registrations apart.                                               *)
(*                                                                         *)
(* The application keeps a reference of its own to a listener for as long  *)
(* as it passes it to AddListener.  A registration is a pair of a name and *)
(* a listener; the order in which a dispatch meets them is left open.      *)
(***************************************************************************)
EXTENDS Integers, FiniteSets, RcObject

CONSTANTS
    Threads, Names, Listeners, NULL,
    CallbacksReenter    \* may OnEvent call the manager back?

ASSUME ListenersAssumption == NULL \notin Threads \cup Listeners
ASSUME ReenterAssumption == CallbacksReenter \in BOOLEAN

VARIABLES
    mmapEventListeners,    \* the registrations
    mutex,                 \* the thread that dispatches, if any
    todo,                  \* registrations the dispatch has not reached
    called,                \* the listener whose OnEvent is running
    hung,                  \* is the dispatching thread waiting for itself
    refs, deleted,         \* the listeners' counters
    held,                  \* listeners the application has a reference to
    snapshot, delivered    \* history: of the dispatch under way

dispatch == <<mutex, todo, called, hung>>
objects == <<refs, deleted, held>>
history == <<snapshot, delivered>>
vars == <<mmapEventListeners, dispatch, objects, history>>

Registrations == Names \X Listeners

TypeOK ==
    /\ mmapEventListeners \in SUBSET Registrations
    /\ mutex \in Threads \cup {NULL}
    /\ todo \in SUBSET Registrations
    /\ called \in Listeners \cup {NULL}
    /\ hung \in BOOLEAN
    /\ refs \in [Listeners -> Int] /\ deleted \in SUBSET Listeners
    /\ held \in SUBSET Listeners
    /\ snapshot \in SUBSET Registrations /\ delivered \in SUBSET Registrations

\* The application starts with one reference to each listener.
Init ==
    /\ mmapEventListeners = {}
    /\ mutex = NULL /\ todo = {} /\ called = NULL /\ hung = FALSE
    /\ refs = [l \in Listeners |-> 1] /\ deleted = {} /\ held = Listeners
    /\ snapshot = {} /\ delivered = {}

\* A second registration under the same name is refused and not counted.
AddListener(n, l) ==
    /\ mutex = NULL /\ l \in held
    /\ mmapEventListeners' = mmapEventListeners \cup {<<n, l>>}
    /\ refs' = IF <<n, l>> \in mmapEventListeners THEN refs ELSE REF(refs, l, NULL)
    /\ UNCHANGED <<dispatch, deleted, held, history>>

\* Mutant: without the mutex.
DelListenerUnlocked(l) ==
    LET names == {n \in Names : <<n, l>> \in mmapEventListeners} IN
    /\ names # {}
    /\ mmapEventListeners' = mmapEventListeners \ (names \X {l})
    /\ refs' = [refs EXCEPT ![l] = @ - Cardinality(names)]
    /\ deleted' = deleted \cup (IF refs'[l] <= 0 THEN {l} ELSE {})
    /\ UNCHANGED <<dispatch, held, history>>

\* Every registration of the listener is erased, and dereferenced once each.
DelListener(l) ==
    LET names == {n \in Names : <<n, l>> \in mmapEventListeners} IN
    /\ mutex = NULL /\ names # {}
    /\ mmapEventListeners' = mmapEventListeners \ (names \X {l})
    /\ refs' = [refs EXCEPT ![l] = @ - Cardinality(names)]
    /\ deleted' = deleted \cup (IF refs'[l] <= 0 THEN {l} ELSE {})
    /\ UNCHANGED <<dispatch, held, history>>

\* The application drops its own reference.
Release(l) ==
    /\ l \in held
    /\ held' = held \ {l}
    /\ refs' = UNREF(refs, l, NULL)
    /\ deleted' = deleted \cup Freed(refs, l, NULL)
    /\ UNCHANGED <<mmapEventListeners, dispatch, history>>

DispatchEvent(t) ==
    /\ mutex = NULL
    /\ mutex' = t
    /\ todo' = mmapEventListeners
    /\ snapshot' = mmapEventListeners /\ delivered' = {}
    /\ UNCHANGED <<mmapEventListeners, called, hung, objects>>

OnEvent ==
    /\ mutex # NULL /\ called = NULL
    /\ \E r \in todo :
          /\ called' = r[2]
          /\ todo' = todo \ {r}
          /\ delivered' = delivered \cup {r}
    /\ UNCHANGED <<mmapEventListeners, mutex, hung, objects, snapshot>>

OnEventReturns ==
    /\ called # NULL /\ ~hung
    /\ called' = NULL
    /\ UNCHANGED <<mmapEventListeners, mutex, todo, hung, objects, history>>

\* OnEvent calls AddListener, DelListener or DispatchEvent: its thread waits
\* for the mutex it holds.
OnEventReenters ==
    /\ CallbacksReenter /\ called # NULL
    /\ hung' = TRUE
    /\ UNCHANGED <<mmapEventListeners, mutex, todo, called, objects, history>>

\* Mutant: the mutex is not released.
DispatchEndLocked ==
    /\ mutex # NULL /\ called = NULL /\ todo = {}
    /\ UNCHANGED vars

DispatchEnd ==
    /\ mutex # NULL /\ called = NULL /\ todo = {}
    /\ mutex' = NULL
    /\ UNCHANGED <<mmapEventListeners, todo, called, hung, objects, history>>

Dispatching == OnEvent \/ OnEventReturns \/ DispatchEnd

Next ==
    \/ \E n \in Names, l \in Listeners : AddListener(n, l)
    \/ \E l \in Listeners : DelListener(l) \/ Release(l)
    \/ \E t \in Threads : DispatchEvent(t)
    \/ Dispatching \/ OnEventReenters

Spec == Init /\ [][Next]_vars

\* A dispatch goes on, and a callback that does not call back returns.
FairSpec == Spec /\ WF_vars(Dispatching)

-----------------------------------------------------------------------------
(* Properties. *)

\* A listener's counter is the number of its registrations plus the
\* application's reference, so DelListener's loop of UNREFs cannot delete it
\* half way (EventMgr.cpp:26,34-42).
ListenerRefsExact ==
    \A l \in Listeners :
        refs[l] = Cardinality({r \in mmapEventListeners : r[2] = l})
                + (IF l \in held THEN 1 ELSE 0)

\* OnEvent is called on, and runs on, a listener that exists and that is
\* still registered: a DelListener that has returned keeps it silent
\* (EventMgr.cpp:33-43,53-62).
CalledIsRegistered ==
    called # NULL =>
        called \notin deleted /\ \E n \in Names : <<n, called>> \in mmapEventListeners

\* A dispatch reaches every registration there was when it began and no
\* other, each once: nothing is added or erased under its iterators.
DispatchIsAtomic ==
    mutex # NULL =>
        /\ mmapEventListeners = snapshot
        /\ todo \cap delivered = {} /\ todo \cup delivered = snapshot

\* Registration, counting and dispatch agree in every interleaving of the
\* threads: the mutex is what makes the three true together.
ListenersSafe == TypeOK /\ ListenerRefsExact /\ CalledIsRegistered /\ DispatchIsAtomic

\* Every dispatch ends and gives the mutex back, unless a listener calls the
\* manager from OnEvent.
DispatchEnds == mutex # NULL ~> (mutex = NULL \/ hung)
=============================================================================
