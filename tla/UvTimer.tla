------------------------------ MODULE UvTimer -------------------------------
(***************************************************************************)
(* CUvTimer: AddTimer and DelTimer, called by any thread, edit a map of    *)
(* timers under a mutex; the timer thread's async callback (HandleTimer)   *)
(* walks the map in address order, starts the new timers and removes the   *)
(* deleted ones; TimerOut runs a timer's callback with the mutex held.     *)
(*                                                                         *)
(* A timer is its address.  The walk erases with erase(iter++) and then    *)
(* increments again, so it steps over the element after an erased one, and *)
(* past the end when the last is erased: what happens then is undefined    *)
(* (UvTimer.cpp:83,73).  UnInit is not modelled.                           *)
(***************************************************************************)
EXTENDS Integers, FiniteSets

CONSTANTS
    Clients,              \* threads that call AddTimer
    Deleters,             \* those that call DelTimer too
    MaxTimers,            \* addresses a timer may be allocated at
    Repeating,            \* addresses whose timer, if any, repeats
    CallbacksUseTimers    \* may a timer callback call AddTimer or DelTimer?

Timers == 1..MaxTimers
End == MaxTimers + 1

ASSUME TimersAssumption == MaxTimers \in Nat \ {0} /\ Repeating \subseteq Timers
ASSUME DeletersAssumption == Deleters \subseteq Clients
ASSUME CallbackAssumption == CallbacksUseTimers \in BOOLEAN

VARIABLES
    mbInit,
    iState,              \* the map: state of each timer, "absent" if not in it
    handle,              \* libuv's handle: "raw" memory, "idle" or "active"
    asyncInit, pending,  \* mstUvAsync
    lpc, iter,           \* the timer thread and the element it is at
    cpc, cTimer,         \* clients between the insertion and uv_async_send
    \* history
    early, skipped       \* timers sent too early, timers the walk stepped over

timers == <<iState, handle>>
async == <<asyncInit, pending>>
clients == <<cpc, cTimer>>
history == <<early, skipped>>
vars == <<mbInit, timers, async, lpc, iter, clients, history>>

TypeOK ==
    /\ mbInit \in BOOLEAN
    /\ iState \in [Timers -> {"absent", "NONE", "RUN", "STOP"}]
    /\ handle \in [Timers -> {"raw", "idle", "active"}]
    /\ asyncInit \in BOOLEAN /\ pending \in BOOLEAN
    /\ lpc \in {"none", "start", "entered", "ended", "poll", "handle", "callback",
                "hung", "crashed"}
    /\ iter \in Timers \cup {End}
    /\ cpc \in [Clients -> {"idle", "send"}]
    /\ cTimer \in [Clients -> Timers \cup {End}]
    /\ early \in SUBSET Timers /\ skipped \in SUBSET Timers

Init ==
    /\ mbInit = FALSE
    /\ iState = [t \in Timers |-> "absent"]
    /\ handle = [t \in Timers |-> "raw"]
    /\ asyncInit = FALSE /\ pending = FALSE
    /\ lpc = "none" /\ iter = End
    /\ cpc = [c \in Clients |-> "idle"]
    /\ cTimer = [c \in Clients |-> End]
    /\ early = {} /\ skipped = {}

Present == {t \in Timers : iState[t] # "absent"}

\* The map's order: the first element of S after t, or the end.
After(S, t) ==
    IF \E u \in S : u > t THEN CHOOSE u \in S : u > t /\ \A v \in S : v > t => u <= v
    ELSE End

\* Clients wait for mcMapTimerMutex while the timer thread holds it.
MutexFree == lpc \notin {"handle", "callback", "hung", "crashed"}
Running == lpc # "crashed"

-----------------------------------------------------------------------------
(* Clients. *)

\* Init: the flag is set before the thread is created.
TimerInit ==
    /\ ~mbInit
    /\ mbInit' = TRUE
    /\ lpc' = "start"
    /\ UNCHANGED <<timers, async, iter, clients, history>>

\* The map part of AddTimer; the memory may be that of an earlier timer.
AddTimer(c) ==
    /\ MutexFree /\ mbInit /\ cpc[c] = "idle"
    /\ \E t \in Timers \ Present :
          /\ iState' = [iState EXCEPT ![t] = "NONE"]
          /\ handle' = [handle EXCEPT ![t] = "raw"]
          /\ cTimer' = [cTimer EXCEPT ![c] = t]
          /\ early' = early \ {t} /\ skipped' = skipped \ {t}
    /\ cpc' = [cpc EXCEPT ![c] = "send"]
    /\ UNCHANGED <<mbInit, async, lpc, iter>>

\* Mutant: the timer thread is not triggered.
AddSendSilent(c) ==
    /\ Running /\ cpc[c] = "send"
    /\ cpc' = [cpc EXCEPT ![c] = "idle"]
    /\ cTimer' = [cTimer EXCEPT ![c] = End]
    /\ UNCHANGED <<mbInit, timers, async, lpc, iter, history>>

\* uv_async_send; before uv_async_init it has no effect (or faults).
AddSend(c) ==
    /\ Running /\ cpc[c] = "send"
    /\ pending' = (pending \/ asyncInit)
    /\ early' = IF asyncInit THEN early ELSE early \cup {cTimer[c]}
    /\ cpc' = [cpc EXCEPT ![c] = "idle"]
    /\ cTimer' = [cTimer EXCEPT ![c] = End]
    /\ UNCHANGED <<mbInit, timers, asyncInit, lpc, iter, skipped>>

\* DelTimer, of a handle AddTimer has returned, only marks; nothing wakes the
\* timer thread.
DelTimer(c) ==
    /\ MutexFree /\ c \in Deleters /\ cpc[c] = "idle"
    /\ \E t \in Present :
          /\ \A d \in Clients : cTimer[d] # t
          /\ iState' = [iState EXCEPT ![t] = "STOP"]
    /\ UNCHANGED <<mbInit, handle, async, lpc, iter, clients, history>>

-----------------------------------------------------------------------------
(* The timer thread. *)

\* ThreadEntry: Start() returns as soon as this has happened.
ThreadEntry ==
    /\ lpc = "start"
    /\ lpc' = "entered"
    /\ UNCHANGED <<mbInit, timers, async, iter, clients, history>>

OnThreadRun ==
    /\ lpc = "entered"
    /\ asyncInit' = TRUE /\ pending' = FALSE
    /\ lpc' = "poll"
    /\ UNCHANGED <<mbInit, timers, iter, clients, history>>

\* uv_loop_init fails: the thread ends, and AddTimer goes on taking timers
\* that nothing will start.
LoopInitFails ==
    /\ lpc = "entered"
    /\ lpc' = "ended"
    /\ UNCHANGED <<mbInit, timers, async, iter, clients, history>>

\* The async callback takes the mutex and starts the walk.
AsyncCb ==
    /\ lpc = "poll" /\ pending
    /\ pending' = FALSE
    /\ lpc' = "handle"
    /\ iter' = After(Present, 0)
    /\ UNCHANGED <<mbInit, timers, asyncInit, clients, history>>

StartTimer ==
    /\ lpc = "handle" /\ iter \in Timers /\ iState[iter] = "NONE"
    /\ iState' = [iState EXCEPT ![iter] = "RUN"]
    /\ handle' = [handle EXCEPT ![iter] = "active"]
    /\ iter' = After(Present, iter)
    /\ skipped' = skipped \ {iter}
    /\ UNCHANGED <<mbInit, async, lpc, clients, early>>

\* A running timer is logged as an "Error Timer State" and left alone.
VisitRunning ==
    /\ lpc = "handle" /\ iter \in Timers /\ iState[iter] = "RUN"
    /\ iter' = After(Present, iter)
    /\ UNCHANGED <<mbInit, timers, async, lpc, clients, history>>

\* Incrementing past the end: with an empty map the walk never ends (the end
\* node of the map is its own successor), otherwise it goes on at some element.
Overrun(S) ==
    \/ S = {} /\ lpc' = "hung" /\ iter' = End
    \/ iter' \in S /\ UNCHANGED lpc

\* A deleted timer is closed, its memory freed at once, and its element
\* erased.  Closing a handle that was never initialised, and freeing one the
\* loop is still closing, may bring the program down.
RemoveTimer ==
    LET next == After(Present, iter) IN
    /\ lpc = "handle" /\ iter \in Timers /\ iState[iter] = "STOP"
    /\ iState' = [iState EXCEPT ![iter] = "absent"]
    /\ handle' = [handle EXCEPT ![iter] = "raw"]
    /\ \/ /\ next \in Timers
          /\ iter' = After(Present, next)
          /\ UNCHANGED lpc
       \/ next = End /\ Overrun(Present \ {iter})
       \/ lpc' = "crashed" /\ UNCHANGED iter
    /\ skipped' = (skipped \cup {next}) \cap {t \in Timers : iState[t] = "NONE"}
    /\ UNCHANGED <<mbInit, async, clients, early>>

HandleTimerEnd ==
    /\ lpc = "handle" /\ iter = End
    /\ lpc' = "poll"
    /\ UNCHANGED <<mbInit, timers, async, iter, clients, history>>

\* Mutant: the state is not tested.
TimerOutUntested(t) ==
    /\ lpc = "poll" /\ handle[t] = "active"
    /\ handle' = IF t \in Repeating THEN handle ELSE [handle EXCEPT ![t] = "idle"]
    /\ lpc' = "callback" /\ iter' = t
    /\ UNCHANGED <<mbInit, iState, async, clients, history>>

\* A due timer: its callback runs, with the mutex held, unless it is deleted.
TimerOut(t) ==
    /\ lpc = "poll" /\ handle[t] = "active"
    /\ handle' = IF t \in Repeating THEN handle ELSE [handle EXCEPT ![t] = "idle"]
    /\ IF iState[t] = "RUN" THEN lpc' = "callback" /\ iter' = t ELSE UNCHANGED <<lpc, iter>>
    /\ UNCHANGED <<mbInit, iState, async, clients, history>>

CallbackDone ==
    /\ lpc = "callback"
    /\ lpc' = "poll" /\ iter' = End
    /\ UNCHANGED <<mbInit, timers, async, clients, history>>

\* The callback calls AddTimer or DelTimer: the mutex is not recursive.
CallbackReenters ==
    /\ CallbacksUseTimers /\ lpc = "callback"
    /\ lpc' = "hung"
    /\ UNCHANGED <<mbInit, timers, async, iter, clients, history>>

-----------------------------------------------------------------------------
HandleTimer == StartTimer \/ VisitRunning \/ RemoveTimer \/ HandleTimerEnd

TimerThread ==
    ThreadEntry \/ OnThreadRun \/ LoopInitFails \/ HandleTimer \/ CallbackDone

Next ==
    \/ TimerInit
    \/ \E c \in Clients : AddTimer(c) \/ AddSend(c) \/ DelTimer(c)
    \/ TimerThread \/ AsyncCb \/ CallbackReenters
    \/ \E t \in Timers : TimerOut(t)

Spec == Init /\ [][Next]_vars

\* A handler goes on to its end, callbacks return, a begun AddTimer ends; an
\* iteration of the loop serves the async handle when it is triggered, so due
\* timers do not keep it waiting for ever.
Fairness ==
    /\ WF_vars(TimerThread)
    /\ SF_vars(AsyncCb)
    /\ \A c \in Clients : WF_vars(AddSend(c))

FairSpec == Spec /\ Fairness

-----------------------------------------------------------------------------
(* Properties. *)

\* A callback only runs for a timer DelTimer has not been called on, and
\* DelTimer does not return while it runs: the map's state and the mutex
\* together keep a deleted timer silent (UvTimer.cpp:58-67,113-119).  A
\* handle libuv may fire has its element in the map, so TimerOut never meets
\* the "Timer Not Exist" case of line 65.
DeletedIsSilent ==
    /\ TypeOK
    /\ lpc = "callback" => iState[iter] = "RUN"
    /\ \A t \in Timers : handle[t] = "active" => iState[t] \in {"RUN", "STOP"}

\* A new timer has a walk to come that will start it, except one whose
\* trigger was sent before the handle was initialised (for ever, if the loop
\* could not be) and one an erasing walk stepped over: those wait for the next AddTimer.
NewTimerIsSeen ==
    \A t \in Timers : iState[t] = "NONE" =>
        \/ pending \/ \E c \in Clients : cTimer[c] = t
        \/ lpc = "handle" /\ iter <= t
        \/ t \in early \cup skipped
        \/ lpc \in {"hung", "crashed"}

\* Every timer added is started or deleted, with the exceptions above; the
\* thread being lost in the walk or in a callback that calls back is one.
AddedIsStarted ==
    \A t \in Timers :
        iState[t] = "NONE" ~> \/ iState[t] # "NONE" \/ t \in early \cup skipped
                              \/ lpc \in {"hung", "crashed"}
=============================================================================
