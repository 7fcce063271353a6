------------------------------- MODULE UvLoop -------------------------------
(***************************************************************************)
(* CUvLoop: a thread that runs a libuv loop, and CallUv, by which any      *)
(* thread has a callback object run on it.  CallUv queues the callback     *)
(* under a mutex and triggers a uv_async handle; the handle's callback     *)
(* moves the whole queue aside and runs it with the mutex released, so a   *)
(* callback may call CallUv again.                                         *)
(*                                                                         *)
(* uv_async_send is a sticky, coalescing trigger: many sends before the    *)
(* loop wakes make one callback, and libuv clears it before the callback.  *)
(***************************************************************************)
EXTENDS Integers, Sequences, SequencesExt, RcObject

CONSTANTS
    Callers,      \* threads other than the loop's
    Loop,         \* the loop's thread
    Calls,        \* the calls of CallUv a behaviour may make
    Cbs,          \* CUvLoopCb objects
    CbOf,         \* the object each call passes
    Held,         \* objects their user keeps a reference to
    NULL,
    RunModes      \* the modes SetRunMode may have chosen

ASSUME ThreadAssumption == Loop \notin Callers
ASSUME CallAssumption == CbOf \in [Calls -> Cbs] /\ Held \subseteq Cbs
ASSUME NullAssumption == NULL \notin Calls \cup Cbs
\* An object passed twice must be kept alive by its user in between.
ASSUME HeldAssumption ==
    \A c, d \in Calls : CbOf[c] = CbOf[d] /\ c # d => CbOf[c] \in Held
ASSUME ModeAssumption == RunModes \subseteq {"default", "once", "nowait"}

VARIABLES
    miUvRunMode,      \* set before StartLoop
    mpUvLoop,         \* is mpUvLoop set
    mqueUvLoopCbs,    \* under mcUvLoopCbsMutex
    queTmp, stTmp,    \* UvCb's locals
    refs, deleted,
    lpc,              \* where the loop's thread is
    cpc, cCall,       \* where each thread is in CallUv, and its call
    owner,            \* the object: "live"; in the destructor, before ("closing")
                      \* or after ("joining") its members are destroyed; "gone"
    asyncInit, pending,  \* mstUvAsync: initialised, triggered
    \* history
    called,           \* calls whose callback was run, in order
    early             \* calls whose send came before uv_async_init

queue == <<mqueUvLoopCbs, queTmp, stTmp>>
objects == <<refs, deleted>>
async == <<asyncInit, pending>>
callers == <<cpc, cCall>>
history == <<called, early>>
loop == <<miUvRunMode, mpUvLoop>>
vars == <<loop, queue, objects, lpc, callers, owner, async, history>>

Threads == Callers \cup {Loop}

TypeOK ==
    /\ miUvRunMode \in RunModes
    /\ mpUvLoop \in BOOLEAN
    /\ mqueUvLoopCbs \in Seq(Calls)
    /\ queTmp \in Seq(Calls)
    /\ stTmp \in Calls \cup {NULL}
    /\ refs \in [Cbs -> Int]
    /\ deleted \in SUBSET Cbs
    /\ lpc \in {"none", "start", "entered", "poll", "take", "run", "callback", "exited",
                "crashed"}
    /\ cpc \in [Threads -> {"idle", "push", "send"}]
    /\ cCall \in [Threads -> Calls \cup {NULL}]
    /\ owner \in {"live", "closing", "joining", "gone"}
    /\ asyncInit \in BOOLEAN /\ pending \in BOOLEAN
    /\ called \in Seq(Calls)
    /\ early \in SUBSET Calls

Init ==
    /\ miUvRunMode \in RunModes
    /\ mpUvLoop = TRUE
    /\ mqueUvLoopCbs = <<>> /\ queTmp = <<>> /\ stTmp = NULL
    /\ refs = [o \in Cbs |-> IF o \in Held THEN 1 ELSE 0]
    /\ deleted = {}
    /\ lpc = "none"
    /\ cpc = [t \in Threads |-> "idle"]
    /\ cCall = [t \in Threads |-> NULL]
    /\ owner = "live"
    /\ asyncInit = FALSE /\ pending = FALSE
    /\ called = <<>>
    /\ early = {}

\* A fault in the loop's thread ends the program.
Running == lpc # "crashed"

-----------------------------------------------------------------------------
(* CallUv, on any thread; on the loop's inside a callback. *)

Made(c) ==
    \/ Contains(mqueUvLoopCbs, c) \/ Contains(queTmp, c) \/ Contains(called, c)
    \/ \E t \in Threads : cCall[t] = c

CallAssert(t, c) ==
    /\ Running /\ owner = "live"
    /\ cpc[t] = "idle"
    /\ t = Loop => lpc = "callback"
    /\ ~Made(c)
    /\ mpUvLoop
    /\ cpc' = [cpc EXCEPT ![t] = "push"]
    /\ cCall' = [cCall EXCEPT ![t] = c]
    /\ UNCHANGED <<loop, queue, objects, lpc, owner, async, history>>

\* Mutant: the reference the queue holds is not counted.
CallPushNoRef(t) ==
    /\ Running
    /\ cpc[t] = "push"
    /\ mqueUvLoopCbs' = Append(mqueUvLoopCbs, cCall[t])
    /\ cpc' = [cpc EXCEPT ![t] = "send"]
    /\ UNCHANGED <<loop, queTmp, stTmp, objects, lpc, cCall, owner, async,
                   history>>

CallPush(t) ==
    /\ Running
    /\ cpc[t] = "push"
    /\ refs' = REF(refs, CbOf[cCall[t]], NULL)
    /\ mqueUvLoopCbs' = Append(mqueUvLoopCbs, cCall[t])
    /\ cpc' = [cpc EXCEPT ![t] = "send"]
    /\ UNCHANGED <<loop, queTmp, stTmp, deleted, lpc, cCall, owner, async,
                   history>>

\* uv_async_send; on a handle that is not initialised yet it has no effect
\* (or faults, which ends the program).
CallSend(t) ==
    /\ Running
    /\ cpc[t] = "send"
    /\ pending' = (pending \/ asyncInit)
    /\ early' = IF asyncInit THEN early ELSE early \cup {cCall[t]}
    /\ cpc' = [cpc EXCEPT ![t] = "idle"]
    /\ cCall' = [cCall EXCEPT ![t] = NULL]
    /\ UNCHANGED <<loop, queue, objects, lpc, owner, asyncInit, called>>

-----------------------------------------------------------------------------
(* The owner. *)

\* StartLoop initialises the handle, then starts the thread.
StartLoop ==
    /\ Running /\ owner = "live" /\ lpc = "none" /\ mpUvLoop
    /\ asyncInit' = TRUE
    /\ pending' = FALSE
    /\ lpc' = "start"
    /\ UNCHANGED <<loop, queue, objects, callers, owner, history>>

\* ~CUvLoop: uv_loop_close fails on a loop with handles and changes nothing,
\* and the pointer is cleared.
Destroy ==
    /\ Running /\ owner = "live" /\ lpc # "start"
    /\ \A t \in Callers : cpc[t] = "idle"
    /\ mpUvLoop' = FALSE
    /\ owner' = "closing"
    /\ UNCHANGED <<miUvRunMode, queue, objects, lpc, callers, async, history>>

\* The queue and its mutex are destroyed, the thread still running; then
\* ~CUvThread joins it.
DestroyMembers ==
    /\ owner = "closing" /\ Running
    /\ owner' = "joining"
    /\ UNCHANGED <<loop, queue, objects, lpc, callers, async, history>>

\* Mutant: the thread is not waited for.
JoinedAtOnce ==
    /\ owner = "joining" /\ lpc # "crashed"
    /\ owner' = "gone"
    /\ UNCHANGED <<loop, queue, objects, lpc, callers, async, history>>

Joined ==
    /\ owner = "joining" /\ lpc \in {"none", "exited"}
    /\ owner' = "gone"
    /\ UNCHANGED <<loop, queue, objects, lpc, callers, async, history>>

-----------------------------------------------------------------------------
(* The loop's thread. *)

\* The thread locks the destroyed mutex, or was holding it: libuv may abort,
\* the queue's memory may be in use again.  When neither is the case it goes
\* on with what the memory holds (TakeCbs, CallPush).
TouchDestroyed ==
    /\ owner = "joining" /\ Running
    /\ lpc = "take" \/ (lpc = "callback" /\ cpc[Loop] = "push")
    /\ lpc' = "crashed"
    /\ UNCHANGED <<loop, queue, objects, callers, owner, async, history>>

\* Up to mbUvThreadInit, which Start waits for.
ThreadEntry ==
    /\ lpc = "start"
    /\ lpc' = "entered"
    /\ UNCHANGED <<loop, queue, objects, callers, owner, async, history>>

\* A destructor may already have cleared the pointer, or be where the object
\* has no OnThreadRun any more.
OnThreadRun ==
    /\ lpc = "entered"
    /\ lpc' \in IF mpUvLoop THEN {"poll"} ELSE {"exited", "crashed"}
    /\ UNCHANGED <<loop, queue, objects, callers, owner, async, history>>

\* uv_run finds the handle triggered, clears it and calls AsyncCb.
AsyncCb ==
    /\ lpc = "poll" /\ pending
    /\ pending' = FALSE
    /\ lpc' = "take"
    /\ UNCHANGED <<loop, queue, objects, callers, owner, asyncInit, history>>

\* An iteration without a trigger: the other modes return after one.
OtherIteration ==
    /\ lpc = "poll" /\ miUvRunMode # "default"
    /\ lpc' = "exited"
    /\ UNCHANGED <<loop, queue, objects, callers, owner, async, history>>

\* UvCb, under the mutex.
TakeCbs ==
    /\ lpc = "take"
    /\ queTmp' = mqueUvLoopCbs
    /\ mqueUvLoopCbs' = <<>>
    /\ lpc' = "run"
    /\ UNCHANGED <<loop, stTmp, objects, callers, owner, async, history>>

\* Mutant: a stack instead of a queue.
UvCallBackLast ==
    /\ lpc = "run" /\ queTmp # <<>>
    /\ stTmp' = Last(queTmp)
    /\ queTmp' = Front(queTmp)
    /\ called' = Append(called, Last(queTmp))
    /\ lpc' = "callback"
    /\ UNCHANGED <<loop, mqueUvLoopCbs, objects, callers, owner, async, early>>

UvCallBack ==
    /\ lpc = "run" /\ queTmp # <<>>
    /\ stTmp' = Head(queTmp)
    /\ queTmp' = Tail(queTmp)
    /\ called' = Append(called, Head(queTmp))
    /\ lpc' = "callback"
    /\ UNCHANGED <<loop, mqueUvLoopCbs, objects, callers, owner, async, early>>

UnrefCb ==
    /\ lpc = "callback" /\ cpc[Loop] = "idle"
    /\ refs' = UNREF(refs, CbOf[stTmp], NULL)
    /\ deleted' = deleted \cup Freed(refs, CbOf[stTmp], NULL)
    /\ stTmp' = NULL
    /\ lpc' = "run"
    /\ UNCHANGED <<loop, mqueUvLoopCbs, queTmp, callers, owner, async, history>>

\* Mutant: the trigger is cleared once more when the batch has been run.
BackendFdClears ==
    /\ lpc = "run" /\ queTmp = <<>>
    /\ lpc' = IF ~mpUvLoop THEN "crashed"
              ELSE IF miUvRunMode = "default" THEN "poll" ELSE "exited"
    /\ pending' = FALSE
    /\ UNCHANGED <<loop, queue, objects, callers, owner, asyncInit, history>>

\* uv_backend_fd(mpUvLoop) faults once the destructor has cleared the pointer.
BackendFd ==
    /\ lpc = "run" /\ queTmp = <<>>
    /\ lpc' = IF ~mpUvLoop THEN "crashed"
              ELSE IF miUvRunMode = "default" THEN "poll" ELSE "exited"
    /\ UNCHANGED <<loop, queue, objects, callers, owner, async, history>>

-----------------------------------------------------------------------------
CallUv(t) == CallPush(t) \/ CallSend(t)

LoopThread ==
    \/ ThreadEntry \/ OnThreadRun \/ AsyncCb \/ TakeCbs \/ UvCallBack \/ UnrefCb \/ BackendFd

Next ==
    \/ \E t \in Threads : CallUv(t) \/ \E c \in Calls : CallAssert(t, c)
    \/ StartLoop \/ Destroy \/ DestroyMembers \/ Joined
    \/ LoopThread \/ OtherIteration \/ TouchDestroyed

Spec == Init /\ [][Next]_vars

\* The loop's thread and a CallUv in progress go on, callbacks return.
Fairness ==
    /\ WF_vars(LoopThread)
    /\ \A t \in Threads : WF_vars(CallUv(t))

FairSpec == Spec /\ Fairness

-----------------------------------------------------------------------------
(* Properties. *)

\* Calls whose reference CallUv has taken and UvCb has not given back.
Outstanding(o) ==
    {c \in Calls : CbOf[c] = o /\ (Contains(mqueUvLoopCbs, c) \/ Contains(queTmp, c) \/ stTmp = c)}

\* The counter of a callback object is the number of calls under way plus
\* its user's reference: REF on the caller's thread and UNREF on the loop's
\* balance (UvLoop.cpp:55,64), and no call under way has a deleted object.
RefCountExact ==
    /\ TypeOK
    /\ \A o \in Cbs :
          /\ refs[o] = Cardinality(Outstanding(o)) + (IF o \in Held THEN 1 ELSE 0)
          /\ o \in deleted => refs[o] = 0

\* A queued call has a wake-up to come: the trigger is set, or UvCb is about
\* to look, or a send is still on its way; except when all that is queued
\* came before StartLoop initialised the handle, or the destructor has brought
\* the program down (UvLoop.cpp:30,65-72).
NoStrandedCall ==
    mqueUvLoopCbs # <<>> =>
        \/ pending \/ lpc = "take"
        \/ \E t \in Threads : cpc[t] = "send"
        \/ \A i \in 1..Len(mqueUvLoopCbs) : mqueUvLoopCbs[i] \in early
        \/ lpc = "crashed"

\* Only a destructor brings the loop's thread down, and it never gets past
\* the join: when the object is gone the thread has ended or was never there.
\* A loop of the default mode that has begun to run does not end, and is
\* waited for for ever, with its members destroyed; one destroyed before that
\* runs no callback (UvLoop.cpp:20-25,59,76-79, UvThread.cpp:9-11,39-47).
DestructorFate ==
    /\ lpc = "crashed" => owner \in {"closing", "joining"} /\ ~mpUvLoop
    /\ owner = "gone" => lpc \in {"none", "exited"}
    /\ lpc = "exited" /\ miUvRunMode = "default" => owner # "live" /\ called = <<>>

\* A loop in the default mode runs every call queued, unless it was sent
\* too early or the loop is destroyed: coalesced triggers lose none.
QueuedIsCalled ==
    \A c \in Calls :
        Contains(mqueUvLoopCbs, c) ~>
            \/ Contains(called, c) \/ c \in early
            \/ owner # "live" \/ miUvRunMode # "default"

CallQ == INSTANCE CallQueue WITH
    waiting <- queTmp \o mqueUvLoopCbs,
    served  <- called

\* Calls are served once each in the order their pushes took the mutex, also
\* when a callback makes new ones while a batch is being run.
ImplementsCallQueue == CallQ!CQSpec
=============================================================================
