---------------------------- MODULE UvTimerProofs ---------------------------
(***************************************************************************)
(* Proofs about CUvTimer, for any clients and any number of timers: a      *)
(* deleted timer is silent, and a new one has a walk to come.              *)
(***************************************************************************)
EXTENDS UvTimer, DataLemmas

\* A client holds the timer it adds until it has sent the trigger.
ClientSafe(c) ==
    /\ cpc[c] = "idle" => cTimer[c] = End
    /\ cpc[c] = "send" => cTimer[c] \in Timers

\* A trigger is pending only once the handle is initialised, which the
\* thread does before it first polls.
AsyncSafe ==
    /\ pending => asyncInit
    /\ asyncInit => lpc \notin {"none", "start", "entered", "ended"}
    /\ ~mbInit => lpc = "none"

IInv ==
    /\ DeletedIsSilent /\ NewTimerIsSeen /\ AsyncSafe
    /\ lpc = "callback" => iter \in Timers
    /\ \A c \in Clients : ClientSafe(c)

-----------------------------------------------------------------------------
(* The walk. *)

\* The walk meets every element past the one it is at.
LEMMA AfterMeets ==
    ASSUME NEW S \in SUBSET Timers, NEW t \in 0..End
    PROVE  /\ After(S, t) \in Timers \cup {End}
           /\ After(S, t) \in Timers => After(S, t) \in S
           /\ \A v \in S : v > t => After(S, t) <= v
  <1>0. MaxTimers \in Nat /\ Timers = 1..MaxTimers /\ End = MaxTimers + 1
    BY TimersAssumption DEF Timers, End
  <1>1. CASE \E u \in S : u > t
    <2> DEFINE T == {u \in S : u > t}
    <2>1. T \in SUBSET Timers /\ T # {}
      BY <1>1
    <2>2. \E u \in T : \A v \in T : u <= v
      <3>1. T \in SUBSET Nat
        BY <1>0, <2>1
      <3> QED BY <2>1, <3>1, LeastNat
    <2>3. \E u \in S : u > t /\ \A v \in S : v > t => u <= v
      BY <2>2
    <2>4. After(S, t) = CHOOSE u \in S : u > t /\ \A v \in S : v > t => u <= v
      BY <1>1 DEF After
    <2> QED BY <2>3, <2>4, Zenon
  <1>2. CASE ~(\E u \in S : u > t)
    BY <1>0, <1>2 DEF After
  <1> QED BY <1>1, <1>2

\* The elements of the map are timers.
LEMMA PresentTimers == Present \in SUBSET Timers
  BY DEF Present

-----------------------------------------------------------------------------
(* The steps. *)

LEMMA InitSafe == ASSUME Init PROVE IInv
  <1> USE DEF Init
  <1>1. TypeOK
    <2>1. End \in Timers \cup {End}
      OBVIOUS
    <2> QED BY <2>1 DEF TypeOK
  <1>2. DeletedIsSilent
    BY <1>1 DEF DeletedIsSilent
  <1>3. NewTimerIsSeen /\ AsyncSafe
    BY DEF NewTimerIsSeen, AsyncSafe
  <1> QED BY <1>2, <1>3 DEF IInv, ClientSafe

\* AddTimer's timer is its client's until the trigger is sent.
LEMMA AddTimerSafe == ASSUME IInv, NEW c \in Clients, AddTimer(c) PROVE IInv'
  <1>0. TypeOK /\ MutexFree /\ cpc[c] = "idle" /\ UNCHANGED <<mbInit, asyncInit, pending, lpc, iter>>
    BY DEF IInv, DeletedIsSilent, AddTimer, async
  <1>1. PICK t \in Timers \ Present :
            /\ iState' = [iState EXCEPT ![t] = "NONE"]
            /\ handle' = [handle EXCEPT ![t] = "raw"]
            /\ cTimer' = [cTimer EXCEPT ![c] = t]
            /\ early' = early \ {t} /\ skipped' = skipped \ {t}
    BY DEF AddTimer
  <1>2. cpc' = [cpc EXCEPT ![c] = "send"]
    BY DEF AddTimer
  <1>3. TypeOK'
    BY <1>0, <1>1, <1>2 DEF TypeOK
  <1>4. DeletedIsSilent'
    BY <1>0, <1>1, <1>3 DEF TypeOK, IInv, DeletedIsSilent, MutexFree
  <1>5. \A d \in Clients : ClientSafe(d)'
    BY <1>0, <1>1, <1>2 DEF TypeOK, IInv, ClientSafe
  <1>6. NewTimerIsSeen'
    <2> SUFFICES ASSUME NEW v \in Timers, iState'[v] = "NONE"
                 PROVE  \/ pending' \/ \E d \in Clients : cTimer'[d] = v
                        \/ lpc' = "handle" /\ iter' <= v
                        \/ v \in early' \cup skipped'
                        \/ lpc' \in {"hung", "crashed"}
      BY DEF NewTimerIsSeen
    <2>1. CASE v = t
      <3>1. cTimer'[c] = v
        BY <1>0, <1>1, <2>1 DEF TypeOK
      <3> QED BY <3>1
    <2>2. CASE v # t
      <3>1. iState[v] = "NONE"
        BY <1>0, <1>1, <2>2 DEF TypeOK
      <3>2. \A d \in Clients : cTimer[d] = v => cTimer'[d] = v
        <4>1. cTimer[c] # v
          BY <1>0, TimersAssumption DEF IInv, ClientSafe, Timers, End
        <4> QED BY <1>0, <1>1, <4>1 DEF TypeOK
      <3> QED BY <1>0, <1>1, <2>2, <3>1, <3>2 DEF IInv, NewTimerIsSeen
    <2> QED BY <2>1, <2>2
  <1>7. AsyncSafe' /\ (lpc' = "callback" => iter' \in Timers)
    BY <1>0 DEF IInv, AsyncSafe
  <1> QED BY <1>4, <1>5, <1>6, <1>7 DEF IInv

LEMMA AddSendSafe == ASSUME IInv, NEW c \in Clients, AddSend(c) PROVE IInv'
  <1>0. TypeOK /\ cpc[c] = "send" /\ cTimer[c] \in Timers
        /\ UNCHANGED <<mbInit, iState, handle, asyncInit, lpc, iter, skipped>>
    BY DEF IInv, DeletedIsSilent, ClientSafe, AddSend, timers
  <1>1. /\ pending' = (pending \/ asyncInit)
        /\ early' = IF asyncInit THEN early ELSE early \cup {cTimer[c]}
        /\ cpc' = [cpc EXCEPT ![c] = "idle"]
        /\ cTimer' = [cTimer EXCEPT ![c] = End]
    BY DEF AddSend
  <1>2. pending' \in BOOLEAN
    BY <1>1, Zenon
  <1>3. TypeOK'
    BY <1>0, <1>1, <1>2 DEF TypeOK
  <1>4. DeletedIsSilent'
    BY <1>0, <1>3 DEF IInv, DeletedIsSilent
  <1>5. \A d \in Clients : ClientSafe(d)'
    BY <1>0, <1>1 DEF TypeOK, IInv, ClientSafe
  <1>6. NewTimerIsSeen'
    <2>1. CASE asyncInit
      BY <1>1, <2>1 DEF NewTimerIsSeen
    <2>2. CASE ~asyncInit
      <3>1. early' = early \cup {cTimer[c]} /\ (pending => pending')
        BY <1>1, <2>2
      <3>2. \A v \in Timers : (\E d \in Clients : cTimer[d] = v) =>
                v \in early' \/ \E d \in Clients : cTimer'[d] = v
        BY <1>0, <1>1, <3>1 DEF TypeOK
      <3> QED BY <1>0, <3>1, <3>2 DEF IInv, NewTimerIsSeen
    <2> QED BY <2>1, <2>2
  <1>7. AsyncSafe' /\ (lpc' = "callback" => iter' \in Timers)
    BY <1>0, <1>1 DEF IInv, AsyncSafe
  <1> QED BY <1>4, <1>5, <1>6, <1>7 DEF IInv

LEMMA DelTimerSafe == ASSUME IInv, NEW c \in Clients, DelTimer(c) PROVE IInv'
  <1>0. TypeOK /\ MutexFree
        /\ UNCHANGED <<mbInit, handle, asyncInit, pending, lpc, iter, cpc, cTimer, early, skipped>>
    BY DEF IInv, DeletedIsSilent, DelTimer, async, clients, history
  <1>1. PICK t \in Timers : iState' = [iState EXCEPT ![t] = "STOP"]
    BY DEF DelTimer, Present
  <1>2. TypeOK'
    BY <1>0, <1>1 DEF TypeOK
  <1>3. DeletedIsSilent'
    BY <1>0, <1>1, <1>2 DEF TypeOK, IInv, DeletedIsSilent, MutexFree
  <1>4. NewTimerIsSeen'
    BY <1>0, <1>1 DEF TypeOK, IInv, NewTimerIsSeen
  <1> QED BY <1>0, <1>3, <1>4 DEF IInv, AsyncSafe, ClientSafe

\* Steps of the thread that leave the map and the clients alone.
LEMMA ThreadSafe ==
    ASSUME IInv, TimerInit \/ ThreadEntry \/ OnThreadRun \/ LoopInitFails
                 \/ HandleTimerEnd \/ CallbackDone \/ CallbackReenters \/ (\E t \in Timers : TimerOut(t)) \/ UNCHANGED vars
    PROVE  IInv'
  <1>0. TypeOK /\ UNCHANGED <<iState, cpc, cTimer, early, skipped>>
    BY DEF IInv, DeletedIsSilent, TimerInit, ThreadEntry, OnThreadRun, LoopInitFails,
           HandleTimerEnd, CallbackDone, CallbackReenters, TimerOut, vars, timers, clients, history
  <1>1. CASE \E t \in Timers : TimerOut(t)
    <2>1. PICK t \in Timers :
              /\ lpc = "poll" /\ handle[t] = "active"
              /\ handle' = IF t \in Repeating THEN handle ELSE [handle EXCEPT ![t] = "idle"]
              /\ IF iState[t] = "RUN" THEN lpc' = "callback" /\ iter' = t ELSE UNCHANGED <<lpc, iter>>
              /\ UNCHANGED <<mbInit, asyncInit, pending>>
      BY <1>1 DEF TimerOut, async
    <2>2. TypeOK'
      BY <1>0, <2>1 DEF TypeOK
    <2>3. DeletedIsSilent'
      BY <1>0, <2>1, <2>2 DEF TypeOK, IInv, DeletedIsSilent
    <2>4. NewTimerIsSeen'
      BY <1>0, <2>1 DEF IInv, NewTimerIsSeen
    <2> QED BY <1>0, <2>1, <2>3, <2>4 DEF IInv, AsyncSafe, ClientSafe
  <1>2. CASE TimerInit \/ ThreadEntry \/ OnThreadRun \/ LoopInitFails
    <2> USE DEF TimerInit, ThreadEntry, OnThreadRun, LoopInitFails, timers, async
    <2>1. TypeOK'
      BY <1>0, <1>2 DEF TypeOK
    <2>2. AsyncSafe' /\ ~pending /\ lpc # "handle" /\ lpc \notin {"hung", "crashed"}
      BY <1>2 DEF IInv, AsyncSafe
    <2>3. DeletedIsSilent'
      BY <1>0, <1>2, <2>1 DEF IInv, DeletedIsSilent
    <2>4. NewTimerIsSeen'
      BY <1>0, <2>2 DEF IInv, NewTimerIsSeen
    <2> QED BY <1>0, <1>2, <2>2, <2>3, <2>4 DEF IInv, ClientSafe
  <1>3. CASE HandleTimerEnd \/ CallbackDone \/ CallbackReenters \/ UNCHANGED vars
    <2> USE DEF HandleTimerEnd, CallbackDone, CallbackReenters, vars, timers, async
    <2>1. TypeOK'
      BY <1>0, <1>3 DEF TypeOK
    <2>2. DeletedIsSilent'
      BY <1>0, <1>3, <2>1 DEF IInv, DeletedIsSilent
    <2>3. NewTimerIsSeen'
      <3>1. \A v \in Timers : ~(End <= v)
        BY TimersAssumption DEF Timers, End
      <3> QED BY <1>0, <1>3, <3>1 DEF IInv, NewTimerIsSeen
    <2> QED BY <1>0, <1>3, <2>2, <2>3 DEF IInv, AsyncSafe, ClientSafe
  <1> QED BY <1>1, <1>2, <1>3

\* The walk starts before every element, and steps over none it does not
\* erase the one before.
LEMMA WalkSafe ==
    ASSUME IInv, AsyncCb \/ StartTimer \/ VisitRunning \/ RemoveTimer
    PROVE  IInv'
  <1>0. /\ TypeOK /\ Present \in SUBSET Timers /\ iter \in 0..End /\ 0 \in 0..End
        /\ MaxTimers \in Nat /\ Timers = 1..MaxTimers /\ End = MaxTimers + 1
    BY TimersAssumption, PresentTimers DEF IInv, DeletedIsSilent, TypeOK, Timers, End
  <1>1. UNCHANGED <<mbInit, asyncInit, cpc, cTimer, early>>
    BY DEF AsyncCb, StartTimer, VisitRunning, RemoveTimer, async, clients, history
  <1>2. \A v \in Timers : iState[v] = "NONE" => v \in Present
    BY DEF Present
  <1>3. CASE AsyncCb
    <2>1. iter' = After(Present, 0) /\ lpc' = "handle" /\ ~pending' /\ lpc = "poll"
          /\ UNCHANGED <<iState, handle, skipped>> /\ pending' = FALSE
      BY <1>3 DEF AsyncCb, timers, history
    <2>2. TypeOK'
      BY <1>0, <1>1, <2>1, AfterMeets DEF TypeOK
    <2>3. DeletedIsSilent'
      BY <2>1, <2>2 DEF IInv, DeletedIsSilent
    <2>4. \A v \in Timers : iState[v] = "NONE" => iter' <= v
      BY <1>0, <1>2, <2>1, AfterMeets
    <2> QED BY <1>1, <2>1, <2>3, <2>4 DEF IInv, NewTimerIsSeen, AsyncSafe, ClientSafe
  <1>4. CASE StartTimer \/ VisitRunning
    <2>1. /\ lpc = "handle" /\ lpc' = "handle" /\ iter \in Timers
          /\ iter' = After(Present, iter) /\ pending' = pending
      BY <1>4 DEF StartTimer, VisitRunning, async
    <2>2. /\ \A v \in Timers \ {iter} : iState'[v] = iState[v] /\ handle'[v] = handle[v]
          /\ iState'[iter] = "RUN"
          /\ iState' \in [Timers -> {"absent", "NONE", "RUN", "STOP"}]
          /\ handle' \in [Timers -> {"raw", "idle", "active"}]
          /\ skipped' \in SUBSET Timers /\ skipped \ {iter} \subseteq skipped'
      BY <1>0, <1>4 DEF StartTimer, VisitRunning, TypeOK, timers, history
    <2>3. TypeOK'
      BY <1>0, <1>1, <2>1, <2>2, AfterMeets DEF TypeOK
    <2>4. DeletedIsSilent'
      BY <2>1, <2>2, <2>3 DEF IInv, DeletedIsSilent
    <2>5. NewTimerIsSeen'
      <3> SUFFICES ASSUME NEW v \in Timers, iState'[v] = "NONE"
                   PROVE  \/ pending' \/ \E d \in Clients : cTimer'[d] = v
                          \/ lpc' = "handle" /\ iter' <= v
                          \/ v \in early' \cup skipped'
        BY DEF NewTimerIsSeen
      <3>1. v # iter /\ iState[v] = "NONE" /\ v \in Present
        BY <1>2, <2>2
      <3>2. iter <= v => iter' <= v
        <4> SUFFICES ASSUME iter <= v PROVE iter' <= v
          OBVIOUS
        <4>1. v > iter
          BY <1>0, <2>1, <3>1
        <4> QED BY <1>0, <2>1, <3>1, <4>1, AfterMeets
      <3> QED BY <1>1, <2>1, <2>2, <3>1, <3>2 DEF IInv, NewTimerIsSeen
    <2> QED BY <1>1, <2>1, <2>4, <2>5 DEF IInv, AsyncSafe, ClientSafe
  <1>5. CASE RemoveTimer
    <2> DEFINE n == After(Present, iter)
    <2>1. /\ lpc = "handle" /\ iter \in Timers /\ pending' = pending
          /\ iState' = [iState EXCEPT ![iter] = "absent"]
          /\ handle' = [handle EXCEPT ![iter] = "raw"]
          /\ skipped' = (skipped \cup {n}) \cap {t \in Timers : iState[t] = "NONE"}
      BY <1>5 DEF RemoveTimer, async
    <2>2. /\ n \in Timers \cup {End} /\ n \in 0..End
          /\ \A v \in Present : v > iter => n <= v
      BY <1>0, AfterMeets
    <2> HIDE DEF n
    <2>3. \/ n \in Timers /\ iter' = After(Present, n) /\ lpc' = "handle"
          \/ n = End /\ Present \ {iter} = {} /\ lpc' = "hung" /\ iter' = End
          \/ n = End /\ iter' \in Present \ {iter} /\ lpc' = "handle"
          \/ lpc' = "crashed" /\ iter' = iter
      BY <1>5, <2>1 DEF RemoveTimer, Overrun, n
    <2>4. lpc' \in {"handle", "hung", "crashed"} /\ iter' \in Timers \cup {End}
      <3>1. n \in 0..End => After(Present, n) \in Timers \cup {End}
        BY <1>0, AfterMeets
      <3> QED BY <1>0, <2>1, <2>2, <2>3, <3>1
    <2>5. TypeOK'
      BY <1>0, <1>1, <2>1, <2>4 DEF TypeOK
    <2>6. DeletedIsSilent'
      BY <1>0, <2>1, <2>4, <2>5 DEF TypeOK, IInv, DeletedIsSilent
    <2>7. NewTimerIsSeen'
      <3> SUFFICES ASSUME NEW v \in Timers, iState'[v] = "NONE", lpc' = "handle"
                   PROVE  \/ pending' \/ \E d \in Clients : cTimer'[d] = v
                          \/ lpc' = "handle" /\ iter' <= v
                          \/ v \in early' \cup skipped'
        BY <2>4 DEF NewTimerIsSeen
      <3>1. v # iter /\ iState[v] = "NONE" /\ v \in Present
        BY <1>0, <1>2, <2>1 DEF TypeOK
      <3>2. CASE iter <= v
        <4>1. n <= v
          BY <1>0, <2>1, <2>2, <3>1, <3>2
        <4>2. n # End
          BY <1>0, <4>1
        <4>3. iter' = After(Present, n)
          BY <2>3, <4>2, <1>0
        <4>4. CASE v = n
          BY <2>1, <3>1, <4>4
        <4>5. CASE v # n
          <5>1. v > n
            BY <1>0, <2>2, <4>1, <4>5
          <5> QED BY <1>0, <2>2, <3>1, <4>3, <5>1, AfterMeets
        <4> QED BY <4>4, <4>5
      <3>3. CASE ~(iter <= v)
        <4>1. \/ pending \/ \E d \in Clients : cTimer[d] = v
              \/ v \in early \cup skipped
          BY <2>1, <3>1, <3>3 DEF IInv, NewTimerIsSeen
        <4> QED BY <1>1, <2>1, <3>1, <4>1
      <3> QED BY <3>2, <3>3
    <2>8. AsyncSafe' /\ ~(lpc' = "callback")
      BY <1>1, <2>1, <2>4 DEF IInv, AsyncSafe
    <2> QED BY <1>1, <2>6, <2>7, <2>8 DEF IInv, ClientSafe
  <1> QED BY <1>3, <1>4, <1>5

\* The invariant of the timer, at every step of its clients and its thread.
THEOREM IInvCorrect == Spec => []IInv
  <1>1. Init => IInv
    BY InitSafe
  <1>2. IInv /\ [Next]_vars => IInv'
    BY AddTimerSafe, AddSendSafe, DelTimerSafe, ThreadSafe, WalkSafe
       DEF Next, TimerThread, HandleTimer
  <1> QED BY <1>1, <1>2, PTL DEF Spec

\* Whatever its clients do and however many timers there are, no callback
\* runs for a timer DelTimer has returned for (UvTimer.cpp:58-67,113-119).
THEOREM DeletedIsSilentCorrect == Spec => []DeletedIsSilent
  <1>1. IInv => DeletedIsSilent
    BY DEF IInv
  <1> QED BY <1>1, IInvCorrect, PTL

\* A timer added among any number of others, while a walk is under way or
\* not, is met by a walk, with the exceptions of the property
\* (UvTimer.cpp:69-103).
THEOREM NewTimerIsSeenCorrect == Spec => []NewTimerIsSeen
  <1>1. IInv => NewTimerIsSeen
    BY DEF IInv
  <1> QED BY <1>1, IInvCorrect, PTL

=============================================================================
