---------------------------- MODULE UvLoopProofs ----------------------------
(***************************************************************************)
(* Proofs about UvLoop for any number of callers, calls and callback       *)
(* objects and any mode of the loop.                                       *)
(***************************************************************************)
EXTENDS UvLoop, DataLemmas, FiniteSetTheorems

\* What UvCb has taken and not run yet, then what is queued.
Waiting == queTmp \o mqueUvLoopCbs

\* Locals are set exactly while they are used; UvCb leaves its batch empty.
LocalsInv ==
    /\ \A t \in Threads : cpc[t] # "idle" <=> cCall[t] # NULL
    /\ lpc = "callback" => stTmp # NULL
    /\ stTmp # NULL => lpc \in {"callback", "crashed"}
    /\ lpc \notin {"run", "callback", "crashed"} => queTmp = <<>>

\* A call is in one place: with its thread, once in a queue, or called; and
\* it is made by one thread.
PlaceInv ==
    /\ IsInjective(Waiting)
    /\ \A c \in Calls : Contains(Waiting, c) => ~Contains(called, c)
    /\ stTmp # NULL => Contains(called, stTmp)
    /\ \A t \in Threads : cpc[t] = "push" =>
          ~Contains(Waiting, cCall[t]) /\ ~Contains(called, cCall[t])
    /\ \A t, u \in Threads : cCall[t] # NULL /\ cCall[t] = cCall[u] => t = u

\* Before the handle is initialised, what is queued was sent too early or is
\* about to be sent; after that, NoStrandedCall.
WakeInv ==
    /\ lpc = "none" <=> ~asyncInit
    /\ ~asyncInit => \A c \in Calls : Contains(mqueUvLoopCbs, c) =>
          c \in early \/ \E t \in Threads : cpc[t] = "send" /\ cCall[t] = c
    /\ NoStrandedCall

\* An object is deleted only after its one call.
LifeInv ==
    /\ \A o \in Cbs : IsFiniteSet(Outstanding(o))
    /\ \A o \in deleted :
          o \notin Held /\ \E c \in Calls : CbOf[c] = o /\ Contains(called, c)

IInv == LocalsInv /\ PlaceInv /\ WakeInv /\ LifeInv /\ RefCountExact

-----------------------------------------------------------------------------
(* Type correctness and the locals. *)

LEMMA TypeInit == ASSUME Init PROVE TypeOK /\ LocalsInv
  <1> USE DEF Init
  <1>1. refs \in [Cbs -> Int]
    OBVIOUS
  <1>2. cpc \in [Threads -> {"idle", "push", "send"}] /\ cCall \in [Threads -> Calls \cup {NULL}]
    OBVIOUS
  <1>3. mpUvLoop \in BOOLEAN /\ asyncInit \in BOOLEAN /\ pending \in BOOLEAN
    BY Zenon
  <1>4. mqueUvLoopCbs \in Seq(Calls) /\ queTmp \in Seq(Calls) /\ called \in Seq(Calls)
    OBVIOUS
  <1> QED BY <1>1, <1>2, <1>3, <1>4 DEF TypeOK, LocalsInv

LEMMA TypeStep ==
    ASSUME TypeOK, LocalsInv, [Next]_vars
    PROVE  TypeOK' /\ LocalsInv'
  <1> USE NullAssumption, CallAssumption DEF TypeOK, LocalsInv
  <1>1. CASE UNCHANGED vars
    BY <1>1 DEF vars, loop, queue, objects, callers, async, history
  <1>2. ASSUME NEW t \in Threads, NEW c \in Calls, CallAssert(t, c) PROVE TypeOK' /\ LocalsInv'
    BY <1>2 DEF CallAssert, loop, queue, objects, async, history
  <1>3. ASSUME NEW t \in Threads, CallPush(t) PROVE TypeOK' /\ LocalsInv'
    <2>1. cCall[t] \in Calls /\ CbOf[cCall[t]] \in Cbs
      BY <1>3 DEF CallPush
    <2>2. refs' \in [Cbs -> Int] /\ mqueUvLoopCbs' \in Seq(Calls)
      BY <1>3, <2>1 DEF CallPush, REF
    <2> QED BY <1>3, <2>2 DEF CallPush, loop, async, history
  <1>4. ASSUME NEW t \in Threads, CallSend(t) PROVE TypeOK' /\ LocalsInv'
    <2>1. cCall[t] \in Calls
      BY <1>4 DEF CallSend
    <2>2. pending' \in BOOLEAN
      BY <1>4, Zenon DEF CallSend
    <2>3. early' \in SUBSET Calls
      BY <1>4, <2>1 DEF CallSend
    <2> QED BY <1>4, <2>2, <2>3 DEF CallSend, loop, queue, objects
  <1>5. CASE StartLoop \/ Destroy \/ DestroyMembers \/ Joined \/ TouchDestroyed
    BY <1>5 DEF StartLoop, Destroy, DestroyMembers, Joined, TouchDestroyed, loop, queue, objects, callers, async, history
  <1>6. CASE ThreadEntry \/ OnThreadRun \/ AsyncCb \/ OtherIteration \/ TakeCbs
    BY <1>6 DEF ThreadEntry, OnThreadRun, AsyncCb, OtherIteration, TakeCbs, loop, queue, objects, callers,
       async, history
  <1>7. CASE UvCallBack
    <2>1. Head(queTmp) \in Calls /\ Tail(queTmp) \in Seq(Calls)
      BY <1>7 DEF UvCallBack
    <2> QED BY <1>7, <2>1 DEF UvCallBack, loop, objects, callers, async
  <1>8. CASE UnrefCb
    <2>1. stTmp \in Calls /\ CbOf[stTmp] \in Cbs
      BY <1>8 DEF UnrefCb
    <2>2. refs' \in [Cbs -> Int] /\ deleted' \in SUBSET Cbs
      BY <1>8, <2>1 DEF UnrefCb, UNREF, Freed
    <2> QED BY <1>8, <2>2 DEF UnrefCb, loop, callers, async, history
  <1>9. CASE BackendFd
    BY <1>9 DEF BackendFd, loop, queue, objects, callers, async, history
  <1> QED BY <1>1, <1>2, <1>3, <1>4, <1>5, <1>6, <1>7, <1>8, <1>9
          DEF Next, CallUv, LoopThread

-----------------------------------------------------------------------------
(* Facts the steps share. *)

\* The two queues are sequences of calls, and hold what Waiting holds.
LEMMA WaitingContains ==
    ASSUME TypeOK
    PROVE  /\ Waiting \in Seq(Calls)
           /\ \A c : Contains(Waiting, c) <=>
                 Contains(queTmp, c) \/ Contains(mqueUvLoopCbs, c)
  <1>1. queTmp \in Seq(Calls) /\ mqueUvLoopCbs \in Seq(Calls)
    BY DEF TypeOK
  <1> QED BY <1>1, ConcatContains DEF Waiting

LEMMA OutstandingIs ==
    ASSUME TypeOK
    PROVE  \A o \in Cbs : Outstanding(o) =
              {c \in Calls : CbOf[c] = o /\ (Contains(Waiting, c) \/ stTmp = c)}
  BY WaitingContains DEF Outstanding

LEMMA OutstandingNext ==
    TypeOK' => (\A o \in Cbs : Outstanding(o) =
                   {c \in Calls : CbOf[c] = o /\ (Contains(Waiting, c) \/ stTmp = c)})'
  <1>1. TypeOK => \A o \in Cbs : Outstanding(o) =
              {c \in Calls : CbOf[c] = o /\ (Contains(Waiting, c) \/ stTmp = c)}
    BY OutstandingIs
  <1> QED BY <1>1, PTL

\* A step that leaves the queues, the locals of CallUv and what was called
\* alone keeps everything in its place.
LEMMA Unmoved ==
    ASSUME IInv, TypeOK', UNCHANGED <<queue, objects, called>>
    PROVE  LifeInv' /\ RefCountExact' /\ (UNCHANGED callers => PlaceInv')
  <1>1. \A o \in Cbs : Outstanding(o)' = Outstanding(o)
    BY DEF Outstanding, queue
  <1>2. LifeInv'
    BY <1>1 DEF IInv, LifeInv, objects, RefCountExact, TypeOK
  <1>3. RefCountExact'
    BY <1>1 DEF IInv, RefCountExact, objects
  <1>4. UNCHANGED callers => PlaceInv'
    BY DEF IInv, PlaceInv, Waiting, queue, callers
  <1> QED BY <1>2, <1>3, <1>4

\* WakeInv is kept by a step that queues and sends nothing and leaves the
\* handle and the senders alone, unless the loop leaves TakeCbs.
LEMMA WakeKept ==
    ASSUME IInv, UNCHANGED <<mqueUvLoopCbs, cpc, cCall, early, asyncInit, pending>>,
           lpc' = "none" <=> lpc = "none", lpc # "take" \/ lpc' \in {lpc, "crashed"},
           lpc # "crashed" \/ lpc' = lpc
    PROVE  WakeInv'
  <1>1. (lpc = "none" <=> ~asyncInit)'
    BY Zenon DEF IInv, WakeInv
  <1>2. ASSUME ~asyncInit', NEW c \in Calls, Contains(mqueUvLoopCbs, c)'
        PROVE  (c \in early \/ \E t \in Threads : cpc[t] = "send" /\ cCall[t] = c)'
    BY <1>2, Zenon DEF IInv, WakeInv
  <1>3. NoStrandedCall'
    BY DEF IInv, WakeInv, NoStrandedCall
  <1> QED BY <1>1, <1>2, <1>3, Zenon DEF WakeInv

-----------------------------------------------------------------------------
(* CallUv. *)

LEMMA AssertStep ==
    ASSUME IInv, TypeOK', LocalsInv', NEW t \in Threads, NEW c \in Calls, CallAssert(t, c)
    PROVE  IInv'
  <1> USE NullAssumption
  <1>0. TypeOK
    BY DEF IInv, RefCountExact
  <1>1. /\ cpc \in [Threads -> {"idle", "push", "send"}] /\ cpc[t] = "idle"
        /\ cpc' = [cpc EXCEPT ![t] = "push"]
        /\ cCall \in [Threads -> Calls \cup {NULL}] /\ cCall' = [cCall EXCEPT ![t] = c]
        /\ UNCHANGED <<queue, objects, called, lpc, asyncInit, pending, early>>
    BY <1>0 DEF CallAssert, TypeOK, async, history
  <1>2. ~Contains(Waiting, c) /\ ~Contains(called, c) /\ \A u \in Threads : cCall[u] # c
    BY <1>0, WaitingContains DEF CallAssert, Made
  <1>3. UNCHANGED <<Waiting, mqueUvLoopCbs, stTmp>>
    BY <1>1 DEF Waiting, queue
  <1>4. PlaceInv'
    <2>1. IsInjective(Waiting)' /\ (\A d \in Calls : Contains(Waiting, d) => ~Contains(called, d))'
          /\ (stTmp # NULL => Contains(called, stTmp))'
      BY <1>1, <1>3 DEF IInv, PlaceInv
    <2>2. ASSUME NEW u \in Threads, cpc'[u] = "push"
          PROVE  ~Contains(Waiting, cCall'[u]) /\ ~Contains(called, cCall'[u])
      <3>1. CASE u = t
        BY <1>1, <1>2, <3>1
      <3>2. CASE u # t
        BY <1>1, <2>2, <3>2 DEF IInv, PlaceInv
      <3> QED BY <3>1, <3>2
    <2>3. ASSUME NEW u \in Threads, NEW v \in Threads, cCall'[u] # NULL, cCall'[u] = cCall'[v]
          PROVE  u = v
      BY <1>1, <1>2, <2>3 DEF IInv, PlaceInv
    <2> QED BY <1>1, <1>3, <2>1, <2>2, <2>3 DEF PlaceInv
  <1>5. \A u \in Threads : /\ cpc[u] = "send" => cpc'[u] = "send" /\ cCall'[u] = cCall[u]
    BY <1>1
  <1>6. WakeInv'
    <2>1. (lpc = "none" <=> ~asyncInit)'
      BY <1>1, Zenon DEF IInv, WakeInv
    <2>2. ASSUME ~asyncInit', NEW d \in Calls, Contains(mqueUvLoopCbs, d)'
          PROVE  (d \in early \/ \E u \in Threads : cpc[u] = "send" /\ cCall[u] = d)'
      BY <1>1, <1>3, <1>5, <2>2, Zenon DEF IInv, WakeInv
    <2>3. NoStrandedCall'
      BY <1>1, <1>3, <1>5, Zenon DEF IInv, WakeInv, NoStrandedCall
    <2> QED BY <2>1, <2>2, <2>3, Zenon DEF WakeInv
  <1>7. LifeInv' /\ RefCountExact'
    BY <1>1, Unmoved
  <1> QED BY <1>4, <1>6, <1>7 DEF IInv

LEMMA PushStep ==
    ASSUME IInv, TypeOK', LocalsInv', NEW t \in Threads, CallPush(t)
    PROVE  IInv'
  <1> USE NullAssumption
  <1> DEFINE c == cCall[t]
             obj == CbOf[c]
  <1>0. TypeOK
    BY DEF IInv, RefCountExact
  <1>1. /\ c \in Calls /\ obj \in Cbs
        /\ cpc \in [Threads -> {"idle", "push", "send"}] /\ cpc[t] = "push"
        /\ cpc' = [cpc EXCEPT ![t] = "send"]
        /\ mqueUvLoopCbs \in Seq(Calls) /\ queTmp \in Seq(Calls)
        /\ mqueUvLoopCbs' = Append(mqueUvLoopCbs, c)
        /\ UNCHANGED <<cCall, queTmp, stTmp, deleted, called, lpc, asyncInit, pending, early>>
    BY <1>0, CallAssumption DEF CallPush, TypeOK, IInv, LocalsInv, async, history
  <1>2. /\ ~Contains(Waiting, c) /\ ~Contains(called, c) /\ stTmp # c
        /\ \A u \in Threads : cCall[u] = c => u = t
    BY <1>1 DEF IInv, PlaceInv
  <1>3. /\ Waiting' = Append(Waiting, c) /\ Waiting \in Seq(Calls)
        /\ \A x : Contains(Waiting, x)' <=> Contains(Waiting, x) \/ x = c
        /\ \A x : Contains(mqueUvLoopCbs, x)' <=> Contains(mqueUvLoopCbs, x) \/ x = c
    <2>1. Waiting' = Append(Waiting, c)
      BY <1>1, ConcatPush DEF Waiting
    <2>2. Waiting \in Seq(Calls)
      BY <1>0, WaitingContains
    <2>3. \A x : Contains(Append(Waiting, c), x) <=> Contains(Waiting, x) \/ x = c
      BY <1>1, <2>2, PushContains
    <2>4. \A x : Contains(Append(mqueUvLoopCbs, c), x) <=> Contains(mqueUvLoopCbs, x) \/ x = c
      BY <1>1, PushContains
    <2>5. \A x : Contains(Waiting, x)' <=> Contains(Append(Waiting, c), x)
      BY <2>1 DEF Contains
    <2>6. \A x : Contains(mqueUvLoopCbs, x)' <=> Contains(Append(mqueUvLoopCbs, c), x)
      BY <1>1 DEF Contains
    <2> QED BY <2>1, <2>2, <2>3, <2>4, <2>5, <2>6
  <1> HIDE DEF c, obj
  <1>4. PlaceInv'
    <2>1. IsInjective(Waiting)'
      BY <1>1, <1>2, <1>3, PushInjective DEF IInv, PlaceInv
    <2>2. \A d \in Calls : Contains(Waiting, d)' => ~Contains(called, d)
      BY <1>2, <1>3 DEF IInv, PlaceInv
    <2>3. ASSUME NEW u \in Threads, cpc'[u] = "push"
          PROVE  ~Contains(Waiting, cCall[u])' /\ ~Contains(called, cCall[u])
      <3>1. u # t /\ cpc[u] = "push"
        BY <1>1, <2>3
      <3>2. cCall[u] # c
        BY <1>2, <3>1
      <3> QED BY <1>1, <1>3, <3>1, <3>2 DEF IInv, PlaceInv
    <2> QED BY <1>1, <2>1, <2>2, <2>3 DEF IInv, PlaceInv
  <1>5. cpc'[t] = "send" /\ cCall'[t] = c
        /\ \A u \in Threads : cpc[u] = "send" => cpc'[u] = "send" /\ cCall'[u] = cCall[u]
    BY <1>1 DEF c
  <1>6. WakeInv'
    <2>1. (lpc = "none" <=> ~asyncInit)'
      BY <1>1, Zenon DEF IInv, WakeInv
    <2>2. ASSUME ~asyncInit', NEW d \in Calls, Contains(mqueUvLoopCbs, d)'
          PROVE  (d \in early \/ \E u \in Threads : cpc[u] = "send" /\ cCall[u] = d)'
      <3>1. CASE d = c
        BY <1>5, <3>1
      <3>2. CASE Contains(mqueUvLoopCbs, d)
        BY <1>1, <1>5, <2>2, <3>2, Zenon DEF IInv, WakeInv
      <3> QED BY <1>3, <2>2, <3>1, <3>2
    <2>3. NoStrandedCall'
      BY <1>5, Zenon DEF NoStrandedCall
    <2> QED BY <2>1, <2>2, <2>3, Zenon DEF WakeInv
  <1>7. ASSUME NEW o \in Cbs
        PROVE  Outstanding(o)' = IF o = obj THEN Outstanding(o) \cup {c} ELSE Outstanding(o)
    <2>1. Outstanding(o) = {d \in Calls : CbOf[d] = o /\ (Contains(Waiting, d) \/ stTmp = d)}
      BY <1>0, OutstandingIs
    <2>2. Outstanding(o)' = {d \in Calls : CbOf[d] = o /\ (Contains(Waiting, d)' \/ stTmp' = d)}
      BY OutstandingNext
    <2> QED BY <1>1, <1>3, <2>1, <2>2 DEF obj
  <1>8. c \notin Outstanding(obj)
    BY <1>0, <1>1, <1>2, OutstandingIs
  <1>9. obj \notin deleted
    BY <1>1, <1>2, HeldAssumption DEF IInv, LifeInv, obj
  <1>10. \A o \in Cbs : IsFiniteSet(Outstanding(o))'
    BY <1>7, FS_AddElement DEF IInv, LifeInv
  <1>11. LifeInv'
    BY <1>1, <1>10 DEF IInv, LifeInv
  <1>12. /\ refs \in [Cbs -> Int] /\ refs' = [refs EXCEPT ![obj] = @ + 1]
    BY <1>0, <1>1 DEF CallPush, REF, TypeOK, c, obj
  <1>13. ASSUME NEW o \in Cbs
         PROVE  /\ refs'[o] = Cardinality(Outstanding(o)') + (IF o \in Held THEN 1 ELSE 0)
                /\ o \in deleted' => refs'[o] = 0
    <2>1. /\ refs[o] = Cardinality(Outstanding(o)) + (IF o \in Held THEN 1 ELSE 0)
          /\ o \in deleted => refs[o] = 0
          /\ IsFiniteSet(Outstanding(o))
      BY DEF IInv, RefCountExact, LifeInv
    <2>2. Cardinality(Outstanding(o)) \in Nat
      BY <2>1, FS_CardinalityType
    <2>3. CASE o = obj
      <3>1. Cardinality(Outstanding(o)') = Cardinality(Outstanding(o)) + 1
        BY <1>7, <1>8, <2>1, <2>3, FS_AddElement
      <3> QED BY <1>1, <1>9, <1>12, <2>1, <2>2, <2>3, <3>1
    <2>4. CASE o # obj
      BY <1>1, <1>7, <1>12, <2>1, <2>4
    <2> QED BY <2>3, <2>4
  <1> QED BY <1>4, <1>6, <1>11, <1>13 DEF IInv, RefCountExact

LEMMA SendStep ==
    ASSUME IInv, TypeOK', LocalsInv', NEW t \in Threads, CallSend(t)
    PROVE  IInv'
  <1> USE NullAssumption
  <1>0. TypeOK
    BY DEF IInv, RefCountExact
  <1>1. /\ cpc \in [Threads -> {"idle", "push", "send"}] /\ cpc[t] = "send"
        /\ cpc' = [cpc EXCEPT ![t] = "idle"]
        /\ cCall \in [Threads -> Calls \cup {NULL}] /\ cCall' = [cCall EXCEPT ![t] = NULL]
        /\ UNCHANGED <<queue, objects, called, lpc, asyncInit>>
    BY <1>0 DEF CallSend, TypeOK
  <1>2. UNCHANGED <<Waiting, mqueUvLoopCbs, stTmp>>
    BY <1>1 DEF Waiting, queue
  <1>3. PlaceInv'
    BY <1>1, <1>2 DEF IInv, PlaceInv
  <1>4. \A u \in Threads \ {t} : cpc'[u] = cpc[u] /\ cCall'[u] = cCall[u]
    BY <1>1
  <1>5. /\ asyncInit => pending' /\ early' = early
        /\ ~asyncInit => early' = early \cup {cCall[t]} /\ (pending' <=> pending)
    BY Zenon DEF CallSend
  <1>6. WakeInv'
    <2>1. (lpc = "none" <=> ~asyncInit)'
      BY <1>1, Zenon DEF IInv, WakeInv
    <2>2. ASSUME ~asyncInit, NEW d \in Calls, Contains(mqueUvLoopCbs, d)'
          PROVE  (d \in early \/ \E u \in Threads : cpc[u] = "send" /\ cCall[u] = d)'
      <3>1. d \in early \/ \E u \in Threads : cpc[u] = "send" /\ cCall[u] = d
        BY <1>2, <2>2, Zenon DEF IInv, WakeInv
      <3>2. early' = early \cup {cCall[t]}
        BY <1>5, <2>2, Zenon
      <3> QED BY <1>4, <3>1, <3>2
    <2>3. CASE asyncInit
      <3>1. NoStrandedCall'
        BY <1>5, <2>3, Zenon DEF NoStrandedCall
      <3>2. asyncInit'
        BY <1>1, <2>3, Zenon
      <3> QED BY <2>1, <3>1, <3>2, Zenon DEF WakeInv
    <2>4. CASE ~asyncInit
      <3>1. ASSUME \A u \in Threads : cpc'[u] # "send", NEW i \in 1..Len(mqueUvLoopCbs')
            PROVE  mqueUvLoopCbs'[i] \in early'
        <4>1. i \in 1..Len(mqueUvLoopCbs) /\ mqueUvLoopCbs \in Seq(Calls)
          BY <1>0, <1>2, <3>1 DEF TypeOK
        <4>2. PICK d \in Calls : d = mqueUvLoopCbs[i] /\ Contains(mqueUvLoopCbs, d)'
          BY <1>2, <4>1 DEF Contains
        <4>3. (d \in early \/ \E u \in Threads : cpc[u] = "send" /\ cCall[u] = d)'
          BY <2>2, <2>4, <4>2
        <4> QED BY <1>2, <3>1, <4>2, <4>3
      <3>2. NoStrandedCall'
        BY <3>1, Zenon DEF NoStrandedCall
      <3> QED BY <2>1, <2>2, <2>4, <3>2, Zenon DEF WakeInv
    <2> QED BY <2>3, <2>4
  <1>7. LifeInv' /\ RefCountExact'
    BY <1>1, Unmoved
  <1> QED BY <1>3, <1>6, <1>7 DEF IInv

-----------------------------------------------------------------------------
(* The loop's thread and its owner. *)

LEMMA TakeStep ==
    ASSUME IInv, TypeOK', LocalsInv', TakeCbs
    PROVE  IInv'
  <1>0. TypeOK
    BY DEF IInv, RefCountExact
  <1>1. /\ queTmp = <<>> /\ mqueUvLoopCbs \in Seq(Calls)
        /\ queTmp' = mqueUvLoopCbs /\ mqueUvLoopCbs' = <<>>
        /\ lpc = "take" /\ lpc' = "run"
        /\ UNCHANGED <<stTmp, refs, deleted, called, cpc, cCall, asyncInit, pending, early>>
    BY <1>0 DEF TakeCbs, IInv, LocalsInv, TypeOK, objects, callers, async, history
  <1>2. UNCHANGED Waiting
    BY <1>1 DEF Waiting
  <1>3. PlaceInv'
    BY <1>1, <1>2 DEF IInv, PlaceInv
  <1>4. \A c : ~Contains(mqueUvLoopCbs, c)'
    BY <1>1 DEF Contains
  <1>5. WakeInv'
    <2>1. asyncInit'
      BY <1>1, Zenon DEF IInv, WakeInv
    <2>2. NoStrandedCall'
      BY <1>1 DEF NoStrandedCall
    <2> QED BY <1>1, <1>4, <2>1, <2>2, Zenon DEF WakeInv
  <1>6. \A o \in Cbs : Outstanding(o)' = Outstanding(o)
    BY <1>0, <1>1, <1>2, OutstandingIs, OutstandingNext
  <1> QED BY <1>1, <1>3, <1>5, <1>6 DEF IInv, LifeInv, RefCountExact

LEMMA CallBackStep ==
    ASSUME IInv, TypeOK', LocalsInv', UvCallBack
    PROVE  IInv'
  <1> USE NullAssumption
  <1> DEFINE c == Head(queTmp)
  <1>0. TypeOK
    BY DEF IInv, RefCountExact
  <1>1. /\ queTmp \in Seq(Calls) /\ queTmp # <<>> /\ mqueUvLoopCbs \in Seq(Calls)
        /\ called \in Seq(Calls) /\ stTmp = NULL
        /\ stTmp' = c /\ queTmp' = Tail(queTmp) /\ called' = Append(called, c)
        /\ lpc = "run" /\ lpc' = "callback" /\ c \in Calls
        /\ UNCHANGED <<mqueUvLoopCbs, refs, deleted, cpc, cCall, asyncInit, pending, early>>
    BY <1>0 DEF UvCallBack, IInv, LocalsInv, TypeOK, objects, callers, async
  <1>2. Waiting' = Tail(Waiting) /\ Waiting # <<>> /\ Head(Waiting) = c /\ Waiting \in Seq(Calls)
    BY <1>0, <1>1, ConcatPop, WaitingContains DEF Waiting
  <1>3. /\ \A x : Contains(Waiting, x)' <=> Contains(Waiting, x) /\ x # c
        /\ IsInjective(Waiting)' /\ Contains(Waiting, c)
    <2>1. IsInjective(Waiting)
      BY DEF IInv, PlaceInv
    <2>2. \A x : Contains(Tail(Waiting), x) <=> Contains(Waiting, x) /\ x # c
      BY <1>2, <2>1, PopContains
    <2>3. IsInjective(Tail(Waiting))
      BY <1>2, <2>1, PopInjective
    <2>4. \A x : Contains(Waiting, x)' <=> Contains(Tail(Waiting), x)
      BY <1>2 DEF Contains
    <2>5. IsInjective(Waiting)'
      BY <1>2, <2>3 DEF IsInjective
    <2>6. Contains(Waiting, c)
      BY <1>2, FrontContains
    <2> QED BY <2>2, <2>4, <2>5, <2>6
  <1>4. \A x : Contains(called, x)' <=> Contains(called, x) \/ x = c
    <2>1. \A x : Contains(Append(called, c), x) <=> Contains(called, x) \/ x = c
      BY <1>1, PushContains
    <2>2. \A x : Contains(called, x)' <=> Contains(Append(called, c), x)
      BY <1>1 DEF Contains
    <2> QED BY <2>1, <2>2
  <1> HIDE DEF c
  <1>5. PlaceInv'
    <2>1. \A t \in Threads : cpc[t] = "push" =>
             cCall[t] # c /\ ~Contains(Waiting, cCall[t])' /\ ~Contains(called, cCall[t])'
      BY <1>1, <1>3, <1>4 DEF IInv, PlaceInv
    <2>2. \A d \in Calls : Contains(Waiting, d)' => ~Contains(called, d)'
      BY <1>3, <1>4 DEF IInv, PlaceInv
    <2>3. Contains(called, stTmp)'
      <3>1. Contains(called', c)
        BY <1>4
      <3> QED BY <1>1, <3>1 DEF Contains
    <2> QED BY <1>1, <1>3, <2>1, <2>2, <2>3 DEF IInv, PlaceInv
  <1>6. WakeInv'
    BY <1>1, WakeKept
  <1>7. ASSUME NEW o \in Cbs PROVE Outstanding(o)' = Outstanding(o)
    <2>1. Outstanding(o) = {d \in Calls : CbOf[d] = o /\ (Contains(Waiting, d) \/ stTmp = d)}
      BY <1>0, OutstandingIs
    <2>2. Outstanding(o)' = {d \in Calls : CbOf[d] = o /\ (Contains(Waiting, d)' \/ stTmp' = d)}
      BY OutstandingNext
    <2>3. \A d \in Calls : (Contains(Waiting, d)' \/ stTmp' = d)
                         <=> (Contains(Waiting, d) \/ stTmp = d)
      BY <1>1, <1>3
    <2> QED BY <2>1, <2>2, <2>3
  <1>8. LifeInv'
    BY <1>1, <1>4, <1>7 DEF IInv, LifeInv
  <1> QED BY <1>1, <1>5, <1>6, <1>7, <1>8 DEF IInv, RefCountExact

LEMMA UnrefStep ==
    ASSUME IInv, TypeOK', LocalsInv', UnrefCb
    PROVE  IInv'
  <1> USE NullAssumption
  <1> DEFINE obj == CbOf[stTmp]
  <1>0. TypeOK
    BY DEF IInv, RefCountExact
  <1>1. /\ stTmp \in Calls /\ stTmp' = NULL /\ obj \in Cbs
        /\ lpc = "callback" /\ lpc' = "run"
        /\ UNCHANGED <<mqueUvLoopCbs, queTmp, called, cpc, cCall, asyncInit, pending, early>>
    BY <1>0, CallAssumption DEF UnrefCb, IInv, LocalsInv, TypeOK, callers, async, history
  <1>2. UNCHANGED Waiting
    BY <1>1 DEF Waiting
  <1>3. PlaceInv' /\ WakeInv'
    BY <1>1, <1>2, WakeKept DEF IInv, PlaceInv
  <1>4. Contains(called, stTmp) /\ ~Contains(Waiting, stTmp)
    BY <1>1 DEF IInv, PlaceInv
  <1>5. stTmp \in Outstanding(obj)
    BY <1>0, <1>1, OutstandingIs
  <1>6. ASSUME NEW o \in Cbs
        PROVE  Outstanding(o)' = IF o = obj THEN Outstanding(o) \ {stTmp} ELSE Outstanding(o)
    <2>1. Outstanding(o) = {d \in Calls : CbOf[d] = o /\ (Contains(Waiting, d) \/ stTmp = d)}
      BY <1>0, OutstandingIs
    <2>2. Outstanding(o)' = {d \in Calls : CbOf[d] = o /\ (Contains(Waiting, d)' \/ stTmp' = d)}
      BY OutstandingNext
    <2>3. Outstanding(o)' = {d \in Calls : CbOf[d] = o /\ Contains(Waiting, d)}
      BY <1>1, <1>2, <2>2
    <2> QED BY <1>1, <1>4, <2>1, <2>3
  <1>7. /\ refs \in [Cbs -> Int] /\ refs' = [refs EXCEPT ![obj] = @ - 1]
        /\ obj # NULL
        /\ deleted' = deleted \cup (IF refs[obj] - 1 <= 0 THEN {obj} ELSE {})
    BY <1>0, <1>1 DEF UnrefCb, UNREF, Freed, TypeOK
  <1> HIDE DEF obj
  <1>8. ASSUME NEW o \in Cbs
        PROVE  /\ IsFiniteSet(Outstanding(o)')
               /\ refs'[o] = Cardinality(Outstanding(o)') + (IF o \in Held THEN 1 ELSE 0)
               /\ Cardinality(Outstanding(o)') \in Nat
               /\ o \in deleted' => refs'[o] = 0
    <2>1. /\ refs[o] = Cardinality(Outstanding(o)) + (IF o \in Held THEN 1 ELSE 0)
          /\ o \in deleted => refs[o] = 0
          /\ IsFiniteSet(Outstanding(o))
      BY DEF IInv, RefCountExact, LifeInv
    <2>2. Cardinality(Outstanding(o)) \in Nat
      BY <2>1, FS_CardinalityType
    <2>3. CASE o = obj
      <3>1. /\ IsFiniteSet(Outstanding(o)')
            /\ Cardinality(Outstanding(o)') = Cardinality(Outstanding(o)) - 1
        BY <1>5, <1>6, <2>1, <2>3, FS_RemoveElement
      <3>2. Cardinality(Outstanding(o)') \in Nat
        BY <3>1, FS_CardinalityType
      <3>3. refs'[o] = refs[o] - 1
        BY <1>1, <1>7, <2>3
      <3>4. refs'[o] = Cardinality(Outstanding(o)') + (IF o \in Held THEN 1 ELSE 0)
        BY <2>1, <2>2, <3>1, <3>3
      <3>5. o \in deleted' => refs'[o] = 0
        <4>1. o \in deleted => refs[o] = 0
          BY <2>1
        <4>2. o \in deleted' => o \in deleted \/ refs[o] - 1 <= 0
          BY <1>7, <2>3
        <4>3. refs'[o] >= 0 /\ refs[o] \in Int
          BY <1>7, <3>2, <3>4
        <4> QED BY <3>3, <4>1, <4>2, <4>3
      <3> QED BY <3>1, <3>2, <3>4, <3>5
    <2>4. CASE o # obj
      <3>1. refs'[o] = refs[o] /\ (o \in deleted' <=> o \in deleted)
        BY <1>1, <1>7, <2>4
      <3> QED BY <1>6, <2>1, <2>2, <2>4, <3>1
    <2> QED BY <2>3, <2>4
  <1>9. LifeInv'
    <2>1. ASSUME NEW o \in deleted'
          PROVE  o \notin Held /\ \E c \in Calls : CbOf[c] = o /\ Contains(called, c)'
      <3>1. CASE o \in deleted
        BY <1>1, <3>1 DEF IInv, LifeInv
      <3>2. CASE o \notin deleted
        <4>1. o = obj
          BY <1>7, <3>2, <2>1
        <4>2. o \notin Held
          BY <1>1, <1>8, <2>1, <4>1
        <4> QED BY <1>1, <1>4, <4>1, <4>2 DEF obj
      <3> QED BY <3>1, <3>2
    <2> QED BY <1>8, <2>1 DEF LifeInv
  <1> QED BY <1>3, <1>8, <1>9 DEF IInv, RefCountExact

LEMMA OtherStep ==
    ASSUME IInv, TypeOK', LocalsInv',
           \/ StartLoop \/ Destroy \/ DestroyMembers \/ Joined \/ ThreadEntry \/ AsyncCb
           \/ OtherIteration \/ TouchDestroyed \/ OnThreadRun \/ BackendFd \/ UNCHANGED vars
    PROVE  IInv'
  <1> USE DEF loop, queue, objects, callers, async, history
  <1>1. UNCHANGED <<queue, objects, callers, called, early>>
    BY DEF StartLoop, Destroy, DestroyMembers, Joined, TouchDestroyed, ThreadEntry, OnThreadRun,
       AsyncCb, OtherIteration, BackendFd, vars
  <1>2. PlaceInv' /\ LifeInv' /\ RefCountExact'
    BY <1>1, Unmoved
  <1>3. CASE StartLoop
    <2>1. ~asyncInit /\ asyncInit' /\ lpc' = "start"
      BY <1>3, Zenon DEF StartLoop, IInv, WakeInv
    <2>2. ASSUME \A t \in Threads : cpc[t] # "send", NEW i \in 1..Len(mqueUvLoopCbs)
          PROVE  mqueUvLoopCbs[i] \in early
      <3>1. PICK d \in Calls : d = mqueUvLoopCbs[i] /\ Contains(mqueUvLoopCbs, d)
        BY DEF Contains, IInv, RefCountExact, TypeOK
      <3>2. d \in early \/ \E t \in Threads : cpc[t] = "send" /\ cCall[t] = d
        BY <2>1, <3>1, Zenon DEF IInv, WakeInv
      <3> QED BY <2>2, <3>1, <3>2
    <2>3. NoStrandedCall'
      BY <1>1, <2>2 DEF NoStrandedCall
    <2> QED BY <1>2, <2>1, <2>3, Zenon DEF IInv, WakeInv
  <1>4. CASE AsyncCb
    <2>1. asyncInit' /\ lpc' = "take"
      BY <1>4, Zenon DEF AsyncCb, IInv, WakeInv
    <2>2. NoStrandedCall'
      BY <2>1 DEF NoStrandedCall
    <2> QED BY <1>2, <2>1, <2>2, Zenon DEF IInv, WakeInv
  <1>5. CASE \/ Destroy \/ DestroyMembers \/ Joined \/ TouchDestroyed \/ ThreadEntry
             \/ OnThreadRun \/ OtherIteration \/ BackendFd
    <2>1. /\ UNCHANGED <<asyncInit, pending>>
          /\ lpc' = "none" <=> lpc = "none"
          /\ lpc # "take" \/ lpc' \in {lpc, "crashed"}
          /\ lpc # "crashed" \/ lpc' = lpc
      BY <1>5 DEF Destroy, DestroyMembers, Joined, TouchDestroyed, ThreadEntry, OnThreadRun, OtherIteration, BackendFd
    <2>2. WakeInv'
      BY <1>1, <2>1, WakeKept
    <2> QED BY <1>2, <2>2 DEF IInv
  <1>6. CASE UNCHANGED vars
    <2>1. WakeInv'
      BY <1>6, WakeKept DEF vars
    <2> QED BY <1>2, <2>1 DEF IInv
  <1> QED BY <1>3, <1>4, <1>5, <1>6

-----------------------------------------------------------------------------
(* The invariant. *)

LEMMA InvInit == Init => IInv
  <1> SUFFICES ASSUME Init PROVE IInv
    OBVIOUS
  <1> USE NullAssumption
  <1>1. TypeOK /\ LocalsInv
    BY TypeInit
  <1>2. Waiting = <<>> /\ mqueUvLoopCbs = <<>> /\ called = <<>> /\ stTmp = NULL
    BY DEF Init, Waiting
  <1>3. \A x : ~Contains(<<>>, x)
    BY DEF Contains
  <1>4. IsInjective(<<>>)
    BY DEF IsInjective
  <1>5. PlaceInv
    BY <1>2, <1>3, <1>4 DEF PlaceInv, Init
  <1>6. WakeInv
    <2>1. lpc = "none" <=> ~asyncInit
      BY Zenon DEF Init
    <2> QED BY <1>2, <1>3, <2>1 DEF WakeInv, NoStrandedCall
  <1>7. \A o \in Cbs : Outstanding(o) = {}
    <2>1. \A o \in Cbs : Outstanding(o) =
              {c \in Calls : CbOf[c] = o /\ (Contains(Waiting, c) \/ stTmp = c)}
      BY <1>1, OutstandingIs
    <2> QED BY <1>2, <1>3, <2>1
  <1>8. /\ IsFiniteSet({}) /\ Cardinality({}) = 0
        /\ deleted = {} /\ \A o \in Cbs : refs[o] = IF o \in Held THEN 1 ELSE 0
    BY FS_EmptySet DEF Init
  <1>9. LifeInv /\ RefCountExact
    BY <1>1, <1>7, <1>8 DEF LifeInv, RefCountExact
  <1> QED BY <1>1, <1>5, <1>6, <1>9 DEF IInv

LEMMA InvStep == IInv /\ [Next]_vars => IInv'
  <1> SUFFICES ASSUME IInv, [Next]_vars PROVE IInv'
    OBVIOUS
  <1>1. TypeOK' /\ LocalsInv'
    BY TypeStep DEF IInv, RefCountExact
  <1>2. ASSUME NEW t \in Threads, NEW c \in Calls, CallAssert(t, c) PROVE IInv'
    BY <1>1, <1>2, AssertStep
  <1>3. ASSUME NEW t \in Threads, CallPush(t) \/ CallSend(t) PROVE IInv'
    BY <1>1, <1>3, PushStep, SendStep
  <1>4. CASE TakeCbs \/ UvCallBack \/ UnrefCb
    BY <1>1, <1>4, TakeStep, CallBackStep, UnrefStep
  <1>5. CASE \/ StartLoop \/ Destroy \/ DestroyMembers \/ Joined \/ ThreadEntry \/ AsyncCb
             \/ OtherIteration \/ TouchDestroyed \/ OnThreadRun \/ BackendFd \/ UNCHANGED vars
    BY <1>1, <1>5, OtherStep
  <1> QED BY <1>2, <1>3, <1>4, <1>5 DEF Next, CallUv, LoopThread

\* The inductive invariant holds in every reachable state, whatever the mode
\* of the loop and whenever it is started or destroyed.
THEOREM InvCorrect == Spec => []IInv
  BY InvInit, InvStep, PTL DEF Spec

\* The counter of a callback object is the number of its calls under way and
\* its user's reference, for any number of threads, calls and objects: REF
\* on the callers' threads and UNREF on the loop's balance, and what is
\* queued is not deleted (UvLoop.cpp:55,64).
THEOREM RefCountCorrect == Spec => []RefCountExact
  <1>1. IInv => RefCountExact
    BY DEF IInv
  <1> QED BY <1>1, InvCorrect, PTL

\* A queued call has a wake-up to come, unless all that is queued was sent
\* before the handle was initialised (UvLoop.cpp:30,65-72).
THEOREM NoStrandedCorrect == Spec => []NoStrandedCall
  <1>1. IInv => NoStrandedCall
    BY DEF IInv, WakeInv
  <1> QED BY <1>1, InvCorrect, PTL

-----------------------------------------------------------------------------
(* The destructor. *)

\* The pointer says whether the owner is live; no callback has run before the
\* thread has got to the loop.
FateInv ==
    /\ owner \in {"live", "closing", "joining", "gone"} /\ (owner = "live" <=> mpUvLoop)
    /\ lpc \in {"none", "start", "entered"} => called = <<>>
    /\ DestructorFate

LEMMA FateStep == ASSUME FateInv, [Next]_vars PROVE FateInv'
  <1> USE DEF FateInv, DestructorFate, loop, queue, objects, callers, async, history
  <1>1. CASE UNCHANGED vars
    BY <1>1 DEF vars
  <1>2. ASSUME NEW t \in Threads, CallUv(t) \/ \E c \in Calls : CallAssert(t, c) PROVE FateInv'
    BY <1>2 DEF CallUv, CallAssert, CallPush, CallSend
  <1>3. CASE StartLoop
    BY <1>3 DEF StartLoop
  <1>4. CASE Destroy \/ DestroyMembers \/ Joined \/ TouchDestroyed
    BY <1>4 DEF Destroy, DestroyMembers, Joined, TouchDestroyed
  <1>5. CASE ThreadEntry \/ OnThreadRun \/ OtherIteration
    BY <1>5 DEF ThreadEntry, OnThreadRun, OtherIteration
  <1>6. CASE AsyncCb \/ TakeCbs \/ UvCallBack \/ UnrefCb
    BY <1>6 DEF AsyncCb, TakeCbs, UvCallBack, UnrefCb
  <1>7. CASE BackendFd
    BY <1>7 DEF BackendFd
  <1> QED BY <1>1, <1>2, <1>3, <1>4, <1>5, <1>6, <1>7 DEF Next, LoopThread

\* Only a destructor brings the loop's thread down, the join is never passed
\* while the thread is there, and a loop of the default mode that has begun
\* to run does not end (UvLoop.cpp:20-25,59, UvThread.cpp:39-47).
THEOREM DestructorCorrect == Spec => []DestructorFate
  <1>1. Init => FateInv
    BY DEF Init, FateInv, DestructorFate
  <1>2. FateInv /\ [Next]_vars => FateInv'
    BY FateStep
  <1>3. FateInv => DestructorFate
    BY DEF FateInv
  <1> QED BY <1>1, <1>2, <1>3, PTL DEF Spec

-----------------------------------------------------------------------------
(* The loop implements the queue of calls. *)

\* CallPush posts, UvCallBack serves, everything else leaves both alone.
LEMMA QueueStep ==
    ASSUME IInv, [Next]_vars
    PROVE  [CallQ!CQNext]_<<Waiting, called>>
  <1>0. TypeOK
    BY DEF IInv, RefCountExact
  <1>1. queTmp \in Seq(Calls) /\ mqueUvLoopCbs \in Seq(Calls)
    BY <1>0 DEF TypeOK
  <1>2. ASSUME NEW t \in Threads, CallPush(t) PROVE \E c \in Calls : CallQ!Post(c)
    <2>1. cCall[t] \in Calls /\ ~Contains(Waiting, cCall[t]) /\ ~Contains(called, cCall[t])
      BY <1>0, <1>2, NullAssumption DEF CallPush, TypeOK, IInv, LocalsInv, PlaceInv
    <2>2. Waiting' = Append(Waiting, cCall[t]) /\ called' = called
      BY <1>1, <1>2, <2>1, ConcatPush DEF CallPush, Waiting, history
    <2>3. CallQ!Post(cCall[t])
      BY <2>1, <2>2 DEF CallQ!Post, Waiting, Contains, CallQ!Contains
    <2> QED BY <2>1, <2>3
  <1>3. CASE UvCallBack
    <2>1. /\ queTmp # <<>> /\ queTmp' = Tail(queTmp) /\ mqueUvLoopCbs' = mqueUvLoopCbs
          /\ called' = Append(called, Head(queTmp))
      BY <1>3 DEF UvCallBack
    <2>2. /\ Waiting # <<>> /\ Head(Waiting) = Head(queTmp)
          /\ Tail(Waiting) = Tail(queTmp) \o mqueUvLoopCbs
      BY <1>1, <2>1, ConcatPop DEF Waiting
    <2>3. CallQ!Serve
      BY <2>1, <2>2 DEF CallQ!Serve, Waiting
    <2> QED BY <2>3 DEF CallQ!CQNext
  <1>4. CASE TakeCbs
    <2>1. queTmp = <<>> /\ queTmp' = mqueUvLoopCbs /\ mqueUvLoopCbs' = <<>> /\ called' = called
      BY <1>4 DEF TakeCbs, IInv, LocalsInv, history
    <2> QED BY <1>1, <2>1 DEF Waiting
  <1>5. ASSUME UNCHANGED <<queTmp, mqueUvLoopCbs, called>> PROVE UNCHANGED <<Waiting, called>>
    BY <1>5 DEF Waiting
  <1>6. \/ \E t \in Threads : CallPush(t)
        \/ UvCallBack \/ TakeCbs \/ UNCHANGED <<queTmp, mqueUvLoopCbs, called>>
    BY DEF Next, CallUv, LoopThread, CallAssert, CallSend, StartLoop, Destroy, DestroyMembers, Joined, TouchDestroyed,
       ThreadEntry, OnThreadRun, AsyncCb, OtherIteration, UnrefCb, BackendFd, vars, queue, history
  <1> QED BY <1>2, <1>3, <1>4, <1>5, <1>6 DEF CallQ!CQNext

\* Calls are served once each in the order CallUv queued them, for any
\* number of threads, and also when callbacks make new ones.
THEOREM QueueCorrect == Spec => ImplementsCallQueue
  <1>1. Init => CallQ!CQInit
    BY DEF Init, CallQ!CQInit
  <1>2. IInv /\ [Next]_vars => [CallQ!CQNext]_(CallQ!cqvars)
    BY QueueStep DEF CallQ!cqvars, Waiting
  <1> QED BY <1>1, <1>2, InvCorrect, PTL DEF Spec, ImplementsCallQueue, CallQ!CQSpec
=============================================================================
