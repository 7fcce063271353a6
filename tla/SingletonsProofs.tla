-------------------------- MODULE SingletonsProofs --------------------------
(***************************************************************************)
(* Proofs about what all threads share: the singletons CEventMgr and       *)
(* CRandTool, for any number of threads, names and listeners and for       *)
(* generators of any size, and the allocator CMemMgr, for any threads,     *)
(* blocks, lengths and alignments.  Instance makes one object, the event   *)
(* manager's listeners are safe, the generator's words come in order as    *)
(* long as no two calls overlap, and RandInt stays in its range; a block   *)
(* is in one place and fits, the counters agree with the blocks, and no    *)
(* block is malloc'ed in vain.                                             *)
(***************************************************************************)
EXTENDS Singletons, MemMgr, DataLemmas

(* The inductive invariant of Instance. *)

\* The only thread in the lock knows how far the object is.
InstanceInv ==
    /\ OneInstance
    /\ mpInstance => allocated = 1
    /\ allocated = 1 => mpInstance \/ \E u \in Users : ipc[u] = "finish"
    /\ \A u \in Users :
          /\ ipc[u] = "new" => allocated = 0 /\ ~mpInstance
          /\ ipc[u] = "finish" => allocated = 1
          /\ ipc[u] = "unlock" => mpInstance

-----------------------------------------------------------------------------
(* The inductive invariant of the event manager. *)

RegsOf(l) == {r \in mmapEventListeners : r[2] = l}

\* A listener is deleted only when nobody refers to it; a callback runs
\* under the mutex.
EventInv ==
    /\ ListenersSafe
    /\ IsFiniteSet(mmapEventListeners)
    /\ \A l \in deleted : l \notin held /\ RegsOf(l) = {}
    /\ called # NULL => mutex # NULL

-----------------------------------------------------------------------------
(* The inductive invariant of the generator, while no two calls overlap.   *)

\* The first k words are those of seed s.
SeededTo(s, k) == \A i \in 0..(N - 1) : i < k => mt[i] = Word(s, i)

\* The word due is the a-th of seed sd, if any is due.
Due(sd, a) == expect \in {Junk, Word(sd, a)}

\* The block is N words in a row, of which mti have been drawn.
BlockAt(sd, a) ==
    /\ mti <= a /\ Due(sd, a)
    /\ \A i \in 0..(N - 1) : mt[i] = Word(sd, a - mti + i)

Block == \E sd \in AllSeeds, a \in Nat : BlockAt(sd, a)

\* The block is being replaced by the next, in place, up to its k-th word.
TwistingAt(k, sd, a) ==
    /\ N <= a /\ Due(sd, a)
    /\ \A i \in 0..(N - 1) : mt[i] = Word(sd, IF i < k THEN a + i ELSE a - N + i)

Twisting(k) == \E sd \in AllSeeds, a \in Nat : TwistingAt(k, sd, a)

\* Where the one thread in a call is.
CallSafe(u) ==
    /\ rpc[u] = "seed" => SeededTo(seeding[u], kk[u])
    /\ rpc[u] = "seeded" => SeededTo(seeding[u], N)
    /\ rpc[u] = "init" => mti = N + 1 /\ seeding[u] = DefaultSeed /\ SeededTo(DefaultSeed, kk[u])
    /\ rpc[u] = "twist" => mti \in {N, N + 1} /\ Twisting(kk[u])
    /\ rpc[u] = "take" => mti < N /\ Block

OneCall ==
    /\ \A u, v \in Users : rpc[u] # "idle" /\ rpc[v] # "idle" => u = v
    /\ mti <= N + 1
    /\ (\A u \in Users : rpc[u] = "idle") => mti = N + 1 \/ Block
    /\ \A u \in Users : CallSafe(u)

RandInv == StreamInOrder /\ (~overlapped => OneCall)

ClsInv == InstanceInv /\ EventInv /\ RandInv

-----------------------------------------------------------------------------
(* Instance. *)

LEMMA InstanceInit == ASSUME SingletonInit PROVE InstanceInv
  <1> USE DEF SingletonInit
  <1>1. InstanceTypeOK
    BY DEF InstanceTypeOK
  <1>2. OneInLock
    BY DEF OneInLock, Locked
  <1>3. OneInstance
    BY <1>1, <1>2 DEF OneInstance
  <1> QED BY <1>3 DEF InstanceInv

LEMMA InstanceStep == ASSUME InstanceInv, NEW u \in Users, Instance(u) PROVE InstanceInv'
  <1> USE DEF InstanceInv, OneInstance
  <1>0. InstanceTypeOK /\ OneInLock
    OBVIOUS
  <1>1. CASE FirstTest(u)
    <2>1. InstanceTypeOK'
      BY <1>0, <1>1 DEF FirstTest, Goto, InstanceTypeOK, Locked
    <2>2. OneInLock'
      BY <1>0, <1>1 DEF FirstTest, Goto, InstanceTypeOK, OneInLock, Locked
    <2>3. \A v \in Users : ipc'[v] = ipc[v] \/ (v = u /\ ipc[v] = "out" /\ ipc'[v] = "lock")
      BY <1>0, <1>1 DEF FirstTest, Goto, InstanceTypeOK
    <2>4. \A v \in Users : ipc'[v] = "finish" <=> ipc[v] = "finish"
      BY <2>3
    <2>5. (unbuilt' # {} => StoresReordered) /\ (got' # {} => mpInstance' /\ allocated' = 1)
      BY <1>1, <2>4 DEF FirstTest
    <2>6. OneInstance'
      BY <1>1, <2>1, <2>2, <2>4, <2>5 DEF FirstTest
    <2> QED BY <1>1, <2>3, <2>6 DEF FirstTest
  <1>2. CASE Lock(u)
    <2>1. InstanceTypeOK'
      BY <1>0, <1>2 DEF Lock, Goto, InstanceTypeOK, Locked
    <2>2. OneInLock'
      BY <1>0, <1>2 DEF Lock, Goto, InstanceTypeOK, OneInLock, Locked
    <2>3. \A v \in Users : ipc'[v] = ipc[v] \/ (v = u /\ ipc[v] = "lock" /\ ipc'[v] = "test")
      BY <1>0, <1>2 DEF Lock, Goto, InstanceTypeOK
    <2>4. \A v \in Users : ipc'[v] = "finish" <=> ipc[v] = "finish"
      BY <2>3
    <2>6. OneInstance'
      BY <1>2, <2>1, <2>2, <2>4 DEF Lock
    <2> QED BY <1>2, <2>3, <2>6 DEF Lock
  <1>3. CASE SecondTest(u)
    <2>1. InstanceTypeOK'
      BY <1>0, <1>3 DEF SecondTest, Goto, InstanceTypeOK, Locked
    <2>2. OneInLock'
      BY <1>0, <1>3 DEF SecondTest, Goto, InstanceTypeOK, OneInLock, Locked
    <2>3. /\ \A v \in Users : v # u => ipc'[v] = ipc[v]
          /\ ipc[u] = "test" /\ ipc'[u] = IF mpInstance THEN "unlock" ELSE "new"
      BY <1>0, <1>3 DEF SecondTest, Goto, InstanceTypeOK
    <2>4. \A v \in Users : ipc'[v] = "finish" <=> ipc[v] = "finish"
      BY <2>3
    <2>5. \A v \in Users : ipc[v] # "finish"
      BY <1>0, <2>3 DEF OneInLock, Locked
    <2>6. ~mpInstance => allocated = 0
      BY <1>0, <2>5 DEF InstanceTypeOK
    <2>7. OneInstance'
      BY <1>3, <2>1, <2>2, <2>4 DEF SecondTest
    <2> QED BY <1>3, <2>3, <2>4, <2>6, <2>7 DEF SecondTest
  <1>4. CASE New(u)
    <2>1. InstanceTypeOK'
      <3>1. mpInstance' \in BOOLEAN /\ built' \in BOOLEAN
        BY <1>0, <1>4 DEF New, InstanceTypeOK
      <3>2. ipc' \in [Users -> {"out", "lock"} \cup Locked] /\ allocated' \in Nat
        BY <1>0, <1>4 DEF New, Goto, InstanceTypeOK, Locked
      <3> QED BY <1>0, <1>4, <3>1, <3>2 DEF New, InstanceTypeOK
    <2>2. OneInLock'
      BY <1>0, <1>4 DEF New, Goto, InstanceTypeOK, OneInLock, Locked
    <2>3. /\ \A v \in Users : v # u => ipc'[v] = ipc[v]
          /\ ipc[u] = "new" /\ ipc'[u] = "finish"
      BY <1>0, <1>4 DEF New, Goto, InstanceTypeOK
    <2>4. allocated' = 1 /\ ~mpInstance /\ got = {} /\ got' = {} /\ unbuilt = {} /\ unbuilt' = {}
      BY <1>0, <1>4, <2>3 DEF New, InstanceTypeOK
    <2>5. mpInstance' /\ ~built' => StoresReordered
      BY <1>4, <2>4 DEF New
    <2>6. OneInstance'
      BY <2>1, <2>2, <2>3, <2>4, <2>5
    <2>7. \A v \in Users : v # u => ipc[v] \notin Locked
      BY <1>0, <2>3 DEF OneInLock, Locked
    <2> QED BY <2>3, <2>4, <2>6, <2>7 DEF Locked
  <1>5. CASE FinishNew(u)
    <2>1. InstanceTypeOK'
      BY <1>0, <1>5 DEF FinishNew, Goto, InstanceTypeOK, Locked
    <2>2. OneInLock'
      BY <1>0, <1>5 DEF FinishNew, Goto, InstanceTypeOK, OneInLock, Locked
    <2>3. /\ \A v \in Users : v # u => ipc'[v] = ipc[v]
          /\ ipc[u] = "finish" /\ ipc'[u] = "test"
      BY <1>0, <1>5 DEF FinishNew, Goto, InstanceTypeOK
    <2>4. allocated = 1 /\ allocated' = allocated /\ mpInstance' /\ built' /\ UNCHANGED <<got, unbuilt>>
      BY <1>5, <2>3 DEF FinishNew
    <2>6. OneInstance'
      BY <2>1, <2>2, <2>4
    <2>7. \A v \in Users : v # u => ipc[v] \notin Locked
      BY <1>0, <2>3 DEF OneInLock, Locked
    <2> QED BY <2>3, <2>4, <2>6, <2>7 DEF Locked
  <1>6. CASE UnLock(u)
    <2>1. InstanceTypeOK'
      BY <1>0, <1>6 DEF UnLock, Goto, InstanceTypeOK, Locked
    <2>2. OneInLock'
      BY <1>0, <1>6 DEF UnLock, Goto, InstanceTypeOK, OneInLock, Locked
    <2>3. \A v \in Users : ipc'[v] = ipc[v] \/ (v = u /\ ipc[v] = "unlock" /\ ipc'[v] = "out")
      BY <1>0, <1>6 DEF UnLock, Goto, InstanceTypeOK
    <2>4. \A v \in Users : ipc'[v] = "finish" <=> ipc[v] = "finish"
      BY <2>3
    <2>5. mpInstance /\ allocated = 1
      BY <1>6 DEF UnLock
    <2>6. OneInstance'
      BY <1>6, <2>1, <2>2, <2>4, <2>5 DEF UnLock
    <2> QED BY <1>6, <2>3, <2>6 DEF UnLock
  <1> QED BY <1>1, <1>2, <1>3, <1>4, <1>5, <1>6 DEF Instance

LEMMA InstanceFrame == ASSUME InstanceInv, UNCHANGED instance PROVE InstanceInv'
  BY DEF instance, InstanceInv, OneInstance, InstanceTypeOK, OneInLock, Locked

-----------------------------------------------------------------------------
(* The event manager. *)

LEMMA EventInit == ASSUME Init PROVE EventInv
  <1> USE DEF Init
  <1>1. TypeOK
    <2>1. refs \in [Listeners -> Int]
      OBVIOUS
    <2>2. hung \in BOOLEAN
      BY Zenon
    <2> QED BY <2>1, <2>2 DEF TypeOK
  <1>2. \A l \in Listeners : RegsOf(l) = {}
    BY DEF RegsOf
  <1>3. ListenerRefsExact
    BY <1>2, FS_EmptySet DEF ListenerRefsExact, RegsOf
  <1>4. CalledIsRegistered /\ DispatchIsAtomic
    BY DEF CalledIsRegistered, DispatchIsAtomic
  <1> QED BY <1>1, <1>3, <1>4, FS_EmptySet DEF EventInv, ListenersSafe

\* A counter is zero exactly when nobody refers to the listener.
LEMMA RefsMeaning ==
    ASSUME EventInv, NEW l \in Listeners
    PROVE  /\ IsFiniteSet(RegsOf(l)) /\ Cardinality(RegsOf(l)) \in Nat
           /\ refs[l] = Cardinality(RegsOf(l)) + (IF l \in held THEN 1 ELSE 0)
           /\ Cardinality(RegsOf(l)) = 0 <=> RegsOf(l) = {}
  <1>1. RegsOf(l) \subseteq mmapEventListeners
    BY DEF RegsOf
  <1>2. IsFiniteSet(RegsOf(l))
    BY <1>1, FS_Subset DEF EventInv
  <1> QED BY <1>2, FS_CardinalityType, FS_EmptySet DEF EventInv, ListenersSafe, ListenerRefsExact, RegsOf

\* DelListener dereferences as often as the listener is registered.
LEMMA NamesOf ==
    ASSUME EventInv, NEW l \in Listeners
    PROVE  Cardinality({n \in Names : <<n, l>> \in mmapEventListeners}) = Cardinality(RegsOf(l))
  <1> DEFINE names == {n \in Names : <<n, l>> \in mmapEventListeners}
             f == [r \in RegsOf(l) |-> r[1]]
  <1>1. \A r \in RegsOf(l) : r[1] \in names /\ r = <<r[1], l>>
    BY DEF RegsOf, EventInv, ListenersSafe, TypeOK, Registrations
  <1>2. \A n \in names : <<n, l>> \in RegsOf(l) /\ <<n, l>>[1] = n
    BY DEF RegsOf
  <1>3. f \in Bijection(RegsOf(l), names)
    <2>1. f \in [RegsOf(l) -> names]
      BY <1>1
    <2>2. \A r, s \in RegsOf(l) : f[r] = f[s] => r = s
      BY <1>1
    <2>3. \A n \in names : \E r \in RegsOf(l) : f[r] = n
      BY <1>2
    <2> QED BY <2>1, <2>2, <2>3 DEF Bijection, Injection, Surjection, IsInjective
  <1> QED BY <1>3, RefsMeaning, FS_Bijection DEF ExistsBijection

LEMMA AddListenerSafe ==
    ASSUME EventInv, NEW n \in Names, NEW l \in Listeners, AddListener(n, l)
    PROVE  EventInv'
  <1> USE DEF EventInv, ListenersSafe
  <1>0. /\ TypeOK /\ mutex = NULL /\ called = NULL /\ l \in held /\ l \notin deleted
        /\ mmapEventListeners' = mmapEventListeners \cup {<<n, l>>}
        /\ UNCHANGED <<dispatch, deleted, held, history>>
    BY DEF AddListener
  <1>1. l # NULL
    BY ListenersAssumption
  <1>2. /\ refs' \in [Listeners -> Int]
        /\ \A k \in Listeners \ {l} : refs'[k] = refs[k]
        /\ refs'[l] = IF <<n, l>> \in mmapEventListeners THEN refs[l] ELSE refs[l] + 1
    BY <1>0, <1>1 DEF AddListener, REF, TypeOK
  <1>3. TypeOK'
    BY <1>0, <1>2 DEF TypeOK, Registrations, dispatch, history
  <1>4. \A k \in Listeners \ {l} : RegsOf(k)' = RegsOf(k)
    BY <1>0 DEF RegsOf
  <1>5. RegsOf(l)' = RegsOf(l) \cup {<<n, l>>}
    BY <1>0 DEF RegsOf
  <1>5a. refs[l] = Cardinality(RegsOf(l)) + 1 /\ Cardinality(RegsOf(l)) \in Nat
    BY <1>0, RefsMeaning
  <1>6. refs'[l] = Cardinality(RegsOf(l)') + 1
    <2>1. CASE <<n, l>> \in mmapEventListeners
      <3>1. <<n, l>> \in RegsOf(l)
        BY <2>1 DEF RegsOf
      <3>2. RegsOf(l)' = RegsOf(l)
        BY <1>5, <3>1
      <3> QED BY <1>2, <1>5a, <2>1, <3>2
    <2>2. CASE <<n, l>> \notin mmapEventListeners
      <3>1. <<n, l>> \notin RegsOf(l)
        BY <2>2 DEF RegsOf
      <3>2. Cardinality(RegsOf(l) \cup {<<n, l>>}) = Cardinality(RegsOf(l)) + 1
        BY <3>1, RefsMeaning, FS_AddElement
      <3> QED BY <1>2, <1>5, <1>5a, <2>2, <3>2
    <2> QED BY <2>1, <2>2
  <1>7. ListenerRefsExact'
    <2> SUFFICES ASSUME NEW k \in Listeners
                 PROVE  refs'[k] = Cardinality(RegsOf(k)') + (IF k \in held' THEN 1 ELSE 0)
      BY DEF ListenerRefsExact, RegsOf
    <2>1. CASE k = l
      BY <1>0, <1>6, <2>1
    <2>2. CASE k # l
      BY <1>0, <1>2, <1>4, <2>2, RefsMeaning
    <2> QED BY <2>1, <2>2
  <1>8. IsFiniteSet(mmapEventListeners)'
    BY <1>0, FS_AddElement
  <1>9. \A k \in deleted' : k \notin held' /\ RegsOf(k)' = {}
    BY <1>0, <1>4 DEF TypeOK
  <1>10. CalledIsRegistered' /\ DispatchIsAtomic' /\ (called # NULL => mutex # NULL)'
    BY <1>0 DEF CalledIsRegistered, DispatchIsAtomic, dispatch
  <1> QED BY <1>3, <1>7, <1>8, <1>9, <1>10

LEMMA DelListenerSafe ==
    ASSUME EventInv, NEW l \in Listeners, DelListener(l)
    PROVE  EventInv'
  <1> USE DEF EventInv, ListenersSafe
  <1> DEFINE names == {n \in Names : <<n, l>> \in mmapEventListeners}
  <1>0. /\ TypeOK /\ mutex = NULL /\ called = NULL
        /\ mmapEventListeners' = mmapEventListeners \ (names \X {l})
        /\ refs' = [refs EXCEPT ![l] = @ - Cardinality(names)]
        /\ deleted' = deleted \cup (IF refs'[l] <= 0 THEN {l} ELSE {})
        /\ UNCHANGED <<dispatch, held, history>>
    BY DEF DelListener
  <1>1. Cardinality(names) = Cardinality(RegsOf(l)) /\ Cardinality(names) \in Nat
    BY NamesOf, RefsMeaning
  <1> HIDE DEF names
  <1>2. /\ refs' \in [Listeners -> Int]
        /\ \A k \in Listeners \ {l} : refs'[k] = refs[k]
        /\ refs'[l] = refs[l] - Cardinality(names)
    BY <1>0, <1>1 DEF TypeOK
  <1>3. refs'[l] = IF l \in held THEN 1 ELSE 0
    <2>1. refs[l] = Cardinality(RegsOf(l)) + (IF l \in held THEN 1 ELSE 0)
      BY RefsMeaning
    <2>2. CASE l \in held
      BY <1>1, <1>2, <2>1, <2>2
    <2>3. CASE l \notin held
      BY <1>1, <1>2, <2>1, <2>3
    <2> QED BY <2>2, <2>3
  <1>4. mmapEventListeners' \subseteq mmapEventListeners
    BY <1>0
  <1>5. \A k \in Listeners \ {l} : RegsOf(k)' = RegsOf(k)
    BY <1>0 DEF RegsOf
  <1>6. RegsOf(l)' = {}
    <2> SUFFICES ASSUME NEW r \in mmapEventListeners', r[2] = l PROVE FALSE
      BY DEF RegsOf
    <2>1. r \in Names \X Listeners /\ r = <<r[1], l>>
      BY <1>4 DEF TypeOK, Registrations
    <2>2. r \in names \X {l}
      BY <1>4, <2>1 DEF names
    <2> QED BY <1>0, <2>2
  <1>7. TypeOK'
    BY <1>0, <1>2, <1>4 DEF TypeOK, dispatch, history
  <1>8. ListenerRefsExact'
    <2> SUFFICES ASSUME NEW k \in Listeners
                 PROVE  refs'[k] = Cardinality(RegsOf(k)') + (IF k \in held' THEN 1 ELSE 0)
      BY DEF ListenerRefsExact, RegsOf
    <2>1. CASE k = l
      <3>1. Cardinality(RegsOf(l)') = 0 /\ held' = held
        BY <1>0, <1>6, FS_EmptySet
      <3>2. refs'[l] = 0 + (IF l \in held THEN 1 ELSE 0)
        BY <1>3
      <3> QED BY <2>1, <3>1, <3>2
    <2>2. CASE k # l
      BY <1>0, <1>2, <1>5, <2>2, RefsMeaning
    <2> QED BY <2>1, <2>2
  <1>9. IsFiniteSet(mmapEventListeners)'
    BY <1>4, FS_Subset
  <1>10. \A k \in deleted' : k \notin held' /\ RegsOf(k)' = {}
    BY <1>0, <1>3, <1>5, <1>6 DEF TypeOK
  <1>11. CalledIsRegistered' /\ DispatchIsAtomic' /\ (called # NULL => mutex # NULL)'
    BY <1>0 DEF CalledIsRegistered, DispatchIsAtomic, dispatch
  <1> QED BY <1>7, <1>8, <1>9, <1>10, <1>11

LEMMA ReleaseSafe ==
    ASSUME EventInv, NEW l \in Listeners, Release(l)
    PROVE  EventInv'
  <1> USE DEF EventInv, ListenersSafe
  <1>0. /\ TypeOK /\ l \in held /\ held' = held \ {l} /\ l # NULL
        /\ UNCHANGED <<mmapEventListeners, dispatch, history>>
    BY ListenersAssumption DEF Release
  <1>1. /\ refs' = [refs EXCEPT ![l] = @ - 1]
        /\ deleted' = deleted \cup (IF refs[l] - 1 <= 0 THEN {l} ELSE {})
    BY <1>0 DEF Release, UNREF, Freed
  <1>2. /\ refs' \in [Listeners -> Int]
        /\ \A k \in Listeners \ {l} : refs'[k] = refs[k]
        /\ refs'[l] = refs[l] - 1
    BY <1>0, <1>1 DEF TypeOK
  <1>3. \A k \in Listeners : RegsOf(k)' = RegsOf(k)
    BY <1>0 DEF RegsOf
  <1>4. refs[l] = Cardinality(RegsOf(l)) + 1 /\ Cardinality(RegsOf(l)) \in Nat
    BY <1>0, RefsMeaning
  <1>5. refs[l] - 1 <= 0 <=> RegsOf(l) = {}
    BY <1>4, RefsMeaning
  <1>6. TypeOK'
    BY <1>0, <1>1, <1>2 DEF TypeOK, dispatch, history
  <1>7. ListenerRefsExact'
    <2> SUFFICES ASSUME NEW k \in Listeners
                 PROVE  refs'[k] = Cardinality(RegsOf(k)) + (IF k \in held' THEN 1 ELSE 0)
      BY <1>3 DEF ListenerRefsExact, RegsOf
    <2>1. CASE k = l
      <3>1. l \notin held' /\ refs'[l] = Cardinality(RegsOf(l)) + 0
        BY <1>0, <1>2, <1>4
      <3> QED BY <2>1, <3>1
    <2>2. CASE k # l
      BY <1>0, <1>2, <2>2, RefsMeaning
    <2> QED BY <2>1, <2>2
  <1>8. \A k \in deleted' : k \notin held' /\ RegsOf(k)' = {}
    BY <1>0, <1>1, <1>3, <1>5 DEF TypeOK
  <1>9. CalledIsRegistered'
    <2>1. called # NULL => called \in Listeners /\ \E n \in Names : <<n, called>> \in mmapEventListeners
      BY <1>0 DEF TypeOK, CalledIsRegistered
    <2>2. called # NULL => RegsOf(called) # {}
      <3> SUFFICES ASSUME called # NULL PROVE RegsOf(called) # {}
        OBVIOUS
      <3>1. PICK n \in Names : <<n, called>> \in mmapEventListeners
        BY <2>1
      <3>2. <<n, called>> \in RegsOf(called)
        BY <3>1 DEF RegsOf
      <3> QED BY <3>2
    <2>3. called # NULL => called \notin deleted'
      BY <1>1, <1>5, <2>2 DEF CalledIsRegistered
    <2> QED BY <1>0, <2>1, <2>3 DEF CalledIsRegistered, dispatch
  <1>10. DispatchIsAtomic' /\ (called # NULL => mutex # NULL)' /\ IsFiniteSet(mmapEventListeners)'
    BY <1>0 DEF DispatchIsAtomic, dispatch, history
  <1> QED BY <1>6, <1>7, <1>8, <1>9, <1>10

\* A dispatch changes no registration and no counter.
LEMMA DispatchSafe ==
    ASSUME EventInv, UNCHANGED <<mmapEventListeners, objects>>,
           (\E t \in Threads : DispatchEvent(t)) \/ Dispatching \/ OnEventReenters \/ UNCHANGED vars
    PROVE  EventInv'
  <1> USE DEF EventInv, ListenersSafe, objects
  <1>0. TypeOK /\ CalledIsRegistered /\ DispatchIsAtomic
    OBVIOUS
  <1>1. ListenerRefsExact' /\ IsFiniteSet(mmapEventListeners)'
        /\ (\A k \in deleted : k \notin held /\ RegsOf(k) = {})'
    BY DEF ListenerRefsExact, RegsOf
  <1>2. CASE \E t \in Threads : DispatchEvent(t)
    <2>1. TypeOK'
      BY <1>0, <1>2 DEF DispatchEvent, TypeOK
    <2>2. CalledIsRegistered' /\ DispatchIsAtomic' /\ (called # NULL => mutex # NULL)'
      BY <1>0, <1>2, ListenersAssumption
         DEF DispatchEvent, CalledIsRegistered, DispatchIsAtomic
    <2> QED BY <1>1, <2>1, <2>2
  <1>3. CASE OnEvent
    <2>1. PICK r \in todo : called' = r[2] /\ todo' = todo \ {r} /\ delivered' = delivered \cup {r}
      BY <1>3 DEF OnEvent
    <2>2. /\ r \in Registrations /\ r \in mmapEventListeners /\ r = <<r[1], r[2]>>
          /\ r[1] \in Names /\ r[2] \in Listeners
      BY <1>0, <1>3 DEF OnEvent, TypeOK, Registrations, DispatchIsAtomic
    <2>3. TypeOK'
      BY <1>0, <1>3, <2>1, <2>2 DEF OnEvent, TypeOK
    <2>4. r[2] \notin deleted
      BY <2>2 DEF RegsOf
    <2>5. CalledIsRegistered'
      BY <2>1, <2>2, <2>4 DEF CalledIsRegistered
    <2>6. DispatchIsAtomic' /\ (called # NULL => mutex # NULL)'
      BY <1>0, <1>3, <2>1 DEF OnEvent, DispatchIsAtomic
    <2> QED BY <1>1, <2>3, <2>5, <2>6
  <1>4. CASE OnEventReturns \/ OnEventReenters \/ DispatchEnd \/ UNCHANGED vars
    <2> USE <1>4 DEF OnEventReturns, OnEventReenters, DispatchEnd, vars, dispatch, history
    <2>1. TypeOK'
      BY <1>0 DEF TypeOK
    <2>2. CalledIsRegistered' /\ DispatchIsAtomic' /\ (called # NULL => mutex # NULL)'
      BY <1>0 DEF CalledIsRegistered, DispatchIsAtomic
    <2> QED BY <1>1, <2>1, <2>2
  <1> QED BY <1>2, <1>3, <1>4 DEF Dispatching

LEMMA EventStep == ASSUME EventInv, [Next]_vars PROVE EventInv'
  <1>1. CASE (\E t \in Threads : DispatchEvent(t)) \/ Dispatching \/ OnEventReenters \/ UNCHANGED vars
    <2>1. UNCHANGED <<mmapEventListeners, objects>>
      BY <1>1 DEF DispatchEvent, Dispatching, OnEvent, OnEventReturns, DispatchEnd,
                  OnEventReenters, vars
    <2> QED BY <1>1, <2>1, DispatchSafe
  <1> QED BY <1>1, AddListenerSafe, DelListenerSafe, ReleaseSafe DEF Next

-----------------------------------------------------------------------------
(* The generator. *)

\* Places of the block, as the loops compute them.
LEMMA PlaceMod ==
    ASSUME NEW i \in 0..(2 * N - 1)
    PROVE  i % N = IF i < N THEN i ELSE i - N
  <1>1. N \in Nat \ {0}
    BY SizeAssumption
  <1>2. CASE i < N
    BY <1>1, <1>2
  <1>3. CASE i >= N
    <2>1. i = N + (i - N) /\ i - N \in 0..(N - 1)
      BY <1>1, <1>3
    <2> QED BY <1>1, <1>3, <2>1
  <1> QED BY <1>1, <1>2, <1>3

LEMMA WordType ==
    ASSUME NEW s \in AllSeeds, NEW k \in Nat
    PROVE  /\ Word(s, k) \in Words
           /\ Word(s, k).seed = s /\ Word(s, k).at = k /\ Word(s, k) # Junk
           /\ After1(Word(s, k)) = Word(s, k + 1)
  BY DEF Word, Words, Junk, After1, AllSeeds

\* A round of the three loops makes the word N places on, whether the others
\* it needs are of this block or already of the next.
LEMMA TwistedWord ==
    ASSUME RandTypeOK, NEW k \in 0..(N - 1), NEW s \in AllSeeds, NEW e \in Nat,
           TwistingAt(k, s, e)
    PROVE  Twisted(k) = Word(s, e + k)
  <1>1. /\ N \in Nat /\ M \in 1..(N - 1) /\ N >= 2
        /\ N <= e
    BY SizeAssumption DEF TwistingAt
  <1> DEFINE a == e - N + k
  <1>2. a \in Nat /\ a + N = e + k
    BY <1>1
  <1>3. mt[k] = Word(s, a)
    BY <1>1 DEF TwistingAt
  <1>4. mt[(k + 1) % N] = Word(s, a + 1)
    <2>1. CASE k + 1 < N
      <3>1. (k + 1) % N = k + 1 /\ k + 1 \in 0..(N - 1) /\ ~(k + 1 < k)
        BY <1>1, <2>1, PlaceMod
      <3> QED BY <1>1, <3>1 DEF TwistingAt
    <2>2. CASE k + 1 = N
      <3>1. (k + 1) % N = 0 /\ 0 \in 0..(N - 1) /\ 0 < k
        BY <1>1, <2>2, PlaceMod
      <3>2. mt[0] = Word(s, e + 0)
        BY <3>1 DEF TwistingAt
      <3>3. e + 0 = a + 1
        BY <1>1, <2>2
      <3> QED BY <3>1, <3>2, <3>3
    <2> QED BY <1>1, <2>1, <2>2
  <1>5. mt[(k + M) % N] = Word(s, a + M)
    <2>1. CASE k + M < N
      <3>1. (k + M) % N = k + M /\ k + M \in 0..(N - 1) /\ ~(k + M < k)
        BY <1>1, <2>1, PlaceMod
      <3>2. e - N + (k + M) = a + M
        BY <1>1
      <3> QED BY <3>1, <3>2 DEF TwistingAt
    <2>2. CASE k + M >= N
      <3>1. (k + M) % N = k + M - N /\ k + M - N \in 0..(N - 1) /\ k + M - N < k
        BY <1>1, <2>2, PlaceMod
      <3>2. e + (k + M - N) = a + M
        BY <1>1
      <3> QED BY <3>1, <3>2 DEF TwistingAt
    <2> QED BY <1>1, <2>1, <2>2
  <1> HIDE DEF a
  <1>6. Word(s, a) # Junk
    BY <1>2 DEF Word, Junk
  <1>7. /\ After1(Word(s, a)) = Word(s, a + 1)
        /\ [Word(s, a) EXCEPT !.at = @ + M] = Word(s, a + M)
        /\ [Word(s, a) EXCEPT !.at = @ + N] = Word(s, a + N)
    BY DEF After1, Word
  <1> QED BY <1>2, <1>3, <1>4, <1>5, <1>6, <1>7 DEF Twisted

LEMMA TwistedType == ASSUME RandTypeOK, NEW k \in 0..(N - 1) PROVE Twisted(k) \in Words
  <1>1. mt[k] \in Words /\ Junk \in Words /\ N \in Nat
    BY SizeAssumption DEF RandTypeOK, Words
  <1>2. mt[k] # Junk => [mt[k] EXCEPT !.at = @ + N] \in Words
    BY <1>1 DEF Words
  <1> QED BY <1>1, <1>2 DEF Twisted

LEMMA SeededType ==
    ASSUME RandTypeOK, NEW u \in Users, NEW k \in 0..(N - 1)
    PROVE  Seeded(u, k) \in Words
  <1>1. /\ seeding[u] \in AllSeeds /\ Junk \in Words /\ Word(seeding[u], 0) \in Words
        /\ N \in Nat
    BY SizeAssumption, WordType DEF RandTypeOK, Words
  <1>2. CASE k # 0 /\ mt[k - 1].at = k - 1
    <2>1. mt[k - 1] \in Words /\ k - 1 \in Nat
      BY <1>1, <1>2 DEF RandTypeOK
    <2>2. mt[k - 1] \in [seed: AllSeeds, at: Nat]
      BY <1>2, <2>1 DEF Words, Junk, Word
    <2>3. After1(mt[k - 1]) \in Words
      BY <2>2 DEF Words, After1
    <2> QED BY <1>2, <2>3 DEF Seeded
  <1> QED BY <1>1, <1>2 DEF Seeded

LEMMA RandInitSafe == ASSUME RandInit PROVE RandInv
  <1> USE DEF RandInit
  <1>1. N \in Nat /\ N + 1 \in Nat
    BY SizeAssumption
  <1>2. Junk \in Words /\ DefaultSeed \in AllSeeds
    BY <1>1 DEF Words, AllSeeds
  <1>3. RandTypeOK
    <2>1. kk \in [Users -> 0..(N - 1)]
      BY SizeAssumption
    <2>2. mt \in [0..(N - 1) -> Words] /\ mti \in Nat /\ seeding \in [Users -> AllSeeds]
      BY <1>1, <1>2
    <2>3. inOrder \in BOOLEAN /\ overlapped \in BOOLEAN
      BY Zenon
    <2> QED BY <1>2, <2>1, <2>2, <2>3 DEF RandTypeOK
  <1>4. OneCall
    BY <1>1 DEF OneCall, CallSafe
  <1> QED BY <1>3, <1>4 DEF RandInv, StreamInOrder

\* A call that begins while no other is under way finds the block whole.
LEMMA BeginSafe ==
    ASSUME RandInv, NEW u \in Users, SetSeed(u) \/ GenrandInt32(u)
    PROVE  RandInv'
  <1>0. RandTypeOK /\ N \in Nat /\ N >= 2
    BY SizeAssumption DEF RandInv, StreamInOrder
  <1>1. /\ rpc[u] = "idle" /\ UNCHANGED <<generator, expect, inOrder>>
        /\ kk' = [kk EXCEPT ![u] = 0]
        /\ overlapped' = (overlapped \/ \E v \in Users : rpc[v] # "idle")
    BY DEF SetSeed, GenrandInt32, Begin
  <1>2. PICK pc \in {"seed", "init", "twist", "take"} :
            /\ rpc' = [rpc EXCEPT ![u] = pc]
            /\ pc = "seed" \/ pc = IF mti = N + 1 THEN "init" ELSE IF mti >= N THEN "twist" ELSE "take"
    BY DEF SetSeed, GenrandInt32, Begin
  <1>3. PICK s \in AllSeeds :
            /\ seeding' = [seeding EXCEPT ![u] = s]
            /\ pc # "seed" => s = DefaultSeed
    <2>1. CASE SetSeed(u)
      <3>1. pc = "seed"
        BY <1>0, <1>2, <2>1 DEF SetSeed, Begin, RandTypeOK
      <3> QED BY <2>1, <3>1 DEF SetSeed, AllSeeds
    <2>2. CASE GenrandInt32(u)
      BY <2>2 DEF GenrandInt32, AllSeeds
    <2> QED BY <2>1, <2>2
  <1>4. RandTypeOK'
    <2>1. overlapped' \in BOOLEAN
      BY <1>1, Zenon
    <2>2. inOrder' \in BOOLEAN
      BY <1>0, <1>1, Zenon DEF RandTypeOK
    <2>3. kk' \in [Users -> 0..(N - 1)] /\ seeding' \in [Users -> AllSeeds]
      BY <1>0, <1>1, <1>3 DEF RandTypeOK
    <2>4. rpc' \in [Users -> {"idle", "seed", "seeded", "init", "twist", "take"}]
      BY <1>0, <1>2 DEF RandTypeOK
    <2> QED BY <1>0, <1>1, <2>1, <2>2, <2>3, <2>4 DEF RandTypeOK, generator
  <1>5. ASSUME ~overlapped' PROVE OneCall' /\ (inOrder /\ (mti = N + 1 => expect = Junk))'
    <2>1. ~overlapped /\ (\A v \in Users : rpc[v] = "idle")
      BY <1>1, <1>5
    <2>2. /\ inOrder /\ (mti = N + 1 => expect = Junk)
          /\ mti <= N + 1 /\ (mti = N + 1 \/ Block)
      BY <2>1 DEF RandInv, StreamInOrder, OneCall
    <2>3. /\ \A v \in Users \ {u} : rpc'[v] = "idle"
          /\ rpc'[u] = pc /\ kk'[u] = 0 /\ seeding'[u] = s
      BY <1>0, <1>1, <1>2, <1>3, <2>1 DEF RandTypeOK
    <2>4. UNCHANGED <<mt, mti, expect>>
      BY <1>1 DEF generator
    <2>5. CallSafe(u)'
      <3>1. SeededTo(s, 0)'
        BY DEF SeededTo
      <3>2. pc = "twist" => mti = N /\ Twisting(0)'
        <4> SUFFICES ASSUME pc = "twist" PROVE mti = N /\ Twisting(0)'
          OBVIOUS
        <4>1. mti = N /\ Block
          BY <1>0, <1>2, <2>2 DEF RandTypeOK
        <4>2. PICK sd \in AllSeeds, a \in Nat : BlockAt(sd, a)
          BY <4>1 DEF Block
        <4>3. TwistingAt(0, sd, a)'
          BY <1>0, <2>4, <4>1, <4>2 DEF BlockAt, TwistingAt, Due, Junk, Word
        <4> QED BY <4>1, <4>3 DEF Twisting
      <3>3. pc = "take" => (mti < N /\ Block)'
        <4>1. pc = "take" => mti < N
          BY <1>0, <1>2, <2>2 DEF RandTypeOK
        <4>2. Block <=> Block'
          BY <2>4 DEF Block, BlockAt, Due
        <4> QED BY <1>0, <2>2, <2>4, <4>1, <4>2
      <3>4. pc = "init" => mti = N + 1
        BY <1>0, <1>2
      <3> QED BY <1>3, <2>3, <2>4, <3>1, <3>2, <3>3, <3>4 DEF CallSafe
    <2>6. \A v \in Users \ {u} : CallSafe(v)'
      BY <2>3 DEF CallSafe
    <2> QED BY <1>1, <2>2, <2>3, <2>4, <2>5, <2>6 DEF OneCall
  <1> QED BY <1>4, <1>5 DEF RandInv, StreamInOrder

\* While no two calls overlap, the others are idle.
LEMMA Alone ==
    ASSUME RandInv, ~overlapped, NEW u \in Users, rpc[u] # "idle"
    PROVE  /\ \A v \in Users \ {u} : rpc[v] = "idle"
           /\ inOrder /\ mti <= N + 1 /\ CallSafe(u)
           /\ mti = N + 1 => expect = Junk
  BY DEF RandInv, StreamInOrder, OneCall

\* A round of init_genrand's loop, from SetSeed or before the first number.
LEMMA InitSafe ==
    ASSUME RandInv, NEW u \in Users, UNCHANGED m_dwRandSeed,
           InitGenrand(u, "seed", "seeded") \/ InitGenrand(u, "init", "twist")
    PROVE  RandInv'
  <1>0. RandTypeOK /\ N \in Nat /\ N >= 2
    BY SizeAssumption DEF RandInv, StreamInOrder
  <1>0a. PICK k \in 0..(N - 1) : k = kk[u]
    BY <1>0 DEF RandTypeOK
  <1>0b. PICK s \in AllSeeds : s = seeding[u]
    BY <1>0 DEF RandTypeOK
  <1>1. PICK to \in {"seeded", "twist"} :
            /\ rpc' = IF k = N - 1 THEN [rpc EXCEPT ![u] = to] ELSE rpc
            /\ \/ rpc[u] = "seed" /\ to = "seeded"
               \/ rpc[u] = "init" /\ to = "twist"
    <2>1. CASE InitGenrand(u, "seed", "seeded")
      BY <1>0a, <2>1 DEF InitGenrand
    <2>2. CASE InitGenrand(u, "init", "twist")
      BY <1>0a, <2>2 DEF InitGenrand
    <2> QED BY <2>1, <2>2
  <1>2. /\ mt' = [mt EXCEPT ![k] = Seeded(u, k)]
        /\ kk' = [kk EXCEPT ![u] = (k + 1) % N]
        /\ UNCHANGED <<mti, seeding, drawn>>
    BY <1>0a DEF InitGenrand
  <1>3. (k + 1) % N = IF k = N - 1 THEN 0 ELSE k + 1
    BY <1>0, PlaceMod
  <1>4. RandTypeOK'
    <2>1. mt' \in [0..(N - 1) -> Words]
      BY <1>0, <1>2, SeededType DEF RandTypeOK
    <2>2. kk' \in [Users -> 0..(N - 1)]
      BY <1>0, <1>2, <1>3 DEF RandTypeOK
    <2>3. rpc' \in [Users -> {"idle", "seed", "seeded", "init", "twist", "take"}]
      BY <1>0, <1>1 DEF RandTypeOK
    <2> QED BY <1>0, <1>2, <2>1, <2>2, <2>3 DEF RandTypeOK, drawn
  <1>5. ASSUME ~overlapped' PROVE OneCall' /\ (inOrder /\ (mti = N + 1 => expect = Junk))'
    <2>0. ~overlapped /\ rpc[u] # "idle" /\ UNCHANGED <<mti, seeding, expect, inOrder>>
      BY <1>1, <1>2, <1>5 DEF drawn
    <2>1. /\ \A v \in Users \ {u} : rpc[v] = "idle"
          /\ inOrder /\ mti <= N + 1 /\ CallSafe(u)
          /\ mti = N + 1 => expect = Junk
      BY <2>0, Alone
    <2>2. SeededTo(s, k)
      BY <1>1, <1>0a, <1>0b, <2>1 DEF CallSafe
    <2>3. mt'[k] = Word(s, k)
      <3>1. Seeded(u, k) = Word(s, k)
        <4>1. CASE k = 0
          BY <1>0b, <4>1 DEF Seeded
        <4>2. CASE k # 0
          <5>1. k - 1 \in 0..(N - 1) /\ k - 1 < k /\ k - 1 \in Nat /\ (k - 1) + 1 = k
            BY <1>0, <4>2
          <5>2. mt[k - 1] = Word(s, k - 1)
            BY <2>2, <5>1 DEF SeededTo
          <5>3. /\ Word(s, k - 1).at = k - 1
                /\ After1(Word(s, k - 1)) = Word(s, (k - 1) + 1)
            BY <5>1, WordType
          <5> QED BY <4>2, <5>1, <5>2, <5>3 DEF Seeded
        <4> QED BY <4>1, <4>2
      <3> QED BY <1>0, <1>2, <3>1 DEF RandTypeOK
    <2>4. SeededTo(s, k + 1)'
      <3> SUFFICES ASSUME NEW i \in 0..(N - 1), i < k + 1 PROVE mt'[i] = Word(s, i)
        BY <2>0 DEF SeededTo
      <3>1. CASE i = k
        BY <2>3, <3>1
      <3>2. CASE i # k
        <4>1. i < k /\ mt'[i] = mt[i]
          BY <1>0, <1>2, <3>2 DEF RandTypeOK
        <4> QED BY <2>2, <4>1 DEF SeededTo
      <3> QED BY <3>1, <3>2
    <2>5. /\ \A v \in Users \ {u} : rpc'[v] = "idle"
          /\ rpc'[u] = IF k = N - 1 THEN to ELSE rpc[u]
          /\ rpc'[u] # "idle"
          /\ kk'[u] = (IF k = N - 1 THEN 0 ELSE k + 1) /\ seeding'[u] = s
      BY <1>0b, <2>0, <1>0, <1>1, <1>2, <1>3, <2>1 DEF RandTypeOK
    <2>6. CallSafe(u)'
      <3>1. rpc[u] = "init" => mti = N + 1 /\ s = DefaultSeed
        BY <1>0b, <2>1 DEF CallSafe
      <3>2. CASE k # N - 1
        BY <1>1, <2>0, <2>4, <2>5, <3>1, <3>2 DEF CallSafe
      <3>3. CASE k = N - 1
        <4>1. SeededTo(s, N)'
          <5>1. k + 1 = N
            BY <1>0, <3>3
          <5> QED BY <2>4, <5>1
        <4>2. to = "twist" => mti = N + 1 /\ Twisting(0)'
          <5> SUFFICES ASSUME to = "twist" PROVE mti = N + 1 /\ Twisting(0)'
            OBVIOUS
          <5>1. mti = N + 1 /\ s = DefaultSeed /\ expect' = Junk
            BY <1>1, <2>0, <2>1, <3>1
          <5>2. N \in Nat /\ DefaultSeed \in AllSeeds
            BY <1>0 DEF AllSeeds
          <5>3. \A i \in 0..(N - 1) : mt'[i] = Word(DefaultSeed, i) /\ N - N + i = i /\ ~(i < 0)
            BY <1>0, <2>0, <4>1, <5>1 DEF SeededTo
          <5>4. TwistingAt(0, DefaultSeed, N)'
            BY <1>0, <5>1, <5>3 DEF TwistingAt, Due
          <5> QED BY <2>0, <5>1, <5>2, <5>4 DEF Twisting
        <4> QED BY <1>1, <2>0, <2>5, <3>3, <4>1, <4>2 DEF CallSafe
      <3> QED BY <3>2, <3>3
    <2>7. \A v \in Users \ {u} : CallSafe(v)'
      BY <2>5 DEF CallSafe
    <2> QED BY <2>0, <2>1, <2>5, <2>6, <2>7 DEF OneCall
  <1> QED BY <1>4, <1>5 DEF RandInv, StreamInOrder

\* SetSeed ends: the seeded block goes on from where the last one was.
LEMMA SetSeedEndSafe == ASSUME RandInv, NEW u \in Users, SetSeedEnd(u) PROVE RandInv'
  <1>0. RandTypeOK /\ N \in Nat /\ N >= 2 /\ seeding[u] \in AllSeeds /\ mti \in Nat
    BY SizeAssumption DEF RandInv, StreamInOrder, RandTypeOK
  <1>1. /\ rpc[u] = "seeded" /\ rpc' = [rpc EXCEPT ![u] = "idle"]
        /\ m_dwRandSeed' = seeding[u]
        /\ expect' = Junk
        /\ UNCHANGED <<mt, mti, kk, seeding, inOrder, overlapped>>
    BY DEF SetSeedEnd
  <1>2. RandTypeOK'
    <2>1. expect' \in Words
      BY <1>1 DEF Words
    <2>2. rpc' \in [Users -> {"idle", "seed", "seeded", "init", "twist", "take"}]
      BY <1>0, <1>1 DEF RandTypeOK
    <2> QED BY <1>0, <1>1, <2>1, <2>2 DEF RandTypeOK
  <1>3. ASSUME ~overlapped' PROVE OneCall' /\ (inOrder /\ (mti = N + 1 => expect = Junk))'
    <2>1. /\ \A v \in Users \ {u} : rpc[v] = "idle"
          /\ inOrder /\ mti <= N + 1 /\ SeededTo(seeding[u], N)
          /\ mti = N + 1 => expect = Junk
      BY <1>1, <1>3, Alone DEF CallSafe
    <2>2. \A v \in Users : rpc'[v] = "idle"
      BY <1>0, <1>1, <2>1 DEF RandTypeOK
    <2>3. mti # N + 1 => Block'
      <3> SUFFICES ASSUME mti # N + 1 PROVE Block'
        OBVIOUS
      <3>2. \A i \in 0..(N - 1) : mt'[i] = Word(seeding[u], i) /\ mti - mti + i = i
        BY <1>0, <1>1, <2>1 DEF SeededTo
      <3>3. BlockAt(seeding[u], mti)'
        BY <1>0, <1>1, <3>2 DEF BlockAt, Due
      <3> QED BY <1>0, <1>1, <3>3 DEF Block
    <2> QED BY <1>1, <2>1, <2>2, <2>3 DEF OneCall, CallSafe
  <1> QED BY <1>2, <1>3 DEF RandInv, StreamInOrder

\* A round of the three loops, the last of which starts the block.
LEMMA TwistSafe == ASSUME RandInv, NEW u \in Users, Twist(u) PROVE RandInv'
  <1>0. RandTypeOK /\ N \in Nat /\ N >= 2
    BY SizeAssumption DEF RandInv, StreamInOrder
  <1>0a. PICK k \in 0..(N - 1) : k = kk[u]
    BY <1>0 DEF RandTypeOK
  <1>1. /\ rpc[u] = "twist"
        /\ mt' = [mt EXCEPT ![k] = Twisted(k)]
        /\ kk' = [kk EXCEPT ![u] = (k + 1) % N]
        /\ k = N - 1 => mti' = 0 /\ rpc' = [rpc EXCEPT ![u] = "take"]
        /\ k # N - 1 => UNCHANGED <<mti, rpc>>
        /\ UNCHANGED <<m_dwRandSeed, seeding, expect, inOrder, overlapped>>
    BY <1>0a DEF Twist, drawn
  <1>2. (k + 1) % N = IF k = N - 1 THEN 0 ELSE k + 1
    BY <1>0, PlaceMod
  <1>3. RandTypeOK'
    <2>1. mt' \in [0..(N - 1) -> Words]
      BY <1>0, <1>1, TwistedType DEF RandTypeOK
    <2>2. kk' \in [Users -> 0..(N - 1)]
      BY <1>0, <1>1, <1>2 DEF RandTypeOK
    <2>3. /\ rpc \in [Users -> {"idle", "seed", "seeded", "init", "twist", "take"}]
          /\ mti \in Nat
      BY <1>0 DEF RandTypeOK
    <2>4. /\ rpc' \in [Users -> {"idle", "seed", "seeded", "init", "twist", "take"}]
          /\ mti' \in Nat
      <3>1. CASE k = N - 1
        <4>1. rpc' = [rpc EXCEPT ![u] = "take"] /\ mti' = 0
          BY <1>1, <3>1
        <4> QED BY <2>3, <4>1
      <3>2. CASE k # N - 1
        <4>1. rpc' = rpc /\ mti' = mti
          BY <1>1, <3>2
        <4> QED BY <2>3, <4>1
      <3> QED BY <3>1, <3>2
    <2> QED BY <1>0, <1>1, <2>1, <2>2, <2>4 DEF RandTypeOK
  <1>4. ASSUME ~overlapped' PROVE OneCall' /\ (inOrder /\ (mti = N + 1 => expect = Junk))'
    <2>1. /\ \A v \in Users \ {u} : rpc[v] = "idle"
          /\ inOrder /\ mti <= N + 1 /\ mti \in {N, N + 1} /\ Twisting(k)
          /\ mti = N + 1 => expect = Junk
      BY <1>1, <1>4, <1>0a, Alone DEF CallSafe
    <2>2. PICK sd \in AllSeeds, a \in Nat : TwistingAt(k, sd, a)
      BY <2>1 DEF Twisting
    <2>2a. N <= a /\ Due(sd, a)' /\ expect' = expect
      BY <1>1, <2>2 DEF TwistingAt, Due
    <2>3. ASSUME NEW i \in 0..(N - 1)
          PROVE  mt'[i] = Word(sd, IF i < k + 1 THEN a + i ELSE a - N + i)
      <3>1. CASE i = k
        <4>1. mt'[k] = Word(sd, a + k)
          BY <1>0, <1>1, <2>2, TwistedWord DEF RandTypeOK
        <4> QED BY <3>1, <4>1
      <3>2. CASE i # k
        <4>1. mt'[i] = mt[i] /\ (i < k + 1 <=> i < k)
          BY <1>0, <1>1, <3>2 DEF RandTypeOK
        <4> QED BY <2>2, <4>1 DEF TwistingAt
      <3> QED BY <3>1, <3>2
    <2>4. /\ \A v \in Users \ {u} : rpc'[v] = "idle"
          /\ rpc'[u] = (IF k = N - 1 THEN "take" ELSE "twist")
          /\ kk'[u] = (IF k = N - 1 THEN 0 ELSE k + 1)
      BY <1>0, <1>1, <1>2, <2>1 DEF RandTypeOK
    <2>5. CallSafe(u)' /\ mti' <= N + 1 /\ (mti' = N + 1 => expect = Junk)
      <3>1. CASE k # N - 1
        <4>1. Twisting(k + 1)'
          BY <2>2a, <2>3 DEF Twisting, TwistingAt
        <4> QED BY <1>1, <2>1, <2>4, <3>1, <4>1 DEF CallSafe
      <3>2. CASE k = N - 1
        <4>1. \A i \in 0..(N - 1) : mt'[i] = Word(sd, a - 0 + i)
          <5> SUFFICES ASSUME NEW i \in 0..(N - 1) PROVE mt'[i] = Word(sd, a - 0 + i)
            OBVIOUS
          <5>1. i < k + 1 /\ a - 0 + i = a + i
            BY <1>0, <2>2a, <3>2
          <5> QED BY <2>3, <5>1
        <4>2. Block' /\ mti' = 0
          BY <1>1, <2>2a, <3>2, <4>1 DEF Block, BlockAt
        <4> QED BY <1>0, <2>4, <3>2, <4>2 DEF CallSafe
      <3> QED BY <3>1, <3>2
    <2>6. \A v \in Users \ {u} : CallSafe(v)'
      BY <2>4 DEF CallSafe
    <2> QED BY <1>1, <2>1, <2>4, <2>5, <2>6 DEF OneCall
  <1> QED BY <1>3, <1>4 DEF RandInv, StreamInOrder

\* The word drawn is the one that is due, and the next one is one on.
LEMMA TakeSafe == ASSUME RandInv, NEW u \in Users, Take(u) PROVE RandInv'
  <1>0. RandTypeOK /\ N \in Nat /\ N >= 2 /\ mti \in Nat
    BY SizeAssumption DEF RandInv, StreamInOrder, RandTypeOK
  <1>1. /\ rpc[u] = "take" /\ rpc' = [rpc EXCEPT ![u] = "idle"]
        /\ mti' = mti + 1
        /\ UNCHANGED <<mt, m_dwRandSeed, kk, seeding, overlapped>>
    BY DEF Take
  <1>1a. PICK y : y = mt[mti % N]
    OBVIOUS
  <1>1b. /\ inOrder' = (inOrder /\ y # Junk /\ expect \in {Junk, y})
         /\ expect' = After1(y)
    BY <1>1a DEF Take
  <1>2. RandTypeOK'
    <2>1. expect' \in Words
      <3>0. y \in Words
        <4>1. mti % N \in 0..(N - 1)
          BY <1>0
        <4> QED BY <1>0, <1>1a, <4>1 DEF RandTypeOK
      <3>1. \E s \in AllSeeds, k \in Nat \cup {-1} : y = [seed |-> s, at |-> k]
        BY <3>0 DEF Words, Junk, Word, AllSeeds
      <3>2. PICK s \in AllSeeds, k \in Nat \cup {-1} : y = [seed |-> s, at |-> k]
        BY <3>1
      <3>3. expect' = [seed |-> s, at |-> k + 1] /\ k + 1 \in Nat
        BY <1>1b, <3>2 DEF After1
      <3> QED BY <3>3 DEF Words
    <2>2. rpc' \in [Users -> {"idle", "seed", "seeded", "init", "twist", "take"}] /\ mti' \in Nat
      BY <1>0, <1>1 DEF RandTypeOK
    <2>3. inOrder' \in BOOLEAN
      BY <1>1b, Zenon
    <2> QED BY <1>0, <1>1, <2>1, <2>2, <2>3 DEF RandTypeOK
  <1>3. ASSUME ~overlapped' PROVE OneCall' /\ (inOrder /\ (mti = N + 1 => expect = Junk))'
    <2>1. /\ \A v \in Users \ {u} : rpc[v] = "idle"
          /\ inOrder /\ mti < N /\ Block
      BY <1>1, <1>3, Alone DEF CallSafe
    <2>2. \A v \in Users : rpc'[v] = "idle"
      BY <1>0, <1>1, <2>1 DEF RandTypeOK
    <2>3. PICK sd \in AllSeeds, a \in Nat : BlockAt(sd, a)
      BY <2>1 DEF Block
    <2>4. mti % N = mti /\ mti \in 0..(N - 1) /\ mti <= a /\ a - mti + mti = a
      BY <1>0, <2>1, <2>3, PlaceMod DEF BlockAt
    <2>5. y = Word(sd, a)
      BY <1>1a, <2>3, <2>4 DEF BlockAt
    <2>6. expect' = Word(sd, a + 1)
      BY <1>1b, <2>5, WordType
    <2>7. Block'
      <3>1. \A i \in 0..(N - 1) : (a + 1) - (mti + 1) + i = a - mti + i
        BY <1>0, <2>4
      <3>2. BlockAt(sd, a + 1)'
        <4>1. \A i \in 0..(N - 1) : mt'[i] = Word(sd, (a + 1) - mti' + i)
          BY <1>1, <2>3, <3>1 DEF BlockAt
        <4>2. mti' <= a + 1
          BY <1>0, <1>1, <2>4
        <4> QED BY <2>6, <4>1, <4>2 DEF BlockAt, Due
      <3> QED BY <3>2 DEF Block
    <2>8. inOrder' /\ mti' # N + 1 /\ mti' <= N + 1
      <3>1. y # Junk /\ expect \in {Junk, y}
        BY <2>3, <2>5, WordType DEF BlockAt, Due
      <3>2. inOrder'
        BY <1>1b, <2>1, <3>1, Zenon
      <3> QED BY <1>0, <1>1, <2>1, <3>2
    <2> QED BY <2>2, <2>7, <2>8 DEF OneCall, CallSafe
  <1> QED BY <1>2, <1>3 DEF RandInv, StreamInOrder

LEMMA RandFrame == ASSUME RandInv, UNCHANGED <<generator, calls, drawn>> PROVE RandInv'
  <1>1. UNCHANGED <<mt, mti, m_dwRandSeed, rpc, kk, seeding, expect, inOrder, overlapped>>
    BY DEF generator, calls, drawn
  <1>2. RandTypeOK'
    BY <1>1 DEF RandInv, StreamInOrder, RandTypeOK
  <1>3. OneCall' = OneCall
    BY <1>1 DEF OneCall, CallSafe, SeededTo, Block, Twisting, BlockAt, TwistingAt, Due
  <1> QED BY <1>1, <1>2, <1>3 DEF RandInv, StreamInOrder

-----------------------------------------------------------------------------
(* Both, and the steps of one leave the other alone. *)

LEMMA ClsStep == ASSUME ClsInv, [ClsNext]_allvars PROVE ClsInv'
  <1> USE DEF ClsInv
  <1>1. InstanceInv'
    <2>1. (\E u \in Users : Instance(u)) \/ UNCHANGED instance
      BY DEF ClsNext, EventNext, RandNext, allvars, randvars
    <2> QED BY <2>1, InstanceStep, InstanceFrame
  <1>2. EventInv'
    <2>1. [Next]_vars
      BY DEF ClsNext, EventNext, allvars
    <2> QED BY <2>1, EventStep
  <1>3. RandInv'
    <2>1. CASE UNCHANGED <<generator, calls, drawn>>
      BY <2>1, RandFrame
    <2>2. CASE \E u \in Users : Use(u)
      BY <2>2, BeginSafe, InitSafe, SetSeedEndSafe, TwistSafe, TakeSafe DEF Use
    <2> QED BY <2>1, <2>2 DEF ClsNext, EventNext, RandNext, allvars, randvars
  <1> QED BY <1>1, <1>2, <1>3

\* The invariant of the three singletons, at every step of every thread.
THEOREM ClsInvCorrect == ClsSpec => []ClsInv
  <1>1. ClsInit => ClsInv
    BY InstanceInit, EventInit, RandInitSafe DEF ClsInit, ClsInv, RandInit
  <1>2. ClsInv /\ [ClsNext]_allvars => ClsInv'
    BY ClsStep
  <1> QED BY <1>1, <1>2, PTL DEF ClsSpec

\* Whichever threads ask for the instance first, however many, and whatever
\* the build does to the constructor's stores, one object is made
\* (singleton.h:55-69).
THEOREM OneInstanceCorrect == ClsSpec => []OneInstance
  <1>1. ClsInv => OneInstance
    BY DEF ClsInv, InstanceInv
  <1> QED BY <1>1, ClsInvCorrect, PTL

\* For any threads, names and listeners: a registration is counted once, a
\* callback runs on a listener that is registered and not deleted, and a
\* dispatch meets what was registered when it began (EventMgr.cpp:14-62).
THEOREM ListenersSafeCorrect == ClsSpec => []ListenersSafe
  <1>1. ClsInv => ListenersSafe
    BY DEF ClsInv, EventInv
  <1> QED BY <1>1, ClsInvCorrect, PTL

\* For a block of any size, any distance of the recurrence and any number of
\* regenerations: numbers come in order as long as no two calls overlap
\* (RandTool.cpp:42-81).
THEOREM StreamInOrderCorrect == ClsSpec => []StreamInOrder
  <1>1. ClsInv => StreamInOrder
    BY DEF ClsInv, RandInv
  <1> QED BY <1>1, ClsInvCorrect, PTL

-----------------------------------------------------------------------------
(* RandInt. *)

LEMMA TimesNat == ASSUME NEW a \in Nat, NEW b \in Nat PROVE a * b \in Nat
  OBVIOUS

LEMMA TimesMonotonic ==
    ASSUME NEW a \in Nat, NEW b \in Nat, NEW c \in Nat, a <= b
    PROVE  a * c \in Nat /\ b * c \in Nat /\ a * c <= b * c
  <1> DEFINE d == b - a
  <1>1. d \in Nat /\ b = a + d
    OBVIOUS
  <1> HIDE DEF d
  <1>2. (a + d) * c = a * c + d * c
    BY <1>1
  <1>3. a * c \in Nat /\ b * c \in Nat /\ d * c \in Nat
    BY <1>1, TimesNat
  <1> QED BY <1>1, <1>2, <1>3

\* A quotient is known by its bounds.
LEMMA Quotient ==
    ASSUME NEW a \in Nat, NEW w \in Nat \ {0}, NEW q \in Nat, q * w <= a, a < (q + 1) * w
    PROVE  a \div w = q
  <1> DEFINE d == a \div w
             m == a % w
  <1>1. d \in Nat /\ m \in Nat /\ m < w /\ a = d * w + m
    OBVIOUS
  <1> HIDE DEF d, m
  <1>2. (q + 1) * w = q * w + w /\ (d + 1) * w = d * w + w /\ q * w \in Nat /\ d * w \in Nat
    BY <1>1, TimesNat
  <1>3. CASE d < q
    <2>1. (d + 1) * w <= q * w
      BY <1>1, <1>3, TimesMonotonic
    <2> QED BY <1>1, <1>2, <2>1
  <1>4. CASE q < d
    <2>1. (q + 1) * w <= d * w
      BY <1>1, <1>4, TimesMonotonic
    <2> QED BY <1>1, <1>2, <2>1
  <1> QED BY <1>1, <1>3, <1>4 DEF d

\* The bounds of a quotient.
LEMMA QuotientBounds ==
    ASSUME NEW a \in Nat, NEW w \in Nat \ {0}
    PROVE  /\ a \div w \in Nat /\ (a \div w) * w \in Nat
           /\ (a \div w) * w <= a /\ a < (a \div w) * w + w
  <1> DEFINE d == a \div w
             m == a % w
  <1>1. d \in Nat /\ m \in Nat /\ m < w /\ a = d * w + m
    OBVIOUS
  <1> HIDE DEF d, m
  <1>2. d * w \in Nat
    BY <1>1, TimesNat
  <1>3. d * w <= a /\ a < d * w + w
    BY <1>1, <1>2
  <1> QED BY <1>1, <1>2, <1>3 DEF d

\* The offset is the product of the word and the number of values, in units
\* of W: it never wraps.
LEMMA OffsetIs ==
    ASSUME NEW r \in 0..(W - 1), NEW k \in 0..W, NEW q \in 0..(W - 1),
           q * W <= r * k, r * k < (q + 1) * W
    PROVE  Offset(r, k) = q
  <1>0. W \in Nat \ {0} /\ r \in Nat /\ k \in Nat /\ q \in Nat
    BY WordAssumption
  <1>1. r * k \in Nat /\ W * W \in Nat
    BY <1>0, TimesNat
  <1>2. (q + 1) * W <= W * W
    BY <1>0, TimesMonotonic
  <1>3. (q + 1) * W \in Nat
    BY <1>0, TimesNat
  <1> DEFINE p == r * k
             ww == W * W
  <1>4. p < ww
    BY <1>1, <1>2, <1>3
  <1>5. p % ww = p
    <2> HIDE DEF p, ww
    <2>1. p \in Nat /\ ww \in Nat
      BY <1>1 DEF p, ww
    <2> QED BY <1>4, <2>1
  <1>6. p \div W = q
    BY <1>0, <1>1, Quotient
  <1>7. q % W = q
    BY <1>0
  <1> QED BY <1>5, <1>6, <1>7 DEF Offset

\* Every word gives an offset below the number of values.
LEMMA OffsetBelow ==
    ASSUME NEW r \in 0..(W - 1), NEW k \in 1..W
    PROVE  Offset(r, k) \in 0..(k - 1)
  <1>0. W \in Nat \ {0} /\ r \in Nat /\ k \in Nat /\ k > 0
    BY WordAssumption
  <1> DEFINE q == (r * k) \div W
  <1>1. r * k \in Nat /\ q \in Nat /\ q * W \in Nat /\ q * W <= r * k /\ r * k < q * W + W
    BY <1>0, TimesNat, QuotientBounds
  <1>2. r * k <= (W - 1) * k /\ (W - 1) * k = W * k - k /\ W * k \in Nat /\ W * k = k * W
    <2>1. W - 1 \in Nat /\ r <= W - 1
      BY <1>0
    <2>2. r * k <= (W - 1) * k
      BY <1>0, <2>1, TimesMonotonic
    <2>3. (W - 1) * k = W * k - k
      BY <1>0
    <2>4. W * k \in Nat /\ W * k = k * W
      BY <1>0, TimesNat
    <2> QED BY <2>2, <2>3, <2>4
  <1> HIDE DEF q
  <1>3. q < k
    <2>1. ASSUME k <= q PROVE FALSE
      <3>1. k * W <= q * W
        BY <1>0, <1>1, <2>1, TimesMonotonic
      <3> QED BY <1>0, <1>1, <1>2, <3>1
    <2> QED BY <1>0, <1>1, <2>1
  <1>4. q \in 0..(W - 1) /\ k \in 0..W
    BY <1>0, <1>1, <1>3
  <1>5. (q + 1) * W = q * W + W
    BY <1>0, <1>1
  <1>6. Offset(r, k) = q
    BY <1>1, <1>4, <1>5, OffsetIs
  <1> QED BY <1>1, <1>3, <1>6

\* Every offset below the number of values is that of some word.
LEMMA OffsetOf ==
    ASSUME NEW k \in 1..W, NEW d \in 0..(k - 1)
    PROVE  \E r \in 0..(W - 1) : Offset(r, k) = d
  <1>0. W \in Nat \ {0} /\ d \in Nat /\ k \in Nat \ {0} /\ d + 1 <= k
    BY WordAssumption
  <1> DEFINE a == d * W + (k - 1)
             r == a \div k
  <1>1. d * W \in Nat /\ a \in Nat
    <2>1. d * W \in Nat
      BY <1>0, TimesNat
    <2> QED BY <1>0, <2>1
  <1>2. r \in Nat /\ r * k \in Nat /\ r * k <= a /\ a < r * k + k
    BY <1>0, <1>1, QuotientBounds
  <1>3. d * W <= r * k /\ r * k < (d + 1) * W
    <2>1. (d + 1) * W = d * W + W
      BY <1>0
    <2> HIDE DEF r
    <2> QED BY <1>0, <1>1, <1>2, <2>1
  <1>4. r < W
    <2>1. (d + 1) * W <= k * W /\ k * W \in Nat /\ W * k = k * W
      BY <1>0, TimesMonotonic
    <2>2. ASSUME W <= r PROVE FALSE
      <3>1. W * k <= r * k
        BY <1>0, <1>2, <2>2, TimesMonotonic
      <3> HIDE DEF r
      <3>2. (d + 1) * W \in Nat
        BY <1>0, TimesNat
      <3> QED BY <1>2, <1>3, <2>1, <3>1, <3>2
    <2> HIDE DEF r
    <2> QED BY <1>0, <1>2, <2>2
  <1> HIDE DEF r
  <1>5. Offset(r, k) = d
    <2>1. r \in 0..(W - 1) /\ k \in 0..W /\ d \in 0..(W - 1)
      BY <1>0, <1>2, <1>4
    <2> QED BY <1>3, <2>1, OffsetIs
  <1>6. r \in 0..(W - 1)
    BY <1>0, <1>2, <1>4
  <1> QED BY <1>5, <1>6

\* The number RandInt makes of a word is in the range asked for and every
\* number of the range is made of some word, for words of any length.
LEMMA RangeIsExact ==
    ASSUME NEW min \in 0..(W - 1), NEW max \in 0..(W - 1), min <= max
    PROVE  RangeExact(min, max)
  <1> DEFINE k == max - min + 1
  <1>0. W \in Nat \ {0} /\ min \in Nat /\ max \in Nat /\ k \in 1..W /\ k \in Nat
    BY WordAssumption
  <1>1. ASSUME k < W \div 2
        PROVE  /\ \A r \in 0..(W - 1) : RandInt(min, max, r) \in min..max
               /\ \A v \in min..max : \E r \in 0..(W - 1) :
                     RandInt(min, max, r) = v /\ RandInt(max, min, r) = v
    <2>1. k < W
      BY <1>0, <1>1
    <2>2. k % W = k
      <3> HIDE DEF k
      <3> QED BY <1>0, <2>1
    <2>3. Rank(min, max) = k
      BY <1>1, <2>2 DEF Rank, Signed
    <2>4. \A d \in 0..(k - 1) : min + d \in min..max /\ (min + d) % W = min + d
      BY <1>0
    <2>5. \A r : RandInt(min, max, r) = (min + Offset(r, k)) % W
                 /\ RandInt(max, min, r) = (min + Offset(r, k)) % W
      <3>1. CASE min = max
        BY <2>3, <3>1 DEF RandInt
      <3>2. CASE min < max
        BY <1>0, <2>3, <3>2 DEF RandInt
      <3> QED BY <1>0, <3>1, <3>2
    <2> HIDE DEF k
    <2>6. ASSUME NEW r \in 0..(W - 1) PROVE RandInt(min, max, r) \in min..max
      <3>1. Offset(r, k) \in 0..(k - 1)
        BY <1>0, OffsetBelow
      <3> QED BY <2>4, <2>5, <3>1
    <2>7. ASSUME NEW v \in min..max
          PROVE  \E r \in 0..(W - 1) : RandInt(min, max, r) = v /\ RandInt(max, min, r) = v
      <3>1. v - min \in 0..(k - 1) /\ min + (v - min) = v
        BY <1>0 DEF k
      <3>2. PICK r \in 0..(W - 1) : Offset(r, k) = v - min
        BY <1>0, <3>1, OffsetOf
      <3> QED BY <2>4, <2>5, <3>1, <3>2
    <2> QED BY <2>6, <2>7
  <1>2. ASSUME k = W, NEW r \in 0..(W - 1) PROVE RandInt(min, max, r) = min
    <2>1. W % W = 0 /\ min % W = min
      BY <1>0
    <2>2. Rank(min, max) \in {0, 0 - W} /\ (W \div 2 > 0 => Rank(min, max) = 0)
      BY <1>0, <1>2, <2>1 DEF Rank, Signed
    <2>3. CASE W = 1
      <3>1. \A x \in Int : (min + x) % W = 0 /\ min = 0
        BY <1>0, <2>3
      <3>2. Offset(r, Rank(min, max)) \in Int
        BY <1>0, <2>2, <2>3 DEF Offset
      <3> QED BY <3>1, <3>2 DEF RandInt
    <2>4. CASE W # 1
      <3>1. Rank(min, max) = 0
        BY <1>0, <2>2, <2>4
      <3>2. Offset(r, 0) = 0
        <4>1. r * 0 = 0 * W /\ r * 0 < (0 + 1) * W /\ 0 * W <= r * 0
          BY <1>0
        <4>2. 0 \in 0..(W - 1) /\ 0 \in 0..W
          BY <1>0
        <4> QED BY <4>1, <4>2, OffsetIs
      <3> QED BY <1>0, <2>1, <3>1, <3>2 DEF RandInt
    <2> QED BY <2>3, <2>4
  <1> QED BY <1>1, <1>2 DEF RangeExact

\* Whatever word RandInt takes, for words of any length and every range an
\* int can count, in either order of its ends (RandTool.cpp:24-35).
THEOREM RandIntInRangeCorrect == ClsSpec => []RandIntInRange
  <1>1. RandIntInRange
    BY RangeIsExact DEF RandIntInRange
  <1> QED BY <1>1, PTL

-----------------------------------------------------------------------------
(* CMemMgr.  A step is one of one call; it moves at most one block, from a *)
(* place no other call has, so each part of the invariant is shown of the  *)
(* block and the call that changed.                                        *)

\* What a call holds at each of its steps; what it holds is malloc'ed.
CallInv(t) ==
    LET c == call[t] IN
    /\ c.pc = "idle" => c = Idle
    /\ c.pRet # NIL <=> c.pc \in {"count", "countNew", "push"}
    /\ c.pRet # NIL => c.pRet # c.old
    /\ c.old # NIL => c.pc \in {"pop", "insert", "malloc", "count", "countNew", "free"}
    /\ c.pc = "free" => c.old # NIL
    /\ c.pc \in {"pop", "insert", "push"} => c.iIndex \in Indexes
    /\ c.pc \in {"pop", "push"} => mmapMemItems[c.iIndex] # NIL
    /\ c.pc \in {"pop", "insert", "malloc"} => c.iNeedLen > 0
    /\ \A b \in Held(t) : heap[b].size > 0

\* The queues: no block twice in one, none in two, all malloc'ed.
QueuesInv ==
    /\ \A i \in Indexes : mmapMemItems[i] # NIL => IsInjective(mmapMemItems[i])
    /\ \A i, j \in Indexes : i # j => Kept(i) \cap Kept(j) = {}
    /\ \A i \in Indexes : \A b \in Kept(i) : heap[b].size > 0

PlaceInv ==
    /\ AllocTypeOK /\ miAlign > 0
    /\ QueuesInv
    /\ \A t \in Callers : CallInv(t)
    /\ \A b \in live : heap[b].size > 0
    /\ \A i \in Indexes : live \cap Kept(i) = {}
    /\ \A t \in Callers : Held(t) \cap live = {}
    /\ \A t \in Callers : \A i \in Indexes : Held(t) \cap Kept(i) = {}
    /\ \A t, u \in Callers : t # u => Held(t) \cap Held(u) = {}

\* The size of a block that goes to the queue of index i when it is freed.
ClassSize(i, n) == i \in Indexes /\ n = i * miAlign /\ n > miAllocMinLimit

\* A block in use: its header says its size, which is the small limit or the
\* size of an index in the map, and it holds what was asked for.
BlockInv(b) ==
    LET n == heap[b].size IN
    /\ heap[b].iTotal = n /\ n >= MEM_MGR_ALLOC_HEAD_LEN + heap[b].iUse
    /\ n = miAllocMinLimit \/ \E i \in Indexes : ClassSize(i, n) /\ mmapMemItems[i] # NIL

SizeOfCall(t) ==
    LET c == call[t] IN
    /\ c.pc \in {"pop", "insert", "malloc", "count", "countNew"} =>
          /\ c.iNeedLen >= MEM_MGR_ALLOC_HEAD_LEN + c.iLen
          /\ \/ c.iNeedLen = miAllocMinLimit /\ c.iIndex = 0
             \/ /\ ClassSize(c.iIndex, c.iNeedLen)
                /\ c.pc # "insert" => mmapMemItems[c.iIndex] # NIL
    /\ c.pc \in {"count", "countNew"} => heap[c.pRet].size = c.iNeedLen
    /\ c.pc = "push" => ClassSize(c.iIndex, heap[c.pRet].size)
    /\ c.old # NIL => BlockInv(c.old)

SizeInv ==
    ~retuned =>
        /\ \A b \in Blocks : heap[b].size > 0 =>
              b \in live \cup Pool \/ \E t \in Callers : b \in Held(t)
        /\ \A b \in live : BlockInv(b)
        /\ \A i \in Indexes : \A b \in Kept(i) : ClassSize(i, heap[b].size)
        /\ \A t \in Callers : SizeOfCall(t)

Missed(i) == {t \in Callers : call[t].pc \in {"insert", "malloc"} /\ call[t].iIndex = i}

\* A thread that missed the queue has its block coming.
HoardInv ==
    ~retuned => \A i \in Indexes :
        Cardinality(OfIndex(i)) + Cardinality(Missed(i)) <= peak[i]

\* Multiples.
LEMMA Multiple ==
    ASSUME NEW q \in Nat, NEW a \in Nat \ {0}
    PROVE  q * a \in Nat /\ (q * a) \div a = q /\ (q * a) % a = 0
  OBVIOUS

\* A large request is rounded up to the size of its index.
LEMMA RoundedSize ==
    ASSUME NEW len \in MallocLens, NEW a \in AllAligns \ {0}
    PROVE  /\ MapIndex(len, a) \in Indexes
           /\ MapIndex(len, a) \in Nat \ {0}
           /\ Rounded(len, a) \in Nat
           /\ Rounded(len, a) = MapIndex(len, a) * a
           /\ Rounded(len, a) > MEM_MGR_ALLOC_HEAD_LEN + len
  <1> DEFINE n == MEM_MGR_ALLOC_HEAD_LEN + len
             q == (n \div a) + 1
  <1>1. n \in Nat /\ a \in Nat \ {0}
    BY AlignAssumption DEF AllAligns
  <1>2. Rounded(len, a) = n + (a - (n % a))
    BY DEF Rounded
  <1> HIDE DEF n
  <1>3. n = (n \div a) * a + (n % a) /\ n % a \in 0..(a - 1) /\ n \div a \in Nat
    BY <1>1
  <1>4. q \in Nat \ {0} /\ q * a = (n \div a) * a + a
    BY <1>1, <1>3
  <1>5. Rounded(len, a) = q * a /\ Rounded(len, a) > n
    BY <1>1, <1>2, <1>3, <1>4
  <1> HIDE DEF q
  <1>6. (q * a) \div a = q /\ q * a \in Nat
    BY <1>1, <1>4, Multiple
  <1>7. MapIndex(len, a) = q
    BY <1>5, <1>6 DEF MapIndex
  <1>8. MapIndex(len, a) \in Indexes
    BY DEF Indexes
  <1> QED BY <1>4, <1>5, <1>6, <1>7, <1>8 DEF n

\* Index 0 is that of small requests.
LEMMA IndexPositive == \A i \in Indexes : i \in Nat \ {0}
  BY RoundedSize DEF Indexes

\* A block that is in a place is a block.
LEMMA InPlace ==
    ASSUME AllocTypeOK
    PROVE  /\ live \subseteq Blocks
           /\ \A i \in Indexes : Kept(i) \subseteq Blocks
           /\ \A t \in Callers : Held(t) \subseteq Blocks
           /\ \A b : b \in Pool <=> \E i \in Indexes : b \in Kept(i)
  <1>1. \A i \in Indexes : Kept(i) \subseteq Blocks
    <2>1. \A s \in Seq(Blocks) : Range(s) \subseteq Blocks
      BY DEF Range
    <2> QED BY <2>1 DEF Kept, AllocTypeOK
  <1>2. \A t \in Callers : Held(t) \subseteq Blocks
    BY DEF Held, AllocTypeOK, Calls
  <1> QED BY <1>1, <1>2 DEF Pool, AllocTypeOK

\* At first no block is anywhere.
LEMMA MemInitSafe == ASSUME MemInit PROVE PlaceInv
  <1> USE DEF MemInit
  <1>0. \A t \in Callers : Held(t) = {}
    BY DEF Held, Idle
  <1>00. \A i \in Indexes : Kept(i) = {}
    BY DEF Kept
  <1>1. AllocTypeOK /\ miAlign > 0
    BY AlignAssumption DEF AllocTypeOK, AllAligns, Idle, Calls
  <1>2. QueuesInv
    BY <1>00 DEF QueuesInv
  <1>3. \A t \in Callers : CallInv(t)
    BY <1>0 DEF CallInv, Idle
  <1> QED BY <1>0, <1>00, <1>1, <1>2, <1>3 DEF PlaceInv

\* A call another thread is not in: its block stays malloc'ed.
LEMMA OtherCall ==
    ASSUME PlaceInv, NEW u \in Callers, call'[u] = call[u],
           \A i \in Indexes : mmapMemItems[i] # NIL => mmapMemItems'[i] # NIL,
           \A b \in Held(u) : heap'[b].size > 0
    PROVE  CallInv(u)' /\ Held(u)' = Held(u)
  <1>1. CallInv(u)
    BY DEF PlaceInv
  <1>2. Held(u)' = Held(u)
    BY DEF Held
  <1> QED BY <1>1, <1>2 DEF CallInv

\* A step of t: the block b, if it is one, may change and move, from a place
\* no other call has; all else stays where it is.
Moves(t, b) ==
    /\ \A u \in Callers \ {t} : call'[u] = call[u] /\ b \notin Held(u)
    /\ \A x \in Blocks \ {b} : heap'[x] = heap[x]
    /\ live' \ {b} = live \ {b}
    /\ Held(t)' \ {b} = Held(t) \ {b}
    /\ \A i \in Indexes : Kept(i)' \ {b} = Kept(i) \ {b}
    /\ \A i \in Indexes : mmapMemItems[i] # NIL => mmapMemItems'[i] # NIL
    /\ miAlign' = miAlign /\ miAllocMinLimit' = miAllocMinLimit

\* It is in at most one place afterwards.
LEMMA MoveSafe ==
    ASSUME PlaceInv, AllocTypeOK', QueuesInv', NEW t \in Callers, CallInv(t)',
           NEW b, Moves(t, b),
           b \in live' => b \notin Held(t)' /\ heap'[b].size > 0,
           \A i \in Indexes : b \in Kept(i)' => b \notin live' /\ b \notin Held(t)'
    PROVE  PlaceInv'
  <1> USE DEF PlaceInv, Moves
  <1>1. ASSUME NEW u \in Callers, u # t PROVE CallInv(u)' /\ Held(u)' = Held(u)
    <2>1. \A x \in Held(u) : heap'[x].size > 0
      <3>1. \A x \in Held(u) : x \in Blocks \ {b} /\ heap[x].size > 0
        BY <1>1, InPlace DEF CallInv
      <3> QED BY <3>1
    <2> QED BY <1>1, <2>1, OtherCall
  <1>2. \A x \in live' : heap'[x].size > 0
    <2>1. \A x \in live' : x \in Blocks
      BY DEF AllocTypeOK
    <2> QED BY <2>1
  <1>3. \A i \in Indexes : live' \cap Kept(i)' = {}
    OBVIOUS
  <1>4. \A i \in Indexes : Held(t)' \cap Kept(i)' = {}
    OBVIOUS
  <1>5. Held(t)' \cap live' = {}
    OBVIOUS
  <1>6. ASSUME NEW u \in Callers, u # t
        PROVE  /\ Held(u)' \cap live' = {} /\ Held(t)' \cap Held(u)' = {}
               /\ \A i \in Indexes : Held(u)' \cap Kept(i)' = {}
    BY <1>1, <1>6
  <1>7. \A u, v \in Callers : u # v => Held(u)' \cap Held(v)' = {}
    BY <1>1, <1>6
  <1> QED BY <1>1, <1>2, <1>3, <1>4, <1>5, <1>6, <1>7

\* The queues keep what they hold, but one may come into the map.
LEMMA QueuesSame ==
    ASSUME PlaceInv, AllocTypeOK',
           \A i \in Indexes : \/ mmapMemItems'[i] = mmapMemItems[i]
                              \/ mmapMemItems[i] = NIL /\ mmapMemItems'[i] = <<>>,
           \A i \in Indexes : \A b \in Kept(i) : heap'[b].size > 0
    PROVE  /\ QueuesInv' /\ \A i \in Indexes : Kept(i)' = Kept(i)
           /\ \A i \in Indexes : mmapMemItems[i] # NIL => mmapMemItems'[i] # NIL
  <1>1. Range(<<>>) = {} /\ IsInjective(<<>>)
    BY DEF Range, IsInjective
  <1>2. \A i \in Indexes : Kept(i)' = Kept(i)
    BY <1>1 DEF Kept
  <1>3. \A i \in Indexes : mmapMemItems'[i] # NIL => IsInjective(mmapMemItems'[i])
    BY <1>1 DEF PlaceInv, QueuesInv
  <1> QED BY <1>2, <1>3 DEF PlaceInv, QueuesInv

\* A call starts, of MemMalloc or of MemRealloc, whose old block it takes.
Found(t, len, old) ==
    LET i == MapIndex(len, miAlign) IN
    \/ /\ Large(len)
       /\ call'[t] = [pc |-> IF mmapMemItems[i] # NIL THEN "pop" ELSE "insert",
                      iLen |-> len, iNeedLen |-> Rounded(len, miAlign), iIndex |-> i,
                      pRet |-> NIL, old |-> old]
    \/ /\ ~Large(len)
       /\ call'[t] = [pc |-> "malloc", iLen |-> len, iNeedLen |-> miAllocMinLimit,
                      iIndex |-> 0, pRet |-> NIL, old |-> old]

\* What a call has found when it starts.
LEMMA FindCases ==
    ASSUME PlaceInv, NEW t \in Callers, NEW len, NEW old, MallocFind(t, len, old)
    PROVE  Found(t, len, old)
  <1>1. PICK i : i = MapIndex(len, miAlign)
    OBVIOUS
  <1>2. CASE Large(len)
    <2>1. call'[t] = [Idle EXCEPT !.pc = IF mmapMemItems[i] # NIL THEN "pop" ELSE "insert",
                          !.iLen = len, !.iNeedLen = Rounded(len, miAlign),
                          !.iIndex = i, !.old = old]
      BY <1>1, <1>2 DEF MallocFind, PlaceInv, AllocTypeOK
    <2> QED BY <1>1, <1>2, <2>1 DEF Found, Idle
  <1>3. CASE ~Large(len)
    <2>1. call'[t] = [Idle EXCEPT !.pc = "malloc", !.iLen = len,
                          !.iNeedLen = miAllocMinLimit, !.old = old]
      BY <1>3 DEF MallocFind, PlaceInv, AllocTypeOK
    <2> QED BY <1>3, <2>1 DEF Found, Idle
  <1> QED BY <1>2, <1>3

\* It holds its old block only.
LEMMA FindCall ==
    ASSUME PlaceInv, NEW t \in Callers, NEW len \in MallocLens, NEW old \in Blocks \cup {NIL},
           old # NIL => heap[old].size > 0, MallocFind(t, len, old)
    PROVE  call'[t] \in Calls /\ CallInv(t)' /\ Held(t)' = {old} \ {NIL}
  <1>1. PICK i : i = MapIndex(len, miAlign)
    OBVIOUS
  <1>2. /\ i \in Indexes /\ i \in Nat /\ Rounded(len, miAlign) \in Nat \ {0}
        /\ len \in Nat /\ miAllocMinLimit \in Nat
    BY <1>1, RoundedSize, AlignAssumption DEF PlaceInv, AllocTypeOK, AllAligns
  <1>3. mmapMemItems' = mmapMemItems /\ heap' = heap
    BY DEF MallocFind
  <1>4. CASE call'[t] = [pc |-> IF mmapMemItems[i] # NIL THEN "pop" ELSE "insert",
                         iLen |-> len, iNeedLen |-> Rounded(len, miAlign), iIndex |-> i,
                         pRet |-> NIL, old |-> old]
    <2>1. Held(t)' = {old} \ {NIL}
      BY <1>4 DEF Held
    <2>2. call'[t] \in Calls
      BY <1>2, <1>4 DEF Calls
    <2>3. CallInv(t)'
      BY <1>2, <1>3, <1>4, <2>1 DEF CallInv
    <2> QED BY <2>1, <2>2, <2>3
  <1>5. CASE /\ ~Large(len)
             /\ call'[t] = [pc |-> "malloc", iLen |-> len, iNeedLen |-> miAllocMinLimit,
                            iIndex |-> 0, pRet |-> NIL, old |-> old]
    <2>1. miAllocMinLimit > 0
      BY <1>2, <1>5, AlignAssumption DEF Large
    <2>2. Held(t)' = {old} \ {NIL}
      BY <1>5 DEF Held
    <2>3. call'[t] \in Calls
      BY <1>2, <1>5 DEF Calls
    <2>4. CallInv(t)'
      BY <1>2, <1>3, <1>5, <2>1, <2>2 DEF CallInv
    <2> QED BY <2>2, <2>3, <2>4
  <1> QED BY <1>1, <1>4, <1>5, FindCases DEF Found

\* A call that starts moves its old block, which was live.
LEMMA StartSafe ==
    ASSUME PlaceInv, NEW t \in Callers, call[t].pc = "idle",
           NEW old \in Blocks \cup {NIL}, NEW len \in MallocLens, MallocFind(t, len, old),
           (old = NIL /\ live' = live) \/ (old \in live /\ live' = live \ {old})
    PROVE  PlaceInv' /\ Moves(t, old)
  <1>1. Held(t) = {}
    BY DEF PlaceInv, CallInv, Held, Idle
  <1>2. old # NIL => /\ old \in live /\ heap[old].size > 0
                     /\ \A u \in Callers : old \notin Held(u)
    BY DEF PlaceInv
  <1>3. call'[t] \in Calls /\ CallInv(t)' /\ Held(t)' = {old} \ {NIL}
    BY <1>2, FindCall
  <1>4. /\ AllocTypeOK' /\ \A u \in Callers \ {t} : call'[u] = call[u]
        /\ mmapMemItems' = mmapMemItems /\ heap' = heap
        /\ miAlign' = miAlign /\ miAllocMinLimit' = miAllocMinLimit
    BY <1>3 DEF MallocFind, config, totals, PlaceInv, AllocTypeOK
  <1>5. QueuesInv' /\ \A i \in Indexes : Kept(i)' = Kept(i)
    BY <1>4, QueuesSame DEF PlaceInv, QueuesInv
  <1>6. /\ \A u \in Callers : old \notin Held(u)
        /\ old \notin live' /\ \A i \in Indexes : old \notin Kept(i)
    BY <1>2, InPlace, NilAssumption DEF Held, PlaceInv
  <1>7. Moves(t, old)
    BY <1>1, <1>3, <1>4, <1>5, <1>6 DEF Moves
  <1> QED BY <1>3, <1>4, <1>5, <1>6, <1>7, MoveSafe

\* No block moves.
LEMMA StaySafe ==
    ASSUME PlaceInv, AllocTypeOK', NEW t \in Callers, CallInv(t)', Held(t)' = Held(t),
           \A u \in Callers \ {t} : call'[u] = call[u],
           \A i \in Indexes : \/ mmapMemItems'[i] = mmapMemItems[i]
                              \/ mmapMemItems[i] = NIL /\ mmapMemItems'[i] = <<>>,
           live' = live, heap' = heap, UNCHANGED config
    PROVE  PlaceInv' /\ Moves(t, NIL)
  <1>1. \A i \in Indexes : \A b \in Kept(i) : heap'[b].size > 0
    BY DEF PlaceInv, QueuesInv
  <1>2. /\ QueuesInv' /\ \A i \in Indexes : Kept(i)' = Kept(i)
        /\ \A i \in Indexes : mmapMemItems[i] # NIL => mmapMemItems'[i] # NIL
    BY <1>1, QueuesSame
  <1>3. /\ \A u \in Callers : NIL \notin Held(u)
        /\ NIL \notin live /\ \A j \in Indexes : NIL \notin Kept(j)
    BY InPlace, NilAssumption DEF PlaceInv
  <1>4. Moves(t, NIL)
    BY <1>2, <1>3 DEF Moves, config
  <1> QED BY <1>2, <1>3, <1>4, MoveSafe

\* The front of the queue, if it has one, comes into the call.
LEMMA PopSafe ==
    ASSUME PlaceInv, NEW t \in Callers, MallocPop(t), NEW b, b = call'[t].pRet
    PROVE  /\ PlaceInv' /\ Moves(t, b)
           /\ \/ /\ b = NIL /\ Kept(call[t].iIndex) = {}
                 /\ call'[t] = [call[t] EXCEPT !.pc = "malloc"]
              \/ /\ b \in Kept(call[t].iIndex)
                 /\ call'[t] = [call[t] EXCEPT !.pRet = b, !.pc = "count"]
  <1>0. PICK i, que : i = call[t].iIndex /\ que = mmapMemItems[i]
    OBVIOUS
  <1>1. /\ CallInv(t) /\ call[t].pc = "pop" /\ call[t] \in Calls
        /\ i \in Indexes /\ que \in Seq(Blocks) /\ que # NIL
        /\ Kept(i) = Range(que) /\ IsInjective(que)
        /\ call[t].pRet = NIL
    BY <1>0 DEF MallocPop, PlaceInv, AllocTypeOK, CallInv, Kept, QueuesInv
  <1>2. CASE que = <<>>
    <2>1. call' = [call EXCEPT ![t].pc = "malloc"] /\ UNCHANGED mmapMemItems
      BY <1>0, <1>2 DEF MallocPop
    <2>2. /\ call'[t] = [call[t] EXCEPT !.pc = "malloc"]
          /\ \A u \in Callers \ {t} : call'[u] = call[u]
      BY <2>1 DEF PlaceInv, AllocTypeOK
    <2>3. Held(t)' = Held(t) /\ call'[t] \in Calls /\ b = NIL
      BY <1>1, <2>2 DEF Held, Calls
    <2>4. /\ AllocTypeOK' /\ heap' = heap /\ miAlign' = miAlign /\ live' = live
      BY <2>1, <2>2, <2>3 DEF MallocPop, config, totals, PlaceInv, AllocTypeOK
    <2>5. CallInv(t)'
      BY <1>1, <2>1, <2>2, <2>3, <2>4 DEF CallInv, Calls
    <2>6. PlaceInv' /\ Moves(t, NIL)
      BY <2>1, <2>2, <2>3, <2>4, <2>5, StaySafe DEF MallocPop
    <2>7. Kept(i) = {}
      BY <1>1, <1>2 DEF Range
    <2> QED BY <1>0, <2>2, <2>3, <2>6, <2>7
  <1>3. CASE que # <<>>
    <2>0. b = Head(que)
      <3>1. call'[t] = [call[t] EXCEPT !.pRet = Head(que), !.pc = "count"]
        BY <1>0, <1>3 DEF MallocPop, PlaceInv, AllocTypeOK
      <3> QED BY <1>1, <3>1 DEF Calls
    <2>1. /\ call' = [call EXCEPT ![t].pRet = b, ![t].pc = "count"]
          /\ mmapMemItems' = [mmapMemItems EXCEPT ![i] = Tail(que)]
      BY <1>0, <1>3, <2>0 DEF MallocPop
    <2>2. /\ call'[t] = [call[t] EXCEPT !.pRet = b, !.pc = "count"]
          /\ \A u \in Callers \ {t} : call'[u] = call[u]
          /\ mmapMemItems'[i] = Tail(que)
          /\ \A j \in Indexes \ {i} : mmapMemItems'[j] = mmapMemItems[j]
      BY <1>1, <2>1 DEF PlaceInv, AllocTypeOK
    <2>3. /\ b \in Kept(i) /\ b \in Blocks /\ Range(Tail(que)) = Range(que) \ {b}
          /\ Tail(que) \in Seq(Blocks) /\ IsInjective(Tail(que)) /\ Tail(que) # NIL
      <3>1. Tail(que) \in Seq(Blocks) /\ IsInjective(Tail(que)) /\ Tail(que) # NIL
        BY <1>1, <1>3, PopInjective, NilAssumption
      <3>2. b \in Kept(i) /\ Range(Tail(que)) = Range(que) \ {b}
        BY <1>1, <1>3, <2>0, RangePop
      <3>3. b \in Blocks
        BY <1>1, <3>2, InPlace DEF PlaceInv
      <3> QED BY <3>1, <3>2, <3>3
    <2>4. /\ b \notin live /\ \A u \in Callers : b \notin Held(u)
          /\ \A j \in Indexes \ {i} : b \notin Kept(j)
          /\ heap[b].size > 0
      BY <1>1, <2>3 DEF PlaceInv, QueuesInv
    <2>5. Kept(i)' = Kept(i) \ {b} /\ \A j \in Indexes \ {i} : Kept(j)' = Kept(j)
      BY <1>1, <2>2, <2>3 DEF Kept
    <2>6. /\ Held(t)' = Held(t) \cup {b} /\ call'[t] \in Calls
          /\ call'[t].pc = "count" /\ call'[t].pRet = b /\ call'[t].old = call[t].old
          /\ b # NIL
      <3>1. /\ call'[t].pc = "count" /\ call'[t].pRet = b
            /\ call'[t].old = call[t].old /\ call'[t] \in Calls
        BY <1>1, <2>2, <2>3 DEF Calls
      <3>2. b # NIL
        BY <2>3, NilAssumption
      <3>3. Held(t)' = {b, call[t].old} \ {NIL} /\ Held(t) = {NIL, call[t].old} \ {NIL}
        BY <1>1, <3>1 DEF Held
      <3> QED BY <3>1, <3>2, <3>3
    <2>7. /\ AllocTypeOK' /\ heap' = heap /\ miAlign' = miAlign /\ live' = live
      BY <2>1, <2>2, <2>3, <2>6 DEF MallocPop, config, totals, PlaceInv, AllocTypeOK
    <2>8. CallInv(t)'
      <3>1. b # call[t].old
        BY <2>3, <2>4, NilAssumption DEF Held
      <3>2. \A x \in Held(t)' : heap'[x].size > 0
        BY <1>1, <2>4, <2>6, <2>7 DEF CallInv
      <3> QED BY <2>6, <3>1, <3>2 DEF CallInv
    <2>9. QueuesInv'
      <3>1. \A j \in Indexes : mmapMemItems'[j] # NIL => IsInjective(mmapMemItems'[j])
        BY <2>2, <2>3 DEF PlaceInv, QueuesInv
      <3>2. /\ \A j, k \in Indexes : j # k => Kept(j)' \cap Kept(k)' = {}
            /\ \A j \in Indexes : \A x \in Kept(j)' : heap'[x].size > 0
        BY <2>5, <2>7 DEF PlaceInv, QueuesInv
      <3> QED BY <3>1, <3>2 DEF QueuesInv
    <2>10. \A j \in Indexes : mmapMemItems[j] # NIL => mmapMemItems'[j] # NIL
      BY <2>2, <2>3
    <2>11. Moves(t, b)
      BY <2>2, <2>4, <2>5, <2>6, <2>7, <2>10 DEF Moves, MallocPop, config
    <2>12. PlaceInv'
      BY <2>4, <2>5, <2>6, <2>7, <2>8, <2>9, <2>11, MoveSafe
    <2> QED BY <1>0, <2>2, <2>3, <2>11, <2>12
  <1> QED BY <1>2, <1>3

\* An index comes into the map with an empty queue.
LEMMA InsertSafe ==
    ASSUME PlaceInv, NEW t \in Callers, MallocInsert(t)
    PROVE  PlaceInv' /\ Moves(t, NIL)
  <1>1. CallInv(t) /\ call[t].pc = "insert" /\ call[t] \in Calls
    BY DEF MallocInsert, PlaceInv, AllocTypeOK
  <1>2. /\ call'[t] = [call[t] EXCEPT !.pc = "malloc"]
        /\ \A u \in Callers \ {t} : call'[u] = call[u]
        /\ \A i \in Indexes : \/ mmapMemItems'[i] = mmapMemItems[i]
                              \/ mmapMemItems[i] = NIL /\ mmapMemItems'[i] = <<>>
    BY DEF MallocInsert, PlaceInv, AllocTypeOK
  <1>3. /\ call'[t].pc = "malloc" /\ call'[t].pRet = call[t].pRet
        /\ call'[t].old = call[t].old /\ call'[t].iNeedLen = call[t].iNeedLen
        /\ call'[t] \in Calls /\ Held(t)' = Held(t)
    BY <1>1, <1>2 DEF Calls, Held
  <1>4. AllocTypeOK' /\ heap' = heap /\ miAlign' = miAlign /\ live' = live
    <2>1. mmapMemItems' \in [Indexes -> Seq(Blocks) \cup {NIL}]
      <3>1. <<>> \in Seq(Blocks)
        OBVIOUS
      <3> QED BY <3>1 DEF MallocInsert, PlaceInv, AllocTypeOK
    <2>2. call' \in [Callers -> Calls]
      <3>1. call \in [Callers -> Calls] /\ call' = [call EXCEPT ![t] = call'[t]]
        BY DEF MallocInsert, PlaceInv, AllocTypeOK
      <3> QED BY <1>3, <3>1
    <2>3. miMapMemNums' \in Nat
      BY DEF MallocInsert, PlaceInv, AllocTypeOK
    <2>4. UNCHANGED <<config, totals, heap, live>>
      BY DEF MallocInsert
    <2> QED BY <2>1, <2>2, <2>3, <2>4 DEF config, totals, PlaceInv, AllocTypeOK
  <1>5. CallInv(t)'
    BY <1>1, <1>3, <1>4 DEF CallInv
  <1> QED BY <1>2, <1>3, <1>4, <1>5, StaySafe DEF MallocInsert

\* A block nobody had comes into the call.
Allocates(t, b) ==
    /\ heap[b].size = 0
    /\ heap' = [heap EXCEPT ![b].size = call[t].iNeedLen]
    /\ call' = [call EXCEPT ![t].pRet = b, ![t].pc = "countNew"]

\* A block nobody had is malloc'ed.
LEMMA AllocSafe ==
    ASSUME PlaceInv, NEW t \in Callers, MallocAlloc(t), NEW b \in Blocks, Allocates(t, b)
    PROVE  /\ PlaceInv' /\ Moves(t, b)
           /\ heap'[b] = [heap[b] EXCEPT !.size = call[t].iNeedLen]
           /\ call'[t] = [call[t] EXCEPT !.pRet = b, !.pc = "countNew"]
  <1>1. CallInv(t) /\ call[t].pc = "malloc" /\ call[t] \in Calls /\ call[t].pRet = NIL
    BY DEF MallocAlloc, PlaceInv, AllocTypeOK, CallInv
  <1>3. /\ call'[t] = [call[t] EXCEPT !.pRet = b, !.pc = "countNew"]
        /\ \A u \in Callers \ {t} : call'[u] = call[u]
        /\ heap'[b] = [heap[b] EXCEPT !.size = call[t].iNeedLen]
        /\ \A x \in Blocks \ {b} : heap'[x] = heap[x]
    BY DEF Allocates, PlaceInv, AllocTypeOK
  <1>4. /\ b \notin live /\ \A u \in Callers : b \notin Held(u)
        /\ \A j \in Indexes : b \notin Kept(j)
        /\ b # NIL
    <2>1. ~(heap[b].size > 0) /\ b # NIL
      BY NilAssumption DEF Allocates
    <2> QED BY <2>1 DEF PlaceInv, CallInv, QueuesInv
  <1>5. /\ call'[t].pc = "countNew" /\ call'[t].pRet = b /\ call'[t].old = call[t].old
        /\ call'[t] \in Calls
    BY <1>1, <1>3 DEF Calls
  <1>6. Held(t)' = Held(t) \cup {b}
    <2>1. Held(t)' = {b, call[t].old} \ {NIL}
      BY <1>5, Zenon DEF Held
    <2>2. Held(t) = {NIL, call[t].old} \ {NIL}
      BY <1>1, Zenon DEF Held
    <2> QED BY <1>4, <2>1, <2>2, Zenon
  <1>7. heap'[b].size > 0 /\ heap'[b] \in [size: Nat, iTotal: Nat, iUse: Nat]
    BY <1>1, <1>3 DEF CallInv, PlaceInv, AllocTypeOK, Calls
  <1>8. /\ AllocTypeOK' /\ miAlign' = miAlign /\ live' = live
        /\ mmapMemItems' = mmapMemItems
    BY <1>3, <1>5, <1>7 DEF MallocAlloc, Allocates, config, totals, PlaceInv, AllocTypeOK
  <1>9. CallInv(t)'
    <2>1. b # call[t].old
      BY <1>4 DEF Held
    <2>2. \A x \in Held(t)' : heap'[x].size > 0
      <3>1. \A x \in Held(t) : heap'[x].size > 0
        BY <1>1, <1>3, <1>4, InPlace DEF CallInv, PlaceInv
      <3> QED BY <1>6, <1>7, <3>1
    <2> QED BY <1>4, <1>5, <2>1, <2>2 DEF CallInv
  <1>10. QueuesInv' /\ \A i \in Indexes : Kept(i)' = Kept(i)
    <2>1. \A i \in Indexes : \A x \in Kept(i) : heap'[x].size > 0
      BY <1>3, <1>4, InPlace DEF PlaceInv, QueuesInv
    <2> QED BY <1>8, <2>1, QueuesSame
  <1>11. Moves(t, b)
    BY <1>3, <1>4, <1>6, <1>8, <1>10 DEF Moves, MallocAlloc, config
  <1>12. PlaceInv'
    BY <1>4, <1>7, <1>8, <1>9, <1>10, <1>11, MoveSafe
  <1> QED BY <1>3, <1>11, <1>12

\* The block goes to the caller.
LEMMA CountSafe ==
    ASSUME PlaceInv, NEW t \in Callers, MallocCount(t), NEW b, b = call[t].pRet
    PROVE  /\ PlaceInv' /\ Moves(t, b) /\ b \in Held(t)
           /\ heap'[b] = [heap[b] EXCEPT !.iTotal = call[t].iNeedLen, !.iUse = call[t].iLen]
           /\ call'[t] = IF call[t].old = NIL THEN Idle
                         ELSE [Idle EXCEPT !.pc = "free", !.old = call[t].old]
  <1>1. /\ CallInv(t) /\ call[t].pc \in {"count", "countNew"} /\ call[t] \in Calls
        /\ b # NIL /\ b \in Blocks /\ b # call[t].old
    BY DEF MallocCount, PlaceInv, AllocTypeOK, CallInv, Calls
  <1>2. /\ heap' = [heap EXCEPT ![b].iTotal = call[t].iNeedLen, ![b].iUse = call[t].iLen]
        /\ live' = live \cup {b}
        /\ call'[t] = IF call[t].old = NIL THEN Idle
                      ELSE [Idle EXCEPT !.pc = "free", !.old = call[t].old]
        /\ \A u \in Callers \ {t} : call'[u] = call[u]
    BY DEF MallocCount, PlaceInv, AllocTypeOK
  <1>3. /\ heap'[b] = [heap[b] EXCEPT !.iTotal = call[t].iNeedLen, !.iUse = call[t].iLen]
        /\ \A x \in Blocks \ {b} : heap'[x] = heap[x]
    BY <1>1, <1>2 DEF PlaceInv, AllocTypeOK
  <1>4. \A x \in Blocks : /\ heap'[x].size = heap[x].size
                           /\ heap'[x] \in [size: Nat, iTotal: Nat, iUse: Nat]
    <2>1. \A x \in Blocks : heap[x] \in [size: Nat, iTotal: Nat, iUse: Nat]
      BY DEF PlaceInv, AllocTypeOK
    <2>2. call[t].iNeedLen \in Nat /\ call[t].iLen \in Nat
      BY <1>1 DEF Calls
    <2>3. heap'[b].size = heap[b].size /\ heap'[b] \in [size: Nat, iTotal: Nat, iUse: Nat]
      BY <1>1, <1>3, <2>1, <2>2
    <2> QED BY <1>3, <2>1, <2>3
  <1>5. /\ b \in Held(t) /\ heap[b].size > 0
        /\ \A u \in Callers \ {t} : b \notin Held(u)
        /\ \A j \in Indexes : b \notin Kept(j)
    BY <1>1 DEF PlaceInv, CallInv, Held
  <1>6. call'[t] \in Calls /\ Held(t)' = Held(t) \ {b} /\ CallInv(t)'
    <2>1. call[t].old = NIL => call'[t] = Idle
      BY <1>2
    <2>2. call[t].old # NIL => call'[t] = [pc |-> "free", iLen |-> 0, iNeedLen |-> 0,
                                           iIndex |-> 0, pRet |-> NIL, old |-> call[t].old]
      BY <1>2 DEF Idle
    <2>3. call'[t] \in Calls
      BY <1>1, <2>1, <2>2 DEF Calls, Idle
    <2>4. Held(t)' = Held(t) \ {b}
      BY <1>1, <2>1, <2>2 DEF Held, Idle
    <2>5. \A x \in Held(t)' : heap'[x].size > 0
      BY <1>1, <1>4, <2>4, InPlace DEF CallInv, PlaceInv
    <2>6. CASE call[t].old = NIL
      <3>1. /\ call'[t] = Idle /\ call'[t].pc = "idle" /\ call'[t].pRet = NIL
            /\ call'[t].old = NIL
        BY <2>1, <2>6 DEF Idle
      <3> QED BY <2>3, <2>4, <2>5, <3>1 DEF CallInv
    <2>7. CASE call[t].old # NIL
      <3>1. /\ call'[t].pc = "free" /\ call'[t].pRet = NIL /\ call'[t].old # NIL
        BY <2>2, <2>7
      <3> QED BY <2>3, <2>4, <2>5, <3>1 DEF CallInv
    <2> QED BY <2>3, <2>4, <2>6, <2>7
  <1>7. /\ AllocTypeOK' /\ miAlign' = miAlign /\ mmapMemItems' = mmapMemItems
    <2>1. heap' \in [Blocks -> [size: Nat, iTotal: Nat, iUse: Nat]]
      BY <1>2, <1>4 DEF PlaceInv, AllocTypeOK
    <2>2. call' \in [Callers -> Calls]
      BY <1>2, <1>6 DEF MallocCount, PlaceInv, AllocTypeOK
    <2>3. miTotalMalloc' \in Nat /\ miTotolMem' \in Int /\ miMemItemsNum' \in Int
      <3>1. call[t].iLen \in Nat /\ call[t].iNeedLen \in Nat
        BY <1>1 DEF Calls
      <3>2. miTotalMalloc \in Nat /\ miTotolMem \in Int /\ miMemItemsNum \in Int
        BY DEF PlaceInv, AllocTypeOK
      <3>3. /\ miTotalMalloc' = miTotalMalloc + call[t].iLen
            /\ miTotolMem' \in {miTotolMem, miTotolMem + call[t].iNeedLen}
            /\ miMemItemsNum' \in {miMemItemsNum, miMemItemsNum + 1}
        BY DEF MallocCount
      <3> QED BY <3>1, <3>2, <3>3
    <2> QED BY <1>1, <1>2, <2>1, <2>2, <2>3 DEF MallocCount, config, PlaceInv, AllocTypeOK
  <1>8. QueuesInv' /\ \A i \in Indexes : Kept(i)' = Kept(i)
    BY <1>4, <1>7, InPlace, QueuesSame DEF PlaceInv, QueuesInv
  <1>9. b \notin Held(t)' /\ heap'[b].size > 0 /\ Held(t)' \subseteq Held(t) \cup {b}
    BY <1>1, <1>4, <1>5, <1>6
  <1>10. Moves(t, b)
    BY <1>2, <1>3, <1>5, <1>6, <1>7, <1>8 DEF Moves, MallocCount, config
  <1>11. PlaceInv'
    BY <1>5, <1>6, <1>7, <1>8, <1>9, <1>10, MoveSafe
  <1> QED BY <1>2, <1>3, <1>5, <1>10, <1>11

\* What becomes of a block that is freed: it is gone, on its way to the queue
\* of its size, or lost.
FreedCall(t, b) ==
    LET n == heap[b].iTotal
        i == n \div miAlign IN
    \/ /\ n = miAllocMinLimit
       /\ call'[t] = [pc |-> "uncount", iLen |-> heap[b].iUse, iNeedLen |-> n, iIndex |-> 0,
                      pRet |-> NIL, old |-> NIL]
       /\ heap' = [heap EXCEPT ![b].size = 0]
    \/ /\ n # miAllocMinLimit /\ heap' = heap
       /\ n % miAlign = 0 /\ i \in Indexes /\ mmapMemItems[i] # NIL
       /\ call'[t] = [pc |-> "push", iLen |-> heap[b].iUse, iNeedLen |-> 0, iIndex |-> i,
                      pRet |-> b, old |-> NIL]
    \/ /\ n # miAllocMinLimit /\ heap' = heap
       /\ ~(n % miAlign = 0 /\ i \in Indexes /\ mmapMemItems[i] # NIL)
       /\ call'[t] = Idle

\* The call after DoFree has looked at the header.
LEMMA FreeBlockCases ==
    ASSUME PlaceInv, NEW t \in Callers, NEW b \in Blocks, FreeBlock(t, b)
    PROVE  FreedCall(t, b) /\ \A u \in Callers \ {t} : call'[u] = call[u]
  <1>1. PICK n, i : n = heap[b].iTotal /\ i = n \div miAlign
    OBVIOUS
  <1> DEFINE kept == n % miAlign = 0 /\ i \in Indexes /\ mmapMemItems[i] # NIL
  <1>2. /\ heap' = IF n = miAllocMinLimit THEN [heap EXCEPT ![b].size = 0] ELSE heap
        /\ call' = [call EXCEPT ![t] =
              IF n = miAllocMinLimit
              THEN [Idle EXCEPT !.pc = "uncount", !.iNeedLen = n, !.iLen = heap[b].iUse]
              ELSE IF kept
              THEN [Idle EXCEPT !.pc = "push", !.iIndex = i, !.pRet = b, !.iLen = heap[b].iUse]
              ELSE Idle]
    BY <1>1 DEF FreeBlock
  <1> HIDE DEF kept
  <1>3. \A u \in Callers \ {t} : call'[u] = call[u]
    BY <1>2 DEF PlaceInv, AllocTypeOK
  <1>4. CASE n = miAllocMinLimit
    <2>1. call'[t] = [Idle EXCEPT !.pc = "uncount", !.iNeedLen = n, !.iLen = heap[b].iUse]
      BY <1>2, <1>4 DEF PlaceInv, AllocTypeOK
    <2>2. call'[t] = [pc |-> "uncount", iLen |-> heap[b].iUse, iNeedLen |-> n,
                      iIndex |-> 0, pRet |-> NIL, old |-> NIL]
      BY <2>1 DEF Idle
    <2>3. heap' = [heap EXCEPT ![b].size = 0]
      BY <1>2, <1>4
    <2> QED BY <1>1, <1>3, <1>4, <2>2, <2>3 DEF FreedCall
  <1>5. CASE n # miAllocMinLimit /\ kept
    <2>1. call'[t] = [Idle EXCEPT !.pc = "push", !.iIndex = i, !.pRet = b, !.iLen = heap[b].iUse]
      BY <1>2, <1>5 DEF PlaceInv, AllocTypeOK
    <2>2. call'[t] = [pc |-> "push", iLen |-> heap[b].iUse, iNeedLen |-> 0,
                      iIndex |-> i, pRet |-> b, old |-> NIL]
      BY <2>1 DEF Idle
    <2>3. heap' = heap
      BY <1>2, <1>5
    <2> QED BY <1>1, <1>3, <1>5, <2>2, <2>3 DEF FreedCall, kept
  <1>6. CASE n # miAllocMinLimit /\ ~kept
    <2>1. call'[t] = Idle
      BY <1>2, <1>6 DEF PlaceInv, AllocTypeOK
    <2> QED BY <1>1, <1>2, <1>3, <1>6, <2>1 DEF FreedCall, kept
  <1> QED BY <1>4, <1>5, <1>6

\* A freed block was live, or the old one of the call.
LEMMA FreeSafe ==
    ASSUME PlaceInv, NEW t \in Callers, NEW b \in Blocks, FreeBlock(t, b),
           \/ call[t].pc = "idle" /\ b \in live /\ live' = live \ {b}
           \/ call[t].pc = "free" /\ b = call[t].old /\ live' = live
    PROVE  PlaceInv' /\ Moves(t, b) /\ FreedCall(t, b)
  <1>2. /\ CallInv(t) /\ call[t].pRet = NIL
        /\ heap[b] \in [size: Nat, iTotal: Nat, iUse: Nat] /\ b # NIL
    BY NilAssumption DEF PlaceInv, CallInv, AllocTypeOK
  <1>3. /\ b \notin live' /\ \A u \in Callers \ {t} : b \notin Held(u)
        /\ \A i \in Indexes : b \notin Kept(i)
        /\ heap[b].size > 0
    <2>1. CASE b \in live /\ live' = live \ {b}
      BY <2>1 DEF PlaceInv
    <2>2. CASE b = call[t].old /\ live' = live
      <3>1. b \in Held(t)
        BY <1>2, <2>2 DEF Held
      <3> QED BY <1>2, <2>2, <3>1 DEF PlaceInv, CallInv
    <2> QED BY <2>1, <2>2
  <1>4. FreedCall(t, b) /\ \A u \in Callers \ {t} : call'[u] = call[u]
    BY FreeBlockCases
  <1>5. /\ \A x \in Blocks \ {b} : heap'[x] = heap[x]
        /\ heap'[b] \in [size: Nat, iTotal: Nat, iUse: Nat]
        /\ heap' \in [Blocks -> [size: Nat, iTotal: Nat, iUse: Nat]]
        /\ mmapMemItems' = mmapMemItems /\ miAlign' = miAlign
    BY <1>2, <1>4 DEF FreedCall, FreeBlock, config, PlaceInv, AllocTypeOK
  <1>6. call'[t] \in Calls /\ Held(t)' \subseteq {b} /\ CallInv(t)'
    <2>1. CASE call'[t] = Idle
      <3>1. /\ call'[t].pc = "idle" /\ call'[t].pRet = NIL /\ call'[t].old = NIL
            /\ call'[t] \in Calls
        BY <2>1 DEF Idle, Calls
      <3>2. Held(t)' = {}
        BY <3>1 DEF Held
      <3> QED BY <2>1, <3>1, <3>2 DEF CallInv
    <2>2. CASE call'[t] = [pc |-> "uncount", iLen |-> heap[b].iUse, iNeedLen |-> heap[b].iTotal,
                           iIndex |-> 0, pRet |-> NIL, old |-> NIL]
      <3>1. call'[t].pc = "uncount" /\ call'[t].pRet = NIL /\ call'[t].old = NIL
        BY <2>2
      <3>2. call'[t] \in Calls
        BY <1>2, <2>2 DEF Calls
      <3>3. Held(t)' = {}
        BY <3>1 DEF Held
      <3> QED BY <3>1, <3>2, <3>3 DEF CallInv
    <2>3. ASSUME NEW i \in Indexes, mmapMemItems[i] # NIL, heap' = heap,
                 call'[t] = [pc |-> "push", iLen |-> heap[b].iUse, iNeedLen |-> 0,
                             iIndex |-> i, pRet |-> b, old |-> NIL]
          PROVE  call'[t] \in Calls /\ Held(t)' \subseteq {b} /\ CallInv(t)'
      <3>1. /\ call'[t].pc = "push" /\ call'[t].pRet = b /\ call'[t].old = NIL
            /\ call'[t].iIndex = i
        BY <2>3
      <3>2. call'[t] \in Calls
        BY <1>2, <2>3, IndexPositive DEF Calls
      <3>3. Held(t)' = {b}
        BY <1>2, <3>1 DEF Held
      <3>4. \A x \in Held(t)' : heap'[x].size > 0
        BY <1>3, <2>3, <3>3
      <3> QED BY <1>2, <1>5, <2>3, <3>1, <3>2, <3>3, <3>4 DEF CallInv
    <2> QED BY <1>4, <2>1, <2>2, <2>3 DEF FreedCall
  <1>7. AllocTypeOK'
    <2>1. call' \in [Callers -> Calls]
      BY <1>6 DEF FreeBlock, PlaceInv, AllocTypeOK
    <2>2. live' \in SUBSET Blocks
      BY DEF PlaceInv, AllocTypeOK
    <2> QED BY <1>5, <2>1, <2>2 DEF FreeBlock, config, totals, PlaceInv, AllocTypeOK
  <1>8. QueuesInv' /\ \A i \in Indexes : Kept(i)' = Kept(i)
    <2>1. \A i \in Indexes : \A x \in Kept(i) : heap'[x].size > 0
      BY <1>3, <1>5, InPlace DEF PlaceInv, QueuesInv
    <2> QED BY <1>5, <1>7, <2>1, QueuesSame
  <1>9. Held(t) \subseteq {b}
    BY <1>2 DEF Held, CallInv, Idle
  <1>10. Moves(t, b)
    BY <1>3, <1>4, <1>5, <1>6, <1>8, <1>9 DEF Moves, FreeBlock, config
  <1> QED BY <1>3, <1>4, <1>6, <1>7, <1>8, <1>10, MoveSafe

\* The block goes to the queue of its index.
LEMMA PushSafe ==
    ASSUME PlaceInv, NEW t \in Callers, FreePush(t), NEW b, b = call[t].pRet
    PROVE  /\ PlaceInv' /\ Moves(t, b) /\ b \in Held(t)
           /\ \E i \in Indexes : i = call[t].iIndex /\ b \in Kept(i)'
  <1>0. PICK i, que : i = call[t].iIndex /\ que = mmapMemItems[i]
    OBVIOUS
  <1>1. /\ CallInv(t) /\ call[t].pc = "push" /\ call[t] \in Calls
        /\ b \in Blocks /\ b # NIL /\ i \in Indexes /\ que # NIL /\ que \in Seq(Blocks)
        /\ Kept(i) = Range(que) /\ IsInjective(que) /\ call[t].old = NIL
    BY <1>0 DEF FreePush, PlaceInv, AllocTypeOK, CallInv, Calls, Kept, QueuesInv
  <1>2. /\ call'[t] = [call[t] EXCEPT !.pc = "freecount", !.pRet = NIL]
        /\ \A u \in Callers \ {t} : call'[u] = call[u]
        /\ mmapMemItems'[i] = Append(que, b)
        /\ \A j \in Indexes \ {i} : mmapMemItems'[j] = mmapMemItems[j]
    BY <1>0, <1>1 DEF FreePush, PlaceInv, AllocTypeOK
  <1>3. /\ b \in Held(t) /\ b \notin live /\ \A u \in Callers \ {t} : b \notin Held(u)
        /\ \A j \in Indexes : b \notin Kept(j)
        /\ heap[b].size > 0
    BY <1>0, <1>1 DEF PlaceInv, CallInv, Held
  <1>4. /\ call'[t].pc = "freecount" /\ call'[t].pRet = NIL /\ call'[t].old = NIL
        /\ call'[t] \in Calls /\ Held(t)' = {}
    <2>1. /\ call'[t].pc = "freecount" /\ call'[t].pRet = NIL /\ call'[t].old = NIL
          /\ call'[t] \in Calls
      BY <1>1, <1>2 DEF Calls
    <2> QED BY <2>1 DEF Held
  <1>5. /\ Append(que, b) \in Seq(Blocks) /\ IsInjective(Append(que, b)) /\ Append(que, b) # NIL
        /\ Range(Append(que, b)) = Range(que) \cup {b}
    <2>1. ~Contains(que, b)
      BY <1>1, <1>3, RangeContains
    <2>2. Append(que, b) \in Seq(Blocks) /\ IsInjective(Append(que, b))
      BY <1>1, <2>1, PushInjective
    <2>3. Range(Append(que, b)) = Range(que) \cup {b}
      BY <1>1, RangePush
    <2> QED BY <2>2, <2>3, NilAssumption
  <1>6. Kept(i)' = Kept(i) \cup {b} /\ \A j \in Indexes \ {i} : Kept(j)' = Kept(j)
    BY <1>1, <1>2, <1>5 DEF Kept
  <1>7. /\ AllocTypeOK' /\ heap' = heap /\ miAlign' = miAlign /\ live' = live
    <2>1. mmapMemItems' \in [Indexes -> Seq(Blocks) \cup {NIL}]
      BY <1>0, <1>1, <1>5 DEF FreePush, PlaceInv, AllocTypeOK
    <2>2. call' \in [Callers -> Calls]
      BY <1>4 DEF FreePush, PlaceInv, AllocTypeOK
    <2> QED BY <2>1, <2>2 DEF FreePush, config, totals, PlaceInv, AllocTypeOK
  <1>8. QueuesInv'
    <2>1. \A j \in Indexes : mmapMemItems'[j] # NIL => IsInjective(mmapMemItems'[j])
      BY <1>2, <1>5 DEF PlaceInv, QueuesInv
    <2>2. /\ \A j, k \in Indexes : j # k => Kept(j)' \cap Kept(k)' = {}
          /\ \A j \in Indexes : \A x \in Kept(j)' : heap'[x].size > 0
      BY <1>3, <1>6, <1>7 DEF PlaceInv, QueuesInv
    <2> QED BY <2>1, <2>2 DEF QueuesInv
  <1>9. CallInv(t)'
    BY <1>4 DEF CallInv
  <1>10. Moves(t, b)
    <2>1. \A j \in Indexes : mmapMemItems[j] # NIL => mmapMemItems'[j] # NIL
      BY <1>2, <1>5
    <2>2. Held(t)' \ {b} = Held(t) \ {b}
      BY <1>1, <1>4 DEF Held
    <2> QED BY <1>2, <1>3, <1>6, <1>7, <2>1, <2>2 DEF Moves, FreePush, config
  <1>11. PlaceInv'
    BY <1>3, <1>4, <1>7, <1>8, <1>9, <1>10, MoveSafe
  <1> QED BY <1>0, <1>1, <1>3, <1>6, <1>10, <1>11

\* The counters of a free.
LEMMA FreeCountSafe ==
    ASSUME PlaceInv, NEW t \in Callers, FreeCount(t) \/ FreeUncount(t)
    PROVE  PlaceInv' /\ Moves(t, NIL)
  <1>1. /\ call[t] \in Calls /\ call'[t] = Idle
        /\ \A u \in Callers \ {t} : call'[u] = call[u]
    BY DEF FreeCount, FreeUncount, PlaceInv, AllocTypeOK
  <1>2. /\ call'[t] \in Calls /\ call'[t].pc = "idle" /\ call'[t].pRet = NIL
        /\ call'[t].old = NIL /\ Held(t)' = {}
    BY <1>1 DEF Idle, Calls, Held
  <1>3. /\ mmapMemItems' = mmapMemItems /\ heap' = heap /\ miAlign' = miAlign /\ live' = live
        /\ miTotalFree' \in Nat /\ miTotolMem' \in Int /\ miMemItemsNum' \in Int
    <2>1. call[t].iLen \in Nat /\ call[t].iNeedLen \in Nat
      BY <1>1 DEF Calls
    <2>2. CASE FreeCount(t)
      BY <2>1, <2>2 DEF FreeCount, config, PlaceInv, AllocTypeOK
    <2>3. CASE FreeUncount(t)
      BY <2>1, <2>3 DEF FreeUncount, config, PlaceInv, AllocTypeOK
    <2> QED BY <2>2, <2>3
  <1>4. AllocTypeOK'
    <2>1. call' \in [Callers -> Calls]
      BY <1>2 DEF FreeCount, FreeUncount, PlaceInv, AllocTypeOK
    <2> QED BY <1>3, <2>1 DEF FreeCount, FreeUncount, config, totals, PlaceInv, AllocTypeOK
  <1>5. CallInv(t)'
    BY <1>1, <1>2 DEF CallInv
  <1>6. Held(t) = {}
    BY DEF FreeCount, FreeUncount, PlaceInv, CallInv, Held
  <1> QED BY <1>1, <1>2, <1>3, <1>4, <1>5, <1>6, StaySafe DEF FreeCount, FreeUncount

\* SetAlign and SetAllocMinLimit move no block.
LEMMA ConfigSafe ==
    ASSUME PlaceInv, SetAlign \/ SetAllocMinLimit
    PROVE  PlaceInv'
  <1>1. /\ mmapMemItems' = mmapMemItems /\ heap' = heap /\ live' = live /\ call' = call
        /\ miAlign' \in AllAligns /\ miAlign' > 0
        /\ miAllocMinLimit' \in Limits \cup {MEM_MGR_ALLOC_MIN_LIMIT}
    BY AlignAssumption DEF SetAlign, SetAllocMinLimit, PlaceInv, AllocTypeOK, AllAligns
  <1>2. AllocTypeOK'
    BY <1>1 DEF SetAlign, SetAllocMinLimit, totals, PlaceInv, AllocTypeOK
  <1>3. /\ \A t \in Callers : Held(t)' = Held(t) /\ CallInv(t)'
        /\ \A i \in Indexes : Kept(i)' = Kept(i)
    BY <1>1 DEF Held, Kept, CallInv, PlaceInv
  <1> QED BY <1>1, <1>2, <1>3 DEF PlaceInv, QueuesInv

\* A block that does not change keeps its size.
LEMMA BlockStays ==
    ASSUME NEW t, NEW b, Moves(t, b), NEW x, heap'[x] = heap[x], BlockInv(x)
    PROVE  BlockInv(x)'
  BY DEF BlockInv, ClassSize, Moves

\* What moved has the size its new place asks for, and all else stays.
LEMMA SizeMove ==
    ASSUME PlaceInv, PlaceInv', SizeInv, ~retuned, NEW t \in Callers, NEW b, Moves(t, b),
           SizeOfCall(t)', b \in live' => BlockInv(b)',
           \A i \in Indexes : b \in Kept(i)' => ClassSize(i, heap[b].size)',
           b \in Blocks /\ heap'[b].size > 0 =>
              b \in live' \/ b \in Held(t)' \/ \E i \in Indexes : b \in Kept(i)'
    PROVE  SizeInv'
  <1>1. /\ \A x \in Blocks : heap[x].size > 0 =>
              x \in live \cup Pool \/ \E u \in Callers : x \in Held(u)
        /\ \A x \in live : BlockInv(x)
        /\ \A i \in Indexes : \A x \in Kept(i) : ClassSize(i, heap[x].size)
        /\ \A u \in Callers : SizeOfCall(u)
    BY DEF SizeInv
  <1>2. /\ \A u \in Callers \ {t} : call'[u] = call[u] /\ b \notin Held(u)
        /\ \A x \in Blocks \ {b} : heap'[x] = heap[x]
        /\ live' \ {b} = live \ {b}
        /\ Held(t)' \ {b} = Held(t) \ {b}
        /\ \A i \in Indexes : Kept(i)' \ {b} = Kept(i) \ {b}
    BY DEF Moves
  <1>3. \A u \in Callers \ {t} : Held(u)' = Held(u)
    BY <1>2 DEF Held
  <1>4. ASSUME NEW x \in Blocks, heap'[x].size > 0
        PROVE  x \in (live \cup Pool)' \/ \E u \in Callers : x \in Held(u)'
    <2>1. /\ \A y : y \in Pool <=> \E i \in Indexes : y \in Kept(i)
          /\ \A y : y \in Pool' <=> \E i \in Indexes : y \in Kept(i)'
      BY InPlace DEF PlaceInv, Pool
    <2>2. CASE x = b
      BY <1>4, <2>1, <2>2
    <2>3. CASE x # b
      <3>1. x \in live \/ x \in Pool \/ \E u \in Callers : x \in Held(u)
        BY <1>1, <1>2, <1>4, <2>3
      <3>2. CASE x \in live
        BY <1>2, <2>3, <3>2
      <3>3. CASE x \in Pool
        BY <1>2, <2>1, <2>3, <3>3
      <3>4. ASSUME NEW u \in Callers, x \in Held(u) PROVE \E v \in Callers : x \in Held(v)'
        BY <1>2, <1>3, <2>3, <3>4
      <3> QED BY <3>1, <3>2, <3>3, <3>4
    <2> QED BY <2>2, <2>3
  <1>5. ASSUME NEW x \in live' PROVE BlockInv(x)'
    <2>1. CASE x # b
      <3>1. x \in live /\ heap'[x] = heap[x]
        BY <1>2, <2>1 DEF PlaceInv, AllocTypeOK
      <3> QED BY <1>1, <3>1, BlockStays
    <2> QED BY <2>1
  <1>6. ASSUME NEW i \in Indexes, NEW x \in Kept(i)' PROVE ClassSize(i, heap[x].size)'
    <2>1. CASE x # b
      <3>1. x \in Kept(i)
        BY <1>2, <2>1
      <3>2. heap'[x] = heap[x] /\ ClassSize(i, heap[x].size)
        BY <1>1, <1>2, <2>1, <3>1, InPlace DEF PlaceInv
      <3> QED BY <3>2 DEF ClassSize, Moves
    <2> QED BY <2>1
  <1>7. ASSUME NEW u \in Callers \ {t} PROVE SizeOfCall(u)'
    <2>1. SizeOfCall(u) /\ call'[u] = call[u] /\ CallInv(u)
      BY <1>1, <1>2 DEF PlaceInv
    <2>2. call[u].pRet # NIL => heap'[call[u].pRet] = heap[call[u].pRet]
      BY <1>2, InPlace DEF Held, PlaceInv
    <2>3. call[u].old # NIL => BlockInv(call[u].old)'
      <3>1. call[u].old # NIL => heap'[call[u].old] = heap[call[u].old]
        BY <1>2, InPlace DEF Held, PlaceInv
      <3>2. call[u].old # NIL => BlockInv(call[u].old)
        BY <2>1 DEF SizeOfCall
      <3>3. PICK o : o = call[u].old
        OBVIOUS
      <3>4. o # NIL => BlockInv(o)'
        BY <3>1, <3>2, <3>3, BlockStays
      <3>5. call'[u].old # NIL => BlockInv(call[u].old)'
        BY <2>1, <3>3, <3>4
      <3> QED BY <2>1, <3>5
    <2>4. call[u].pc \in {"count", "countNew", "push"} => call[u].pRet # NIL
      BY <2>1 DEF CallInv
    <2> QED BY <2>1, <2>2, <2>3, <2>4 DEF SizeOfCall, ClassSize, Moves
  <1> QED BY <1>4, <1>5, <1>6, <1>7 DEF SizeInv

\* What a call holds after a step, in terms of the sizes before it.
LEMMA CallSize ==
    ASSUME NEW t \in Callers, NEW b, Moves(t, b), NEW c, c = call'[t],
           c.pc \in {"pop", "insert", "malloc", "count", "countNew"} =>
              /\ c.iNeedLen >= MEM_MGR_ALLOC_HEAD_LEN + c.iLen
              /\ \/ c.iNeedLen = miAllocMinLimit /\ c.iIndex = 0
                 \/ /\ ClassSize(c.iIndex, c.iNeedLen)
                    /\ c.pc # "insert" => mmapMemItems'[c.iIndex] # NIL,
           c.pc \in {"count", "countNew"} => heap'[c.pRet].size = c.iNeedLen,
           c.pc = "push" => ClassSize(c.iIndex, heap'[c.pRet].size),
           c.old # NIL => BlockInv(c.old)'
    PROVE  SizeOfCall(t)'
  <1>2. ClassSize(c.iIndex, c.iNeedLen) => ClassSize(call[t].iIndex, call[t].iNeedLen)'
    BY DEF ClassSize, Moves
  <1>3. c.pc = "push" => ClassSize(call[t].iIndex, heap[call[t].pRet].size)'
    BY DEF ClassSize, Moves
  <1>4. c.old # NIL => BlockInv(call[t].old)'
    BY DEF BlockInv
  <1>5. miAllocMinLimit' = miAllocMinLimit
    BY DEF Moves
  <1> QED BY <1>2, <1>3, <1>4, <1>5 DEF SizeOfCall

\* NIL is no block.
LEMMA NilInNoPlace ==
    ASSUME PlaceInv'
    PROVE  NIL \notin live' /\ \A j \in Indexes : NIL \notin Kept(j)'
  <1>1. AllocTypeOK'
    BY DEF PlaceInv
  <1>2. /\ live' \subseteq Blocks /\ \A i \in Indexes : Kept(i)' \subseteq Blocks
    <2>1. \A s \in Seq(Blocks) : Range(s) \subseteq Blocks
      BY DEF Range
    <2> QED BY <1>1, <2>1 DEF Kept, AllocTypeOK
  <1> QED BY <1>2, NilAssumption

\* A request is rounded up to the size of its index, or is small.
LEMMA StartSize ==
    ASSUME PlaceInv, SizeInv, ~retuned, NEW t \in Callers, call[t].pc = "idle",
           NEW old \in Blocks \cup {NIL}, NEW len \in MallocLens, MallocFind(t, len, old),
           (old = NIL /\ live' = live) \/ (old \in live /\ live' = live \ {old})
    PROVE  SizeInv'
  <1>1. PlaceInv' /\ Moves(t, old)
    BY StartSafe
  <1>2. PICK i, n, c : /\ i = MapIndex(len, miAlign) /\ n = Rounded(len, miAlign)
                       /\ c = call'[t]
    OBVIOUS
  <1>3. i \in Indexes /\ i \in Nat \ {0} /\ n = i * miAlign
        /\ n > MEM_MGR_ALLOC_HEAD_LEN + len /\ n \in Nat
    BY <1>2, RoundedSize, AlignAssumption DEF PlaceInv, AllocTypeOK, AllAligns
  <1>4. /\ len \in Nat /\ miAllocMinLimit \in Nat /\ MEM_MGR_ALLOC_HEAD_LEN \in Nat
        /\ mmapMemItems' = mmapMemItems /\ heap' = heap
    BY AlignAssumption DEF PlaceInv, AllocTypeOK, MallocFind, config
  <1>5. old # NIL => BlockInv(old)'
    <2>1. old # NIL => old \in live /\ BlockInv(old)
      BY DEF SizeInv
    <2> QED BY <1>1, <1>4, <2>1, BlockStays
  <1>6. SizeOfCall(t)' /\ c.old = old /\ c.pRet = NIL
    <2>1. CASE /\ Large(len)
               /\ c = [pc |-> IF mmapMemItems[i] # NIL THEN "pop" ELSE "insert",
                       iLen |-> len, iNeedLen |-> n, iIndex |-> i,
                       pRet |-> NIL, old |-> old]
      <3>1. ClassSize(i, n)
        BY <1>3, <1>4, <2>1 DEF ClassSize, Large
      <3>2. /\ c.pc \in {"pop", "insert"} /\ c.iLen = len /\ c.iNeedLen = n /\ c.iIndex = i
            /\ c.pRet = NIL /\ c.old = old
            /\ c.pc # "insert" => mmapMemItems[i] # NIL
        BY <2>1
      <3>3. n >= MEM_MGR_ALLOC_HEAD_LEN + len
        BY <1>3, <1>4
      <3> QED BY <1>1, <1>2, <1>4, <1>5, <3>1, <3>2, <3>3, CallSize
    <2>2. CASE /\ ~Large(len)
               /\ c = [pc |-> "malloc", iLen |-> len, iNeedLen |-> miAllocMinLimit,
                       iIndex |-> 0, pRet |-> NIL, old |-> old]
      <3>1. miAllocMinLimit >= MEM_MGR_ALLOC_HEAD_LEN + len
        BY <1>4, <2>2 DEF Large
      <3>2. /\ c.pc = "malloc" /\ c.iLen = len /\ c.iNeedLen = miAllocMinLimit /\ c.iIndex = 0
            /\ c.pRet = NIL /\ c.old = old
        BY <2>2
      <3> QED BY <1>1, <1>2, <1>4, <1>5, <3>1, <3>2, CallSize
    <2> QED BY <1>2, <2>1, <2>2, FindCases DEF Found
  <1>7. old \in Blocks => old \in Held(t)'
    BY <1>2, <1>6, NilAssumption DEF Held
  <1>8. old \notin live' /\ \A j \in Indexes : old \notin Kept(j)'
    BY <1>1, <1>7, NilInNoPlace DEF PlaceInv
  <1> QED BY <1>1, <1>6, <1>7, <1>8, SizeMove

\* A block popped has the size of the request.
LEMMA PopSize ==
    ASSUME PlaceInv, SizeInv, ~retuned, NEW t \in Callers, MallocPop(t)
    PROVE  SizeInv'
  <1>1. PICK b, c, o : b = call'[t].pRet /\ c = call'[t] /\ o = call[t].old
    OBVIOUS
  <1>2. /\ PlaceInv' /\ Moves(t, b)
        /\ \/ /\ b = NIL /\ Kept(call[t].iIndex) = {}
              /\ c = [call[t] EXCEPT !.pc = "malloc"]
           \/ /\ b \in Kept(call[t].iIndex)
              /\ c = [call[t] EXCEPT !.pRet = b, !.pc = "count"]
    BY <1>1, PopSafe
  <1>3. /\ SizeOfCall(t) /\ call[t].pc = "pop" /\ call[t] \in Calls
        /\ call[t].iIndex \in Indexes /\ heap' = heap
        /\ mmapMemItems[call[t].iIndex] # NIL
    BY DEF MallocPop, PlaceInv, AllocTypeOK, CallInv, SizeInv
  <1>4. /\ c.old = call[t].old /\ c.iIndex = call[t].iIndex
        /\ c.iNeedLen = call[t].iNeedLen /\ c.iLen = call[t].iLen
        /\ \/ c.pc = "malloc" /\ b = NIL
           \/ c.pc = "count" /\ b \in Kept(call[t].iIndex)
    BY <1>1, <1>2, <1>3 DEF Calls
  <1>5. /\ call[t].iNeedLen >= MEM_MGR_ALLOC_HEAD_LEN + call[t].iLen
        /\ ClassSize(call[t].iIndex, call[t].iNeedLen)
        /\ call[t].old # NIL => BlockInv(call[t].old)
    BY <1>3, IndexPositive DEF SizeOfCall
  <1>6. c.old # NIL => BlockInv(c.old)'
    <2>1. o # NIL => BlockInv(o)'
      BY <1>1, <1>2, <1>3, <1>5, BlockStays
    <2> QED BY <1>1, <1>4, <2>1
  <1>7. c.pc = "count" => heap'[c.pRet].size = c.iNeedLen
    <2>1. b \in Kept(call[t].iIndex) => ClassSize(call[t].iIndex, heap[b].size)
      BY <1>3 DEF SizeInv
    <2> QED BY <1>1, <1>3, <1>4, <1>5, <2>1 DEF ClassSize
  <1>8. mmapMemItems'[c.iIndex] # NIL /\ ClassSize(c.iIndex, c.iNeedLen)
    BY <1>2, <1>3, <1>4, <1>5 DEF Moves
  <1>9. SizeOfCall(t)'
    BY <1>1, <1>2, <1>4, <1>5, <1>6, <1>7, <1>8, CallSize
  <1>10. b \in Blocks => b \in Held(t)'
    BY <1>1, NilAssumption DEF Held
  <1>11. b = NIL \/ b \in Blocks
    BY <1>2, <1>3, InPlace DEF PlaceInv
  <1>12. b \notin live' /\ \A j \in Indexes : b \notin Kept(j)'
    BY <1>2, <1>10, <1>11, NilInNoPlace DEF PlaceInv
  <1> QED BY <1>2, <1>9, <1>10, <1>12, SizeMove

\* The index of the request is in the map now.
LEMMA InsertSize ==
    ASSUME PlaceInv, SizeInv, ~retuned, NEW t \in Callers, MallocInsert(t)
    PROVE  SizeInv'
  <1>1. PlaceInv' /\ Moves(t, NIL)
    BY InsertSafe
  <1>2. /\ SizeOfCall(t) /\ call[t].pc = "insert" /\ call[t] \in Calls
        /\ call[t].iIndex \in Indexes /\ heap' = heap
        /\ call'[t] = [call[t] EXCEPT !.pc = "malloc"]
    BY DEF MallocInsert, PlaceInv, AllocTypeOK, CallInv, SizeInv
  <1>3. mmapMemItems'[call[t].iIndex] # NIL
    <2>1. <<>> \in Seq(Blocks)
      OBVIOUS
    <2> QED BY <1>2, <2>1, NilAssumption DEF MallocInsert, PlaceInv, AllocTypeOK
  <1>4. PICK c, o : c = call'[t] /\ o = call[t].old
    OBVIOUS
  <1>5. /\ c.pc = "malloc" /\ c.old = call[t].old /\ c.iIndex = call[t].iIndex
        /\ c.iNeedLen = call[t].iNeedLen /\ c.iLen = call[t].iLen
    BY <1>2, <1>4 DEF Calls
  <1>6. /\ call[t].iNeedLen >= MEM_MGR_ALLOC_HEAD_LEN + call[t].iLen
        /\ ClassSize(call[t].iIndex, call[t].iNeedLen)
        /\ call[t].old # NIL => BlockInv(call[t].old)
    BY <1>2, IndexPositive DEF SizeOfCall
  <1>7. c.old # NIL => BlockInv(c.old)'
    <2>1. o # NIL => BlockInv(o)'
      BY <1>1, <1>2, <1>4, <1>6, BlockStays
    <2> QED BY <1>4, <1>5, <2>1
  <1>8. SizeOfCall(t)'
    BY <1>1, <1>3, <1>4, <1>5, <1>6, <1>7, CallSize
  <1>9. NIL \notin live' /\ (\A j \in Indexes : NIL \notin Kept(j)') /\ NIL \notin Blocks
    BY <1>1, NilInNoPlace, NilAssumption
  <1> QED BY <1>1, <1>8, <1>9, SizeMove

\* A block malloc'ed has the size of the request.
LEMMA AllocSize ==
    ASSUME PlaceInv, SizeInv, ~retuned, NEW t \in Callers, MallocAlloc(t),
           NEW b \in Blocks, Allocates(t, b)
    PROVE  SizeInv'
  <1>1. PICK c, o : c = call'[t] /\ o = call[t].old
    OBVIOUS
  <1>2. /\ PlaceInv' /\ Moves(t, b)
        /\ heap'[b] = [heap[b] EXCEPT !.size = call[t].iNeedLen]
        /\ c = [call[t] EXCEPT !.pRet = b, !.pc = "countNew"]
    BY <1>1, AllocSafe
  <1>3. /\ SizeOfCall(t) /\ call[t].pc = "malloc" /\ call[t] \in Calls /\ CallInv(t)
        /\ heap[b] \in [size: Nat, iTotal: Nat, iUse: Nat]
    BY DEF MallocAlloc, PlaceInv, AllocTypeOK, SizeInv
  <1>4. /\ c.old = call[t].old /\ c.iIndex = call[t].iIndex /\ c.pRet = b
        /\ c.iNeedLen = call[t].iNeedLen /\ c.iLen = call[t].iLen /\ c.pc = "countNew"
        /\ heap'[b].size = call[t].iNeedLen
    BY <1>2, <1>3 DEF Calls
  <1>5. /\ call[t].iNeedLen >= MEM_MGR_ALLOC_HEAD_LEN + call[t].iLen
        /\ \/ call[t].iNeedLen = miAllocMinLimit /\ call[t].iIndex = 0
           \/ /\ ClassSize(call[t].iIndex, call[t].iNeedLen)
              /\ mmapMemItems[call[t].iIndex] # NIL
        /\ call[t].old # NIL => BlockInv(call[t].old)
    BY <1>3 DEF SizeOfCall
  <1>6. c.old # NIL => BlockInv(c.old)'
    <2>1. o # NIL => o \in Blocks /\ o # b
      BY <1>1, <1>3, NilAssumption DEF CallInv, Held, Calls, Allocates
    <2>2. o # NIL => BlockInv(o)'
      BY <1>1, <1>2, <1>5, <2>1, BlockStays DEF Moves
    <2> QED BY <1>1, <1>4, <2>2
  <1>7. SizeOfCall(t)'
    <2>1. ClassSize(c.iIndex, c.iNeedLen) /\ mmapMemItems[c.iIndex] # NIL
             => mmapMemItems'[c.iIndex] # NIL
      BY <1>2 DEF Moves, ClassSize
    <2>2. c.iNeedLen >= MEM_MGR_ALLOC_HEAD_LEN + c.iLen
      BY <1>4, <1>5
    <2> QED BY <1>1, <1>2, <1>4, <1>5, <1>6, <2>1, <2>2, CallSize
  <1>8. b \in Held(t)'
    BY <1>1, <1>4, NilAssumption DEF Held
  <1>9. b \notin live' /\ \A j \in Indexes : b \notin Kept(j)'
    BY <1>2, <1>8 DEF PlaceInv
  <1> QED BY <1>2, <1>7, <1>8, <1>9, SizeMove

\* The size of a block whose header was written.
LEMMA BlockSize ==
    ASSUME NEW t, NEW b, Moves(t, b), NEW h, h = heap'[b],
           h.iTotal = h.size, h.size >= MEM_MGR_ALLOC_HEAD_LEN + h.iUse,
           \/ h.size = miAllocMinLimit
           \/ \E i \in Indexes : ClassSize(i, h.size) /\ mmapMemItems[i] # NIL
    PROVE  BlockInv(b)'
  <1>1. /\ h.size = miAllocMinLimit => h.size = miAllocMinLimit'
        /\ \A i \in Indexes : ClassSize(i, h.size) /\ mmapMemItems[i] # NIL
              => /\ h.size = i * miAlign' /\ h.size > miAllocMinLimit'
                 /\ mmapMemItems'[i] # NIL
    BY DEF Moves, ClassSize
  <1> QED BY <1>1 DEF BlockInv, ClassSize

\* The header says the size and what was asked for.
LEMMA CountSize ==
    ASSUME PlaceInv, SizeInv, ~retuned, NEW t \in Callers, MallocCount(t)
    PROVE  SizeInv'
  <1>1. PICK b, c, o, h : /\ b = call[t].pRet /\ c = call'[t] /\ o = call[t].old
                          /\ h = heap'[b]
    OBVIOUS
  <1>2. /\ PlaceInv' /\ Moves(t, b) /\ b \in Held(t)
        /\ h = [heap[b] EXCEPT !.iTotal = call[t].iNeedLen, !.iUse = call[t].iLen]
        /\ c = IF o = NIL THEN Idle ELSE [Idle EXCEPT !.pc = "free", !.old = o]
    BY <1>1, CountSafe
  <1>3. /\ SizeOfCall(t) /\ call[t].pc \in {"count", "countNew"} /\ call[t] \in Calls
        /\ CallInv(t) /\ live' = live \cup {b} /\ b \in Blocks
        /\ heap[b] \in [size: Nat, iTotal: Nat, iUse: Nat]
    BY <1>1, <1>2, InPlace DEF MallocCount, PlaceInv, AllocTypeOK, SizeInv
  <1>4. /\ c.pc \in {"idle", "free"} /\ c.old = o
    <2>1. o = NIL => c = Idle
      BY <1>2
    <2>2. o # NIL => c = [pc |-> "free", iLen |-> 0, iNeedLen |-> 0, iIndex |-> 0,
                          pRet |-> NIL, old |-> o]
      BY <1>2 DEF Idle
    <2> QED BY <2>1, <2>2 DEF Idle
  <1>5. /\ h.size = call[t].iNeedLen /\ h.iTotal = call[t].iNeedLen /\ h.iUse = call[t].iLen
        /\ call[t].iNeedLen >= MEM_MGR_ALLOC_HEAD_LEN + call[t].iLen
        /\ \/ call[t].iNeedLen = miAllocMinLimit
           \/ /\ ClassSize(call[t].iIndex, call[t].iNeedLen)
              /\ mmapMemItems[call[t].iIndex] # NIL
        /\ o # NIL => BlockInv(o)
    BY <1>1, <1>2, <1>3 DEF SizeOfCall
  <1>6. BlockInv(b)'
    <2>1. \/ h.size = miAllocMinLimit
          \/ \E i \in Indexes : ClassSize(i, h.size) /\ mmapMemItems[i] # NIL
      BY <1>5 DEF ClassSize
    <2>2. h.iTotal = h.size /\ h.size >= MEM_MGR_ALLOC_HEAD_LEN + h.iUse
      BY <1>5
    <2> QED BY <1>1, <1>2, <2>1, <2>2, BlockSize
  <1>7. o # NIL => BlockInv(o)'
    <2>1. o # NIL => o \in Blocks /\ o # b
      BY <1>1, <1>3 DEF CallInv, Calls
    <2> QED BY <1>2, <1>5, <2>1, BlockStays DEF Moves
  <1>8. SizeOfCall(t)'
    <2>1. c.pc \notin {"pop", "insert", "malloc", "count", "countNew", "push"}
      BY <1>4
    <2>2. c.old # NIL => BlockInv(c.old)'
      BY <1>4, <1>7
    <2>3. Moves(t, b) /\ c = call'[t]
      BY <1>1, <1>2
    <2> QED BY <2>1, <2>2, <2>3, CallSize
  <1>9. b \in live' /\ \A i \in Indexes : b \notin Kept(i)'
    BY <1>2, <1>3 DEF PlaceInv
  <1> QED BY <1>2, <1>6, <1>8, <1>9, SizeMove

\* No block is lost: the size of one that is not small is a multiple of
\* miAlign and its index is in the map.
LEMMA FreedSize ==
    ASSUME PlaceInv, NEW t, NEW b \in Blocks, BlockInv(b), FreedCall(t, b)
    PROVE  \/ /\ heap[b].size = miAllocMinLimit
              /\ call'[t] = [pc |-> "uncount", iLen |-> heap[b].iUse,
                             iNeedLen |-> heap[b].size, iIndex |-> 0,
                             pRet |-> NIL, old |-> NIL]
              /\ heap' = [heap EXCEPT ![b].size = 0]
           \/ /\ heap' = heap
              /\ \E i \in Indexes :
                    /\ ClassSize(i, heap[b].size) /\ mmapMemItems[i] # NIL
                    /\ call'[t] = [pc |-> "push", iLen |-> heap[b].iUse, iNeedLen |-> 0,
                                   iIndex |-> i, pRet |-> b, old |-> NIL]
  <1>1. PICK n : n = heap[b].size /\ n = heap[b].iTotal
    BY DEF BlockInv
  <1>2. CASE n = miAllocMinLimit
    BY <1>1, <1>2 DEF FreedCall
  <1>3. CASE n # miAllocMinLimit
    <2>1. PICK i \in Indexes : ClassSize(i, n) /\ mmapMemItems[i] # NIL
      BY <1>1, <1>3 DEF BlockInv
    <2>2. n = i * miAlign /\ i \in Nat /\ miAlign \in Nat \ {0}
      BY <2>1, IndexPositive, AlignAssumption DEF ClassSize, PlaceInv, AllocTypeOK, AllAligns
    <2>3. n % miAlign = 0 /\ n \div miAlign = i
      BY <2>2, Multiple
    <2> QED BY <1>1, <1>3, <2>1, <2>3 DEF FreedCall
  <1> QED BY <1>2, <1>3

\* A block freed goes to the queue of its size.
LEMMA FreeSize ==
    ASSUME PlaceInv, SizeInv, ~retuned, NEW t \in Callers, NEW b \in Blocks, FreeBlock(t, b),
           \/ call[t].pc = "idle" /\ b \in live /\ live' = live \ {b}
           \/ call[t].pc = "free" /\ b = call[t].old /\ live' = live
    PROVE  SizeInv'
  <1>1. PICK c : c = call'[t]
    OBVIOUS
  <1>2. PlaceInv' /\ Moves(t, b) /\ FreedCall(t, b)
    BY FreeSafe
  <1>3. BlockInv(b)
    <2>1. b \in live => BlockInv(b)
      BY DEF SizeInv
    <2>2. b = call[t].old => BlockInv(b)
      <3>1. SizeOfCall(t) /\ b # NIL
        BY NilAssumption DEF SizeInv
      <3> QED BY <3>1 DEF SizeOfCall
    <2> QED BY <2>1, <2>2
  <1>4. b \notin live' /\ \A i \in Indexes : b \notin Kept(i)'
    <2>1. \A i \in Indexes : b \notin Kept(i)
      <3>1. b \in live \/ b \in Held(t)
        BY NilAssumption DEF Held
      <3> QED BY <3>1 DEF PlaceInv
    <2>2. \A i \in Indexes : Kept(i)' = Kept(i)
      BY DEF FreeBlock, Kept
    <2>3. b \notin live'
      <3>1. b = call[t].old => b \in Held(t)
        BY NilAssumption DEF Held
      <3> QED BY <3>1 DEF PlaceInv
    <2> QED BY <2>1, <2>2, <2>3
  <1>5. CASE /\ c = [pc |-> "uncount", iLen |-> heap[b].iUse, iNeedLen |-> heap[b].size,
                     iIndex |-> 0, pRet |-> NIL, old |-> NIL]
             /\ heap' = [heap EXCEPT ![b].size = 0]
    <2>1. c.pc = "uncount" /\ c.old = NIL
      BY <1>5
    <2>2. SizeOfCall(t)'
      BY <1>1, <1>2, <2>1, CallSize
    <2>3. ~(heap'[b].size > 0)
      BY <1>5 DEF PlaceInv, AllocTypeOK
    <2> QED BY <1>2, <1>4, <2>2, <2>3, SizeMove
  <1>6. ASSUME NEW i \in Indexes, ClassSize(i, heap[b].size), heap' = heap,
               c = [pc |-> "push", iLen |-> heap[b].iUse, iNeedLen |-> 0,
                    iIndex |-> i, pRet |-> b, old |-> NIL]
        PROVE  SizeInv'
    <2>1. c.pc = "push" /\ c.old = NIL /\ c.iIndex = i /\ c.pRet = b
      BY <1>6
    <2>2. ClassSize(c.iIndex, heap'[c.pRet].size)
      BY <1>6, <2>1
    <2>3. SizeOfCall(t)'
      BY <1>1, <1>2, <2>1, <2>2, CallSize
    <2>4. b \in Held(t)'
      BY <1>1, <2>1, NilAssumption DEF Held
    <2> QED BY <1>2, <1>4, <2>3, <2>4, SizeMove
  <1> QED BY <1>1, <1>2, <1>3, <1>5, <1>6, FreedSize

\* It has the size of the queue.
LEMMA PushSize ==
    ASSUME PlaceInv, SizeInv, ~retuned, NEW t \in Callers, FreePush(t)
    PROVE  SizeInv'
  <1>1. PICK b, c, i : b = call[t].pRet /\ c = call'[t] /\ i = call[t].iIndex
    OBVIOUS
  <1>2. PlaceInv' /\ Moves(t, b) /\ b \in Held(t) /\ i \in Indexes /\ b \in Kept(i)'
    BY <1>1, PushSafe
  <1>3. ClassSize(i, heap[b].size) /\ heap' = heap /\ call[t].pc = "push" /\ call[t] \in Calls
        /\ call[t].old = NIL
    BY <1>1 DEF SizeInv, SizeOfCall, FreePush, PlaceInv, AllocTypeOK, CallInv
  <1>4. c.pc = "freecount" /\ c.old = NIL
    <2>1. c = [call[t] EXCEPT !.pc = "freecount", !.pRet = NIL]
      BY <1>1 DEF FreePush, PlaceInv, AllocTypeOK
    <2> QED BY <1>3, <2>1 DEF Calls
  <1>5. SizeOfCall(t)'
    BY <1>1, <1>2, <1>4, CallSize
  <1>6. \A j \in Indexes : b \in Kept(j)' => j = i
    BY <1>2 DEF PlaceInv, QueuesInv
  <1>7. ClassSize(i, heap[b].size)'
    BY <1>2, <1>3 DEF ClassSize, Moves
  <1>8. b \notin live'
    BY <1>2 DEF PlaceInv
  <1>9. \A j \in Indexes : b \in Kept(j)' => ClassSize(j, heap[b].size)'
    BY <1>6, <1>7
  <1> QED BY <1>2, <1>5, <1>8, <1>9, SizeMove

\* The counters of a free are no block's size.
LEMMA FreeCountSize ==
    ASSUME PlaceInv, SizeInv, ~retuned, NEW t \in Callers, FreeCount(t) \/ FreeUncount(t)
    PROVE  SizeInv'
  <1>1. PICK c : c = call'[t]
    OBVIOUS
  <1>2. PlaceInv' /\ Moves(t, NIL)
    BY FreeCountSafe
  <1>3. c.pc = "idle" /\ c.old = NIL
    <2>1. c = Idle
      BY <1>1 DEF FreeCount, FreeUncount, PlaceInv, AllocTypeOK
    <2> QED BY <2>1 DEF Idle
  <1>4. SizeOfCall(t)'
    BY <1>1, <1>2, <1>3, CallSize
  <1>5. NIL \notin live' /\ (\A j \in Indexes : NIL \notin Kept(j)') /\ NIL \notin Blocks
    BY <1>2, NilInNoPlace, NilAssumption
  <1> QED BY <1>2, <1>4, <1>5, SizeMove

\* Before the first allocation there is no size to keep.
LEMMA NothingYet ==
    ASSUME PlaceInv, Unused, NobodyIn
    PROVE  /\ live = {} /\ \A i \in Indexes : Kept(i) = {}
           /\ \A t \in Callers : Held(t) = {}
  <1>1. \A t \in Callers : Held(t) = {}
    BY DEF NobodyIn, Held, Idle
  <1>2. \A b : b \in Blocks => ~(heap[b].size > 0)
    BY DEF Unused
  <1> QED BY <1>1, <1>2, InPlace DEF PlaceInv, QueuesInv

\* SetAlign and SetAllocMinLimit change no size that is in use.
LEMMA ConfigSize ==
    ASSUME PlaceInv, SetAlign \/ SetAllocMinLimit
    PROVE  SizeInv'
  <1>1. SUFFICES ASSUME ~retuned' PROVE SizeInv'
    BY DEF SizeInv
  <1>2. /\ Unused /\ NobodyIn
    <2>1. retuned' = (retuned \/ ~(Unused /\ NobodyIn /\ miTotolMem = 0))
      BY Zenon DEF SetAlign, SetAllocMinLimit
    <2> QED BY <1>1, <2>1
  <1>3. /\ mmapMemItems' = mmapMemItems /\ heap' = heap /\ live' = live /\ call' = call
    BY DEF SetAlign, SetAllocMinLimit
  <1>4. /\ live' = {} /\ \A i \in Indexes : Kept(i)' = {}
        /\ \A b \in Blocks : heap'[b].size = 0
    BY <1>2, <1>3, NothingYet DEF Kept, Unused
  <1>5. \A t \in Callers : SizeOfCall(t)'
    BY <1>2, <1>3 DEF NobodyIn, Idle, SizeOfCall
  <1> QED BY <1>4, <1>5 DEF SizeInv

\* At first no block has a size.
LEMMA MemInitSize == ASSUME MemInit PROVE SizeInv
  <1>1. \A i \in Indexes : Kept(i) = {}
    BY DEF MemInit, Kept
  <1>2. \A t \in Callers : SizeOfCall(t)
    BY DEF MemInit, SizeOfCall, Idle
  <1> QED BY <1>1, <1>2 DEF MemInit, SizeInv

\* The summands of one block and of one thread.
SizeAt(t, b) ==
    IF b \in Blocks /\ heap[b].size > 0 /\ ~(call[t].pc = "countNew" /\ call[t].pRet = b)
    THEN heap[b].size ELSE 0
ItemAt(t, b) ==
    IF b \in Blocks /\ heap[b].size > 0 /\ ~(call[t].pc = "countNew" /\ call[t].pRet = b)
    THEN 1 ELSE 0
FreedAt(t) == IF call[t].pc = "uncount" THEN call[t].iNeedLen ELSE 0
FreedItemAt(t) == IF call[t].pc = "uncount" THEN 1 ELSE 0
UseAt(b) == IF b \in live THEN heap[b].iUse ELSE 0
ReturningAt(t) ==
    IF call[t].old # NIL THEN heap[call[t].old].iUse
    ELSE IF call[t].pc \in {"push", "freecount", "uncount"} THEN call[t].iLen ELSE 0

\* Only the thread whose step it is may have malloc'ed the block.
LEMMA OnlyHeld ==
    ASSUME NEW t \in Callers, NEW b, Moves(t, b), NEW x \in Blocks
    PROVE  /\ x = b => (Uncounted(x) <=> call[t].pc = "countNew" /\ call[t].pRet = x)
           /\ x = b => (Uncounted(x)' <=> call'[t].pc = "countNew" /\ call'[t].pRet = x)
  <1>1. x = b => \A u \in Callers \ {t} : call'[u] = call[u] /\ call[u].pRet # x
    BY NilAssumption DEF Moves, Held
  <1> QED BY <1>1 DEF Uncounted

\* The other blocks are counted as before.
LEMMA OtherCounted ==
    ASSUME NEW t \in Callers, NEW b, Moves(t, b), NEW x \in Blocks, x # b,
           call[t].pc = "countNew" => call[t].pRet = b,
           call'[t].pc = "countNew" => call'[t].pRet = b
    PROVE  Uncounted(x)' <=> Uncounted(x)
  <1>1. \A u \in Callers \ {t} : call'[u] = call[u]
    BY DEF Moves
  <1> QED BY <1>1 DEF Uncounted

\* Of the sums over the blocks one summand changes.
LEMMA SizesMove ==
    ASSUME PlaceInv, PlaceInv', NEW t \in Callers, NEW b, Moves(t, b),
           call[t].pc = "countNew" => call[t].pRet = b,
           call'[t].pc = "countNew" => call'[t].pRet = b
    PROVE  /\ SumFunctionOnSet(Sizes', Blocks)
                = SumFunctionOnSet(Sizes, Blocks) - SizeAt(t, b) + SizeAt(t, b)'
           /\ SumFunctionOnSet(Items', Blocks)
                = SumFunctionOnSet(Items, Blocks) - ItemAt(t, b) + ItemAt(t, b)'
           /\ SumFunctionOnSet(Sizes, Blocks) \in Nat /\ SumFunctionOnSet(Items, Blocks) \in Nat
           /\ SumFunctionOnSet(Sizes', Blocks) \in Nat /\ SumFunctionOnSet(Items', Blocks) \in Nat
  <1>1. PICK f, h : f = Sizes /\ h = Sizes'
    OBVIOUS
  <1>2. PICK p, q : p = Items /\ q = Items'
    OBVIOUS
  <1>3. \A x \in Blocks : heap[x].size \in Nat /\ heap'[x].size \in Nat
    BY DEF PlaceInv, AllocTypeOK
  <1>4. \A x \in Blocks : x # b => (Uncounted(x)' <=> Uncounted(x)) /\ heap'[x] = heap[x]
    BY OtherCounted DEF Moves
  <1>5. b \in Blocks =>
           /\ Uncounted(b) <=> call[t].pc = "countNew" /\ call[t].pRet = b
           /\ Uncounted(b)' <=> call'[t].pc = "countNew" /\ call'[t].pRet = b
    BY OnlyHeld
  <1>6. \A y \in Blocks : f[y] \in Nat /\ h[y] \in Nat /\ (y # b => f[y] = h[y])
    BY <1>1, <1>3, <1>4 DEF Sizes, Counted
  <1>7. \A y \in Blocks : p[y] \in Nat /\ q[y] \in Nat /\ (y # b => p[y] = q[y])
    BY <1>2, <1>3, <1>4 DEF Items, Counted
  <1>8. b \in Blocks => /\ f[b] = SizeAt(t, b) /\ h[b] = SizeAt(t, b)'
                        /\ p[b] = ItemAt(t, b) /\ q[b] = ItemAt(t, b)'
    BY <1>1, <1>2, <1>5 DEF Sizes, Items, Counted, SizeAt, ItemAt
  <1>9. b \notin Blocks => /\ SizeAt(t, b) = 0 /\ SizeAt(t, b)' = 0
                           /\ ItemAt(t, b) = 0 /\ ItemAt(t, b)' = 0
    BY DEF SizeAt, ItemAt
  <1>10. /\ SumFunctionOnSet(f, Blocks) \in Nat /\ SumFunctionOnSet(h, Blocks) \in Nat
         /\ SumFunctionOnSet(p, Blocks) \in Nat /\ SumFunctionOnSet(q, Blocks) \in Nat
    BY <1>6, <1>7, SumNat, FiniteAssumption
  <1>11. SumFunctionOnSet(h, Blocks) = SumFunctionOnSet(f, Blocks) - SizeAt(t, b) + SizeAt(t, b)'
    <2>1. \A y \in Blocks : f[y] \in Int /\ h[y] \in Int /\ (y # b => f[y] = h[y])
      BY <1>6
    <2>2. /\ b \in Blocks => SumFunctionOnSet(h, Blocks)
                                = SumFunctionOnSet(f, Blocks) - f[b] + h[b]
          /\ b \notin Blocks => SumFunctionOnSet(h, Blocks) = SumFunctionOnSet(f, Blocks)
      BY <2>1, SumMove, FiniteAssumption
    <2> QED BY <1>8, <1>9, <1>10, <2>2
  <1>12. SumFunctionOnSet(q, Blocks) = SumFunctionOnSet(p, Blocks) - ItemAt(t, b) + ItemAt(t, b)'
    <2>1. \A y \in Blocks : p[y] \in Int /\ q[y] \in Int /\ (y # b => p[y] = q[y])
      BY <1>7
    <2>2. /\ b \in Blocks => SumFunctionOnSet(q, Blocks)
                                = SumFunctionOnSet(p, Blocks) - p[b] + q[b]
          /\ b \notin Blocks => SumFunctionOnSet(q, Blocks) = SumFunctionOnSet(p, Blocks)
      BY <2>1, SumMove, FiniteAssumption
    <2> QED BY <1>8, <1>9, <1>10, <2>2
  <1> QED BY <1>1, <1>2, <1>10, <1>11, <1>12

\* Of the sums over the frees under way one summand changes.
LEMMA FreedMove ==
    ASSUME PlaceInv, PlaceInv', NEW t \in Callers, NEW b, Moves(t, b)
    PROVE  /\ SumFunctionOnSet(FreedSizes', Callers)
                = SumFunctionOnSet(FreedSizes, Callers) - FreedAt(t) + FreedAt(t)'
           /\ SumFunctionOnSet(FreedItems', Callers)
                = SumFunctionOnSet(FreedItems, Callers) - FreedItemAt(t) + FreedItemAt(t)'
           /\ SumFunctionOnSet(FreedSizes, Callers) \in Nat
           /\ SumFunctionOnSet(FreedItems, Callers) \in Nat
           /\ SumFunctionOnSet(FreedSizes', Callers) \in Nat
           /\ SumFunctionOnSet(FreedItems', Callers) \in Nat
  <1>1. PICK f, h, p, q : f = FreedSizes /\ h = FreedSizes' /\ p = FreedItems /\ q = FreedItems'
    OBVIOUS
  <1>2. \A u \in Callers : call[u].iNeedLen \in Nat /\ call'[u].iNeedLen \in Nat
    BY DEF PlaceInv, AllocTypeOK, Calls
  <1>3. \A u \in Callers : u # t => call'[u] = call[u]
    BY DEF Moves
  <1>4. /\ \A u \in Callers : f[u] \in Nat /\ h[u] \in Nat /\ (u # t => f[u] = h[u])
        /\ f[t] = FreedAt(t) /\ h[t] = FreedAt(t)'
    BY <1>1, <1>2, <1>3 DEF FreedSizes, FreedAt
  <1>5. /\ \A u \in Callers : p[u] \in Nat /\ q[u] \in Nat /\ (u # t => p[u] = q[u])
        /\ p[t] = FreedItemAt(t) /\ q[t] = FreedItemAt(t)'
    BY <1>1, <1>3 DEF FreedItems, FreedItemAt
  <1>6. /\ SumFunctionOnSet(f, Callers) \in Nat /\ SumFunctionOnSet(h, Callers) \in Nat
        /\ SumFunctionOnSet(p, Callers) \in Nat /\ SumFunctionOnSet(q, Callers) \in Nat
    BY <1>4, <1>5, SumNat, FiniteAssumption
  <1>7. SumFunctionOnSet(h, Callers) = SumFunctionOnSet(f, Callers) - f[t] + h[t]
    <2>1. \A u \in Callers : f[u] \in Int /\ h[u] \in Int /\ (u # t => f[u] = h[u])
      BY <1>4
    <2> QED BY <2>1, SumChange, FiniteAssumption
  <1>8. SumFunctionOnSet(q, Callers) = SumFunctionOnSet(p, Callers) - p[t] + q[t]
    <2>1. \A u \in Callers : p[u] \in Int /\ q[u] \in Int /\ (u # t => p[u] = q[u])
      BY <1>5
    <2> QED BY <2>1, SumChange, FiniteAssumption
  <1> QED BY <1>1, <1>4, <1>5, <1>6, <1>7, <1>8

\* Of the sums of the bytes in use one summand changes in each.
LEMMA UseMove ==
    ASSUME PlaceInv, PlaceInv', NEW t \in Callers, NEW b, Moves(t, b)
    PROVE  /\ SumFunctionOnSet(InUse', Blocks)
                = SumFunctionOnSet(InUse, Blocks) - UseAt(b) + UseAt(b)'
           /\ SumFunctionOnSet(Returning', Callers)
                = SumFunctionOnSet(Returning, Callers) - ReturningAt(t) + ReturningAt(t)'
           /\ SumFunctionOnSet(InUse, Blocks) \in Nat
           /\ SumFunctionOnSet(Returning, Callers) \in Nat
           /\ SumFunctionOnSet(InUse', Blocks) \in Nat
           /\ SumFunctionOnSet(Returning', Callers) \in Nat
  <1>1. PICK f, h, p, q : f = InUse /\ h = InUse' /\ p = Returning /\ q = Returning'
    OBVIOUS
  <1>2. /\ \A x \in Blocks : heap[x].iUse \in Nat /\ heap'[x].iUse \in Nat
        /\ \A u \in Callers : call[u].iLen \in Nat /\ call'[u].iLen \in Nat
        /\ \A u \in Callers : call[u].old # NIL => call[u].old \in Blocks
        /\ \A u \in Callers : call'[u].old # NIL => call'[u].old \in Blocks
        /\ live \subseteq Blocks /\ live' \subseteq Blocks
    BY DEF PlaceInv, AllocTypeOK, Calls
  <1>3. /\ \A u \in Callers : u # t =>
              call'[u] = call[u] /\ (call[u].old # NIL => call[u].old # b)
        /\ \A x \in Blocks : x # b => heap'[x] = heap[x] /\ (x \in live' <=> x \in live)
    BY DEF Moves, Held
  <1>4. /\ \A x \in Blocks : f[x] \in Nat /\ h[x] \in Nat /\ (x # b => f[x] = h[x])
        /\ b \in Blocks => f[b] = UseAt(b) /\ h[b] = UseAt(b)'
        /\ b \notin Blocks => UseAt(b) = 0 /\ UseAt(b)' = 0
    BY <1>1, <1>2, <1>3 DEF InUse, UseAt
  <1>5. /\ \A u \in Callers : p[u] \in Nat /\ q[u] \in Nat /\ (u # t => p[u] = q[u])
        /\ p[t] = ReturningAt(t) /\ q[t] = ReturningAt(t)'
    <2>1. \A u \in Callers : p[u] \in Nat /\ q[u] \in Nat
      BY <1>1, <1>2 DEF Returning
    <2>2. ASSUME NEW u \in Callers, u # t PROVE p[u] = q[u]
      <3>1. call'[u] = call[u]
        BY <1>3, <2>2
      <3>2. call[u].old # NIL => heap'[call[u].old] = heap[call[u].old]
        BY <1>2, <1>3, <2>2
      <3>3. p[u] = IF call[u].old # NIL THEN heap[call[u].old].iUse
                   ELSE IF call[u].pc \in {"push", "freecount", "uncount"}
                        THEN call[u].iLen ELSE 0
        BY <1>1 DEF Returning
      <3>4. q[u] = IF call'[u].old # NIL THEN heap'[call'[u].old].iUse
                   ELSE IF call'[u].pc \in {"push", "freecount", "uncount"}
                        THEN call'[u].iLen ELSE 0
        BY <1>1 DEF Returning
      <3> QED BY <3>1, <3>2, <3>3, <3>4, Zenon
    <2>3. p[t] = ReturningAt(t) /\ q[t] = ReturningAt(t)'
      BY <1>1 DEF Returning, ReturningAt
    <2> QED BY <2>1, <2>2, <2>3
  <1>6. /\ SumFunctionOnSet(f, Blocks) \in Nat /\ SumFunctionOnSet(h, Blocks) \in Nat
        /\ SumFunctionOnSet(p, Callers) \in Nat /\ SumFunctionOnSet(q, Callers) \in Nat
    BY <1>4, <1>5, SumNat, FiniteAssumption
  <1>7. SumFunctionOnSet(h, Blocks) = SumFunctionOnSet(f, Blocks) - UseAt(b) + UseAt(b)'
    <2>1. \A y \in Blocks : f[y] \in Int /\ h[y] \in Int /\ (y # b => f[y] = h[y])
      BY <1>4
    <2>2. CASE b \in Blocks
      <3>1. SumFunctionOnSet(h, Blocks) = SumFunctionOnSet(f, Blocks) - f[b] + h[b]
        BY <2>1, <2>2, SumChange, FiniteAssumption
      <3> QED BY <1>4, <2>2, <3>1
    <2>3. CASE b \notin Blocks
      <3>1. SumFunctionOnSet(h, Blocks) = SumFunctionOnSet(f, Blocks)
        BY <2>1, <2>3, SumSame, FiniteAssumption
      <3> QED BY <1>4, <1>6, <2>3, <3>1
    <2> QED BY <2>2, <2>3
  <1>8. SumFunctionOnSet(q, Callers) = SumFunctionOnSet(p, Callers) - p[t] + q[t]
    <2>1. \A u \in Callers : p[u] \in Int /\ q[u] \in Int /\ (u # t => p[u] = q[u])
      BY <1>5
    <2> QED BY <2>1, SumChange, FiniteAssumption
  <1> QED BY <1>1, <1>5, <1>6, <1>7, <1>8

\* The summands are integers.
LEMMA AtTypes ==
    ASSUME PlaceInv, PlaceInv', NEW t \in Callers, NEW b
    PROVE  /\ SizeAt(t, b) \in Int /\ SizeAt(t, b)' \in Int
           /\ ItemAt(t, b) \in Int /\ ItemAt(t, b)' \in Int
           /\ FreedAt(t) \in Int /\ FreedAt(t)' \in Int
           /\ FreedItemAt(t) \in Int /\ FreedItemAt(t)' \in Int
           /\ UseAt(b) \in Int /\ UseAt(b)' \in Int
           /\ ReturningAt(t) \in Int /\ ReturningAt(t)' \in Int
           /\ miTotolMem \in Int /\ miTotolMem' \in Int
           /\ miMemItemsNum \in Int /\ miMemItemsNum' \in Int
           /\ miTotalMalloc \in Int /\ miTotalMalloc' \in Int
           /\ miTotalFree \in Int /\ miTotalFree' \in Int
  <1>1. /\ FreedAt(t) \in Int /\ FreedAt(t)' \in Int
        /\ FreedItemAt(t) \in Int /\ FreedItemAt(t)' \in Int
        /\ SizeAt(t, b) \in Int /\ SizeAt(t, b)' \in Int
        /\ ItemAt(t, b) \in Int /\ ItemAt(t, b)' \in Int
    BY DEF FreedAt, FreedItemAt, SizeAt, ItemAt, PlaceInv, AllocTypeOK, Calls
  <1>2. UseAt(b) \in Int /\ UseAt(b)' \in Int
    BY DEF UseAt, PlaceInv, AllocTypeOK
  <1>3. ReturningAt(t) \in Int /\ ReturningAt(t)' \in Int
    <2>1. /\ \A x \in Blocks : heap[x].iUse \in Nat /\ heap'[x].iUse \in Nat
          /\ call[t].iLen \in Nat /\ call'[t].iLen \in Nat
          /\ call[t].old # NIL => call[t].old \in Blocks
          /\ call'[t].old # NIL => call'[t].old \in Blocks
      BY DEF PlaceInv, AllocTypeOK, Calls
    <2> QED BY <2>1 DEF ReturningAt
  <1> QED BY <1>1, <1>2, <1>3 DEF PlaceInv, AllocTypeOK

\* The counters follow what a step moves.
LEMMA CountMove ==
    ASSUME PlaceInv, PlaceInv', Accounted, ~retuned, NEW t \in Callers, NEW b, Moves(t, b),
           call[t].pc = "countNew" => call[t].pRet = b,
           call'[t].pc = "countNew" => call'[t].pRet = b,
           miTotolMem' = miTotolMem - SizeAt(t, b) + SizeAt(t, b)' - FreedAt(t) + FreedAt(t)',
           miMemItemsNum' = miMemItemsNum - ItemAt(t, b) + ItemAt(t, b)'
                                          - FreedItemAt(t) + FreedItemAt(t)',
           miTotalMalloc' - miTotalFree' = miTotalMalloc - miTotalFree
               - UseAt(b) + UseAt(b)' - ReturningAt(t) + ReturningAt(t)'
    PROVE  Accounted'
  <1>1. /\ miTotolMem = SumFunctionOnSet(Sizes, Blocks) + SumFunctionOnSet(FreedSizes, Callers)
        /\ miMemItemsNum = SumFunctionOnSet(Items, Blocks)
                           + SumFunctionOnSet(FreedItems, Callers)
        /\ miTotalMalloc - miTotalFree
               = SumFunctionOnSet(InUse, Blocks) + SumFunctionOnSet(Returning, Callers)
    BY DEF Accounted
  <1>2. /\ miTotolMem'
              = SumFunctionOnSet(Sizes', Blocks) + SumFunctionOnSet(FreedSizes', Callers)
        /\ miTotolMem' >= 0
    BY <1>1, AtTypes, SizesMove, FreedMove
  <1>3. /\ miMemItemsNum' = SumFunctionOnSet(Items', Blocks)
                            + SumFunctionOnSet(FreedItems', Callers)
        /\ miMemItemsNum' >= 0
    BY <1>1, AtTypes, SizesMove, FreedMove
  <1>4. /\ miTotalMalloc' - miTotalFree'
              = SumFunctionOnSet(InUse', Blocks) + SumFunctionOnSet(Returning', Callers)
        /\ miTotalMalloc' >= miTotalFree'
    BY <1>1, AtTypes, UseMove
  <1> QED BY <1>2, <1>3, <1>4 DEF Accounted

\* A step that changes no counter.
LEMMA CountStill ==
    ASSUME PlaceInv, PlaceInv', Accounted, ~retuned, NEW t \in Callers, NEW b, Moves(t, b),
           call[t].pc = "countNew" => call[t].pRet = b,
           call'[t].pc = "countNew" => call'[t].pRet = b,
           UNCHANGED totals,
           FreedAt(t) = 0, FreedAt(t)' = 0, FreedItemAt(t) = 0, FreedItemAt(t)' = 0,
           SizeAt(t, b)' = SizeAt(t, b), ItemAt(t, b)' = ItemAt(t, b),
           UseAt(b) + ReturningAt(t) = UseAt(b)' + ReturningAt(t)'
    PROVE  Accounted'
  <1>1. /\ miTotolMem' = miTotolMem - SizeAt(t, b) + SizeAt(t, b)' - FreedAt(t) + FreedAt(t)'
        /\ miMemItemsNum' = miMemItemsNum - ItemAt(t, b) + ItemAt(t, b)'
                                          - FreedItemAt(t) + FreedItemAt(t)'
        /\ miTotalMalloc' - miTotalFree' = miTotalMalloc - miTotalFree
               - UseAt(b) + UseAt(b)' - ReturningAt(t) + ReturningAt(t)'
    BY AtTypes DEF totals
  <1> QED BY <1>1, CountMove

\* A call starts with nothing but its old block.
LEMMA FoundCall ==
    ASSUME NEW t, NEW len, NEW old, Found(t, len, old)
    PROVE  call'[t].pc \in {"pop", "insert", "malloc"} /\ call'[t].old = old
  <1>1. PICK i : i = MapIndex(len, miAlign)
    OBVIOUS
  <1>2. CASE call'[t] = [pc |-> IF mmapMemItems[i] # NIL THEN "pop" ELSE "insert",
                         iLen |-> len, iNeedLen |-> Rounded(len, miAlign), iIndex |-> i,
                         pRet |-> NIL, old |-> old]
    BY <1>2
  <1>3. CASE call'[t] = [pc |-> "malloc", iLen |-> len, iNeedLen |-> miAllocMinLimit,
                         iIndex |-> 0, pRet |-> NIL, old |-> old]
    BY <1>3
  <1> QED BY <1>1, <1>2, <1>3 DEF Found

\* The old block is in use until it is freed.
LEMMA StartCount ==
    ASSUME PlaceInv, Accounted, ~retuned, NEW t \in Callers, call[t].pc = "idle",
           NEW old \in Blocks \cup {NIL}, NEW len \in MallocLens, MallocFind(t, len, old),
           (old = NIL /\ live' = live) \/ (old \in live /\ live' = live \ {old})
    PROVE  Accounted'
  <1>1. PlaceInv' /\ Moves(t, old)
    BY StartSafe
  <1>2. call[t] = Idle /\ heap' = heap /\ UNCHANGED totals
    BY DEF PlaceInv, CallInv, MallocFind
  <1>3. call'[t].pc \in {"pop", "insert", "malloc"} /\ call'[t].old = old
    BY FindCases, FoundCall
  <1>4. call[t].pc = "idle" /\ call[t].old = NIL
    BY <1>2 DEF Idle
  <1>5. FreedAt(t) = 0 /\ FreedAt(t)' = 0 /\ FreedItemAt(t) = 0 /\ FreedItemAt(t)' = 0
    BY <1>3, <1>4 DEF FreedAt, FreedItemAt
  <1>6. SizeAt(t, old)' = SizeAt(t, old) /\ ItemAt(t, old)' = ItemAt(t, old)
    BY <1>2, <1>3, <1>4 DEF SizeAt, ItemAt
  <1>7. UseAt(old) = ReturningAt(t)' /\ UseAt(old)' = ReturningAt(t)
    <2>1. ReturningAt(t) = 0 /\ ReturningAt(t)' = IF old = NIL THEN 0 ELSE heap[old].iUse
      BY <1>2, <1>3, <1>4 DEF ReturningAt
    <2>2. NIL \notin live
      BY NilAssumption DEF PlaceInv, AllocTypeOK
    <2>3. UseAt(old) = (IF old = NIL THEN 0 ELSE heap[old].iUse) /\ UseAt(old)' = 0
      BY <1>2, <2>2 DEF UseAt
    <2> QED BY <2>1, <2>3
  <1> QED BY <1>1, <1>2, <1>3, <1>4, <1>5, <1>6, <1>7, AtTypes, CountStill

\* A block in a queue stays counted.
LEMMA PopCount ==
    ASSUME PlaceInv, Accounted, ~retuned, NEW t \in Callers, MallocPop(t)
    PROVE  Accounted'
  <1>1. PICK b, c : b = call'[t].pRet /\ c = call'[t]
    OBVIOUS
  <1>2. /\ PlaceInv' /\ Moves(t, b)
        /\ \/ c = [call[t] EXCEPT !.pc = "malloc"]
           \/ c = [call[t] EXCEPT !.pRet = b, !.pc = "count"]
    BY <1>1, PopSafe
  <1>3. /\ call[t] \in Calls /\ call[t].pc = "pop"
        /\ heap' = heap /\ live' = live /\ UNCHANGED totals
    BY DEF MallocPop, PlaceInv, AllocTypeOK
  <1>4. c.pc \in {"malloc", "count"} /\ c.old = call[t].old
    BY <1>2, <1>3 DEF Calls
  <1>5. FreedAt(t) = 0 /\ FreedAt(t)' = 0 /\ FreedItemAt(t) = 0 /\ FreedItemAt(t)' = 0
    BY <1>1, <1>3, <1>4 DEF FreedAt, FreedItemAt
  <1>6. SizeAt(t, b)' = SizeAt(t, b) /\ ItemAt(t, b)' = ItemAt(t, b)
    BY <1>1, <1>3, <1>4 DEF SizeAt, ItemAt
  <1>7. UseAt(b)' = UseAt(b) /\ ReturningAt(t)' = ReturningAt(t)
    BY <1>1, <1>3, <1>4 DEF UseAt, ReturningAt
  <1> QED BY <1>1, <1>2, <1>3, <1>4, <1>5, <1>6, <1>7, AtTypes, CountStill

\* No block is counted.
LEMMA InsertCount ==
    ASSUME PlaceInv, Accounted, ~retuned, NEW t \in Callers, MallocInsert(t)
    PROVE  Accounted'
  <1>1. PlaceInv' /\ Moves(t, NIL)
    BY InsertSafe
  <1>2. /\ call[t] \in Calls /\ call[t].pc = "insert"
        /\ heap' = heap /\ live' = live /\ UNCHANGED totals
        /\ call'[t] = [call[t] EXCEPT !.pc = "malloc"]
    BY DEF MallocInsert, PlaceInv, AllocTypeOK
  <1>3. call'[t].pc = "malloc" /\ call'[t].old = call[t].old
    BY <1>2 DEF Calls
  <1>4. FreedAt(t) = 0 /\ FreedAt(t)' = 0 /\ FreedItemAt(t) = 0 /\ FreedItemAt(t)' = 0
    BY <1>2, <1>3 DEF FreedAt, FreedItemAt
  <1>5. SizeAt(t, NIL)' = SizeAt(t, NIL) /\ ItemAt(t, NIL)' = ItemAt(t, NIL)
    BY <1>2, <1>3 DEF SizeAt, ItemAt
  <1>6. UseAt(NIL)' = UseAt(NIL) /\ ReturningAt(t)' = ReturningAt(t)
    BY <1>2, <1>3 DEF UseAt, ReturningAt
  <1> QED BY <1>1, <1>2, <1>3, <1>4, <1>5, <1>6, AtTypes, CountStill

\* A new block is not counted yet.
LEMMA AllocCount ==
    ASSUME PlaceInv, Accounted, ~retuned, NEW t \in Callers, MallocAlloc(t),
           NEW b \in Blocks, Allocates(t, b)
    PROVE  Accounted'
  <1>1. PICK c, o : c = call'[t] /\ o = call[t].old
    OBVIOUS
  <1>2. /\ PlaceInv' /\ Moves(t, b) /\ c = [call[t] EXCEPT !.pRet = b, !.pc = "countNew"]
    BY <1>1, AllocSafe
  <1>3. /\ call[t] \in Calls /\ call[t].pc = "malloc" /\ CallInv(t)
        /\ live' = live /\ UNCHANGED totals /\ heap[b].size = 0
    BY DEF MallocAlloc, Allocates, PlaceInv, AllocTypeOK
  <1>4. c.pc = "countNew" /\ c.pRet = b /\ c.old = call[t].old
    BY <1>2, <1>3 DEF Calls
  <1>5. FreedAt(t) = 0 /\ FreedAt(t)' = 0 /\ FreedItemAt(t) = 0 /\ FreedItemAt(t)' = 0
    BY <1>1, <1>3, <1>4 DEF FreedAt, FreedItemAt
  <1>6. SizeAt(t, b)' = 0 /\ SizeAt(t, b) = 0 /\ ItemAt(t, b)' = 0 /\ ItemAt(t, b) = 0
    BY <1>1, <1>3, <1>4 DEF SizeAt, ItemAt
  <1>7. UseAt(b) = 0 /\ UseAt(b)' = 0
    BY <1>3 DEF UseAt, PlaceInv
  <1>8. ReturningAt(t)' = ReturningAt(t)
    <2>1. o # NIL => o \in Blocks /\ o # b
      BY <1>1, <1>3, NilAssumption DEF CallInv, Held, Calls
    <2>2. o # NIL => heap'[o] = heap[o]
      BY <1>2, <2>1 DEF Moves
    <2> QED BY <1>1, <1>3, <1>4, <2>2 DEF ReturningAt
  <1> QED BY <1>1, <1>2, <1>3, <1>4, <1>5, <1>6, <1>7, <1>8, AtTypes, CountStill

\* A new block is counted, one from a queue was; its bytes are in use.
LEMMA CountCount ==
    ASSUME PlaceInv, SizeInv, Accounted, ~retuned, NEW t \in Callers, MallocCount(t)
    PROVE  Accounted'
  <1>1. PICK b, c, o, k : b = call[t].pRet /\ c = call'[t] /\ o = call[t].old /\ k = call[t]
    OBVIOUS
  <1>2. /\ PlaceInv' /\ Moves(t, b) /\ b \in Held(t)
        /\ heap'[b] = [heap[b] EXCEPT !.iTotal = k.iNeedLen, !.iUse = k.iLen]
        /\ c = IF o = NIL THEN Idle ELSE [Idle EXCEPT !.pc = "free", !.old = o]
    BY <1>1, CountSafe
  <1>3. /\ SizeOfCall(t) /\ k.pc \in {"count", "countNew"} /\ k \in Calls
        /\ CallInv(t) /\ live' = live \cup {b} /\ b \in Blocks
        /\ heap[b] \in [size: Nat, iTotal: Nat, iUse: Nat]
    BY <1>1, <1>2, InPlace DEF MallocCount, PlaceInv, AllocTypeOK, SizeInv
  <1>4. c.pc \in {"idle", "free"} /\ c.old = o /\ c.pRet = NIL
    <2>1. o = NIL => c = Idle
      BY <1>2
    <2>2. o # NIL => c = [pc |-> "free", iLen |-> 0, iNeedLen |-> 0, iIndex |-> 0,
                          pRet |-> NIL, old |-> o]
      BY <1>2 DEF Idle
    <2> QED BY <2>1, <2>2 DEF Idle
  <1>5. /\ heap'[b].size = k.iNeedLen /\ heap'[b].iUse = k.iLen
        /\ heap[b].size = k.iNeedLen /\ heap[b].size > 0
    BY <1>1, <1>2, <1>3 DEF SizeOfCall, CallInv
  <1>6. FreedAt(t) = 0 /\ FreedAt(t)' = 0 /\ FreedItemAt(t) = 0 /\ FreedItemAt(t)' = 0
    BY <1>1, <1>3, <1>4 DEF FreedAt, FreedItemAt
  <1>7. /\ SizeAt(t, b)' = k.iNeedLen /\ ItemAt(t, b)' = 1
        /\ SizeAt(t, b) = IF k.pc = "countNew" THEN 0 ELSE k.iNeedLen
        /\ ItemAt(t, b) = IF k.pc = "countNew" THEN 0 ELSE 1
    BY <1>1, <1>3, <1>4, <1>5 DEF SizeAt, ItemAt
  <1>8. UseAt(b) = 0 /\ UseAt(b)' = k.iLen
    <2>1. b \notin live
      BY <1>2 DEF PlaceInv
    <2> QED BY <1>3, <1>5, <2>1 DEF UseAt
  <1>9. ReturningAt(t)' = ReturningAt(t)
    <2>1. o # NIL => o \in Blocks /\ o # b
      BY <1>1, <1>3, NilAssumption DEF CallInv, Held, Calls
    <2>2. o # NIL => heap'[o] = heap[o]
      BY <1>2, <2>1 DEF Moves
    <2> QED BY <1>1, <1>3, <1>4, <2>2 DEF ReturningAt
  <1>10. /\ miTotalMalloc' = miTotalMalloc + k.iLen /\ miTotalFree' = miTotalFree
         /\ miTotolMem' = IF k.pc = "countNew" THEN miTotolMem + k.iNeedLen ELSE miTotolMem
         /\ miMemItemsNum' = IF k.pc = "countNew" THEN miMemItemsNum + 1 ELSE miMemItemsNum
    BY <1>1 DEF MallocCount
  <1>11. k.iLen \in Nat /\ k.iNeedLen \in Nat
    BY <1>3 DEF Calls
  <1>12. /\ miTotolMem' = miTotolMem - SizeAt(t, b) + SizeAt(t, b)' - FreedAt(t) + FreedAt(t)'
         /\ miMemItemsNum' = miMemItemsNum - ItemAt(t, b) + ItemAt(t, b)'
                                           - FreedItemAt(t) + FreedItemAt(t)'
    BY <1>2, <1>6, <1>7, <1>10, <1>11, AtTypes
  <1>13. miTotalMalloc' - miTotalFree' = miTotalMalloc - miTotalFree
             - UseAt(b) + UseAt(b)' - ReturningAt(t) + ReturningAt(t)'
    BY <1>2, <1>8, <1>9, <1>10, <1>11, AtTypes
  <1>14. /\ call[t].pc = "countNew" => call[t].pRet = b
         /\ call'[t].pc = "countNew" => call'[t].pRet = b
    BY <1>1, <1>4
  <1> QED BY <1>2, <1>12, <1>13, <1>14, CountMove

\* A block free'd is to be uncounted, one for a queue is not.
LEMMA FreeBlockCount ==
    ASSUME PlaceInv, SizeInv, Accounted, ~retuned, NEW t \in Callers, NEW b \in Blocks,
           FreeBlock(t, b),
           \/ call[t].pc = "idle" /\ b \in live /\ live' = live \ {b}
           \/ call[t].pc = "free" /\ b = call[t].old /\ live' = live
    PROVE  Accounted'
  <1>1. PICK c, n, u : c = call'[t] /\ n = heap[b].size /\ u = heap[b].iUse
    OBVIOUS
  <1>2. PlaceInv' /\ Moves(t, b) /\ FreedCall(t, b)
    BY FreeSafe
  <1>3. /\ b # NIL /\ n > 0 /\ n \in Nat /\ u \in Nat /\ CallInv(t) /\ UNCHANGED totals
        /\ heap[b] \in [size: Nat, iTotal: Nat, iUse: Nat]
    <2>1. b \in live \/ b \in Held(t)
      BY NilAssumption DEF Held
    <2> QED BY <1>1, <2>1, NilAssumption DEF FreeBlock, PlaceInv, AllocTypeOK, CallInv
  <1>4. BlockInv(b)
    <2>1. b \in live => BlockInv(b)
      BY DEF SizeInv
    <2>2. b = call[t].old => BlockInv(b)
      <3>1. SizeOfCall(t)
        BY DEF SizeInv
      <3> QED BY <1>3, <3>1 DEF SizeOfCall
    <2> QED BY <2>1, <2>2
  <1>5. /\ FreedAt(t) = 0 /\ FreedItemAt(t) = 0
        /\ SizeAt(t, b) = n /\ ItemAt(t, b) = 1
        /\ UseAt(b) + ReturningAt(t) = u
    <2>1. FreedAt(t) = 0 /\ FreedItemAt(t) = 0 /\ SizeAt(t, b) = n /\ ItemAt(t, b) = 1
      BY <1>1, <1>3 DEF FreedAt, FreedItemAt, SizeAt, ItemAt
    <2>2. CASE call[t].pc = "idle" /\ b \in live
      <3>1. UseAt(b) = u
        BY <1>1, <2>2 DEF UseAt
      <3>2. call[t] = Idle
        BY <1>3, <2>2 DEF CallInv
      <3>3. ReturningAt(t) = 0
        BY <3>2 DEF ReturningAt, Idle
      <3> QED BY <1>3, <2>1, <3>1, <3>3
    <2>3. CASE call[t].pc = "free" /\ b = call[t].old
      <3>1. b \notin live
        BY <1>3, <2>3 DEF PlaceInv, Held
      <3>2. UseAt(b) = 0 /\ ReturningAt(t) = u
        BY <1>1, <1>3, <2>3, <3>1 DEF UseAt, ReturningAt
      <3> QED BY <1>3, <2>1, <3>2
    <2> QED BY <2>2, <2>3
  <1>6. UseAt(b)' = 0
    <2>1. b \notin live'
      BY <1>3 DEF PlaceInv, Held
    <2> QED BY <2>1 DEF UseAt
  <1>7. CASE /\ c = [pc |-> "uncount", iLen |-> u, iNeedLen |-> n, iIndex |-> 0,
                     pRet |-> NIL, old |-> NIL]
             /\ heap' = [heap EXCEPT ![b].size = 0]
    <2>1. /\ c.pc = "uncount" /\ c.old = NIL /\ c.iLen = u /\ c.iNeedLen = n
          /\ c.pRet = NIL
      BY <1>7
    <2>2. heap'[b].size = 0
      BY <1>7 DEF PlaceInv, AllocTypeOK
    <2>3. /\ FreedAt(t)' = n /\ FreedItemAt(t)' = 1 /\ SizeAt(t, b)' = 0 /\ ItemAt(t, b)' = 0
          /\ ReturningAt(t)' = u
      BY <1>1, <2>1, <2>2 DEF FreedAt, FreedItemAt, SizeAt, ItemAt, ReturningAt
    <2>4. /\ miTotolMem' = miTotolMem - SizeAt(t, b) + SizeAt(t, b)' - FreedAt(t) + FreedAt(t)'
          /\ miMemItemsNum' = miMemItemsNum - ItemAt(t, b) + ItemAt(t, b)'
                                            - FreedItemAt(t) + FreedItemAt(t)'
      BY <1>2, <1>3, <1>5, <2>3, AtTypes DEF totals
    <2>5. miTotalMalloc' - miTotalFree' = miTotalMalloc - miTotalFree
             - UseAt(b) + UseAt(b)' - ReturningAt(t) + ReturningAt(t)'
      BY <1>2, <1>3, <1>5, <1>6, <2>3, AtTypes DEF totals
    <2>6. call[t].pc # "countNew"
      OBVIOUS
    <2> QED BY <1>1, <1>2, <2>1, <2>4, <2>5, <2>6, CountMove
  <1>8. ASSUME NEW i, heap' = heap,
               c = [pc |-> "push", iLen |-> u, iNeedLen |-> 0, iIndex |-> i,
                    pRet |-> b, old |-> NIL]
        PROVE  Accounted'
    <2>1. c.pc = "push" /\ c.old = NIL /\ c.iLen = u
      BY <1>8
    <2>2. FreedAt(t)' = 0 /\ FreedItemAt(t)' = 0 /\ ReturningAt(t)' = u
      BY <1>1, <2>1 DEF FreedAt, FreedItemAt, ReturningAt
    <2>3. SizeAt(t, b)' = n /\ ItemAt(t, b)' = 1
      BY <1>1, <1>3, <1>8, <2>1 DEF SizeAt, ItemAt
    <2>4. UseAt(b) + ReturningAt(t) = UseAt(b)' + ReturningAt(t)'
      BY <1>3, <1>5, <1>6, <2>2
    <2>5. call[t].pc # "countNew" /\ call'[t].pc # "countNew"
      BY <1>1, <2>1
    <2> QED BY <1>2, <1>3, <1>5, <2>2, <2>3, <2>4, <2>5, CountStill
  <1>9. \/ /\ c = [pc |-> "uncount", iLen |-> u, iNeedLen |-> n, iIndex |-> 0,
                  pRet |-> NIL, old |-> NIL]
           /\ heap' = [heap EXCEPT ![b].size = 0]
        \/ /\ heap' = heap
           /\ \E i \in Indexes : c = [pc |-> "push", iLen |-> u, iNeedLen |-> 0,
                                     iIndex |-> i, pRet |-> b, old |-> NIL]
    <2>1. PlaceInv /\ BlockInv(b) /\ FreedCall(t, b)
      BY <1>2, <1>4
    <2> HIDE DEF PlaceInv, BlockInv, FreedCall
    <2> QED BY <1>1, <2>1, FreedSize
  <1> QED BY <1>7, <1>8, <1>9

\* A block put back stays counted.
LEMMA PushCount ==
    ASSUME PlaceInv, Accounted, ~retuned, NEW t \in Callers, FreePush(t)
    PROVE  Accounted'
  <1>1. PICK b, c : b = call[t].pRet /\ c = call'[t]
    OBVIOUS
  <1>2. PlaceInv' /\ Moves(t, b)
    BY <1>1, PushSafe
  <1>3. /\ call[t].pc = "push" /\ call[t] \in Calls /\ call[t].old = NIL
        /\ heap' = heap /\ live' = live /\ UNCHANGED totals
    BY DEF FreePush, PlaceInv, AllocTypeOK, CallInv
  <1>4. c.pc = "freecount" /\ c.old = NIL /\ c.iLen = call[t].iLen
    <2>1. c = [call[t] EXCEPT !.pc = "freecount", !.pRet = NIL]
      BY <1>1 DEF FreePush, PlaceInv, AllocTypeOK
    <2> QED BY <1>3, <2>1 DEF Calls
  <1>5. FreedAt(t) = 0 /\ FreedAt(t)' = 0 /\ FreedItemAt(t) = 0 /\ FreedItemAt(t)' = 0
    BY <1>1, <1>3, <1>4 DEF FreedAt, FreedItemAt
  <1>6. SizeAt(t, b)' = SizeAt(t, b) /\ ItemAt(t, b)' = ItemAt(t, b)
    BY <1>1, <1>3, <1>4 DEF SizeAt, ItemAt
  <1>7. UseAt(b)' = UseAt(b) /\ ReturningAt(t)' = ReturningAt(t)
    BY <1>1, <1>3, <1>4 DEF UseAt, ReturningAt
  <1> QED BY <1>1, <1>2, <1>3, <1>4, <1>5, <1>6, <1>7, AtTypes, CountStill

\* The bytes are no longer in use.
LEMMA FreeCountCount ==
    ASSUME PlaceInv, Accounted, ~retuned, NEW t \in Callers, FreeCount(t) \/ FreeUncount(t)
    PROVE  Accounted'
  <1>1. PICK c, k : c = call'[t] /\ k = call[t]
    OBVIOUS
  <1>2. PlaceInv' /\ Moves(t, NIL)
    BY FreeCountSafe
  <1>3. c.pc = "idle" /\ c.old = NIL
    <2>1. c = Idle
      BY <1>1 DEF FreeCount, FreeUncount, PlaceInv, AllocTypeOK
    <2> QED BY <2>1 DEF Idle
  <1>4. /\ k.pc \in {"freecount", "uncount"} /\ k \in Calls /\ k.old = NIL
        /\ heap' = heap /\ live' = live /\ miTotalMalloc' = miTotalMalloc
        /\ miTotalFree' = miTotalFree + k.iLen
        /\ miTotolMem' = IF k.pc = "uncount" THEN miTotolMem - k.iNeedLen ELSE miTotolMem
        /\ miMemItemsNum' = IF k.pc = "uncount" THEN miMemItemsNum - 1 ELSE miMemItemsNum
    <2>1. k \in Calls
      BY <1>1 DEF PlaceInv, AllocTypeOK
    <2>2. k.pc \in {"freecount", "uncount"} => k.old = NIL
      BY <1>1 DEF PlaceInv, CallInv
    <2>3. CASE FreeCount(t)
      BY <1>1, <2>1, <2>2, <2>3 DEF FreeCount
    <2>4. CASE FreeUncount(t)
      BY <1>1, <2>1, <2>2, <2>4 DEF FreeUncount
    <2> QED BY <2>3, <2>4
  <1>5. /\ FreedAt(t) = IF k.pc = "uncount" THEN k.iNeedLen ELSE 0
        /\ FreedItemAt(t) = IF k.pc = "uncount" THEN 1 ELSE 0
        /\ FreedAt(t)' = 0 /\ FreedItemAt(t)' = 0
    BY <1>1, <1>3, <1>4 DEF FreedAt, FreedItemAt
  <1>6. /\ SizeAt(t, NIL)' = 0 /\ ItemAt(t, NIL)' = 0
        /\ SizeAt(t, NIL) = 0 /\ ItemAt(t, NIL) = 0
    BY NilAssumption DEF SizeAt, ItemAt
  <1>7. UseAt(NIL)' = UseAt(NIL) /\ ReturningAt(t) = k.iLen /\ ReturningAt(t)' = 0
    BY <1>1, <1>3, <1>4 DEF UseAt, ReturningAt
  <1>8. k.iLen \in Nat /\ k.iNeedLen \in Nat
    BY <1>4 DEF Calls
  <1>9. /\ miTotolMem' = miTotolMem - SizeAt(t, NIL) + SizeAt(t, NIL)' - FreedAt(t) + FreedAt(t)'
        /\ miMemItemsNum' = miMemItemsNum - ItemAt(t, NIL) + ItemAt(t, NIL)'
                                          - FreedItemAt(t) + FreedItemAt(t)'
    BY <1>2, <1>4, <1>5, <1>6, <1>8, AtTypes
  <1>10. miTotalMalloc' - miTotalFree' = miTotalMalloc - miTotalFree
             - UseAt(NIL) + UseAt(NIL)' - ReturningAt(t) + ReturningAt(t)'
    BY <1>2, <1>4, <1>7, <1>8, AtTypes
  <1>11. call[t].pc # "countNew" /\ call'[t].pc # "countNew"
    BY <1>1, <1>3, <1>4
  <1> QED BY <1>2, <1>9, <1>10, <1>11, CountMove

\* The sums do not depend on miAlign and miAllocMinLimit.
LEMMA ConfigCount ==
    ASSUME Accounted, SetAlign \/ SetAllocMinLimit
    PROVE  Accounted'
  <1>1. retuned' = (retuned \/ ~(Unused /\ NobodyIn /\ miTotolMem = 0))
    BY Zenon DEF SetAlign, SetAllocMinLimit
  <1>2. retuned => retuned'
    BY <1>1, Zenon
  <1>3. heap' = heap /\ live' = live /\ call' = call /\ UNCHANGED totals
    BY DEF SetAlign, SetAllocMinLimit
  <1>4. /\ Sizes' = Sizes /\ Items' = Items
        /\ FreedSizes' = FreedSizes /\ FreedItems' = FreedItems
        /\ InUse' = InUse /\ Returning' = Returning
    BY <1>3 DEF Sizes, Items, FreedSizes, FreedItems, InUse, Returning, Counted, Uncounted
  <1> QED BY <1>2, <1>3, <1>4 DEF Accounted, totals

\* At first nothing is counted.
LEMMA MemInitCount == ASSUME MemInit PROVE Accounted
  <1>1. PICK f, g, h, p, q, r : /\ f = Sizes /\ g = Items /\ h = InUse
                                /\ p = FreedSizes /\ q = FreedItems /\ r = Returning
    OBVIOUS
  <1>2. \A b \in Blocks : f[b] = 0 /\ g[b] = 0 /\ h[b] = 0
    BY <1>1 DEF MemInit, Sizes, Items, InUse, Counted
  <1>3. \A t \in Callers : call[t].pc = "idle" /\ call[t].old = NIL
    BY DEF MemInit, Idle
  <1>4. \A t \in Callers : p[t] = 0 /\ q[t] = 0 /\ r[t] = 0
    BY <1>1, <1>3 DEF FreedSizes, FreedItems, Returning
  <1>5. /\ SumFunctionOnSet(f, Blocks) = 0 /\ SumFunctionOnSet(g, Blocks) = 0
        /\ SumFunctionOnSet(h, Blocks) = 0 /\ SumFunctionOnSet(p, Callers) = 0
        /\ SumFunctionOnSet(q, Callers) = 0 /\ SumFunctionOnSet(r, Callers) = 0
    BY <1>2, <1>4, SumZero, FiniteAssumption
  <1> QED BY <1>1, <1>5 DEF MemInit, Accounted

\* The most ever wanted is at least what was wanted before and is now.
LEMMA PeakGrows ==
    ASSUME peak \in [Indexes -> Nat],
           peak' = [j \in Indexes |-> Max({peak[j], Wanted(j)'})], NEW i \in Indexes
    PROVE  peak'[i] \in Nat /\ peak'[i] >= peak[i] /\ peak'[i] >= Wanted(i)'
  <1>1. \A a, b \in Nat : LET m == Max({a, b}) IN m \in Nat /\ m >= a /\ m >= b
    <2> SUFFICES ASSUME NEW a \in Nat, NEW b \in Nat
                 PROVE  LET m == Max({a, b}) IN m \in Nat /\ m >= a /\ m >= b
      OBVIOUS
    <2>1. \E x \in {a, b} : \A y \in {a, b} : x >= y
      <3>1. CASE a >= b
        BY <3>1
      <3>2. CASE b >= a
        BY <3>2
      <3> QED BY <3>1, <3>2
    <2> QED BY <2>1 DEF Max
  <1>2. Wanted(i)' \in Nat
    <2>1. /\ IsFiniteSet(OfIndex(i)' \ Kept(i)')
          /\ IsFiniteSet({t \in Callers : call'[t].pc \in {"pop", "insert", "malloc"}
                                          /\ call'[t].iIndex = i})
      BY FS_Subset, FiniteAssumption DEF OfIndex
    <2>2. /\ Cardinality(OfIndex(i)' \ Kept(i)') \in Nat
          /\ Cardinality({t \in Callers : call'[t].pc \in {"pop", "insert", "malloc"}
                                          /\ call'[t].iIndex = i}) \in Nat
      BY <2>1, FS_CardinalityType
    <2> QED BY <2>2 DEF Wanted
  <1> QED BY <1>1, <1>2

\* No more blocks of index i are there or coming than before, or the queue is
\* empty: all are wanted.
Fewer(i) ==
    \/ Kept(i)' = {}
    \/ Cardinality(OfIndex(i)') + Cardinality(Missed(i)')
          <= Cardinality(OfIndex(i)) + Cardinality(Missed(i))

\* There are finitely many blocks and threads.
LEMMA CountsAreNat ==
    ASSUME NEW i
    PROVE  /\ IsFiniteSet(OfIndex(i)) /\ IsFiniteSet(Missed(i))
           /\ IsFiniteSet(OfIndex(i)') /\ IsFiniteSet(Missed(i)')
           /\ Cardinality(OfIndex(i)) \in Nat /\ Cardinality(Missed(i)) \in Nat
           /\ Cardinality(OfIndex(i)') \in Nat /\ Cardinality(Missed(i)') \in Nat
  <1>1. /\ IsFiniteSet(OfIndex(i)) /\ IsFiniteSet(Missed(i))
        /\ IsFiniteSet(OfIndex(i)') /\ IsFiniteSet(Missed(i)')
    BY FS_Subset, FiniteAssumption DEF OfIndex, Missed
  <1> QED BY <1>1, FS_CardinalityType

\* Either way the blocks there and coming are no more than the most wanted.
LEMMA FewerPeak ==
    ASSUME peak \in [Indexes -> Nat],
           peak' = [j \in Indexes |-> Max({peak[j], Wanted(j)'})],
           NEW i \in Indexes, Fewer(i),
           Cardinality(OfIndex(i)) + Cardinality(Missed(i)) <= peak[i]
    PROVE  Cardinality(OfIndex(i)') + Cardinality(Missed(i)') <= peak'[i]
  <1>1. peak'[i] \in Nat /\ peak'[i] >= peak[i] /\ peak'[i] >= Wanted(i)' /\ peak[i] \in Nat
    BY PeakGrows
  <1>2. CASE Kept(i)' = {}
    <2> DEFINE Wanting == {t \in Callers : call'[t].pc \in {"pop", "insert", "malloc"}
                                           /\ call'[t].iIndex = i}
    <2>1. Wanted(i)' = Cardinality(OfIndex(i)') + Cardinality(Wanting)
      <3>1. OfIndex(i)' \ Kept(i)' = OfIndex(i)'
        BY <1>2
      <3> QED BY <3>1 DEF Wanted
    <2>2. Missed(i)' \subseteq Wanting /\ IsFiniteSet(Wanting)
      BY FS_Subset, FiniteAssumption DEF Missed
    <2>3. Cardinality(Missed(i)') <= Cardinality(Wanting) /\ Cardinality(Wanting) \in Nat
      BY <2>2, FS_Subset, FS_CardinalityType
    <2> HIDE DEF Wanting
    <2> QED BY <1>1, <2>1, <2>3, CountsAreNat
  <1>3. CASE Cardinality(OfIndex(i)') + Cardinality(Missed(i)')
                <= Cardinality(OfIndex(i)) + Cardinality(Missed(i))
    BY <1>1, <1>3, CountsAreNat
  <1> QED BY <1>2, <1>3 DEF Fewer

\* A step that malloc's nothing and misses nothing.
LEMMA FewerMove ==
    ASSUME NEW t \in Callers, NEW b, Moves(t, b), NEW i,
           b \in Blocks => heap'[b].size = heap[b].size \/ heap'[b].size = 0,
           t \in Missed(i)' => t \in Missed(i)
    PROVE  Fewer(i)
  <1>1. OfIndex(i)' \subseteq OfIndex(i)
    <2>1. \A x \in Blocks : heap'[x].size = heap[x].size \/ heap'[x].size = 0
      BY DEF Moves
    <2> QED BY <2>1 DEF OfIndex, Moves
  <1>2. Missed(i)' \subseteq Missed(i)
    BY DEF Missed, Moves
  <1>3. /\ Cardinality(OfIndex(i)') <= Cardinality(OfIndex(i))
        /\ Cardinality(Missed(i)') <= Cardinality(Missed(i))
    BY <1>1, <1>2, CountsAreNat, FS_Subset
  <1> QED BY <1>3, CountsAreNat DEF Fewer

\* A call that starts misses an index only if it has no queue.
LEMMA StartFewer ==
    ASSUME PlaceInv, NEW t \in Callers, call[t].pc = "idle",
           NEW old \in Blocks \cup {NIL}, NEW len \in MallocLens, MallocFind(t, len, old),
           (old = NIL /\ live' = live) \/ (old \in live /\ live' = live \ {old}),
           NEW i \in Indexes
    PROVE  Fewer(i)
  <1>1. Moves(t, old) /\ heap' = heap /\ mmapMemItems' = mmapMemItems /\ i # 0
    BY StartSafe, IndexPositive DEF MallocFind
  <1>2. CASE t \in Missed(i)'
    <2>1. PICK j : j = MapIndex(len, miAlign)
      OBVIOUS
    <2>2. CASE call'[t] = [pc |-> "malloc", iLen |-> len, iNeedLen |-> miAllocMinLimit,
                           iIndex |-> 0, pRet |-> NIL, old |-> old]
      BY <1>1, <1>2, <2>2 DEF Missed
    <2>3. CASE call'[t] = [pc |-> IF mmapMemItems[j] # NIL THEN "pop" ELSE "insert",
                      iLen |-> len, iNeedLen |-> Rounded(len, miAlign), iIndex |-> j,
                      pRet |-> NIL, old |-> old]
      <3>1. mmapMemItems[i] = NIL
        BY <1>2, <2>3 DEF Missed
      <3> QED BY <1>1, <3>1 DEF Fewer, Kept
    <2> QED BY <2>1, <2>2, <2>3, FindCases DEF Found
  <1>3. CASE t \notin Missed(i)'
    BY <1>1, <1>3, FewerMove
  <1> QED BY <1>2, <1>3

\* A call that pops misses the index only if its queue is empty.
LEMMA PopFewer ==
    ASSUME PlaceInv, NEW t \in Callers, MallocPop(t), NEW i \in Indexes
    PROVE  Fewer(i)
  <1>1. PICK b, c : b = call'[t].pRet /\ c = call'[t]
    OBVIOUS
  <1>2. /\ PlaceInv' /\ Moves(t, b)
        /\ \/ /\ b = NIL /\ Kept(call[t].iIndex) = {}
              /\ c = [call[t] EXCEPT !.pc = "malloc"]
           \/ c = [call[t] EXCEPT !.pRet = b, !.pc = "count"]
    BY <1>1, PopSafe
  <1>3. call[t] \in Calls /\ heap' = heap
    BY DEF MallocPop, PlaceInv, AllocTypeOK
  <1>4. CASE t \in Missed(i)'
    <2>1. c.pc \in {"insert", "malloc"} /\ c.iIndex = i
      BY <1>1, <1>4 DEF Missed
    <2>2. b = NIL /\ Kept(i) = {}
      BY <1>2, <1>3, <2>1 DEF Calls
    <2>3. Kept(i)' = {}
      BY <1>2, <2>2, NilInNoPlace DEF Moves
    <2> QED BY <2>3 DEF Fewer
  <1>5. CASE t \notin Missed(i)'
    BY <1>2, <1>3, <1>5, FewerMove
  <1> QED BY <1>4, <1>5

\* A call that inserts had missed.
LEMMA InsertFewer ==
    ASSUME PlaceInv, NEW t \in Callers, MallocInsert(t), NEW i \in Indexes
    PROVE  Fewer(i)
  <1>1. Moves(t, NIL)
    BY InsertSafe
  <1>2. /\ call[t] \in Calls /\ call[t].pc = "insert" /\ heap' = heap
        /\ call'[t] = [call[t] EXCEPT !.pc = "malloc"]
    BY DEF MallocInsert, PlaceInv, AllocTypeOK
  <1>3. call'[t].iIndex = call[t].iIndex
    BY <1>2 DEF Calls
  <1> QED BY <1>1, <1>2, <1>3, FewerMove DEF Missed

\* The block was coming; a small one is of no index whose queue holds any.
LEMMA AllocFewer ==
    ASSUME PlaceInv, SizeInv, ~retuned, NEW t \in Callers, MallocAlloc(t),
           NEW b \in Blocks, Allocates(t, b), NEW i \in Indexes
    PROVE  Fewer(i)
  <1>1. PICK c, n, j : c = call'[t] /\ n = call[t].iNeedLen /\ j = call[t].iIndex
    OBVIOUS
  <1>2. /\ PlaceInv' /\ Moves(t, b)
        /\ heap'[b] = [heap[b] EXCEPT !.size = n]
        /\ c = [call[t] EXCEPT !.pRet = b, !.pc = "countNew"]
    BY <1>1, AllocSafe
  <1>3. /\ SizeOfCall(t) /\ call[t].pc = "malloc" /\ call[t] \in Calls
        /\ heap[b] \in [size: Nat, iTotal: Nat, iUse: Nat] /\ heap[b].size = 0
        /\ UNCHANGED config
    BY DEF MallocAlloc, Allocates, PlaceInv, AllocTypeOK, SizeInv
  <1>4. c.pc = "countNew" /\ heap'[b].size = n
    BY <1>2, <1>3 DEF Calls
  <1>5. \/ n = miAllocMinLimit /\ j = 0
        \/ ClassSize(j, n)
    BY <1>1, <1>3 DEF SizeOfCall
  <1>6. Missed(i)' = Missed(i) \ {t}
    <2>1. \A u \in Callers \ {t} : call'[u] = call[u]
      BY <1>2 DEF Moves
    <2>2. call'[t].pc = "countNew"
      BY <1>1, <1>4
    <2> QED BY <2>1, <2>2 DEF Missed
  <1>7. OfIndex(i)' = IF n > 0 /\ n = i * miAlign THEN OfIndex(i) \cup {b} ELSE OfIndex(i)
    <2>1. \A x \in Blocks : x # b => heap'[x] = heap[x]
      BY <1>2 DEF Moves
    <2>2. b \notin OfIndex(i)
      BY <1>3 DEF OfIndex
    <2>3. miAlign' = miAlign
      BY <1>3 DEF config
    <2>4. \A x : x \in OfIndex(i)' <=> x \in Blocks /\ heap'[x].size > 0
                                       /\ heap'[x].size = i * miAlign
      BY <2>3 DEF OfIndex
    <2>5. \A x : x \in OfIndex(i) <=> x \in Blocks /\ heap[x].size > 0
                                       /\ heap[x].size = i * miAlign
      BY DEF OfIndex
    <2> QED BY <1>4, <2>1, <2>2, <2>4, <2>5
  <1>8. CASE ~(n > 0 /\ n = i * miAlign)
    <2>1. /\ Cardinality(Missed(i)') <= Cardinality(Missed(i))
      BY <1>6, CountsAreNat, FS_Subset
    <2>2. OfIndex(i)' = OfIndex(i)
      BY <1>7, <1>8
    <2> QED BY <2>1, <2>2, CountsAreNat DEF Fewer
  <1>9. CASE n > 0 /\ n = i * miAlign /\ n = miAllocMinLimit
    <2>1. ASSUME NEW x \in Kept(i) PROVE FALSE
      <3>1. ClassSize(i, heap[x].size)
        BY DEF SizeInv
      <3> QED BY <1>9, <3>1 DEF ClassSize, PlaceInv, AllocTypeOK
    <2>2. Kept(i)' = {}
      <3>1. Kept(i)' \ {b} = {} /\ b \in Held(t)'
        <4>1. c.pRet = b
          BY <1>2, <1>3 DEF Calls
        <4> QED BY <1>1, <1>2, <2>1, <4>1, NilAssumption DEF Moves, Held
      <3> QED BY <1>2, <3>1 DEF PlaceInv
    <2> QED BY <2>2 DEF Fewer
  <1>10. CASE n > 0 /\ n = i * miAlign /\ n # miAllocMinLimit
    <2>1. j = i
      <3>1. ClassSize(j, n)
        BY <1>5, <1>10
      <3>2. j * miAlign = i * miAlign /\ j \in Nat /\ i \in Nat /\ miAlign \in Nat \ {0}
        BY <1>10, <3>1, IndexPositive, AlignAssumption
           DEF ClassSize, PlaceInv, AllocTypeOK, AllAligns
      <3>3. (j * miAlign) \div miAlign = j /\ (i * miAlign) \div miAlign = i
        BY <3>2, Multiple
      <3> QED BY <3>2, <3>3
    <2>2. t \in Missed(i)
      BY <1>1, <1>3, <2>1 DEF Missed
    <2>3. b \notin OfIndex(i)
      BY <1>3 DEF OfIndex
    <2>4. Cardinality(OfIndex(i)') = Cardinality(OfIndex(i)) + 1
      <3>1. OfIndex(i)' = OfIndex(i) \cup {b}
        BY <1>7, <1>10
      <3> QED BY <2>3, <3>1, CountsAreNat, FS_AddElement
    <2>5. Cardinality(Missed(i)') = Cardinality(Missed(i)) - 1
      BY <1>6, <2>2, CountsAreNat, FS_RemoveElement
    <2> QED BY <2>4, <2>5, CountsAreNat DEF Fewer
  <1> QED BY <1>8, <1>9, <1>10

\* Counting malloc's nothing.
LEMMA CountFewer ==
    ASSUME PlaceInv, NEW t \in Callers, MallocCount(t), NEW i \in Indexes
    PROVE  Fewer(i)
  <1>1. PICK b, c, o : b = call[t].pRet /\ c = call'[t] /\ o = call[t].old
    OBVIOUS
  <1>2. /\ Moves(t, b) /\ b \in Held(t)
        /\ heap'[b] = [heap[b] EXCEPT !.iTotal = call[t].iNeedLen, !.iUse = call[t].iLen]
        /\ c = IF o = NIL THEN Idle ELSE [Idle EXCEPT !.pc = "free", !.old = o]
    BY <1>1, CountSafe
  <1>3. c.pc \notin {"insert", "malloc"}
    <2>1. o # NIL => c = [pc |-> "free", iLen |-> 0, iNeedLen |-> 0, iIndex |-> 0,
                          pRet |-> NIL, old |-> o]
      BY <1>2 DEF Idle
    <2> QED BY <1>2, <2>1 DEF Idle
  <1>4. b \in Blocks => heap'[b].size = heap[b].size
    <2>1. b \in Blocks => heap[b] \in [size: Nat, iTotal: Nat, iUse: Nat]
      BY DEF PlaceInv, AllocTypeOK
    <2> QED BY <1>2, <2>1
  <1>5. t \notin Missed(i)'
    BY <1>1, <1>3 DEF Missed
  <1> QED BY <1>2, <1>4, <1>5, FewerMove

\* Freeing malloc's nothing.
LEMMA FreeBlockFewer ==
    ASSUME PlaceInv, NEW t \in Callers, NEW b \in Blocks, FreeBlock(t, b),
           \/ call[t].pc = "idle" /\ b \in live /\ live' = live \ {b}
           \/ call[t].pc = "free" /\ b = call[t].old /\ live' = live,
           NEW i \in Indexes
    PROVE  Fewer(i)
  <1>1. Moves(t, b) /\ FreedCall(t, b)
    BY FreeSafe
  <1>2. heap'[b].size = heap[b].size \/ heap'[b].size = 0
    BY <1>1 DEF FreedCall, PlaceInv, AllocTypeOK
  <1>3. t \notin Missed(i)'
    <2>1. call'[t].pc \in {"idle", "push", "uncount"}
      BY <1>1 DEF FreedCall, Idle
    <2> QED BY <2>1 DEF Missed
  <1> QED BY <1>1, <1>2, <1>3, FewerMove

\* Putting back malloc's nothing.
LEMMA PushFewer ==
    ASSUME PlaceInv, NEW t \in Callers, FreePush(t), NEW i \in Indexes
    PROVE  Fewer(i)
  <1>1. PICK b : b = call[t].pRet
    OBVIOUS
  <1>2. Moves(t, b)
    BY <1>1, PushSafe
  <1>3. call'[t].pc = "freecount" /\ heap' = heap
    BY DEF FreePush, PlaceInv, AllocTypeOK, Calls
  <1>4. t \notin Missed(i)'
    BY <1>3 DEF Missed
  <1> QED BY <1>2, <1>3, <1>4, FewerMove

\* The counters of a free malloc nothing.
LEMMA FreeCountFewer ==
    ASSUME PlaceInv, NEW t \in Callers, FreeCount(t) \/ FreeUncount(t), NEW i \in Indexes
    PROVE  Fewer(i)
  <1>1. Moves(t, NIL)
    BY FreeCountSafe
  <1>2. call'[t] = Idle /\ heap' = heap
    BY DEF FreeCount, FreeUncount, PlaceInv, AllocTypeOK
  <1>3. t \notin Missed(i)'
    BY <1>2 DEF Missed, Idle
  <1> QED BY <1>1, <1>2, <1>3, FewerMove

\* Before the first allocation every queue is empty.
LEMMA ConfigFewer ==
    ASSUME PlaceInv, SetAlign \/ SetAllocMinLimit, ~retuned', NEW i \in Indexes
    PROVE  Fewer(i)
  <1>1. Unused /\ NobodyIn
    <2>1. retuned' = (retuned \/ ~(Unused /\ NobodyIn /\ miTotolMem = 0))
      BY Zenon DEF SetAlign, SetAllocMinLimit
    <2> QED BY <2>1
  <1>2. mmapMemItems' = mmapMemItems
    BY DEF SetAlign, SetAllocMinLimit
  <1> QED BY <1>1, <1>2, NothingYet DEF Fewer, Kept

\* The inductive invariant.
MemIInv ==
    /\ PlaceInv
    /\ retuned \in BOOLEAN /\ peak \in [Indexes -> Nat]
    /\ SizeInv
    /\ Accounted
    /\ HoardInv

\* The invariant holds at first.
LEMMA MemInitInv == ASSUME MemInit PROVE MemIInv
  <1>1. HoardInv
    <2>1. \A i \in Indexes : OfIndex(i) = {} /\ Missed(i) = {}
      BY DEF MemInit, OfIndex, Missed, Idle
    <2>2. \A i \in Indexes : Cardinality(OfIndex(i)) = 0 /\ Cardinality(Missed(i)) = 0
      BY <2>1, FS_EmptySet
    <2> QED BY <2>2 DEF MemInit, HoardInv
  <1>2. retuned \in BOOLEAN /\ peak \in [Indexes -> Nat]
    BY DEF MemInit
  <1> QED BY <1>1, <1>2, MemInitSafe, MemInitSize, MemInitCount DEF MemIInv

\* What a step of a call preserves.
Preserved == /\ PlaceInv' /\ retuned' = retuned
             /\ ~retuned => SizeInv' /\ Accounted' /\ \A i \in Indexes : Fewer(i)

\* MemMalloc and MemRealloc up to the lookup.
LEMMA StartPreserves ==
    ASSUME PlaceInv, SizeInv, Accounted, NEW t \in Callers, call[t].pc = "idle",
           NEW old \in Blocks \cup {NIL}, NEW len \in MallocLens, MallocFind(t, len, old),
           (old = NIL /\ live' = live) \/ (old \in live /\ live' = live \ {old})
    PROVE  Preserved
  <1>1. retuned' = retuned
    BY DEF MallocFind
  <1>2. PlaceInv'
    BY StartSafe
  <1>3. ~retuned => SizeInv'
    BY StartSize
  <1>4. ~retuned => Accounted'
    BY StartCount
  <1>5. \A i \in Indexes : Fewer(i)
    BY StartFewer
  <1> QED BY <1>1, <1>2, <1>3, <1>4, <1>5 DEF Preserved

\* The steps of DoMalloc.
LEMMA DoMallocPreserves ==
    ASSUME PlaceInv, SizeInv, Accounted, NEW t \in Callers, DoMalloc(t)
    PROVE  Preserved
  <1>1. CASE MallocPop(t)
    BY <1>1, PopSafe, PopSize, PopCount, PopFewer DEF Preserved, MallocPop
  <1>2. CASE MallocInsert(t)
    BY <1>2, InsertSafe, InsertSize, InsertCount, InsertFewer DEF Preserved, MallocInsert
  <1>3. CASE MallocAlloc(t)
    <2>1. PICK b \in Blocks : Allocates(t, b)
      BY <1>3 DEF MallocAlloc, Allocates
    <2> QED BY <1>3, <2>1, AllocSafe, AllocSize, AllocCount, AllocFewer
            DEF Preserved, MallocAlloc
  <1>4. CASE MallocCount(t)
    BY <1>4, CountSafe, CountSize, CountCount, CountFewer DEF Preserved, MallocCount
  <1> QED BY <1>1, <1>2, <1>3, <1>4 DEF DoMalloc

\* DoFree up to the queue.
LEMMA FreeBlockPreserves ==
    ASSUME PlaceInv, SizeInv, Accounted, NEW t \in Callers, NEW b \in Blocks, FreeBlock(t, b),
           \/ call[t].pc = "idle" /\ b \in live /\ live' = live \ {b}
           \/ call[t].pc = "free" /\ b = call[t].old /\ live' = live
    PROVE  Preserved
  <1>1. retuned' = retuned
    BY DEF FreeBlock
  <1>2. PlaceInv'
    BY FreeSafe
  <1>3. ~retuned => SizeInv'
    BY FreeSize
  <1>4. ~retuned => Accounted'
    BY FreeBlockCount
  <1>5. \A i \in Indexes : Fewer(i)
    BY FreeBlockFewer
  <1> QED BY <1>1, <1>2, <1>3, <1>4, <1>5 DEF Preserved

\* The steps of DoFree.
LEMMA DoFreePreserves ==
    ASSUME PlaceInv, SizeInv, Accounted, NEW t \in Callers, DoFree(t)
    PROVE  Preserved
  <1>1. CASE ReallocFree(t)
    <2>1. PICK b : b = call[t].old
      OBVIOUS
    <2>2. b \in Blocks
      BY <1>1, <2>1 DEF ReallocFree, PlaceInv, AllocTypeOK, CallInv, Calls
    <2> QED BY <1>1, <2>1, <2>2, FreeBlockPreserves DEF ReallocFree
  <1>2. CASE FreePush(t)
    BY <1>2, PushSafe, PushSize, PushCount, PushFewer DEF Preserved, FreePush
  <1>3. CASE FreeCount(t)
    BY <1>3, FreeCountSafe, FreeCountSize, FreeCountCount, FreeCountFewer
       DEF Preserved, FreeCount
  <1>4. CASE FreeUncount(t)
    BY <1>4, FreeCountSafe, FreeCountSize, FreeCountCount, FreeCountFewer
       DEF Preserved, FreeUncount
  <1> QED BY <1>1, <1>2, <1>3, <1>4 DEF DoFree

\* Every step preserves the invariant.
LEMMA MemStepInv == ASSUME MemIInv, MemNext PROVE MemIInv'
  <1> USE DEF MemIInv
  <1>1. peak' = [i \in Indexes |-> Max({peak[i], Wanted(i)'})]
    BY DEF MemNext
  <1>2. peak' \in [Indexes -> Nat]
    BY <1>1, PeakGrows
  <1>3. ASSUME ~retuned' => ~retuned /\ \A i \in Indexes : Fewer(i)
        PROVE  HoardInv'
    <2> SUFFICES ASSUME ~retuned', NEW i \in Indexes
                 PROVE  Cardinality(OfIndex(i)') + Cardinality(Missed(i)') <= peak'[i]
      BY DEF HoardInv
    <2>1. Fewer(i) /\ Cardinality(OfIndex(i)) + Cardinality(Missed(i)) <= peak[i]
      BY <1>3 DEF HoardInv
    <2> QED BY <1>1, <2>1, FewerPeak
  <1>4. ASSUME Preserved PROVE MemIInv'
    <2>1. /\ PlaceInv' /\ retuned' \in BOOLEAN
          /\ ~retuned' => ~retuned /\ \A i \in Indexes : Fewer(i)
      BY <1>4, Zenon DEF Preserved
    <2>2. SizeInv' /\ Accounted'
      <3>1. CASE retuned'
        BY <3>1 DEF SizeInv, Accounted
      <3>2. CASE ~retuned'
        BY <1>4, <3>2 DEF Preserved
      <3> QED BY <3>1, <3>2
    <2>3. HoardInv'
      BY <1>3, <2>1
    <2> QED BY <1>2, <2>1, <2>2, <2>3
  <1>5. CASE SetAlign \/ SetAllocMinLimit
    <2>1. retuned' = (retuned \/ ~(Unused /\ NobodyIn /\ miTotolMem = 0))
      BY <1>5, Zenon DEF SetAlign, SetAllocMinLimit
    <2>2. retuned' \in BOOLEAN /\ (retuned => retuned')
      BY <2>1, Zenon
    <2>3. PlaceInv' /\ SizeInv' /\ Accounted'
      BY <1>5, ConfigSafe, ConfigSize, ConfigCount
    <2>4. HoardInv'
      BY <1>3, <1>5, <2>2, ConfigFewer
    <2> QED BY <1>2, <2>2, <2>3, <2>4, Zenon
  <1>6. ASSUME NEW t \in Callers, MemMalloc(t) PROVE MemIInv'
    <2>1. PICK len \in MallocLens : MallocFind(t, len, NIL)
      BY <1>6 DEF MemMalloc
    <2>2. Preserved
      BY <1>6, <2>1, StartPreserves DEF MemMalloc
    <2> QED BY <1>4, <2>2
  <1>7. ASSUME NEW t \in Callers, MemRealloc(t) PROVE MemIInv'
    <2>1. PICK b \in live : /\ FreeBlock(t, b) \/ \E len \in MallocLens : MallocFind(t, len, b)
                           /\ live' = live \ {b}
      BY <1>7 DEF MemRealloc
    <2>2. b \in Blocks /\ call[t].pc = "idle"
      BY <1>7, InPlace DEF PlaceInv, MemRealloc
    <2>3. CASE FreeBlock(t, b)
      BY <1>4, <2>1, <2>2, <2>3, FreeBlockPreserves
    <2>4. ASSUME NEW len \in MallocLens, MallocFind(t, len, b) PROVE MemIInv'
      BY <1>4, <2>1, <2>2, <2>4, StartPreserves
    <2> QED BY <2>1, <2>3, <2>4
  <1>8. ASSUME NEW t \in Callers, MemFree(t) PROVE MemIInv'
    <2>1. PICK b \in live : FreeBlock(t, b) /\ live' = live \ {b}
      BY <1>8 DEF MemFree
    <2>2. b \in Blocks
      BY InPlace DEF PlaceInv
    <2>3. Preserved
      BY <1>8, <2>1, <2>2, FreeBlockPreserves DEF MemFree
    <2> QED BY <1>4, <2>3
  <1>9. ASSUME NEW t \in Callers, DoMalloc(t) PROVE MemIInv'
    BY <1>4, <1>9, DoMallocPreserves
  <1>10. ASSUME NEW t \in Callers, DoFree(t) PROVE MemIInv'
    BY <1>4, <1>10, DoFreePreserves
  <1> QED BY <1>5, <1>6, <1>7, <1>8, <1>9, <1>10 DEF MemNext

\* So does no step.
LEMMA MemStillInv == ASSUME MemIInv, UNCHANGED memvars PROVE MemIInv'
  <1>1. /\ \A t \in Callers : Held(t)' = Held(t)
        /\ \A i \in Indexes : Kept(i)' = Kept(i) /\ OfIndex(i)' = OfIndex(i)
                              /\ Missed(i)' = Missed(i)
    BY DEF memvars, config, Held, Kept, OfIndex, Missed
  <1>2. Pool' = Pool
    BY DEF memvars, Pool, Kept
  <1>3. PlaceInv'
    BY <1>1 DEF memvars, config, totals, MemIInv, PlaceInv, AllocTypeOK, QueuesInv, CallInv
  <1>4. SizeInv'
    BY <1>1, <1>2 DEF memvars, config, MemIInv, SizeInv, BlockInv, SizeOfCall, ClassSize
  <1>5. Accounted'
    <2>1. /\ Sizes' = Sizes /\ Items' = Items
          /\ FreedSizes' = FreedSizes /\ FreedItems' = FreedItems
          /\ InUse' = InUse /\ Returning' = Returning
      BY DEF memvars, Sizes, Items, FreedSizes, FreedItems, InUse, Returning, Counted, Uncounted
    <2> QED BY <2>1 DEF memvars, totals, MemIInv, Accounted
  <1>6. HoardInv'
    BY <1>1 DEF memvars, MemIInv, HoardInv
  <1>7. retuned' = retuned /\ peak' = peak
    BY DEF memvars
  <1>8. retuned' \in BOOLEAN
    BY <1>7, Zenon DEF MemIInv
  <1> QED BY <1>3, <1>4, <1>5, <1>6, <1>7, <1>8 DEF MemIInv

\* The invariant of the allocator, at every step of every call.
THEOREM MemInvCorrect == MemSpec => []MemIInv
  <1>1. MemIInv /\ [MemNext]_memvars => MemIInv'
    BY MemStepInv, MemStillInv
  <1> QED BY <1>1, MemInitInv, PTL DEF MemSpec

\* It says that every block is in one place and fits.
LEMMA InvBlocksSafe == ASSUME MemIInv PROVE BlocksSafe
  <1> USE DEF MemIInv, PlaceInv
  <1>1. MemTypeOK
    BY DEF MemTypeOK
  <1>2. \A b : b \in Pool <=> \E i \in Indexes : b \in Kept(i)
    BY InPlace
  <1>3. /\ \A t \in Callers : Held(t) \cap (live \cup Pool) = {}
        /\ live \cap Pool = {}
    BY <1>2
  <1>4. \A i \in Indexes : mmapMemItems[i] # NIL =>
          /\ IsInjective(mmapMemItems[i])
          /\ \A j \in Indexes \ {i} : Kept(i) \cap Kept(j) = {}
    BY DEF QueuesInv
  <1>5. ~retuned => \A b \in Blocks : heap[b].size > 0 =>
          b \in live \cup Pool \/ \E t \in Callers : b \in Held(t)
    BY DEF SizeInv
  <1>6. BlockInOnePlace
    BY <1>1, <1>3, <1>4, <1>5 DEF BlockInOnePlace
  <1>7. BlockFits
    BY DEF BlockFits, SizeInv, BlockInv
  <1> QED BY <1>6, <1>7 DEF BlocksSafe

\* It says that no block was malloc'ed in vain.
LEMMA InvNothingHoarded == ASSUME MemIInv PROVE NothingHoarded
  <1>1. SUFFICES ASSUME ~retuned, NEW i \in Indexes PROVE Cardinality(OfIndex(i)) <= peak[i]
    BY DEF NothingHoarded
  <1>2. Cardinality(OfIndex(i)) + Cardinality(Missed(i)) <= peak[i] /\ peak[i] \in Nat
    BY <1>1 DEF MemIInv, HoardInv
  <1> QED BY <1>2, CountsAreNat

\* BlocksSafe, MemMgr.cpp:50-64,98,135-146.
THEOREM BlocksSafeCorrect == MemSpec => []BlocksSafe
  BY MemInvCorrect, InvBlocksSafe, PTL

\* Accounted, MemMgr.cpp:85-94,125-150.
THEOREM AccountedCorrect == MemSpec => []Accounted
  <1>1. MemIInv => Accounted
    BY DEF MemIInv
  <1> QED BY <1>1, MemInvCorrect, PTL

\* NothingHoarded, MemMgr.cpp:58-83.
THEOREM NothingHoardedCorrect == MemSpec => []NothingHoarded
  BY MemInvCorrect, InvNothingHoarded, PTL

=============================================================================
