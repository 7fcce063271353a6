-------------------------- MODULE UvTaskPoolProofs --------------------------
(***************************************************************************)
(* Proofs about UvTaskPool for any number of clients, tasks and task       *)
(* threads.  Type correctness and RunsOnce hold whatever the condition     *)
(* variable does; the rest is for waits that return only on a signal       *)
(* (~SpuriousWakeups).                                                     *)
(***************************************************************************)
EXTENDS UvTaskPool, DataLemmas

\* The dispatcher's locals and the clients' arguments are set exactly while
\* the code is between their assignment and their last use.
LocalsInv ==
    /\ pTask # NULL <=> dpc \in {"pick", "set", "ref", "wake", "unref"}
    /\ pTaskThread # NULL <=> dpc \in {"set", "ref", "wake", "unref"}
    /\ \A c \in Clients : cTask[c] # NULL <=> cpc[c] \in {"push", "signal"}

\* The dispatcher is busy handing a task to w.
Chosen(w) == pTaskThread = w /\ dpc \in {"set", "ref", "wake"}

\* What the program counter of a task thread says of its mpTask.  A thread
\* that waits with a task has missed its signal or is about to get it.
ThreadInv ==
    \A w \in Workers :
        /\ w \in msetTaskThreads =>
              wpc[w] \in {"wait", "waiting"} /\ mpTask[w] = NULL /\ ~Chosen(w)
        /\ Chosen(w) => /\ wpc[w] \in {"new", "wait", "waiting"}
                        /\ mpTask[w] = IF dpc = "set" THEN NULL ELSE pTask
        /\ wpc[w] \in {"none", "insert"} => mpTask[w] = NULL
        /\ wpc[w] = "new" => Chosen(w)
        /\ wpc[w] \in {"excute", "unref", "clear"} => mpTask[w] # NULL
        /\ wpc[w] \in {"wait", "waiting"} /\ mpTask[w] # NULL =>
              w \in missed \/ Chosen(w)

\* A task is in one place at a time: with its client, in the queue, with the
\* dispatcher, with one task thread; and it has run iff that thread is past
\* TaskExcute.
PlaceInv ==
    /\ IsInjective(mqueTasks)
    /\ \A t \in Tasks : Queued(t) =>
          pTask # t /\ runs[t] = 0 /\ \A w \in Workers : mpTask[w] # t
    /\ dpc \in {"pick", "set"} =>
          runs[pTask] = 0 /\ \A w \in Workers : mpTask[w] # pTask
    /\ dpc = "unref" => runs[pTask] > 0 \/ mpTask[pTaskThread] = pTask
    /\ \A w \in Workers : mpTask[w] # NULL =>
          runs[mpTask[w]] = IF wpc[w] \in {"unref", "clear"} THEN 1 ELSE 0
    /\ \A v, w \in Workers : mpTask[v] # NULL /\ mpTask[v] = mpTask[w] => v = w

\* A task on its way in is new, and is pushed by one client; one that has
\* run is referenced or deleted; a deleted one is not referenced.
LifeInv ==
    /\ \A c \in Clients : cpc[c] = "push" => refs[cTask[c]] = 0 /\ cTask[c] \notin deleted
    /\ \A c, d \in Clients : cpc[c] = "push" /\ cTask[c] = cTask[d] => c = d
    /\ \A t \in Tasks : runs[t] > 0 => t \in deleted \/ refs[t] > 0
    /\ \A t \in deleted : refs[t] = 0

\* The dispatcher goes to sleep on work only when a signal was missed or is
\* still to come.
SleepInv ==
    dpc \in {"wait", "waiting"} /\ mqueTasks # <<>> =>
        Pool \in missed \/ \E c \in Clients : cpc[c] = "signal"

\* The steps of Init and UnInit.
Starting == PoolUnInit \/ \E c \in Owners : PoolInit(c) \/ Start(c)

IInv ==
    /\ TypeOK /\ LocalsInv
    /\ ThreadInv /\ PlaceInv /\ LifeInv /\ RefCountExact /\ SleepInv

-----------------------------------------------------------------------------
(* Type correctness. *)

LEMMA TypeStep ==
    ASSUME TypeOK, LocalsInv, [Next]_vars
    PROVE  TypeOK' /\ LocalsInv'
  <1> USE NullAssumption DEF TypeOK, LocalsInv, DispatcherStates, WorkerStates,
          ClientStates
  <1>1. CASE UNCHANGED vars
    BY <1>1 DEF vars, pool, objects, threads, clients, history
  <1>2. CASE Starting
    <2> USE DEF PoolUnInit, pool, objects, threads, clients, history
    <2>1. ASSUME NEW c \in Clients, PoolInit(c) PROVE TypeOK' /\ LocalsInv'
      BY <2>1 DEF PoolInit
    <2>2. ASSUME NEW c \in Clients, PoolInitSet(c) \/ PoolStart(c) \/ PoolStarted(c)
          PROVE  TypeOK' /\ LocalsInv'
      BY <2>2, ZenonT(40) DEF PoolInitSet, PoolStart, PoolStarted
    <2>3. ASSUME NEW c \in Clients, PoolCreate(c) PROVE TypeOK' /\ LocalsInv'
      <3>1. second' \in BOOLEAN
        BY <2>3, Zenon DEF PoolCreate
      <3> QED BY <2>3, <3>1 DEF PoolCreate
    <2>4. CASE PoolUnInit
      BY <2>4
    <2> QED BY <1>2, <2>1, <2>2, <2>3, <2>4, OwnerAssumption DEF Starting, Start
  <1>3. ASSUME NEW c \in Clients, NEW t \in Tasks, PushCheck(c, t)
        PROVE  TypeOK' /\ LocalsInv'
    BY <1>3 DEF PushCheck, pool, objects, threads, history
  <1>4. ASSUME NEW c \in Clients, Push(c) PROVE TypeOK' /\ LocalsInv'
    <2>1. CASE PushQueue(c)
      BY <1>4, <2>1 DEF PushQueue, REF, threads, history
    <2>2. CASE PushSignal(c)
      BY <1>4, <2>2 DEF PushSignal, Pool, pool, objects
    <2> QED BY <1>4, <2>1, <2>2 DEF Push
  <1>5. CASE Dispatcher
    <2>1. CASE PoolThreadEntry \/ PoolWait
      BY <2>1 DEF PoolThreadEntry, PoolWait, pool, objects, clients, history
    <2>2. CASE PopTask
      <3>1. mqueTasks # <<>> => Head(mqueTasks) \in Tasks /\ Tail(mqueTasks) \in Seq(Tasks)
        OBVIOUS
      <3>2. CASE mqueTasks # <<>>
        <4>1. /\ pTask' \in Tasks /\ mqueTasks' \in Seq(Tasks)
              /\ dpc' = "pick" /\ dpc \in {"pop"}
          BY <2>2, <3>1, <3>2 DEF PopTask
        <4>2. pTask' # NULL /\ pTaskThread' = NULL
          BY <2>2, <4>1 DEF PopTask
        <4> QED BY <2>2, <4>1, <4>2 DEF PopTask, objects, clients, history
      <3>3. CASE mqueTasks = <<>>
        BY <2>2, <3>3 DEF PopTask, objects, clients, history
      <3> QED BY <3>2, <3>3
    <2>3. CASE TakeTaskThread
      BY <2>3 DEF TakeTaskThread, objects, clients, history
    <2>3a. CASE NewTaskThread
      <3>1. PICK w \in Workers : pTaskThread' = w /\ wpc' = [wpc EXCEPT ![w] = "new"]
        BY <2>3a DEF NewTaskThread
      <3>2. miTaskThreadNum' \in Nat
        BY <2>3a DEF NewTaskThread
      <3>3. wpc' \in [Workers -> WorkerStates]
        BY <3>1
      <3> QED BY <2>3a, <3>1, <3>2, <3>3 DEF NewTaskThread, objects, clients, history
    <2>4. CASE SetTask
      <3>1. pTask \in Tasks /\ dropped' \in SUBSET Tasks
        BY <2>4 DEF SetTask
      <3>2. mpTask' \in [Workers -> Tasks \cup {NULL}]
        BY <2>4, <3>1, ZenonT(40) DEF SetTask
      <3> QED BY <2>4, <3>1, <3>2 DEF SetTask, pool, objects, clients
    <2>5. CASE RefTask
      BY <2>5 DEF RefTask, REF, pool, clients, history
    <2>6. CASE WakeTaskThread
      BY <2>6 DEF WakeTaskThread, pool, objects, clients
    <2>7. CASE DispatchUnref
      BY <2>7 DEF DispatchUnref, UNREF, Freed, pool, clients, history
    <2> QED BY <1>5, <2>1, <2>2, <2>3, <2>3a, <2>4, <2>5, <2>6, <2>7 DEF Dispatcher
  <1>6. ASSUME NEW w \in Workers, Worker(w) PROVE TypeOK' /\ LocalsInv'
    <2>1. CASE WorkerCheck(w) \/ PushTaskThread(w) \/ WorkerWait(w)
      BY <1>6, <2>1, ZenonT(40) DEF WorkerCheck, PushTaskThread, WorkerWait, pool, objects,
         clients, history
    <2>2. CASE TaskExcute(w)
      <3>1. runs' \in [Tasks -> Nat]
        <4>1. /\ runs \in [Tasks -> Nat]
              /\ runs' = [runs EXCEPT ![mpTask[w]] = runs[mpTask[w]] + 1]
          BY <2>2 DEF TaskExcute
        <4>2. CASE mpTask[w] \in Tasks
          BY <4>1, <4>2
        <4>3. CASE mpTask[w] \notin Tasks
          BY <4>1, <4>3
        <4> QED BY <4>2, <4>3
      <3>2. wpc' \in [Workers -> WorkerStates]
        BY <1>6, <2>2 DEF TaskExcute
      <3> QED BY <1>6, <2>2, <3>1, <3>2 DEF TaskExcute, pool, objects, clients
    <2>3. CASE WorkerUnref(w)
      BY <1>6, <2>3 DEF WorkerUnref, UNREF, Freed, pool, clients, history
    <2>4. CASE WorkerClear(w)
      BY <1>6, <2>4 DEF WorkerClear, pool, objects, clients, history
    <2> QED BY <1>6, <2>1, <2>2, <2>3, <2>4 DEF Worker
  <1>7. CASE PoolSpuriousWakeup
    BY <1>7 DEF PoolSpuriousWakeup, pool, objects, clients
  <1>8. ASSUME NEW w \in Workers, WorkerSpuriousWakeup(w) PROVE TypeOK' /\ LocalsInv'
    BY <1>8 DEF WorkerSpuriousWakeup, pool, objects, clients
  <1> QED BY <1>1, <1>2, <1>3, <1>4, <1>5, <1>6, <1>7, <1>8 DEF Next, Starting

\* Init and UnInit move no task, and no client that pushes one.
LEMMA StartingMoves ==
    ASSUME TypeOK, Starting
    PROVE  /\ UNCHANGED <<mqueTasks, msetTaskThreads, mpTask, refs, deleted, pTask,
                          pTaskThread, wpc, cTask, runs, dropped, missed>>
           /\ dpc' = dpc \/ (dpc = "none" /\ dpc' = "start")
           /\ \A c \in Clients : /\ cpc'[c] = "push" <=> cpc[c] = "push"
                                 /\ cpc'[c] = "signal" <=> cpc[c] = "signal"
  <1> USE DEF TypeOK, pool, objects, threads, clients, history
  <1>1. CASE PoolUnInit
    BY <1>1 DEF PoolUnInit
  <1>2. ASSUME NEW c \in Clients, PoolInit(c) \/ Start(c)
        PROVE  /\ UNCHANGED <<mqueTasks, msetTaskThreads, mpTask, refs, deleted, pTask,
                              pTaskThread, wpc, cTask, runs, dropped, missed>>
               /\ dpc' = dpc \/ (dpc = "none" /\ dpc' = "start")
               /\ cpc[c] \notin {"push", "signal"} /\ cpc'[c] \notin {"push", "signal"}
               /\ \A d \in Clients \ {c} : cpc'[d] = cpc[d]
    BY <1>2 DEF PoolInit, Start, PoolInitSet, PoolStart, PoolCreate, PoolStarted
  <1> QED BY <1>1, <1>2, OwnerAssumption DEF Starting

LEMMA TypeInit == ASSUME Init PROVE TypeOK /\ LocalsInv
  <1>1. /\ refs \in [Tasks -> Int] /\ wpc \in [Workers -> WorkerStates]
        /\ cpc \in [Clients -> ClientStates] /\ runs \in [Tasks -> Nat]
        /\ mpTask \in [Workers -> Tasks \cup {NULL}]
        /\ cTask \in [Clients -> Tasks \cup {NULL}]
    BY DEF Init, NewRefs, WorkerStates, ClientStates
  <1>3. /\ mqueTasks \in Seq(Tasks)
        /\ miTaskNum \in Nat /\ miTaskThreadNum \in Nat
        /\ dpc \in DispatcherStates
        /\ pTask \in Tasks \cup {NULL} /\ pTaskThread \in Workers \cup {NULL}
        /\ msetTaskThreads \in SUBSET Workers /\ deleted \in SUBSET Tasks
        /\ dropped \in SUBSET Tasks /\ missed \in SUBSET (Workers \cup {Pool})
    BY DEF Init, DispatcherStates
  <1>4. mbStart \in BOOLEAN /\ second \in BOOLEAN
    BY Zenon DEF Init
  <1>5. TypeOK
    BY <1>1, <1>3, <1>4 DEF TypeOK
  <1>2. LocalsInv
    BY DEF Init, LocalsInv
  <1> QED BY <1>2, <1>5

\* Every variable keeps its type, and the locals are set when they are used.
THEOREM TypeCorrect == Spec => [](TypeOK /\ LocalsInv)
  <1>1. Init => TypeOK /\ LocalsInv
    BY TypeInit
  <1>2. (TypeOK /\ LocalsInv) /\ [Next]_vars => (TypeOK /\ LocalsInv)'
    BY TypeStep
  <1> QED BY <1>1, <1>2, PTL DEF Spec

-----------------------------------------------------------------------------
(* The inductive invariant. *)

\* A task that is not referenced and not deleted has not been pushed.
LEMMA NewTask ==
    ASSUME IInv, NEW t \in Tasks, refs[t] = 0, t \notin deleted
    PROVE  /\ ~Queued(t) /\ pTask # t /\ runs[t] = 0
           /\ \A w \in Workers : mpTask[w] # t
  <1>1. /\ ~Queued(t) /\ pTask # t /\ \A w \in Workers : ~Owns(w, t)
    BY DEF IInv, RefCountExact
  <1>2. runs[t] = 0
    <2>1. runs[t] \in Nat /\ refs[t] \in Int
      BY DEF IInv, TypeOK
    <2>2. runs[t] > 0 => t \in deleted \/ refs[t] > 0
      BY DEF IInv, LifeInv
    <2> QED BY <2>1, <2>2
  <1>3. ASSUME NEW w \in Workers, mpTask[w] = t PROVE FALSE
    <2>1. mpTask[w] # NULL
      BY <1>3, NullAssumption
    <2>2. wpc[w] # "clear"
      BY <1>2, <1>3, <2>1 DEF IInv, PlaceInv
    <2>3. dpc = "ref" /\ pTaskThread = w
      BY <1>1, <1>3, <2>2 DEF Owns
    <2>4. mpTask[w] = pTask
      BY <2>3 DEF IInv, ThreadInv, Chosen
    <2> QED BY <1>1, <1>3, <2>4
  <1> QED BY <1>1, <1>2, <1>3

\* Nothing points at a deleted task but a field about to be cleared.
LEMMA DeletedTask ==
    ASSUME IInv, NEW t \in deleted
    PROVE  /\ ~Queued(t) /\ pTask # t
           /\ \A w \in Workers : mpTask[w] = t => wpc[w] = "clear"
  <1>1. t \in Tasks /\ refs[t] = 0
    BY DEF IInv, TypeOK, LifeInv
  <1>2. /\ ~Queued(t) /\ pTask # t /\ \A w \in Workers : ~Owns(w, t)
    BY <1>1 DEF IInv, RefCountExact
  <1>3. ASSUME NEW w \in Workers, mpTask[w] = t, wpc[w] # "clear" PROVE FALSE
    <2>1. dpc = "ref" /\ pTaskThread = w
      BY <1>2, <1>3 DEF Owns
    <2>2. mpTask[w] = pTask
      BY <2>1 DEF IInv, ThreadInv, Chosen
    <2> QED BY <1>2, <1>3, <2>2
  <1> QED BY <1>2, <1>3

Rest == ThreadInv /\ PlaceInv /\ LifeInv /\ RefCountExact /\ SleepInv

\* Steps of the clients keep the invariant.
LEMMA ClientStep ==
    ASSUME IInv, NEW c \in Clients,
           Push(c) \/ \E t \in Tasks : PushCheck(c, t)
    PROVE  Rest'
  <1> USE NullAssumption
  <1>1. ASSUME NEW t \in Tasks, PushCheck(c, t) PROVE Rest'
    <2> USE <1>1 DEF PushCheck, pool, objects, threads, history
    <2>1. ThreadInv' /\ PlaceInv' /\ RefCountExact'
      BY DEF IInv, ThreadInv, Chosen, PlaceInv, RefCountExact, Owns, Queued
    <2>2. LifeInv'
      BY DEF IInv, TypeOK, LocalsInv, LifeInv, Fresh
    <2>3. SleepInv'
      BY DEF IInv, TypeOK, SleepInv
    <2> QED BY <2>1, <2>2, <2>3 DEF Rest
  <1>2. CASE PushQueue(c)
    <2> DEFINE t == cTask[c]
    <2> USE <1>2 DEF PushQueue, threads, history
    <2>1. t \in Tasks /\ refs[t] = 0 /\ t \notin deleted
      BY DEF IInv, TypeOK, LocalsInv, LifeInv
    <2>2. /\ ~Queued(t) /\ pTask # t /\ runs[t] = 0
          /\ \A w \in Workers : mpTask[w] # t
      BY <2>1, NewTask
    <2>3. refs' = [refs EXCEPT ![t] = 1]
      BY <2>1 DEF REF, IInv, TypeOK
    <2>4. \A u \in Tasks : Queued(u)' <=> Queued(u) \/ u = t
      BY <2>1, PushContains DEF IInv, TypeOK, Queued
    <2>5. IsInjective(mqueTasks')
      BY <2>1, <2>2, PushInjective DEF IInv, TypeOK, PlaceInv, Queued
    <2> HIDE DEF t
    <2>6. ThreadInv'
      BY DEF IInv, ThreadInv, Chosen
    <2>7. PlaceInv'
      BY <2>2, <2>4, <2>5 DEF IInv, PlaceInv
    <2>8. LifeInv'
      <3>1. \A d \in Clients : cpc'[d] = "push" => cpc[d] = "push" /\ d # c /\ cTask[d] # t
        <4>1. cpc' = [cpc EXCEPT ![c] = "signal"] /\ cpc \in [Clients -> ClientStates]
          BY DEF IInv, TypeOK
        <4>2. \A d \in Clients : cpc[d] = "push" /\ cTask[d] = cTask[c] => d = c
          BY DEF IInv, LifeInv
        <4> QED BY <4>1, <4>2 DEF t
      <3> QED BY <2>1, <2>3, <3>1 DEF IInv, TypeOK, LifeInv
    <2>9. RefCountExact'
      <3>1. \A u \in Tasks : (\E w \in Workers : Owns(w, u))' <=> \E w \in Workers : Owns(w, u)
        BY DEF Owns
      <3>2. \A w \in Workers : ~Owns(w, t)
        BY <2>2 DEF Owns
      <3>3. ASSUME NEW u \in Tasks
            PROVE  refs'[u] = (IF Queued(u)' THEN 1 ELSE 0) + (IF pTask = u THEN 1 ELSE 0)
                            + (IF \E w \in Workers : Owns(w, u) THEN 1 ELSE 0)
        <4>1. CASE u = t
          BY <2>1, <2>2, <2>3, <2>4, <3>2, <4>1 DEF IInv, TypeOK
        <4>2. CASE u # t
          BY <2>1, <2>3, <2>4, <4>2 DEF IInv, TypeOK, RefCountExact
        <4> QED BY <4>1, <4>2
      <3> QED BY <3>1, <3>3 DEF RefCountExact
    <2>10. SleepInv'
      BY DEF IInv, TypeOK, SleepInv
    <2> QED BY <2>6, <2>7, <2>8, <2>9, <2>10 DEF Rest
  <1>3. CASE PushSignal(c)
    <2> USE <1>3 DEF PushSignal, pool, objects
    <2>1. \A w \in Workers : w \in missed' <=> w \in missed
      BY PoolAssumption DEF Pool
    <2>2. \A w \in Workers : Chosen(w)' <=> Chosen(w)
      BY DEF Chosen
    <2>3. dpc' = dpc \/ (dpc = "waiting" /\ dpc' = "pop")
      OBVIOUS
    <2>4. ThreadInv'
      BY <2>1, <2>2, <2>3 DEF IInv, ThreadInv, Chosen
    <2>5. PlaceInv'
      BY <2>3 DEF IInv, PlaceInv, Queued
    <2>6. LifeInv'
      <3>1. cpc' = [cpc EXCEPT ![c] = "idle"] /\ cpc \in [Clients -> ClientStates]
            /\ cTask' = [cTask EXCEPT ![c] = NULL] /\ cTask \in [Clients -> Tasks \cup {NULL}]
        BY DEF IInv, TypeOK
      <3>2. \A d \in Clients : cpc'[d] = "push" =>
                cpc[d] = "push" /\ cTask'[d] = cTask[d] /\ cTask[d] # NULL
        BY <3>1 DEF IInv, LocalsInv
      <3>3. \A d, e \in Clients : cpc'[d] = "push" /\ cTask'[d] = cTask'[e] => d = e
        BY <3>1, <3>2 DEF IInv, LifeInv
      <3> QED BY <3>2, <3>3 DEF IInv, LifeInv
    <2>7. RefCountExact'
      <3>1. \A w \in Workers, u \in Tasks : Owns(w, u)' <=> Owns(w, u)
        BY <2>3 DEF Owns
      <3> QED BY <3>1 DEF IInv, RefCountExact, Queued
    <2>8. SleepInv'
      BY DEF IInv, TypeOK, SleepInv
    <2> QED BY <2>4, <2>5, <2>6, <2>7, <2>8 DEF Rest
  <1> QED BY <1>1, <1>2, <1>3 DEF Push

\* Steps of the dispatcher up to the hand-over keep the invariant.
LEMMA DispatchStep ==
    ASSUME IInv, PopTask \/ TakeTaskThread \/ NewTaskThread
    PROVE  Rest'
  <1> USE NullAssumption
  <1>1. ASSUME PopTask, mqueTasks # <<>> PROVE Rest'
    <2> DEFINE t == Head(mqueTasks)
    <2> USE <1>1 DEF PopTask, objects, clients, history
    <2>0. /\ mqueTasks \in Seq(Tasks) /\ mqueTasks # <<>> /\ IsInjective(mqueTasks)
          /\ mqueTasks' = Tail(mqueTasks)
      BY DEF IInv, TypeOK, PlaceInv
    <2>1. t \in Tasks /\ Queued(t) /\ pTask = NULL /\ pTask' = t /\ dpc' = "pick"
      BY FrontContains DEF IInv, TypeOK, LocalsInv, Queued
    <2>2. \A u \in Tasks : Queued(u)' <=> Queued(u) /\ u # t
      BY <2>0, PopContains DEF Queued
    <2>3. IsInjective(mqueTasks')
      BY <2>0, PopInjective
    <2> HIDE DEF t
    <2>4. ThreadInv' /\ LifeInv' /\ SleepInv'
      BY DEF IInv, ThreadInv, Chosen, LifeInv, SleepInv
    <2>5. PlaceInv'
      BY <2>1, <2>2, <2>3 DEF IInv, PlaceInv
    <2>6. RefCountExact'
      <3>1. \A u \in Tasks, w \in Workers : Owns(w, u)' <=> Owns(w, u)
        BY DEF Owns
      <3>2. ASSUME NEW u \in Tasks
            PROVE  refs[u] = (IF Queued(u)' THEN 1 ELSE 0) + (IF t = u THEN 1 ELSE 0)
                            + (IF \E w \in Workers : Owns(w, u) THEN 1 ELSE 0)
        <4>1. refs[u] = (IF Queued(u) THEN 1 ELSE 0) + (IF pTask = u THEN 1 ELSE 0)
                      + (IF \E w \in Workers : Owns(w, u) THEN 1 ELSE 0)
          BY DEF IInv, RefCountExact
        <4>2. Queued(u)' <=> Queued(u) /\ u # t
          BY <2>2
        <4> HIDE <1>1
        <4> QED BY <2>1, <4>1, <4>2
      <3> QED BY <2>1, <3>1, <3>2 DEF RefCountExact
    <2> QED BY <2>4, <2>5, <2>6 DEF Rest
  <1>2. ASSUME PopTask, mqueTasks = <<>> PROVE Rest'
    <2> USE <1>2 DEF PopTask, objects, clients, history
    <2>1. ThreadInv' /\ LifeInv' /\ SleepInv' /\ PlaceInv'
      BY DEF IInv, ThreadInv, Chosen, LifeInv, SleepInv, PlaceInv, Queued
    <2>2. \A u \in Tasks, w \in Workers : Owns(w, u)' <=> Owns(w, u)
      BY DEF Owns
    <2>3. RefCountExact'
      BY <2>2 DEF IInv, RefCountExact, Queued
    <2> QED BY <2>1, <2>3 DEF Rest
  <1>3. CASE TakeTaskThread
    <2> USE <1>3 DEF TakeTaskThread, objects, clients, history
    <2>1. PICK w \in msetTaskThreads : pTaskThread' = w /\ msetTaskThreads' = msetTaskThreads \ {w}
      OBVIOUS
    <2>2. w \in Workers
      BY DEF IInv, TypeOK
    <2>3. ThreadInv'
      BY <2>1, <2>2 DEF IInv, ThreadInv, Chosen
    <2>4. PlaceInv' /\ LifeInv' /\ SleepInv'
      BY DEF IInv, PlaceInv, LifeInv, SleepInv, Queued
    <2>5. \A u \in Tasks, v \in Workers : Owns(v, u)' <=> Owns(v, u)
      BY DEF Owns
    <2>6. RefCountExact'
      BY <2>5 DEF IInv, RefCountExact, Queued
    <2> QED BY <2>3, <2>4, <2>6 DEF Rest
  <1>4. CASE NewTaskThread
    <2> USE <1>4 DEF NewTaskThread, objects, clients, history
    <2>1. PICK w \in Workers : wpc[w] = "none" /\ pTaskThread' = w
                               /\ wpc' = [wpc EXCEPT ![w] = "new"]
      OBVIOUS
    <2>2. mpTask[w] = NULL /\ \A v \in Workers : v # w => wpc'[v] = wpc[v]
      BY <2>1 DEF IInv, TypeOK, ThreadInv
    <2>3. ThreadInv'
      BY <2>1, <2>2 DEF IInv, TypeOK, ThreadInv, Chosen
    <2>4. PlaceInv' /\ LifeInv' /\ SleepInv'
      BY <2>1, <2>2 DEF IInv, PlaceInv, LifeInv, SleepInv, Queued
    <2>5. \A u \in Tasks, v \in Workers : Owns(v, u)' <=> Owns(v, u)
      BY <2>1, <2>2 DEF Owns
    <2>6. RefCountExact'
      BY <2>5 DEF IInv, RefCountExact, Queued
    <2> QED BY <2>3, <2>4, <2>6 DEF Rest
  <1> QED BY <1>1, <1>2, <1>3, <1>4

\* Steps of the dispatcher from the hand-over on keep the invariant.
LEMMA HandOverStep ==
    ASSUME IInv, SetTask \/ RefTask \/ WakeTaskThread \/ DispatchUnref
    PROVE  Rest'
  <1> USE NullAssumption
  <1> DEFINE w == pTaskThread
             t == pTask
  <1>0. w \in Workers /\ t \in Tasks
    BY DEF IInv, TypeOK, LocalsInv, SetTask, RefTask, WakeTaskThread, DispatchUnref
  <1>1. CASE SetTask
    <2> USE <1>1 DEF SetTask, pool, objects, clients
    <2>1. mpTask[w] = NULL /\ wpc[w] \in {"new", "wait", "waiting"} /\ w \notin msetTaskThreads
      BY <1>0 DEF IInv, ThreadInv, Chosen
    <2>2. /\ mpTask' = [mpTask EXCEPT ![w] = t] /\ dpc' = "ref"
          /\ UNCHANGED <<pTask, pTaskThread, wpc, runs, missed, dropped>>
      BY <2>1
    <2>3. mpTask'[w] = t /\ \A v \in Workers : v # w => mpTask'[v] = mpTask[v]
      BY <1>0, <2>2 DEF IInv, TypeOK
    <2>4. runs[t] = 0 /\ \A v \in Workers : mpTask[v] # t
      BY DEF IInv, PlaceInv
    <2> HIDE DEF w, t
    <2>5. ThreadInv'
      BY <1>0, <2>1, <2>2, <2>3 DEF IInv, ThreadInv, Chosen, w, t
    <2>6. PlaceInv'
      BY <1>0, <2>1, <2>2, <2>3, <2>4 DEF IInv, PlaceInv, Queued, t
    <2>7. LifeInv' /\ SleepInv'
      BY <2>2 DEF IInv, LifeInv, SleepInv
    <2>8. \A u \in Tasks, v \in Workers : Owns(v, u)' <=> Owns(v, u)
      BY <1>0, <2>1, <2>2, <2>3 DEF Owns, w
    <2>9. RefCountExact'
      BY <2>2, <2>8 DEF IInv, RefCountExact, Queued
    <2> QED BY <2>5, <2>6, <2>7, <2>9 DEF Rest
  <1>2. CASE RefTask
    <2> USE <1>2 DEF RefTask, pool, clients, history
    <2>1. mpTask[w] = t /\ wpc[w] \in {"new", "wait", "waiting"}
      BY <1>0 DEF IInv, ThreadInv, Chosen
    <2>2. refs' = [refs EXCEPT ![t] = refs[t] + 1] /\ refs[t] \in Int
      BY <1>0, <2>1 DEF REF, IInv, TypeOK
    <2>3. \A v \in Workers : mpTask[v] = t => v = w
      BY <1>0, <2>1 DEF IInv, PlaceInv
    <2>4. \A v \in Workers : ~Owns(v, t)
      BY <2>3 DEF Owns
    <2>5. \A u \in Tasks, v \in Workers : u # t => (Owns(v, u)' <=> Owns(v, u))
      BY <1>0, <2>1 DEF Owns
    <2>6. refs[t] = (IF Queued(t) THEN 1 ELSE 0) + 1
      <3>1. ~\E v \in Workers : Owns(v, t)
        BY <2>4
      <3> QED BY <1>0, <3>1 DEF IInv, RefCountExact
    <2>10. refs[t] >= 1
      BY <2>6
    <2> HIDE DEF w, t
    <2>7. ThreadInv' /\ PlaceInv' /\ SleepInv'
      BY DEF IInv, ThreadInv, Chosen, PlaceInv, SleepInv, Queued
    <2>8. LifeInv'
      BY <1>0, <2>2, <2>10 DEF IInv, TypeOK, LifeInv
    <2>9. RefCountExact'
      <3>1. ASSUME NEW u \in Tasks
            PROVE  refs'[u] = (IF Queued(u) THEN 1 ELSE 0) + (IF pTask = u THEN 1 ELSE 0)
                            + (IF \E v \in Workers : Owns(v, u)' THEN 1 ELSE 0)
        <4>1. CASE u = t
          <5>1. \E v \in Workers : Owns(v, u)'
            BY <1>0, <2>1, <4>1 DEF Owns, w, t
          <5>2. refs'[u] = refs[t] + 1
            BY <1>0, <2>2, <4>1 DEF IInv, TypeOK
          <5>3. refs[t] = (IF Queued(u) THEN 1 ELSE 0) + 1
            BY <2>6, <4>1
          <5>4. pTask = u
            BY <4>1 DEF t
          <5> HIDE <1>2
          <5> QED BY <5>1, <5>2, <5>3, <5>4
        <4>2. CASE u # t
          BY <2>2, <2>5, <4>2 DEF IInv, TypeOK, RefCountExact
        <4> QED BY <4>1, <4>2
      <3> QED BY <3>1 DEF RefCountExact, Queued
    <2> QED BY <2>7, <2>8, <2>9 DEF Rest
  <1>3. CASE WakeTaskThread
    <2> USE <1>3 DEF WakeTaskThread, pool, objects, clients
    <2>1. /\ mpTask[w] = t /\ t # NULL /\ wpc[w] \in {"new", "wait", "waiting"}
          /\ w \notin msetTaskThreads
      BY <1>0 DEF IInv, ThreadInv, Chosen
    <2>2. \A v \in Workers : v # w => wpc'[v] = wpc[v] /\ (v \in missed' <=> v \in missed)
      BY DEF IInv, TypeOK
    <2>3. /\ wpc[w] = "wait" => wpc'[w] = "wait" /\ w \in missed'
          /\ wpc[w] # "wait" => wpc'[w] = "check"
      BY <1>0, <2>1 DEF IInv, TypeOK
    <2>4. UNCHANGED <<pTask, pTaskThread, mpTask, runs, refs, deleted, mqueTasks, msetTaskThreads>>
          /\ dpc = "wake" /\ dpc' = "unref"
      OBVIOUS
    <2>5. UNCHANGED <<cpc, cTask>>
      OBVIOUS
    <2>6. ThreadInv'
      BY <1>0, <2>1, <2>2, <2>3, <2>4 DEF IInv, ThreadInv, Chosen
    <2>7. PlaceInv'
      BY <1>0, <2>1, <2>2, <2>3, <2>4 DEF IInv, PlaceInv, Queued
    <2>8. LifeInv' /\ SleepInv'
      BY <2>4, <2>5 DEF IInv, LifeInv, SleepInv
    <2>9. \A u \in Tasks, v \in Workers : Owns(v, u)' <=> Owns(v, u)
      BY <1>0, <2>1, <2>2, <2>3, <2>4 DEF Owns
    <2>10. RefCountExact'
      BY <2>4, <2>9 DEF IInv, RefCountExact, Queued
    <2> QED BY <2>6, <2>7, <2>8, <2>10 DEF Rest
  <1>4. CASE DispatchUnref
    <2> USE <1>4 DEF DispatchUnref, pool, clients, history
    <2>1. refs' = [refs EXCEPT ![t] = refs[t] - 1] /\ refs[t] \in Int
      BY <1>0 DEF UNREF, IInv, TypeOK
    <2>2. deleted' = deleted \cup (IF refs[t] - 1 <= 0 THEN {t} ELSE {})
      BY <1>0 DEF Freed
    <2>3. ~Queued(t)
      BY <1>0 DEF IInv, PlaceInv
    <2>4. refs[t] = 1 + (IF \E v \in Workers : Owns(v, t) THEN 1 ELSE 0)
      BY <1>0, <2>1, <2>3 DEF IInv, RefCountExact
    <2>5. \A u \in Tasks, v \in Workers : Owns(v, u)' <=> Owns(v, u)
      BY DEF Owns
    <2>6. ThreadInv' /\ PlaceInv' /\ SleepInv'
      BY <1>0 DEF IInv, TypeOK, ThreadInv, Chosen, PlaceInv, SleepInv, Queued
    <2>7. RefCountExact'
      <3>1. ASSUME NEW u \in Tasks
            PROVE  refs'[u] = (IF Queued(u) THEN 1 ELSE 0) + (IF NULL = u THEN 1 ELSE 0)
                            + (IF \E v \in Workers : Owns(v, u) THEN 1 ELSE 0)
        <4>1. CASE u = t
          BY <1>0, <2>1, <2>3, <2>4, <4>1 DEF IInv, TypeOK
        <4>2. CASE u # t
          BY <2>1, <4>2 DEF IInv, TypeOK, RefCountExact
        <4> QED BY <4>1, <4>2
      <3> QED BY <2>5, <3>1 DEF RefCountExact, Queued
    <2>8. LifeInv'
      <3> HIDE DEF t
      <3>1. refs[t] >= 1
        BY <2>4, <2>1
      <3>2. \A u \in Tasks : u # t => refs'[u] = refs[u] /\ (u \in deleted' <=> u \in deleted)
        BY <2>1, <2>2 DEF IInv, TypeOK
      <3>3. refs'[t] = refs[t] - 1 /\ (t \in deleted' <=> refs'[t] = 0)
        BY <1>0, <2>1, <2>2, <3>1 DEF IInv, TypeOK, LifeInv
      <3>4. \A c \in Clients : cpc[c] = "push" => cTask[c] \in Tasks /\ cTask[c] # t
        BY <3>1 DEF IInv, TypeOK, LocalsInv, LifeInv
      <3>5. deleted' \subseteq Tasks
        BY <1>0, <2>2 DEF IInv, TypeOK
      <3>6. UNCHANGED <<cpc, cTask, runs>>
        OBVIOUS
      <3> QED BY <2>1, <3>1, <3>2, <3>3, <3>4, <3>5, <3>6 DEF IInv, LifeInv
    <2> QED BY <2>6, <2>7, <2>8 DEF Rest
  <1> QED BY <1>1, <1>2, <1>3, <1>4

\* Steps of a task thread keep the invariant.
LEMMA WorkerStep ==
    ASSUME IInv, NEW w \in Workers, Worker(w)
    PROVE  Rest'
  <1> USE NullAssumption
  <1>1. CASE WorkerCheck(w) \/ PushTaskThread(w) \/ WorkerWait(w)
    <2> USE <1>1 DEF WorkerCheck, PushTaskThread, WorkerWait, pool, objects, clients,
            history
    <2>1. /\ \A v \in Workers : v # w => wpc'[v] = wpc[v]
          /\ \/ wpc[w] = "check" /\ wpc'[w] = IF mpTask[w] = NULL THEN "insert" ELSE "excute"
             \/ wpc[w] = "insert" /\ wpc'[w] = "wait"
             \/ wpc[w] = "wait" /\ wpc'[w] = "waiting"
      BY DEF IInv, TypeOK
    <2>2. UNCHANGED <<mqueTasks, mpTask, refs, deleted, dpc, pTask, pTaskThread,
                      cpc, cTask, runs, missed>>
      OBVIOUS
    <2>3. /\ msetTaskThreads \subseteq msetTaskThreads'
          /\ \A v \in msetTaskThreads' : v \in msetTaskThreads \/ (v = w /\ wpc[w] = "insert" /\ wpc'[w] = "wait")
      BY <2>1
    <2>4. ThreadInv'
      BY <2>1, <2>2, <2>3 DEF IInv, ThreadInv, Chosen
    <2>5. PlaceInv'
      BY <2>1, <2>2 DEF IInv, PlaceInv, Queued
    <2>6. LifeInv' /\ SleepInv'
      BY <2>2 DEF IInv, LifeInv, SleepInv
    <2>7. \A u \in Tasks, v \in Workers : Owns(v, u)' <=> Owns(v, u)
      BY <2>1, <2>2 DEF Owns
    <2>8. RefCountExact'
      BY <2>2, <2>7 DEF IInv, RefCountExact, Queued
    <2> QED BY <2>4, <2>5, <2>6, <2>8 DEF Rest
  <1>2. CASE TaskExcute(w)
    <2> DEFINE t == mpTask[w]
    <2> USE <1>2 DEF TaskExcute, pool, objects, clients
    <2>1. t \in Tasks /\ wpc[w] = "excute" /\ ~Chosen(w) /\ w \notin msetTaskThreads
      BY DEF IInv, TypeOK, ThreadInv
    <2>2. /\ \A v \in Workers : v # w => wpc'[v] = wpc[v]
          /\ wpc'[w] = "unref"
      BY DEF IInv, TypeOK
    <2>3. /\ runs[t] = 0 /\ runs'[t] = 1
          /\ \A u \in Tasks : u # t => runs'[u] = runs[u]
      <3>1. runs[t] = 0
        BY <2>1 DEF IInv, PlaceInv
      <3>2. runs \in [Tasks -> Nat] /\ runs' = [runs EXCEPT ![t] = runs[t] + 1]
        BY DEF IInv, TypeOK
      <3> QED BY <2>1, <3>1, <3>2
    <2>4. UNCHANGED <<mqueTasks, msetTaskThreads, mpTask, refs, deleted, dpc, pTask,
                      pTaskThread, cpc, cTask, missed>>
      OBVIOUS
    <2>5. refs[t] >= 1
      <3>1. Owns(w, t)
        BY <2>1 DEF Owns, Chosen
      <3> QED BY <2>1, <3>1 DEF IInv, RefCountExact
    <2>6. ~Queued(t) /\ (dpc \in {"pick", "set"} => pTask # t)
      BY <2>1 DEF IInv, PlaceInv
    <2>7. \A v \in Workers : v # w => mpTask[v] # t
      BY <2>1 DEF IInv, PlaceInv
    <2> HIDE <1>2
    <2> HIDE DEF t
    <2>8. ThreadInv'
      BY <2>1, <2>2, <2>4 DEF IInv, ThreadInv, Chosen, t
    <2>9. PlaceInv'
      <3>1. IsInjective(mqueTasks') /\ \A u \in Tasks : Queued(u)' =>
                pTask' # u /\ runs'[u] = 0 /\ \A v \in Workers : mpTask'[v] # u
        BY <2>3, <2>4, <2>6 DEF IInv, PlaceInv, Queued
      <3>2. (dpc \in {"pick", "set"} =>
                runs[pTask] = 0 /\ \A v \in Workers : mpTask[v] # pTask)'
        BY <2>3, <2>4, <2>6 DEF IInv, TypeOK, LocalsInv, PlaceInv
      <3>3. (dpc = "unref" => runs[pTask] > 0 \/ mpTask[pTaskThread] = pTask)'
        <4> SUFFICES ASSUME dpc = "unref"
                     PROVE  runs'[pTask] > 0 \/ mpTask[pTaskThread] = pTask
          BY <2>4
        <4>1. pTask \in Tasks /\ (runs[pTask] > 0 \/ mpTask[pTaskThread] = pTask)
          BY DEF IInv, TypeOK, LocalsInv, PlaceInv
        <4> QED BY <2>3, <4>1
      <3>4. \A v \in Workers : mpTask[v] # NULL =>
                runs'[mpTask[v]] = IF wpc'[v] \in {"unref", "clear"} THEN 1 ELSE 0
        <4>1. ASSUME NEW v \in Workers, mpTask[v] # NULL, v # w
              PROVE  runs'[mpTask[v]] = IF wpc'[v] \in {"unref", "clear"} THEN 1 ELSE 0
          BY <2>2, <2>3, <2>7, <4>1 DEF IInv, TypeOK, PlaceInv
        <4>2. runs'[mpTask[w]] = IF wpc'[w] \in {"unref", "clear"} THEN 1 ELSE 0
          BY <2>2, <2>3 DEF t
        <4> QED BY <4>1, <4>2
      <3>5. \A u, v \in Workers : mpTask'[u] # NULL /\ mpTask'[u] = mpTask'[v] => u = v
        BY <2>4 DEF IInv, PlaceInv
      <3> QED BY <2>4, <3>1, <3>2, <3>3, <3>4, <3>5 DEF PlaceInv
    <2>10. LifeInv'
      <3>1. \A u \in Tasks : runs'[u] > 0 => u \in deleted \/ refs[u] > 0
        <4>1. refs[t] > 0
          BY <2>1, <2>5 DEF IInv, TypeOK
        <4> QED BY <2>3, <4>1 DEF IInv, LifeInv
      <3> QED BY <2>4, <3>1 DEF IInv, LifeInv
    <2>11. SleepInv'
      BY <2>4 DEF IInv, SleepInv
    <2>12. \A u \in Tasks, v \in Workers : Owns(v, u)' <=> Owns(v, u)
      BY <2>1, <2>2, <2>4 DEF Owns
    <2>13. RefCountExact'
      BY <2>4, <2>12 DEF IInv, RefCountExact, Queued
    <2> QED BY <2>8, <2>9, <2>10, <2>11, <2>13 DEF Rest
  <1>3. CASE WorkerUnref(w)
    <2> DEFINE t == mpTask[w]
    <2> USE <1>3 DEF WorkerUnref, pool, clients, history
    <2>1. t \in Tasks /\ wpc[w] = "unref" /\ ~Chosen(w) /\ w \notin msetTaskThreads
      BY DEF IInv, TypeOK, ThreadInv
    <2>2. /\ \A v \in Workers : v # w => wpc'[v] = wpc[v]
          /\ wpc'[w] = "clear"
      BY DEF IInv, TypeOK
    <2>3. refs' = [refs EXCEPT ![t] = refs[t] - 1] /\ refs[t] \in Int
      BY <2>1 DEF UNREF, IInv, TypeOK
    <2>4. deleted' = deleted \cup (IF refs[t] - 1 <= 0 THEN {t} ELSE {})
      BY <2>1 DEF Freed
    <2>5. UNCHANGED <<mqueTasks, msetTaskThreads, mpTask, dpc, pTask, pTaskThread,
                      cpc, cTask, runs, missed>>
      OBVIOUS
    <2>6. ~Queued(t) /\ runs[t] = 1 /\ \A v \in Workers : mpTask[v] = t => v = w
      BY <2>1 DEF IInv, PlaceInv
    <2>7. refs[t] = (IF pTask = t THEN 1 ELSE 0) + 1
      <3>1. Owns(w, t)
        BY <2>1 DEF Owns, Chosen
      <3> QED BY <2>1, <2>6, <3>1 DEF IInv, RefCountExact
    <2> HIDE <1>3
    <2> HIDE DEF t
    <2>8. ThreadInv'
      BY <2>1, <2>2, <2>5 DEF IInv, ThreadInv, Chosen, t
    <2>9. PlaceInv'
      BY <2>1, <2>2, <2>5, <2>6 DEF IInv, PlaceInv, Queued, t
    <2>10. LifeInv'
      <3>1. refs[t] >= 1
        BY <2>7
      <3>2. \A u \in Tasks : u # t => refs'[u] = refs[u] /\ (u \in deleted' <=> u \in deleted)
        BY <2>3, <2>4 DEF IInv, TypeOK
      <3>3. refs'[t] = refs[t] - 1 /\ (t \in deleted' <=> refs'[t] = 0)
        BY <2>1, <2>3, <2>4, <3>1 DEF IInv, TypeOK, LifeInv
      <3>4. \A c \in Clients : cpc[c] = "push" => cTask[c] \in Tasks /\ cTask[c] # t
        BY <3>1 DEF IInv, TypeOK, LocalsInv, LifeInv
      <3>5. deleted' \subseteq Tasks
        BY <2>1, <2>4 DEF IInv, TypeOK
      <3> QED BY <2>3, <2>5, <3>1, <3>2, <3>3, <3>4, <3>5 DEF IInv, LifeInv
    <2>11. SleepInv'
      BY <2>5 DEF IInv, SleepInv
    <2>12. RefCountExact'
      <3>1. \A v \in Workers : ~Owns(v, t)'
        BY <2>2, <2>5, <2>6 DEF Owns, t
      <3>2. \A u \in Tasks, v \in Workers : u # t => (Owns(v, u)' <=> Owns(v, u))
        BY <2>2, <2>5 DEF Owns, t
      <3>3. ASSUME NEW u \in Tasks
            PROVE  refs'[u] = (IF Queued(u) THEN 1 ELSE 0) + (IF pTask = u THEN 1 ELSE 0)
                            + (IF \E v \in Workers : Owns(v, u)' THEN 1 ELSE 0)
        <4>1. CASE u = t
          <5>1. ~\E v \in Workers : Owns(v, u)'
            BY <2>2, <2>5, <2>6, <4>1 DEF Owns, t
          <5>2. refs'[u] = IF pTask = u THEN 1 ELSE 0
            BY <2>1, <2>3, <2>7, <4>1 DEF IInv, TypeOK
          <5>3. ~Queued(u)
            BY <2>6, <4>1
          <5> QED BY <5>1, <5>2, <5>3
        <4>2. CASE u # t
          <5>1. (\E v \in Workers : Owns(v, u)') <=> \E v \in Workers : Owns(v, u)
            BY <2>2, <2>5, <4>2 DEF Owns, t
          <5>2. refs'[u] = refs[u]
            BY <2>3, <4>2 DEF IInv, TypeOK
          <5> QED BY <5>1, <5>2 DEF IInv, RefCountExact
        <4> QED BY <4>1, <4>2
      <3> QED BY <2>5, <3>3 DEF RefCountExact, Queued
    <2> QED BY <2>8, <2>9, <2>10, <2>11, <2>12 DEF Rest
  <1>4. CASE WorkerClear(w)
    <2> USE <1>4 DEF WorkerClear, pool, objects, clients, history
    <2>1. /\ wpc[w] = "clear" /\ mpTask[w] \in Tasks /\ runs[mpTask[w]] = 1
          /\ ~Chosen(w) /\ w \notin msetTaskThreads
      <3>1. /\ wpc[w] = "clear" /\ mpTask[w] # NULL
            /\ ~Chosen(w) /\ w \notin msetTaskThreads
        BY DEF IInv, ThreadInv
      <3>2. mpTask[w] \in Tasks
        BY <3>1 DEF IInv, TypeOK
      <3>3. runs[mpTask[w]] = 1
        BY <3>1 DEF IInv, PlaceInv
      <3> QED BY <3>1, <3>2, <3>3
    <2>2. /\ \A v \in Workers : v # w => wpc'[v] = wpc[v] /\ mpTask'[v] = mpTask[v]
          /\ wpc'[w] = "check" /\ mpTask'[w] = NULL
      BY DEF IInv, TypeOK
    <2>3. UNCHANGED <<mqueTasks, msetTaskThreads, refs, deleted, dpc, pTask, pTaskThread,
                      cpc, cTask, runs, missed>>
      OBVIOUS
    <2> HIDE <1>4
    <2>4. ThreadInv'
      BY <2>1, <2>2, <2>3 DEF IInv, ThreadInv, Chosen
    <2>5. PlaceInv'
      <3>1. IsInjective(mqueTasks') /\ \A u \in Tasks : Queued(u)' =>
                pTask' # u /\ runs'[u] = 0 /\ \A v \in Workers : mpTask'[v] # u
        BY <2>2, <2>3 DEF IInv, PlaceInv, Queued
      <3>2. (dpc \in {"pick", "set"} =>
                runs[pTask] = 0 /\ \A v \in Workers : mpTask[v] # pTask)'
        BY <2>2, <2>3 DEF IInv, LocalsInv, PlaceInv
      <3>3. (dpc = "unref" => runs[pTask] > 0 \/ mpTask[pTaskThread] = pTask)'
        <4> SUFFICES ASSUME dpc = "unref"
                     PROVE  runs[pTask] > 0 \/ mpTask'[pTaskThread] = pTask
          BY <2>3
        <4>1. runs[pTask] > 0 \/ mpTask[pTaskThread] = pTask
          BY DEF IInv, PlaceInv
        <4>2. pTaskThread \in Workers
          BY DEF IInv, TypeOK, LocalsInv
        <4>3. pTaskThread = w /\ mpTask[w] = pTask => runs[pTask] > 0
          BY <2>1
        <4> QED BY <2>2, <4>1, <4>2, <4>3
      <3>4. \A v \in Workers : mpTask'[v] # NULL =>
                runs'[mpTask'[v]] = IF wpc'[v] \in {"unref", "clear"} THEN 1 ELSE 0
        BY <2>2, <2>3 DEF IInv, PlaceInv
      <3>5. \A u, v \in Workers : mpTask'[u] # NULL /\ mpTask'[u] = mpTask'[v] => u = v
        BY <2>2 DEF IInv, PlaceInv
      <3> QED BY <3>1, <3>2, <3>3, <3>4, <3>5 DEF PlaceInv
    <2>6. LifeInv' /\ SleepInv'
      BY <2>3 DEF IInv, LifeInv, SleepInv
    <2>7. \A u \in Tasks, v \in Workers : Owns(v, u)' <=> Owns(v, u)
      BY <2>1, <2>2, <2>3 DEF Owns
    <2>8. RefCountExact'
      BY <2>3, <2>7 DEF IInv, RefCountExact, Queued
    <2> QED BY <2>4, <2>5, <2>6, <2>8 DEF Rest
  <1> QED BY <1>1, <1>2, <1>3, <1>4 DEF Worker

\* Starting and stopping the pool, and the dispatcher's way to the queue and
\* to its wait, keep the invariant.
LEMMA OtherStep ==
    ASSUME IInv, Starting \/ PoolThreadEntry \/ PoolWait \/ UNCHANGED vars
    PROVE  Rest'
  <1>1. /\ UNCHANGED <<mqueTasks, msetTaskThreads, mpTask, refs, deleted, pTask,
                       pTaskThread, wpc, cTask, runs, missed>>
        /\ \/ dpc' = dpc
           \/ dpc \in {"none", "start"} /\ dpc' \in {"start", "pop"}
           \/ dpc = "wait" /\ dpc' = "waiting"
        /\ \A c \in Clients : /\ cpc'[c] = "push" <=> cpc[c] = "push"
                              /\ cpc'[c] = "signal" <=> cpc[c] = "signal"
    <2>1. CASE Starting
      BY <2>1, StartingMoves DEF IInv
    <2>2. CASE PoolThreadEntry \/ PoolWait \/ UNCHANGED vars
      BY <2>2 DEF PoolThreadEntry, PoolWait, vars, pool, objects, threads, clients, history
    <2> QED BY <2>1, <2>2
  <1>2. ThreadInv'
    BY <1>1 DEF IInv, ThreadInv, Chosen
  <1>3. PlaceInv'
    BY <1>1 DEF IInv, PlaceInv, Queued
  <1>4. LifeInv' /\ SleepInv'
    BY <1>1 DEF IInv, LifeInv, SleepInv
  <1>5. \A u \in Tasks, v \in Workers : Owns(v, u)' <=> Owns(v, u)
    BY <1>1 DEF Owns
  <1>6. RefCountExact'
    BY <1>1, <1>5 DEF IInv, RefCountExact, Queued
  <1> QED BY <1>2, <1>3, <1>4, <1>6 DEF Rest

LEMMA InvInit == Init => IInv
  <1> SUFFICES ASSUME Init PROVE IInv
    OBVIOUS
  <1> USE NullAssumption
  <1>1. TypeOK /\ LocalsInv
    BY TypeInit
  <1>2. \A t \in Tasks : ~Queued(t)
    BY DEF Init, Queued, Contains
  <1>3. ThreadInv
    BY DEF Init, ThreadInv, Chosen
  <1>4. IsInjective(mqueTasks)
    BY DEF Init, IsInjective
  <1>5. PlaceInv
    BY <1>2, <1>4 DEF Init, PlaceInv
  <1>6. LifeInv /\ SleepInv
    BY DEF Init, LifeInv, SleepInv
  <1>7. RefCountExact
    <2>1. \A w \in Workers, t \in Tasks : ~Owns(w, t)
      BY DEF Init, Owns
    <2> QED BY <1>2, <2>1 DEF Init, NewRefs, RefCountExact
  <1> QED BY <1>1, <1>3, <1>5, <1>6, <1>7 DEF IInv

\* When a wait returns only on a signal, every step keeps the invariant.
LEMMA InvStep ==
    ASSUME ~SpuriousWakeups, IInv, [Next]_vars
    PROVE  IInv'
  <1>1. TypeOK' /\ LocalsInv'
    BY TypeStep DEF IInv
  <1>2. Rest'
    <2>1. CASE Dispatcher
      BY <2>1, OtherStep, DispatchStep, HandOverStep DEF Dispatcher
    <2>2. ~PoolSpuriousWakeup /\ \A w \in Workers : ~WorkerSpuriousWakeup(w)
      BY DEF PoolSpuriousWakeup, WorkerSpuriousWakeup
    <2> QED BY <2>1, <2>2, OtherStep, ClientStep, WorkerStep DEF Next, Starting
  <1> QED BY <1>1, <1>2 DEF IInv, Rest

\* No assertion, no counter and no pointer goes wrong in any run of the pool
\* in which a wait returns only on a signal.
THEOREM InvCorrect == ~SpuriousWakeups => (Spec => []IInv)
  <1> SUFFICES ASSUME ~SpuriousWakeups PROVE Spec => []IInv
    OBVIOUS
  <1>1. IInv /\ [Next]_vars => IInv'
    BY InvStep
  <1> QED BY <1>1, InvInit, PTL DEF Spec

LEMMA InvSafe ==
    ASSUME IInv
    PROVE  RefCountExact /\ NoUseAfterFree /\ IdleThreadHasNoTask /\ AsleepOnlyIfMissed
  <1>1. RefCountExact
    BY DEF IInv
  <1>2. NoUseAfterFree
    <2>1. \A t \in deleted : pTask # t /\ ~Queued(t)
      BY DeletedTask
    <2>2. \A w \in Workers : mpTask[w] \in deleted => wpc[w] = "clear"
      BY DeletedTask
    <2> QED BY <2>1, <2>2 DEF NoUseAfterFree
  <1>3. IdleThreadHasNoTask
    <2>1. \A w \in msetTaskThreads : mpTask[w] = NULL
      BY DEF IInv, TypeOK, ThreadInv
    <2>2. dpc = "set" => mpTask[pTaskThread] = NULL
      <3> SUFFICES ASSUME dpc = "set" PROVE mpTask[pTaskThread] = NULL
        OBVIOUS
      <3>1. pTaskThread \in Workers
        BY DEF IInv, TypeOK, LocalsInv
      <3> QED BY <3>1 DEF IInv, ThreadInv, Chosen
    <2> QED BY <2>1, <2>2 DEF IdleThreadHasNoTask
  <1>4. AsleepOnlyIfMissed
    <2>1. \A w \in Workers : wpc[w] = "waiting" /\ mpTask[w] # NULL =>
              w \in missed \/ (pTaskThread = w /\ dpc \in {"ref", "wake"})
      BY DEF IInv, ThreadInv, Chosen
    <2> QED BY <2>1 DEF IInv, SleepInv, AsleepOnlyIfMissed
  <1> QED BY <1>1, <1>2, <1>3, <1>4

\* Every counter is the number of holders of its task, whatever the order in
\* which the three kinds of thread take and give up their references.
THEOREM RefCountCorrect == ~SpuriousWakeups => (Spec => []RefCountExact)
  <1>1. IInv => RefCountExact
    BY InvSafe
  <1> QED BY <1>1, InvCorrect, PTL

\* No thread holds a task that another has deleted.
THEOREM NoUseAfterFreeCorrect == ~SpuriousWakeups => (Spec => []NoUseAfterFree)
  <1>1. IInv => NoUseAfterFree
    BY InvSafe
  <1> QED BY <1>1, InvCorrect, PTL

\* The assertion of CUvTaskThread::SetTask never fails.
THEOREM IdleThreadCorrect == ~SpuriousWakeups => (Spec => []IdleThreadHasNoTask)
  <1>1. IInv => IdleThreadHasNoTask
    BY InvSafe
  <1> QED BY <1>1, InvCorrect, PTL

\* The four together, and the types.
THEOREM TasksSafeCorrect == ~SpuriousWakeups => (Spec => []TasksSafe)
  <1>1. IInv => TasksSafe
    BY InvSafe DEF TasksSafe, IInv
  <1> QED BY <1>1, InvCorrect, PTL

\* A thread sleeps beside work only because of a missed signal.
THEOREM AsleepCorrect == ~SpuriousWakeups => (Spec => []AsleepOnlyIfMissed)
  <1>1. IInv => AsleepOnlyIfMissed
    BY InvSafe
  <1> QED BY <1>1, InvCorrect, PTL

-----------------------------------------------------------------------------
(* The pool implements the task service. *)

\* The tasks given out and not run, and those run: what Service is told.
Given == {t \in Tasks : /\ runs[t] = 0
                        /\ pTask = t \/ \E w \in Workers : mpTask[w] = t}
Done == {t \in Tasks : runs[t] > 0}

\* PushQueue submits, PopTask gives, TaskExcute runs.
LEMMA ServiceStep ==
    ASSUME IInv, [Next]_vars, ~SpuriousWakeups
    PROVE  [Service!TSNext]_<<mqueTasks, Given, Done>>
  <1> USE NullAssumption
  <1> DEFINE Stutter == UNCHANGED <<mqueTasks, Given, Done>>
  <1>1. ASSUME NEW c \in Clients, PushQueue(c) PROVE Service!Submit(cTask[c]) /\ cTask[c] \in Tasks
    <2>1. cTask[c] \in Tasks /\ refs[cTask[c]] = 0 /\ cTask[c] \notin deleted
      BY <1>1 DEF PushQueue, IInv, TypeOK, LocalsInv, LifeInv
    <2>2. /\ ~Queued(cTask[c]) /\ pTask # cTask[c] /\ runs[cTask[c]] = 0
          /\ \A w \in Workers : mpTask[w] # cTask[c]
      BY <2>1, NewTask
    <2>3. UNCHANGED <<pTask, mpTask, runs>> /\ mqueTasks' = Append(mqueTasks, cTask[c])
      BY <1>1 DEF PushQueue, threads, history
    <2>4. cTask[c] \notin Given \cup Done
      BY <2>2 DEF Given, Done
    <2>5. UNCHANGED <<Given, Done>>
      BY <2>3 DEF Given, Done
    <2> QED BY <2>1, <2>2, <2>3, <2>4, <2>5 DEF Service!Submit, Queued, Given, Done,
         Contains, Service!Contains
  <1>2. ASSUME PopTask, mqueTasks # <<>> PROVE Service!Give
    <2>1. /\ Head(mqueTasks) \in Tasks /\ Queued(Head(mqueTasks)) /\ pTask = NULL
          /\ runs[Head(mqueTasks)] = 0
      BY <1>2, FrontContains DEF PopTask, IInv, TypeOK, LocalsInv, PlaceInv, Queued
    <2>2. /\ mqueTasks' = Tail(mqueTasks) /\ pTask' = Head(mqueTasks)
          /\ UNCHANGED <<mpTask, runs>>
      BY <1>2 DEF PopTask, history
    <2>3. Given' = Given \cup {Head(mqueTasks)} /\ Done' = Done
      BY <2>1, <2>2 DEF Given, Done
    <2> QED BY <1>2, <2>2, <2>3 DEF Service!Give, Given, Done
  <1>3. ASSUME NEW w \in Workers, TaskExcute(w) PROVE Service!Run(mpTask[w]) /\ mpTask[w] \in Tasks
    <2>1. mpTask[w] \in Tasks /\ runs[mpTask[w]] = 0
      BY <1>3 DEF TaskExcute, IInv, TypeOK, ThreadInv, PlaceInv
    <2>2. /\ runs'[mpTask[w]] = 1 /\ \A t \in Tasks : t # mpTask[w] => runs'[t] = runs[t]
          /\ UNCHANGED <<mqueTasks, pTask, mpTask>>
      <3>1. runs \in [Tasks -> Nat] /\ runs' = [runs EXCEPT ![mpTask[w]] = runs[mpTask[w]] + 1]
        BY <1>3 DEF TaskExcute, IInv, TypeOK
      <3>2. UNCHANGED <<mqueTasks, pTask, mpTask>>
        BY <1>3 DEF TaskExcute, pool
      <3> QED BY <2>1, <3>1, <3>2
    <2>3. mpTask[w] \in Given
      BY <2>1 DEF Given
    <2>4. Given' = Given \ {mpTask[w]}
      BY <2>1, <2>2 DEF Given
    <2>5. Done' = Done \cup {mpTask[w]}
      BY <2>1, <2>2 DEF Done
    <2> QED BY <2>1, <2>2, <2>3, <2>4, <2>5 DEF Service!Run, Given, Done
  <1>4. ASSUME NEW w \in Workers, WorkerClear(w) PROVE Stutter
    <2>1. UNCHANGED <<mqueTasks, pTask, runs>>
      BY <1>4 DEF WorkerClear, pool, history
    <2>2. mpTask[w] \in Tasks /\ runs[mpTask[w]] = 1
      BY <1>4 DEF WorkerClear, IInv, TypeOK, ThreadInv, PlaceInv
    <2>3. mpTask' = [mpTask EXCEPT ![w] = NULL] /\ mpTask \in [Workers -> Tasks \cup {NULL}]
      BY <1>4 DEF WorkerClear, IInv, TypeOK
    <2>4. \A t \in Tasks : runs[t] = 0 =>
              ((\E v \in Workers : mpTask'[v] = t) <=> \E v \in Workers : mpTask[v] = t)
      BY <2>2, <2>3
    <2> QED BY <2>1, <2>4 DEF Given, Done
  <1>5. CASE SetTask
    <2>1. pTaskThread \in Workers /\ pTask \in Tasks
      BY <1>5 DEF SetTask, IInv, TypeOK, LocalsInv
    <2>2. mpTask[pTaskThread] = NULL
      BY <1>5, <2>1 DEF SetTask, IInv, ThreadInv, Chosen
    <2>3. /\ mpTask' = [mpTask EXCEPT ![pTaskThread] = pTask]
          /\ mpTask \in [Workers -> Tasks \cup {NULL}]
          /\ UNCHANGED <<mqueTasks, pTask, runs>>
      BY <1>5, <2>2 DEF SetTask, pool, IInv, TypeOK
    <2>4. \A t \in Tasks : (pTask = t \/ \E v \in Workers : mpTask'[v] = t)
                       <=> (pTask = t \/ \E v \in Workers : mpTask[v] = t)
      BY <2>1, <2>2, <2>3
    <2> QED BY <2>3, <2>4 DEF Given, Done
  <1>6. CASE DispatchUnref
    <2>1. /\ UNCHANGED <<mqueTasks, mpTask, runs>> /\ pTask' = NULL
      BY <1>6 DEF DispatchUnref, pool, history
    <2>2. /\ pTask \in Tasks /\ pTaskThread \in Workers
          /\ runs[pTask] > 0 \/ mpTask[pTaskThread] = pTask
      BY <1>6 DEF DispatchUnref, IInv, TypeOK, LocalsInv, PlaceInv
    <2>3. \A t \in Tasks : runs[t] = 0 =>
             ((pTask' = t \/ \E v \in Workers : mpTask[v] = t)
               <=> (pTask = t \/ \E v \in Workers : mpTask[v] = t))
      BY <2>1, <2>2
    <2> QED BY <2>1, <2>3 DEF Given, Done
  <1>7. \/ Stutter
        \/ \E c \in Clients : PushQueue(c)
        \/ PopTask /\ mqueTasks # <<>>
        \/ SetTask \/ DispatchUnref
        \/ \E w \in Workers : TaskExcute(w) \/ WorkerClear(w)
    <2>1. UNCHANGED <<mqueTasks, pTask, mpTask, runs>> => Stutter
      BY DEF Given, Done
    <2>2. CASE UNCHANGED vars
      BY <2>1, <2>2 DEF vars, pool, threads, history
    <2>3. CASE Starting
      BY <2>1, <2>3, StartingMoves DEF IInv
    <2>4. CASE \E c \in Clients : Push(c) \/ \E t \in Tasks : PushCheck(c, t)
      BY <2>1, <2>4 DEF Push, PushCheck, PushSignal, pool, threads, history
    <2>5. CASE Dispatcher
      BY <2>1, <2>5 DEF Dispatcher, PoolThreadEntry, PopTask, PoolWait, TakeTaskThread,
         NewTaskThread, RefTask, WakeTaskThread, pool, history
    <2>6. CASE \E w \in Workers : Worker(w)
      BY <2>1, <2>6 DEF Worker, WorkerCheck, PushTaskThread, WorkerWait, WorkerUnref,
         pool, history
    <2>7. ~PoolSpuriousWakeup /\ \A w \in Workers : ~WorkerSpuriousWakeup(w)
      BY DEF PoolSpuriousWakeup, WorkerSpuriousWakeup
    <2> QED BY <2>2, <2>3, <2>4, <2>5, <2>6, <2>7 DEF Next, Starting
  <1>8. CASE \E c \in Clients : PushQueue(c)
    <2>1. PICK c \in Clients : PushQueue(c)
      BY <1>8
    <2>2. Service!Submit(cTask[c]) /\ cTask[c] \in Tasks
      BY <1>1, <2>1
    <2>3. \E t \in Tasks : Service!Submit(t)
      BY <2>2
    <2> QED BY <2>3 DEF Service!TSNext
  <1>9. CASE PopTask /\ mqueTasks # <<>>
    BY <1>2, <1>9 DEF Service!TSNext
  <1>10. CASE \E w \in Workers : TaskExcute(w)
    <2>1. PICK w \in Workers : TaskExcute(w)
      BY <1>10
    <2>2. Service!Run(mpTask[w]) /\ mpTask[w] \in Tasks
      BY <1>3, <2>1
    <2>3. \E t \in Tasks : Service!Run(t)
      BY <2>2 DEF Service!Run
    <2> QED BY <2>3 DEF Service!TSNext
  <1>11. CASE \E w \in Workers : WorkerClear(w)
    <2>1. Stutter
      BY <1>4, <1>11
    <2> QED BY <2>1
  <1> HIDE DEF Stutter
  <1> QED BY <1>5, <1>6, <1>7, <1>8, <1>9, <1>10, <1>11 DEF Stutter

\* Tasks are given out in the order they were pushed, each is run once, and
\* none is lost between the threads, for any number of them.
THEOREM ServiceCorrect == ~SpuriousWakeups => (Spec => ImplementsTaskService)
  <1> SUFFICES ASSUME ~SpuriousWakeups PROVE Spec => ImplementsTaskService
    OBVIOUS
  <1>1. Init => Service!TSInit
    BY NullAssumption DEF Init, Service!TSInit
  <1>2. IInv /\ [Next]_vars => [Service!TSNext]_(Service!tsvars)
    BY ServiceStep DEF Service!tsvars, Given, Done
  <1>3. Spec => []IInv
    BY InvCorrect
  <1> QED BY <1>1, <1>2, <1>3, PTL DEF Spec, ImplementsTaskService, Service!TSSpec

-----------------------------------------------------------------------------
(* Whatever the condition variable does.  With waits that return without a *)
(* signal a task may be deleted before the dispatcher counts its thread,   *)
(* and be counted after that; the rest of the invariant is then about the  *)
(* tasks that are not deleted.                                             *)

Holders(t) == (IF Queued(t) THEN 1 ELSE 0)
            + (IF pTask = t THEN 1 ELSE 0)
            + (IF \E w \in Workers : Owns(w, t) THEN 1 ELSE 0)

LiveCountsExact == \A t \in Tasks : t \notin deleted => refs[t] = Holders(t)

\* A task thread has run its task once it is past TaskExcute.  The task the
\* dispatcher hands over is with nobody else; one that is released before
\* the dispatcher has counted the thread is deleted.
GivenInv ==
    \A w \in Workers :
        /\ wpc[w] \in {"excute", "unref", "clear"} => mpTask[w] # NULL
        /\ mpTask[w] # NULL =>
              /\ runs[mpTask[w]] = IF wpc[w] \in {"unref", "clear"} THEN 1 ELSE 0
              /\ mpTask[w] = pTask => pTaskThread = w /\ dpc \in {"ref", "wake", "unref"}
              /\ wpc[w] = "clear" => mpTask[w] \in deleted \/ (mpTask[w] = pTask /\ dpc # "ref")
        /\ dpc = "ref" /\ pTaskThread = w => mpTask[w] \in {NULL, pTask}

\* A task is in one place, and what has run is not handed out again.
OnceInv ==
    /\ IsInjective(mqueTasks)
    /\ \A t \in Tasks : Queued(t) =>
          t \notin deleted /\ pTask # t /\ runs[t] = 0 /\ \A w \in Workers : mpTask[w] # t
    /\ dpc \in {"pick", "set"} => pTask \notin deleted /\ runs[pTask] = 0
    /\ dpc \in {"ref", "wake", "unref"} =>
          runs[pTask] = 1 \/ pTask \in dropped \/ mpTask[pTaskThread] = pTask
    /\ \A v, w \in Workers : mpTask[v] # NULL /\ mpTask[v] = mpTask[w] => v = w
    /\ \A t \in Tasks : runs[t] <= 1
    /\ \A t \in Tasks : runs[t] > 0 => t \in deleted \/ refs[t] > 0
    /\ \A t \in deleted : runs[t] = 1 \/ t \in dropped

\* A task on its way in is new, and is pushed by one client.
NewInv ==
    /\ \A c \in Clients : cpc[c] = "push" => refs[cTask[c]] = 0 /\ cTask[c] \notin deleted
    /\ \A c, d \in Clients : cpc[c] = "push" /\ cTask[c] = cTask[d] => c = d

SRest == LiveCountsExact /\ GivenInv /\ OnceInv /\ NewInv

SInv == TypeOK /\ LocalsInv /\ SRest

LEMMA UnpushedTask ==
    ASSUME SInv, NEW t \in Tasks, refs[t] = 0, t \notin deleted
    PROVE  /\ ~Queued(t) /\ pTask # t /\ runs[t] = 0
           /\ \A w \in Workers : mpTask[w] # t
  <1>1. ~Queued(t) /\ pTask # t /\ \A w \in Workers : ~Owns(w, t)
    BY DEF SInv, SRest, LiveCountsExact, Holders
  <1>2. runs[t] = 0
    <2>1. runs[t] \in Nat /\ refs[t] \in Int
      BY DEF SInv, TypeOK
    <2> QED BY <2>1 DEF SInv, SRest, OnceInv
  <1>3. ASSUME NEW w \in Workers, mpTask[w] = t PROVE FALSE
    <2>1. wpc[w] # "clear" /\ ~(dpc = "ref" /\ pTaskThread = w)
      BY <1>1, <1>3, NullAssumption DEF SInv, SRest, GivenInv
    <2> QED BY <1>1, <1>3, <2>1 DEF Owns
  <1> QED BY <1>1, <1>2, <1>3

\* A client about to push holds a task nobody else has to do with.
LEMMA PushedTask ==
    ASSUME SInv, NEW c \in Clients, cpc[c] = "push"
    PROVE  /\ cTask[c] \in Tasks /\ refs[cTask[c]] = 0 /\ cTask[c] \notin deleted
           /\ ~Queued(cTask[c]) /\ pTask # cTask[c] /\ runs[cTask[c]] = 0
           /\ \A w \in Workers : mpTask[w] # cTask[c]
  <1>1. cTask[c] \in Tasks /\ refs[cTask[c]] = 0 /\ cTask[c] \notin deleted
    BY DEF SInv, TypeOK, LocalsInv, SRest, NewInv
  <1> QED BY <1>1, UnpushedTask

\* Steps that leave every task with its holder.
LEMMA QuietStep ==
    ASSUME SInv,
           UNCHANGED <<mqueTasks, mpTask, refs, deleted, pTask, runs, dropped>>,
           \A w \in Workers :
               \/ wpc'[w] = wpc[w]
               \/ /\ wpc[w] \notin {"unref", "clear"} /\ wpc'[w] \notin {"unref", "clear"}
                  /\ wpc'[w] = "excute" => mpTask[w] # NULL,
           \/ UNCHANGED <<dpc, pTaskThread>>
           \/ /\ dpc \notin {"pick", "set", "ref", "wake", "unref"}
              /\ dpc' \notin {"pick", "set", "ref", "wake", "unref"}
           \/ dpc = "pick" /\ dpc' = "set"
           \/ dpc = "wake" /\ dpc' = "unref" /\ pTaskThread' = pTaskThread
    PROVE  LiveCountsExact' /\ GivenInv' /\ OnceInv'
  <1> USE DEF SInv, SRest
  <1>1. \A w \in Workers, t \in Tasks : Owns(w, t)' <=> Owns(w, t)
    BY DEF Owns
  <1>2. LiveCountsExact'
    BY <1>1 DEF LiveCountsExact, Holders, Queued
  <1>3. GivenInv'
    <2>1. ASSUME NEW w \in Workers, mpTask[w] # NULL, mpTask[w] = pTask
          PROVE  pTaskThread' = w /\ dpc' \in {"ref", "wake", "unref"}
      BY <2>1 DEF GivenInv
    <2>2. dpc' = "ref" => dpc = "ref" /\ pTaskThread' = pTaskThread
      OBVIOUS
    <2> QED BY <2>1, <2>2 DEF GivenInv
  <1>4. OnceInv'
    <2>1. dpc' \in {"pick", "set"} => dpc \in {"pick", "set"}
      OBVIOUS
    <2>2. dpc' \in {"ref", "wake", "unref"} =>
              dpc \in {"ref", "wake", "unref"} /\ pTaskThread' = pTaskThread
      OBVIOUS
    <2> QED BY <2>1, <2>2 DEF OnceInv, Queued
  <1> QED BY <1>2, <1>3, <1>4

\* Steps of the clients.
LEMMA SClientStep ==
    ASSUME SInv, NEW c \in Clients,
           Push(c) \/ \E t \in Tasks : PushCheck(c, t)
    PROVE  SRest'
  <1> USE NullAssumption
  <1>1. ASSUME NEW t \in Tasks, PushCheck(c, t) PROVE SRest'
    <2>1. LiveCountsExact' /\ GivenInv' /\ OnceInv'
      BY <1>1, QuietStep DEF PushCheck, pool, objects, threads, history
    <2>2. NewInv'
      BY <1>1 DEF PushCheck, Fresh, objects, SInv, TypeOK, LocalsInv, SRest, NewInv
    <2> QED BY <2>1, <2>2 DEF SRest
  <1>2. CASE PushQueue(c)
    <2> DEFINE t == cTask[c]
    <2>1. /\ t \in Tasks /\ refs[t] = 0 /\ t \notin deleted
          /\ ~Queued(t) /\ pTask # t /\ runs[t] = 0 /\ \A w \in Workers : mpTask[w] # t
      BY <1>2, PushedTask DEF PushQueue
    <2> USE <1>2 DEF PushQueue, threads, history
    <2>2. refs' = [refs EXCEPT ![t] = 1] /\ refs \in [Tasks -> Int]
      BY <2>1 DEF REF, SInv, TypeOK
    <2>3. \A u \in Tasks : Queued(u)' <=> Queued(u) \/ u = t
      BY <2>1, PushContains DEF SInv, TypeOK, Queued
    <2>4. IsInjective(mqueTasks')
      BY <2>1, PushInjective DEF SInv, TypeOK, SRest, OnceInv, Queued
    <2>5. NewInv'
      <3>1. cpc' = [cpc EXCEPT ![c] = "signal"] /\ cpc \in [Clients -> ClientStates]
        BY DEF SInv, TypeOK
      <3>2. \A d \in Clients : cpc'[d] = "push" => cpc[d] = "push" /\ d # c /\ cTask[d] # t
        BY <3>1 DEF SInv, SRest, NewInv
      <3> QED BY <2>1, <2>2, <3>2 DEF SInv, TypeOK, LocalsInv, SRest, NewInv
    <2> HIDE DEF t
    <2>6. GivenInv'
      BY DEF SInv, SRest, GivenInv
    <2>7. OnceInv'
      BY <2>1, <2>2, <2>3, <2>4 DEF SInv, SRest, OnceInv
    <2>8. LiveCountsExact'
      <3>1. \A u \in Tasks, w \in Workers : Owns(w, u)' <=> Owns(w, u)
        BY DEF Owns
      <3>2. \A w \in Workers : ~Owns(w, t)
        BY <2>1 DEF Owns
      <3>3. ASSUME NEW u \in Tasks, u \notin deleted
            PROVE  refs'[u] = (IF Queued(u)' THEN 1 ELSE 0) + (IF pTask = u THEN 1 ELSE 0)
                            + (IF \E w \in Workers : Owns(w, u) THEN 1 ELSE 0)
        <4>1. CASE u = t
          BY <2>1, <2>2, <2>3, <3>2, <4>1
        <4>2. CASE u # t
          BY <2>1, <2>2, <2>3, <3>3, <4>2 DEF SInv, SRest, LiveCountsExact, Holders
        <4> QED BY <4>1, <4>2
      <3> QED BY <3>1, <3>3 DEF LiveCountsExact, Holders
    <2> QED BY <2>5, <2>6, <2>7, <2>8 DEF SRest
  <1>3. CASE PushSignal(c)
    <2> USE <1>3 DEF PushSignal, pool, objects
    <2>1. LiveCountsExact' /\ GivenInv' /\ OnceInv'
      BY QuietStep
    <2>2. NewInv'
      <3>1. cpc' = [cpc EXCEPT ![c] = "idle"] /\ cpc \in [Clients -> ClientStates]
            /\ cTask' = [cTask EXCEPT ![c] = NULL] /\ cTask \in [Clients -> Tasks \cup {NULL}]
        BY DEF SInv, TypeOK
      <3>2. \A d \in Clients : cpc'[d] = "push" =>
                cpc[d] = "push" /\ cTask'[d] = cTask[d] /\ cTask[d] # NULL
        BY <3>1 DEF SInv, LocalsInv
      <3>3. \A d, e \in Clients : cpc'[d] = "push" /\ cTask'[d] = cTask'[e] => d = e
        BY <3>1, <3>2 DEF SInv, SRest, NewInv
      <3> QED BY <3>2, <3>3 DEF SInv, SRest, NewInv
    <2> QED BY <2>1, <2>2 DEF SRest
  <1> QED BY <1>1, <1>2, <1>3 DEF Push

\* What the pushing clients hold stays new when only other tasks' counters move.
LEMMA NewStep ==
    ASSUME SInv, UNCHANGED clients,
           \A t \in Tasks : /\ ~Queued(t) /\ pTask # t /\ \A w \in Workers : mpTask[w] # t
                            => refs'[t] = refs[t] /\ (t \in deleted' <=> t \in deleted)
    PROVE  NewInv'
  <1>1. \A c \in Clients : cpc[c] = "push" =>
            /\ refs'[cTask[c]] = refs[cTask[c]]
            /\ cTask[c] \in deleted' <=> cTask[c] \in deleted
    BY PushedTask
  <1> QED BY <1>1 DEF SInv, SRest, NewInv, clients

\* Steps of the dispatcher that move the task it holds.
LEMMA SDispatchStep ==
    ASSUME SInv, PopTask \/ SetTask \/ RefTask \/ DispatchUnref
    PROVE  SRest'
  <1> USE NullAssumption
  <1>1. ASSUME PopTask, mqueTasks # <<>> PROVE SRest'
    <2> DEFINE t == Head(mqueTasks)
    <2> USE <1>1 DEF PopTask, objects, clients, history
    <2>0. /\ mqueTasks \in Seq(Tasks) /\ mqueTasks # <<>> /\ IsInjective(mqueTasks)
          /\ mqueTasks' = Tail(mqueTasks)
      BY DEF SInv, TypeOK, SRest, OnceInv
    <2>1. t \in Tasks /\ Queued(t) /\ pTask = NULL /\ pTask' = t /\ dpc' = "pick"
      BY FrontContains DEF SInv, TypeOK, LocalsInv, Queued
    <2>2. \A u \in Tasks : Queued(u)' <=> Queued(u) /\ u # t
      BY <2>0, PopContains DEF Queued
    <2>3. IsInjective(mqueTasks')
      BY <2>0, PopInjective
    <2>4. NewInv'
      BY DEF SInv, SRest, NewInv
    <2> HIDE DEF t
    <2>5. GivenInv'
      BY <2>1 DEF SInv, SRest, GivenInv, OnceInv
    <2>6. OnceInv'
      BY <2>1, <2>2, <2>3 DEF SInv, SRest, OnceInv
    <2>7. LiveCountsExact'
      <3>1. \A u \in Tasks, w \in Workers : Owns(w, u)' <=> Owns(w, u)
        BY DEF Owns
      <3>2. ASSUME NEW u \in Tasks, u \notin deleted
            PROVE  refs[u] = (IF Queued(u)' THEN 1 ELSE 0) + (IF t = u THEN 1 ELSE 0)
                            + (IF \E w \in Workers : Owns(w, u) THEN 1 ELSE 0)
        <4>1. refs[u] = (IF Queued(u) THEN 1 ELSE 0) + (IF pTask = u THEN 1 ELSE 0)
                      + (IF \E w \in Workers : Owns(w, u) THEN 1 ELSE 0)
          BY <3>2 DEF SInv, SRest, LiveCountsExact, Holders
        <4>2. Queued(u)' <=> Queued(u) /\ u # t
          BY <2>2
        <4> HIDE <1>1
        <4> QED BY <2>1, <4>1, <4>2
      <3> QED BY <2>1, <3>1, <3>2 DEF LiveCountsExact, Holders
    <2> QED BY <2>4, <2>5, <2>6, <2>7 DEF SRest
  <1>2. ASSUME PopTask, mqueTasks = <<>> PROVE SRest'
    <2> USE <1>2 DEF PopTask, objects, clients, history
    <2>1. LiveCountsExact' /\ GivenInv' /\ OnceInv'
      BY QuietStep
    <2>2. NewInv'
      BY DEF SInv, SRest, NewInv
    <2> QED BY <2>1, <2>2 DEF SRest
  <1> DEFINE w == pTaskThread
             t == pTask
  <1>0. SetTask \/ RefTask \/ DispatchUnref => w \in Workers /\ t \in Tasks
    BY DEF SInv, TypeOK, LocalsInv, SetTask, RefTask, DispatchUnref
  <1>3. ASSUME SetTask, mpTask[w] = NULL PROVE SRest'
    <2> USE <1>3 DEF SetTask, pool, objects, clients
    <2>1. /\ mpTask' = [mpTask EXCEPT ![w] = t] /\ dpc = "set" /\ dpc' = "ref"
          /\ UNCHANGED <<pTask, pTaskThread, wpc, runs, dropped>>
      OBVIOUS
    <2>2. w \in Workers /\ t \in Tasks
      BY <1>0
    <2>3. mpTask'[w] = t /\ \A v \in Workers : v # w => mpTask'[v] = mpTask[v]
      BY <2>1, <2>2 DEF SInv, TypeOK
    <2>4. runs[t] = 0 /\ t \notin deleted /\ ~Queued(t) /\ \A v \in Workers : mpTask[v] # t
      BY <2>1, <2>2 DEF SInv, SRest, OnceInv, GivenInv
    <2>5. wpc[w] \notin {"excute", "unref", "clear"}
      BY <2>2 DEF SInv, SRest, GivenInv
    <2>6. NewInv'
      BY DEF SInv, SRest, NewInv
    <2> HIDE DEF w, t
    <2>7. GivenInv'
      BY <2>1, <2>2, <2>3, <2>4, <2>5 DEF SInv, SRest, GivenInv, w, t
    <2>8. OnceInv'
      BY <2>1, <2>2, <2>3, <2>4 DEF SInv, SRest, OnceInv, Queued, w, t
    <2>9. \A u \in Tasks, v \in Workers : Owns(v, u)' <=> Owns(v, u)
      BY <2>1, <2>2, <2>3 DEF Owns, w
    <2>10. LiveCountsExact'
      BY <2>1, <2>9 DEF SInv, SRest, LiveCountsExact, Holders, Queued
    <2> QED BY <2>6, <2>7, <2>8, <2>10 DEF SRest
  <1>4. ASSUME SetTask, mpTask[w] # NULL PROVE SRest'
    <2> USE <1>4 DEF SetTask, pool, objects, clients
    <2>1. NewInv' /\ GivenInv'
      BY DEF SInv, SRest, NewInv, GivenInv
    <2>2. OnceInv'
      BY DEF SInv, SRest, OnceInv, Queued
    <2>3. \A u \in Tasks, v \in Workers : Owns(v, u)' <=> Owns(v, u)
      BY DEF Owns
    <2>4. LiveCountsExact'
      BY <2>3 DEF SInv, SRest, LiveCountsExact, Holders, Queued
    <2> QED BY <2>1, <2>2, <2>4 DEF SRest
  <1>5. CASE RefTask
    <2> USE <1>5 DEF RefTask, pool, clients, history
    <2>0. /\ dpc = "ref" /\ dpc' = "wake" /\ mpTask[w] \in {NULL, t}
          /\ w \in Workers /\ t \in Tasks
      BY <1>0 DEF SInv, SRest, GivenInv
    <2>1. refs' = IF mpTask[w] = NULL THEN refs ELSE [refs EXCEPT ![t] = refs[t] + 1]
      BY <2>0 DEF REF
    <2>2. refs \in [Tasks -> Int]
      BY DEF SInv, TypeOK
    <2>3. \A u \in Tasks : u # t => refs'[u] = refs[u]
      BY <2>1, <2>2
    <2>4. refs'[t] = IF mpTask[w] = NULL THEN refs[t] ELSE refs[t] + 1
      BY <2>0, <2>1, <2>2
    <2>5. NewInv'
      BY <2>3, NewStep
    <2>6. GivenInv'
      BY DEF SInv, SRest, GivenInv
    <2>7. OnceInv'
      BY <2>0, <2>2, <2>3, <2>4 DEF SInv, SRest, OnceInv, Queued
    <2>8. LiveCountsExact'
      <3>1. ASSUME NEW u \in Tasks, u \notin deleted PROVE refs'[u] = Holders(u)'
        <4>1. refs[u] = Holders(u)
          BY <3>1 DEF SInv, SRest, LiveCountsExact
        <4>2. \A v \in Workers : v # w \/ mpTask[w] # u => (Owns(v, u)' <=> Owns(v, u))
          BY <2>0 DEF Owns
        <4>3. CASE mpTask[w] # u
          <5>1. refs'[u] = refs[u]
            BY <2>0, <2>3, <2>4, <4>3
          <5> QED BY <4>1, <4>2, <4>3, <5>1 DEF Holders, Queued
        <4>4. CASE mpTask[w] = u
          <5>1. u = t /\ refs'[u] = refs[u] + 1
            BY <2>0, <2>4, <4>4
          <5>2. \A v \in Workers : ~Owns(v, u)
            BY <2>0, <4>4 DEF SInv, SRest, OnceInv, Owns
          <5>3. Owns(w, u)'
            BY <2>0, <3>1, <4>4 DEF SInv, SRest, GivenInv, Owns
          <5>4. Queued(u)' <=> Queued(u)
            BY DEF Queued
          <5>5. Holders(u) = (IF Queued(u) THEN 1 ELSE 0) + (IF pTask = u THEN 1 ELSE 0)
            BY <5>2 DEF Holders
          <5>6. Holders(u)' = (IF Queued(u) THEN 1 ELSE 0) + (IF pTask = u THEN 1 ELSE 0) + 1
            BY <2>0, <5>3, <5>4 DEF Holders
          <5> QED BY <4>1, <5>1, <5>5, <5>6
        <4> QED BY <4>3, <4>4
      <3> QED BY <3>1 DEF LiveCountsExact
    <2> QED BY <2>5, <2>6, <2>7, <2>8 DEF SRest
  <1>6. CASE DispatchUnref
    <2> USE <1>6 DEF DispatchUnref, pool, clients, history
    <2>0. /\ dpc = "unref" /\ dpc' = "pop" /\ pTask' = NULL
          /\ w \in Workers /\ t \in Tasks /\ ~Queued(t)
      BY <1>0 DEF SInv, SRest, OnceInv
    <2>1. /\ refs' = [refs EXCEPT ![t] = refs[t] - 1] /\ refs \in [Tasks -> Int]
          /\ deleted' = deleted \cup (IF refs[t] - 1 <= 0 THEN {t} ELSE {})
      BY <2>0 DEF UNREF, Freed, SInv, TypeOK
    <2>2. /\ refs'[t] = refs[t] - 1
          /\ \A u \in Tasks : u # t => refs'[u] = refs[u] /\ (u \in deleted' <=> u \in deleted)
          /\ t \in deleted' <=> t \in deleted \/ refs[t] - 1 <= 0
      BY <2>0, <2>1
    <2>3. NewInv'
      BY <2>2, NewStep
    <2>4. \A u \in Tasks, v \in Workers : Owns(v, u)' <=> Owns(v, u)
      BY DEF Owns
    <2>5. t \notin deleted => refs[t] = 1 + (IF \E v \in Workers : Owns(v, t) THEN 1 ELSE 0)
      BY <2>0 DEF SInv, SRest, LiveCountsExact, Holders
    <2>6. ASSUME NEW v \in Workers, mpTask[v] = t, wpc[v] = "clear" PROVE t \in deleted'
      <3>1. ~\E x \in Workers : Owns(x, t)
        BY <2>0, <2>6 DEF SInv, SRest, OnceInv, Owns
      <3> QED BY <2>2, <2>5, <3>1
    <2>7. t \in deleted' => runs[t] = 1 \/ t \in dropped
      <3>1. ASSUME mpTask[w] = t, t \notin deleted, refs[t] - 1 <= 0 PROVE runs[t] = 1
        <4>1. ~Owns(w, t)
          <5>1. (\E v \in Workers : Owns(v, t)) => refs[t] = 2
            BY <2>5, <3>1
          <5> QED BY <2>0, <3>1, <5>1
        <4>2. wpc[w] = "clear"
          BY <2>0, <3>1, <4>1 DEF Owns
        <4> QED BY <2>0, <3>1, <4>2 DEF SInv, SRest, GivenInv
      <3> QED BY <2>0, <2>2, <3>1 DEF SInv, SRest, OnceInv
    <2>8. GivenInv'
      <3>1. \A v \in Workers : mpTask[v] # NULL => mpTask[v] \in Tasks
        BY DEF SInv, TypeOK
      <3> QED BY <2>0, <2>2, <2>6, <3>1 DEF SInv, SRest, GivenInv
    <2>9. OnceInv'
      <3>1. \A u \in Tasks : runs[u] > 0 => u \in deleted' \/ refs'[u] > 0
        <4>1. refs[t] \in Int
          BY <2>0, <2>1
        <4> QED BY <2>2, <4>1 DEF SInv, SRest, OnceInv
      <3>2. \A u \in deleted' : runs[u] = 1 \/ u \in dropped
        BY <2>1, <2>7 DEF SInv, SRest, OnceInv
      <3> QED BY <2>0, <2>2, <3>1, <3>2 DEF SInv, SRest, OnceInv, Queued
    <2>10. LiveCountsExact'
      <3>1. ASSUME NEW u \in Tasks, u \notin deleted' PROVE refs'[u] = Holders(u)'
        <4>1. u \notin deleted /\ refs[u] = Holders(u)
          BY <2>1, <3>1 DEF SInv, SRest, LiveCountsExact
        <4>2. Queued(u)' <=> Queued(u)
          BY DEF Queued
        <4>3. (\E v \in Workers : Owns(v, u))' <=> \E v \in Workers : Owns(v, u)
          BY <2>4
        <4>4. Holders(u)' = (IF Queued(u) THEN 1 ELSE 0)
                          + (IF \E v \in Workers : Owns(v, u) THEN 1 ELSE 0)
          BY <2>0, <4>2, <4>3 DEF Holders
        <4>5. Holders(u) = (IF Queued(u) THEN 1 ELSE 0) + (IF t = u THEN 1 ELSE 0)
                         + (IF \E v \in Workers : Owns(v, u) THEN 1 ELSE 0)
          BY DEF Holders
        <4> HIDE <1>6 DEF t
        <4>6. refs'[u] = IF t = u THEN refs[u] - 1 ELSE refs[u]
          BY <2>2
        <4> QED BY <4>1, <4>4, <4>5, <4>6
      <3> QED BY <3>1 DEF LiveCountsExact
    <2> QED BY <2>3, <2>8, <2>9, <2>10 DEF SRest
  <1> QED BY <1>1, <1>2, <1>3, <1>4, <1>5, <1>6

\* Steps of a task thread that run, release or forget its task.
LEMMA SWorkerStep ==
    ASSUME SInv, NEW w \in Workers, TaskExcute(w) \/ WorkerUnref(w) \/ WorkerClear(w)
    PROVE  SRest'
  <1> USE NullAssumption
  <1> DEFINE t == mpTask[w]
  <1>0. t # NULL /\ t \in Tasks /\ ~Queued(t) /\ \A v \in Workers : mpTask[v] = t => v = w
    BY DEF SInv, TypeOK, SRest, GivenInv, OnceInv, TaskExcute, WorkerUnref, WorkerClear
  <1>1. CASE TaskExcute(w)
    <2> USE <1>1 DEF TaskExcute, pool, objects, clients
    <2>1. runs[t] = 0 /\ runs \in [Tasks -> Nat]
      BY <1>0 DEF SInv, TypeOK, SRest, GivenInv
    <2>2. runs'[t] = 1 /\ \A u \in Tasks : u # t => runs'[u] = runs[u]
      BY <1>0, <2>1
    <2>3. wpc'[w] = "unref" /\ \A v \in Workers : v # w => wpc'[v] = wpc[v]
      BY DEF SInv, TypeOK
    <2>4. NewInv'
      BY DEF SInv, SRest, NewInv
    <2>5. \A u \in Tasks, v \in Workers : Owns(v, u)' <=> Owns(v, u)
      BY <2>3 DEF Owns
    <2>6. LiveCountsExact'
      BY <2>5 DEF SInv, SRest, LiveCountsExact, Holders, Queued
    <2>7. \A v \in Workers : mpTask[v] # NULL => mpTask[v] \in Tasks
      BY DEF SInv, TypeOK
    <2>8. t \in deleted \/ refs[t] > 0
      <3>1. pTask = t \/ Owns(w, t)
        BY <1>0 DEF SInv, SRest, GivenInv, Owns
      <3> QED BY <1>0, <3>1 DEF SInv, SRest, LiveCountsExact, Holders
    <2> HIDE DEF t
    <2>9. GivenInv'
      BY <1>0, <2>2, <2>3, <2>7 DEF SInv, SRest, GivenInv, t
    <2>11. dpc \in {"ref", "wake", "unref"} => pTask \in Tasks
      BY DEF SInv, TypeOK, LocalsInv
    <2>12. dpc \in {"pick", "set"} => pTask # t /\ pTask \in Tasks
      BY <1>0 DEF SInv, TypeOK, LocalsInv, SRest, GivenInv, t
    <2>10. OnceInv'
      BY <1>0, <2>2, <2>8, <2>11, <2>12 DEF SInv, SRest, OnceInv, Queued, TypeOK
    <2> QED BY <2>4, <2>6, <2>9, <2>10 DEF SRest
  <1>2. CASE WorkerUnref(w)
    <2> USE <1>2 DEF WorkerUnref, pool, clients, history
    <2>1. /\ refs' = [refs EXCEPT ![t] = refs[t] - 1] /\ refs \in [Tasks -> Int]
          /\ deleted' = deleted \cup (IF refs[t] - 1 <= 0 THEN {t} ELSE {})
      BY <1>0 DEF UNREF, Freed, SInv, TypeOK
    <2>2. /\ refs'[t] = refs[t] - 1 /\ refs[t] \in Int
          /\ \A u \in Tasks : u # t => refs'[u] = refs[u] /\ (u \in deleted' <=> u \in deleted)
          /\ t \in deleted' <=> t \in deleted \/ refs[t] - 1 <= 0
      BY <1>0, <2>1
    <2>3. wpc'[w] = "clear" /\ \A v \in Workers : v # w => wpc'[v] = wpc[v]
      BY DEF SInv, TypeOK
    <2>4. runs[t] = 1
      BY <1>0 DEF SInv, SRest, GivenInv
    <2>5. NewInv'
      BY <1>0, <2>2, NewStep
    <2>6. ~Owns(w, t)' /\ \A v \in Workers : ~Owns(v, t)'
      BY <1>0, <2>3 DEF Owns
    <2>7. t \notin deleted => refs[t] = (IF pTask = t THEN 1 ELSE 0)
                                      + (IF Owns(w, t) THEN 1 ELSE 0)
      <3>1. (\E v \in Workers : Owns(v, t)) <=> Owns(w, t)
        BY <1>0 DEF Owns
      <3> QED BY <1>0, <3>1 DEF SInv, SRest, LiveCountsExact, Holders
    <2>8. ASSUME t \notin deleted'
          PROVE  t \notin deleted /\ refs[t] = 2 /\ pTask = t /\ Owns(w, t) /\ dpc # "ref"
      <3>1. t \notin deleted /\ refs[t] - 1 > 0
        BY <2>2, <2>8
      <3>2. refs[t] = 2 /\ pTask = t /\ Owns(w, t)
        BY <2>7, <3>1
      <3>3. dpc # "ref"
        BY <1>0, <3>2 DEF SInv, SRest, GivenInv, Owns
      <3> QED BY <3>1, <3>2, <3>3
    <2>9. LiveCountsExact'
      <3>1. ASSUME NEW u \in Tasks, u \notin deleted' PROVE refs'[u] = Holders(u)'
        <4>1. CASE u = t
          <5>1. /\ ~Queued(u)' /\ pTask' = u /\ ~\E v \in Workers : Owns(v, u)'
            BY <1>0, <2>6, <2>8, <3>1, <4>1 DEF Queued
          <5>2. refs'[u] = 1
            BY <2>2, <2>8, <3>1, <4>1
          <5> QED BY <5>1, <5>2 DEF Holders
        <4>2. CASE u # t
          <5>1. \A v \in Workers : Owns(v, u)' <=> Owns(v, u)
            BY <2>3, <4>2 DEF Owns
          <5> QED BY <2>2, <3>1, <4>2, <5>1 DEF SInv, SRest, LiveCountsExact, Holders, Queued
        <4> QED BY <4>1, <4>2
      <3> QED BY <3>1 DEF LiveCountsExact
    <2>10. GivenInv'
      <3>1. \A v \in Workers : mpTask[v] # NULL => mpTask[v] \in Tasks
        BY DEF SInv, TypeOK
      <3>2. t \in deleted' \/ (t = pTask /\ dpc # "ref")
        BY <2>8
      <3> HIDE DEF t
      <3> QED BY <1>0, <2>1, <2>3, <2>4, <3>1, <3>2 DEF SInv, SRest, GivenInv, t
    <2>11. OnceInv'
      <3>1. \A u \in Tasks : runs[u] > 0 => u \in deleted' \/ refs'[u] > 0
        BY <2>2 DEF SInv, SRest, OnceInv
      <3>2. \A u \in deleted' : runs[u] = 1 \/ u \in dropped
        BY <2>1, <2>4 DEF SInv, SRest, OnceInv
      <3>3. dpc \in {"pick", "set"} => pTask # t /\ pTask \in Tasks
        BY <1>0 DEF SInv, TypeOK, LocalsInv, SRest, GivenInv
      <3> HIDE DEF t
      <3> QED BY <1>0, <2>2, <3>1, <3>2, <3>3 DEF SInv, SRest, OnceInv, Queued
    <2> QED BY <2>5, <2>9, <2>10, <2>11 DEF SRest
  <1>3. CASE WorkerClear(w)
    <2> USE <1>3 DEF WorkerClear, pool, objects, clients, history
    <2>1. mpTask'[w] = NULL /\ \A v \in Workers : v # w => mpTask'[v] = mpTask[v]
      BY DEF SInv, TypeOK
    <2>2. wpc'[w] = "check" /\ \A v \in Workers : v # w => wpc'[v] = wpc[v]
      BY DEF SInv, TypeOK
    <2>3. runs[t] = 1
      BY <1>0 DEF SInv, SRest, GivenInv
    <2>4. NewInv'
      BY DEF SInv, SRest, NewInv
    <2>5. GivenInv'
      BY <2>1, <2>2 DEF SInv, SRest, GivenInv
    <2>6. dpc \in {"ref", "wake", "unref"} => pTask # NULL /\ pTaskThread \in Workers
      BY DEF SInv, TypeOK, LocalsInv
    <2>7. OnceInv'
      BY <2>1, <2>3, <2>6 DEF SInv, SRest, OnceInv, Queued
    <2>8. \A u \in Tasks, v \in Workers : Owns(v, u)' <=> Owns(v, u)
      BY <2>1, <2>2 DEF Owns
    <2>9. LiveCountsExact'
      BY <2>8 DEF SInv, SRest, LiveCountsExact, Holders, Queued
    <2> QED BY <2>4, <2>5, <2>7, <2>9 DEF SRest
  <1> QED BY <1>1, <1>2, <1>3

\* The other steps move no task.
LEMMA SOtherStep ==
    ASSUME SInv,
           \/ Starting \/ PoolThreadEntry \/ PoolWait \/ PoolSpuriousWakeup
           \/ TakeTaskThread \/ NewTaskThread \/ WakeTaskThread \/ UNCHANGED vars
           \/ \E w \in Workers : WorkerCheck(w) \/ PushTaskThread(w) \/ WorkerWait(w)
                                 \/ WorkerSpuriousWakeup(w)
    PROVE  SRest'
  <1> USE DEF pool, objects, clients, history, threads
  <1> DEFINE Kept == UNCHANGED <<refs, deleted, cpc, cTask>>
             Quiet == LiveCountsExact' /\ GivenInv' /\ OnceInv'
  <1>0. CASE Starting
    <2>1. /\ UNCHANGED <<mqueTasks, mpTask, refs, deleted, pTask, pTaskThread, wpc, cTask,
                         runs, dropped>>
          /\ dpc' = dpc \/ (dpc = "none" /\ dpc' = "start")
          /\ \A c \in Clients : cpc'[c] = "push" <=> cpc[c] = "push"
      BY <1>0, StartingMoves DEF SInv
    <2>2. Quiet
      BY <2>1, QuietStep
    <2> QED BY <2>1, <2>2 DEF SInv, SRest, NewInv
  <1>1. CASE PoolThreadEntry \/ PoolWait \/ PoolSpuriousWakeup
    <2>1. Kept
      BY <1>1 DEF PoolThreadEntry, PoolWait, PoolSpuriousWakeup
    <2>2. Quiet
      BY <1>1, QuietStep DEF PoolThreadEntry, PoolWait, PoolSpuriousWakeup
    <2> QED BY <2>1, <2>2 DEF SInv, SRest, NewInv
  <1>2. CASE TakeTaskThread \/ NewTaskThread \/ WakeTaskThread
    <2>1. Kept
      BY <1>2 DEF TakeTaskThread, NewTaskThread, WakeTaskThread
    <2>2. wpc \in [Workers -> WorkerStates]
      BY DEF SInv, TypeOK
    <2>3. Quiet
      BY <1>2, <2>2, QuietStep DEF TakeTaskThread, NewTaskThread, WakeTaskThread
    <2> QED BY <2>1, <2>3 DEF SInv, SRest, NewInv
  <1>3. ASSUME NEW w \in Workers,
               WorkerCheck(w) \/ PushTaskThread(w) \/ WorkerWait(w) \/ WorkerSpuriousWakeup(w)
        PROVE  SRest'
    <2>1. Kept
      BY <1>3 DEF WorkerCheck, PushTaskThread, WorkerWait, WorkerSpuriousWakeup
    <2>2. wpc \in [Workers -> WorkerStates]
      BY DEF SInv, TypeOK
    <2>3. Quiet
      BY <1>3, <2>2, QuietStep DEF WorkerCheck, PushTaskThread, WorkerWait,
         WorkerSpuriousWakeup
    <2> QED BY <2>1, <2>3 DEF SInv, SRest, NewInv
  <1>4. CASE UNCHANGED vars
    <2>1. Kept
      BY <1>4 DEF vars
    <2>2. Quiet
      BY <1>4, QuietStep DEF vars
    <2> QED BY <2>1, <2>2 DEF SInv, SRest, NewInv
  <1> QED BY <1>0, <1>1, <1>2, <1>3, <1>4

LEMMA SInvInit == Init => SInv
  <1> SUFFICES ASSUME Init PROVE SInv
    OBVIOUS
  <1>1. TypeOK /\ LocalsInv
    BY TypeInit
  <1>2. /\ mqueTasks = <<>> /\ pTask = NULL /\ pTaskThread = NULL /\ dpc = "none"
        /\ deleted = {} /\ refs = [t \in Tasks |-> 0] /\ runs = [t \in Tasks |-> 0]
        /\ mpTask = [w \in Workers |-> NULL] /\ wpc = [w \in Workers |-> "none"]
        /\ cpc = [c \in Clients |-> "idle"]
    BY DEF Init, NewRefs
  <1>3. \A t \in Tasks : ~Queued(t)
    BY <1>2 DEF Queued, Contains
  <1>4. IsInjective(mqueTasks)
    BY <1>2 DEF IsInjective
  <1>5. LiveCountsExact
    BY <1>2, <1>3, NullAssumption DEF LiveCountsExact, Holders, Owns
  <1>6. GivenInv /\ OnceInv /\ NewInv
    BY <1>2, <1>3, <1>4 DEF GivenInv, OnceInv, NewInv
  <1> QED BY <1>1, <1>5, <1>6 DEF SInv, SRest

LEMMA SInvStep == SInv /\ [Next]_vars => SInv'
  <1> SUFFICES ASSUME SInv, [Next]_vars PROVE SInv'
    OBVIOUS
  <1>1. TypeOK' /\ LocalsInv'
    BY TypeStep DEF SInv
  <1>2. SRest'
    <2>1. CASE \E c \in Clients : Push(c) \/ \E t \in Tasks : PushCheck(c, t)
      BY <2>1, SClientStep
    <2>2. CASE PopTask \/ SetTask \/ RefTask \/ DispatchUnref
      BY <2>2, SDispatchStep
    <2>3. CASE \E w \in Workers : TaskExcute(w) \/ WorkerUnref(w) \/ WorkerClear(w)
      BY <2>3, SWorkerStep
    <2>4. CASE \/ Starting \/ PoolThreadEntry \/ PoolWait \/ PoolSpuriousWakeup
               \/ TakeTaskThread \/ NewTaskThread \/ WakeTaskThread \/ UNCHANGED vars
               \/ \E w \in Workers : WorkerCheck(w) \/ PushTaskThread(w) \/ WorkerWait(w)
                                     \/ WorkerSpuriousWakeup(w)
      BY <2>4, SOtherStep
    <2> QED BY <2>1, <2>2, <2>3, <2>4 DEF Next, Starting, Dispatcher, Worker
  <1> QED BY <1>1, <1>2 DEF SInv

\* No task runs twice or in two threads, and none is deleted unrun unless it
\* was refused, even when the waits return without a signal
\* (UvTaskPool.cpp:28-29, UvTaskThread.cpp:13-24).
THEOREM RunsOnceCorrect == Spec => []RunsOnce
  <1>1. Init => SInv
    BY SInvInit
  <1>2. SInv /\ [Next]_vars => SInv'
    BY SInvStep
  <1>3. SInv => RunsOnce
    <2> SUFFICES ASSUME SInv PROVE RunsOnce
      OBVIOUS
    <2>1. \A t \in Tasks, v, w \in Workers : mpTask[v] = t /\ mpTask[w] = t => v = w
      BY NullAssumption DEF SInv, SRest, OnceInv
    <2> QED BY <2>1 DEF SInv, SRest, OnceInv, RunsOnce, AtMostOnce, DeletedHasRun
  <1> QED BY <1>1, <1>2, <1>3, PTL DEF Spec
=============================================================================
