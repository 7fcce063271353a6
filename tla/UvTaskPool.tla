----------------------------- MODULE UvTaskPool -----------------------------
(***************************************************************************)
(* CUvTaskPool and the CUvTaskThreads it feeds: clients push tasks, one    *)
(* dispatcher thread pops them and hands each to an idle task thread, or   *)
(* to a new one when none is idle.                                         *)
(*                                                                         *)
(* A thread is a program counter; a step is what the code does between     *)
(* two points where another thread may get in: one critical section, one   *)
(* signal, one unlocked access to a shared field.  CUvCond::Wait has no    *)
(* predicate and its private mutex is not held by whoever signals, so      *)
(* there is a gap between the test that decides to wait and the wait.      *)
(***************************************************************************)
EXTENDS Integers, Sequences, SequencesExt, RcObject

CONSTANTS
    Clients,          \* threads that call PushTask
    Owners,           \* those that call Init too
    Tasks,            \* CTask objects, each pushed at most once
    Workers,          \* CUvTaskThread objects that may be created
    NULL,
    SpuriousWakeups   \* may uv_cond_wait return without a signal?

ASSUME OwnerAssumption == Owners \subseteq Clients
ASSUME NullAssumption == NULL \notin Tasks \cup Workers
ASSUME PoolAssumption == "pool" \notin Workers
ASSUME SpuriousAssumption == SpuriousWakeups \in BOOLEAN

VARIABLES
    mbStart,          \* set by Init, cleared by UnInit
    mqueTasks,        \* the queue, under mcQueTasksMutex
    miTaskNum,        \* tasks ever pushed
    msetTaskThreads,  \* the idle set, under mcTaskThreadsMutex
    miTaskThreadNum,  \* task threads ever created
    mpTask,           \* mpTask of each task thread, under no lock
    refs, deleted,    \* reference counters, objects freed
    dpc, pTask, pTaskThread,  \* the dispatcher and its locals
    wpc,              \* where each task thread is
    cpc, cTask,       \* where each client is, and the task it pushes
    \* history
    runs,             \* how many times TaskExcute ran for each task
    dropped,          \* tasks SetTask refused
    missed,           \* sleepers a signal went past before they slept
    second            \* has Init created a second dispatcher?

pool    == <<mbStart, mqueTasks, miTaskNum, msetTaskThreads, miTaskThreadNum>>
objects == <<refs, deleted>>
threads == <<dpc, pTask, pTaskThread, wpc, mpTask>>
clients == <<cpc, cTask>>
history == <<runs, dropped, missed, second>>
vars == <<pool, objects, threads, clients, history>>

DispatcherStates == {"none", "start", "pop", "wait", "waiting", "pick", "set",
                     "ref", "wake", "unref"}
WorkerStates == {"none", "new", "check", "insert", "wait", "waiting", "excute",
                 "unref", "clear"}
ClientStates == {"idle", "init", "start", "create", "entry", "push",
                 "signal"}

\* The name of the dispatcher among the threads that may miss a signal.
Pool == "pool"

TypeOK ==
    /\ mbStart \in BOOLEAN
    /\ mqueTasks \in Seq(Tasks)
    /\ miTaskNum \in Nat
    /\ msetTaskThreads \in SUBSET Workers
    /\ miTaskThreadNum \in Nat
    /\ mpTask \in [Workers -> Tasks \cup {NULL}]
    /\ refs \in [Tasks -> Int]
    /\ deleted \in SUBSET Tasks
    /\ dpc \in DispatcherStates
    /\ pTask \in Tasks \cup {NULL}
    /\ pTaskThread \in Workers \cup {NULL}
    /\ wpc \in [Workers -> WorkerStates]
    /\ cpc \in [Clients -> ClientStates]
    /\ cTask \in [Clients -> Tasks \cup {NULL}]
    /\ runs \in [Tasks -> Nat]
    /\ dropped \in SUBSET Tasks
    /\ missed \in SUBSET (Workers \cup {Pool})
    /\ second \in BOOLEAN

Init ==
    /\ mbStart = FALSE
    /\ mqueTasks = <<>>
    /\ miTaskNum = 0
    /\ msetTaskThreads = {}
    /\ miTaskThreadNum = 0
    /\ mpTask = [w \in Workers |-> NULL]
    /\ refs = NewRefs(Tasks)
    /\ deleted = {}
    /\ dpc = "none"
    /\ pTask = NULL
    /\ pTaskThread = NULL
    /\ wpc = [w \in Workers |-> "none"]
    /\ cpc = [c \in Clients |-> "idle"]
    /\ cTask = [c \in Clients |-> NULL]
    /\ runs = [t \in Tasks |-> 0]
    /\ dropped = {}
    /\ missed = {}
    /\ second = FALSE

-----------------------------------------------------------------------------
(* Clients. *)

\* Init() tests mbStart and sets it, and Start() tests mbUvThreadInit, all
\* without a lock.
PoolInit(c) ==
    /\ cpc[c] = "idle" /\ ~mbStart
    /\ cpc' = [cpc EXCEPT ![c] = "init"]
    /\ UNCHANGED <<pool, objects, threads, cTask, history>>

PoolInitSet(c) ==
    /\ cpc[c] = "init"
    /\ mbStart' = TRUE
    /\ cpc' = [cpc EXCEPT ![c] = "start"]
    /\ UNCHANGED <<mqueTasks, miTaskNum, msetTaskThreads, miTaskThreadNum,
                   objects, threads, cTask, history>>

\* The thread itself sets mbUvThreadInit, in PoolThreadEntry.
PoolStart(c) ==
    /\ cpc[c] = "start"
    /\ cpc' = [cpc EXCEPT ![c] = IF dpc \in {"none", "start"} THEN "create" ELSE "idle"]
    /\ UNCHANGED <<pool, objects, threads, cTask, history>>

\* uv_thread_create, which may fail.  An Init that began before the thread of
\* another had set the flag creates a second dispatcher; what two of them do
\* is not followed.
PoolCreate(c) ==
    /\ cpc[c] = "create"
    /\ \/ /\ dpc = "none" /\ dpc' = "start" /\ UNCHANGED second
          /\ cpc' = [cpc EXCEPT ![c] = "entry"]
       \/ /\ dpc # "none" /\ second' = TRUE /\ UNCHANGED dpc
          /\ cpc' = [cpc EXCEPT ![c] = "entry"]
       \/ /\ UNCHANGED <<dpc, second>>
          /\ cpc' = [cpc EXCEPT ![c] = "idle"]
    /\ UNCHANGED <<pool, objects, pTask, pTaskThread, wpc, mpTask, cTask, runs,
                   dropped, missed>>

\* Start() returns when the thread has set the flag.
PoolStarted(c) ==
    /\ cpc[c] = "entry" /\ dpc # "start"
    /\ cpc' = [cpc EXCEPT ![c] = "idle"]
    /\ UNCHANGED <<pool, objects, threads, cTask, history>>

\* UnInit() only clears the flag: no thread is stopped, no task dropped.
PoolUnInit ==
    /\ mbStart
    /\ mbStart' = FALSE
    /\ UNCHANGED <<mqueTasks, miTaskNum, msetTaskThreads, miTaskThreadNum,
                   objects, threads, clients, history>>

\* A task no one has pushed yet.
Fresh(t) == refs[t] = 0 /\ t \notin deleted /\ \A c \in Clients : cTask[c] # t

\* PushTask's assertion reads mbStart without a lock.
PushCheck(c, t) ==
    /\ cpc[c] = "idle"
    /\ Fresh(t)
    /\ mbStart
    /\ cpc' = [cpc EXCEPT ![c] = "push"]
    /\ cTask' = [cTask EXCEPT ![c] = t]
    /\ UNCHANGED <<pool, objects, threads, history>>

\* Mutant: the reference the queue holds is not counted.
PushQueueNoRef(c) ==
    /\ cpc[c] = "push"
    /\ mqueTasks' = Append(mqueTasks, cTask[c])
    /\ miTaskNum' = miTaskNum + 1
    /\ cpc' = [cpc EXCEPT ![c] = "signal"]
    /\ UNCHANGED <<mbStart, msetTaskThreads, miTaskThreadNum, objects, threads,
                   cTask, history>>

\* REF, then the push under the queue's mutex.
PushQueue(c) ==
    /\ cpc[c] = "push"
    /\ refs' = REF(refs, cTask[c], NULL)
    /\ mqueTasks' = Append(mqueTasks, cTask[c])
    /\ miTaskNum' = miTaskNum + 1
    /\ cpc' = [cpc EXCEPT ![c] = "signal"]
    /\ UNCHANGED <<mbStart, msetTaskThreads, miTaskThreadNum, deleted, threads,
                   cTask, history>>

\* Mutant: PushTask does not wake the dispatcher.
PushSignalNone(c) ==
    /\ cpc[c] = "signal"
    /\ cpc' = [cpc EXCEPT ![c] = "idle"]
    /\ cTask' = [cTask EXCEPT ![c] = NULL]
    /\ UNCHANGED <<pool, objects, threads, history>>

\* Activate() of the dispatcher.  A signal reaches only a thread that sleeps.
PushSignal(c) ==
    /\ cpc[c] = "signal"
    /\ dpc' = IF dpc = "waiting" THEN "pop" ELSE dpc
    /\ missed' = IF dpc = "wait" THEN missed \cup {Pool}
                 ELSE IF dpc = "waiting" THEN missed \ {Pool} ELSE missed
    /\ cpc' = [cpc EXCEPT ![c] = "idle"]
    /\ cTask' = [cTask EXCEPT ![c] = NULL]
    /\ UNCHANGED <<pool, objects, pTask, pTaskThread, wpc, mpTask, runs, dropped,
                   second>>

-----------------------------------------------------------------------------
(* The dispatcher: CUvTaskPool::OnThreadRun. *)

PoolThreadEntry ==
    /\ dpc = "start"
    /\ dpc' = "pop"
    /\ UNCHANGED <<pool, objects, pTask, pTaskThread, wpc, mpTask, clients, history>>

\* Mutant: a stack instead of a queue.
PopTaskLast ==
    /\ dpc = "pop"
    /\ \/ /\ mqueTasks # <<>>
          /\ pTask' = Last(mqueTasks)
          /\ mqueTasks' = Front(mqueTasks)
          /\ dpc' = "pick"
       \/ /\ mqueTasks = <<>>
          /\ dpc' = "wait"
          /\ UNCHANGED <<pTask, mqueTasks>>
    /\ UNCHANGED <<mbStart, miTaskNum, msetTaskThreads, miTaskThreadNum, objects,
                   pTaskThread, wpc, mpTask, clients, history>>

PopTask ==
    /\ dpc = "pop"
    /\ \/ /\ mqueTasks # <<>>
          /\ pTask' = Head(mqueTasks)
          /\ mqueTasks' = Tail(mqueTasks)
          /\ dpc' = "pick"
       \/ /\ mqueTasks = <<>>
          /\ dpc' = "wait"
          /\ UNCHANGED <<pTask, mqueTasks>>
    /\ UNCHANGED <<mbStart, miTaskNum, msetTaskThreads, miTaskThreadNum, objects,
                   pTaskThread, wpc, mpTask, clients, history>>

PoolWait ==
    /\ dpc = "wait"
    /\ dpc' = "waiting"
    /\ UNCHANGED <<pool, objects, pTask, pTaskThread, wpc, mpTask, clients, history>>

PoolSpuriousWakeup ==
    /\ SpuriousWakeups
    /\ dpc = "waiting"
    /\ dpc' = "pop"
    /\ missed' = missed \ {Pool}
    /\ UNCHANGED <<pool, objects, pTask, pTaskThread, wpc, mpTask, clients, runs,
                   dropped, second>>

\* DispatchTask takes the idle thread with the lowest address: any of them.
TakeTaskThread ==
    /\ dpc = "pick"
    /\ \E w \in msetTaskThreads :
          /\ pTaskThread' = w
          /\ msetTaskThreads' = msetTaskThreads \ {w}
    /\ dpc' = "set"
    /\ UNCHANGED <<mbStart, mqueTasks, miTaskNum, miTaskThreadNum, objects, pTask,
                   wpc, mpTask, clients, history>>

NewTaskThread ==
    /\ dpc = "pick"
    /\ msetTaskThreads = {}
    /\ \E w \in Workers :
          /\ wpc[w] = "none"
          /\ pTaskThread' = w
          /\ wpc' = [wpc EXCEPT ![w] = "new"]
    /\ miTaskThreadNum' = miTaskThreadNum + 1
    /\ dpc' = "set"
    /\ UNCHANGED <<mbStart, mqueTasks, miTaskNum, msetTaskThreads, objects, pTask,
                   mpTask, clients, history>>

\* SetTask: the assertion returns an error that DispatchTask does not read.
SetTask ==
    /\ dpc = "set"
    /\ \/ /\ mpTask[pTaskThread] = NULL
          /\ mpTask' = [mpTask EXCEPT ![pTaskThread] = pTask]
          /\ dpc' = "ref"
          /\ UNCHANGED dropped
       \/ /\ mpTask[pTaskThread] # NULL
          /\ dropped' = dropped \cup {pTask}
          /\ dpc' = "wake"
          /\ UNCHANGED mpTask
    /\ UNCHANGED <<pool, objects, pTask, pTaskThread, wpc, clients, runs, missed,
                   second>>

\* REF(mpTask): the macro reads the shared field again.
RefTask ==
    /\ dpc = "ref"
    /\ refs' = REF(refs, mpTask[pTaskThread], NULL)
    /\ dpc' = "wake"
    /\ UNCHANGED <<pool, deleted, pTask, pTaskThread, wpc, mpTask, clients, history>>

\* Mutant: a new thread is not started.
WakeTaskThreadIdle ==
    LET w == pTaskThread IN
    /\ dpc = "wake"
    /\ wpc' = IF wpc[w] = "waiting" THEN [wpc EXCEPT ![w] = "check"] ELSE wpc
    /\ missed' = IF wpc[w] = "wait" THEN missed \cup {w} ELSE missed
    /\ dpc' = "unref"
    /\ UNCHANGED <<pool, objects, pTask, pTaskThread, mpTask, clients, runs, dropped,
                   second>>

\* Start() of a new thread, which waits until it runs, or Activate() of an
\* idle one.  A signal to a thread on its way to the wait is lost.
WakeTaskThread ==
    LET w == pTaskThread IN
    /\ dpc = "wake"
    /\ wpc' = IF wpc[w] \in {"new", "waiting"}
              THEN [wpc EXCEPT ![w] = "check"] ELSE wpc
    /\ missed' = IF wpc[w] = "wait" THEN missed \cup {w}
                 ELSE IF wpc[w] = "waiting" THEN missed \ {w} ELSE missed
    /\ dpc' = "unref"
    /\ UNCHANGED <<pool, objects, pTask, pTaskThread, mpTask, clients, runs, dropped,
                   second>>

DispatchUnref ==
    /\ dpc = "unref"
    /\ refs' = UNREF(refs, pTask, NULL)
    /\ deleted' = deleted \cup Freed(refs, pTask, NULL)
    /\ pTask' = NULL
    /\ pTaskThread' = NULL
    /\ dpc' = "pop"
    /\ UNCHANGED <<pool, wpc, mpTask, clients, history>>

-----------------------------------------------------------------------------
(* A task thread: CUvTaskThread::OnThreadRun. *)

WorkerCheck(w) ==
    /\ wpc[w] = "check"
    /\ wpc' = [wpc EXCEPT ![w] = IF mpTask[w] = NULL THEN "insert" ELSE "excute"]
    /\ UNCHANGED <<pool, objects, dpc, pTask, pTaskThread, mpTask, clients, history>>

PushTaskThread(w) ==
    /\ wpc[w] = "insert"
    /\ msetTaskThreads' = msetTaskThreads \cup {w}
    /\ wpc' = [wpc EXCEPT ![w] = "wait"]
    /\ UNCHANGED <<mbStart, mqueTasks, miTaskNum, miTaskThreadNum, objects, dpc,
                   pTask, pTaskThread, mpTask, clients, history>>

WorkerWait(w) ==
    /\ wpc[w] = "wait"
    /\ wpc' = [wpc EXCEPT ![w] = "waiting"]
    /\ UNCHANGED <<pool, objects, dpc, pTask, pTaskThread, mpTask, clients, history>>

WorkerSpuriousWakeup(w) ==
    /\ SpuriousWakeups
    /\ wpc[w] = "waiting"
    /\ wpc' = [wpc EXCEPT ![w] = "check"]
    /\ missed' = missed \ {w}
    /\ UNCHANGED <<pool, objects, dpc, pTask, pTaskThread, mpTask, clients, runs,
                   dropped, second>>

\* TaskInit, TaskExcute and TaskQuit of the task.
TaskExcute(w) ==
    /\ wpc[w] = "excute"
    /\ runs' = [runs EXCEPT ![mpTask[w]] = @ + 1]
    /\ wpc' = [wpc EXCEPT ![w] = "unref"]
    /\ UNCHANGED <<pool, objects, dpc, pTask, pTaskThread, mpTask, clients, dropped,
                   missed, second>>

\* UNREF(mpTask) decrements and may delete before it clears the field.
WorkerUnref(w) ==
    /\ wpc[w] = "unref"
    /\ refs' = UNREF(refs, mpTask[w], NULL)
    /\ deleted' = deleted \cup Freed(refs, mpTask[w], NULL)
    /\ wpc' = [wpc EXCEPT ![w] = "clear"]
    /\ UNCHANGED <<pool, dpc, pTask, pTaskThread, mpTask, clients, history>>

\* Mutant: UNREF does not clear the field.
WorkerClearStale(w) ==
    /\ wpc[w] = "clear"
    /\ wpc' = [wpc EXCEPT ![w] = "check"]
    /\ UNCHANGED <<pool, objects, dpc, pTask, pTaskThread, mpTask, clients, history>>

WorkerClear(w) ==
    /\ wpc[w] = "clear"
    /\ mpTask' = [mpTask EXCEPT ![w] = NULL]
    /\ wpc' = [wpc EXCEPT ![w] = "check"]
    /\ UNCHANGED <<pool, objects, dpc, pTask, pTaskThread, clients, history>>

-----------------------------------------------------------------------------
Start(c) ==
    /\ ~second
    /\ PoolInitSet(c) \/ PoolStart(c) \/ PoolCreate(c) \/ PoolStarted(c)

Push(c) == ~second /\ (PushQueue(c) \/ PushSignal(c))

Dispatcher ==
    /\ ~second
    /\ \/ PoolThreadEntry \/ PopTask \/ PoolWait \/ TakeTaskThread \/ NewTaskThread
       \/ SetTask \/ RefTask \/ WakeTaskThread \/ DispatchUnref

Worker(w) ==
    /\ ~second
    /\ \/ WorkerCheck(w) \/ PushTaskThread(w) \/ WorkerWait(w)
       \/ TaskExcute(w) \/ WorkerUnref(w) \/ WorkerClear(w)

Next ==
    \/ PoolUnInit
    \/ \E c \in Owners : PoolInit(c) \/ Start(c)
    \/ \E c \in Clients : Push(c) \/ \E t \in Tasks : PushCheck(c, t)
    \/ Dispatcher \/ PoolSpuriousWakeup
    \/ \E w \in Workers : Worker(w) \/ WorkerSpuriousWakeup(w)

Spec == Init /\ [][Next]_vars

\* Every thread that can go on does; nobody is obliged to push or to start
\* the pool, and no wake-up comes out of nowhere.
Fairness ==
    /\ WF_vars(Dispatcher)
    /\ \A c \in Clients : WF_vars(Push(c))
    /\ \A c \in Owners : WF_vars(Start(c))
    /\ \A w \in Workers : WF_vars(Worker(w))

FairSpec == Spec /\ Fairness

-----------------------------------------------------------------------------
(* Properties. *)

Queued(t) == Contains(mqueTasks, t)

\* The task thread whose mpTask counts as a reference to t: between the
\* assignment in SetTask and its REF, and after UNREF, it does not.
Owns(w, t) ==
    /\ mpTask[w] = t
    /\ wpc[w] # "clear"
    /\ ~(dpc = "ref" /\ pTaskThread = w)

\* The counter of every task is the number of the holders it really has:
\* the queue, the dispatcher's local, a task thread.  REF, UNREF and the
\* hand-over are spread over three threads (UvTaskPool.cpp:52,92,
\* UvTaskThread.cpp:22,31).
RefCountExact ==
    \A t \in Tasks :
        refs[t] = (IF Queued(t) THEN 1 ELSE 0)
                + (IF pTask = t THEN 1 ELSE 0)
                + (IF \E w \in Workers : Owns(w, t) THEN 1 ELSE 0)

\* No thread holds a task that has been deleted; a task thread about to
\* clear the field it has just released is the only exception.
NoUseAfterFree ==
    /\ pTask \notin deleted
    /\ \A t \in deleted : ~Queued(t)
    /\ \A w \in Workers : mpTask[w] \in deleted => wpc[w] = "clear"

\* A thread in the idle set has no task, and SetTask finds the thread it was
\* given free: the assertion of UvTaskThread.cpp:29 never fails.
IdleThreadHasNoTask ==
    /\ \A w \in msetTaskThreads : mpTask[w] = NULL
    /\ dpc = "set" => mpTask[pTaskThread] = NULL

\* Counters are exact, nothing deleted is in use and idle threads are idle, at
\* once: each of the three would make the others' failures look like its own,
\* and the three kinds of thread keep them together (UvTaskPool.cpp:50-94).
TasksSafe == TypeOK /\ RefCountExact /\ NoUseAfterFree /\ IdleThreadHasNoTask

\* UvTaskThread.cpp:29 asserts that the thread handed a task has none.
SetTaskAccepted == dpc = "set" => mpTask[pTaskThread] = NULL

\* Two task threads never run the same task, and a task never runs twice:
\* pop, hand-over and release race with each other, whatever the wake-ups.
AtMostOnce ==
    \A t \in Tasks :
        /\ runs[t] <= 1
        /\ \A v, w \in Workers : mpTask[v] = t /\ mpTask[w] = t => v = w

\* A task is deleted without having run only when SetTask refused it.
DeletedHasRun == \A t \in deleted : runs[t] = 1 \/ t \in dropped

\* Between them: a deleted task has run exactly once unless it was refused,
\* and no task runs twice, however many wake-ups come out of nowhere
\* (UvTaskThread.cpp:13-24).
RunsOnce == AtMostOnce /\ DeletedHasRun

\* Work lies beside a sleeping thread only when the signal for it has been
\* missed or is still to come: the wait without a predicate is the only way
\* to lose a wake-up (UvTaskPool.cpp:28-29, UvTaskThread.cpp:13-14).
AsleepOnlyIfMissed ==
    /\ dpc = "waiting" /\ mqueTasks # <<>> =>
          Pool \in missed \/ \E c \in Clients : cpc[c] = "signal"
    /\ \A w \in Workers : wpc[w] = "waiting" /\ mpTask[w] # NULL =>
          w \in missed \/ (pTaskThread = w /\ dpc \in {"ref", "wake"})

\* Once Init has created the dispatcher, every task in the queue is run at
\* some time, unless a signal is missed at some time on the way or a second
\* Init has created another dispatcher.
QueuedIsRun ==
    \A t \in Tasks : Queued(t) /\ dpc # "none" ~> (runs[t] = 1 \/ missed # {} \/ second)

-----------------------------------------------------------------------------
(* The pool as a task service. *)

Service == INSTANCE TaskService WITH
    queue <- mqueTasks,
    given <- {t \in Tasks : /\ runs[t] = 0
                            /\ pTask = t \/ \E w \in Workers : mpTask[w] = t},
    done  <- {t \in Tasks : runs[t] > 0}

\* Tasks are handed out in the order PushTask queued them, every one handed
\* out stays with its thread until it has run, and none runs twice: no step
\* of the three kinds of thread loses or repeats one (UvTaskPool.cpp:38-94).
ImplementsTaskService == Service!TSSpec
=============================================================================
