# Verification of SvrBase

SvrBase is a C++ library for servers on top of libuv: an object counter, a
memory allocator, a log, an event manager and a random generator (`base`), and
threads, a task pool, an event loop, timers, TCP, pipe, UDP and file classes
(`libuv`). This directory holds TLA+ models of its concurrent classes and of
the sequential ones they rest on, the TLC configurations that check them, and
TLAPS proofs about all but the files: every invariant and every action property
that a passing run checks is also a theorem, for every value of the constants that the
assumptions named in section 5 allow.

Paths below are relative to `src/svrbase/SvrBase`. Comments in the modules
cite files by name and line.

## 1. The system

Everything is a set of classes in one process; there is no protocol between
processes. Objects meet through

- *threads*: whoever calls the library (clients), the thread of a `CUvTaskPool`,
  its `CUvTaskThread`s, the thread of a `CUvLoop`, that of the `CUvTimer`
  singleton, that of the `CLog` singleton;
- *mutexes*, each of a few lines, most classes having one per field;
- *`uv_async_send`*, the only call of libuv another thread may make: a sticky
  trigger that many sends may share, after which the loop calls one callback;
- *callbacks* the loop makes one at a time, out of which user code may call
  the library again;
- *reference counters* (`CRcObject`) on objects that pass between threads.

| component | state | operations | what is hard | what makes it correct | module |
|---|---|---|---|---|---|
| `CRcObject` | a counter under its own mutex | `REF`, `UNREF` (deletes at 0) | the counter is exact only if every user balances | counter = number of holders | `RcObject` (operators) |
| `CUvTaskPool`, `CUvTaskThread` | task queue, idle set, `mpTask` of each thread (no lock), counters | `Init`, `UnInit`, `PushTask`; the pool's and the threads' loops | started flags without a lock; `Wait()` has no predicate and the signaller does not hold its mutex; hand-over without a lock; three threads count references | each task runs once, in FIFO hand-out, is freed after its run, and is run unless a signal was missed | `UvTaskPool`, abstract `TaskService` |
| `CUvLoop` | callback queue, async handle, run mode | `StartLoop`, `CallUv`, the loop thread, destructor | coalesced triggers, calls from callbacks, calls before the start; members destroyed under the thread | calls run once, in order, on live objects | `UvLoop`, abstract `CallQueue` |
| `CUvTcpCli` | state, send buffer, map of write requests, byte counts | `Connect`, `SetTcpCli`/`AfterAccept`, `Send`, `Close`, loop callbacks | `Send` on any thread against the loop's callbacks; failed, refused and cancelled writes; the order of closing | bytes in order and none lost; requests freed; both handles closed | `UvTcpCli` |
| `CUvPipeCli` | the same under other names | the same | the same | the same | `UvPipeCli` |
| `CUvUdp` | packet queue, requests, async handle | `Start`, `Send`, `Close`, callbacks | `Close` frees what libuv still has; test and trigger of `Send` against `Close`; `Send` and `Close` before `Start`, `Start` tried again | packets in order, triggers only to a live handle, closing ends | `UvUdp` |
| `CUvTimer` | map of timers by address, their states | `Init`, `AddTimer`, `DelTimer`, the walk (`HandleTimer`), `TimerOut` | the walk erases in its own loop; callbacks run under the mutex; `AddTimer` races the start | new timers are started, deleted ones are silent | `UvTimer` |
| `CUvFile` | one `uv_fs_t` per object | 23 asynchronous operations, `FsOperCb` | the type of the request picks the handler; the one request is used again while libuv has it | every operation answered by the handler named for its method | `UvFile` |
| `CMemMgr` | queues of free blocks by size, counters, two tunables | `MemMalloc`, `MemFree`, `MemRealloc`, `SetAlign`, `SetAllocMinLimit` | a call is several critical sections of three mutexes | a block has one owner and fits, counters agree, no hoarding | `MemMgr` |
| `CMemBuffer` | capacity, use, growth count, block | `Append`, `AllocBuffer`, `SetBuffLen`, `AppendNul`, `=` | three rules of growth for one block | no write behind the block | `MemBuffer` |
| `CEventMgr` | (name, listener) registrations | `AddListener`, `DelListener`, `DispatchEvent` | callbacks under a mutex that is not recursive | counters exact, only registered listeners called, a dispatch sees one state | `EventMgr` |
| `CLog` | line buffers per level, file, size count, type, level | `AddLogItem`, `Init`, setters, the log thread | buffers change hands; files change under the log thread; failures while a mutex is held | each line printed once and in order, files closed and below the limit | `Log` |
| `AddLogItem`'s formatting | the line's buffer, `lBufferSize`, `nPos` | format, double the room, retry, hand to the level | three lengths that nearly agree: room, text, text with prefix | no write behind the block, a level holds what was added | `LogLine` |
| `CUvTcpSvr`, `CUvPipeSvr` | listening handle, handles made for connections, their memory | `Listen`, `ConnCb`, `AllocTcpCli`, `FreeTcpCli`, `OnAccept` refused or not | `uv_close` ends later, memory goes back at once | every open handle has an owner; closing memory is nobody else's | `UvTcpSvr` |
| `CSingleton` | the pointer | `Instance` | double-checked locking on a plain pointer | one object, seen whole | `Singleton` |
| `CRandTool` | 624 words, `mti`, the seed; no lock | `SetSeed`, `RandInt`, `RandFloat` | regeneration in place; a seed that `mti` does not know of; calls that overlap | numbers of one sequence, in order, in the range | `RandTool` |
| `util`: `make_dir`, `make_dirs` | the file system | test, `mkdir`, next level | several makers of one path | who is told the path is there is right | `MakeDirs` |
| wrappers, strings, JSON, OpenSSL, vendored code | - | - | - | - | not modelled (section 7) |

`PROJECT.json` lists all components, and under `hazards` the lines where
things could go wrong that a test would hardly reach, with the properties that
would notice.

## 2. From code to model

A thread is a program counter (`dpc`, `wpc`, `cpc`, `lpc`, ...). One action is
what the code does between two points where another thread can come between:
one critical section, one signal or trigger, one unlocked access to a field
others write. Where a critical section tests something and acts on it by a call
that others can get in the way of, its steps are kept apart and its mutex is a variable. Code after the last such point of a function belongs to the
action before it. Locks taken and released inside one action do not appear;
those that are held across steps do (`mcMapTimerMutex` during a walk or a
timer callback, the event manager's mutex during a dispatch, `mcSendAsyncMutex` of a UDP
socket between the test of its handle and the trigger, and `mcConfMutex` of the log once
it is never released).

Data is reduced to what the properties tell apart:

- `UvTaskPool`: a task is a model value. `refs`, `deleted` are the counters and
  the freed objects; `runs`, `dropped` and `missed` are history: how often
  `TaskExcute` ran, what `SetTask` refused, who slept after the signal for it.
  `SpuriousWakeups` says whether `uv_cond_wait` may return without a signal,
  which POSIX allows. `Init` is a step for each flag it and `Start` test or set without a
  lock (`PoolInit` ... `PoolStarted`), so that two of the `Owners` may both create a
  dispatcher. From then on (`second`) nothing more is followed: two threads would use the
  same members of one `CUvThread`. That a task is pushed once is the application's part (`Fresh`).
- `UvLoop`: a call of `CallUv` is a model value, `CbOf` its object, so one object
  may be passed twice. libuv's handle is `asyncInit` and `pending`. The destructor is
  three steps: the pointer is cleared (`Destroy`), the queue and its mutex are
  destroyed (`DestroyMembers`), the thread is joined (`Joined`); a thread that uses them
  in between crashes or goes on with what the memory holds (`TouchDestroyed`).
- `UvTcpCli`: bytes are numbered in the order `Send` accepts them; a buffer or a
  request is an interval. `wire` is the last byte the peer has. User callbacks
  are states of the loop thread in which it may call `Send` and `Close`. After a failed
  attempt `Connect` may be called again, on the handle as it was left or once it
  is closed; one that comes too soon stops at an assertion of libuv (`ConnectTooSoon`).
  `UvPipeCli` extends it: the two classes' handlers are line for line the same,
  except that `uv_pipe_connect` returns nothing. One run covers both.
- `UvUdp`: packets likewise. `ClosingRead` is what `uv_is_closing((uv_handle_t*)&mpUdp)`
  reads: the address of the pointer is passed, not the handle, so the answer
  is a bit of the object's own memory, at the offset of the handle's flags; in
  64-bit builds it is not set. `Send` tests the async handle and triggers it in two steps
  (`SendNotify`, `SendTrigger`). Before a `Start` has come to the end the handle is memory
  nobody has written, which `Send` and `Close` read: they take it for inactive, or
  crash (`SendNotifyTooEarly`, `CloseTooEarly`). A request freed by `Close` and called
  back later may be as it was, cleared by who had the memory since, or worse (`SendCb`).
- `UvTimer`: a timer is its address, as the map is ordered by address and memory
  is used again. Stepping past `end()` is undefined; the model lets the walk
  hang (on an empty map, whose end is its own successor) or go on anywhere.
  A freed handle the loop still closes may bring the program down (`crashed`). If
  `uv_loop_init` fails the thread ends (`LoopInitFails`).
- `UvFile`: `TypeOf` is the type the `uv_fs_` function each method calls gives the
  request, `CaseOf` the handler in each case of `FsOperCb`; they are written down from the two
  places in the code, and the property compares the outcome with the handler's
  name. Nothing in the code keeps a method from using a request libuv still has, and nothing
  does in the model: the request is then `tangled`, may be called back any number of times
  with the type it has by then, tangle what else is queued, or end the program.
- `MemMgr`: a block is an address with its size and header; contents are left out.
  A `malloc` of length 0 returns `NULL` and changes nothing; a `realloc` to length 0 is a
  free. `DoRealloc` of `NULL` has no step: its only caller is `CMemBuffer`, which
  allocates before it reallocates.
- `MemBuffer`: lengths only; `alloc` is the block's length, `reach` where the
  latest write ended.
- `LogLine`: extends `MemBuffer`; follows one line, by the lengths of its time prefix
  and of its text, from `AddLogItem` to the buffer of its level.
- `MakeDirs`: the levels of one path; levels `1..made` exist, one of them may be a
  link, and the operating system allows those up to `allowed`.
- `LogBase` composes the three the log is built on: `MemBuffer`, `LogLine`, `MakeDirs`.
- `UvTcpSvr`: a handle is a block of `CMemMgr` (`owner`) and what libuv takes it for
  (`handle`); `EndIteration` is where libuv calls the close callbacks. `svrKind` says
  which server. `Sockets` composes it with `UvUdp`.
- `Singleton`: the pointer and the object are two variables, set in either order if
  `StoresReordered`.
- `RandTool`: extends `Singleton`, as every user gets the generator from it. A word is
  its place in the sequence of its seed; the recurrence is three places that have
  to fit. `expect` is the word after the last one drawn, whatever block that came
  from; after `SetSeed`, and before the first, there is none. `RandInt`'s arithmetic is in words of `w` bits (`W` = 2^w).
- `Singletons` composes it with `EventMgr`, which is reached the same way.
- `EventMgr`: a registration is a (name, listener) pair; `snapshot` and `delivered`
  are history of a dispatch.
- `Log`: a line is its number at its level and has size one; a `FILE*` is its
  number, with a `name` that two files opened in one second share. `fwrite` may write a
  part, after which the loop repeats the beginning and leaves out the end (`Output`), or
  nothing, after which it never ends (`WriteStuck`); `lost` has the lines of such batches.

History variables never enable or disable an action.

Code outside the library is modelled by the use made of it: `uv_run`
(one callback at a time), `uv_async_*`, `uv_write`, `uv_udp_send`, `uv_close`,
`uv_fs_*`, `malloc`. These definitions are marked external in `PROJECT.json`.

A definition introduced by a comment "Mutant:" is a faulty variant of the one
below it. No
specification uses it: it is a mistake somebody could make in that code, and
substituted for the definition it makes TLC find one of the properties violated, which shows that the property depends on the code being right there.

Each module has one type invariant, `TypeOK`, or `MemTypeOK`, `FileTypeOK` and so on
where a proof needs two modules together. Except in the task pool it is
checked as the first conjunct of the module's main invariant.

## 3. Runs

| run | module | shows |
|---|---|---|
| `task_pool` | `MCUvTaskPool` | Exact counters, no use of a deleted task, idle threads without task, a sleeper beside work only after a missed signal, refinement of `TaskService`, with `Init` racing `Init`, `UnInit` and thread creation that may fail. |
| `task_pool_live` | `MCUvTaskPool` | Every task queued in a pool whose dispatcher was created is run, unless a signal was missed or a second dispatcher created. |
| `task_pool_spurious` | `MCUvTaskPool` | With waits that return without a signal: still no task runs twice or on two threads, and only tasks `SetTask` refused are deleted unrun. |
| `task_pool_assert` | `MCUvTaskPool` | With such waits the assertion at `UvTaskThread.cpp:29` fails (see 6). Expected violation. |
| `loop` | `MCUvLoop` | Counters of callback objects, no call stranded, refinement of `CallQueue`, calls run by a loop that goes on, and what the destructor does to the loop's thread. Files: every operation accepted is answered by the handler named for its method, unless it is `Lstat` or two overlap on one object. |
| `clients` | `MCUvPipeCli` | A TCP or a pipe client: byte order, byte counts, no stranded data, requests freed, triggers only while established, buffer drained, closing completes. |
| `timer` | `MCUvTimer` | Deleted timers silent, new timers seen by a walk, added timers started, with the exceptions named there. |
| `mem_mgr` | `MCMemMgr` | One owner per block, block fits, counters agree, no more blocks than were once wanted. |
| `log` | `MCLog` | Lines printed once and in order, files closed, files below the limit, accepted lines printed themselves, with the four exceptions named there. |
| `sockets` | `MCSockets` | UDP: requests exact and ordered, no packet stranded, a thread about to trigger has an active handle, closing completes. Servers: every open handle has an owner, closing memory is somebody else's only after `FreeTcpCli`. |
| `base` | `MCBase` | One instance whichever thread asks first; the event manager's counters, registered listeners only, one state per dispatch, dispatches end unless a listener calls back; the generator's numbers in order and in range. What the log is built on: content and the byte behind it fit the block; lines whole but for the one case named there; directories made by several makers at once. |
| `seed` | `MCSingletons` | A seed set before the first number is reported by `GetSeed` and not used (see 6). Expected violation. |

In the runs `loop`, `clients`, `sockets` and `base` a behaviour concerns one of several
components, chosen at the start: they do not work on each other's state. `MCUvLoop` composes
`UvLoop` with `UvFile`, whose operations a loop calls back, `MCBase` composes `Singletons` with
`LogBase`; `clients` and `sockets` have modules of their own for that (`UvPipeCli`, `Sockets`).

Several properties are conjunctions under one name, their parts defined above
them in the modules: `TasksSafe` (`RefCountExact`, `NoUseAfterFree`, `IdleThreadHasNoTask`),
`RunsOnce` (a task runs at most once and is not deleted unrun unless refused),
`WritesAccounted` (`BytesAccounted`, `RequestsFreed`), `BlocksSafe` (one place, fits),
`FilesKept` (files closed, below the limit).

Bounds, and why they are enough to see what the properties are about:

- `task_pool`: 2 clients, 3 tasks, 2 task threads. Two clients make two pushes
  race; with three tasks one is queued, one handed over, one running; two
  threads make the pool choose and create. `NewTaskThread` is enabled as long as
  a `Workers` member is unused, as the code would create without limit: when
  there is none, the dispatcher waits for an idle thread. Both clients call `Init`.
  `_spurious` has a third thread, so that one may be created while two are wrongly idle;
  `_live` has two tasks, one of which is under way when the other is queued.
- `loop`: 2 callers and calls from callbacks, 3 calls, two of them with one object
  its user holds; run modes default and once (nowait is once for this code). The loop may be destroyed
  at any time.
- `clients`: 3 bytes: one in flight, one in the next request, one in the buffer.
  One sending thread besides the loop's own `Send`s: `Send` holds the mutex for
  the whole of the part that changes state, so a second one adds no step.
- `timer`: 2 clients, 4 addresses: the walk's step over an erased element needs an
  element before, the erased one, the skipped one and one behind. The number
  of `AddTimer` calls is not bounded; addresses are used again.
- `mem_mgr`: 2 threads, 3 blocks, 12 bytes in all (`MaxMalloc`). Alignment and limit
  are 4 instead of 1024 and the header 1 instead of 20, so that length 3 is small, and
  4 and 8 are large and of two size classes; after `SetAllocMinLimit` 3 is large too. 12
  bytes are one block of each large class. 3 blocks: two threads may hold one each
  with one kept in a queue.
- `log`: one logging and one configuring thread, 2 levels, 2 lines, 2 files, a limit
  of one line, so every line asks for a new file; short writes and writes of nothing happen;
  two files in one second do not (`SameSecond`), as the exception for them is in
  the property.
- `sockets`: 2 senders, 5 packets; 3 blocks of memory, so that one may be closing, one
  in the server's hands and one with another thread.
- `base`, singletons: 2 threads, 2 names, 2 listeners; 2 users of `Instance`; a generator of 3
  words with distance 2 instead of 624 and 397, drawn from up to place 8, which is
  three regenerations, so that a word is made of words of each age; words of 3
  bits for `RandInt`, whose every pair of arguments and every word is tried.
- `base`, what the log is built on: a default length of 2 instead of 1024, lengths 0, 1, 2 and 5 around it,
  content up to 8 bytes: three growths. First room for a line of 4 instead of 6144,
  prefixes 0 and 2, texts on both sides of the room, of the room less the prefix,
  and of the doubled rooms. 3 makers of a path of 3 levels.
- `loop`, files: 2 objects, all 23 methods on one, an operation with and one without a handler
  on the other, any number of them: no bound.
- `seed`: as `base`, the generator; the violation takes one thread and one seed.

`MaxSend`, `MaxPackets`, `MaxLines`, `MaxFiles`, `MaxMalloc`, `MaxLen`, `MaxLevel` and `MaxAt`
bound counters that grow for ever in the program; each is named in
the guard of the action that counts, and stops only the environment, never the
library. Deadlock checking is off in all runs: when the users have made the
calls the bounds allow, and nothing is left to do, every thread waits for
input, which is how the program rests. That threads do not wait with work left
is what the stranding and liveness properties say.

Symmetry is used only in the runs without liveness properties.

## 4. Fairness

- A thread that is in a handler or a call, and could go on, does (weak
  fairness of the disjunction of its steps): the scheduler of the system runs
  it. User callbacks return, unless the model lets them block on a mutex of
  their own thread.
- `uv_run` goes through all handles in every iteration, so an event that is
  ready again and again (a triggered handle, a finished write, a closing
  handle) is served: strong fairness for each of them, since another callback
  may run in between.
- A connection attempt ends, a UDP request is called back, libuv's pool threads
  work.
- Nobody outside is obliged to anything: no fairness for clients starting a
  call, for the peer reading, for `Close` or `Destroy`.

Liveness properties therefore name, as an alternative, each way the code
really has to stop: a missed signal (`missed`), a trigger sent before the handle
was initialised (`early`), a thread blocked on itself (`hung`), undefined
behaviour that may end the program (`crashed`, `Tangled`, `second`), a mutex never
released (`confLocked`), a write that is repeated for ever (`spinning`). Those alternatives are reachable in the runs.

## 5. Proofs

Eight modules hold proofs; each theorem is about every value of the constants
that the named assumptions allow. The general plan is the same: an inductive
invariant, checked by TLC on an instance first; a lemma for each action
that changes what the invariant speaks of, and one for those that do not; the
checked property as a consequence.

| module | proves about |
|---|---|
| `DataLemmas` | queues, images of functions, least numbers, finite sets, sums over a set |
| `UvTaskPoolProofs` | `UvTaskPool` and its refinement of `TaskService` |
| `UvLoopProofs` | `UvLoop` and its refinement of `CallQueue` |
| `UvPipeCliProofs` | `UvTcpCli`, `UvPipeCli` |
| `SocketsProofs` | `UvUdp`, `UvTcpSvr` |
| `UvTimerProofs` | `UvTimer` |
| `SingletonsProofs` | `Singleton`, `EventMgr`, `RandTool`, `MemMgr` |
| `LogProofs` | `Log`, `LogLine`, `MemBuffer`, `MakeDirs` |

### Facts about data

Several properties speak of sums: the bytes of a map, the sizes of all blocks, the
lines of all levels. They are `SumFunctionOnSet` of the community modules, a fold
that is defined by recursion on the set. The induction theorems of the library take
an operator and cannot be used here, so `DataLemmas` states induction with a
set in the place of the operator: a set of numbers that has 0 and is closed under
successor has all of them (`NatSetInduction`), and a set of subsets of a finite set that has
the empty one and is closed under adding an element has the whole (`FiniteSetInduction`).
From there follow the facts the proofs use: a sum is a number; it
changes by the difference when one element's value does; it does not change when
no value does; it grows by what an element that is added has.

### The task pool

`UvTaskPoolProofs` proves, for any number of clients, tasks and task threads:

| theorem | statement |
|---|---|
| `TypeCorrect` | `Spec => [](TypeOK /\ LocalsInv)` |
| `InvCorrect` | `~SpuriousWakeups => (Spec => []IInv)` |
| `TasksSafeCorrect`, `AsleepCorrect` | the same for the invariants the run `task_pool` checks |
| `ServiceCorrect` | `~SpuriousWakeups => (Spec => ImplementsTaskService)` |
| `RunsOnceCorrect` | `Spec => []RunsOnce` |

Assumptions: `NullAssumption` (`NULL` is no task or thread), `PoolAssumption` (the name
of the dispatcher among the sleepers is no task thread), and, for all but the
first and the last theorem, `~SpuriousWakeups`. It is needed: with spurious returns
the assertion of `SetTask` fails (run `task_pool_assert`), and the reference
counts and the refinement fail with it.

None of the four invariants is inductive. `RefCountExact` needs to know that a
task is in one place, or a push would count two references for one queue; that
needs the program counters of the task threads, and so on. The inductive
invariant is

    IInv == TypeOK /\ LocalsInv /\ ThreadInv /\ PlaceInv /\ LifeInv
            /\ RefCountExact /\ SleepInv

- `LocalsInv`: the dispatcher's `pTask` and `pTaskThread` and a client's argument are
  set exactly between their assignment and their last use;
- `ThreadInv`: what a task thread's position says of its `mpTask`: one in the idle
  set waits without a task and is not being handed one; one that waits with a
  task missed its signal or is about to get it;
- `PlaceInv`: a task is with its client, once in the queue, with the dispatcher, or
  with one thread, and has run exactly if its thread is past `TaskExcute`;
- `LifeInv`: what is pushed is new and is pushed by one client, what has run is
  referenced or deleted, what is deleted is not referenced;
- `SleepInv`: the dispatcher sleeps on work only if a signal was missed or comes.

There is one lemma for each thread's steps (`ClientStep`, `DispatchStep`,
`HandOverStep`, `WorkerStep`, `OtherStep`) with one step per action and one per
conjunct. `InvSafe` derives the checked invariants. `ServiceStep` shows that a
step that satisfies `IInv` before it is a step of `TaskService` or leaves its
variables alone. `DataLemmas` has the facts about queues without duplicates
(membership and injectivity after `Append` and `Tail`) the proof needs.

`RunsOnceCorrect` is about waits that return whenever they like, and needs an
invariant of its own, as `RefCountExact`, `ThreadInv` and `NoUseAfterFree` then fail: a
thread may be in the idle set and at work, and may run and release a task
before the dispatcher has counted the thread's reference, so that the task is
deleted and counted afterwards.

    SInv == TypeOK /\ LocalsInv /\ LiveCountsExact /\ GivenInv /\ OnceInv /\ NewInv

- `LiveCountsExact`: the counters are exact for the tasks that are not deleted, which is
  enough to know that what is not referenced is new;
- `GivenInv`: a thread past `TaskExcute` has run its task, one before it has not; what is
  released while the dispatcher is between assignment and `REF` is deleted;
- `OnceInv`: a task is in one place; once handed over it has run, was refused, or is
  still with the thread; what has run is deleted or referenced, so it is not
  handed out again;
- `NewInv`: what is pushed is new and is pushed by one client.

`SClientStep`, `SDispatchStep` and `SWorkerStep` are the steps that move a task;
`QuietStep` covers the others (`SOtherStep`), the spurious returns among them.

### The loop

`UvLoopProofs` proves, for any number of callers, calls and callback objects, any
run mode, and whenever the loop is started and destroyed:

| theorem | statement |
|---|---|
| `InvCorrect` | `Spec => []IInv` |
| `RefCountCorrect`, `NoStrandedCorrect`, `DestructorCorrect` | `Spec => []RefCountExact` (with `TypeOK`), `Spec => []NoStrandedCall`, `Spec => []DestructorFate` |
| `QueueCorrect` | `Spec => ImplementsCallQueue` |

Assumptions: those of the module. `HeldAssumption` says what a user of `CallUv`
has to do: an object passed more than once is kept alive by a reference of his
own, as the loop deletes it after the first call otherwise.

    IInv == LocalsInv /\ PlaceInv /\ WakeInv /\ LifeInv /\ RefCountExact

- `LocalsInv`: `UvCb` leaves its local queue empty, so taking the next batch
  overwrites nothing, which both the refinement and the counters need;
- `PlaceInv`: a call is with one thread, once in one of the two queues (`Waiting`), or
  called; without it `UNREF` could take away a reference another entry holds;
- `WakeInv`: `NoStrandedCall`, and what is true before the handle is initialised: all
  that is queued was sent too early or is about to be sent;
- `LifeInv`: a deleted object is one whose only call has been made.

There is a lemma for each action that moves a call (`AssertStep`, `PushStep`, `SendStep`,
`TakeStep`, `CallBackStep`, `UnrefStep`) and one for the rest (`OtherStep`). The
counters are cardinalities: a step adds one element to a set of calls, takes
one away, or leaves the sets as they are.

### The clients

`UvPipeCliProofs` proves, for clients of both classes, any number of sending threads
and any number of bytes:

| theorem | statement |
|---|---|
| `CliInvCorrect` | `CliSpec => []CliInv` |
| `WireInOrderCorrect`, `NoStrandedDataCorrect`, `RequestsFreedCorrect` | `CliSpec => []WireInOrder`, and so on |
| `WritesAccountedCorrect` | `CliSpec => []WritesAccounted` |
| `TriggerCorrect` | `CliSpec => TriggerOnlyAlive` |

`CliIsNext` shows that each step of a pipe's client is one of `UvTcpCli`'s, so that the
proofs are about `UvTcpCli` alone. The only assumption added is `NullAssumption` (no
buffer is `NULL`).

    CliInv == TypeOK /\ ConnSafe /\ ChunksSafe /\ NoGap /\ MapSafe /\ NoStrandedData

- `ConnSafe`: what the state of the object says of the two handles; an established
  connection has both open. `TriggerOnlyAlive` follows from it;
- `ChunksSafe`: the requests in flight and the buffer are disjoint, ordered, behind the
  last byte written and not beyond the last one accepted. `WireInOrder` speaks of
  neighbours only, which is not enough when a request in between ends;
- `NoGap`: if no write failed, each chunk begins where the one before it ends;
- `MapSafe`: the map holds the requests in flight and those refused, which are
  different: otherwise a callback could remove a refused one.

`WritesAccounted` needs `BytesInv` besides: the map is finite, so that its bytes have a sum,
and the two counters, one of the sending threads and one of the loop, differ by that
sum and the buffer. A write that ends takes its request out of the sum and adds as much
to the bytes sent; a flush moves the buffer into it.

### The sockets

`SocketsProofs` proves `RequestsExact`, `TriggerOnlyActive` and `HandlesAccounted` of `SockSpec`, and
`NoStrandedPacket` under `ASSUME ClosingRead = {FALSE}`: if the closing test of `DoSend` could
read true on a live socket (see section 2) packets would wait for nothing.

    SockInv == UdpSafe /\ SvrSafe

`TriggerOnlyActive` is about a thread that has tested the async handle and not yet triggered
it. It is inductive only with `mcSendAsyncMutex`: whoever is between the two steps has the
mutex, and every step of `Close` and `Start` that changes the handle needs it.

`UdpSafe` orders the requests libuv has (`Ordered`), keeps those of the map apart from each
other (`Apart`) and behind what the queue holds, and says of each what it holds
(`RequestSafe`, `KeptSafe`); `RequestsExact` alone is not inductive, as `SendCb` looks a
request up in a map it has to be alone in. `SvrSafe` adds to `HandlesAccounted` that only
`ConnCb` has a handle in hand, open and the server's.

### The timer

`UvTimerProofs` proves `DeletedIsSilent` and `NewTimerIsSeen` of `Spec` for any number of clients
and addresses. The invariant adds to the two that a client has a timer in hand
exactly while it adds one, that a trigger is pending only once the handle is
initialised (`AsyncSafe`), and that a callback has a timer. The walk's next element is
the least address above the one it is at (`LeastAddress`); a timer it has not met is
either ahead of it or has a trigger to come.

### The singletons

`SingletonsProofs` proves `OneInstance`, `ListenersSafe`, `StreamInOrder` and `RandIntInRange` of
`ClsSpec`.

    ClsInv == InstanceInv /\ EventInv /\ RandInv

- `InstanceInv`: one thread is behind the second test (`OneInLock`), and only it can have
  made an object whose pointer is not set; a thread about to make one knows
  that there is none;
- `EventInv`: the registrations are finite, so that adding or removing one changes a
  counter by one; a deleted listener has none;
- `RandInv`: while no two calls have overlapped, at most one thread is in a call, and
  what it has done says how far the block is regenerated or seeded: the words before `kk`
  are those of the next block, the others those of this one, and the next word to be
  drawn is the one after the last unless a seed was set since. `StreamInOrder` says
  nothing of a block while it is made, so it is far from inductive. The size of
  the block, the distance of the recurrence and `MaxAt` are arbitrary.

`RandIntInRange` is arithmetic: for a range of `k` numbers, `k` less than half of the
words, the high word of `r * k` is below `k`, and is `v` for the least `r` with `r * k >= v * W`
(`OffsetBelow`, `OffsetOf`). The solvers do not decide products of two variables, so the
lemmas before it (`TimesMonotonic`, `Quotient`) reduce each step to linear arithmetic. The
only assumption is that there are words, `W > 0`; that `W` is a power of two is not used.

### The allocator

The same module proves `BlocksSafe`, `Accounted` and `NothingHoarded` of `MemSpec`, for any
number of threads and blocks, any lengths, any alignment and limit the setters are
called with, and every interleaving of the critical sections.

    MemIInv == PlaceInv /\ retuned \in BOOLEAN /\ peak \in [Indexes -> Nat]
               /\ SizeInv /\ Accounted /\ HoardInv

- `PlaceInv`: a block is with one caller (`live`), once in one queue (`Kept`), or in one call
  (`Held`). A call that has popped a block or is about to push it has it in a local
  variable only, so without `Held` nothing keeps a second thread from it;
- `SizeInv`: the size in a block's header is the small limit or that of an index
  in the map, so that the queue it is freed to is there and is the one of its size; a
  call that is past the look-up knows the size of what it will get;
- `Accounted`: the property itself, three sums over all blocks and all calls; each step moves
  one block or one call between the terms, and `DataLemmas` says what that does to a sum;
- `HoardInv`: the blocks there and the calls that missed the queue and will malloc one
  (`Missed`) are together no more than were once in use or asked for. The property
  speaks of the blocks alone, and a miss would break it.

Assumptions: blocks and threads are finite sets (`FiniteAssumption`), as sums and
cardinalities have no meaning otherwise; lengths and the header are positive.
What holds only until `SetAlign` or `SetAllocMinLimit` is called after the first
allocation says so by `retuned`, as in the run.

### The log

`LogProofs` proves `PrintedInOrder` and `FilesKept` of `Log`'s `Spec`, for any number of
clients, lines, levels and files, and any limit of a file's size.

    LogIInv == TypeOK /\ ClientInv /\ ThreadInv /\ Whole /\ HandleInv /\ SizeBound

- `Whole`: what is printed, what the log thread has taken and what waits in the
  map are, in this order, all lines accepted at the level, as long as none of its
  batches was written short. `PrintedInOrder` speaks of
  what is printed; the swap of the buffers keeps the whole;
- `HandleInv`: a file that was opened is pending with exactly one thread between `GetFile`'s
  two parts, is the current one, or is closed. It takes all three, as the
  log thread and a client may both have one pending;
- `SizeBound`: while no two files share a name and none was left for the screen, the
  current file is no larger than the count `Check` compares with the limit, and
  below the limit whenever the log thread is not about to change it.

The number of lines accepted at all levels, which the bound of the model limits, is
a sum and uses `DataLemmas` (`AcceptedBound`).

### What the log is built on

`LogProofs` proves `WritesFit`, `LinesWhole` and `DirsMade` of `BaseSpec`. `WritesFit` is its own
inductive invariant; what has to be shown is that the three rules of growth
(`Append`'s, the one for a first block, `AllocBuffer`'s) each keep the block one byte
longer than the capacity. `LinesWhole` needs the room of the line at each place of
`AddLogItem` (`LineInv`): the sum of every `lBufferSize` asked for, as `AllocBuffer` adds to the
room there is. `DirsMade` needs that as long as the path can be made some maker is on
its way to the end: who makes a level goes on to the next, and one that fails
there has lost it to another (`DirInv`). The bounds `MaxLen` and `MaxLevel` only restrict behaviours
and are not used.

### Only model-checked

- all liveness (`QueuedIsRun`, `QueuedIsCalled`, `BufferDrained`, `CloseCompletes`, `AddedIsStarted`,
  `AcceptedIsPrinted`, `UdpCloseCompletes`, `DispatchEnds`, `OperationAnswered`): fairness and
  `ENABLED` are out of the prover's reach;
- that with spurious returns of the waits the assertion of `SetTask` fails, which is
  a counterexample.

## 6. What the checks say about the code

Two code bugs, each shown by a run that ends in a violation.

A failing assertion: `SetTask` asserts that the thread it is given has no task
(`UvTaskThread.cpp:29`). When `Wait()` returns without a signal, the thread enters
the idle set again although it is there, or although it has just been handed
a task; the pool then picks it a second time, the assertion fails, the
result is not looked at (`UvTaskPool.cpp:85,88`) and the task is deleted unrun.
With waits that return only on signals the assertion is proved to hold.

A seed without effect: `SetSeed` fills the block and stores the seed, which `GetSeed`
then reports, but leaves `mti` at the mark of a generator not yet used. The first number drawn
finds the mark and seeds the block again with 5489 (`RandTool.cpp:18-20,56-57`), so a seed set
before the first number has no effect on any number (run `seed`). One set later is
used, from the place the block had reached.

Behaviours the properties name as exceptions, since no text in the repository
promises otherwise:

- a signal to a pool or task thread that has decided to wait and does not wait
  yet is lost; the work stays until the next push (`UvTaskPool.cpp:29`, `UvTaskThread.cpp:15`);
- `CallUv` before `StartLoop`, `AddTimer` before the timer thread has initialised its
  handle: the trigger is lost (`UvLoop.cpp:30`, `UvTimer.cpp:106`);
- a connection that came by `SetTcpCli` never sends by itself what was buffered
  before `AfterAccept` (`UvTcpCli.cpp:58-64`);
- the timer walk skips the element behind an erased one and may pass the end
  (`UvTimer.cpp:83`); a timer callback that adds or deletes a timer blocks, as
  does a listener that calls the event manager;
- `SetLogPath` returns with `mcConfMutex` locked when `make_dirs` fails (`Log.cpp:125`);
  it closes the file the log thread may be writing to (`Log.cpp:138`); a
  short write prints the beginning of a batch twice and not its end, and one that writes
  nothing is repeated for ever, as the error is tested as a `size_t` below 0
  (`Log.cpp:246-255`);
- two calls of `Init` at once, or one after an `UnInit` that came before the thread had set
  its flag, create a second dispatcher (`UvTaskPool.cpp:13`, `UvThread.cpp:17,25`);
- a `Connect` from `OnConn` of a failed attempt, or before the handle is closed, stops at
  an assertion of libuv, and nothing reports when it is closed (`UvTcpCli.cpp:84-85`);
- two calls of the generator that overlap may draw one word twice, mix two blocks,
  and leave `mti` at 625, the mark of a generator not yet used (`RandTool.cpp:42-81`);
- `CSingleton` may return an object that is not built yet, where the build or the
  processor reorders its stores (`singleton.h:55-69`);
- `FreeTcpCli` gives the memory of a closing handle back at once, so another thread
  may get it, and clear it, while libuv has it on its list (`UvTcpSvr.cpp:17-22`); the
  pipe's server leaves the handle open when `uv_accept` fails, and calls `free` for
  memory of `CMemMgr` when the connection is refused (`UvPipeSvr.cpp:46-63`);
- a line whose text, with its prefix, outgrows the first room by no more than the
  prefix is cut and its length refused: its level gets nothing of it if it is
  the first, and bytes behind its end otherwise (`Log.cpp:164-206`);
- `make_dirs` reports failure to a maker that loses a level to another one, and for a
  path with a symbolic link in it (`util.cpp:583-650`);
- the destructor of `CUvLoop` brings the program down when the loop's thread is in a
  callback or comes to use the queue, destroyed before the join, and waits for ever for a loop in the default mode that polls
  (`UvLoop.cpp:20-25,60`);
- `CUvUdp::Close` frees requests libuv still has (`UvUdp.cpp:178`); before `Start` has come
  to its end `Send` and `Close` ask an async handle nobody has initialised whether it is
  active (`UvUdp.cpp:54,172`); a `Start` that could not bind and is called again puts the
  handle in libuv's list twice (`UvUdp.cpp:122`);
- a request `uv_write` or `uv_udp_send` refuses stays until the object goes;
- `Lstat` is never answered (`UvFile.cpp:409`); a method called on a request libuv still
  has leaves it nothing to promise (`UvFile.cpp:256`);
- `SetAlign` after the first allocation changes the meaning of stored sizes
  (`MemMgr.cpp:28`).

## 7. Not modelled

- `CUvSem`, `CUvRwLock`, `CUvBarrier`, `CUvDl`, the base classes, `CCoreMgr`, `CMemOper`, `CGuidTool`: wrappers
  of one call each, or setters; a model would restate libuv.
- `CUvUtil`: each function asks libuv once. The loops that would ask again with a
  larger buffer test an `iRet` that an inner declaration of the same name hides, so
  they never do.
- The rest of `util`: strings, paths, the clock, without state.
- `CConfig`, `CJsonReadHandler`: read a file when the program starts.
- The OpenSSL wrappers: straight-line calls on a buffer of the call's own, with no
  state between calls. Reading them shows some that cannot work for any input:
  `DesEncode` and `DesDecode` set the length of their result before there is room for
  it, which `SetBuffLen` refuses.
- `CUvTimer::UnInit`: no caller; it closes the handle from another thread than the
  loop's, to which libuv gives no meaning.
- `CUvPipeSvr::DoConn` and `FreePipeCli`: no caller.
- The copy constructor of `CMemBuffer`, which frees an uninitialised pointer.
- What two dispatchers of one pool do to each other, a task thread that cannot be created
  (`UvTaskPool.cpp:87`), and a `Connect` after `Close`.
- `CUvFile` composed with a derived class: the repository has none, so that who
  allocates `mpFsReq`, and when, is left to any order.
- Text: addresses, file contents, the wording of the log.
- Vendored libuv, OpenSSL, rapidjson and uuid headers. They are some 100 000 of the
  lines under `src`; the library's own code is about 5 900, and the models
  translate most of what in it has behaviour over time.

## 8. Plan

Done, in the order of what carries most behaviour: task pool with its abstract
service, loop with its abstract queue, clients, timer, UDP, files, allocator,
buffer, events, log; then the servers, the singleton, the generator, the
formatting of lines, the directories and the loop's destructor; proofs as in
section 5.

Left:

1. `Log` composed with `LogLine`, so that one module has both threads and lengths;
2. the safety parts the liveness properties rest on, as lemmas (a queued task or
   call always enables a step of a thread that is fair).

## 9. Running

    tlc -workers 2 -config MCUvLoop.cfg MCUvLoop        # a run: its cfg, its module
    tlapm UvTaskPoolProofs.tla                          # proofs, likewise the other *Proofs modules

Each run takes between a second and about two minutes on two workers.
