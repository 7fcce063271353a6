------------------------------- MODULE MemMgr -------------------------------
(***************************************************************************)
(* CMemMgr, the allocator behind every MemMalloc of the library: a request *)
(* that fits the small limit is malloc'ed and free'd; a larger one is      *)
(* rounded up to a multiple of miAlign and, when freed, kept for ever in a *)
(* queue of blocks of its size.  The map of the queues, each queue, and    *)
(* the counters are under three different mutexes, so a call is several    *)
(* steps.                                                                  *)
(*                                                                         *)
(* The content of blocks is left out, and the flag that guards against     *)
(* pointers the allocator never gave out: callers pass none, and DoRealloc *)
(* gets no NULL, from which it would read a header: CMemBuffer, its only   *)
(* caller, mallocs its first block.  A malloc of length 0 does nothing.  A *)
(* call reads miAlign and miAllocMinLimit, which have no mutex, in one     *)
(* step.                                                                   *)
(***************************************************************************)
EXTENDS Integers, Sequences, FiniteSets, FiniteSetsExt

CONSTANTS
    Callers,         \* threads
    Blocks,          \* addresses malloc may return: memory is finite
    NIL,             \* NULL
    MEM_MGR_ALLOC_ALIGN, MEM_MGR_ALLOC_MIN_LIMIT, MEM_MGR_ALLOC_HEAD_LEN,
    MallocLens,      \* lengths callers ask for
    Aligns, Limits,  \* arguments of SetAlign and SetAllocMinLimit
    MaxMalloc        \* bound: bytes asked for in all

ASSUME NilAssumption == NIL \notin Blocks /\ NIL \notin Seq(Blocks)
ASSUME FiniteAssumption == IsFiniteSet(Blocks) /\ IsFiniteSet(Callers)
ASSUME AlignAssumption ==
    /\ MEM_MGR_ALLOC_ALIGN \in Nat \ {0} /\ MEM_MGR_ALLOC_MIN_LIMIT \in Nat
    /\ MEM_MGR_ALLOC_HEAD_LEN \in Nat \ {0}
    /\ MallocLens \subseteq Nat \ {0} /\ Aligns \subseteq Nat /\ Limits \subseteq Nat
ASSUME MaxMallocAssumption == MaxMalloc \in Nat

VARIABLES
    miAlign, miAllocMinLimit,
    mmapMemItems,     \* the queue of each index, NIL if not in the map
    miMapMemNums, miTotolMem, miMemItemsNum, miTotalMalloc, miTotalFree,
    heap,             \* each block: malloc'ed size (0: none), header
    live,             \* blocks in callers' hands
    call,             \* where each thread is, and its local variables
    \* history
    retuned,          \* was SetAlign or SetAllocMinLimit called late
    peak              \* most blocks of an index wanted at one time

config == <<miAlign, miAllocMinLimit>>
totals == <<miTotolMem, miMemItemsNum, miTotalMalloc, miTotalFree>>
memvars == <<config, mmapMemItems, miMapMemNums, totals, heap, live, call, retuned, peak>>

\* iNeedLen of a large request: at least one byte is always added.
Rounded(len, align) ==
    LET need == MEM_MGR_ALLOC_HEAD_LEN + len IN need + (align - (need % align))

MapIndex(len, align) == Rounded(len, align) \div align

AllAligns == Aligns \cup {MEM_MGR_ALLOC_ALIGN}
Indexes == {MapIndex(len, a) : len \in MallocLens, a \in AllAligns \ {0}}
Large(len) == MEM_MGR_ALLOC_HEAD_LEN + len > miAllocMinLimit

Idle == [pc |-> "idle", iLen |-> 0, iNeedLen |-> 0, iIndex |-> 0,
         pRet |-> NIL, old |-> NIL]

Calls ==
    [pc: {"idle", "pop", "insert", "malloc", "count", "countNew", "free", "push",
          "freecount", "uncount"},
     iLen: Nat, iNeedLen: Nat, iIndex: Nat,
     pRet: Blocks \cup {NIL}, old: Blocks \cup {NIL}]

AllocTypeOK ==
    /\ miAlign \in AllAligns /\ miAllocMinLimit \in Limits \cup {MEM_MGR_ALLOC_MIN_LIMIT}
    /\ mmapMemItems \in [Indexes -> Seq(Blocks) \cup {NIL}]
    /\ miMapMemNums \in Nat /\ miTotalMalloc \in Nat /\ miTotalFree \in Nat
    /\ miTotolMem \in Int /\ miMemItemsNum \in Int
    /\ heap \in [Blocks -> [size: Nat, iTotal: Nat, iUse: Nat]]
    /\ live \in SUBSET Blocks
    /\ call \in [Callers -> Calls]

MemTypeOK ==
    /\ AllocTypeOK
    /\ retuned \in BOOLEAN
    /\ peak \in [Indexes -> Nat]

MemInit ==
    /\ miAlign = MEM_MGR_ALLOC_ALIGN /\ miAllocMinLimit = MEM_MGR_ALLOC_MIN_LIMIT
    /\ mmapMemItems = [i \in Indexes |-> NIL]
    /\ miMapMemNums = 0 /\ miTotolMem = 0 /\ miMemItemsNum = 0
    /\ miTotalMalloc = 0 /\ miTotalFree = 0
    /\ heap = [b \in Blocks |-> [size |-> 0, iTotal |-> 0, iUse |-> 0]]
    /\ live = {}
    /\ call = [t \in Callers |-> Idle]
    /\ retuned = FALSE
    /\ peak = [i \in Indexes |-> 0]

Unused == \A b \in Blocks : heap[b].size = 0
NobodyIn == \A t \in Callers : call[t] = Idle

-----------------------------------------------------------------------------
(* Configuration. *)

SetAlign ==
    /\ \E a \in Aligns : miAlign' = IF a > MEM_MGR_ALLOC_ALIGN THEN a ELSE miAlign
    /\ retuned' = (retuned \/ ~(Unused /\ NobodyIn /\ miTotolMem = 0))
    /\ UNCHANGED <<miAllocMinLimit, mmapMemItems, miMapMemNums, totals, heap, live, call>>

SetAllocMinLimit ==
    /\ \E l \in Limits :
          miAllocMinLimit' = IF l < MEM_MGR_ALLOC_MIN_LIMIT THEN l ELSE miAllocMinLimit
    /\ retuned' = (retuned \/ ~(Unused /\ NobodyIn /\ miTotolMem = 0))
    /\ UNCHANGED <<miAlign, mmapMemItems, miMapMemNums, totals, heap, live, call>>

-----------------------------------------------------------------------------
(* DoMalloc. *)

\* Up to the lookup in the map; old is the block a DoRealloc will free.
MallocFind(t, len, old) ==
    LET i == MapIndex(len, miAlign) IN
    /\ miTotalMalloc + len <= MaxMalloc
    /\ call' = [call EXCEPT ![t] =
          IF Large(len)
          THEN [Idle EXCEPT !.pc = IF mmapMemItems[i] # NIL THEN "pop" ELSE "insert",
                            !.iLen = len, !.iNeedLen = Rounded(len, miAlign),
                            !.iIndex = i, !.old = old]
          ELSE [Idle EXCEPT !.pc = "malloc", !.iLen = len,
                            !.iNeedLen = miAllocMinLimit, !.old = old]]
    /\ UNCHANGED <<config, mmapMemItems, miMapMemNums, totals, heap, retuned>>

MemMalloc(t) ==
    /\ call[t].pc = "idle"
    /\ \E len \in MallocLens : MallocFind(t, len, NIL)
    /\ UNCHANGED live

\* Mutant: the block is read but stays in the queue.
MallocPopKeeps(t) ==
    LET que == mmapMemItems[call[t].iIndex] IN
    /\ call[t].pc = "pop"
    /\ IF que # <<>>
       THEN call' = [call EXCEPT ![t].pRet = Head(que), ![t].pc = "count"]
       ELSE call' = [call EXCEPT ![t].pc = "malloc"]
    /\ UNCHANGED <<config, mmapMemItems, miMapMemNums, totals, heap, live, retuned>>

\* Mutant: the queue is never used again.
MallocPopNever(t) ==
    /\ call[t].pc = "pop"
    /\ call' = [call EXCEPT ![t].pc = "malloc"]
    /\ UNCHANGED <<config, mmapMemItems, miMapMemNums, totals, heap, live, retuned>>

MallocPop(t) ==
    LET que == mmapMemItems[call[t].iIndex] IN
    /\ call[t].pc = "pop"
    /\ IF que # <<>>
       THEN /\ call' = [call EXCEPT ![t].pRet = Head(que), ![t].pc = "count"]
            /\ mmapMemItems' = [mmapMemItems EXCEPT ![call[t].iIndex] = Tail(que)]
       ELSE call' = [call EXCEPT ![t].pc = "malloc"] /\ UNCHANGED mmapMemItems
    /\ UNCHANGED <<config, miMapMemNums, totals, heap, live, retuned>>

\* Two threads may both have missed the index: insert leaves the first queue
\* in the map, the second is lost, and both are counted.
MallocInsert(t) ==
    /\ call[t].pc = "insert"
    /\ mmapMemItems' =
          [mmapMemItems EXCEPT ![call[t].iIndex] = IF @ = NIL THEN <<>> ELSE @]
    /\ miMapMemNums' = miMapMemNums + 1
    /\ call' = [call EXCEPT ![t].pc = "malloc"]
    /\ UNCHANGED <<config, totals, heap, live, retuned>>

\* malloc, repeated until there is memory.
MallocAlloc(t) ==
    /\ call[t].pc = "malloc"
    /\ \E b \in Blocks :
          /\ heap[b].size = 0
          /\ heap' = [heap EXCEPT ![b].size = call[t].iNeedLen]
          /\ call' = [call EXCEPT ![t].pRet = b, ![t].pc = "countNew"]
    /\ UNCHANGED <<config, mmapMemItems, miMapMemNums, totals, live, retuned>>

\* Mutant: a block from a queue is counted like a new one.
MallocCountTwice(t) ==
    LET c == call[t] IN
    /\ c.pc \in {"count", "countNew"}
    /\ miTotalMalloc' = miTotalMalloc + c.iLen
    /\ miTotolMem' = miTotolMem + c.iNeedLen
    /\ miMemItemsNum' = miMemItemsNum + 1
    /\ heap' = [heap EXCEPT ![c.pRet].iTotal = c.iNeedLen, ![c.pRet].iUse = c.iLen]
    /\ live' = live \cup {c.pRet}
    /\ call' = [call EXCEPT ![t] = IF c.old = NIL THEN Idle
                                   ELSE [Idle EXCEPT !.pc = "free", !.old = c.old]]
    /\ UNCHANGED <<config, mmapMemItems, miMapMemNums, miTotalFree, retuned>>

\* The counters and the header; the caller has the block.
MallocCount(t) ==
    LET c == call[t] IN
    /\ c.pc \in {"count", "countNew"}
    /\ miTotalMalloc' = miTotalMalloc + c.iLen
    /\ miTotolMem' = IF c.pc = "countNew" THEN miTotolMem + c.iNeedLen ELSE miTotolMem
    /\ miMemItemsNum' = IF c.pc = "countNew" THEN miMemItemsNum + 1 ELSE miMemItemsNum
    /\ heap' = [heap EXCEPT ![c.pRet].iTotal = c.iNeedLen, ![c.pRet].iUse = c.iLen]
    /\ live' = live \cup {c.pRet}
    /\ call' = [call EXCEPT ![t] = IF c.old = NIL THEN Idle
                                   ELSE [Idle EXCEPT !.pc = "free", !.old = c.old]]
    /\ UNCHANGED <<config, mmapMemItems, miMapMemNums, miTotalFree, retuned>>

-----------------------------------------------------------------------------
(* DoFree. *)

\* A block of the small size is free'd; one of another size goes to the
\* queue of its index, or is lost when the map has none or the size is no
\* multiple of miAlign.
FreeBlock(t, b) ==
    LET total == heap[b].iTotal
        i == total \div miAlign
        kept == total % miAlign = 0 /\ i \in Indexes /\ mmapMemItems[i] # NIL IN
    /\ heap' = IF total = miAllocMinLimit THEN [heap EXCEPT ![b].size = 0] ELSE heap
    /\ call' = [call EXCEPT ![t] =
          IF total = miAllocMinLimit
          THEN [Idle EXCEPT !.pc = "uncount", !.iNeedLen = total, !.iLen = heap[b].iUse]
          ELSE IF kept
          THEN [Idle EXCEPT !.pc = "push", !.iIndex = i, !.pRet = b, !.iLen = heap[b].iUse]
          ELSE Idle]
    /\ UNCHANGED <<config, mmapMemItems, miMapMemNums, totals, retuned>>

MemFree(t) ==
    /\ call[t].pc = "idle"
    /\ \E b \in live : FreeBlock(t, b) /\ live' = live \ {b}

\* DoRealloc: malloc, copy, free.  The caller keeps off the old block.  For
\* length 0 there is nothing to malloc or copy.
MemRealloc(t) ==
    /\ call[t].pc = "idle"
    /\ \E b \in live :
          /\ FreeBlock(t, b) \/ \E len \in MallocLens : MallocFind(t, len, b)
          /\ live' = live \ {b}

ReallocFree(t) ==
    /\ call[t].pc = "free"
    /\ FreeBlock(t, call[t].old)
    /\ UNCHANGED live

FreePush(t) ==
    /\ call[t].pc = "push"
    /\ mmapMemItems' = [mmapMemItems EXCEPT ![call[t].iIndex] = Append(@, call[t].pRet)]
    /\ call' = [call EXCEPT ![t].pc = "freecount", ![t].pRet = NIL]
    /\ UNCHANGED <<config, miMapMemNums, totals, heap, live, retuned>>

FreeCount(t) ==
    /\ call[t].pc = "freecount"
    /\ miTotalFree' = miTotalFree + call[t].iLen
    /\ call' = [call EXCEPT ![t] = Idle]
    /\ UNCHANGED <<config, mmapMemItems, miMapMemNums, miTotolMem, miMemItemsNum,
                   miTotalMalloc, heap, live, retuned>>

FreeUncount(t) ==
    /\ call[t].pc = "uncount"
    /\ miTotolMem' = miTotolMem - call[t].iNeedLen
    /\ miMemItemsNum' = miMemItemsNum - 1
    /\ miTotalFree' = miTotalFree + call[t].iLen
    /\ call' = [call EXCEPT ![t] = Idle]
    /\ UNCHANGED <<config, mmapMemItems, miMapMemNums, miTotalMalloc, heap, live, retuned>>

-----------------------------------------------------------------------------
DoMalloc(t) == MallocPop(t) \/ MallocInsert(t) \/ MallocAlloc(t) \/ MallocCount(t)
DoFree(t) == ReallocFree(t) \/ FreePush(t) \/ FreeCount(t) \/ FreeUncount(t)

Kept(i) == IF mmapMemItems[i] = NIL THEN {} ELSE Range(mmapMemItems[i])
Pool == UNION {Kept(i) : i \in Indexes}
OfIndex(i) == {b \in Blocks : heap[b].size > 0 /\ heap[b].size = i * miAlign}

\* Blocks of an index in use or on their way, and requests for one.
Wanted(i) ==
    Cardinality(OfIndex(i) \ Kept(i)) +
    Cardinality({t \in Callers : call[t].pc \in {"pop", "insert", "malloc"}
                                 /\ call[t].iIndex = i})

MemNext ==
    /\ \/ SetAlign \/ SetAllocMinLimit
       \/ \E t \in Callers : MemMalloc(t) \/ MemRealloc(t) \/ MemFree(t)
                             \/ DoMalloc(t) \/ DoFree(t)
    /\ peak' = [i \in Indexes |-> Max({peak[i], Wanted(i)'})]

MemSpec == MemInit /\ [][MemNext]_memvars

-----------------------------------------------------------------------------
(* Properties.  SetAlign and SetAllocMinLimit change what the sizes already *)
(* in the headers and the queues mean; where a property needs them to have *)
(* been called before the first allocation it says ~retuned.               *)

Held(t) == {call[t].pRet, call[t].old} \ {NIL}

\* A block is in one place only, and so in one caller's hands: live, on its
\* way through one call, or once in one queue, whatever the interleaving of
\* lookups, pops and pushes (MemMgr.cpp:50-64,135-146); and none is lost
\* while the sizes keep their meaning (MemMgr.cpp:152,155).
BlockInOnePlace ==
    /\ MemTypeOK
    /\ \A t \in Callers : Held(t) \cap (live \cup Pool) = {}
    /\ \A t, u \in Callers : t # u => Held(t) \cap Held(u) = {}
    /\ live \cap Pool = {}
    /\ \A i \in Indexes : mmapMemItems[i] # NIL =>
          /\ IsInjective(mmapMemItems[i])
          /\ \A j \in Indexes \ {i} : Kept(i) \cap Kept(j) = {}
    /\ ~retuned => \A b \in Blocks : heap[b].size > 0 =>
          b \in live \cup Pool \/ \E t \in Callers : b \in Held(t)

\* What a caller gets holds what it asked for: blocks are only ever reused
\* for requests that round to the same size (MemMgr.cpp:46-62,98).
BlockFits ==
    ~retuned => \A b \in live : heap[b].size >= MEM_MGR_ALLOC_HEAD_LEN + heap[b].iUse

\* A caller's block is its own and large enough, whatever it was before: the
\* queues are looked up, popped and pushed under one mutex at a time
\* (MemMgr.cpp:50-64,98,135-146).
BlocksSafe == BlockInOnePlace /\ BlockFits

\* A block just malloc'ed is counted after it is there, one free'd is
\* uncounted after it is gone.
Uncounted(b) == \E t \in Callers : call[t].pc = "countNew" /\ call[t].pRet = b
Counted(b) == heap[b].size > 0 /\ ~Uncounted(b)
Sizes == [b \in Blocks |-> IF Counted(b) THEN heap[b].size ELSE 0]
Items == [b \in Blocks |-> IF Counted(b) THEN 1 ELSE 0]
FreedSizes == [t \in Callers |-> IF call[t].pc = "uncount" THEN call[t].iNeedLen ELSE 0]
FreedItems == [t \in Callers |-> IF call[t].pc = "uncount" THEN 1 ELSE 0]

\* Bytes in use: those of live blocks, of old ones a DoRealloc has yet to
\* free, and of blocks free'd or put back and not yet counted so.
InUse == [b \in Blocks |-> IF b \in live THEN heap[b].iUse ELSE 0]
Returning ==
    [t \in Callers |->
        IF call[t].old # NIL THEN heap[call[t].old].iUse
        ELSE IF call[t].pc \in {"push", "freecount", "uncount"} THEN call[t].iLen ELSE 0]

\* The counters, each changed after the step it counts, agree with the
\* blocks once the calls under way are allowed for: no block is counted
\* twice or lost and no counter goes below zero (MemMgr.cpp:85-94,125-150).
Accounted ==
    ~retuned =>
        /\ miTotolMem = SumFunctionOnSet(Sizes, Blocks) + SumFunctionOnSet(FreedSizes, Callers)
        /\ miMemItemsNum = SumFunctionOnSet(Items, Blocks)
                           + SumFunctionOnSet(FreedItems, Callers)
        /\ miTotalMalloc - miTotalFree
               = SumFunctionOnSet(InUse, Blocks) + SumFunctionOnSet(Returning, Callers)
        /\ miTotolMem >= 0 /\ miMemItemsNum >= 0 /\ miTotalMalloc >= miTotalFree

\* Memory kept in a queue was needed at one time: no more blocks of an index
\* were malloc'ed than callers wanted at once, although a thread that missed
\* the index mallocs without looking in the queue inserted since
\* (MemMgr.cpp:58-83).
NothingHoarded ==
    ~retuned => \A i \in Indexes : Cardinality(OfIndex(i)) <= peak[i]

=============================================================================
