----------------------------- MODULE MemBuffer ------------------------------
(***************************************************************************)
(* CMemBuffer: the growing byte buffer behind Send and AddLogItem.  Only   *)
(* lengths are modelled; alloc is the length the block of mpBuffer was     *)
(* asked for, 0 when there is none.  A buffer has no lock: its user does.  *)
(***************************************************************************)
EXTENDS Integers

CONSTANTS
    Buffers,
    Lens,                    \* lengths users pass
    MEM_BUFFER_DEFAULT_LEN,
    MaxLen                   \* bound: length of a buffer's content

ASSUME LensAssumption == Lens \subseteq Nat
ASSUME DefaultAssumption == MEM_BUFFER_DEFAULT_LEN \in Nat \ {0}
ASSUME MaxLenAssumption == MaxLen \in Nat

VARIABLES
    alloc,
    miBufferLen, miBufferUseLen, miAppendNum,
    reach        \* history: where the latest write of the block ended

lengths == <<miBufferLen, miBufferUseLen, miAppendNum>>
bufvars == <<alloc, lengths, reach>>

Counts == [Buffers -> Nat]

BufTypeOK ==
    /\ alloc \in [Buffers -> {0} \cup {n \in Nat : n > MEM_BUFFER_DEFAULT_LEN}]
    /\ miBufferLen \in Counts /\ miBufferUseLen \in Counts /\ miAppendNum \in Counts
    /\ reach \in Counts

Zero == [b \in Buffers |-> 0]

BufInit ==
    /\ alloc = Zero /\ miBufferLen = Zero /\ miBufferUseLen = Zero
    /\ miAppendNum = Zero /\ reach = Zero

Atleast(m, n) == IF m < n THEN n ELSE m

\* The capacity of a first block for n bytes; one byte more is allocated.
FirstLen(n) == Atleast(n, MEM_BUFFER_DEFAULT_LEN)

\* Mutant: the default growth is added after the block is allocated.
GrownShort(len, appends, n) ==
    [len |-> len + MEM_BUFFER_DEFAULT_LEN * appends + n, alloc |-> len + n + 1]

\* The capacity and the block after MemRealloc in Append.
Grown(len, appends, n) ==
    LET l == len + MEM_BUFFER_DEFAULT_LEN * appends IN
    [len |-> l + n, alloc |-> l + n + 1]

\* Append of n > 0 bytes to a buffer of capacity len with use bytes in it.
DoAppend(b, len, use, appends, block, n) ==
    LET grows == n + use > len
        grown == Grown(len, appends + 1, n) IN
    /\ miBufferLen' = [miBufferLen EXCEPT ![b] = IF grows THEN grown.len ELSE len]
    /\ alloc' = [alloc EXCEPT ![b] = IF grows THEN grown.alloc ELSE block]
    /\ miAppendNum' = [miAppendNum EXCEPT ![b] = IF grows THEN appends + 1 ELSE appends]
    /\ miBufferUseLen' = [miBufferUseLen EXCEPT ![b] = use + n]
    /\ reach' = [reach EXCEPT ![b] = use + n]

AppendNew(b, n) == DoAppend(b, FirstLen(n), 0, 0, FirstLen(n) + 1, n)

BufAppend(b) ==
    \E n \in Lens :
        /\ n > 0 /\ miBufferUseLen[b] + n <= MaxLen
        /\ IF alloc[b] = 0
           THEN DoAppend(b, FirstLen(n), miBufferUseLen[b], miAppendNum[b], FirstLen(n) + 1, n)
           ELSE DoAppend(b, miBufferLen[b], miBufferUseLen[b], miAppendNum[b], alloc[b], n)

\* AllocBuffer: room for n bytes in all, to be written through GetBuffer.
DoAllocBuffer(b, n) ==
    /\ IF alloc[b] = 0
       THEN /\ miBufferLen' = [miBufferLen EXCEPT ![b] = FirstLen(n)]
            /\ alloc' = [alloc EXCEPT ![b] = FirstLen(n) + 1]
       ELSE IF n > miBufferLen[b]
       THEN /\ miBufferLen' = [miBufferLen EXCEPT ![b] = @ + n]
            /\ alloc' = [alloc EXCEPT ![b] = miBufferLen[b] + n + 1]
       ELSE UNCHANGED <<miBufferLen, alloc>>
    /\ UNCHANGED <<miBufferUseLen, miAppendNum, reach>>

AllocBuffer(b) ==
    \E n \in Lens : n > 0 /\ miBufferLen[b] < MaxLen /\ DoAllocBuffer(b, n)

\* SetBuffLen: what the user wrote through GetBuffer becomes content; a
\* length beyond the capacity is refused.
DoSetBuffLen(b, n) ==
    /\ IF n <= miBufferLen[b]
       THEN /\ miBufferUseLen' = [miBufferUseLen EXCEPT ![b] = n]
            /\ reach' = [reach EXCEPT ![b] = n]
       ELSE UNCHANGED <<miBufferUseLen, reach>>
    /\ UNCHANGED <<alloc, miBufferLen, miAppendNum>>

SetBuffLen(b) == \E n \in Lens : DoSetBuffLen(b, n)

\* AppendNul, behind the content.
AppendNul(b) ==
    /\ alloc[b] > 0
    /\ reach' = [reach EXCEPT ![b] = miBufferUseLen[b] + 1]
    /\ UNCHANGED <<alloc, lengths>>

\* The assignment operator (SetBuffer): a new block; nothing is done when
\* the other buffer is empty.
Assign(b, c) ==
    /\ b # c /\ alloc[c] > 0 /\ miBufferUseLen[c] > 0
    /\ AppendNew(b, miBufferUseLen[c])

BufNext == \E b \in Buffers :
    \/ BufAppend(b) \/ AllocBuffer(b) \/ SetBuffLen(b) \/ AppendNul(b)
    \/ \E c \in Buffers : Assign(b, c)

BufSpec == BufInit /\ [][BufNext]_bufvars

-----------------------------------------------------------------------------
(* Properties. *)

\* The capacity is the block but for one byte, the content is within it.
CapacityExact ==
    \A b \in Buffers :
        /\ alloc[b] > 0 => alloc[b] = miBufferLen[b] + 1
        /\ alloc[b] = 0 => miBufferLen[b] = 0
        /\ miBufferUseLen[b] <= miBufferLen[b]

\* Nothing is written behind the block: content and the byte AppendNul puts
\* behind it fit what MemMalloc or MemRealloc was asked for, after any mix of
\* appending, allocating and shortening (MemBuffer.cpp:76-80,87-116).
WritesFit ==
    /\ BufTypeOK /\ CapacityExact
    /\ \A b \in Buffers : reach[b] <= alloc[b]

=============================================================================
