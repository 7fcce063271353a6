----------------------------- MODULE LogProofs ------------------------------
(***************************************************************************)
(* Proofs about the log and what it stands on: MemBuffer for any default   *)
(* length, any lengths users pass and contents of any length; AddLogItem's *)
(* line for any room, prefixes and texts; make_dirs for any number of      *)
(* makers and any depth; CLog for any threads, levels, files and sizes.    *)
(***************************************************************************)
EXTENDS Log, LogBase, DataLemmas, SequenceTheorems

\* The default growth, once for every append that grew the buffer, makes a
\* buffer longer than the default.
LEMMA GrowthNat ==
    ASSUME NEW d \in Nat, NEW k \in Nat
    PROVE  d * (k + 1) \in Nat /\ d * (k + 1) >= d
  <1>1. d * (k + 1) = d * k + d
    OBVIOUS
  <1>2. d * k \in Nat
    OBVIOUS
  <1> QED BY <1>1, <1>2

\* The block after a growth is one byte longer than the capacity, which has
\* room for what is appended.
LEMMA GrownFits ==
    ASSUME NEW len \in Nat, NEW k \in Nat \ {0}, NEW n \in Nat
    PROVE  /\ Grown(len, k, n).len \in Nat
           /\ Grown(len, k, n).len >= len + n
           /\ Grown(len, k, n).alloc = Grown(len, k, n).len + 1
           /\ Grown(len, k, n).alloc \in Nat
           /\ Grown(len, k, n).alloc > MEM_BUFFER_DEFAULT_LEN
  <1> DEFINE growth == MEM_BUFFER_DEFAULT_LEN * k
  <1>1. growth \in Nat /\ growth >= MEM_BUFFER_DEFAULT_LEN
    <2>1. k - 1 \in Nat /\ (k - 1) + 1 = k
      OBVIOUS
    <2> QED BY <2>1, GrowthNat, DefaultAssumption
  <1>2. Grown(len, k, n) = [len |-> len + growth + n, alloc |-> len + growth + n + 1]
    BY DEF Grown
  <1> HIDE DEF growth
  <1> QED BY <1>1, <1>2, DefaultAssumption

LEMMA FirstLenFits ==
    ASSUME NEW n \in Nat
    PROVE  FirstLen(n) \in Nat /\ FirstLen(n) >= n /\ FirstLen(n) >= MEM_BUFFER_DEFAULT_LEN
  BY DefaultAssumption DEF FirstLen, Atleast

\* One append, of n bytes behind use, to a buffer whose capacity and block
\* agree.
LEMMA AppendFits ==
    ASSUME WritesFit, NEW b \in Buffers,
           NEW len \in Nat, NEW use \in Nat, NEW k \in Nat, NEW n \in Nat, NEW block \in Nat,
           use <= len, block = len + 1, block > MEM_BUFFER_DEFAULT_LEN,
           DoAppend(b, len, use, k, block, n)
    PROVE  WritesFit'
  <1> USE DEF WritesFit, BufTypeOK, CapacityExact, Counts
  <1> DEFINE grown == Grown(len, k + 1, n)
             grows == n + use > len
             newLen == IF grows THEN grown.len ELSE len
             newBlock == IF grows THEN grown.alloc ELSE block
             newAppends == IF grows THEN k + 1 ELSE k
  <1>1. /\ miBufferLen' = [miBufferLen EXCEPT ![b] = newLen]
        /\ alloc' = [alloc EXCEPT ![b] = newBlock]
        /\ miAppendNum' = [miAppendNum EXCEPT ![b] = newAppends]
        /\ miBufferUseLen' = [miBufferUseLen EXCEPT ![b] = use + n]
        /\ reach' = [reach EXCEPT ![b] = use + n]
    BY DEF DoAppend
  <1>2. /\ newLen \in Nat /\ newBlock \in Nat /\ newAppends \in Nat
        /\ newBlock = newLen + 1 /\ newBlock > MEM_BUFFER_DEFAULT_LEN
        /\ use + n <= newLen
    <2>1. k + 1 \in Nat \ {0}
      OBVIOUS
    <2>2. /\ grown.len \in Nat /\ grown.len >= len + n /\ grown.alloc = grown.len + 1
          /\ grown.alloc \in Nat /\ grown.alloc > MEM_BUFFER_DEFAULT_LEN
      BY <2>1, GrownFits
    <2> HIDE DEF grown
    <2> QED BY <2>2
  <1> HIDE DEF newLen, newBlock, newAppends
  <1> QED BY <1>1, <1>2, DefaultAssumption

\* Room for n bytes, by whichever of the two rules.
LEMMA RoomFits ==
    ASSUME WritesFit, NEW b \in Buffers, NEW n \in Nat, DoAllocBuffer(b, n)
    PROVE  WritesFit'
  <1> USE DEF WritesFit, BufTypeOK, CapacityExact, Counts, DoAllocBuffer
  <1>1. FirstLen(n) \in Nat /\ FirstLen(n) >= MEM_BUFFER_DEFAULT_LEN
    BY FirstLenFits
  <1>2. CASE alloc[b] = 0
    BY <1>1, <1>2, DefaultAssumption
  <1>3. CASE alloc[b] # 0 /\ n > miBufferLen[b]
    BY <1>3, DefaultAssumption
  <1>4. CASE alloc[b] # 0 /\ ~(n > miBufferLen[b])
    BY <1>4
  <1> QED BY <1>2, <1>3, <1>4

LEMMA LengthFits ==
    ASSUME WritesFit, NEW b \in Buffers, NEW n \in Nat, DoSetBuffLen(b, n)
    PROVE  WritesFit'
  BY DEF DoSetBuffLen, WritesFit, BufTypeOK, CapacityExact, Counts

LEMMA FitsInit == BufInit => WritesFit
  BY DefaultAssumption DEF BufInit, Zero, WritesFit, BufTypeOK, CapacityExact, Counts

LEMMA FitsStep == ASSUME WritesFit, [BufNext]_bufvars PROVE WritesFit'
  <1> USE DEF WritesFit, BufTypeOK, CapacityExact, Counts
  <1>1. CASE UNCHANGED bufvars
    BY <1>1 DEF bufvars, lengths
  <1>2. ASSUME NEW b \in Buffers, BufAppend(b) PROVE WritesFit'
    <2>1. PICK n \in Lens :
             /\ n > 0
             /\ IF alloc[b] = 0
                THEN DoAppend(b, FirstLen(n), miBufferUseLen[b], miAppendNum[b],
                              FirstLen(n) + 1, n)
                ELSE DoAppend(b, miBufferLen[b], miBufferUseLen[b], miAppendNum[b], alloc[b], n)
      BY <1>2 DEF BufAppend
    <2>2. n \in Nat
      BY LensAssumption
    <2>3. CASE alloc[b] = 0
      <3>1. miBufferUseLen[b] = 0
        BY <2>3
      <3>2. /\ FirstLen(n) \in Nat /\ FirstLen(n) + 1 \in Nat /\ 0 <= FirstLen(n)
            /\ FirstLen(n) + 1 > MEM_BUFFER_DEFAULT_LEN
        BY <2>2, FirstLenFits, DefaultAssumption
      <3>3. miBufferUseLen[b] \in Nat /\ miAppendNum[b] \in Nat
        OBVIOUS
      <3>4. DoAppend(b, FirstLen(n), miBufferUseLen[b], miAppendNum[b], FirstLen(n) + 1, n)
        BY <2>1, <2>3
      <3> HIDE DEF WritesFit
      <3> QED BY <2>2, <3>1, <3>2, <3>3, <3>4, AppendFits
    <2>4. CASE alloc[b] # 0
      <3>1. /\ miBufferLen[b] \in Nat /\ miBufferUseLen[b] \in Nat /\ miAppendNum[b] \in Nat
            /\ alloc[b] \in Nat /\ alloc[b] = miBufferLen[b] + 1
            /\ alloc[b] > MEM_BUFFER_DEFAULT_LEN /\ miBufferUseLen[b] <= miBufferLen[b]
        BY <2>4
      <3>2. DoAppend(b, miBufferLen[b], miBufferUseLen[b], miAppendNum[b], alloc[b], n)
        BY <2>1, <2>4
      <3> HIDE DEF WritesFit
      <3> QED BY <2>2, <3>1, <3>2, AppendFits
    <2> QED BY <2>3, <2>4
  <1>3. ASSUME NEW b \in Buffers, AllocBuffer(b) PROVE WritesFit'
    <2> HIDE DEF WritesFit
    <2> QED BY <1>3, RoomFits, LensAssumption DEF AllocBuffer
  <1>4. ASSUME NEW b \in Buffers, SetBuffLen(b) PROVE WritesFit'
    <2> HIDE DEF WritesFit
    <2> QED BY <1>4, LengthFits, LensAssumption DEF SetBuffLen
  <1>5. ASSUME NEW b \in Buffers, AppendNul(b) PROVE WritesFit'
    BY <1>5 DEF AppendNul, lengths
  <1>6. ASSUME NEW b \in Buffers, NEW c \in Buffers, Assign(b, c) PROVE WritesFit'
    <2> DEFINE n == miBufferUseLen[c]
    <2>1. n \in Nat
      OBVIOUS
    <2>2. DoAppend(b, FirstLen(n), 0, 0, FirstLen(n) + 1, n)
      BY <1>6 DEF Assign, AppendNew
    <2>3. /\ FirstLen(n) \in Nat /\ FirstLen(n) + 1 \in Nat /\ 0 <= FirstLen(n)
          /\ FirstLen(n) + 1 > MEM_BUFFER_DEFAULT_LEN
      BY <2>1, FirstLenFits, DefaultAssumption
    <2> HIDE DEF WritesFit, n
    <2> QED BY <2>1, <2>2, <2>3, AppendFits
  <1> QED BY <1>1, <1>2, <1>3, <1>4, <1>5, <1>6 DEF BufNext

-----------------------------------------------------------------------------
(* A line. *)

\* A buffer neither the line's nor its level's is new, and the line's room
\* is what the doublings have made of it: AllocBuffer adds to a block, so
\* all the rooms asked for are there but one.
LineInv ==
    /\ \A b \in Buffers : b # pLogBuffer /\ b # level =>
          alloc[b] = 0 /\ miBufferUseLen[b] = 0 /\ miAppendNum[b] = 0
    /\ fpc # "idle" =>
          /\ prefix \in PrefixLens
          /\ lBufferSize = MAX_PER_LINE_LOG \/ lBufferSize >= 2 * MAX_PER_LINE_LOG
          /\ alloc[pLogBuffer] > 0
          /\ miBufferLen[pLogBuffer] = 2 * lBufferSize - MAX_PER_LINE_LOG
    /\ fpc = "format" => nPos = prefix /\ miBufferUseLen[pLogBuffer] = 0
    /\ fpc \in {"put", "delete"} =>
          /\ text <= lBufferSize /\ nPos = prefix + text + 1
          /\ miBufferUseLen[pLogBuffer] = IF nPos <= miBufferLen[pLogBuffer] THEN nPos ELSE 0
    /\ level # NoBuffer =>
          /\ alloc[level] > 0
          /\ missing <= added /\ miBufferUseLen[level] = added - missing
          /\ missing # 0 => \E p \in PrefixLens :
                missing \in MAX_PER_LINE_LOG + 1 .. MAX_PER_LINE_LOG + 1 + p

LineSafe == WritesFit /\ LineTypeOK /\ LineInv

\* What the length of a line exceeds its room by, when it does.
LEMMA CutAtFirst ==
    ASSUME LineSafe, fpc \in {"put", "delete"}
    PROVE  /\ pLogBuffer \in Buffers /\ nPos \in Nat /\ nPos > 0
           /\ nPos = prefix + text + 1
           /\ nPos > miBufferLen[pLogBuffer] =>
                 /\ lBufferSize = MAX_PER_LINE_LOG /\ Cut
                 /\ nPos - alloc[pLogBuffer] <= prefix
                 /\ nPos \in MAX_PER_LINE_LOG + 1 .. MAX_PER_LINE_LOG + 1 + prefix
  <1>1. pLogBuffer \in Buffers
    BY DEF LineSafe, LineTypeOK
  <1>2. /\ prefix \in Nat /\ prefix < MAX_PER_LINE_LOG /\ text \in Nat /\ lBufferSize \in Nat
        /\ MAX_PER_LINE_LOG \in Nat
    BY LineAssumption DEF LineSafe, LineTypeOK, LineInv
  <1>3. /\ text <= lBufferSize /\ nPos = prefix + text + 1
        /\ lBufferSize = MAX_PER_LINE_LOG \/ lBufferSize >= 2 * MAX_PER_LINE_LOG
        /\ miBufferLen[pLogBuffer] = 2 * lBufferSize - MAX_PER_LINE_LOG
        /\ alloc[pLogBuffer] > 0
    BY DEF LineSafe, LineInv
  <1>4. alloc[pLogBuffer] = miBufferLen[pLogBuffer] + 1
    BY <1>1, <1>3 DEF LineSafe, WritesFit, CapacityExact
  <1>5. nPos > miBufferLen[pLogBuffer] => lBufferSize = MAX_PER_LINE_LOG
    BY <1>2, <1>3
  <1> QED BY <1>1, <1>2, <1>3, <1>4, <1>5 DEF Cut

LEMMA AddStep ==
    ASSUME LineSafe, NEW b \in Buffers, AddLogItem(b)
    PROVE  LineSafe'
  <1> USE DEF LineSafe
  <1>1. /\ pLogBuffer = NoBuffer /\ b # pLogBuffer /\ b # level /\ alloc[b] = 0
        /\ miBufferUseLen[b] = 0
    BY LineAssumption DEF AddLogItem, LineTypeOK, LineInv
  <1>2. MAX_PER_LINE_LOG \in Nat /\ FirstLen(MAX_PER_LINE_LOG) = MAX_PER_LINE_LOG
    BY LineAssumption, DefaultAssumption DEF FirstLen, Atleast
  <1>3. /\ miBufferLen' = [miBufferLen EXCEPT ![b] = MAX_PER_LINE_LOG]
        /\ alloc' = [alloc EXCEPT ![b] = MAX_PER_LINE_LOG + 1]
        /\ UNCHANGED <<miBufferUseLen, miAppendNum, reach>>
    BY <1>1, <1>2 DEF AddLogItem, DoAllocBuffer
  <1>4. WritesFit'
    BY <1>2, RoomFits DEF AddLogItem
  <1>5. LineTypeOK'
    BY <1>1, LineAssumption DEF AddLogItem, LineTypeOK
  <1>6. /\ alloc \in [Buffers -> Nat] /\ miBufferLen \in [Buffers -> Nat]
    BY DefaultAssumption DEF WritesFit, BufTypeOK, Counts
  <1>7. LineInv'
    BY <1>1, <1>2, <1>3, <1>6, LineAssumption DEF AddLogItem, LineTypeOK, LineInv
  <1> QED BY <1>4, <1>5, <1>7

LEMMA RetryStep ==
    ASSUME LineSafe, Retry
    PROVE  LineSafe'
  <1> USE DEF LineSafe
  <1>1. /\ pLogBuffer \in Buffers /\ pLogBuffer # level
        /\ lBufferSize \in Nat /\ MAX_PER_LINE_LOG \in Nat
        /\ lBufferSize >= MAX_PER_LINE_LOG /\ alloc[pLogBuffer] > 0
        /\ miBufferLen[pLogBuffer] = 2 * lBufferSize - MAX_PER_LINE_LOG
    <2>1. /\ fpc = "format" /\ pLogBuffer \in Buffers /\ pLogBuffer # level
          /\ lBufferSize \in Nat /\ MAX_PER_LINE_LOG \in Nat
      BY LineAssumption DEF Retry, LineTypeOK
    <2>2. /\ lBufferSize = MAX_PER_LINE_LOG \/ lBufferSize >= 2 * MAX_PER_LINE_LOG
          /\ alloc[pLogBuffer] > 0
          /\ miBufferLen[pLogBuffer] = 2 * lBufferSize - MAX_PER_LINE_LOG
      BY <2>1 DEF LineInv
    <2> QED BY <2>1, <2>2
  <1>2. lBufferSize' = 2 * lBufferSize /\ lBufferSize' \in Nat
    BY <1>1 DEF Retry
  <1>3. /\ alloc \in [Buffers -> Nat] /\ miBufferLen \in [Buffers -> Nat]
    BY DefaultAssumption DEF WritesFit, BufTypeOK, Counts
  <1>4. lBufferSize' > miBufferLen[pLogBuffer]
    BY <1>1, <1>2, LineAssumption
  <1>5. DoAllocBuffer(pLogBuffer, lBufferSize')
    BY DEF Retry
  <1>6. /\ miBufferLen' = [miBufferLen EXCEPT ![pLogBuffer] = @ + lBufferSize']
        /\ alloc' = [alloc EXCEPT ![pLogBuffer] = miBufferLen[pLogBuffer] + lBufferSize' + 1]
        /\ UNCHANGED <<miBufferUseLen, miAppendNum, reach>>
    BY <1>1, <1>4, <1>5 DEF DoAllocBuffer
  <1>7. WritesFit'
    BY <1>1, <1>2, <1>5, RoomFits
  <1>8. LineTypeOK'
    BY <1>2 DEF Retry, LineTypeOK
  <1>9. LineInv'
    BY <1>1, <1>2, <1>3, <1>6 DEF Retry, LineTypeOK, LineInv
  <1> QED BY <1>7, <1>8, <1>9

LEMMA FormattedStep ==
    ASSUME LineSafe, Formatted
    PROVE  LineSafe'
  <1> USE DEF LineSafe
  <1>1. /\ pLogBuffer \in Buffers /\ pLogBuffer # level /\ nPos = prefix
        /\ prefix \in Nat /\ text \in Nat /\ nPos' = nPos + text + 1 /\ nPos' \in Nat
        /\ DoSetBuffLen(pLogBuffer, nPos')
    BY DEF Formatted, LineTypeOK, LineInv
  <1>2. WritesFit'
    BY <1>1, LengthFits
  <1>3. LineTypeOK'
    BY <1>1 DEF Formatted, LineTypeOK
  <1>4. LineInv'
    BY <1>1 DEF Formatted, LineTypeOK, LineInv, DoSetBuffLen, WritesFit, BufTypeOK, Counts
  <1> QED BY <1>2, <1>3, <1>4

\* The first line's buffer becomes the level's: what SetBuffLen refused is
\* what the level is short of.
LEMMA PutFirstStep ==
    ASSUME LineSafe, PutFirst
    PROVE  LineSafe'
  <1> USE DEF LineSafe
  <1>1. /\ pLogBuffer \in Buffers /\ nPos \in Nat /\ nPos > 0
        /\ nPos > miBufferLen[pLogBuffer] =>
              nPos \in MAX_PER_LINE_LOG + 1 .. MAX_PER_LINE_LOG + 1 + prefix
    BY CutAtFirst DEF PutFirst
  <1>2. /\ prefix \in PrefixLens /\ alloc[pLogBuffer] > 0
        /\ miBufferUseLen[pLogBuffer] = IF nPos <= miBufferLen[pLogBuffer] THEN nPos ELSE 0
        /\ \A b \in Buffers : b # pLogBuffer /\ b # level =>
              alloc[b] = 0 /\ miBufferUseLen[b] = 0 /\ miAppendNum[b] = 0
    BY DEF PutFirst, LineInv
  <1>3. miBufferLen[pLogBuffer] \in Nat
    BY <1>1 DEF WritesFit, BufTypeOK, Counts
  <1>4. /\ level = NoBuffer /\ level' = pLogBuffer /\ pLogBuffer' = NoBuffer /\ added' = nPos
        /\ missing' = nPos - miBufferUseLen[pLogBuffer] /\ fpc' = "idle"
        /\ UNCHANGED <<bufvars, lBufferSize, prefix, text, nPos>>
    BY DEF PutFirst
  <1>5. missing' \in {0, nPos} /\ (missing' # 0 => nPos > miBufferLen[pLogBuffer])
    BY <1>1, <1>2, <1>3, <1>4
  <1>6. WritesFit'
    BY <1>4 DEF WritesFit, BufTypeOK, CapacityExact, Counts, bufvars, lengths
  <1>7. LineTypeOK'
    BY <1>1, <1>4, <1>5, LineAssumption DEF LineTypeOK
  <1>8. /\ alloc[level'] > 0 /\ missing' <= added'
        /\ miBufferUseLen[level'] = added' - missing'
    BY <1>1, <1>2, <1>3, <1>4, <1>5
  <1>9. missing' # 0 => \E p \in PrefixLens :
           missing' \in MAX_PER_LINE_LOG + 1 .. MAX_PER_LINE_LOG + 1 + p
    BY <1>1, <1>2, <1>5
  <1> QED BY <1>1, <1>2, <1>4, <1>6, <1>7, <1>8, <1>9, LineAssumption DEF LineInv, bufvars, lengths

LEMMA PutNextStep ==
    ASSUME LineSafe, PutNext
    PROVE  LineSafe'
  <1> USE DEF LineSafe
  <1> DEFINE l == level
  <1>1. /\ pLogBuffer \in Buffers /\ nPos \in Nat /\ nPos > 0
    BY CutAtFirst DEF PutNext
  <1>2. l \in Buffers /\ l # pLogBuffer /\ fpc = "put"
    BY DEF PutNext, LineTypeOK
  <1>3. /\ alloc[l] > 0 /\ missing <= added /\ miBufferUseLen[l] = added - missing
    BY DEF PutNext, LineInv
  <1>4. /\ miBufferLen[l] \in Nat /\ miBufferUseLen[l] \in Nat /\ miAppendNum[l] \in Nat
        /\ alloc[l] \in Nat /\ alloc[l] > MEM_BUFFER_DEFAULT_LEN
        /\ alloc[l] = miBufferLen[l] + 1 /\ miBufferUseLen[l] <= miBufferLen[l]
    BY <1>2, <1>3 DEF WritesFit, BufTypeOK, CapacityExact, Counts
  <1>5. /\ DoAppend(l, miBufferLen[l], miBufferUseLen[l], miAppendNum[l], alloc[l], nPos)
        /\ added' = added + nPos /\ fpc' = "delete"
        /\ UNCHANGED <<pLogBuffer, lBufferSize, prefix, text, nPos, level, missing>>
    BY DEF PutNext
  <1>6. WritesFit'
    BY <1>1, <1>2, <1>4, <1>5, AppendFits
  <1>7. LineTypeOK'
    BY <1>1, <1>2, <1>5 DEF LineTypeOK
  <1>8. \A b \in Buffers : b # l => /\ alloc'[b] = alloc[b]
                                   /\ miBufferLen'[b] = miBufferLen[b]
                                   /\ miBufferUseLen'[b] = miBufferUseLen[b]
                                   /\ miAppendNum'[b] = miAppendNum[b]
    BY <1>5 DEF DoAppend, WritesFit, BufTypeOK, Counts
  <1>9. miBufferUseLen'[l] = miBufferUseLen[l] + nPos
    BY <1>2, <1>5 DEF DoAppend, WritesFit, BufTypeOK, Counts
  <1>10. alloc'[l] > 0
    <2> DEFINE grown == Grown(miBufferLen[l], miAppendNum[l] + 1, nPos)
    <2>1. grown.alloc > 0
      <3>1. miAppendNum[l] + 1 \in Nat \ {0}
        BY <1>4
      <3>2. grown.alloc \in Nat /\ grown.alloc > MEM_BUFFER_DEFAULT_LEN
        BY <1>1, <1>4, <3>1, GrownFits
      <3> HIDE DEF grown
      <3> QED BY <3>2, DefaultAssumption
    <2>2. alloc' = [alloc EXCEPT ![l] = IF nPos + miBufferUseLen[l] > miBufferLen[l]
                                        THEN grown.alloc ELSE alloc[l]]
      BY <1>5 DEF DoAppend
    <2> HIDE DEF grown
    <2> QED BY <1>2, <1>3, <2>1, <2>2 DEF WritesFit, BufTypeOK
  <1>11. missing \in Nat /\ added \in Nat
    BY DEF LineTypeOK
  <1>12. missing' <= added' /\ miBufferUseLen'[l] = added' - missing'
    BY <1>1, <1>3, <1>4, <1>5, <1>9, <1>11
  <1>13. fpc # "idle" /\ fpc \in {"put", "delete"}
    BY <1>2
  <1> HIDE DEF l
  <1>14. level' = l /\ level = l
    BY <1>5 DEF l
  <1> QED BY <1>1, <1>2, <1>5, <1>6, <1>7, <1>8, <1>10, <1>12, <1>13, <1>14 DEF LineInv

LEMMA DeleteFits ==
    ASSUME WritesFit, NEW b \in Buffers, Delete(b)
    PROVE  WritesFit'
  BY DEF Delete, WritesFit, BufTypeOK, CapacityExact, Counts

LEMMA DeleteStep ==
    ASSUME LineSafe, DeleteLine
    PROVE  LineSafe'
  <1> USE DEF LineSafe
  <1>1. pLogBuffer \in Buffers /\ Delete(pLogBuffer) /\ pLogBuffer # level
    BY DEF DeleteLine, LineTypeOK
  <1>2. WritesFit'
    BY <1>1, DeleteFits
  <1>3. LineTypeOK'
    BY LineAssumption DEF DeleteLine, LineTypeOK
  <1>4. LineInv'
    BY <1>1, LineAssumption
    DEF DeleteLine, Delete, LineInv, LineTypeOK, WritesFit, BufTypeOK, Counts
  <1> QED BY <1>2, <1>3, <1>4

LEMMA TakeStep ==
    ASSUME LineSafe, TakeLevel
    PROVE  LineSafe'
  <1> USE DEF LineSafe
  <1>1. level \in Buffers /\ Delete(level) /\ pLogBuffer # level
    BY LineAssumption DEF TakeLevel, LineTypeOK
  <1>2. WritesFit'
    BY <1>1, DeleteFits
  <1>3. LineTypeOK'
    BY LineAssumption DEF TakeLevel, LineTypeOK, line
  <1>4. LineInv'
    BY <1>1, LineAssumption
    DEF TakeLevel, Delete, LineInv, LineTypeOK, WritesFit, BufTypeOK, Counts, line
  <1> QED BY <1>2, <1>3, <1>4

LEMMA LineStep == ASSUME LineSafe, LineNext PROVE LineSafe'
  BY AddStep, RetryStep, FormattedStep, PutFirstStep, PutNextStep, DeleteStep, TakeStep
  DEF LineNext

LEMMA LineSafeWhole == ASSUME LineSafe PROVE LinesWhole
  <1>1. ASSUME fpc \in {"put", "delete"}
        PROVE  LET room == miBufferLen[pLogBuffer] IN
               /\ nPos = prefix + text + 1
               /\ nPos > room => /\ lBufferSize = MAX_PER_LINE_LOG /\ Cut
                                 /\ nPos - alloc[pLogBuffer] <= prefix
               /\ miBufferUseLen[pLogBuffer] = (IF nPos <= room THEN nPos ELSE 0)
    BY <1>1, CutAtFirst DEF LineSafe, LineInv
  <1> QED BY <1>1 DEF LineSafe, LineInv, LinesWhole

-----------------------------------------------------------------------------
(* The directories. *)

\* The maker m is there or will be, if nobody does anything in between: what
\* it is about exists up to the level below.
Succeeds(m) ==
    \/ results[m] = 0
    \/ dpc[m] = "idle" /\ results[m] = -1
    \/ dpc[m] = "test" /\ at[m] <= made + 1
    \/ dpc[m] = "mkdir" /\ (at[m] = made + 1 \/ (at[m] < Depth /\ made >= Depth - 1))

\* Only the last level is tried beyond a link, and some maker is always on
\* its way to an end that is right.
DirInv ==
    /\ \A m \in Makers : dpc[m] # "idle" => results[m] = -1 /\ at[m] \in 1..Depth
    /\ \A m \in Makers : results[m] = 0 => made = Depth /\ link # Depth
    /\ \A m \in Makers : dpc[m] # "idle" /\ link > 0 => at[m] <= link \/ at[m] = Depth
    /\ Makers # {} /\ allowed = Depth /\ (link = 0 \/ (link # Depth /\ made >= Depth - 1)) =>
          \E m \in Makers : Succeeds(m)

DirSafe == DirTypeOK /\ DirInv

\* Some maker succeeds, if one can at all.
Hope ==
    Makers # {} /\ allowed = Depth /\ (link = 0 \/ (link # Depth /\ made >= Depth - 1)) =>
        \E m \in Makers : Succeeds(m)

\* make_dir's answer about the level of m is right, and the loop goes on as
\* the answer says: no maker's way to its end is lost, as m's own goes on.
LEMMA ReturnStep ==
    ASSUME DirSafe, NEW m \in Makers, NEW ok \in BOOLEAN, Return(m, ok),
           dpc[m] \in {"test", "mkdir"},
           made' \in {made, at[m]}, made' >= made, made' <= allowed,
           UNCHANGED <<link, allowed>>,
           ok => at[m] <= made' /\ at[m] # link,
           made' # made => ok /\ made' = made + 1,
           ~ok /\ dpc[m] = "test" => FALSE,
           ~ok => at[m] # made + 1 \/ at[m] > allowed
    PROVE  DirSafe'
  <1> USE DEF DirSafe, DirTypeOK
  <1>1. /\ at[m] \in 1..Depth /\ results[m] = -1 /\ made' \in 0..Depth
        /\ link > 0 => at[m] <= link \/ at[m] = Depth
    BY DEF DirInv
  <1>2. CASE at[m] = Depth
    <2>1. /\ results' = [results EXCEPT ![m] = IF ok THEN 0 ELSE 1]
          /\ dpc' = [dpc EXCEPT ![m] = "idle"] /\ at' = at
      BY <1>2 DEF Return
    <2>2. DirTypeOK'
      BY <1>1, <2>1
    <2>3. \A n \in Makers : dpc'[n] # "idle" => results'[n] = -1 /\ at'[n] \in 1..Depth
      BY <2>1 DEF DirInv
    <2>4. \A n \in Makers : results'[n] = 0 => made' = Depth /\ link' # Depth
      BY <1>1, <1>2, <2>1 DEF DirInv
    <2>5. \A n \in Makers : dpc'[n] # "idle" /\ link' > 0 => at'[n] <= link' \/ at'[n] = Depth
      BY <2>1 DEF DirInv
    <2>6. Hope'
      <3> SUFFICES ASSUME Makers # {}, allowed = Depth,
                          link = 0 \/ (link # Depth /\ made' >= Depth - 1)
                   PROVE  \E n \in Makers : Succeeds(n)'
        BY DEF Hope
      <3>1. CASE ok
        BY <2>1, <3>1 DEF Succeeds
      <3>2. CASE ~ok
        <4>1. made' = made /\ ~Succeeds(m)
          BY <1>1, <1>2, <3>2, DepthAssumption DEF Succeeds
        <4>2. PICK n \in Makers : Succeeds(n)
          BY <4>1 DEF DirInv
        <4> QED BY <2>1, <4>1, <4>2 DEF Succeeds
      <3> QED BY <3>1, <3>2
    <2> QED BY <2>2, <2>3, <2>4, <2>5, <2>6 DEF DirInv, Hope
  <1>3. CASE at[m] # Depth
    <2>1. /\ at' = [at EXCEPT ![m] = IF ok THEN @ + 1 ELSE Depth]
          /\ dpc' = [dpc EXCEPT ![m] = "test"] /\ results' = results
      BY <1>3 DEF Return
    <2>2. DirTypeOK'
      BY <1>1, <1>3, <2>1, DepthAssumption
    <2>3. \A n \in Makers : dpc'[n] # "idle" => results'[n] = -1 /\ at'[n] \in 1..Depth
      BY <1>1, <1>3, <2>1, DepthAssumption DEF DirInv
    <2>4. \A n \in Makers : results'[n] = 0 => made' = Depth /\ link' # Depth
      BY <1>1, <2>1 DEF DirInv
    <2>5. \A n \in Makers : dpc'[n] # "idle" /\ link' > 0 => at'[n] <= link' \/ at'[n] = Depth
      BY <1>1, <1>3, <2>1 DEF DirInv
    <2>6. Hope'
      <3> SUFFICES ASSUME Makers # {}, allowed = Depth,
                          link = 0 \/ (link # Depth /\ made' >= Depth - 1)
                   PROVE  \E n \in Makers : Succeeds(n)'
        BY DEF Hope
      <3>1. CASE ok
        BY <1>1, <1>3, <2>1, <3>1 DEF Succeeds
      <3>2. CASE ~ok /\ made >= Depth - 1
        BY <1>1, <2>1, <3>2, DepthAssumption DEF Succeeds
      <3>3. CASE ~ok /\ made < Depth - 1
        <4>1. made' = made /\ ~Succeeds(m)
          BY <1>1, <1>3, <3>3, DepthAssumption DEF Succeeds
        <4>2. PICK n \in Makers : Succeeds(n)
          BY <4>1 DEF DirInv
        <4> QED BY <2>1, <4>1, <4>2 DEF Succeeds
      <3> QED BY <3>1, <3>2, <3>3, <1>1
    <2> QED BY <2>2, <2>3, <2>4, <2>5, <2>6 DEF DirInv, Hope
  <1> QED BY <1>2, <1>3

LEMMA DirStep == ASSUME DirSafe, DirNext PROVE DirSafe'
  <1> USE DEF DirSafe, DirTypeOK
  <1>1. PICK m \in Makers : make_dirs(m) \/ Test(m) \/ Make(m)
    BY DEF DirNext
  <1>2. CASE make_dirs(m)
    <2>1. DirTypeOK'
      BY <1>2, DepthAssumption DEF make_dirs
    <2>2. Hope'
      <3> SUFFICES ASSUME Hope
                   PROVE  Hope'
        BY DEF DirInv, Hope
      <3>1. \A n \in Makers : Succeeds(n) => Succeeds(n)'
        BY <1>2 DEF make_dirs, Succeeds
      <3> QED BY <1>2, <3>1 DEF make_dirs, Hope
    <2> QED BY <1>2, <2>1, <2>2, DepthAssumption DEF make_dirs, DirInv, Hope
  <1>3. CASE Test(m) /\ directory_exists(at[m])
    <2>1. /\ Return(m, TRUE) /\ dpc[m] = "test" /\ made' = made
          /\ at[m] <= made' /\ at[m] # link /\ UNCHANGED <<link, allowed>>
      BY <1>3 DEF Test, directory_exists
    <2> HIDE DEF DirSafe
    <2>2. made' \in {made, at[m]} /\ made' >= made /\ made' <= allowed
      BY <2>1 DEF DirSafe, DirTypeOK
    <2> QED BY <2>1, <2>2, ReturnStep
  <1>4. CASE Test(m) /\ ~directory_exists(at[m])
    <2>1. dpc[m] = "test" /\ dpc' = [dpc EXCEPT ![m] = "mkdir"]
          /\ UNCHANGED <<at, results, made, link, allowed>>
      BY <1>4 DEF Test
    <2>2. DirTypeOK'
      BY <2>1
    <2>3. at[m] \in 1..Depth /\ (at[m] > made \/ at[m] = link) /\ results[m] = -1
      BY <1>4, <2>1 DEF directory_exists, DirInv
    <2>4. Hope'
      <3> SUFFICES ASSUME Makers # {}, allowed = Depth,
                          link = 0 \/ (link # Depth /\ made >= Depth - 1)
                   PROVE  \E n \in Makers : Succeeds(n)'
        BY <2>1 DEF Hope
      <3>1. PICK n \in Makers : Succeeds(n)
        BY DEF DirInv
      <3>2. CASE n # m
        BY <2>1, <3>1, <3>2 DEF Succeeds
      <3>3. CASE n = m
        <4>1. at[m] <= made + 1
          BY <2>1, <2>3, <3>1, <3>3 DEF Succeeds
        <4>2. at[m] = made + 1 \/ (at[m] < Depth /\ made >= Depth - 1)
          BY <2>3, <4>1, DepthAssumption
        <4> QED BY <2>1, <4>2 DEF Succeeds
      <3> QED BY <3>2, <3>3
    <2> QED BY <2>1, <2>2, <2>4 DEF DirInv, Hope
  <1>5. CASE Make(m)
    <2>1. /\ Return(m, mkdir(at[m])) /\ dpc[m] = "mkdir"
          /\ made' = (IF mkdir(at[m]) THEN at[m] ELSE made) /\ UNCHANGED <<link, allowed>>
      BY <1>5 DEF Make
    <2>2. /\ mkdir(at[m]) \in BOOLEAN /\ at[m] \in 1..Depth
          /\ mkdir(at[m]) <=> at[m] = made + 1 /\ at[m] <= allowed
      BY <2>1 DEF mkdir, DirInv
    <2> DEFINE ok == mkdir(at[m])
    <2>3. /\ made' \in {made, at[m]} /\ made' >= made /\ made' <= allowed
          /\ ok => at[m] <= made' /\ at[m] # link
          /\ made' # made => ok /\ made' = made + 1
          /\ ~ok => at[m] # made + 1 \/ at[m] > allowed
      BY <2>1, <2>2
    <2> HIDE DEF ok, DirSafe
    <2>4. ok \in BOOLEAN /\ Return(m, ok)
      BY <2>1, <2>2 DEF ok
    <2> QED BY <2>1, <2>3, <2>4, ReturnStep
  <1> QED BY <1>1, <1>2, <1>3, <1>4, <1>5

LEMMA DirSafeMade == ASSUME DirSafe PROVE DirsMade
  <1> USE DEF DirSafe, DirTypeOK
  <1>1. ASSUME AllReturned, NEW m \in Makers, Succeeds(m) PROVE results[m] = 0
    BY <1>1 DEF AllReturned, Succeeds, DirInv
  <1>2. AllReturned /\ Makers # {} =>
          /\ link = 0 /\ allowed = Depth => \E m \in Makers : results[m] = 0
          /\ link \in 1..(Depth - 1) /\ allowed = Depth =>
                \/ \E m \in Makers : results[m] = 0
                \/ made < Depth - 1
    BY <1>1, DepthAssumption DEF DirInv
  <1>3. AllReturned /\ link = Depth => \A m \in Makers : results[m] = 1
    BY DEF AllReturned, DirInv
  <1> QED BY <1>2, <1>3 DEF DirsMade, DirInv

-----------------------------------------------------------------------------
(* The parts together. *)

\* The line's invariant is about its own behaviours: buffers are in every
\* state in those of part "buffer".
IInv ==
    /\ WritesFit /\ LineTypeOK /\ DirSafe
    /\ part = "buffer" => fpc = "idle" /\ pLogBuffer = NoBuffer /\ level = NoBuffer
    /\ part # "buffer" => LineInv

LEMMA IInit == BaseInit => IInv
  <1> SUFFICES ASSUME BaseInit PROVE IInv
    OBVIOUS
  <1>1. WritesFit
    BY FitsInit DEF BaseInit
  <1>2. LineTypeOK /\ LineInv
    BY LineAssumption DEF BaseInit, LineInit, LineTypeOK, LineInv, BufInit, Zero
  <1>3. DirTypeOK
    BY DepthAssumption DEF BaseInit, DirInit, DirTypeOK
  <1>4. DirInv
    BY DEF BaseInit, DirInit, DirInv, Succeeds
  <1> QED BY <1>1, <1>2, <1>3, <1>4 DEF IInv, DirSafe, BaseInit, LineInit

LEMMA IStep == IInv /\ [BaseNext]_basevars => IInv'
  <1> SUFFICES ASSUME IInv, [BaseNext]_basevars PROVE IInv'
    OBVIOUS
  <1> USE DEF IInv
  <1>1. UNCHANGED linevars => (LineTypeOK => LineTypeOK')
    BY DEF linevars, line, LineTypeOK
  <1>2. UNCHANGED <<bufvars, linevars>> => (LineInv => LineInv')
    BY DEF bufvars, lengths, linevars, line, LineInv
  <1>3. UNCHANGED bufvars => WritesFit'
    BY FitsStep
  <1>4. UNCHANGED dirvars => DirSafe'
    BY DEF dirvars, DirSafe, DirTypeOK, DirInv, Succeeds
  <1>5. CASE part = "buffer" /\ BufNext /\ UNCHANGED <<linevars, dirvars>> /\ UNCHANGED part
    BY <1>1, <1>4, <1>5, FitsStep DEF linevars, line
  <1>6. CASE part = "line" /\ LineNext /\ UNCHANGED dirvars /\ UNCHANGED part
    BY <1>4, <1>6, LineStep DEF LineSafe
  <1>7. CASE part = "dirs" /\ DirNext /\ UNCHANGED <<bufvars, linevars>> /\ UNCHANGED part
    BY <1>1, <1>2, <1>3, <1>7, DirStep
  <1>8. CASE UNCHANGED basevars
    BY <1>1, <1>2, <1>3, <1>4, <1>8 DEF basevars, linevars, line
  <1> QED BY <1>5, <1>6, <1>7, <1>8 DEF BaseNext

LEMMA ICorrect == BaseSpec => []IInv
  BY IInit, IStep, PTL DEF BaseSpec

\* Content and the byte behind it fit the block, for every default length
\* and every mix of the operations on any number of buffers: Append, the
\* room AllocBuffer makes, SetBuffLen, AppendNul and the assignment
\* (MemBuffer.cpp:76-80,87-116).
THEOREM WritesFitCorrect == BaseSpec => []WritesFit
  <1>1. IInv => WritesFit
    BY DEF IInv
  <1> QED BY <1>1, ICorrect, PTL

\* A line of any length outgrows its room only at the first attempt, by no
\* more than its prefix, and a level holds what was added to it but for such
\* a first line (Log.cpp:155-206).
THEOREM LinesWholeCorrect == BaseSpec => []LinesWhole
  <1>1. IInv => LinesWhole
    <2> SUFFICES ASSUME IInv PROVE LinesWhole
      OBVIOUS
    <2>1. CASE part # "buffer"
      BY <2>1, LineSafeWhole DEF IInv, LineSafe
    <2>2. CASE part = "buffer"
      BY <2>2 DEF IInv, LinesWhole
    <2> QED BY <2>1, <2>2
  <1> QED BY <1>1, ICorrect, PTL

\* However many threads or processes make the same path of any depth, who is
\* told that it is there is right, and one of them is told when nothing is
\* in the way (util.cpp:583-650).
THEOREM DirsMadeCorrect == BaseSpec => []DirsMade
  <1>1. IInv => DirsMade
    BY DirSafeMade DEF IInv
  <1> QED BY <1>1, ICorrect, PTL
-----------------------------------------------------------------------------
(* CLog: lines and files. *)

\* Where a client is, its argument is a level or a file.
ClientInv ==
    \A c \in Clients :
        /\ cpc[c] = "append" => cArg[c] \in Levels
        /\ cpc[c] = "set" => cArg[c] \in 0..opened

\* What the thread has in hand.
ThreadInv ==
    /\ lpc # "none" => started
    /\ lpc \in {"none", "wait"} => mapTmp = NoLines
    /\ lpc = "write" => Batch # {}

\* Printed, taken and waiting lines, in this order, are all that were accepted.
Whole ==
    \A l \in Levels : lost[l] = {} =>
        printed[l] \o mapTmp[l] \o mMapLogItems[l] = [i \in 1..accepted[l] |-> i]

\* A file opened and not yet the current one.
Pending(h) ==
    \/ lpc = "set" /\ wfile = h
    \/ \E c \in Clients : cpc[c] = "set" /\ cArg[c] = h

\* Every handle is in one place: pending with one thread, current or closed.
HandleInv ==
    /\ closed \subseteq 1..opened /\ mpFile \in 0..opened /\ mpFile \notin closed
    /\ lpc \in {"write", "set"} => wfile \in 0..opened
    /\ lpc = "write" => wfile \in closed \cup {mpFile, stdout}
    /\ lpc = "write" /\ ~repathed => wfile = mpFile
    /\ \A h \in 1..opened : h \in closed \/ h = mpFile \/ Pending(h)
    /\ \A h \in 1..opened : Pending(h) => h # mpFile /\ h \notin closed
    /\ \A c, d \in Clients :
          cpc[c] = "set" /\ cArg[c] # stdout =>
              /\ lpc = "set" => cArg[c] # wfile
              /\ cpc[d] = "set" /\ c # d => cArg[c] # cArg[d]

Steady == {"none", "wait", "print", "write"}

OneName == \A h \in Handles : name[h] = h

\* While no two files have one name and no file was left for the screen, the
\* current file has at most the bytes counted, and less than the limit when
\* it is not being changed; a file that is not yet in use is empty.
SizeBound ==
    /\ miMaxPerLogFileSize > 0
    /\ ~retyped /\ opened > 0 => iLogType # LOG_TYPE_SCREEN
    /\ \A h \in Handles : h > opened => name[h] = h
    /\ ~retyped /\ OneName =>
          /\ \A h \in Handles \ {stdout} : h > opened \/ Pending(h) => size[h] = 0
          /\ mpFile # stdout /\ lpc \in Steady =>
                 size[mpFile] <= miCurFileCount /\ size[mpFile] < miMaxPerLogFileSize

LogIInv == TypeOK /\ ClientInv /\ ThreadInv /\ Whole /\ HandleInv /\ SizeBound

USE DEF Clients, Types, LOG_LEVEL_MAX, stdout, Handles, At, Goto

\* One line is accepted at a time, so no level has more lines than all have.
LEMMA AcceptedBound ==
    ASSUME TypeOK, Accepted < MaxLines, NEW l \in Levels
    PROVE  accepted[l] + 1 \in 1..MaxLines
  <1>1. \A x \in Levels : accepted[x] \in Nat /\ accepted[x] \in Int
    BY SizeAssumption DEF TypeOK
  <1>2. IsFiniteSet(Levels) /\ IsFiniteSet(Levels \ {l})
    BY LevelsAssumption, FS_RemoveElement
  <1>3. SumFunctionOnSet(accepted, Levels \ {l}) \in Nat
    BY <1>1, <1>2, SumNat
  <1>4. SumFunctionOnSet(accepted, Levels \ {l}) = SumFunctionOnSet(accepted, Levels) - accepted[l]
    BY <1>1, <1>2, SumRemove
  <1>5. SumFunctionOnSet(accepted, Levels) \in Nat
    BY <1>1, <1>2, SumNat
  <1> QED BY <1>1, <1>3, <1>4, <1>5, SizeAssumption DEF Accepted

\* The lowest level of a batch.
LEMMA LowestLevel ==
    ASSUME Batch # {}
    PROVE  Min(Batch) \in Batch /\ Min(Batch) \in Levels
  <1>1. Batch \in SUBSET Nat
    BY LevelsAssumption DEF Batch
  <1>2. PICK n \in Batch : \A m \in Batch : n <= m
    BY <1>1, LeastNat
  <1>3. Min(Batch) \in Batch
    BY <1>2 DEF Min
  <1> QED BY <1>3 DEF Batch

\* What fwrite is given is made of the bytes of the buffer.
LEMMA OutputType ==
    ASSUME NEW S, NEW buf \in Seq(S), NEW out \in Output(buf)
    PROVE  out \in Seq(S)
  <1> DEFINE n == Len(buf)
  <1>1. PICK from \in [1..n -> 1..n] : out = [i \in 1..n |-> buf[from[i]]]
    BY DEF Output
  <1>2. n \in Nat /\ \A i \in 1..n : buf[from[i]] \in S
    OBVIOUS
  <1> HIDE DEF n
  <1> QED BY <1>1, <1>2

LEMMA SeqRange ==
    ASSUME NEW S, NEW q \in Seq(S)
    PROVE  Range(q) \subseteq S
  <1>1. \A i \in DOMAIN q : q[i] \in S
    OBVIOUS
  <1> QED BY <1>1 DEF Range

LEMMA PrefixType ==
    ASSUME NEW S, NEW q \in Seq(S), NEW k \in 0..Len(q)
    PROVE  SubSeq(q, 1, k) \in Seq(S)
  <1>1. Len(q) \in Nat /\ \A i \in 1..Len(q) : q[i] \in S
    OBVIOUS
  <1>2. SubSeq(q, 1, k) = [i \in 1..k |-> q[i]]
    BY <1>1
  <1> QED BY <1>1, <1>2

\* The lines of a batch are lines.
LEMMA LostType ==
    ASSUME TypeOK, NEW l \in Levels
    PROVE  [lost EXCEPT ![l] = @ \cup Range(mapTmp[l])] \in [Levels -> SUBSET (1..MaxLines)]
  <1>1. mapTmp[l] \in Seq(1..MaxLines) /\ lost \in [Levels -> SUBSET (1..MaxLines)]
    BY DEF TypeOK
  <1>2. Range(mapTmp[l]) \subseteq 1..MaxLines
    BY <1>1, SeqRange
  <1> QED BY <1>1, <1>2

LEMMA TypeInit == Init => TypeOK
  <1>1. NoLines \in [Levels -> Seq(1..MaxLines)]
    BY DEF NoLines
  <1>2. SUFFICES ASSUME Init PROVE TypeOK
    OBVIOUS
  <1>3. [l \in Levels |-> 0] \in [Levels -> 0..MaxLines]
    BY SizeAssumption
  <1>4. stdout \in Handles /\ 0 \in Nat /\ MAX_PER_LOGFILE_SIZE \in Nat
    BY SizeAssumption
  <1>5. {repathed, retyped} \subseteq BOOLEAN /\ lost \in [Levels -> SUBSET (1..MaxLines)] /\ mbInit \in BOOLEAN /\ started \in BOOLEAN
        /\ confLocked \in BOOLEAN
    BY <1>2 DEF Init
  <1> QED BY <1>1, <1>2, <1>3, <1>4, <1>5 DEF Init, TypeOK, NoLines

\* A type change is to a type.
LEMMA TypeSetType ==
    ASSUME TypeOK, NEW type \in Types, TypeSet(type)
    PROVE  iLogType' \in Types /\ retyped' \in BOOLEAN
  <1>1. iLogType' \in Types
    BY DEF TypeSet
  <1>2. retyped' \in BOOLEAN
    BY Zenon DEF TypeSet
  <1> QED BY <1>1, <1>2

LEMMA OpenFileType ==
    ASSUME TypeOK, NEW h \in Handles, OpenFile(h)
    PROVE  opened' \in Handles /\ name' \in [Handles -> Handles]
  <1>0. name \in [Handles -> Handles] /\ opened \in Handles
    BY DEF TypeOK
  <1>1. CASE UNCHANGED <<opened, name>>
    BY <1>0, <1>1
  <1>2. CASE ~UNCHANGED <<opened, name>>
    <2>1. PICK n \in {h} \cup IF SameSecond /\ opened > 0 THEN {name[opened]} ELSE {} :
             name' = [name EXCEPT ![h] = n]
      BY <1>2 DEF OpenFile
    <2>2. n \in Handles
      BY <1>0, <2>1
    <2>3. opened' = h
      BY <1>2 DEF OpenFile
    <2> QED BY <1>0, <2>1, <2>2, <2>3
  <1> QED BY <1>1, <1>2

LEMMA SetLogFileType ==
    ASSUME TypeOK, NEW h \in Handles, SetLogFile(h)
    PROVE  mpFile' \in Handles /\ opened' \in Handles /\ name' \in [Handles -> Handles]
           /\ closed' \in SUBSET Handles
  BY DEF TypeOK, SetLogFile

\* The threads that log.
LEMMA LoggerType ==
    ASSUME TypeOK, ClientInv, NEW c \in Loggers, LogCheck(c) \/ LogAppend(c)
    PROVE  TypeOK'
  <1>1. CASE LogCheck(c)
    BY <1>1, LevelsAssumption DEF TypeOK, LogCheck, conf, files, written, thread, lines, flags
  <1>2. CASE LogAppend(c)
    <2> DEFINE l == cArg[c]
    <2>1. l \in Levels
      BY <1>2 DEF LogAppend, ClientInv
    <2>2. accepted[l] + 1 \in 1..MaxLines
      BY <1>2, <2>1, AcceptedBound DEF LogAppend
    <2>3. accepted' = [accepted EXCEPT ![l] = accepted[l] + 1]
          /\ mMapLogItems' = [mMapLogItems EXCEPT ![l] = Append(mMapLogItems[l], accepted[l] + 1)]
      BY <1>2, <2>1 DEF LogAppend, TypeOK
    <2>4. accepted' \in [Levels -> 0..MaxLines]
      <3>1. accepted \in [Levels -> 0..MaxLines] /\ accepted[l] + 1 \in 0..MaxLines
        BY <2>2 DEF TypeOK
      <3> QED BY <2>1, <2>3, <3>1
    <2>5. Append(mMapLogItems[l], accepted[l] + 1) \in Seq(1..MaxLines)
      BY <2>1, <2>2 DEF TypeOK
    <2>6. mMapLogItems' \in [Levels -> Seq(1..MaxLines)]
      BY <2>1, <2>3, <2>5 DEF TypeOK
    <2> HIDE DEF l
    <2>7. cpc' \in [Clients -> {"idle", "append", "conf", "path", "open", "set", "start"}]
          /\ cArg' \in [Clients -> Nat]
      BY <1>2 DEF LogAppend, TypeOK
    <2>8. UNCHANGED <<conf, files, written, thread, printed, flags>>
      BY <1>2 DEF LogAppend
    <2>9. /\ mMapLogItems' \in [Levels -> Seq(1..MaxLines)]
          /\ mapTmp' \in [Levels -> Seq(1..MaxLines)]
          /\ printed' \in [Levels -> Seq(1..MaxLines)]
      BY <2>6, <2>8 DEF TypeOK, thread
    <2> QED BY <2>4, <2>7, <2>8, <2>9 DEF TypeOK, conf, files, written, thread, flags
  <1> QED BY <1>1, <1>2
LEMMA ConfigureType ==
    ASSUME TypeOK, NEW c \in Admins, Configure(c)
    PROVE  TypeOK'
  <1> USE DEF files, written, thread, clients, lines, flags
  <1>1. CASE SetLogType(c)
    <2>1. iLogType' \in Types /\ retyped' \in BOOLEAN
      BY <1>1, TypeSetType DEF SetLogType
    <2> QED BY <1>1, <2>1 DEF SetLogType, TypeOK
  <1>2. CASE SetLogLevel(c)
    BY <1>2, LevelArgsAssumption DEF SetLogLevel, TypeOK
  <1>3. CASE SetMaxPerLogFileSize(c)
    BY <1>3, SizeAssumption DEF SetMaxPerLogFileSize, TypeOK
  <1>4. CASE StopLog(c)
    BY <1>4 DEF StopLog, TypeOK
  <1> QED BY <1>1, <1>2, <1>3, <1>4 DEF Configure

LEMMA InitLogType ==
    ASSUME TypeOK, NEW c \in Admins, InitLog(c)
    PROVE  TypeOK'
  <1> USE DEF conf, files, written, thread, lines, flags
  <1>1. CASE InitParams(c)
    <2>1. iLogType' \in Types /\ retyped' \in BOOLEAN
      BY <1>1, TypeSetType DEF InitParams
    <2> QED BY <1>1, <2>1, LevelArgsAssumption DEF InitParams, TypeOK
  <1>2. CASE InitConf(c)
    BY <1>2 DEF InitConf, PathStart, TypeOK
  <1>3. CASE InitStart(c)
    <2>1. mbInit' \in BOOLEAN /\ started' \in BOOLEAN /\ {repathed, retyped}' \subseteq BOOLEAN
          /\ lost' \in [Levels -> SUBSET (1..MaxLines)]
      BY <1>3 DEF InitStart, TypeOK
    <2> QED BY <1>3, <2>1 DEF InitStart, TypeOK
  <1> QED BY <1>1, <1>2, <1>3 DEF InitLog

LEMMA LogPathType ==
    ASSUME TypeOK, ClientInv, NEW c \in Admins, LogPath(c)
    PROVE  TypeOK'
  <1> USE DEF conf, files, written, thread, lines, flags
  <1>1. CASE SetLogPath(c)
    BY <1>1 DEF SetLogPath, PathStart, TypeOK
  <1>2. CASE PathMade(c)
    BY <1>2 DEF PathMade, TypeOK
  <1>3. CASE PathNotMade(c)
    BY <1>3 DEF PathNotMade, PathDone, TypeOK
  <1>4. CASE PathOpen(c)
    <2>1. PICK h \in Handles : OpenFile(h) /\ cArg' = [cArg EXCEPT ![c] = h]
      BY <1>4 DEF PathOpen
    <2>2. opened' \in Handles /\ name' \in [Handles -> Handles]
      BY <2>1, OpenFileType
    <2> QED BY <1>4, <2>1, <2>2 DEF PathOpen, TypeOK
  <1>5. CASE PathSet(c)
    <2>1. cArg[c] \in Handles
      BY <1>5, SizeAssumption DEF PathSet, ClientInv, TypeOK
    <2>2. mpFile' \in Handles /\ opened' \in Handles /\ name' \in [Handles -> Handles]
          /\ closed' \in SUBSET Handles
      BY <1>5, <2>1, SetLogFileType DEF PathSet
    <2>3. repathed' \in BOOLEAN
      BY <1>5, Zenon DEF PathSet
    <2>4. retyped \in BOOLEAN /\ lost \in [Levels -> SUBSET (1..MaxLines)]
      BY DEF TypeOK
    <2>5. /\ cpc' = [cpc EXCEPT ![c] = IF initing = c THEN "start" ELSE "idle"]
          /\ cArg' = [cArg EXCEPT ![c] = 0]
          /\ UNCHANGED <<conf, written, thread, lines, printed, retyped, lost>>
      BY <1>5 DEF PathSet, PathDone
    <2> QED BY <2>2, <2>3, <2>4, <2>5 DEF TypeOK
  <1> QED BY <1>1, <1>2, <1>3, <1>4, <1>5 DEF LogPath

LEMMA ThreadType ==
    ASSUME TypeOK, ThreadInv, OnThreadRun
    PROVE  TypeOK'
  <1> USE DEF conf, files, written, clients, lines, flags
  <1>0. NoLines \in [Levels -> Seq(1..MaxLines)]
    BY DEF NoLines
  <1>1. CASE TakeLines
    BY <1>0, <1>1 DEF TakeLines, TypeOK
  <1>2. CASE PrintLog
    BY <1>2 DEF PrintLog, TypeOK
  <1>3. CASE WriteLog
    <2> DEFINE l == Min(Batch)
    <2>1. l \in Levels
      BY <1>3, LowestLevel DEF WriteLog, ThreadInv
    <2>2. mapTmp[l] \in Seq(1..MaxLines) /\ printed[l] \in Seq(1..MaxLines)
          /\ Len(mapTmp[l]) \in Nat
      BY <2>1 DEF TypeOK
    <2>3. PICK out \in Output(mapTmp[l]) :
             printed' = [printed EXCEPT ![l] = @ \o out]
             /\ lost' = IF out = mapTmp[l] THEN lost
                        ELSE [lost EXCEPT ![l] = @ \cup Range(mapTmp[l])]
      BY <1>3 DEF WriteLog
    <2>4. out \in Seq(1..MaxLines)
      BY <2>2, <2>3, OutputType
    <2>5. printed[l] \o out \in Seq(1..MaxLines)
      BY <2>2, <2>4, ConcatProperties
    <2>6. printed' \in [Levels -> Seq(1..MaxLines)]
      BY <2>1, <2>3, <2>5 DEF TypeOK
    <2>7. mapTmp' \in [Levels -> Seq(1..MaxLines)]
      BY <1>3, <2>1 DEF WriteLog, TypeOK
    <2>8. size' \in [Handles -> Nat]
      <3> DEFINE n == Len(mapTmp[l])
      <3>1. n \in Nat /\ size \in [Handles -> Nat]
        BY <2>2 DEF TypeOK
      <3>2. size' = IF wfile = stdout THEN size ELSE [size EXCEPT ![name[wfile]] = @ + n]
        BY <1>3 DEF WriteLog
      <3>3. name[wfile] \in Handles
        BY DEF TypeOK
      <3> DEFINE h == name[wfile]
      <3> HIDE DEF n, l, h
      <3>4. size[h] + n \in Nat
        BY <3>1, <3>3 DEF h
      <3>5. CASE wfile = stdout
        BY <3>1, <3>2, <3>5
      <3>6. CASE wfile # stdout
        <4>1. size' = [size EXCEPT ![h] = size[h] + n]
          BY <3>1, <3>2, <3>3, <3>6 DEF h
        <4> QED BY <3>1, <3>4, <4>1
      <3> QED BY <3>5, <3>6
    <2>9. miCurFileCount' \in Nat /\ lpc' \in {"open", "print"}
      <3> DEFINE count == miCurFileCount + Len(mapTmp[l])
      <3>1. count \in Nat
        BY <2>2 DEF TypeOK
      <3>2. Check(count)
        BY <1>3 DEF WriteLog
      <3> HIDE DEF count
      <3> QED BY <3>1, <3>2 DEF Check
    <2>10. lost' \in [Levels -> SUBSET (1..MaxLines)]
      <3>1. lost \in [Levels -> SUBSET (1..MaxLines)]
        BY DEF TypeOK
      <3> QED BY <2>1, <2>3, <3>1, LostType
    <2>11. wfile' \in Handles /\ {repathed', retyped'} \subseteq BOOLEAN
      BY <1>3, SizeAssumption DEF WriteLog, TypeOK
    <2>12. UNCHANGED <<conf, files, clients, lines>>
      BY <1>3 DEF WriteLog
    <2> HIDE DEF l
    <2> QED BY <2>6, <2>7, <2>8, <2>9, <2>10, <2>11, <2>12 DEF TypeOK
  <1>3a. CASE WriteStuck
    <2> DEFINE l == Min(Batch)
    <2>1. l \in Levels
      BY <1>3a, LowestLevel DEF WriteStuck, ThreadInv
    <2>2. mapTmp[l] \in Seq(1..MaxLines) /\ printed[l] \in Seq(1..MaxLines)
      BY <2>1 DEF TypeOK
    <2>3. PICK out \in Output(mapTmp[l]), k \in 0..Len(mapTmp[l]) - 1 :
             printed' = [printed EXCEPT ![l] = @ \o SubSeq(out, 1, k)]
      BY <1>3a DEF WriteStuck
    <2>4. out \in Seq(1..MaxLines) /\ Len(out) = Len(mapTmp[l])
      <3>1. out \in Seq(1..MaxLines)
        BY <2>2, <2>3, OutputType
      <3>2. Len(mapTmp[l]) \in Nat
        BY <2>2
      <3> QED BY <2>3, <3>1, <3>2 DEF Output
    <2>5. SubSeq(out, 1, k) \in Seq(1..MaxLines)
      <3>1. Len(mapTmp[l]) \in Nat
        BY <2>2
      <3>2. k \in 0..Len(out)
        BY <2>3, <2>4, <3>1
      <3> HIDE DEF l
      <3> QED BY <2>4, <3>2, PrefixType
    <2>6. printed[l] \o SubSeq(out, 1, k) \in Seq(1..MaxLines)
      BY <2>2, <2>5, ConcatProperties
    <2>7. printed' \in [Levels -> Seq(1..MaxLines)]
      BY <2>1, <2>3, <2>6 DEF TypeOK
    <2>8. lost' \in [Levels -> SUBSET (1..MaxLines)]
      BY <1>3a, <2>1, LostType DEF WriteStuck
    <2>9. /\ lpc' = "spinning"
          /\ UNCHANGED <<conf, files, written, mapTmp, wfile, clients, lines, repathed, retyped>>
      BY <1>3a DEF WriteStuck
    <2> HIDE DEF l
    <2> QED BY <2>7, <2>8, <2>9 DEF TypeOK
  <1>4. CASE WriteClosed
    BY <1>4 DEF WriteClosed, TypeOK
  <1>5. CASE PrintEnd
    BY <1>5 DEF PrintEnd, TypeOK
  <1>6. CASE RotateOpen
    <2>1. PICK h \in Handles : OpenFile(h) /\ wfile' = h
      BY <1>6 DEF RotateOpen
    <2>2. opened' \in Handles /\ name' \in [Handles -> Handles]
      BY <2>1, OpenFileType
    <2> QED BY <1>6, <2>1, <2>2 DEF RotateOpen, TypeOK
  <1>7. CASE RotateSet
    <2>1. mpFile' \in Handles /\ opened' \in Handles /\ name' \in [Handles -> Handles]
          /\ closed' \in SUBSET Handles
      BY <1>7, SetLogFileType DEF RotateSet, TypeOK
    <2>2. wfile' \in Handles /\ lpc' = "print"
          /\ UNCHANGED <<conf, written, mapTmp, clients, lines, printed, flags>>
      BY <1>7, SizeAssumption DEF RotateSet
    <2> QED BY <2>1, <2>2 DEF TypeOK
  <1> QED BY <1>1, <1>2, <1>3, <1>3a, <1>4, <1>5, <1>6, <1>7 DEF OnThreadRun
-----------------------------------------------------------------------------
(* Where the clients and the thread are. *)

LEMMA OpenedNat == ASSUME TypeOK PROVE opened \in Nat
  <1>1. opened \in 0..MaxFiles /\ MaxFiles \in Nat
    BY SizeAssumption DEF TypeOK
  <1> QED BY <1>1

LEMMA OpenedFile ==
    ASSUME TypeOK, NEW h \in Handles, OpenFile(h)
    PROVE  /\ opened \in Nat /\ opened' \in Nat /\ opened <= opened' /\ h \in 0..opened'
           /\ (opened' = h /\ h = opened + 1) \/ (h = stdout /\ opened' = opened)
  <1>1. opened \in Nat
    BY OpenedNat
  <1>2. (opened' = h /\ h = opened + 1) \/ (h = stdout /\ opened' = opened)
    BY DEF OpenFile
  <1> QED BY <1>1, <1>2

LEMMA ClientInit == Init => ClientInv
  BY DEF Init, ClientInv

\* One client goes on, to a place where its argument is not asked for.
LEMMA GoesOn ==
    ASSUME TypeOK, ClientInv, NEW c \in Clients, NEW pc \in {"idle", "conf", "path", "open", "start"},
           Goto(c, pc), opened' = opened
    PROVE  ClientInv'
  BY DEF ClientInv, TypeOK

LEMMA ClientStep ==
    ASSUME TypeOK, ClientInv, Next
    PROVE  ClientInv'
  <1> USE DEF clients, files, written
  <1>1. ASSUME NEW c \in Loggers, LogCheck(c) PROVE ClientInv'
    BY <1>1 DEF LogCheck, ClientInv, TypeOK
  <1>2. ASSUME NEW c \in Loggers, LogAppend(c) PROVE ClientInv'
    BY <1>2, GoesOn DEF LogAppend
  <1>3. ASSUME NEW c \in Admins, InitLog(c) PROVE ClientInv'
    <2>1. ASSUME InitParams(c) PROVE ClientInv'
      BY <2>1, GoesOn DEF InitParams
    <2>2. ASSUME InitConf(c) PROVE ClientInv'
      BY <2>2, GoesOn DEF InitConf, PathStart
    <2>3. ASSUME InitStart(c) PROVE ClientInv'
      BY <2>3, GoesOn DEF InitStart
    <2> QED BY <1>3, <2>1, <2>2, <2>3 DEF InitLog
  <1>4. ASSUME NEW c \in Admins, LogPath(c) PROVE ClientInv'
    <2>1. ASSUME SetLogPath(c) PROVE ClientInv'
      BY <2>1, GoesOn DEF SetLogPath, PathStart
    <2>2. ASSUME PathMade(c) PROVE ClientInv'
      BY <2>2, GoesOn DEF PathMade
    <2>3. ASSUME PathNotMade(c) PROVE ClientInv'
      BY <2>3, GoesOn DEF PathNotMade, PathDone
    <2>4. ASSUME PathOpen(c) PROVE ClientInv'
      <3>1. PICK h \in Handles : OpenFile(h) /\ cArg' = [cArg EXCEPT ![c] = h]
        BY <2>4 DEF PathOpen
      <3>2. opened \in Nat /\ opened' \in Nat /\ opened <= opened' /\ h \in 0..opened'
        BY <3>1, OpenedFile
      <3>3. cpc' = [cpc EXCEPT ![c] = "set"]
        BY <2>4 DEF PathOpen
      <3> QED BY <3>1, <3>2, <3>3 DEF ClientInv, TypeOK
    <2>5. ASSUME PathSet(c) PROVE ClientInv'
      BY <2>5, GoesOn DEF PathSet, PathDone, SetLogFile
    <2> QED BY <1>4, <2>1, <2>2, <2>3, <2>4, <2>5 DEF LogPath
  <1>5. ASSUME NEW c \in Admins, Configure(c) PROVE ClientInv'
    BY <1>5 DEF Configure, SetLogType, SetLogLevel, SetMaxPerLogFileSize, StopLog, ClientInv
  <1>6. ASSUME OnThreadRun PROVE ClientInv'
    <2>1. opened \in Nat /\ opened' \in Nat /\ opened <= opened'
      <3>1. CASE RotateOpen
        BY <3>1, OpenedFile DEF RotateOpen
      <3>2. CASE ~RotateOpen
        <4>1. opened' = opened
          BY <1>6, <3>2 DEF OnThreadRun, TakeLines, PrintLog, WriteLog, WriteStuck, WriteClosed, PrintEnd,
                            RotateSet, SetLogFile
        <4> QED BY <4>1, SizeAssumption DEF TypeOK
      <3> QED BY <3>1, <3>2
    <2>2. UNCHANGED clients
      BY <1>6 DEF OnThreadRun, TakeLines, PrintLog, WriteLog, WriteStuck, WriteClosed, PrintEnd, RotateOpen, RotateSet
    <2> QED BY <2>1, <2>2 DEF ClientInv
  <1> QED BY <1>1, <1>2, <1>3, <1>4, <1>5, <1>6 DEF Next

LEMMA ThreadInit == Init => ThreadInv
  BY DEF Init, ThreadInv

\* An action of a client but for the start of the thread.
LEMMA ThreadKept ==
    ASSUME ThreadInv, UNCHANGED <<lpc, mapTmp, started>>
    PROVE  ThreadInv'
  BY DEF ThreadInv, Batch

LEMMA ThreadStep ==
    ASSUME TypeOK, ThreadInv, Next
    PROVE  ThreadInv'
  <1> USE DEF thread, conf
  <1>1. ASSUME NEW c \in Loggers, LogCheck(c) \/ LogAppend(c) PROVE ThreadInv'
    BY <1>1, ThreadKept DEF LogCheck, LogAppend
  <1>2. ASSUME NEW c \in Admins, InitParams(c) \/ InitConf(c) PROVE ThreadInv'
    BY <1>2, ThreadKept DEF InitParams, InitConf
  <1>3. ASSUME NEW c \in Admins, InitStart(c) PROVE ThreadInv'
    BY <1>3 DEF InitStart, ThreadInv, Batch
  <1>4. ASSUME NEW c \in Admins, LogPath(c) PROVE ThreadInv'
    BY <1>4, ThreadKept DEF LogPath, SetLogPath, PathMade, PathNotMade, PathOpen, PathSet
  <1>5. ASSUME NEW c \in Admins, Configure(c) PROVE ThreadInv'
    BY <1>5, ThreadKept DEF Configure, SetLogType, SetLogLevel, SetMaxPerLogFileSize, StopLog
  <1>6. ASSUME OnThreadRun PROVE ThreadInv'
    <2>1. started' = started /\ started
      BY <1>6 DEF OnThreadRun, TakeLines, PrintLog, WriteLog, WriteStuck, WriteClosed, PrintEnd, RotateOpen,
                  RotateSet, ThreadInv
    <2>2. CASE TakeLines
      BY <2>1, <2>2 DEF TakeLines, ThreadInv
    <2>3. CASE PrintLog
      BY <2>1, <2>3 DEF PrintLog, ThreadInv, Batch
    <2>4. CASE WriteLog
      BY <2>1, <2>4 DEF WriteLog, Check, ThreadInv
    <2>5. CASE PrintEnd
      <3>1. mapTmp = NoLines
        BY <2>5 DEF PrintEnd, Batch, TypeOK, NoLines
      <3> QED BY <2>1, <2>5, <3>1 DEF PrintEnd, ThreadInv, NoLines
    <2>6. CASE WriteStuck \/ WriteClosed \/ RotateOpen \/ RotateSet
      BY <2>1, <2>6 DEF WriteStuck, WriteClosed, RotateOpen, RotateSet, ThreadInv
    <2> QED BY <1>6, <2>2, <2>3, <2>4, <2>5, <2>6 DEF OnThreadRun
  <1> QED BY <1>1, <1>2, <1>3, <1>4, <1>5, <1>6 DEF Next, InitLog

-----------------------------------------------------------------------------
(* Lines. *)

\* The numbers of the lines accepted, one more of them.
LEMMA OneMore ==
    ASSUME NEW n \in Nat
    PROVE  Append([i \in 1..n |-> i], n + 1) = [i \in 1..(n + 1) |-> i]
  <1> DEFINE s == [i \in 1..n |-> i]
             t == [i \in 1..(n + 1) |-> i]
  <1>1. s \in Seq(Nat) /\ Len(s) = n /\ t \in Seq(Nat) /\ Len(t) = n + 1
    OBVIOUS
  <1>2. Append(s, n + 1) \in Seq(Nat) /\ Len(Append(s, n + 1)) = n + 1
    BY <1>1, AppendProperties
  <1>3. \A i \in 1..n : Append(s, n + 1)[i] = s[i]
    BY <1>1, AppendProperties
  <1>4. Append(s, n + 1)[n + 1] = n + 1
    BY <1>1, AppendProperties
  <1>5. \A i \in 1..(n + 1) : Append(s, n + 1)[i] = t[i]
    BY <1>3, <1>4
  <1> HIDE DEF s, t
  <1>6. Append(s, n + 1) = t
    BY <1>1, <1>2, <1>5, SeqEqual
  <1> QED BY <1>6 DEF s, t

\* What is waiting is behind what is printed and what is taken.
LEMMA WaitingLast ==
    ASSUME NEW S, NEW p \in Seq(S), NEW t \in Seq(S), NEW m \in Seq(S), NEW e \in S
    PROVE  p \o t \o Append(m, e) = Append(p \o t \o m, e)
  <1>1. p \o t \in Seq(S) /\ <<e>> \in Seq(S) /\ (p \o t) \o m \in Seq(S)
    BY ConcatProperties
  <1>2. Append(m, e) = m \o <<e>> /\ Append((p \o t) \o m, e) = ((p \o t) \o m) \o <<e>>
    BY <1>1, AppendIsConcat
  <1>3. ((p \o t) \o m) \o <<e>> = (p \o t) \o (m \o <<e>>)
    BY <1>1, ConcatAssociative
  <1> QED BY <1>2, <1>3

LEMMA WholeInit == Init => Whole
  <1>1. SUFFICES ASSUME Init, NEW l \in Levels
        PROVE printed[l] \o mapTmp[l] \o mMapLogItems[l] = [i \in 1..accepted[l] |-> i]
    BY DEF Whole
  <1>2. printed[l] = <<>> /\ mapTmp[l] = <<>> /\ mMapLogItems[l] = <<>> /\ accepted[l] = 0
    BY <1>1 DEF Init, NoLines
  <1>3. <<>> \o <<>> = <<>> /\ <<>> = [i \in 1..0 |-> i]
    BY ConcatEmptySeq
  <1> QED BY <1>2, <1>3

LEMMA WholeKept ==
    ASSUME Whole, UNCHANGED <<printed, mapTmp, mMapLogItems, accepted, lost>>
    PROVE  Whole'
  BY DEF Whole

LEMMA AppendWhole ==
    ASSUME TypeOK, ClientInv, Whole, NEW c \in Loggers, LogAppend(c)
    PROVE  Whole'
  <1> DEFINE l == cArg[c]
             n == accepted[l]
  <1>1. l \in Levels
    BY DEF LogAppend, ClientInv
  <1>2. n \in Nat /\ n + 1 \in 1..MaxLines
    <2>1. Accepted < MaxLines /\ accepted[l] \in Nat
      BY <1>1, SizeAssumption DEF LogAppend, TypeOK
    <2> QED BY <1>1, <2>1, AcceptedBound
  <1>3. accepted' = [accepted EXCEPT ![l] = n + 1]
        /\ mMapLogItems' = [mMapLogItems EXCEPT ![l] = Append(mMapLogItems[l], n + 1)]
        /\ UNCHANGED <<printed, mapTmp, lost>>
    BY <1>1 DEF LogAppend, TypeOK, thread, flags
  <1>4. SUFFICES ASSUME NEW x \in Levels, lost[x] = {}
        PROVE printed[x] \o mapTmp[x] \o mMapLogItems'[x] = [i \in 1..accepted'[x] |-> i]
    BY <1>3 DEF Whole
  <1>5. printed[x] \o mapTmp[x] \o mMapLogItems[x] = [i \in 1..accepted[x] |-> i]
    BY <1>4 DEF Whole
  <1>6. CASE x = l
    <2>1. printed[l] \in Seq(1..MaxLines) /\ mapTmp[l] \in Seq(1..MaxLines)
          /\ mMapLogItems[l] \in Seq(1..MaxLines)
      BY <1>1 DEF TypeOK
    <2>2. accepted'[l] = n + 1 /\ mMapLogItems'[l] = Append(mMapLogItems[l], n + 1)
      BY <1>1, <1>3 DEF TypeOK
    <2>3. printed[l] \o mapTmp[l] \o Append(mMapLogItems[l], n + 1)
          = Append(printed[l] \o mapTmp[l] \o mMapLogItems[l], n + 1)
      <3> DEFINE S == 1..MaxLines
                 p == printed[l]
                 t == mapTmp[l]
                 m == mMapLogItems[l]
                 e == n + 1
      <3>1. p \in Seq(S) /\ t \in Seq(S) /\ m \in Seq(S) /\ e \in S
        BY <1>2, <2>1
      <3> HIDE DEF S, p, t, m, e
      <3>2. p \o t \o Append(m, e) = Append(p \o t \o m, e)
        BY <3>1, WaitingLast
      <3> QED BY <3>2 DEF p, t, m, e
    <2>4. printed[l] \o mapTmp[l] \o mMapLogItems[l] = [i \in 1..n |-> i]
      BY <1>5, <1>6
    <2>5. Append([i \in 1..n |-> i], n + 1) = [i \in 1..(n + 1) |-> i]
      BY <1>2, OneMore
    <2> HIDE DEF l, n
    <2> QED BY <1>6, <2>2, <2>3, <2>4, <2>5
  <1>7. CASE x # l
    <2>1. accepted'[x] = accepted[x] /\ mMapLogItems'[x] = mMapLogItems[x]
      BY <1>1, <1>3, <1>7 DEF TypeOK
    <2> QED BY <1>5, <2>1
  <1> QED BY <1>6, <1>7

LEMMA TakeWhole ==
    ASSUME TypeOK, ThreadInv, Whole, TakeLines
    PROVE  Whole'
  <1>1. mapTmp = NoLines /\ mapTmp' = mMapLogItems /\ mMapLogItems' = NoLines
        /\ UNCHANGED <<printed, accepted, lost>>
    BY DEF TakeLines, ThreadInv, flags
  <1>2. SUFFICES ASSUME NEW l \in Levels, lost[l] = {}
        PROVE printed[l] \o mMapLogItems[l] \o NoLines[l] = [i \in 1..accepted[l] |-> i]
    BY <1>1 DEF Whole
  <1>3. printed[l] \o NoLines[l] \o mMapLogItems[l] = [i \in 1..accepted[l] |-> i]
    BY <1>1, <1>2 DEF Whole
  <1>4. NoLines[l] = <<>> /\ printed[l] \in Seq(1..MaxLines) /\ mMapLogItems[l] \in Seq(1..MaxLines)
    BY DEF NoLines, TypeOK
  <1>5. printed[l] \o <<>> = printed[l]
    BY <1>4, ConcatEmptySeq
  <1>6. printed[l] \o mMapLogItems[l] \in Seq(1..MaxLines)
    BY <1>4, ConcatProperties
  <1>7. (printed[l] \o mMapLogItems[l]) \o <<>> = printed[l] \o mMapLogItems[l]
    BY <1>6, ConcatEmptySeq
  <1> QED BY <1>3, <1>4, <1>5, <1>7

LEMMA WriteWhole ==
    ASSUME TypeOK, ThreadInv, Whole, WriteLog
    PROVE  Whole'
  <1> DEFINE l == Min(Batch)
  <1>0. l \in Batch
    BY LowestLevel DEF WriteLog, ThreadInv
  <1>1. l \in Levels
    BY <1>0 DEF Batch
  <1>2. PICK out \in Output(mapTmp[l]) :
           printed' = [printed EXCEPT ![l] = @ \o out]
             /\ lost' = IF out = mapTmp[l] THEN lost
                        ELSE [lost EXCEPT ![l] = @ \cup Range(mapTmp[l])]
    BY DEF WriteLog
  <1>3. mapTmp' = [mapTmp EXCEPT ![l] = <<>>] /\ UNCHANGED <<mMapLogItems, accepted>>
    BY DEF WriteLog, lines
  <1> HIDE DEF l
  <1>4. SUFFICES ASSUME NEW x \in Levels, lost'[x] = {}
        PROVE printed'[x] \o mapTmp'[x] \o mMapLogItems[x] = [i \in 1..accepted[x] |-> i]
    BY <1>3 DEF Whole
  <1>5. lost \in [Levels -> SUBSET (1..MaxLines)] /\ mapTmp[l] \in Seq(1..MaxLines)
    BY <1>1 DEF TypeOK
  <1>5a. x = l => out = mapTmp[l]
    <2> SUFFICES ASSUME x = l, out # mapTmp[l] PROVE FALSE
      OBVIOUS
    <2>1. lost'[l] = lost[l] \cup Range(mapTmp[l])
      BY <1>1, <1>2, <1>5
    <2>2. Range(mapTmp[l]) # {}
      <3>1. mapTmp[l] # <<>>
        BY <1>0 DEF Batch
      <3>2. 1 \in DOMAIN mapTmp[l]
        BY <1>5, <3>1
      <3> QED BY <3>2 DEF Range
    <2> QED BY <1>4, <2>1, <2>2
  <1>5b. lost[x] = {}
    BY <1>1, <1>2, <1>4, <1>5
  <1>6. printed[x] \o mapTmp[x] \o mMapLogItems[x] = [i \in 1..accepted[x] |-> i]
    BY <1>5b DEF Whole
  <1>7. CASE x = l
    <2>1. printed'[x] = printed[x] \o mapTmp[x] /\ mapTmp'[x] = <<>>
      BY <1>1, <1>2, <1>3, <1>5a, <1>7 DEF TypeOK
    <2>2. printed[x] \in Seq(1..MaxLines) /\ mapTmp[x] \in Seq(1..MaxLines)
      BY DEF TypeOK
    <2>3. printed[x] \o mapTmp[x] \in Seq(1..MaxLines)
      BY <2>2, ConcatProperties
    <2>4. (printed[x] \o mapTmp[x]) \o <<>> = printed[x] \o mapTmp[x]
      BY <2>3, ConcatEmptySeq
    <2> QED BY <1>6, <2>1, <2>4
  <1>8. CASE x # l
    <2>1. printed'[x] = printed[x] /\ mapTmp'[x] = mapTmp[x]
      BY <1>1, <1>2, <1>3, <1>8 DEF TypeOK
    <2> QED BY <1>6, <2>1
  <1> QED BY <1>7, <1>8

\* The log thread stuck: its level has lines that are lost.
LEMMA StuckWhole ==
    ASSUME TypeOK, ThreadInv, Whole, WriteStuck
    PROVE  Whole'
  <1> DEFINE l == Min(Batch)
  <1>1. l \in Batch /\ l \in Levels
    BY LowestLevel DEF WriteStuck, ThreadInv
  <1>2. PICK more : printed' = [printed EXCEPT ![l] = @ \o more]
    BY DEF WriteStuck
  <1>3. lost' = [lost EXCEPT ![l] = @ \cup Range(mapTmp[l])]
        /\ UNCHANGED <<mapTmp, mMapLogItems, accepted>>
    BY DEF WriteStuck, lines
  <1> HIDE DEF l
  <1>4. SUFFICES ASSUME NEW x \in Levels, lost'[x] = {}
        PROVE printed'[x] \o mapTmp[x] \o mMapLogItems[x] = [i \in 1..accepted[x] |-> i]
    BY <1>3 DEF Whole
  <1>5. lost \in [Levels -> SUBSET (1..MaxLines)] /\ mapTmp[l] \in Seq(1..MaxLines)
    BY <1>1 DEF TypeOK
  <1>6. x # l
    <2>1. 1 \in DOMAIN mapTmp[l]
      BY <1>1, <1>5 DEF Batch
    <2>2. Range(mapTmp[l]) # {}
      BY <2>1 DEF Range
    <2>3. lost'[l] # {}
      BY <1>1, <1>3, <1>5, <2>2
    <2> QED BY <1>4, <2>3
  <1>7. printed'[x] = printed[x] /\ lost'[x] = lost[x]
    BY <1>1, <1>2, <1>3, <1>6 DEF TypeOK
  <1> QED BY <1>4, <1>7 DEF Whole

LEMMA WholeStep ==
    ASSUME TypeOK, ClientInv, ThreadInv, Whole, Next
    PROVE  Whole'
  <1> USE DEF thread, lines, flags
  <1>1. ASSUME NEW c \in Loggers, LogCheck(c) PROVE Whole'
    BY <1>1, WholeKept DEF LogCheck
  <1>2. ASSUME NEW c \in Admins, InitLog(c) PROVE Whole'
    BY <1>2, WholeKept DEF InitLog, InitParams, InitConf, InitStart
  <1>3. ASSUME NEW c \in Admins, LogPath(c) PROVE Whole'
    BY <1>3, WholeKept DEF LogPath, SetLogPath, PathMade, PathNotMade, PathOpen, PathSet
  <1>4. ASSUME NEW c \in Admins, Configure(c) PROVE Whole'
    BY <1>4, WholeKept DEF Configure, SetLogType, SetLogLevel, SetMaxPerLogFileSize, StopLog
  <1>5. ASSUME PrintLog \/ WriteClosed \/ PrintEnd \/ RotateOpen \/ RotateSet PROVE Whole'
    BY <1>5, WholeKept DEF PrintLog, WriteClosed, PrintEnd, RotateOpen, RotateSet
  <1> QED BY <1>1, <1>2, <1>3, <1>4, <1>5, AppendWhole, TakeWhole, WriteWhole, StuckWhole
          DEF Next, OnThreadRun
-----------------------------------------------------------------------------
(* Files. *)

LEMMA HandleInit == Init => HandleInv
  BY DEF Init, HandleInv

\* Steps that leave the files alone: the thread writes or is about to set a
\* file as before, or does neither; no client comes to set one or has set it.
LEMMA HandleKept ==
    ASSUME HandleInv, UNCHANGED <<mpFile, opened, closed, repathed>>,
           UNCHANGED <<lpc, wfile>> \/ (lpc # "set" /\ lpc' \notin {"write", "set"}),
           \A c \in Clients : (cpc'[c] = "set") = (cpc[c] = "set")
                              /\ (cpc[c] = "set" => cArg'[c] = cArg[c])
    PROVE  HandleInv'
  <1>1. \A h : Pending(h)' <=> Pending(h)
    BY DEF Pending
  <1> QED BY <1>1 DEF HandleInv

\* A client that is not setting a file goes on to something else.
LEMMA SetsNothing ==
    ASSUME TypeOK, NEW c \in Clients, NEW pc, Goto(c, pc), cpc[c] # "set", pc # "set"
    PROVE  \A d \in Clients : (cpc'[d] = "set") = (cpc[d] = "set")
                              /\ (cpc[d] = "set" => cArg'[d] = cArg[d])
  BY DEF TypeOK

\* A file is opened by a client.
LEMMA PathOpenHandle ==
    ASSUME TypeOK, ClientInv, HandleInv, NEW c \in Admins, PathOpen(c)
    PROVE  HandleInv'
  <1>0. c \in Clients /\ cpc[c] = "open" /\ cpc' = [cpc EXCEPT ![c] = "set"]
        /\ UNCHANGED <<mpFile, closed, lpc, wfile, repathed>>
    BY DEF PathOpen, thread, flags
  <1>1. PICK h \in Handles : OpenFile(h) /\ cArg' = [cArg EXCEPT ![c] = h]
    BY DEF PathOpen
  <1>2. opened \in Nat /\ opened' \in Nat /\ opened <= opened' /\ h \in 0..opened'
        /\ ((opened' = h /\ h = opened + 1) \/ (h = stdout /\ opened' = opened))
    BY <1>1, OpenedFile
  <1>3. /\ cpc'[c] = "set" /\ cArg'[c] = h
        /\ \A d \in Clients : d # c => cpc'[d] = cpc[d] /\ cArg'[d] = cArg[d]
    BY <1>0, <1>1 DEF TypeOK
  <1>4. \A d \in Clients : cpc[d] = "set" => cArg[d] \in 0..opened
    BY DEF ClientInv
  <1>5. \A f : Pending(f)' <=> Pending(f) \/ f = h
    BY <1>0, <1>3 DEF Pending
  <1>6. /\ (closed \subseteq 1..opened /\ mpFile \in 0..opened /\ mpFile \notin closed)'
        /\ (lpc \in {"write", "set"} => wfile \in 0..opened)'
        /\ (lpc = "write" => wfile \in closed \cup {mpFile, stdout})'
        /\ (lpc = "write" /\ ~repathed => wfile = mpFile)'
    BY <1>0, <1>2 DEF HandleInv
  <1>7. \A f \in 1..opened' : f \in closed \/ f = mpFile \/ Pending(f)'
    BY <1>2, <1>5 DEF HandleInv
  <1>8. ASSUME NEW f \in 1..opened', Pending(f)' PROVE f # mpFile /\ f \notin closed
    <2>1. CASE f = h /\ f > opened
      BY <1>2, <2>1 DEF HandleInv
    <2>2. CASE Pending(f) /\ f <= opened
      BY <1>2, <2>2 DEF HandleInv
    <2>3. Pending(f) => f <= opened
      BY <1>2, <1>4 DEF Pending, HandleInv
    <2> QED BY <1>2, <1>5, <1>8, <2>1, <2>2, <2>3
  <1>9. ASSUME NEW d \in Clients, cpc'[d] = "set", cArg'[d] # stdout
        PROVE  /\ lpc = "set" => cArg'[d] # wfile
               /\ \A e \in Clients : cpc'[e] = "set" /\ d # e => cArg'[d] # cArg'[e]
    <2>1. CASE d = c
      <3>1. cArg'[d] = opened + 1
        BY <1>2, <1>3, <1>9, <2>1
      <3> QED BY <1>2, <1>3, <1>4, <2>1, <3>1 DEF HandleInv
    <2>2. CASE d # c
      <3>1. cpc[d] = "set" /\ cArg'[d] = cArg[d] /\ cArg[d] \in 1..opened
        BY <1>2, <1>3, <1>4, <1>9, <2>2
      <3> QED BY <1>2, <1>3, <2>2, <3>1 DEF HandleInv
    <2> QED BY <2>1, <2>2
  <1> QED BY <1>0, <1>6, <1>7, <1>8, <1>9 DEF HandleInv

\* A file is opened by the log thread.
LEMMA RotateOpenHandle ==
    ASSUME TypeOK, ClientInv, HandleInv, RotateOpen
    PROVE  HandleInv'
  <1>0. lpc = "open" /\ lpc' = "set" /\ UNCHANGED <<mpFile, closed, cpc, cArg, repathed>>
    BY DEF RotateOpen, clients, flags
  <1>1. PICK h \in Handles : OpenFile(h) /\ wfile' = h
    BY DEF RotateOpen
  <1>2. opened \in Nat /\ opened' \in Nat /\ opened <= opened' /\ h \in 0..opened'
        /\ ((opened' = h /\ h = opened + 1) \/ (h = stdout /\ opened' = opened))
    BY <1>1, OpenedFile
  <1>3. \A d \in Clients : cpc[d] = "set" => cArg[d] \in 0..opened
    BY DEF ClientInv
  <1>4. \A f : Pending(f)' <=> Pending(f) \/ f = h
    BY <1>0, <1>1 DEF Pending
  <1>5. /\ (closed \subseteq 1..opened /\ mpFile \in 0..opened /\ mpFile \notin closed)'
        /\ wfile' \in 0..opened'
    BY <1>0, <1>1, <1>2 DEF HandleInv
  <1>6. \A f \in 1..opened' : f \in closed \/ f = mpFile \/ Pending(f)'
    BY <1>2, <1>4 DEF HandleInv
  <1>7. ASSUME NEW f \in 1..opened', Pending(f)' PROVE f # mpFile /\ f \notin closed
    <2>1. CASE f = h /\ f > opened
      BY <1>2, <2>1 DEF HandleInv
    <2>2. CASE Pending(f) /\ f <= opened
      BY <1>2, <2>2 DEF HandleInv
    <2>3. Pending(f) => f <= opened
      BY <1>0, <1>2, <1>3 DEF Pending
    <2> QED BY <1>2, <1>4, <1>7, <2>1, <2>2, <2>3
  <1>8. ASSUME NEW d \in Clients, cpc[d] = "set", cArg[d] # stdout
        PROVE  cArg[d] # wfile'
    BY <1>1, <1>2, <1>3, <1>8
  <1> QED BY <1>0, <1>5, <1>6, <1>7, <1>8 DEF HandleInv

\* A client sets its file; the one before is closed under the log thread,
\* if that runs.
LEMMA PathSetHandle ==
    ASSUME TypeOK, ClientInv, ThreadInv, HandleInv, NEW c \in Admins, PathSet(c)
    PROVE  HandleInv'
  <1> DEFINE h == cArg[c]
  <1>0. /\ c \in Clients /\ cpc[c] = "set"
        /\ closed' = closed \cup ({mpFile} \ {stdout}) /\ mpFile' = h
        /\ UNCHANGED <<opened, lpc, wfile>>
        /\ repathed' = (repathed \/ started)
    BY DEF PathSet, SetLogFile, thread
  <1>1. /\ cpc'[c] # "set"
        /\ \A d \in Clients : d # c => cpc'[d] = cpc[d] /\ cArg'[d] = cArg[d]
    BY <1>0 DEF PathSet, PathDone, TypeOK
  <1>2. opened \in Nat /\ \A d \in Clients : cpc[d] = "set" => cArg[d] \in 0..opened
    BY OpenedNat DEF ClientInv
  <1>3. \A f \in 1..opened : Pending(f)' <=> Pending(f) /\ f # h
    BY <1>0, <1>1, <1>2 DEF Pending, HandleInv
  <1>4. h \in 0..opened /\ (h # stdout => Pending(h) /\ h # mpFile /\ h \notin closed)
    BY <1>0, <1>2 DEF Pending, HandleInv
  <1> HIDE DEF h
  <1>5. (closed \subseteq 1..opened /\ mpFile \in 0..opened /\ mpFile \notin closed)'
    <2>1. closed \subseteq 1..opened /\ mpFile \in 0..opened
      BY DEF HandleInv
    <2>2. closed' \subseteq 1..opened
      BY <1>0, <1>2, <2>1
    <2>3. mpFile' \notin closed'
      BY <1>0, <1>2, <1>4, <2>1
    <2> QED BY <1>0, <1>4, <2>2, <2>3
  <1>6. lpc = "write" => repathed'
    BY <1>0 DEF ThreadInv
  <1>7. /\ (lpc \in {"write", "set"} => wfile \in 0..opened)'
        /\ (lpc = "write" => wfile \in closed \cup {mpFile, stdout})'
    BY <1>0 DEF HandleInv
  <1>8. \A f \in 1..opened : f \in closed' \/ f = mpFile' \/ Pending(f)'
    BY <1>0, <1>2, <1>3 DEF HandleInv
  <1>9. \A f \in 1..opened : Pending(f)' => f # mpFile' /\ f \notin closed'
    BY <1>0, <1>2, <1>3 DEF HandleInv
  <1>10. ASSUME NEW d \in Clients, cpc'[d] = "set", cArg'[d] # stdout
         PROVE  /\ lpc' = "set" => cArg'[d] # wfile'
                /\ \A e \in Clients : cpc'[e] = "set" /\ d # e => cArg'[d] # cArg'[e]
    BY <1>0, <1>1, <1>10 DEF HandleInv
  <1> QED BY <1>0, <1>5, <1>6, <1>7, <1>8, <1>9, <1>10 DEF HandleInv

\* The log thread sets the file it has opened.
LEMMA RotateSetHandle ==
    ASSUME TypeOK, ClientInv, HandleInv, RotateSet
    PROVE  HandleInv'
  <1>0. /\ lpc = "set" /\ lpc' = "print"
        /\ closed' = closed \cup ({mpFile} \ {stdout}) /\ mpFile' = wfile
        /\ UNCHANGED <<opened, cpc, cArg, repathed>>
    BY DEF RotateSet, SetLogFile, clients, flags
  <1>1. opened \in Nat /\ \A d \in Clients : cpc[d] = "set" => cArg[d] \in 0..opened
    BY OpenedNat DEF ClientInv
  <1>2. wfile \in 0..opened /\ (wfile # stdout => wfile # mpFile /\ wfile \notin closed)
    BY <1>0, <1>1 DEF Pending, HandleInv
  <1>3. \A f \in 1..opened : Pending(f)' <=> Pending(f) /\ f # wfile
    BY <1>0, <1>1 DEF Pending, HandleInv
  <1>4. (closed \subseteq 1..opened /\ mpFile \in 0..opened /\ mpFile \notin closed)'
    BY <1>0, <1>1, <1>2 DEF HandleInv
  <1>5. \A f \in 1..opened : f \in closed' \/ f = mpFile' \/ Pending(f)'
    BY <1>0, <1>1, <1>3 DEF HandleInv
  <1>6. \A f \in 1..opened : Pending(f)' => f # mpFile' /\ f \notin closed'
    BY <1>0, <1>1, <1>3 DEF HandleInv
  <1> QED BY <1>0, <1>4, <1>5, <1>6 DEF HandleInv

LEMMA HandleStep ==
    ASSUME TypeOK, ClientInv, ThreadInv, HandleInv, Next
    PROVE  HandleInv'
  <1> USE DEF files, thread, clients, flags
  <1>1. ASSUME NEW c \in Loggers, LogCheck(c) PROVE HandleInv'
    <2>1. \A d \in Clients : (cpc'[d] = "set") = (cpc[d] = "set")
                             /\ (cpc[d] = "set" => cArg'[d] = cArg[d])
      BY <1>1 DEF LogCheck, TypeOK
    <2> QED BY <1>1, <2>1, HandleKept DEF LogCheck
  <1>2. ASSUME NEW c \in Loggers, LogAppend(c) PROVE HandleInv'
    BY <1>2, SetsNothing, HandleKept DEF LogAppend
  <1>3. ASSUME NEW c \in Admins, InitParams(c) \/ InitConf(c) PROVE HandleInv'
    BY <1>3, SetsNothing, HandleKept DEF InitParams, InitConf, PathStart
  <1>4. ASSUME NEW c \in Admins, InitStart(c) PROVE HandleInv'
    <2>1. lpc' = lpc \/ (lpc # "set" /\ lpc' \notin {"write", "set"})
      BY <1>4 DEF InitStart, ThreadInv
    <2> QED BY <1>4, <2>1, SetsNothing, HandleKept DEF InitStart
  <1>5. ASSUME NEW c \in Admins, SetLogPath(c) \/ PathMade(c) \/ PathNotMade(c) PROVE HandleInv'
    BY <1>5, SetsNothing, HandleKept DEF SetLogPath, PathMade, PathNotMade, PathStart, PathDone
  <1>6. ASSUME NEW c \in Admins, Configure(c) PROVE HandleInv'
    BY <1>6, HandleKept DEF Configure, SetLogType, SetLogLevel, SetMaxPerLogFileSize, StopLog
  <1>7. CASE TakeLines \/ WriteLog \/ WriteStuck \/ WriteClosed \/ PrintEnd
    BY <1>7, HandleKept DEF TakeLines, WriteLog, WriteStuck, Check, WriteClosed, PrintEnd
  <1>8. CASE PrintLog
    <2>1. \A h : Pending(h)' <=> Pending(h)
      BY <1>8 DEF PrintLog, Pending
    <2> QED BY <1>8, <2>1 DEF PrintLog, HandleInv
  <1> QED BY <1>1, <1>2, <1>3, <1>4, <1>5, <1>6, <1>7, <1>8, PathOpenHandle, PathSetHandle,
             RotateOpenHandle, RotateSetHandle DEF Next, InitLog, LogPath, OnThreadRun
LEMMA SizeInit == Init => SizeBound
  BY SizeAssumption DEF Init, SizeBound, OneName, Pending

\* Steps that write nothing, open nothing and set no file.
LEMMA SizeKept ==
    ASSUME TypeOK, SizeBound, UNCHANGED <<mpFile, opened, name, size, miCurFileCount>>,
           miMaxPerLogFileSize' \in Nat, miMaxPerLogFileSize' >= miMaxPerLogFileSize,
           retyped => retyped',
           ~retyped' /\ opened > 0 => iLogType' # LOG_TYPE_SCREEN,
           lpc' \in Steady => lpc \in Steady,
           \A h : Pending(h)' => Pending(h)
    PROVE  SizeBound'
  <1>1. miMaxPerLogFileSize \in Nat /\ mpFile \in Handles /\ size \in [Handles -> Nat]
    BY DEF TypeOK
  <1>2. OneName' => OneName
    BY DEF OneName
  <1>3. (miMaxPerLogFileSize > 0 /\ \A h \in Handles : h > opened => name[h] = h)'
    BY <1>1 DEF SizeBound
  <1>4. ASSUME ~retyped', OneName'
        PROVE  /\ \A h \in Handles \ {stdout} : h > opened \/ Pending(h)' => size[h] = 0
               /\ mpFile # stdout /\ lpc' \in Steady =>
                      size[mpFile] <= miCurFileCount /\ size[mpFile] < miMaxPerLogFileSize'
    BY <1>1, <1>2, <1>4 DEF SizeBound
  <1> HIDE DEF Steady, OneName
  <1> QED BY <1>3, <1>4 DEF SizeBound

\* A file is opened: it is empty, and opened for a type that is not the
\* screen.
LEMMA OpenSize ==
    ASSUME TypeOK, SizeBound, NEW h \in Handles, OpenFile(h),
           UNCHANGED <<mpFile, size, miCurFileCount, miMaxPerLogFileSize, retyped, iLogType>>,
           lpc' \in Steady => lpc \in Steady,
           \A f : Pending(f)' => Pending(f) \/ f = h
    PROVE  SizeBound'
  <1>1. /\ opened \in Nat /\ opened' \in Nat /\ opened <= opened'
        /\ (opened' = h /\ h = opened + 1) \/ (h = stdout /\ opened' = opened)
    BY OpenedFile
  <1>2. CASE h = stdout
    <2>1. UNCHANGED <<opened, name>>
      BY <1>1, <1>2 DEF OpenFile
    <2>2. ~retyped' /\ opened' > 0 => iLogType' # LOG_TYPE_SCREEN
      BY <2>1 DEF SizeBound
    <2>3. (miMaxPerLogFileSize > 0 /\ \A f \in Handles : f > opened => name[f] = f)'
      BY <2>1 DEF SizeBound
    <2>4. ASSUME ~retyped', OneName'
          PROVE  /\ \A f \in Handles \ {stdout} : f > opened' \/ Pending(f)' => size[f] = 0
                 /\ mpFile # stdout /\ lpc' \in Steady =>
                        size[mpFile] <= miCurFileCount /\ size[mpFile] < miMaxPerLogFileSize'
      BY <1>2, <2>1, <2>4 DEF SizeBound, OneName
    <2> HIDE DEF Steady, OneName
    <2> QED BY <2>2, <2>3, <2>4 DEF SizeBound
  <1>3. CASE h # stdout
    <2>1. opened' = h /\ h = opened + 1 /\ iLogType # LOG_TYPE_SCREEN
      BY <1>1, <1>3 DEF OpenFile
    <2>2. PICK n : name' = [name EXCEPT ![h] = n]
      BY <1>3 DEF OpenFile
    <2>3. \A f \in Handles : f > opened => name[f] = f
      BY DEF SizeBound
    <2>4. name \in [Handles -> Handles]
      BY DEF TypeOK
    <2>5. \A f \in Handles : f # h => name'[f] = name[f]
      BY <2>2, <2>4
    <2>6. OneName' => OneName
      BY <1>1, <2>1, <2>3, <2>5 DEF OneName
    <2>7. (miMaxPerLogFileSize > 0 /\ \A f \in Handles : f > opened => name[f] = f)'
      BY <1>1, <2>1, <2>3, <2>5 DEF SizeBound
    <2>8. ASSUME ~retyped', OneName'
          PROVE  /\ \A f \in Handles \ {stdout} : f > opened' \/ Pending(f)' => size[f] = 0
                 /\ mpFile # stdout /\ lpc' \in Steady =>
                        size[mpFile] <= miCurFileCount /\ size[mpFile] < miMaxPerLogFileSize'
      BY <1>1, <2>1, <2>6, <2>8 DEF SizeBound
    <2>9. ~retyped' /\ opened' > 0 => iLogType' # LOG_TYPE_SCREEN
      BY <2>1
    <2> HIDE DEF Steady, OneName
    <2> QED BY <2>7, <2>8, <2>9 DEF SizeBound
  <1> QED BY <1>2, <1>3

\* A file opened before becomes the current one: nothing has been written to it.
LEMMA SetSize ==
    ASSUME TypeOK, SizeBound, NEW h \in Handles, Pending(h), mpFile' = h,
           UNCHANGED <<opened, name, size, miCurFileCount, miMaxPerLogFileSize, retyped, iLogType>>,
           \A f : Pending(f)' => Pending(f)
    PROVE  SizeBound'
  <1>1. miMaxPerLogFileSize \in Nat /\ miCurFileCount \in Nat
    BY DEF TypeOK
  <1>2. OneName' = OneName
    BY DEF OneName
  <1>3. /\ (miMaxPerLogFileSize > 0 /\ \A f \in Handles : f > opened => name[f] = f)'
        /\ (~retyped /\ opened > 0 => iLogType # LOG_TYPE_SCREEN)'
    BY DEF SizeBound
  <1>4. ASSUME ~retyped', OneName'
        PROVE  /\ \A f \in Handles \ {stdout} : f > opened \/ Pending(f)' => size[f] = 0
               /\ h # stdout => size[h] <= miCurFileCount /\ size[h] < miMaxPerLogFileSize
    BY <1>1, <1>2, <1>4 DEF SizeBound
  <1> HIDE DEF OneName
  <1> QED BY <1>3, <1>4 DEF SizeBound

\* The log thread writes to the current file, or to one no longer current;
\* the bytes are counted either way, and when the count is at the limit the
\* file is to be changed.
LEMMA WriteSize ==
    ASSUME TypeOK, ThreadInv, HandleInv, SizeBound, WriteLog
    PROVE  SizeBound'
  <1> DEFINE l == Min(Batch)
             n == Len(mapTmp[l])
             count == miCurFileCount + n
  <1>1. l \in Levels
    BY LowestLevel DEF WriteLog, ThreadInv
  <1>2. n \in Nat /\ miCurFileCount \in Nat /\ miMaxPerLogFileSize \in Nat
    BY <1>1 DEF TypeOK
  <1>3. /\ lpc = "write"
        /\ size' = IF wfile = stdout THEN size ELSE [size EXCEPT ![name[wfile]] = @ + n]
        /\ Check(count)
        /\ UNCHANGED <<opened, name, mpFile, miMaxPerLogFileSize, retyped, iLogType, cpc, cArg>>
    BY DEF WriteLog, conf, files, clients
  <1> HIDE DEF l, n
  <1>4. lpc' = "open" \/ (lpc' = "print" /\ miCurFileCount' = count
                          /\ (iLogType # LOG_TYPE_SCREEN => count < miMaxPerLogFileSize))
    <2>1. count \in Nat
      BY <1>2
    <2> HIDE DEF count
    <2> QED BY <1>2, <1>3, <2>1 DEF Check
  <1>5. \A f : Pending(f)' => Pending(f)
    BY <1>3, <1>4 DEF Pending
  <1>6. opened \in Nat /\ mpFile \in 0..opened /\ wfile \in closed \cup {mpFile, stdout}
        /\ closed \subseteq 1..opened /\ mpFile \notin closed /\ wfile \in 0..opened
    BY <1>3, OpenedNat DEF HandleInv
  <1>7. size \in [Handles -> Nat] /\ wfile \in Handles /\ mpFile \in Handles
    BY DEF TypeOK
  <1>8. OneName' = OneName
    BY <1>3 DEF OneName
  <1>9. /\ (miMaxPerLogFileSize > 0 /\ \A f \in Handles : f > opened => name[f] = f)'
        /\ (~retyped /\ opened > 0 => iLogType # LOG_TYPE_SCREEN)'
    BY <1>3 DEF SizeBound
  <1>10. ASSUME ~retyped, OneName
         PROVE  /\ \A f \in Handles \ {stdout} : f > opened \/ Pending(f)' => size'[f] = 0
                /\ mpFile # stdout /\ lpc' \in Steady =>
                       size'[mpFile] <= miCurFileCount' /\ size'[mpFile] < miMaxPerLogFileSize
    <2>1. /\ \A f \in Handles \ {stdout} : f > opened \/ Pending(f) => size[f] = 0
          /\ mpFile # stdout =>
                 size[mpFile] <= miCurFileCount /\ size[mpFile] < miMaxPerLogFileSize
      BY <1>3, <1>10 DEF SizeBound, Steady
    <2>2. size' = IF wfile = stdout THEN size ELSE [size EXCEPT ![wfile] = @ + n]
      BY <1>3, <1>7, <1>10 DEF OneName
    <2>3. wfile # stdout => wfile <= opened /\ ~Pending(wfile)
      BY <1>3, <1>6 DEF HandleInv
    <2>4. ASSUME NEW f \in Handles \ {stdout}, f > opened \/ Pending(f)' PROVE size'[f] = 0
      <3>1. size[f] = 0 /\ f # wfile
        BY <1>5, <1>6, <2>1, <2>3, <2>4
      <3> QED BY <1>7, <2>2, <3>1
    <2>5. ASSUME mpFile # stdout, lpc' \in Steady
          PROVE  size'[mpFile] <= miCurFileCount' /\ size'[mpFile] < miMaxPerLogFileSize
      <3>1. iLogType # LOG_TYPE_SCREEN
        BY <1>6, <1>10, <2>5 DEF SizeBound
      <3>2. miCurFileCount' = count /\ count < miMaxPerLogFileSize
        BY <1>4, <2>5, <3>1 DEF Steady
      <3>3. size'[mpFile] \in {size[mpFile], size[mpFile] + n} /\ size[mpFile] \in Nat
        BY <1>7, <2>2
      <3>4. size[mpFile] <= miCurFileCount
        BY <2>1, <2>5
      <3> QED BY <1>2, <3>2, <3>3, <3>4
    <2> QED BY <2>4, <2>5
  <1> HIDE DEF OneName, Steady
  <1> QED BY <1>3, <1>8, <1>9, <1>10 DEF SizeBound
LEMMA SizeStep ==
    ASSUME TypeOK, ClientInv, ThreadInv, HandleInv, SizeBound, Next
    PROVE  SizeBound'
  <1> USE DEF conf, files, written, thread, clients, flags
  <1>0. miMaxPerLogFileSize \in Nat /\ miMaxPerLogFileSize >= miMaxPerLogFileSize
        /\ (~retyped /\ opened > 0 => iLogType # LOG_TYPE_SCREEN)
    BY DEF TypeOK, SizeBound
  <1>1. ASSUME NEW c \in Loggers, LogCheck(c) PROVE SizeBound'
    <2>1. \A h : Pending(h)' => Pending(h)
      BY <1>1 DEF LogCheck, Pending, TypeOK
    <2> QED BY <1>0, <1>1, <2>1, SizeKept DEF LogCheck
  <1>2. ASSUME NEW c \in Clients, NEW pc, Goto(c, pc), pc # "set",
               lpc' = "set" => lpc = "set" /\ wfile' = wfile
        PROVE  \A h : Pending(h)' => Pending(h)
    BY <1>2 DEF Pending, TypeOK
  <1>3. ASSUME NEW c \in Loggers, LogAppend(c) PROVE SizeBound'
    <2>1. \A h : Pending(h)' => Pending(h)
      BY <1>2, <1>3 DEF LogAppend
    <2> QED BY <1>0, <1>3, <2>1, SizeKept DEF LogAppend
  <1>4. ASSUME NEW c \in Admins, InitParams(c) PROVE SizeBound'
    <2>1. \A h : Pending(h)' => Pending(h)
      BY <1>2, <1>4 DEF InitParams
    <2>2. (retyped => retyped') /\ (~retyped' /\ opened > 0 => iLogType' # LOG_TYPE_SCREEN)
      BY <1>4 DEF InitParams, TypeSet
    <2> QED BY <1>0, <1>4, <2>1, <2>2, SizeKept DEF InitParams
  <1>5. ASSUME NEW c \in Admins, InitConf(c) \/ SetLogPath(c) \/ PathMade(c) \/ PathNotMade(c)
        PROVE  SizeBound'
    <2>1. \A h : Pending(h)' => Pending(h)
      BY <1>2, <1>5 DEF InitConf, SetLogPath, PathMade, PathNotMade, PathStart, PathDone
    <2>2. UNCHANGED <<mpFile, opened, name, size, miCurFileCount, miMaxPerLogFileSize, retyped,
                      iLogType, lpc>>
      BY <1>5 DEF InitConf, SetLogPath, PathMade, PathNotMade
    <2> QED BY <1>0, <2>1, <2>2, SizeKept
  <1>6. ASSUME NEW c \in Admins, InitStart(c) PROVE SizeBound'
    <2>1. lpc' = lpc \/ (lpc \in Steady /\ lpc' = "wait")
      BY <1>6 DEF InitStart, ThreadInv, Steady, TypeOK
    <2>2. \A h : Pending(h)' => Pending(h)
      BY <1>2, <1>6, <2>1 DEF InitStart
    <2> QED BY <1>0, <1>6, <2>1, <2>2, SizeKept DEF InitStart
  <1>7. ASSUME NEW c \in Admins, PathOpen(c) PROVE SizeBound'
    <2>1. PICK h \in Handles : OpenFile(h) /\ cArg' = [cArg EXCEPT ![c] = h]
      BY <1>7 DEF PathOpen
    <2>2. cpc' = [cpc EXCEPT ![c] = "set"] /\ UNCHANGED <<lpc, wfile>>
      BY <1>7 DEF PathOpen
    <2>3. \A f : Pending(f)' => Pending(f) \/ f = h
      BY <2>1, <2>2 DEF Pending, TypeOK
    <2> QED BY <1>7, <2>1, <2>3, OpenSize DEF PathOpen
  <1>8. ASSUME NEW c \in Admins, PathSet(c) PROVE SizeBound'
    <2>1. \A h : Pending(h)' => Pending(h)
      <3>1. PICK pc \in {"start", "idle"} : Goto(c, pc)
        BY <1>8 DEF PathSet, PathDone
      <3>2. UNCHANGED <<lpc, wfile>>
        BY <1>8 DEF PathSet
      <3> QED BY <1>2, <3>1, <3>2
    <2>2. cArg[c] \in Handles /\ Pending(cArg[c])
      <3>1. cpc[c] = "set"
        BY <1>8 DEF PathSet
      <3>2. cArg[c] \in 0..opened /\ opened \in 0..MaxFiles /\ MaxFiles \in Nat
        BY <3>1, SizeAssumption DEF ClientInv, TypeOK
      <3> QED BY <3>1, <3>2 DEF Pending
    <2> QED BY <1>8, <2>1, <2>2, SetSize DEF PathSet, SetLogFile
  <1>9. ASSUME NEW c \in Admins, Configure(c) PROVE SizeBound'
    <2>1. \A h : Pending(h)' => Pending(h)
      BY <1>9 DEF Configure, SetLogType, SetLogLevel, SetMaxPerLogFileSize, StopLog, Pending
    <2>2. miMaxPerLogFileSize' \in Nat /\ miMaxPerLogFileSize' >= miMaxPerLogFileSize
      BY <1>0, <1>9, SizeAssumption
         DEF Configure, SetLogType, SetLogLevel, SetMaxPerLogFileSize, StopLog
    <2>3. (retyped => retyped') /\ (~retyped' /\ opened > 0 => iLogType' # LOG_TYPE_SCREEN)
      <3>1. CASE SetLogType(c)
        BY <3>1 DEF SetLogType, TypeSet
      <3>2. CASE ~SetLogType(c)
        <4>1. UNCHANGED <<iLogType, retyped, opened>>
          BY <1>9, <3>2 DEF Configure, SetLogLevel, SetMaxPerLogFileSize, StopLog
        <4> QED BY <1>0, <4>1
      <3> QED BY <3>1, <3>2
    <2>4. UNCHANGED <<mpFile, opened, name, size, miCurFileCount, lpc>>
      BY <1>9 DEF Configure, SetLogType, SetLogLevel, SetMaxPerLogFileSize, StopLog
    <2> QED BY <2>1, <2>2, <2>3, <2>4, SizeKept
  <1>10. ASSUME TakeLines \/ PrintLog \/ WriteStuck \/ WriteClosed \/ PrintEnd PROVE SizeBound'
    <2>1. \A h : Pending(h)' => Pending(h)
      BY <1>10 DEF TakeLines, PrintLog, WriteStuck, WriteClosed, PrintEnd, Pending
    <2>2. lpc' \in Steady => lpc \in Steady
      BY <1>10 DEF TakeLines, PrintLog, WriteStuck, WriteClosed, PrintEnd, Steady
    <2>3. UNCHANGED <<mpFile, opened, name, size, miCurFileCount, miMaxPerLogFileSize, retyped,
                      iLogType>>
      BY <1>10 DEF TakeLines, PrintLog, WriteStuck, WriteClosed, PrintEnd
    <2> QED BY <1>0, <2>1, <2>2, <2>3, SizeKept
  <1>11. ASSUME RotateOpen PROVE SizeBound'
    <2>1. PICK h \in Handles : OpenFile(h) /\ wfile' = h
      BY <1>11 DEF RotateOpen
    <2>2. \A f : Pending(f)' => Pending(f) \/ f = h
      BY <1>11, <2>1 DEF RotateOpen, Pending
    <2>3. lpc' \notin Steady
      BY <1>11 DEF RotateOpen, Steady
    <2> QED BY <1>11, <2>1, <2>2, <2>3, OpenSize DEF RotateOpen
  <1>12. ASSUME RotateSet PROVE SizeBound'
    <2>1. \A f : Pending(f)' => Pending(f)
      BY <1>12 DEF RotateSet, Pending
    <2>2. wfile \in Handles /\ Pending(wfile)
      BY <1>12 DEF RotateSet, Pending, TypeOK
    <2> QED BY <1>12, <2>1, <2>2, SetSize DEF RotateSet, SetLogFile
  <1> QED BY <1>1, <1>3, <1>4, <1>5, <1>6, <1>7, <1>8, <1>9, <1>10, <1>11, <1>12, WriteSize
          DEF Next, InitLog, LogPath, OnThreadRun

-----------------------------------------------------------------------------
(* The inductive invariant holds in every state of every behaviour, for any *)
(* threads, levels and files.                                               *)
LEMMA LogIInvInit == Init => LogIInv
  BY TypeInit, ClientInit, ThreadInit, WholeInit, HandleInit, SizeInit DEF LogIInv

LEMMA LogIInvStep == LogIInv /\ [Next]_vars => LogIInv'
  <1> SUFFICES ASSUME LogIInv, [Next]_vars PROVE LogIInv'
    OBVIOUS
  <1>0. TypeOK /\ ClientInv /\ ThreadInv /\ Whole /\ HandleInv /\ SizeBound
    BY DEF LogIInv
  <1>1. CASE UNCHANGED vars
    <2> USE DEF vars, conf, files, written, thread, clients, lines, flags
    <2>1. TypeOK'
      BY <1>0, <1>1 DEF TypeOK
    <2>2. ClientInv' /\ ThreadInv' /\ Whole'
      BY <1>0, <1>1 DEF ClientInv, ThreadInv, Batch, Whole
    <2>3. \A h : Pending(h)' <=> Pending(h)
      BY <1>1 DEF Pending
    <2>4. HandleInv'
      BY <1>0, <1>1, <2>3 DEF HandleInv
    <2>5. SizeBound'
      BY <1>0, <1>1, <2>3 DEF SizeBound, OneName, Steady
    <2> QED BY <2>1, <2>2, <2>4, <2>5 DEF LogIInv
  <1>2. CASE Next
    <2>1. TypeOK'
      BY <1>0, <1>2, LoggerType, InitLogType, LogPathType, ConfigureType, ThreadType DEF Next
    <2>2. ClientInv' /\ ThreadInv' /\ Whole' /\ HandleInv' /\ SizeBound'
      BY <1>0, <1>2, ClientStep, ThreadStep, WholeStep, HandleStep, SizeStep
    <2> QED BY <2>1, <2>2 DEF LogIInv
  <1> QED BY <1>1, <1>2

\* The whole invariant of the log (Log.cpp:51-298): types, where its threads
\* are, the lines of each level, the files and their sizes.
THEOREM LogInvCorrect == Spec => []LogIInv
  BY LogIInvInit, LogIInvStep, PTL DEF Spec

\* Whatever the threads do while the buffers change hands, what is printed,
\* taken and waiting of a level is what was accepted, in this order, until a
\* batch of its level is written short (Log.cpp:191-207,246-255,286-294).
THEOREM PrintedInOrderCorrect == Spec => []PrintedInOrder
  <1>1. LogIInv => PrintedInOrder
    BY DEF LogIInv, Whole, PrintedInOrder
  <1> QED BY <1>1, LogInvCorrect, PTL

\* No file is leaked, none that is closed becomes the current one, the log
\* thread writes to an open file unless SetLogPath is called while it runs,
\* and no file outgrows the limit but in the cases the property names
\* (Log.cpp:51-89,134-147).
THEOREM FilesKeptCorrect == Spec => []FilesKept
  <1>1. ASSUME LogIInv PROVE FilesClosed
    <2>1. TypeOK /\ HandleInv
      BY <1>1 DEF LogIInv
    <2>2. mpFile \notin closed /\ (lpc = "write" /\ ~repathed => wfile \notin closed)
      BY <2>1 DEF HandleInv
    <2>3. \A h \in 1..opened : h \in closed \/ h = mpFile \/ Pending(h)
      BY <2>1 DEF HandleInv
    <2> QED BY <2>2, <2>3 DEF FilesClosed, Pending
  <1>2. ASSUME LogIInv PROVE FileBelowLimit
    <2>1. SUFFICES ASSUME ~retyped, OneName, lpc = "wait", mpFile # stdout
          PROVE  ~(size[name[mpFile]] >= miMaxPerLogFileSize)
      BY DEF FileBelowLimit, TooBig, OneName
    <2>2. TypeOK /\ SizeBound
      BY <1>2 DEF LogIInv
    <2>3. mpFile \in Handles /\ size[mpFile] \in Nat /\ miMaxPerLogFileSize \in Nat
      BY <2>2 DEF TypeOK
    <2>4. name[mpFile] = mpFile
      BY <2>1, <2>3 DEF OneName
    <2>5. size[mpFile] < miMaxPerLogFileSize
      BY <2>1, <2>2 DEF SizeBound, Steady
    <2> QED BY <2>3, <2>4, <2>5
  <1>3. LogIInv => FilesKept
    BY <1>1, <1>2 DEF FilesKept
  <1> QED BY <1>3, LogInvCorrect, PTL
=============================================================================
