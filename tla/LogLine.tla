------------------------------ MODULE LogLine -------------------------------
(***************************************************************************)
(* CLog::AddLogItem up to the buffer of its level: the room a line is      *)
(* given, and what becomes of one whose text is as long as the room.       *)
(*                                                                         *)
(* One line at a time is followed (the thread's own until mcLogMutex is    *)
(* taken; Log has the threads).  prefix is the length of the time in front *)
(* of the text, text the length vsnprintf wants for the rest.              *)
(***************************************************************************)
EXTENDS MemBuffer

CONSTANTS
    MAX_PER_LINE_LOG,
    PrefixLens, Texts,
    MaxLevel,        \* bound: length of a level's content
    NoBuffer

ASSUME LineAssumption ==
    /\ MAX_PER_LINE_LOG \in Nat \ {0} /\ MAX_PER_LINE_LOG >= MEM_BUFFER_DEFAULT_LEN
    /\ PrefixLens \subseteq 0..(MAX_PER_LINE_LOG - 1) /\ Texts \subseteq Nat
    /\ NoBuffer \notin Buffers

VARIABLES
    fpc,              \* where AddLogItem is
    pLogBuffer,       \* the line's buffer
    lBufferSize, prefix, text, nPos,
    level,            \* the level's buffer in mMapLogItems
    \* history
    added, missing    \* bytes added to it, and those its first line lost

line == <<fpc, pLogBuffer, lBufferSize, prefix, text, nPos>>
linevars == <<line, level, added, missing>>

LineInit ==
    /\ fpc = "idle" /\ pLogBuffer = NoBuffer
    /\ lBufferSize = 0 /\ prefix = 0 /\ text = 0 /\ nPos = 0
    /\ level = NoBuffer /\ added = 0 /\ missing = 0

AddLogItem(b) ==
    /\ fpc = "idle" /\ b # level
    /\ level # NoBuffer => miBufferUseLen[level] < MaxLevel
    /\ DoAllocBuffer(b, MAX_PER_LINE_LOG)
    /\ fpc' = "format" /\ pLogBuffer' = b
    /\ lBufferSize' = MAX_PER_LINE_LOG
    /\ prefix' \in PrefixLens /\ text' \in Texts /\ nPos' = prefix'
    /\ UNCHANGED <<level, added, missing>>

\* Mutant: the size is doubled after the room is made.
RetryLate ==
    /\ fpc = "format" /\ text > lBufferSize
    /\ lBufferSize' = 2 * lBufferSize
    /\ DoAllocBuffer(pLogBuffer, lBufferSize)
    /\ UNCHANGED <<fpc, pLogBuffer, prefix, text, nPos, level, added, missing>>

\* The room was too small: twice as much.
Retry ==
    /\ fpc = "format" /\ text > lBufferSize
    /\ lBufferSize' = 2 * lBufferSize
    /\ DoAllocBuffer(pLogBuffer, lBufferSize')
    /\ UNCHANGED <<fpc, pLogBuffer, prefix, text, nPos, level, added, missing>>

\* The test does not count the prefix.  The newline is put behind the text.
Formatted ==
    /\ fpc = "format" /\ text <= lBufferSize
    /\ nPos' = nPos + text + 1
    /\ DoSetBuffLen(pLogBuffer, nPos')
    /\ fpc' = "put"
    /\ UNCHANGED <<pLogBuffer, lBufferSize, prefix, text, level, added, missing>>

\* Under mcLogMutex: the first line's buffer becomes the level's; a later
\* line is appended, with all the bytes it is taken to have.
PutFirst ==
    /\ fpc = "put" /\ level = NoBuffer
    /\ level' = pLogBuffer /\ pLogBuffer' = NoBuffer
    /\ added' = nPos
    /\ missing' = nPos - miBufferUseLen[pLogBuffer]
    /\ fpc' = "idle"
    /\ UNCHANGED <<bufvars, lBufferSize, prefix, text, nPos>>

PutNext ==
    /\ fpc = "put" /\ level # NoBuffer
    /\ DoAppend(level, miBufferLen[level], miBufferUseLen[level], miAppendNum[level],
                alloc[level], nPos)
    /\ added' = added + nPos
    /\ fpc' = "delete"
    /\ UNCHANGED <<pLogBuffer, lBufferSize, prefix, text, nPos, level, missing>>

Delete(b) ==
    /\ alloc' = [alloc EXCEPT ![b] = 0]
    /\ miBufferLen' = [miBufferLen EXCEPT ![b] = 0]
    /\ miBufferUseLen' = [miBufferUseLen EXCEPT ![b] = 0]
    /\ miAppendNum' = [miAppendNum EXCEPT ![b] = 0]
    /\ reach' = [reach EXCEPT ![b] = 0]

DeleteLine ==
    /\ fpc = "delete"
    /\ Delete(pLogBuffer)
    /\ pLogBuffer' = NoBuffer /\ fpc' = "idle"
    /\ UNCHANGED <<lBufferSize, prefix, text, nPos, level, added, missing>>

\* The log thread takes the level's buffer, prints and deletes it.
TakeLevel ==
    /\ level # NoBuffer
    /\ Delete(level)
    /\ level' = NoBuffer /\ added' = 0 /\ missing' = 0
    /\ UNCHANGED line

LineNext ==
    \/ \E b \in Buffers : AddLogItem(b)
    \/ Retry \/ Formatted \/ PutFirst \/ PutNext \/ DeleteLine \/ TakeLevel

LineSpec == BufInit /\ LineInit /\ [][LineNext]_<<bufvars, linevars>>

-----------------------------------------------------------------------------
(* Properties. *)

LineTypeOK ==
    /\ fpc \in {"idle", "format", "put", "delete"}
    /\ pLogBuffer \in Buffers \cup {NoBuffer} /\ level \in Buffers \cup {NoBuffer}
    /\ (fpc = "idle") = (pLogBuffer = NoBuffer)
    /\ pLogBuffer # NoBuffer => pLogBuffer # level
    /\ lBufferSize \in Nat /\ prefix \in Nat /\ text \in Nat /\ nPos \in Nat
    /\ added \in Nat /\ missing \in Nat

\* The text is cut at the end of the room: the last attempt was not given
\* the whole of lBufferSize, but its answer is compared with it.
Cut == text + prefix >= lBufferSize

\* A line is never longer than its block unless it was formatted at the
\* first attempt and cut; it then reaches at most prefix bytes beyond, and
\* SetBuffLen refuses its length.  Room that had to be doubled holds any
\* line, though a text just as long as the room is cut again
\* (Log.cpp:164-186).
\* What a level holds is all that was added to it, but for its first line
\* when that length was refused (Log.cpp:192-204).
LinesWhole ==
    /\ LineTypeOK
    /\ fpc \in {"put", "delete"} =>
          LET room == miBufferLen[pLogBuffer] IN
          /\ nPos = prefix + text + 1
          /\ nPos > room => lBufferSize = MAX_PER_LINE_LOG /\ Cut /\ nPos - alloc[pLogBuffer] <= prefix
          /\ miBufferUseLen[pLogBuffer] = (IF nPos <= room THEN nPos ELSE 0)
    /\ level # NoBuffer =>
          /\ miBufferUseLen[level] = added - missing
          /\ missing # 0 => \E p \in PrefixLens :
                missing \in MAX_PER_LINE_LOG + 1 .. MAX_PER_LINE_LOG + 1 + p
=============================================================================
