-------------------------------- MODULE Log ---------------------------------
(***************************************************************************)
(* CLog: any thread formats a line and appends it, under mcLogMutex, to    *)
(* the buffer of its level; the log thread takes all buffers at once,      *)
(* writes them out level by level and changes to a new file when the       *)
(* current one is too big.  SetLogPath changes the file from any thread.   *)
(*                                                                         *)
(* A line has size one and is its number among the lines accepted at its   *)
(* level; a FILE* is its number in the order of opening, 0 for stdout.  The text,   *)
(* the colours, the screen copy of LOG_TYPE_TEE and miTotalCount are left  *)
(* out.  The log thread waits at most LOG_WAIT_SEC for a signal, so a      *)
(* signal only makes it earlier and is left out too.                       *)
(***************************************************************************)
EXTENDS Integers, Sequences, FiniteSets, FiniteSetsExt, Functions

CONSTANTS
    Loggers,         \* threads that log
    Admins,          \* threads that configure the log; one may do both
    Levels,          \* LogLevel values used; Levels is 0..n
    FileTypes,       \* LOG_TYPE_FILE, LOG_TYPE_TEE
    LOG_TYPE_SCREEN,
    NULL,
    MAX_PER_LOGFILE_SIZE,
    LevelArgs,       \* arguments of SetLogLevel, up to LOG_LEVEL_MAX
    LargerSizes,     \* arguments of SetMaxPerLogFileSize
    SameSecond,      \* may two files be opened in one second, under one name
    WritesFail,      \* may fwrite write less than it was asked to, or nothing
    MaxLines, MaxFiles   \* bounds: lines accepted, files opened

ASSUME NullAssumption == NULL \notin Admins
ASSUME LevelsAssumption == Levels \subseteq Nat /\ IsFiniteSet(Levels) /\ Levels # {}
ASSUME LevelArgsAssumption == LevelArgs \subseteq Levels \cup {Max(Levels) + 1}
ASSUME TypesAssumption == LOG_TYPE_SCREEN \notin FileTypes
ASSUME SizeAssumption ==
    MAX_PER_LOGFILE_SIZE \in Nat \ {0} /\ LargerSizes \subseteq Nat /\ MaxLines \in Nat /\ MaxFiles \in Nat
ASSUME ChoicesAssumption == SameSecond \in BOOLEAN /\ WritesFail \in BOOLEAN

VARIABLES
    mbInit, started,       \* started: the thread is running (mbUvThreadInit)
    iLogType, iLogLevel, miMaxPerLogFileSize,
    initing,               \* the client inside Init
    confLocked,            \* mcConfMutex was locked and never unlocked
    mMapLogItems,          \* the lines waiting, of each level
    mpFile, miCurFileCount,
    opened,                \* number of files opened
    name, size, closed,    \* of each FILE*; size is of the file of that name
    lpc, mapTmp, wfile,    \* the log thread: its batch and WriteLog's pFile
    cpc, cArg,             \* clients: where, and the level or the FILE*
    \* history
    accepted, printed,     \* number of lines of each level, and lines written
    lost,                  \* of each level, the lines of batches not written whole
    repathed, retyped

conf == <<mbInit, started, iLogType, iLogLevel, miMaxPerLogFileSize, initing, confLocked>>
files == <<mpFile, opened, name, closed>>
written == <<size, miCurFileCount>>
thread == <<lpc, mapTmp, wfile>>
clients == <<cpc, cArg>>
lines == <<mMapLogItems, accepted>>
flags == <<repathed, retyped, lost>>
vars == <<conf, files, written, thread, clients, lines, printed, flags>>

Clients == Loggers \cup Admins
Types == FileTypes \cup {LOG_TYPE_SCREEN}
LOG_LEVEL_MAX == Max(Levels) + 1
stdout == 0
Handles == 0..MaxFiles
NoLines == [l \in Levels |-> <<>>]
Accepted == SumFunctionOnSet(accepted, Levels)

TypeOK ==
    /\ mbInit \in BOOLEAN /\ started \in BOOLEAN
    /\ iLogType \in Types /\ iLogLevel \in Levels \cup {LOG_LEVEL_MAX}
    /\ miMaxPerLogFileSize \in Nat
    /\ initing \in Admins \cup {NULL}
    /\ confLocked \in BOOLEAN
    /\ {mMapLogItems, mapTmp, printed} \subseteq [Levels -> Seq(1..MaxLines)]
    /\ accepted \in [Levels -> 0..MaxLines]
    /\ mpFile \in Handles /\ opened \in Handles
    /\ miCurFileCount \in Nat
    /\ name \in [Handles -> Handles] /\ size \in [Handles -> Nat]
    /\ closed \in SUBSET Handles
    /\ lpc \in {"none", "wait", "print", "write", "open", "set", "spinning", "crashed"}
    /\ wfile \in Handles
    /\ cpc \in [Clients -> {"idle", "append", "conf", "path", "open", "set", "start"}]
    /\ cArg \in [Clients -> Nat]
    /\ lost \in [Levels -> SUBSET (1..MaxLines)]
    /\ {repathed, retyped} \subseteq BOOLEAN

Init ==
    /\ mbInit = FALSE /\ started = FALSE
    /\ iLogType \in FileTypes /\ iLogLevel = LOG_LEVEL_MAX
    /\ miMaxPerLogFileSize = MAX_PER_LOGFILE_SIZE
    /\ initing = NULL /\ confLocked = FALSE
    /\ mpFile = stdout /\ opened = 0 /\ closed = {}
    /\ name = [h \in Handles |-> h] /\ size = [h \in Handles |-> 0]
    /\ miCurFileCount = 0
    /\ lpc = "none" /\ mapTmp = NoLines /\ wfile = stdout
    /\ cpc = [c \in Clients |-> "idle"] /\ cArg = [c \in Clients |-> 0]
    /\ mMapLogItems = NoLines /\ printed = NoLines
    /\ accepted = [l \in Levels |-> 0]
    /\ repathed = FALSE /\ retyped = FALSE
    /\ lost = [l \in Levels |-> {}]

At(c, pc) == cpc[c] = pc
Goto(c, pc) == cpc' = [cpc EXCEPT ![c] = pc] /\ cArg' = [cArg EXCEPT ![c] = 0]

-----------------------------------------------------------------------------
(* AddLogItem. *)

\* The level and mbInit are read without a lock.
LogCheck(c) ==
    /\ At(c, "idle") /\ mbInit
    /\ \E l \in Levels :
          /\ l <= iLogLevel
          /\ cArg' = [cArg EXCEPT ![c] = l]
    /\ cpc' = [cpc EXCEPT ![c] = "append"]
    /\ UNCHANGED <<conf, files, written, thread, lines, printed, flags>>

\* The locked part: the level's buffer is made or grows.
LogAppend(c) ==
    LET l == cArg[c] IN
    /\ At(c, "append") /\ Accepted < MaxLines
    /\ accepted' = [accepted EXCEPT ![l] = @ + 1]
    /\ mMapLogItems' = [mMapLogItems EXCEPT ![l] = Append(@, accepted'[l])]
    /\ Goto(c, "idle")
    /\ UNCHANGED <<conf, files, written, thread, printed, flags>>

-----------------------------------------------------------------------------
(* Configuration. *)

\* retyped: the log goes to the screen by its type and to a file by mpFile.
TypeSet(type) ==
    /\ iLogType' = type
    /\ retyped' = (retyped \/ (type = LOG_TYPE_SCREEN /\ opened > 0))

SetLogType(c) ==
    /\ At(c, "idle") /\ ~confLocked
    /\ \E type \in Types : TypeSet(type)
    /\ UNCHANGED <<mbInit, started, iLogLevel, miMaxPerLogFileSize, initing, confLocked,
                   files, written, thread, clients, lines, printed, repathed, lost>>

SetLogLevel(c) ==
    /\ At(c, "idle") /\ ~confLocked
    /\ iLogLevel' \in LevelArgs
    /\ UNCHANGED <<mbInit, started, iLogType, miMaxPerLogFileSize, initing, confLocked,
                   files, written, thread, clients, lines, printed, flags>>

SetMaxPerLogFileSize(c) ==
    /\ At(c, "idle")
    /\ \E n \in LargerSizes : n >= miMaxPerLogFileSize /\ miMaxPerLogFileSize' = n
    /\ UNCHANGED <<mbInit, started, iLogType, iLogLevel, initing, confLocked,
                   files, written, thread, clients, lines, printed, flags>>

StopLog(c) ==
    /\ At(c, "idle")
    /\ mbInit' = FALSE
    /\ UNCHANGED <<started, iLogType, iLogLevel, miMaxPerLogFileSize, initing, confLocked,
                   files, written, thread, clients, lines, printed, flags>>

\* Init takes its parameters, then sets type and level under the mutex.
InitParams(c) ==
    /\ At(c, "idle") /\ ~mbInit /\ initing = NULL
    /\ initing' = c
    /\ \E type \in Types : TypeSet(type)
    /\ iLogLevel' \in LevelArgs
    /\ Goto(c, "conf")
    /\ UNCHANGED <<mbInit, started, miMaxPerLogFileSize, confLocked,
                   files, written, thread, lines, printed, repathed, lost>>

\* SetLogPath returns at once, to Init or to its caller, for the screen.
PathStart(c) == Goto(c, IF iLogType # LOG_TYPE_SCREEN THEN "path"
                        ELSE IF initing = c THEN "start" ELSE "idle")
PathDone(c) == Goto(c, IF initing = c THEN "start" ELSE "idle")

InitConf(c) ==
    /\ At(c, "conf") /\ ~confLocked
    /\ PathStart(c)
    /\ UNCHANGED <<conf, files, written, thread, lines, printed, flags>>

SetLogPath(c) ==
    /\ At(c, "idle")
    /\ PathStart(c)
    /\ UNCHANGED <<conf, files, written, thread, lines, printed, flags>>

PathMade(c) ==
    /\ At(c, "path") /\ ~confLocked
    /\ Goto(c, "open")
    /\ UNCHANGED <<conf, files, written, thread, lines, printed, flags>>

\* make_dirs fails: SetLogPath returns with mcConfMutex locked.
PathNotMade(c) ==
    /\ At(c, "path") /\ ~confLocked
    /\ confLocked' = TRUE
    /\ PathDone(c)
    /\ UNCHANGED <<mbInit, started, iLogType, iLogLevel, miMaxPerLogFileSize, initing,
                   files, written, thread, lines, printed, flags>>

\* GetFile up to SetLogFile: a file whose name is the present second, or
\* stdout when the type is the screen or the file cannot be opened.
OpenFile(h) ==
    \/ /\ iLogType # LOG_TYPE_SCREEN /\ opened < MaxFiles
       /\ h = opened + 1
       /\ opened' = h
       /\ \E n \in {h} \cup IF SameSecond /\ opened > 0 THEN {name[opened]} ELSE {} :
             name' = [name EXCEPT ![h] = n]
    \/ h = stdout /\ UNCHANGED <<opened, name>>

PathOpen(c) ==
    /\ At(c, "open")
    /\ \E h \in Handles : OpenFile(h) /\ cArg' = [cArg EXCEPT ![c] = h]
    /\ cpc' = [cpc EXCEPT ![c] = "set"]
    /\ UNCHANGED <<conf, mpFile, closed, written, thread, lines, printed, flags>>

\* Mutant: the file before is not closed.
SetLogFileLeaks(h) ==
    /\ ~confLocked
    /\ mpFile' = h
    /\ UNCHANGED <<opened, name, closed>>

\* SetLogFile, in one step: between its fclose and its last assignment mpFile
\* is closed, then NULL; a log thread that reads it there crashes like one
\* that read it just before.
SetLogFile(h) ==
    /\ ~confLocked
    /\ closed' = closed \cup ({mpFile} \ {stdout})
    /\ mpFile' = h
    /\ UNCHANGED <<opened, name>>

PathSet(c) ==
    /\ At(c, "set")
    /\ SetLogFile(cArg[c])
    /\ repathed' = (repathed \/ started)
    /\ PathDone(c)
    /\ UNCHANGED <<conf, written, thread, lines, printed, retyped, lost>>

\* The end of Init; a second Start fails its assertion and is not needed.
InitStart(c) ==
    /\ At(c, "start")
    /\ lpc' = IF started THEN lpc ELSE "wait"
    /\ started' = TRUE /\ mbInit' = TRUE /\ initing' = NULL
    /\ Goto(c, "idle")
    /\ UNCHANGED <<iLogType, iLogLevel, miMaxPerLogFileSize, confLocked,
                   files, written, mapTmp, wfile, lines, printed, flags>>

-----------------------------------------------------------------------------
(* The log thread. *)

\* Mutant: the buffers are cleared before they are taken.
TakeLinesCleared ==
    /\ lpc = "wait"
    /\ mMapLogItems' = NoLines
    /\ mapTmp' = NoLines
    /\ lpc' = "print"
    /\ UNCHANGED <<conf, files, written, wfile, clients, accepted, printed, flags>>

\* The wait ends, by a signal or by its time, and the map changes hands.
TakeLines ==
    /\ lpc = "wait"
    /\ mapTmp' = mMapLogItems
    /\ mMapLogItems' = NoLines
    /\ lpc' = "print"
    /\ UNCHANGED <<conf, files, written, wfile, clients, accepted, printed, flags>>

Batch == {l \in Levels : mapTmp[l] # <<>>}

\* PrintLog passes WriteLog the file there is now, without a lock.
PrintLog ==
    /\ lpc = "print" /\ Batch # {}
    /\ wfile' = mpFile
    /\ lpc' = "write"
    /\ UNCHANGED <<conf, files, written, mapTmp, clients, lines, printed, flags>>

\* What fwrite takes in all.  After a short write it is given the first byte
\* again, pLog not being advanced, and as many as are left: what goes out is
\* the byte after the one before it or, each time, the first.
Output(buf) ==
    LET n == Len(buf)
        Again == IF WritesFail THEN {1} ELSE {}
    IN  {[i \in 1..n |-> buf[from[i]]] :
            from \in {f \in [1..n -> 1..n] :
                         f[1] = 1 /\ \A i \in 2..n : f[i] \in {f[i - 1] + 1} \cup Again}}

\* Check.
Check(count) ==
    IF iLogType # LOG_TYPE_SCREEN /\ count >= miMaxPerLogFileSize
    THEN miCurFileCount' = 0 /\ lpc' = "open"
    ELSE miCurFileCount' = count /\ lpc' = "print"

\* The rest of PrintLog, for the lowest level left.
WriteLog ==
    LET l == Min(Batch) IN
    /\ lpc = "write"
    /\ \E out \in Output(mapTmp[l]) :
          /\ printed' = [printed EXCEPT ![l] = @ \o out]
          /\ lost' = IF out = mapTmp[l] THEN lost
                     ELSE [lost EXCEPT ![l] = @ \cup Range(mapTmp[l])]
    /\ size' = IF wfile = stdout THEN size
               ELSE [size EXCEPT ![name[wfile]] = @ + Len(mapTmp[l])]
    /\ mapTmp' = [mapTmp EXCEPT ![l] = <<>>]
    /\ Check(miCurFileCount + Len(mapTmp[l]))
    /\ wfile' = stdout
    /\ UNCHANGED <<conf, files, clients, lines, repathed, retyped>>

\* fwrite takes no more: the loop asks for ever, as what it tests for is a
\* size_t below 0.
WriteStuck ==
    LET l == Min(Batch) IN
    /\ lpc = "write" /\ WritesFail
    /\ \E out \in Output(mapTmp[l]), k \in 0..Len(mapTmp[l]) - 1 :
          printed' = [printed EXCEPT ![l] = @ \o SubSeq(out, 1, k)]
    /\ lost' = [lost EXCEPT ![l] = @ \cup Range(mapTmp[l])]
    /\ lpc' = "spinning"
    /\ UNCHANGED <<conf, files, written, mapTmp, wfile, clients, lines, repathed, retyped>>

\* fwrite on a FILE* another thread has closed.
WriteClosed ==
    /\ lpc = "write" /\ wfile \in closed
    /\ lpc' = "crashed"
    /\ UNCHANGED <<conf, files, written, mapTmp, wfile, clients, lines, printed, flags>>

PrintEnd ==
    /\ lpc = "print" /\ Batch = {}
    /\ lpc' = "wait"
    /\ UNCHANGED <<conf, files, written, mapTmp, wfile, clients, lines, printed, flags>>

RotateOpen ==
    /\ lpc = "open"
    /\ \E h \in Handles : OpenFile(h) /\ wfile' = h
    /\ lpc' = "set"
    /\ UNCHANGED <<conf, mpFile, closed, written, mapTmp, clients, lines, printed, flags>>

RotateSet ==
    /\ lpc = "set"
    /\ SetLogFile(wfile)
    /\ lpc' = "print" /\ wfile' = stdout
    /\ UNCHANGED <<conf, written, mapTmp, clients, lines, printed, flags>>

-----------------------------------------------------------------------------
OnThreadRun ==
    TakeLines \/ PrintLog \/ WriteLog \/ WriteStuck \/ WriteClosed \/ PrintEnd \/ RotateOpen \/ RotateSet

InitLog(c) == InitParams(c) \/ InitConf(c) \/ InitStart(c)
LogPath(c) == SetLogPath(c) \/ PathMade(c) \/ PathNotMade(c) \/ PathOpen(c) \/ PathSet(c)
Configure(c) == SetLogType(c) \/ SetLogLevel(c) \/ SetMaxPerLogFileSize(c) \/ StopLog(c)

Next ==
    \/ \E c \in Loggers : LogCheck(c) \/ LogAppend(c)
    \/ \E c \in Admins : InitLog(c) \/ LogPath(c) \/ Configure(c)
    \/ OnThreadRun

Spec == Init /\ [][Next]_vars

\* The log thread is scheduled; nobody has to log or to configure.
FairSpec == Spec /\ WF_vars(OnThreadRun)

-----------------------------------------------------------------------------
(* Properties. *)

\* Every accepted line of a level is printed once and in the order of
\* acceptance, or is in the batch or waiting, whoever appends while the
\* buffers change hands; as long as none of them was written short, which
\* repeats its beginning (Log.cpp:191-207,246-255,286-294).
PrintedInOrder ==
    /\ TypeOK
    /\ \A l \in Levels : lost[l] = {} =>
          printed[l] \o mapTmp[l] \o mMapLogItems[l] = [i \in 1..accepted[l] |-> i]

\* Every file opened, by the log thread or by SetLogPath, is the current
\* one, about to be, or closed; the current one is open (Log.cpp:74,134-144).
\* The log thread writes to an open file as long as nobody calls SetLogPath
\* while it runs: that closes the file under it (Log.cpp:138,271).
FilesClosed ==
    /\ mpFile \notin closed
    /\ lpc = "write" /\ ~repathed => wfile \notin closed
    /\ \A h \in 1..opened :
          \/ h \in closed \/ h = mpFile
          \/ lpc = "set" /\ wfile = h
          \/ \E c \in Clients : cpc[c] = "set" /\ cArg[c] = h

TooBig == mpFile # stdout /\ size[name[mpFile]] >= miMaxPerLogFileSize

\* When a batch is printed the current file is below the limit, as the
\* comment of Check has it (Log.cpp:80), unless the type has been set to the
\* screen while a file is open or two files were opened in one second: then
\* the file goes on growing (Log.cpp:81,271).
FileBelowLimit ==
    ~retyped /\ (\A h \in Handles : name[h] = h) /\ lpc = "wait" => ~TooBig

\* Files are neither leaked nor used after their end, nor outgrown: the
\* change of files is spread over Check, GetFile and SetLogFile, in the log
\* thread and in whoever configures it (Log.cpp:51-89,134-147).
FilesKept == FilesClosed /\ FileBelowLimit

\* A line once accepted is printed itself, whoever configures the log and
\* changes its file meanwhile.  Four things keep it from that: the batch it
\* is in is written short, the log thread writes for ever what no file takes,
\* make_dirs has failed with mcConfMutex locked, and the crash of a write to
\* a closed file (Log.cpp:122-128,137-139,246-255,282-295).
AcceptedIsPrinted ==
    \A l \in Levels, n \in 1..MaxLines :
        accepted[l] >= n ~> \/ n \in Range(printed[l]) \cup lost[l]
                           \/ lpc \in {"spinning", "crashed"} \/ confLocked
=============================================================================
