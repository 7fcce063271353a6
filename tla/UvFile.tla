------------------------------- MODULE UvFile -------------------------------
(***************************************************************************)
(* CUvFile: asynchronous file operations.  Each object has one request,    *)
(* mpFsReq, which its own constructor leaves NULL and a derived class is   *)
(* to allocate.  Every method cleans it up and submits it again; libuv     *)
(* works on it in its thread pool and calls FsOperCb on the loop's thread, *)
(* which calls the virtual handler for the type of the request.            *)
(*                                                                         *)
(* What an operation does to files is left out, and so is the type of a    *)
(* request that libuv does not have.  Methods are called on the loop's     *)
(* thread, from a handler or between two.                                  *)
(*                                                                         *)
(* Nothing keeps a method from using a request libuv still has.  It then   *)
(* frees what a pool thread reads and links the request into the pool's    *)
(* queue a second time, which is undefined: such a request is "tangled",   *)
(* it may be called back any number of times, with the type it has by      *)
(* then, take with it whatever else is queued, or end the program.         *)
(***************************************************************************)
EXTENDS Integers, Sequences

CONSTANTS
    Files,          \* CUvFile objects
    NoMethod,
    Asked           \* the methods the application calls on each

\* The type the uv_fs_ function called by each method gives the request.
TypeOf ==
    [Open |-> "OPEN", Read |-> "READ", Write |-> "WRITE", Close |-> "CLOSE",
     Unlink |-> "UNLINK", CopyFile |-> "COPYFILE", Mkdir |-> "MKDIR", Mkdtemp |-> "MKDTEMP",
     RmDir |-> "RMDIR", ScanDir |-> "SCANDIR", Stat |-> "STAT", Fstat |-> "FSTAT",
     Rename |-> "RENAME", Fsync |-> "FSYNC", FdataSync |-> "FDATASYNC",
     Ftruncate |-> "FTRUNCATE", SendFile |-> "SENDFILE", Access |-> "ACCESS",
     Chmod |-> "CHMOD", Utime |-> "UTIME", FuTime |-> "FUTIME", Lstat |-> "LSTAT",
     Link |-> "LINK"]

\* The handler in each case of FsOperCb.
CaseOf ==
    [CUSTOM |-> "OnCustom", OPEN |-> "OnOpen", CLOSE |-> "OnClose", READ |-> "OnRead",
     WRITE |-> "OnWrite", SENDFILE |-> "OnSendFile", STAT |-> "OnStat", FSTAT |-> "OnFstat",
     FTRUNCATE |-> "OnTruncate", UTIME |-> "OnUtime", FUTIME |-> "OnFutime",
     ACCESS |-> "OnAccess", CHMOD |-> "OnChmod", FCHMOD |-> "OnFchmod", FSYNC |-> "OnFsync",
     FDATASYNC |-> "OnFdatasync", UNLINK |-> "OnUnlink", RMDIR |-> "OnRmdir",
     MKDIR |-> "OnMkdir", MKDTEMP |-> "OnMkdtemp", RENAME |-> "OnRename",
     SCANDIR |-> "OnScanDir", LINK |-> "OnLink", SYMLINK |-> "OnSymLink",
     READLINK |-> "OnReadLink", CHOWN |-> "OnChown", FCHOWN |-> "OnFchown",
     REALPATH |-> "OnRealPath", COPYFILE |-> "OnCopyFile"]

Methods == DOMAIN TypeOf

ASSUME AskedAssumption == Asked \in [Files -> SUBSET Methods]
ASSUME FileNullAssumption == NoMethod \notin Files \cup Methods

VARIABLES
    req,         \* where each object's request is
    method,      \* the method that filled it in, while libuv has it
    calling      \* the handler that runs, of which object, for which method

filevars == <<req, method, calling>>

HandlerCalls == [file: Files, handler: {CaseOf[t] : t \in DOMAIN CaseOf}, for: Methods]

FileTypeOK ==
    /\ req \in [Files -> {"null", "idle", "submitted", "done", "tangled", "gone"}]
    /\ method \in [Files -> Methods \cup {NoMethod}]
    /\ calling \in HandlerCalls \cup {NoMethod}

FileInit ==
    /\ req = [f \in Files |-> "null"] /\ method = [f \in Files |-> NoMethod]
    /\ calling = NoMethod

InFlight(f) == req[f] \in {"submitted", "done", "tangled"}
Tangled == \E f \in Files : req[f] = "tangled"

\* A derived class allocates the request.
Allocate(f) ==
    /\ req[f] = "null"
    /\ req' = [req EXCEPT ![f] = "idle"]
    /\ UNCHANGED <<method, calling>>

\* Any of the methods: cleanup, data, uv_fs_xxx.  It asserts that there is a
\* request and asks no more of it.
Ask(f, m) ==
    /\ req[f] \notin {"null", "gone"}
    /\ method' = [method EXCEPT ![f] = m]
    /\ req' = [req EXCEPT ![f] = IF InFlight(f) THEN "tangled" ELSE "submitted"]
    /\ UNCHANGED calling

\* uv_fs_xxx returns an error: the request was filled in but not submitted.
AskFails(f, m) ==
    /\ InFlight(f)
    /\ method' = [method EXCEPT ![f] = m]
    /\ req' = [req EXCEPT ![f] = "tangled"]
    /\ UNCHANGED calling

\* The destructor cleans the request up, if there is one; a derived class
\* frees it.
DestroyFile(f) ==
    /\ req[f] \in {"null", "idle"}
    /\ req' = [req EXCEPT ![f] = "gone"]
    /\ UNCHANGED <<method, calling>>

DestroyInFlight(f) ==
    /\ InFlight(f)
    /\ req' = [req EXCEPT ![f] = "tangled"]
    /\ UNCHANGED <<method, calling>>

\* A thread of libuv's pool has done the work; there are several threads.
Work(f) ==
    /\ req[f] = "submitted"
    /\ req' = [req EXCEPT ![f] = "done"]
    /\ UNCHANGED <<method, calling>>

\* Mutant: the case of FSYNC without its break, so that the next case's handler
\* is the last to be called.
DispatchNoBreak(f) ==
    LET asked == TypeOf[method[f]]
        type == IF asked = "FSYNC" THEN "FDATASYNC" ELSE asked IN
    calling' = IF type \notin DOMAIN CaseOf THEN NoMethod
               ELSE [file |-> f, handler |-> CaseOf[type], for |-> method[f]]

\* The handler of the type, if it has a case.
Dispatch(f) ==
    LET type == TypeOf[method[f]] IN
    calling' = IF type \notin DOMAIN CaseOf THEN NoMethod
               ELSE [file |-> f, handler |-> CaseOf[type], for |-> method[f]]

FsOperCb(f) ==
    /\ calling = NoMethod /\ req[f] = "done"
    /\ Dispatch(f)
    /\ req' = [req EXCEPT ![f] = "idle"]
    /\ method' = [method EXCEPT ![f] = NoMethod]

\* What a tangled request may lead to.
TangledCb(f) ==
    /\ calling = NoMethod /\ req[f] = "tangled"
    /\ Dispatch(f)
    /\ UNCHANGED <<req, method>>

TangledQueue(f) ==
    /\ Tangled /\ req[f] \in {"submitted", "done"}
    /\ req' = [req EXCEPT ![f] = "tangled"]
    /\ UNCHANGED <<method, calling>>

\* The end of the program, and of every object.
TangledCrash ==
    /\ Tangled
    /\ req' = [f \in Files |-> "gone"] /\ method' = [f \in Files |-> NoMethod]
    /\ calling' = NoMethod

HandlerDone ==
    /\ calling # NoMethod
    /\ calling' = NoMethod
    /\ UNCHANGED <<req, method>>

FileNext ==
    \/ \E f \in Files :
          \/ \E m \in Asked[f] : Ask(f, m) \/ AskFails(f, m)
          \/ Allocate(f) \/ DestroyFile(f) \/ DestroyInFlight(f)
          \/ Work(f) \/ FsOperCb(f) \/ TangledCb(f) \/ TangledQueue(f)
    \/ TangledCrash \/ HandlerDone

FileSpec == FileInit /\ [][FileNext]_filevars

\* The pool works, handlers return and the loop serves each finished request.
FileFairness ==
    /\ WF_filevars(HandlerDone)
    /\ \A f \in Files : WF_filevars(Work(f)) /\ SF_filevars(FsOperCb(f))

FairFileSpec == FileSpec /\ FileFairness

-----------------------------------------------------------------------------
(* Properties. *)

\* The handler named for each method.
NamedFor ==
    [Open |-> "OnOpen", Read |-> "OnRead", Write |-> "OnWrite", Close |-> "OnClose",
     Unlink |-> "OnUnlink", CopyFile |-> "OnCopyFile", Mkdir |-> "OnMkdir",
     Mkdtemp |-> "OnMkdtemp", RmDir |-> "OnRmdir", ScanDir |-> "OnScanDir",
     Stat |-> "OnStat", Fstat |-> "OnFstat", Rename |-> "OnRename", Fsync |-> "OnFsync",
     FdataSync |-> "OnFdatasync", Ftruncate |-> "OnTruncate", SendFile |-> "OnSendFile",
     Access |-> "OnAccess", Chmod |-> "OnChmod", Utime |-> "OnUtime", FuTime |-> "OnFutime",
     Link |-> "OnLink"]

\* Every operation accepted is answered, in its turn among those of other
\* objects and whatever their handlers ask for next, by the handler named for
\* the method that was called, through the type and its case; but Lstat,
\* which has no handler, and as long as no method was called on a request
\* libuv had (UvFile.cpp:157-252,254-417).
OperationAnswered ==
    /\ []FileTypeOK
    /\ \A f \in Files :
        (InFlight(f) /\ method[f] \in DOMAIN NamedFor) ~>
            \/ Tangled
            \/ calling # NoMethod /\ calling.file = f /\ calling.handler = NamedFor[calling.for]
=============================================================================
