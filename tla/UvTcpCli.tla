------------------------------ MODULE UvTcpCli ------------------------------
(***************************************************************************)
(* CUvTcpCli: one TCP connection on a loop.  Any thread calls Send, which  *)
(* appends to a buffer and wakes the loop with a uv_async handle; the loop *)
(* thread turns the buffer into uv_write requests, and runs the callbacks  *)
(* of connecting, reading, writing and closing.                            *)
(*                                                                         *)
(* Bytes are numbered in the order Send accepts them, so a buffer is the   *)
(* interval first..last it holds.  miTotalRecvBytes and the addresses are  *)
(* left out.  A user callback (OnConn, OnSend, OnRecv, OnClose) is a state *)
(* of the loop thread in which it may call Send and Close itself.          *)
(***************************************************************************)
EXTENDS Integers, Sequences, FiniteSets, FiniteSetsExt

CONSTANTS
    Senders,      \* threads other than the loop's that call Send
    Loop,         \* the loop's thread
    NULL,
    MaxSend       \* bound: bytes Send accepts

ASSUME LoopAssumption == Loop \notin Senders
ASSUME MaxSendAssumption == MaxSend \in Nat
ASSUME NullAssumption == NULL \notin [first: Nat, last: Nat]

VARIABLES
    miTcpCliState,     \* NONE, ESTAB or CLOSE
    mpTcpCli,          \* is mpTcpCli set
    role,              \* how the handle came: "none", "connect", "accept"
    mpSendBuf,         \* NULL or the interval of bytes not handed to libuv
    mmapSend,          \* write requests the object keeps
    miNeedSendBytes, miTotalSendBytes,
    lpc,               \* where the loop thread is
    spc,               \* is a thread inside Send
    \* libuv's side
    tcp,               \* the state of the TCP handle
    async, pending,    \* mstUvSendAsync, and whether it is triggered
    writes,            \* requests libuv accepted and has not called back
    \* history
    rejected,          \* requests uv_write refused
    failed,            \* did a write end with an error
    wire,              \* the last byte written to the peer
    early              \* bytes accepted before the connection was up

object == <<miTcpCliState, mpTcpCli, role>>
buffers == <<mpSendBuf, mmapSend, miNeedSendBytes, miTotalSendBytes>>
libuv == <<tcp, async, pending, writes>>
history == <<rejected, failed, wire, early>>
vars == <<object, buffers, lpc, spc, libuv, history>>

Threads == Senders \cup {Loop}
Intervals == [first: Nat, last: Nat]
Size(b) == IF b = NULL THEN 0 ELSE b.last - b.first + 1
Callbacks == {"onconn", "onconnerr", "onrecv", "onsend", "onsenderr",
              "oncancel", "onclose"}

TypeOK ==
    /\ miTcpCliState \in {"none", "estab", "close"}
    /\ mpTcpCli \in BOOLEAN
    /\ role \in {"none", "connect", "accept"}
    /\ mpSendBuf \in Intervals \cup {NULL}
    /\ mmapSend \in SUBSET Intervals
    /\ miNeedSendBytes \in Nat /\ miTotalSendBytes \in Nat
    /\ lpc \in {"idle", "set", "dosend", "gone", "crashed"} \cup Callbacks
    /\ spc \in [Threads -> {"idle", "send"}]
    /\ tcp \in {"none", "init", "connecting", "open", "closing", "flushing", "closed"}
    /\ async \in {"none", "active", "closing", "closed"}
    /\ pending \in BOOLEAN
    /\ writes \in Seq(Intervals)
    /\ rejected \in SUBSET Intervals
    /\ failed \in BOOLEAN
    /\ wire \in Nat
    /\ early \in Nat

\* A client that will Connect has its handle from its subclass; one that
\* CUvTcpSvr makes for an accepted connection has none yet.
Init ==
    /\ miTcpCliState = "none"
    /\ mpTcpCli \in BOOLEAN
    /\ role = "none"
    /\ mpSendBuf = NULL
    /\ mmapSend = {}
    /\ miNeedSendBytes = 0 /\ miTotalSendBytes = 0
    /\ lpc = "idle"
    /\ spc = [t \in Threads |-> "idle"]
    /\ tcp = "none"
    /\ async = "none" /\ pending = FALSE
    /\ writes = <<>>
    /\ rejected = {} /\ failed = FALSE /\ wire = 0 /\ early = 0

-----------------------------------------------------------------------------
(* Send, on any thread; on the loop's only inside a callback. *)

\* The assertion reads the state before the mutex is taken.
SendCheck(t) ==
    /\ spc[t] = "idle"
    /\ t = Loop => lpc \in Callbacks
    /\ lpc \notin {"gone", "crashed"}
    /\ miNeedSendBytes < MaxSend
    /\ mpTcpCli /\ miTcpCliState # "close"
    /\ spc' = [spc EXCEPT ![t] = "send"]
    /\ UNCHANGED <<object, buffers, lpc, libuv, history>>

\* Mutant: a new chunk replaces the buffer.
AppendedNew(b, n) == [first |-> n, last |-> n]

Appended(b, n) == IF b = NULL THEN [first |-> n, last |-> n] ELSE [b EXCEPT !.last = n]

\* Mutant: the trigger is set in every state.
SendAppendTriggers(t) ==
    /\ spc[t] = "send"
    /\ miNeedSendBytes' = miNeedSendBytes + 1
    /\ mpSendBuf' = Appended(mpSendBuf, miNeedSendBytes')
    /\ pending' = TRUE
    /\ early' = IF miTcpCliState = "none" THEN miNeedSendBytes' ELSE early
    /\ spc' = [spc EXCEPT ![t] = "idle"]
    /\ UNCHANGED <<object, mmapSend, miTotalSendBytes, lpc, tcp, async, writes,
                   rejected, failed, wire>>

\* The locked part of Send.
SendAppend(t) ==
    /\ spc[t] = "send"
    /\ miNeedSendBytes' = miNeedSendBytes + 1
    /\ mpSendBuf' = Appended(mpSendBuf, miNeedSendBytes')
    /\ pending' = (pending \/ miTcpCliState = "estab")
    /\ early' = IF miTcpCliState = "none" THEN miNeedSendBytes' ELSE early
    /\ spc' = [spc EXCEPT ![t] = "idle"]
    /\ UNCHANGED <<object, mmapSend, miTotalSendBytes, lpc, tcp, async, writes,
                   rejected, failed, wire>>

-----------------------------------------------------------------------------
(* Connecting. *)

LoopIdle == lpc = "idle"

\* The attempt is under way, or an error is returned and nothing follows.
\* Nothing prevents another Connect after one that failed, with the same
\* handle initialised once more.
Connect ==
    /\ LoopIdle /\ mpTcpCli /\ role # "accept" /\ miTcpCliState = "none"
    /\ tcp \in {"none", "init", "closed"}
    /\ role' = "connect"
    /\ tcp' \in {"connecting", "init"}
    /\ UNCHANGED <<miTcpCliState, mpTcpCli, buffers, lpc, spc, async, pending,
                   writes, history>>

\* A Connect in OnConn(status), whose handle DoConn goes on to close, or before
\* libuv has closed it, which nothing reports: an assertion of libuv stops
\* the program.
ConnectTooSoon ==
    /\ \/ lpc = "onconnerr" /\ spc[Loop] = "idle"
       \/ LoopIdle /\ role = "connect" /\ tcp = "closing" /\ miTcpCliState = "none"
    /\ lpc' = "crashed"
    /\ UNCHANGED <<object, buffers, spc, libuv, history>>

\* SetTcpCli publishes the handle first; Send is accepted from here on.
SetTcpCli ==
    /\ LoopIdle /\ ~mpTcpCli /\ role = "none"
    /\ mpTcpCli' = TRUE
    /\ role' = "accept"
    /\ tcp' = "open"
    /\ lpc' = "set"
    /\ UNCHANGED <<miTcpCliState, buffers, spc, async, pending, writes, history>>

\* AfterConn up to its user callback, under the mutex.
AfterConn ==
    /\ async' = "active" /\ pending' = FALSE
    /\ miTcpCliState' = "estab"
    /\ lpc' = "onconn"
    /\ UNCHANGED <<mpTcpCli, role, buffers, spc, writes, history>>

AfterAccept == lpc = "set" /\ UNCHANGED tcp /\ AfterConn

DoConnOk == LoopIdle /\ tcp = "connecting" /\ tcp' = "open" /\ AfterConn

\* A failed attempt: OnConn(status), then uv_close without a callback.  The
\* state stays NONE.
DoConnError ==
    /\ LoopIdle /\ tcp = "connecting"
    /\ lpc' = "onconnerr"
    /\ UNCHANGED <<object, buffers, spc, libuv, history>>

\* Mutant: what was buffered before the connection came up is not sent.
ConnDoneNoSend ==
    /\ lpc = "onconn" /\ spc[Loop] = "idle"
    /\ lpc' = "idle"
    /\ UNCHANGED <<object, buffers, spc, libuv, history>>

\* OnConn(0) returns; only the connecting side goes on to DoSend.
ConnDone ==
    /\ lpc = "onconn" /\ spc[Loop] = "idle"
    /\ lpc' = IF role = "connect" THEN "dosend" ELSE "idle"
    /\ UNCHANGED <<object, buffers, spc, libuv, history>>

ConnErrorDone ==
    /\ lpc = "onconnerr" /\ spc[Loop] = "idle"
    /\ tcp' = "closing"
    /\ lpc' = "idle"
    /\ UNCHANGED <<object, buffers, spc, async, pending, writes, history>>

-----------------------------------------------------------------------------
(* Writing. *)

\* The whole buffer becomes one request; an error of uv_write is logged and
\* the request stays in the map.
DoSend ==
    \/ /\ miTcpCliState = "estab" /\ mpSendBuf # NULL
       /\ mmapSend' = mmapSend \cup {mpSendBuf}
       /\ mpSendBuf' = NULL
       /\ \/ writes' = Append(writes, mpSendBuf) /\ UNCHANGED rejected
          \/ rejected' = rejected \cup {mpSendBuf} /\ UNCHANGED writes
    \/ /\ miTcpCliState # "estab" \/ mpSendBuf = NULL
       /\ UNCHANGED <<mmapSend, mpSendBuf, writes, rejected>>

LoopDoSend ==
    /\ lpc = "dosend"
    /\ DoSend
    /\ lpc' = "idle"
    /\ UNCHANGED <<object, miNeedSendBytes, miTotalSendBytes, spc, tcp, async,
                   pending, failed, wire, early>>

\* The async callback: libuv clears the trigger before it calls NotifySend.
NotifySend ==
    /\ LoopIdle /\ async = "active" /\ pending
    /\ pending' = FALSE
    /\ DoSend
    /\ UNCHANGED <<object, miNeedSendBytes, miTotalSendBytes, lpc, spc, tcp, async,
                   failed, wire, early>>

\* Mutant: requests are counted instead of their bytes.
AfterSendCountsRequests(callback) ==
    LET req == Head(writes) IN
    /\ LoopIdle /\ writes # <<>>
    /\ writes' = Tail(writes)
    /\ mmapSend' = mmapSend \ {req}
    /\ miTotalSendBytes' = miTotalSendBytes + 1
    /\ lpc' = callback
    /\ UNCHANGED <<object, mpSendBuf, miNeedSendBytes, spc, async, pending, rejected,
                   early>>

\* AfterSend up to OnSend: the request is looked up, counted and freed,
\* whatever its status.
AfterSend(callback) ==
    LET req == Head(writes) IN
    /\ LoopIdle /\ writes # <<>>
    /\ writes' = Tail(writes)
    /\ mmapSend' = mmapSend \ {req}
    /\ miTotalSendBytes' = IF req \in mmapSend THEN miTotalSendBytes + Size(req)
                           ELSE miTotalSendBytes
    /\ lpc' = callback
    /\ UNCHANGED <<object, mpSendBuf, miNeedSendBytes, spc, async, pending, rejected,
                   early>>

\* The write has reached the peer; the callback may still come after Close.
SendOk ==
    /\ tcp \in {"open", "closing"}
    /\ AfterSend("onsend")
    /\ wire' = Head(writes).last
    /\ UNCHANGED <<tcp, failed>>

\* An error of a write; it too may be reported after Close.
SendError ==
    /\ tcp \in {"open", "closing"}
    /\ AfterSend("onsenderr")
    /\ failed' = TRUE
    /\ UNCHANGED <<tcp, wire>>

\* uv_close cancels what is left, in order.
SendCanceled ==
    /\ tcp \in {"closing", "flushing"}
    /\ AfterSend("oncancel")
    /\ tcp' = "flushing"
    /\ failed' = TRUE
    /\ UNCHANGED wire

SendOkDone ==
    /\ lpc = "onsend" /\ spc[Loop] = "idle"
    /\ lpc' = "dosend"
    /\ UNCHANGED <<object, buffers, spc, libuv, history>>

\* Close(), of an established connection only.
CloseEffect ==
    /\ miTcpCliState' = IF miTcpCliState = "estab" THEN "close" ELSE miTcpCliState
    /\ tcp' = IF miTcpCliState = "estab" THEN "closing" ELSE tcp

SendErrorDone ==
    /\ lpc = "onsenderr" /\ spc[Loop] = "idle"
    /\ CloseEffect
    /\ lpc' = "idle"
    /\ UNCHANGED <<mpTcpCli, role, buffers, spc, async, pending, writes, history>>

SendCanceledDone ==
    /\ lpc = "oncancel" /\ spc[Loop] = "idle"
    /\ lpc' = "idle"
    /\ UNCHANGED <<object, buffers, spc, libuv, history>>

-----------------------------------------------------------------------------
(* Reading and closing. *)

Reading == LoopIdle /\ miTcpCliState = "estab" /\ tcp = "open"

RecvData ==
    /\ Reading
    /\ lpc' = "onrecv"
    /\ UNCHANGED <<object, buffers, spc, libuv, history>>

RecvDone ==
    /\ lpc = "onrecv" /\ spc[Loop] = "idle"
    /\ lpc' = "idle"
    /\ UNCHANGED <<object, buffers, spc, libuv, history>>

\* End of file or a read error.
RecvError ==
    /\ Reading
    /\ CloseEffect
    /\ UNCHANGED <<mpTcpCli, role, buffers, lpc, spc, async, pending, writes, history>>

\* The user calls Close, in a callback or from other work of the loop.
Close ==
    /\ lpc \in Callbacks \cup {"idle"} /\ spc[Loop] = "idle" /\ mpTcpCli
    /\ CloseEffect
    /\ UNCHANGED <<mpTcpCli, role, buffers, lpc, spc, async, pending, writes, history>>

\* libuv ends the closing of the handle when every write has been called
\* back; a handle closed after a failed attempt has no close callback.
TcpClosed ==
    /\ LoopIdle /\ tcp \in {"closing", "flushing"} /\ writes = <<>>
    /\ tcp' = "closed"
    /\ lpc' = IF miTcpCliState = "close" THEN "onclose" ELSE "idle"
    /\ UNCHANGED <<object, buffers, spc, async, pending, writes, history>>

\* Mutant: the async handle is left open.
CloseCbKeepsAsync ==
    /\ lpc = "onclose" /\ spc[Loop] = "idle"
    /\ lpc' = "idle"
    /\ UNCHANGED <<object, buffers, spc, libuv, history>>

\* CloseCb after OnClose.
CloseCb ==
    /\ lpc = "onclose" /\ spc[Loop] = "idle"
    /\ async' = "closing"
    /\ lpc' = "idle"
    /\ UNCHANGED <<object, buffers, spc, tcp, pending, writes, history>>

AsyncClosed ==
    /\ LoopIdle /\ async = "closing"
    /\ async' = "closed"
    /\ UNCHANGED <<object, buffers, lpc, spc, tcp, pending, writes, history>>

\* The destructor (CleanSendQueue), run when libuv has let go of the object.
Destroy ==
    /\ LoopIdle /\ tcp = "closed" /\ async \in {"none", "closed"}
    /\ \A t \in Threads : spc[t] = "idle"
    /\ mpSendBuf' = NULL
    /\ mmapSend' = {}
    /\ lpc' = "gone"
    /\ UNCHANGED <<object, miNeedSendBytes, miTotalSendBytes, spc, libuv, history>>

-----------------------------------------------------------------------------
\* The loop thread inside a handler: it goes on to the handler's end.
Handler ==
    \/ AfterAccept \/ ConnDone \/ ConnErrorDone \/ LoopDoSend \/ SendOkDone
    \/ SendErrorDone \/ SendCanceledDone \/ RecvDone \/ CloseCb

ConnEnds == DoConnOk \/ DoConnError

Next ==
    \/ \E t \in Threads : SendCheck(t) \/ SendAppend(t)
    \/ Connect \/ ConnectTooSoon \/ SetTcpCli \/ ConnEnds
    \/ SendOk \/ SendError \/ RecvData \/ RecvError \/ Close \/ Destroy
    \/ Handler \/ NotifySend \/ SendCanceled \/ TcpClosed \/ AsyncClosed

Spec == Init /\ [][Next]_vars

\* Handlers and calls of Send that have begun end.  An iteration of the loop
\* serves every handle that is ready and ends every closing handle, so none
\* of these events is passed over for ever; a connection attempt ends.  The
\* peer is not obliged to read, nor the user to close.
Fairness ==
    /\ WF_vars(Handler)
    /\ SF_vars(NotifySend) /\ SF_vars(SendCanceled)
    /\ SF_vars(TcpClosed) /\ SF_vars(AsyncClosed) /\ SF_vars(ConnEnds)
    /\ \A t \in Threads : WF_vars(SendAppend(t))

FairSpec == Spec /\ Fairness

-----------------------------------------------------------------------------
(* Properties. *)

\* Everything handed to libuv or about to be, in the order it is written.
Stream == IF mpSendBuf = NULL THEN writes ELSE Append(writes, mpSendBuf)

EndBefore(i) == IF i = 1 THEN wire ELSE Stream[i - 1].last

\* Variables keep their types.  The peer sees the bytes in the order Send
\* took them, and without a gap unless a write failed or was refused: Send,
\* NotifySend and the two DoSend calls after callbacks share one buffer
\* (UvTcpCli.cpp:168-211).
WireInOrder ==
    /\ TypeOK
    /\ \A i \in DOMAIN Stream : EndBefore(i) < Stream[i].first
                             /\ Stream[i].first <= Stream[i].last
    /\ rejected = {} /\ ~failed =>
          \A i \in DOMAIN Stream : Stream[i].first = EndBefore(i) + 1

\* The bytes of a set of requests.
Bytes(requests) == SumFunctionOnSet([r \in requests |-> Size(r)], requests)

\* miNeedSendBytes and miTotalSendBytes, counted by two different threads,
\* differ by what is buffered or in flight: no byte is counted twice or
\* lost (UvTcpCli.cpp:133,204).
BytesAccounted ==
    lpc # "gone" =>
        miNeedSendBytes = miTotalSendBytes + Size(mpSendBuf)
                        + Bytes(mmapSend)

\* Send triggers the handle, and DoSend hands a request to libuv, only while
\* the connection is established and its handle open: the state is set and
\* tested under the mutex, whichever thread runs (UvTcpCli.cpp:69-73,170,206).
TriggerOnlyAlive ==
    [][/\ ~pending /\ pending' => async = "active"
       /\ Len(writes') > Len(writes) => tcp = "open" /\ async = "active"]_vars

\* Buffered data of an established connection has a DoSend to come, except
\* what an accepted connection buffered before it was established: nothing
\* ever asks the loop to send that (UvTcpCli.cpp:58-64).
NoStrandedData ==
    miTcpCliState = "estab" /\ mpSendBuf # NULL =>
        \/ pending
        \/ lpc \in {"dosend", "onsend"}
        \/ lpc = "onconn" /\ role = "connect"
        \/ role = "accept" /\ mpSendBuf.last <= early

\* Once the handle is closed, every request has been called back and freed
\* but those uv_write refused (UvTcpCli.cpp:128-139,187).
RequestsFreed == tcp = "closed" /\ lpc # "gone" => mmapSend = rejected

\* Both: no byte is lost or counted twice while the connection lives, and no
\* request is left over when it has ended (UvTcpCli.cpp:128-139,187,204).
WritesAccounted == BytesAccounted /\ RequestsFreed

\* What Send took before or after the connection came up is handed to libuv,
\* or the connection ends; for the side that calls Connect, unless it did so
\* again too soon.
BufferDrained ==
    (mpSendBuf # NULL /\ role = "connect" /\ tcp \in {"connecting", "open"})
        ~> (mpSendBuf = NULL \/ tcp \notin {"connecting", "open"} \/ lpc = "crashed")

\* A Close that took effect ends with both handles closed, whatever writes
\* were in flight.
CloseCompletes == miTcpCliState = "close" ~> (tcp = "closed" /\ async = "closed")
=============================================================================
