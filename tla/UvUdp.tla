------------------------------- MODULE UvUdp --------------------------------
(***************************************************************************)
(* CUvUdp: a UDP socket on a loop.  Any thread calls Send, which queues a  *)
(* packet and triggers a uv_async handle; the loop thread takes the whole  *)
(* queue at once and makes one uv_udp_send request of it, which goes to    *)
(* the address of its last packet (UvUdp.cpp:100-117).                     *)
(*                                                                         *)
(* Packets are numbered in the order they are queued, so the queue, which  *)
(* is only ever taken or dropped as a whole, is an interval; addresses and *)
(* received data are left out.  DoSend asks uv_is_closing of &mpUdp, which *)
(* is not a handle: the answer is a bit of the object's own memory.        *)
(***************************************************************************)
EXTENDS Integers, Sequences, FiniteSets, Functions

CONSTANTS
    Senders,        \* threads other than the loop's that call Send
    Loop, NULL,
    ClosingRead,    \* what DoSend's test may read; {FALSE} in 64-bit builds
    MaxPackets      \* bound: packets sent

ASSUME LoopAssumption == Loop \notin Senders /\ NULL \notin Senders \cup {Loop}
ASSUME MaxPacketsAssumption == MaxPackets \in Nat
ASSUME ClosingAssumption == ClosingRead \subseteq BOOLEAN /\ ClosingRead # {}

VARIABLES
    mqueSendBuf,       \* NULL or the interval of packets queued
    mmapSend,          \* requests the object keeps
    mcSendAsyncMutex,  \* the thread that has it, or NULL
    packets,           \* number of packets queued so far
    lpc, spc,          \* the loop thread, and each thread's Send
    \* libuv's side
    udp, async, pending, sends,
    \* history
    rejected,          \* requests uv_udp_send refused
    dropped,           \* the last packet Close threw away
    freedInFlight      \* did Close free requests libuv still had

fields == <<mqueSendBuf, mmapSend, mcSendAsyncMutex, packets>>
libuv == <<udp, async, pending, sends>>
history == <<rejected, dropped, freedInFlight>>
vars == <<fields, lpc, spc, libuv, history>>

Threads == Senders \cup {Loop}
Intervals == [first: Nat, last: Nat]

TypeOK ==
    /\ mqueSendBuf \in Intervals \cup {NULL}
    /\ mmapSend \in SUBSET Intervals
    /\ mcSendAsyncMutex \in Threads \cup {NULL}
    /\ packets \in Nat
    /\ lpc \in {"idle", "start", "dosend", "onsend", "onrecv", "gone", "crashed"}
    /\ spc \in [Threads -> {"idle", "notify", "trigger"}]
    /\ udp \in {"none", "unbound", "open", "closing", "closed"}
    /\ async \in {"none", "active", "closing", "closed"}
    /\ pending \in BOOLEAN
    /\ sends \in Seq(Intervals)
    /\ rejected \in SUBSET Intervals
    /\ dropped \in Nat
    /\ freedInFlight \in BOOLEAN

Init ==
    /\ mqueSendBuf = NULL /\ mmapSend = {} /\ packets = 0
    /\ mcSendAsyncMutex = NULL
    /\ lpc = "idle" /\ spc = [t \in Threads |-> "idle"]
    /\ udp = "none" /\ async = "none" /\ pending = FALSE /\ sends = <<>>
    /\ rejected = {} /\ dropped = 0 /\ freedInFlight = FALSE

Running == lpc \notin {"gone", "crashed"}
LoopIdle == lpc = "idle"
InCallback == lpc \in {"onsend", "onrecv"}

-----------------------------------------------------------------------------
(* Send. *)

\* The packet is copied and queued; on the loop's thread in a callback.
SendPush(t) ==
    /\ Running /\ spc[t] = "idle" /\ packets < MaxPackets
    /\ t = Loop => InCallback
    /\ packets' = packets + 1
    /\ mqueSendBuf' = IF mqueSendBuf = NULL THEN [first |-> packets', last |-> packets']
                      ELSE [mqueSendBuf EXCEPT !.last = packets']
    /\ spc' = [spc EXCEPT ![t] = "notify"]
    /\ UNCHANGED <<mmapSend, mcSendAsyncMutex, lpc, libuv, history>>

\* Mutant: no trigger.
SendNotifyNone(t) ==
    /\ Running /\ spc[t] = "notify" /\ mcSendAsyncMutex = NULL
    /\ spc' = [spc EXCEPT ![t] = "idle"]
    /\ UNCHANGED <<fields, lpc, libuv, history>>

\* Under mcSendAsyncMutex: is the handle active?  If so, the mutex is kept
\* for the trigger.
SendNotify(t) ==
    /\ Running /\ spc[t] = "notify" /\ mcSendAsyncMutex = NULL
    /\ IF async = "active"
       THEN mcSendAsyncMutex' = t /\ spc' = [spc EXCEPT ![t] = "trigger"]
       ELSE spc' = [spc EXCEPT ![t] = "idle"] /\ UNCHANGED mcSendAsyncMutex
    /\ UNCHANGED <<mqueSendBuf, mmapSend, packets, lpc, libuv, history>>

\* uv_async_send, whatever has become of the handle since, and the unlock.
SendTrigger(t) ==
    /\ Running /\ spc[t] = "trigger"
    /\ pending' = TRUE
    /\ mcSendAsyncMutex' = NULL
    /\ spc' = [spc EXCEPT ![t] = "idle"]
    /\ UNCHANGED <<mqueSendBuf, mmapSend, packets, lpc, udp, async, sends, history>>

\* Before Start the handle is memory nobody has written: it may look active,
\* and uv_async_send then follows a pointer that is none.
SendNotifyTooEarly(t) ==
    /\ Running /\ spc[t] = "notify" /\ async = "none"
    /\ lpc' = "crashed"
    /\ UNCHANGED <<fields, spc, libuv, history>>

-----------------------------------------------------------------------------
(* The loop thread. *)

\* uv_udp_init; nothing keeps a Start that could not bind from being tried
\* again, which inserts the handle in libuv's list a second time: what comes
\* of that list is undefined.
InitUdp(next) ==
    /\ LoopIdle /\ udp \in {"none", "unbound"}
    /\ lpc' \in IF udp = "none" THEN {next} ELSE {next, "crashed"}

Start ==
    /\ InitUdp("start")
    /\ udp' = "open"
    /\ UNCHANGED <<fields, spc, async, pending, sends, history>>

\* uv_udp_bind fails: the handle is initialised, the async one is not.
StartBindFails ==
    /\ InitUdp("idle")
    /\ udp' = "unbound"
    /\ UNCHANGED <<fields, spc, async, pending, sends, history>>

StartAsync ==
    /\ lpc = "start" /\ mcSendAsyncMutex = NULL
    /\ async' = "active" /\ pending' = FALSE
    /\ lpc' = "dosend"
    /\ UNCHANGED <<fields, spc, udp, sends, history>>

\* Mutant: the queue keeps what was taken from it.
DoSendKeeps ==
    \/ /\ mqueSendBuf # NULL
       /\ mmapSend' = mmapSend \cup {mqueSendBuf}
       /\ UNCHANGED mqueSendBuf
       /\ \/ sends' = Append(sends, mqueSendBuf) /\ UNCHANGED rejected
          \/ rejected' = rejected \cup {mqueSendBuf} /\ UNCHANGED sends
    \/ /\ mqueSendBuf = NULL \/ TRUE \in ClosingRead
       /\ UNCHANGED <<mqueSendBuf, mmapSend, sends, rejected>>

\* The whole queue becomes one request, which uv_udp_send may refuse.
DoSend ==
    \/ /\ mqueSendBuf # NULL /\ FALSE \in ClosingRead
       /\ mmapSend' = mmapSend \cup {mqueSendBuf}
       /\ mqueSendBuf' = NULL
       /\ \/ sends' = Append(sends, mqueSendBuf) /\ UNCHANGED rejected
          \/ rejected' = rejected \cup {mqueSendBuf} /\ UNCHANGED sends
    \/ /\ mqueSendBuf = NULL \/ TRUE \in ClosingRead
       /\ UNCHANGED <<mqueSendBuf, mmapSend, sends, rejected>>

LoopDoSend ==
    /\ lpc = "dosend"
    /\ DoSend
    /\ lpc' = "idle"
    /\ UNCHANGED <<mcSendAsyncMutex, packets, spc, udp, async, pending, dropped, freedInFlight>>

\* uv_udp_send on a closing handle, after the callback of a cancelled request:
\* libuv does not expect it.
SendOnClosing ==
    /\ lpc = "dosend" /\ udp = "closing" /\ mqueSendBuf # NULL /\ FALSE \in ClosingRead
    /\ lpc' = "crashed"
    /\ UNCHANGED <<fields, spc, libuv, history>>

NotifySend ==
    /\ LoopIdle /\ async = "active" /\ pending
    /\ pending' = FALSE
    /\ DoSend
    /\ UNCHANGED <<mcSendAsyncMutex, packets, lpc, spc, udp, async, dropped, freedInFlight>>

\* SendCb up to OnSend: sent, or failed, or cancelled by uv_close.  After a
\* Close the request is memory already freed: still as it was, or cleared by
\* who had it since, so that neither OnSend nor DoSend is called, or worse.
SendCb ==
    /\ LoopIdle /\ sends # <<>>
    /\ sends' = Tail(sends)
    /\ mmapSend' = mmapSend \ {Head(sends)}
    /\ lpc' \in IF Head(sends) \in mmapSend THEN {"onsend"} ELSE {"onsend", "idle", "crashed"}
    /\ UNCHANGED <<mqueSendBuf, mcSendAsyncMutex, packets, spc, udp, async, pending, history>>

SendCbDone ==
    /\ lpc = "onsend" /\ spc[Loop] = "idle"
    /\ lpc' = "dosend"
    /\ UNCHANGED <<fields, spc, libuv, history>>

RecvCb ==
    /\ LoopIdle /\ udp = "open"
    /\ lpc' = "onrecv"
    /\ UNCHANGED <<fields, spc, libuv, history>>

RecvCbDone ==
    /\ lpc = "onrecv" /\ spc[Loop] = "idle"
    /\ lpc' = "idle"
    /\ UNCHANGED <<fields, spc, libuv, history>>

\* Mutant: the async handle is left open.
CloseKeepsAsync ==
    /\ LoopIdle \/ InCallback
    /\ udp \in {"unbound", "open"} /\ spc[Loop] = "idle" /\ mcSendAsyncMutex = NULL
    /\ udp' = "closing"
    /\ mqueSendBuf' = NULL /\ mmapSend' = {}
    /\ dropped' = packets /\ rejected' = {}
    /\ freedInFlight' = (sends # <<>>)
    /\ UNCHANGED <<mcSendAsyncMutex, packets, lpc, spc, async, pending, sends>>

\* Mutant: Close does not take mcSendAsyncMutex.
CloseNoLock ==
    /\ LoopIdle \/ InCallback
    /\ udp \in {"unbound", "open"} /\ spc[Loop] = "idle"
    /\ async' = IF async = "active" THEN "closing" ELSE async
    /\ udp' = "closing"
    /\ mqueSendBuf' = NULL /\ mmapSend' = {}
    /\ dropped' = packets /\ rejected' = {}
    /\ freedInFlight' = (sends # <<>>)
    /\ UNCHANGED <<mcSendAsyncMutex, packets, lpc, spc, pending, sends>>

\* Close: the async handle under its mutex, the socket, and at once
\* everything queued or in flight (CleanSendQueue).  What another thread
\* queues between the two goes the way of what was queued before.
Close ==
    /\ LoopIdle \/ InCallback
    /\ udp \in {"unbound", "open"} /\ spc[Loop] = "idle" /\ mcSendAsyncMutex = NULL
    /\ async' = IF async = "active" THEN "closing" ELSE async
    /\ udp' = "closing"
    /\ mqueSendBuf' = NULL /\ mmapSend' = {}
    /\ dropped' = packets
    /\ rejected' = {}
    /\ freedInFlight' = (sends # <<>>)
    /\ UNCHANGED <<mcSendAsyncMutex, packets, lpc, spc, pending, sends>>

\* Close after a Start that could not bind, and a destructor where no Start
\* went through, ask memory nobody has written whether it is active too.
CloseTooEarly ==
    /\ LoopIdle /\ async = "none" /\ udp \in {"none", "unbound", "closed"}
    /\ lpc' = "crashed"
    /\ UNCHANGED <<fields, spc, libuv, history>>

\* libuv's part: each handle is closed when its requests are called back.
UdpClosed ==
    /\ LoopIdle /\ udp = "closing" /\ sends = <<>>
    /\ udp' = "closed"
    /\ UNCHANGED <<fields, lpc, spc, async, pending, sends, history>>

AsyncClosed ==
    /\ LoopIdle /\ async = "closing"
    /\ async' = "closed" /\ pending' = FALSE
    /\ UNCHANGED <<fields, lpc, spc, udp, sends, history>>

\* The destructor, when libuv is done with the object or never had it.
Destroy ==
    /\ LoopIdle /\ udp \in {"none", "closed"} /\ async \in {"none", "closed"}
    /\ \A t \in Threads : spc[t] = "idle"
    /\ mqueSendBuf' = NULL /\ mmapSend' = {} /\ rejected' = {}
    /\ lpc' = "gone"
    /\ UNCHANGED <<mcSendAsyncMutex, packets, spc, libuv, dropped, freedInFlight>>

-----------------------------------------------------------------------------
Handler == StartAsync \/ LoopDoSend \/ SendOnClosing \/ SendCbDone \/ RecvCbDone

Next ==
    \/ \E t \in Threads : SendPush(t) \/ SendNotify(t) \/ SendTrigger(t) \/ SendNotifyTooEarly(t)
    \/ Start \/ StartBindFails \/ RecvCb \/ Close \/ CloseTooEarly \/ Destroy
    \/ Handler \/ NotifySend \/ SendCb \/ UdpClosed \/ AsyncClosed

Spec == Init /\ [][Next]_vars

\* Handlers and begun calls of Send end; the loop serves what is ready.  UDP
\* does not wait for a peer, so a request is always called back.
UdpFairness ==
    /\ WF_vars(Handler)
    /\ SF_vars(NotifySend) /\ SF_vars(SendCb) /\ SF_vars(UdpClosed) /\ SF_vars(AsyncClosed)
    /\ \A t \in Threads : WF_vars(SendNotify(t)) /\ WF_vars(SendTrigger(t))

FairSpec == Spec /\ UdpFairness

-----------------------------------------------------------------------------
(* Properties. *)

\* libuv has the packets in the order Send queued them, and no packet is in
\* two requests or both in one and in the queue (UvUdp.cpp:49-51,96-107).
\* The map holds exactly the requests that will be called back, and those
\* uv_udp_send refused, which only Close frees; a callback misses its
\* request only if Close freed it in flight (UvUdp.cpp:69-82,115-117,156).
RequestsExact ==
    /\ TypeOK
    /\ \A i, j \in DOMAIN sends : i < j => sends[i].last < sends[j].first
    /\ \A r \in mmapSend \cup Range(sends) :
          /\ r.first <= r.last
          /\ mqueSendBuf # NULL => r.last < mqueSendBuf.first
    /\ \A r, s \in mmapSend : r # s => r.last < s.first \/ s.last < r.first
    /\ ~freedInFlight /\ lpc # "gone" => mmapSend = Range(sends) \cup rejected

\* A packet queued on a started socket has a DoSend to come: the trigger, a
\* callback, or the end of Start (UvUdp.cpp:49-57,144).
NoStrandedPacket ==
    mqueSendBuf # NULL /\ async = "active" /\ lpc # "crashed" =>
        \/ pending \/ lpc \in {"dosend", "onsend"}
        \/ \E t \in Threads : spc[t] \in {"notify", "trigger"}

\* A thread about to trigger has an active handle to do it on, although its
\* test is over and Close and Start run on the loop: all three take
\* mcSendAsyncMutex (UvUdp.cpp:53-57,139-142,171-175).
TriggerOnlyActive ==
    \A t \in Threads : spc[t] = "trigger" => async = "active"

\* Close ends with both handles closed whatever was in flight, as long as
\* the callbacks of the freed requests do not bring the program down.
UdpCloseCompletes ==
    udp = "closing" ~> (udp = "closed" /\ async \in {"none", "closed"}) \/ lpc = "crashed"
=============================================================================
