--------------------------- MODULE SocketsProofs ----------------------------
(***************************************************************************)
(* Proofs about what is bound to an address, for any threads, packets and  *)
(* blocks of memory: CUvUdp's queue and requests, and who has the handles  *)
(* of the two servers.                                                     *)
(***************************************************************************)
EXTENDS Sockets, TLAPS

(* The inductive invariant of CUvUdp. *)

\* Requests in the order of their packets.
Ordered(s) == \A i, j \in DOMAIN s : i < j => s[i].last < s[j].first

\* A request is of packets that were queued, all before those queued now.
RequestSafe(r) ==
    /\ r.first <= r.last /\ r.last <= packets
    /\ mqueSendBuf # NULL => r.last < mqueSendBuf.first

Apart(R) == \A r, s \in R : r # s => r.last < s.first \/ s.last < r.first

QueueSafe ==
    mqueSendBuf # NULL => mqueSendBuf.first <= mqueSendBuf.last /\ mqueSendBuf.last <= packets

\* What uv_udp_send refused is not what it took.
KeptSafe ==
    /\ rejected \subseteq mmapSend /\ rejected \cap Range(sends) = {}
    /\ ~freedInFlight /\ lpc # "gone" => mmapSend = Range(sends) \cup rejected

UdpSafe ==
    /\ TypeOK /\ QueueSafe /\ KeptSafe
    /\ Ordered(sends) /\ Apart(mmapSend)
    /\ \A r \in mmapSend \cup Range(sends) : RequestSafe(r)

-----------------------------------------------------------------------------
(* The inductive invariant of the servers. *)

\* ConnCb alone has a handle in hand, which is open and the server's.
InHand ==
    /\ vpc = "idle" => pTcpCli = NoBlock
    /\ vpc \in {"accept", "onaccept"} => owner[pTcpCli] = "server" /\ handle[pTcpCli] = "open"

SvrSafe == HandlesAccounted /\ InHand

SockInv == UdpSafe /\ SvrSafe

\* Who is about to trigger has the mutex, and the handle is still active.
TriggerSafe == \A t \in Threads : spc[t] = "trigger" => mcSendAsyncMutex = t /\ async = "active"

-----------------------------------------------------------------------------
(* Sequences of requests. *)

LEMMA EmptyRange == Range(<<>>) = {}
  BY DEF Range

\* uv_udp_send puts its request last.
LEMMA AppendRequest ==
    ASSUME NEW s \in Seq(Intervals), NEW e \in Intervals,
           Ordered(s), \A r \in Range(s) : r.last < e.first
    PROVE  /\ Append(s, e) \in Seq(Intervals)
           /\ Range(Append(s, e)) = Range(s) \cup {e}
           /\ Ordered(Append(s, e))
  <1>1. /\ Append(s, e) \in Seq(Intervals) /\ Len(s) \in Nat
        /\ DOMAIN Append(s, e) = 1..(Len(s) + 1) /\ DOMAIN s = 1..Len(s)
        /\ Append(s, e)[Len(s) + 1] = e
        /\ \A i \in 1..Len(s) : Append(s, e)[i] = s[i]
    OBVIOUS
  <1>2. Range(Append(s, e)) = Range(s) \cup {e}
    <2>1. \A x : x \in Range(Append(s, e)) <=> \E i \in 1..(Len(s) + 1) : x = Append(s, e)[i]
      BY <1>1 DEF Range
    <2>2. \A x : x \in Range(s) <=> \E i \in 1..Len(s) : x = s[i]
      BY <1>1 DEF Range
    <2>3. 1..(Len(s) + 1) = (1..Len(s)) \cup {Len(s) + 1}
      BY <1>1
    <2> QED BY <1>1, <2>1, <2>2, <2>3
  <1>3. ASSUME NEW i \in 1..(Len(s) + 1), NEW j \in 1..(Len(s) + 1), i < j
        PROVE  Append(s, e)[i].last < Append(s, e)[j].first
    <2>1. i \in 1..Len(s) /\ Append(s, e)[i] = s[i] /\ s[i] \in Range(s)
      BY <1>1, <1>3 DEF Range
    <2>2. CASE j = Len(s) + 1
      BY <1>1, <2>1, <2>2
    <2>3. CASE j \in 1..Len(s)
      BY <1>1, <1>3, <2>1, <2>3 DEF Ordered
    <2> QED BY <1>1, <2>2, <2>3
  <1> QED BY <1>1, <1>2, <1>3 DEF Ordered

\* The request libuv calls back is the first, and it is gone then.
LEMMA TailRequest ==
    ASSUME NEW s \in Seq(Intervals), s # <<>>, Ordered(s),
           \A r \in Range(s) : r.first <= r.last
    PROVE  /\ Tail(s) \in Seq(Intervals)
           /\ Head(s) \in Range(s)
           /\ Range(Tail(s)) = Range(s) \ {Head(s)}
           /\ Ordered(Tail(s))
  <1>1. /\ Tail(s) \in Seq(Intervals) /\ Len(s) \in Nat \ {0} /\ Len(Tail(s)) = Len(s) - 1
        /\ DOMAIN Tail(s) = 1..(Len(s) - 1) /\ DOMAIN s = 1..Len(s)
        /\ \A i \in 1..(Len(s) - 1) : Tail(s)[i] = s[i + 1]
        /\ Head(s) = s[1] /\ \A i \in 1..Len(s) : s[i] \in Intervals
    OBVIOUS
  <1>2. Head(s) \in Range(s)
    BY <1>1 DEF Range
  <1>3. ASSUME NEW x \in Range(Tail(s)) PROVE x \in Range(s) \ {Head(s)}
    <2>1. PICK i \in 1..(Len(s) - 1) : x = s[i + 1]
      BY <1>1, <1>3 DEF Range
    <2>2. i + 1 \in 1..Len(s) /\ 1 \in 1..Len(s) /\ 1 < i + 1
      BY <1>1
    <2>3. x \in Range(s)
      BY <1>1, <2>1, <2>2 DEF Range
    <2>4. s[1].last < x.first
      BY <1>1, <2>1, <2>2 DEF Ordered
    <2>5. s[1].first <= s[1].last /\ s[1].first \in Nat /\ s[1].last \in Nat
      BY <1>1, <1>2, <2>2 DEF Intervals
    <2> QED BY <1>1, <2>3, <2>4, <2>5
  <1>4. ASSUME NEW x \in Range(s), x # Head(s) PROVE x \in Range(Tail(s))
    <2>1. PICK i \in 1..Len(s) : x = s[i]
      BY <1>1 DEF Range
    <2>2. i - 1 \in 1..(Len(s) - 1) /\ Tail(s)[i - 1] = x
      BY <1>1, <1>4, <2>1
    <2> QED BY <1>1, <2>2 DEF Range
  <1>5. Ordered(Tail(s))
    BY <1>1 DEF Ordered
  <1> QED BY <1>1, <1>2, <1>3, <1>4, <1>5

-----------------------------------------------------------------------------
(* The steps of CUvUdp. *)

LEMMA UdpInit == ASSUME Init PROVE UdpSafe
  <1>1. Range(sends) = {} /\ sends \in Seq(Intervals)
    BY EmptyRange DEF Init
  <1>2. TypeOK
    BY <1>1 DEF Init, TypeOK
  <1>3. QueueSafe /\ KeptSafe
    BY <1>1 DEF Init, QueueSafe, KeptSafe
  <1>4. Ordered(sends) /\ Apart(mmapSend)
    BY DEF Init, Ordered, Apart
  <1> QED BY <1>1, <1>2, <1>3, <1>4 DEF Init, UdpSafe

\* Sending queues behind all there is.
LEMMA PushSafe == ASSUME UdpSafe, NEW t \in Threads, SendPush(t) PROVE UdpSafe'
  <1> USE DEF UdpSafe
  <1>1. packets' = packets + 1 /\ packets \in Nat
    BY DEF SendPush, TypeOK
  <1>2. CASE mqueSendBuf = NULL
    <2>1. mqueSendBuf' = [first |-> packets', last |-> packets']
      BY <1>2 DEF SendPush
    <2>2. TypeOK'
      BY <1>1, <2>1, SMTT(40) DEF SendPush, TypeOK, Intervals, libuv, history
    <2>3. QueueSafe'
      BY <1>1, <2>1 DEF QueueSafe
    <2>4. KeptSafe'
      BY DEF KeptSafe, SendPush, libuv, history
    <2>5. \A r \in mmapSend' \cup Range(sends') : RequestSafe(r)'
      <3> SUFFICES ASSUME NEW r \in mmapSend \cup Range(sends) PROVE RequestSafe(r)'
        BY DEF SendPush, libuv
      <3>1. r \in Intervals
        BY DEF TypeOK, Range
      <3>2. RequestSafe(r)
        OBVIOUS
      <3> QED BY <1>1, <2>1, <3>1, <3>2 DEF RequestSafe, Intervals
    <2> QED BY <2>2, <2>3, <2>4, <2>5 DEF SendPush, libuv, Ordered, Apart
  <1>3. CASE mqueSendBuf # NULL
    <2>1. mqueSendBuf' = [mqueSendBuf EXCEPT !.last = packets'] /\ mqueSendBuf \in Intervals
      BY <1>3 DEF SendPush, TypeOK
    <2>2. mqueSendBuf'.first = mqueSendBuf.first /\ mqueSendBuf'.last = packets'
          /\ mqueSendBuf' \in Intervals
      BY <1>1, <2>1 DEF Intervals
    <2>3. TypeOK'
      BY <1>1, <2>2 DEF SendPush, TypeOK, libuv, history
    <2>4. QueueSafe'
      BY <1>1, <1>3, <2>1, <2>2 DEF QueueSafe, Intervals
    <2>5. KeptSafe'
      BY DEF KeptSafe, SendPush, libuv, history
    <2>6. \A r \in mmapSend' \cup Range(sends') : RequestSafe(r)'
      <3> SUFFICES ASSUME NEW r \in mmapSend \cup Range(sends) PROVE RequestSafe(r)'
        BY DEF SendPush, libuv
      <3>1. r \in Intervals
        BY DEF TypeOK, Range
      <3>2. RequestSafe(r)
        OBVIOUS
      <3> QED BY <1>1, <1>3, <2>2, <3>1, <3>2 DEF RequestSafe, Intervals
    <2> QED BY <2>3, <2>4, <2>5, <2>6 DEF SendPush, libuv, Ordered, Apart
  <1> QED BY <1>2, <1>3

\* Whatever uv_udp_send says to the request, it is behind the others.
LEMMA DoSendSafe ==
    ASSUME UdpSafe, DoSend, lpc # "gone",
           lpc' \in {"idle", "start", "dosend", "onsend", "onrecv", "gone", "crashed"},
           lpc' # "gone", UNCHANGED <<mcSendAsyncMutex, packets, spc, udp, async, dropped, freedInFlight>>,
           pending' \in BOOLEAN
    PROVE  UdpSafe'
  <1> USE DEF UdpSafe
  <1>1. CASE mqueSendBuf # NULL /\ mqueSendBuf' = NULL /\ mmapSend' = mmapSend \cup {mqueSendBuf}
             /\ \/ sends' = Append(sends, mqueSendBuf) /\ UNCHANGED rejected
                \/ rejected' = rejected \cup {mqueSendBuf} /\ UNCHANGED sends
    <2> DEFINE q == mqueSendBuf
    <2>1. /\ q \in Intervals /\ q.first <= q.last /\ q.last <= packets
          /\ q.first \in Nat /\ q.last \in Nat /\ packets \in Nat
      BY <1>1 DEF TypeOK, QueueSafe, Intervals
    <2>2. \A r \in mmapSend \cup Range(sends) :
              r \in Intervals /\ r.first <= r.last /\ r.last <= packets /\ r.last < q.first
              /\ r.first \in Nat /\ r.last \in Nat
      <3> SUFFICES ASSUME NEW r \in mmapSend \cup Range(sends)
                   PROVE  /\ r \in Intervals /\ r.first <= r.last /\ r.last <= packets
                          /\ r.last < q.first /\ r.first \in Nat /\ r.last \in Nat
        OBVIOUS
      <3>1. r \in Intervals
        BY DEF TypeOK, Range
      <3>2. RequestSafe(r)
        OBVIOUS
      <3> QED BY <1>1, <3>1, <3>2 DEF RequestSafe, Intervals
    <2>3. sends \in Seq(Intervals) /\ Ordered(sends) /\ rejected \subseteq mmapSend
          /\ Range(sends) \cap rejected = {} /\ mmapSend \in SUBSET Intervals
          /\ (~freedInFlight => mmapSend = Range(sends) \cup rejected)
      BY DEF TypeOK, KeptSafe
    <2> HIDE DEF q
    <2>4. q \notin mmapSend \cup Range(sends)
      BY <2>1, <2>2
    <2>5. /\ sends' \in Seq(Intervals) /\ Ordered(sends')
          /\ rejected' \subseteq mmapSend' /\ rejected' \cap Range(sends') = {}
          /\ Range(sends') \cup rejected' = Range(sends) \cup rejected \cup {q}
      <3>1. CASE sends' = Append(sends, q) /\ UNCHANGED rejected
        <4>1. sends' \in Seq(Intervals) /\ Range(sends') = Range(sends) \cup {q} /\ Ordered(sends')
          BY <2>1, <2>2, <2>3, <3>1, AppendRequest
        <4> QED BY <1>1, <2>3, <2>4, <3>1, <4>1 DEF q
      <3>2. CASE rejected' = rejected \cup {q} /\ UNCHANGED sends
        BY <1>1, <2>3, <2>4, <3>2 DEF q
      <3> QED BY <1>1, <3>1, <3>2 DEF q
    <2>6. mmapSend' = mmapSend \cup {q} /\ mqueSendBuf' = NULL
      BY <1>1 DEF q
    <2>7. TypeOK'
      BY <2>1, <2>3, <2>5, <2>6 DEF TypeOK
    <2>8. QueueSafe' /\ KeptSafe'
      BY <2>3, <2>5, <2>6 DEF QueueSafe, KeptSafe
    <2>9. Apart(mmapSend)'
      <3> SUFFICES ASSUME NEW r \in mmapSend', NEW s \in mmapSend', r # s
                   PROVE  r.last < s.first \/ s.last < r.first
        BY DEF Apart
      <3>1. CASE r \in mmapSend /\ s \in mmapSend
        BY <3>1 DEF Apart
      <3>2. CASE r = q
        BY <2>2, <2>6, <3>2
      <3>3. CASE s = q
        BY <2>2, <2>6, <3>3
      <3> QED BY <2>6, <3>1, <3>2, <3>3
    <2>10. \A r \in mmapSend' \cup Range(sends') : RequestSafe(r)'
      <3> SUFFICES ASSUME NEW r \in mmapSend' \cup Range(sends') PROVE RequestSafe(r)'
        OBVIOUS
      <3>1. r = q \/ r \in mmapSend \cup Range(sends)
        BY <2>5, <2>6, <2>3
      <3> QED BY <2>1, <2>2, <2>6, <3>1 DEF RequestSafe
    <2> QED BY <2>5, <2>7, <2>8, <2>9, <2>10
  <1>2. CASE UNCHANGED <<mqueSendBuf, mmapSend, sends, rejected>>
    <2>1. TypeOK' /\ QueueSafe' /\ KeptSafe'
      BY <1>2 DEF TypeOK, QueueSafe, KeptSafe
    <2> QED BY <1>2, <2>1 DEF RequestSafe
  <1> QED BY <1>1, <1>2 DEF DoSend

\* The callback's request leaves libuv and, unless Close was first, the map.
LEMMA SendCbSafe == ASSUME UdpSafe, SendCb PROVE UdpSafe'
  <1> USE DEF UdpSafe
  <1> DEFINE h == Head(sends)
  <1>1. /\ sends \in Seq(Intervals) /\ sends # <<>> /\ Ordered(sends)
        /\ \A r \in Range(sends) : r.first <= r.last
    BY DEF TypeOK, SendCb, RequestSafe
  <1>2. /\ sends' \in Seq(Intervals) /\ h \in Range(sends)
        /\ Range(sends') = Range(sends) \ {h} /\ Ordered(sends')
    BY <1>1, TailRequest DEF SendCb
  <1>3. mmapSend' = mmapSend \ {h}
    BY DEF SendCb
  <1> HIDE DEF h
  <1>4. TypeOK'
    BY <1>2, <1>3 DEF TypeOK, SendCb, history
  <1>5. KeptSafe' /\ QueueSafe'
    BY <1>2, <1>3 DEF KeptSafe, QueueSafe, SendCb, history, LoopIdle
  <1>6. \A r \in mmapSend' \cup Range(sends') : RequestSafe(r)'
    BY <1>2, <1>3 DEF RequestSafe, SendCb
  <1> QED BY <1>2, <1>3, <1>4, <1>5, <1>6 DEF Apart

\* Close drops the queue and the map, Destroy too.
LEMMA DropSafe ==
    ASSUME UdpSafe, Close \/ Destroy
    PROVE  UdpSafe'
  <1> USE DEF UdpSafe
  <1>1. /\ mqueSendBuf' = NULL /\ mmapSend' = {} /\ rejected' = {}
        /\ UNCHANGED <<sends, packets, mcSendAsyncMutex>>
    BY DEF Close, Destroy, libuv
  <1>2. TypeOK'
    <2>1. dropped' \in Nat /\ freedInFlight' \in BOOLEAN
      BY DEF TypeOK, Close, Destroy
    <2> QED BY <1>1, <2>1 DEF TypeOK, Close, Destroy, libuv
  <1>3. KeptSafe'
    <2>1. CASE Close
      <3>1. ~freedInFlight' => Range(sends') = {}
        BY <2>1, <1>1, EmptyRange DEF Close
      <3> QED BY <1>1, <3>1 DEF KeptSafe
    <2>2. CASE Destroy
      BY <1>1, <2>2 DEF KeptSafe, Destroy
    <2> QED BY <2>1, <2>2
  <1>4. QueueSafe' /\ Ordered(sends)' /\ Apart(mmapSend)'
    BY <1>1 DEF QueueSafe, Ordered, Apart
  <1>5. \A r \in mmapSend' \cup Range(sends') : RequestSafe(r)'
    BY <1>1 DEF RequestSafe
  <1> QED BY <1>2, <1>3, <1>4, <1>5

\* The other steps leave the packets alone.
LEMMA OtherSafe ==
    ASSUME UdpSafe, TypeOK',
           UNCHANGED <<mqueSendBuf, mmapSend, packets, sends, history>>,
           lpc' # "gone" => lpc # "gone"
    PROVE  UdpSafe'
  <1> USE DEF UdpSafe, history
  <1>1. QueueSafe' /\ KeptSafe' /\ Ordered(sends)' /\ Apart(mmapSend)'
    BY DEF QueueSafe, KeptSafe, Ordered, Apart
  <1>2. \A r \in mmapSend' \cup Range(sends') : RequestSafe(r)'
    BY DEF RequestSafe
  <1> QED BY <1>1, <1>2

LEMMA UdpStep == ASSUME UdpSafe, [Next]_vars PROVE UdpSafe'
  <1>0. TypeOK
    BY DEF UdpSafe
  <1>1. ASSUME NEW t \in Threads, SendPush(t) PROVE UdpSafe'
    BY <1>1, PushSafe
  <1>2. ASSUME NEW t \in Threads, SendNotify(t) PROVE UdpSafe'
    <2>1. TypeOK'
      <3>1. /\ spc' \in [Threads -> {"idle", "notify", "trigger"}]
            /\ mcSendAsyncMutex' \in Threads \cup {NULL}
        BY <1>0, <1>2 DEF TypeOK, SendNotify
      <3> QED BY <1>0, <1>2, <3>1 DEF TypeOK, SendNotify, history, libuv
    <2> QED BY <1>2, <2>1, OtherSafe DEF SendNotify, libuv
  <1>2a. ASSUME NEW t \in Threads, SendTrigger(t) PROVE UdpSafe'
    <2>1. TypeOK'
      <3>1. /\ spc' \in [Threads -> {"idle", "notify", "trigger"}]
            /\ mcSendAsyncMutex' = NULL
        BY <1>0, <1>2a DEF TypeOK, SendTrigger
      <3>2. pending' \in BOOLEAN
        BY <1>2a DEF SendTrigger
      <3> QED BY <1>0, <1>2a, <3>1, <3>2 DEF TypeOK, SendTrigger, history
    <2> QED BY <1>2a, <2>1, OtherSafe DEF SendTrigger
  <1>3. ASSUME NEW t \in Threads, SendNotifyTooEarly(t) PROVE UdpSafe'
    <2>1. TypeOK'
      BY <1>0, <1>3 DEF TypeOK, SendNotifyTooEarly, fields, history, libuv
    <2> QED BY <1>3, <2>1, OtherSafe DEF SendNotifyTooEarly, fields, libuv, Running
  <1>4. CASE Start \/ StartBindFails \/ RecvCb \/ UdpClosed \/ AsyncClosed
             \/ StartAsync \/ SendOnClosing \/ SendCbDone \/ RecvCbDone \/ CloseTooEarly
    <2> USE DEF InitUdp, CloseTooEarly, Start, StartBindFails, RecvCb, UdpClosed, AsyncClosed,
                StartAsync, SendOnClosing, SendCbDone, RecvCbDone, LoopIdle
    <2> USE DEF TypeOK, fields, history, libuv
    <2>1. TypeOK'
      <3>1. CASE Start \/ StartBindFails
        BY <1>0, <3>1
      <3>2. CASE RecvCb \/ RecvCbDone \/ SendCbDone
        BY <1>0, <3>2
      <3>3. CASE UdpClosed \/ AsyncClosed
        BY <1>0, <3>3
      <3>4. CASE StartAsync
        BY <1>0, <3>4
      <3>5. CASE SendOnClosing \/ CloseTooEarly
        BY <1>0, <3>5
      <3> QED BY <1>4, <3>1, <3>2, <3>3, <3>4, <3>5
    <2>2. UNCHANGED <<fields, sends, history>> /\ lpc # "gone"
      BY <1>4 DEF libuv
    <2> QED BY <2>1, <2>2, OtherSafe
  <1>5. CASE Close \/ Destroy
    BY <1>5, DropSafe
  <1>6. CASE LoopDoSend
    <2>1. pending' \in BOOLEAN
      BY <1>0, <1>6 DEF LoopDoSend, TypeOK
    <2> QED BY <1>6, <2>1, DoSendSafe DEF LoopDoSend
  <1>7. CASE NotifySend
    BY <1>7, DoSendSafe DEF NotifySend, LoopIdle
  <1>8. CASE SendCb
    BY <1>8, SendCbSafe
  <1>9. CASE UNCHANGED vars
    BY <1>0, <1>9, OtherSafe DEF vars, libuv, TypeOK, fields, history
  <1> QED BY <1>1, <1>2, <1>2a, <1>3, <1>4, <1>5, <1>6, <1>7, <1>8, <1>9 DEF Next, Handler

\* The mutex is taken with the test and given back with the trigger, and
\* whoever changes what the handle is finds it free.
LEMMA TriggerStep ==
    ASSUME TypeOK, TriggerSafe, [Next]_vars
    PROVE  TriggerSafe'
  <1> SUFFICES ASSUME NEW u \in Threads, spc'[u] = "trigger"
               PROVE  mcSendAsyncMutex' = u /\ async' = "active"
    BY DEF TriggerSafe
  <1>1. spc \in [Threads -> {"idle", "notify", "trigger"}] /\ NULL \notin Threads
    BY LoopAssumption DEF TypeOK, Threads
  <1>2. spc[u] = "trigger" => mcSendAsyncMutex = u /\ async = "active"
    BY DEF TriggerSafe
  <1>3. ASSUME NEW t \in Threads, SendNotify(t)
        PROVE  mcSendAsyncMutex' = u /\ async' = "active"
    <2>1. CASE u = t
      BY <1>1, <1>3, <2>1 DEF SendNotify, libuv
    <2>2. CASE u # t
      BY <1>1, <1>2, <1>3, <2>2 DEF SendNotify
    <2> QED BY <2>1, <2>2
  <1>4. ASSUME NEW t \in Threads, SendTrigger(t)
        PROVE  mcSendAsyncMutex' = u /\ async' = "active"
    <2>1. mcSendAsyncMutex = t
      BY <1>4 DEF TriggerSafe, SendTrigger
    <2>2. u # t /\ spc[u] = "trigger"
      BY <1>1, <1>4 DEF SendTrigger
    <2> QED BY <1>2, <2>1, <2>2
  <1>5. ASSUME NEW t \in Threads, SendPush(t)
        PROVE  mcSendAsyncMutex' = u /\ async' = "active"
    BY <1>1, <1>2, <1>5 DEF SendPush, libuv
  <1>6. CASE StartAsync \/ Close
    BY <1>1, <1>2, <1>6 DEF StartAsync, Close, fields
  <1>7. CASE AsyncClosed
    BY <1>1, <1>2, <1>7 DEF AsyncClosed
  <1>8. CASE UNCHANGED <<spc, mcSendAsyncMutex, async>>
    BY <1>2, <1>8
  <1>9. CASE Start \/ StartBindFails \/ RecvCb \/ CloseTooEarly \/ Destroy
             \/ LoopDoSend \/ SendOnClosing \/ SendCbDone \/ RecvCbDone
             \/ NotifySend \/ SendCb \/ UdpClosed \/ UNCHANGED vars
             \/ \E t \in Threads : SendNotifyTooEarly(t)
    BY <1>8, <1>9 DEF Start, StartBindFails, RecvCb, CloseTooEarly, Destroy,
          LoopDoSend, SendOnClosing, SendCbDone, RecvCbDone, NotifySend, SendCb,
          UdpClosed, vars, SendNotifyTooEarly, fields, libuv
  <1> QED BY <1>3, <1>4, <1>5, <1>6, <1>7, <1>9 DEF Next, Handler

-----------------------------------------------------------------------------
(* The steps of the servers. *)

LEMMA SvrInitSafe == ASSUME SvrInit PROVE SvrSafe
  BY DEF SvrInit, SvrSafe, HandlesAccounted, SvrTypeOK, InHand

\* Giving a handle back closes it first.
LEMMA FreeSafe ==
    ASSUME SvrSafe, vpc \in {"accept", "onaccept"}, svrKind = "tcp", FreeTcpCli,
           UNCHANGED <<svrKind, listener, failed, overwritten>>
    PROVE  SvrSafe'
  <1> USE DEF SvrSafe, FreeTcpCli, Done
  <1>1. SvrTypeOK'
    BY DEF HandlesAccounted, SvrTypeOK
  <1>2. InHand'
    BY DEF InHand
  <1>3. pTcpCli \in Blocks
    BY DEF HandlesAccounted, SvrTypeOK
  <1>4. HandlesAccounted'
    BY <1>1, <1>3 DEF HandlesAccounted, SvrTypeOK
  <1> QED BY <1>2, <1>4

LEMMA SvrStep == ASSUME SvrSafe, [SvrNext]_svrvars PROVE SvrSafe'
  <1> USE DEF SvrSafe
  <1>1. CASE OtherMalloc
    <2>1. SvrTypeOK'
      BY <1>1 DEF OtherMalloc, SvrMalloc, HandlesAccounted, SvrTypeOK
    <2>2. InHand'
      BY <1>1 DEF OtherMalloc, SvrMalloc, InHand, HandlesAccounted, SvrTypeOK
    <2>3. HandlesAccounted'
      BY <1>1, <2>1 DEF OtherMalloc, SvrMalloc, HandlesAccounted, SvrTypeOK
    <2> QED BY <2>2, <2>3
  <1>2. CASE OtherFree
    <2>1. SvrTypeOK'
      BY <1>2 DEF OtherFree, HandlesAccounted, SvrTypeOK
    <2>2. InHand'
      BY <1>2 DEF OtherFree, InHand, HandlesAccounted, SvrTypeOK
    <2>3. HandlesAccounted'
      BY <1>2, <2>1 DEF OtherFree, HandlesAccounted, SvrTypeOK
    <2> QED BY <2>2, <2>3
  <1>3. CASE Listen \/ SvrClose
    BY <1>3 DEF Listen, SvrClose, InLoop, InHand, HandlesAccounted, SvrTypeOK
  <1>4. CASE ConnCb
    <2>1. PICK b \in Blocks : /\ InLoop /\ SvrMalloc(b, "server")
                              /\ handle' = [handle EXCEPT ![b] = "open"]
                              /\ pTcpCli' = b /\ vpc' = "accept"
                              /\ UNCHANGED <<svrKind, listener, failed, givenBack>>
      BY <1>4 DEF ConnCb
    <2>2. SvrTypeOK'
      BY <2>1 DEF SvrMalloc, HandlesAccounted, SvrTypeOK
    <2>3. InHand'
      BY <2>1 DEF SvrMalloc, InHand, HandlesAccounted, SvrTypeOK
    <2>4. pTcpCli \notin Blocks
      BY <2>1, NoBlockAssumption DEF InHand, InLoop
    <2>5. HandlesAccounted'
      BY <2>1, <2>2, <2>4 DEF SvrMalloc, HandlesAccounted, SvrTypeOK
    <2> QED BY <2>3, <2>5
  <1>5. CASE Accepted
    BY <1>5 DEF Accepted, InHand, HandlesAccounted, SvrTypeOK
  <1>6. CASE AcceptFails
    <2>1. CASE svrKind = "tcp"
      BY <1>6, <2>1, FreeSafe DEF AcceptFails
    <2>2. CASE svrKind # "tcp"
      BY <1>6, <2>2 DEF AcceptFails, Done, InHand, HandlesAccounted, SvrTypeOK
    <2> QED BY <2>1, <2>2
  <1>7. CASE OnAccept
    <2>1. SvrTypeOK' /\ InHand'
      BY <1>7 DEF OnAccept, Done, InHand, HandlesAccounted, SvrTypeOK
    <2>2. HandlesAccounted'
      BY <1>7, <2>1 DEF OnAccept, Done, InHand, HandlesAccounted, SvrTypeOK
    <2> QED BY <2>1, <2>2
  <1>8. CASE OnAcceptRefuses
    BY <1>8, FreeSafe DEF OnAcceptRefuses
  <1>9. CASE OnAcceptRefusesPipe
    <2>1. SvrTypeOK' /\ InHand'
      BY <1>9 DEF OnAcceptRefusesPipe, Done, InHand, HandlesAccounted, SvrTypeOK
    <2>2. HandlesAccounted'
      BY <1>9, <2>1 DEF OnAcceptRefusesPipe, Done, InHand, HandlesAccounted, SvrTypeOK
    <2> QED BY <2>1, <2>2
  <1>10. CASE UserClose
    <2>1. SvrTypeOK' /\ InHand'
      BY <1>10 DEF UserClose, InLoop, InHand, HandlesAccounted, SvrTypeOK
    <2>2. HandlesAccounted'
      BY <1>10, <2>1 DEF UserClose, InLoop, InHand, HandlesAccounted, SvrTypeOK
    <2> QED BY <2>1, <2>2
  <1>11. CASE EndIteration
    <2>1. SvrTypeOK' /\ InHand'
      BY <1>11 DEF EndIteration, InLoop, InHand, HandlesAccounted, SvrTypeOK
    <2>2. HandlesAccounted'
      BY <1>11, <2>1 DEF EndIteration, InLoop, InHand, HandlesAccounted, SvrTypeOK
    <2> QED BY <2>1, <2>2
  <1>12. CASE UNCHANGED svrvars
    BY <1>12 DEF svrvars, InHand, HandlesAccounted, SvrTypeOK
  <1> QED BY <1>1, <1>2, <1>3, <1>4, <1>5, <1>6, <1>7, <1>8, <1>9, <1>10, <1>11, <1>12
          DEF SvrNext

-----------------------------------------------------------------------------
(* Both are left alone by the steps of the other. *)

LEMMA SockStep == ASSUME SockInv, [SockNext]_sockvars PROVE SockInv'
  <1> USE DEF SockInv
  <1>1. [Next]_vars /\ [SvrNext]_svrvars
    BY DEF SockNext, sockvars
  <1> QED BY <1>1, UdpStep, SvrStep

\* The invariant of the UDP sockets and the servers, at every step of every
\* sender, callback and connection.
THEOREM SockInvCorrect == SockSpec => []SockInv
  <1>1. SockInit => SockInv
    BY UdpInit, SvrInitSafe DEF SockInit, SockInv
  <1>2. SockInv /\ [SockNext]_sockvars => SockInv'
    BY SockStep
  <1> QED BY <1>1, <1>2, PTL DEF SockSpec

\* However many threads send and whatever the callbacks do: libuv has every
\* packet at most once and in order, and the map holds exactly what will be
\* called back or was refused (UvUdp.cpp:49-157).
THEOREM RequestsExactCorrect == SockSpec => []RequestsExact
  <1>1. SockInv => RequestsExact
    BY DEF SockInv, UdpSafe, RequestsExact, KeptSafe, Ordered, Apart, RequestSafe
  <1> QED BY <1>1, SockInvCorrect, PTL

\* However many connections, blocks and other threads there are, every open
\* handle and all memory libuv still needs is accounted for
\* (UvTcpSvr.cpp:17-41, UvPipeSvr.cpp:38-53).
THEOREM HandlesAccountedCorrect == SockSpec => []HandlesAccounted
  <1>1. SockInv => HandlesAccounted
    BY DEF SockInv, SvrSafe
  <1> QED BY <1>1, SockInvCorrect, PTL

\* Between Send's test and its trigger the handle stays active, however many
\* threads send while the loop starts, closes and ends the handle: who is
\* between the two has mcSendAsyncMutex (UvUdp.cpp:53-57,139-142,171-175).
THEOREM TriggerCorrect == SockSpec => []TriggerOnlyActive
  <1>1. SockInit => TriggerSafe
    BY DEF SockInit, Init, TriggerSafe
  <1>2. TriggerSafe /\ SockInv /\ [SockNext]_sockvars => TriggerSafe'
    <2> SUFFICES ASSUME TriggerSafe, SockInv, [SockNext]_sockvars PROVE TriggerSafe'
      OBVIOUS
    <2>1. TypeOK /\ [Next]_vars
      BY DEF SockInv, UdpSafe, SockNext, sockvars
    <2> QED BY <2>1, TriggerStep
  <1>3. TriggerSafe => TriggerOnlyActive
    BY DEF TriggerSafe, TriggerOnlyActive
  <1> QED BY <1>1, <1>2, <1>3, SockInvCorrect, PTL DEF SockSpec

\* On a build where DoSend's test reads FALSE, a packet queued on a started
\* socket has a DoSend to come, in every interleaving of any number of
\* senders with the loop (UvUdp.cpp:49-57,100,144).
THEOREM NoStrandedCorrect ==
    ASSUME ClosingRead = {FALSE}
    PROVE  SockSpec => []NoStrandedPacket
  <1> DEFINE I == SockInv /\ NoStrandedPacket
  <1>1. SockInit => I
    BY UdpInit, SvrInitSafe DEF SockInit, SockInv, NoStrandedPacket, Init
  <1>2. I /\ [SockNext]_sockvars => I'
    <2> SUFFICES ASSUME SockInv, NoStrandedPacket, [SockNext]_sockvars
                 PROVE  NoStrandedPacket'
      BY SockStep
    <2>0. spc \in [Threads -> {"idle", "notify", "trigger"}]
      BY DEF SockInv, UdpSafe, TypeOK
    <2>1. ASSUME NEW t \in Threads, SendPush(t) PROVE NoStrandedPacket'
      BY <2>0, <2>1 DEF NoStrandedPacket, SendPush
    <2>2. ASSUME NEW t \in Threads, SendNotify(t) PROVE NoStrandedPacket'
      <3>1. CASE async = "active"
        BY <2>0, <2>2, <3>1 DEF NoStrandedPacket, SendNotify
      <3>2. CASE async # "active"
        BY <2>2, <3>2 DEF NoStrandedPacket, SendNotify, libuv
      <3> QED BY <3>1, <3>2
    <2>2a. ASSUME NEW t \in Threads, SendTrigger(t) PROVE NoStrandedPacket'
      BY <2>2a DEF NoStrandedPacket, SendTrigger
    <2>3. CASE DoSend /\ UNCHANGED <<spc, async>>
      <3>1. mqueSendBuf' = NULL
        BY <2>3 DEF DoSend
      <3> QED BY <3>1 DEF NoStrandedPacket
    <2>4. CASE UNCHANGED <<mqueSendBuf, spc, pending>>
               /\ (async' = "active" /\ lpc' # "crashed" =>
                       \/ lpc' \in {"dosend", "onsend"}
                       \/ async = "active" /\ lpc \notin {"crashed", "dosend", "onsend"})
      BY <2>4 DEF NoStrandedPacket
    <2>5. CASE Close \/ Destroy
      BY <2>5 DEF NoStrandedPacket, Close, Destroy
    <2>6. CASE Start \/ StartBindFails \/ CloseTooEarly \/ SendOnClosing \/ SendCbDone \/ SendCb \/ RecvCb
               \/ RecvCbDone \/ UdpClosed
      BY <2>4, <2>6 DEF InitUdp, Start, StartBindFails, CloseTooEarly, SendOnClosing, SendCbDone, SendCb, RecvCb,
            RecvCbDone, UdpClosed, LoopIdle, fields, history, libuv
    <2>7. CASE StartAsync \/ AsyncClosed
      BY <2>7 DEF StartAsync, AsyncClosed, NoStrandedPacket
    <2>8. CASE \E t \in Threads : SendNotifyTooEarly(t)
      BY <2>8 DEF SendNotifyTooEarly, NoStrandedPacket
    <2>9. CASE UNCHANGED vars
      BY <2>9 DEF vars, fields, libuv, NoStrandedPacket
    <2> QED BY <2>1, <2>2, <2>2a, <2>3, <2>5, <2>6, <2>7, <2>8, <2>9
            DEF SockNext, sockvars, Next, Handler, LoopDoSend, NotifySend
  <1>3. I => NoStrandedPacket
    OBVIOUS
  <1> QED BY <1>1, <1>2, <1>3, PTL DEF SockSpec
=============================================================================
