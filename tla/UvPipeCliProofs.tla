--------------------------- MODULE UvPipeCliProofs --------------------------
(***************************************************************************)
(* Proofs about the clients CUvTcpCli and CUvPipeCli, for any number of    *)
(* sending threads and of bytes: the stream is in order, the handle is     *)
(* only triggered alive, no data of an established connection waits for    *)
(* nothing, every byte is counted once and every request is freed.         *)
(***************************************************************************)
EXTENDS UvPipeCli, DataLemmas

\* What the state of the object says of its handles.
ConnSafe ==
    /\ role = "none" => miTcpCliState = "none"
    /\ miTcpCliState = "estab" => tcp = "open" /\ async = "active"
    /\ tcp = "connecting" => role = "connect" /\ miTcpCliState = "none"
    /\ lpc = "set" => role = "accept" /\ tcp = "open" /\ miTcpCliState = "none"
    /\ lpc = "onconnerr" => miTcpCliState = "none"
    /\ lpc = "onclose" => miTcpCliState = "close"
    /\ tcp = "closed" => writes = <<>>
    /\ lpc = "gone" => \A t \in Threads : spc[t] = "idle"

Ordered(s) == \A i, j \in DOMAIN s : i < j => s[i].last < s[j].first

\* The chunks after the last byte written and up to the last one accepted.
ChunksSafe ==
    /\ wire <= miNeedSendBytes
    /\ Ordered(writes)
    /\ \A i \in DOMAIN writes : /\ writes[i].first <= writes[i].last
                                /\ wire < writes[i].first
                                /\ writes[i].last <= miNeedSendBytes
    /\ mpSendBuf # NULL => /\ mpSendBuf.first <= mpSendBuf.last
                           /\ mpSendBuf.last = miNeedSendBytes
                           /\ wire < mpSendBuf.first
                           /\ \A i \in DOMAIN writes : writes[i].last < mpSendBuf.first
    /\ miTcpCliState = "none" => early = miNeedSendBytes

Before(s, w, i) == IF i = 1 THEN w ELSE s[i - 1].last

EndOf(s, w) == IF s = <<>> THEN w ELSE s[Len(s)].last

\* As long as nothing was lost, the chunks follow each other.
NoGap ==
    rejected = {} /\ ~failed =>
        /\ \A i \in DOMAIN writes : writes[i].first = Before(writes, wire, i) + 1
        /\ mpSendBuf # NULL => mpSendBuf.first = EndOf(writes, wire) + 1
        /\ mpSendBuf = NULL /\ lpc # "gone" => EndOf(writes, wire) = miNeedSendBytes

Elements(s) == {s[i] : i \in DOMAIN s}

\* The map holds what will be called back, and what uv_write refused.
MapSafe ==
    /\ \A r \in rejected : /\ r.first <= r.last /\ r.last <= miNeedSendBytes
                           /\ mpSendBuf # NULL => r.last < mpSendBuf.first
    /\ rejected \cap Elements(writes) = {}
    /\ lpc # "gone" => mmapSend = Elements(writes) \cup rejected

CliInv == TypeOK /\ ConnSafe /\ ChunksSafe /\ NoGap /\ MapSafe /\ NoStrandedData

-----------------------------------------------------------------------------
(* Sequences of chunks. *)

LEMMA AppendFacts ==
    ASSUME NEW s \in Seq(Intervals), NEW e \in Intervals
    PROVE  /\ Append(s, e) \in Seq(Intervals) /\ Append(s, e) # <<>>
           /\ Len(s) \in Nat /\ Len(Append(s, e)) = Len(s) + 1
           /\ DOMAIN Append(s, e) = 1..(Len(s) + 1) /\ DOMAIN s = 1..Len(s)
           /\ Append(s, e)[Len(s) + 1] = e
           /\ \A i \in 1..Len(s) : Append(s, e)[i] = s[i] /\ s[i] \in Intervals
  OBVIOUS

LEMMA TailFacts ==
    ASSUME NEW s \in Seq(Intervals), s # <<>>
    PROVE  /\ Tail(s) \in Seq(Intervals)
           /\ Len(s) \in Nat \ {0} /\ Len(Tail(s)) = Len(s) - 1
           /\ DOMAIN Tail(s) = 1..(Len(s) - 1) /\ DOMAIN s = 1..Len(s)
           /\ \A i \in 1..(Len(s) - 1) : Tail(s)[i] = s[i + 1]
           /\ Head(s) = s[1] /\ \A i \in 1..Len(s) : s[i] \in Intervals
  OBVIOUS

\* What follows a chunk appended begins where it ends.
LEMMA EndOfAppend ==
    ASSUME NEW s \in Seq(Intervals), NEW e \in Intervals, NEW w
    PROVE  /\ EndOf(Append(s, e), w) = e.last
           /\ Elements(Append(s, e)) = Elements(s) \cup {e}
           /\ \A i \in 1..Len(s) : Before(Append(s, e), w, i) = Before(s, w, i)
           /\ Before(Append(s, e), w, Len(s) + 1) = EndOf(s, w)
  <1>1. EndOf(Append(s, e), w) = e.last
    BY AppendFacts DEF EndOf
  <1>2. Elements(Append(s, e)) = Elements(s) \cup {e}
    <2>1. 1..(Len(s) + 1) = (1..Len(s)) \cup {Len(s) + 1}
      BY AppendFacts
    <2> QED BY <2>1, AppendFacts DEF Elements
  <1>3. \A i \in 1..Len(s) : Before(Append(s, e), w, i) = Before(s, w, i)
    <2> SUFFICES ASSUME NEW i \in 1..Len(s), i # 1
                 PROVE  Append(s, e)[i - 1] = s[i - 1]
      BY DEF Before
    <2>1. i - 1 \in 1..Len(s)
      BY AppendFacts
    <2> QED BY <2>1, AppendFacts
  <1>4. Before(Append(s, e), w, Len(s) + 1) = EndOf(s, w)
    <2>1. CASE s = <<>>
      BY <2>1 DEF Before, EndOf
    <2>2. CASE s # <<>>
      <3>1. Len(s) + 1 # 1 /\ (Len(s) + 1) - 1 = Len(s) /\ Len(s) \in 1..Len(s)
        BY <2>2, AppendFacts
      <3> QED BY <2>2, <3>1, AppendFacts DEF Before, EndOf
    <2> QED BY <2>1, <2>2
  <1> QED BY <1>1, <1>2, <1>3, <1>4

\* The first chunk called back: the others follow its end.
LEMMA TailChunks ==
    ASSUME NEW s \in Seq(Intervals), s # <<>>, Ordered(s),
           \A i \in DOMAIN s : s[i].first <= s[i].last
    PROVE  /\ Ordered(Tail(s))
           /\ Elements(Tail(s)) = Elements(s) \ {Head(s)}
           /\ Head(s) \in Elements(s)
           /\ EndOf(Tail(s), Head(s).last) = EndOf(s, Head(s).last)
           /\ \A i \in DOMAIN Tail(s) : /\ Tail(s)[i] = s[i + 1] /\ i + 1 \in DOMAIN s
                                        /\ Head(s).last < Tail(s)[i].first
           /\ \A w : \A i \in DOMAIN Tail(s) :
                  Before(Tail(s), Head(s).last, i) = Before(s, w, i + 1)
  <1>1. Ordered(Tail(s))
    BY TailFacts DEF Ordered
  <1>2. \A i \in DOMAIN Tail(s) : /\ Tail(s)[i] = s[i + 1] /\ i + 1 \in DOMAIN s
                                  /\ Head(s).last < Tail(s)[i].first
    BY TailFacts DEF Ordered
  <1>3. Head(s) \in Elements(s) /\ 1 \in DOMAIN s
    BY TailFacts DEF Elements
  <1>4. Elements(Tail(s)) = Elements(s) \ {Head(s)}
    <2>1. ASSUME NEW x \in Elements(Tail(s)) PROVE x \in Elements(s) \ {Head(s)}
      <3>1. PICK i \in DOMAIN Tail(s) : x = s[i + 1] /\ i + 1 \in DOMAIN s /\ Head(s).last < x.first
        BY <1>2, <2>1 DEF Elements
      <3>2. Head(s).first <= Head(s).last /\ Head(s).first \in Nat /\ Head(s).last \in Nat
        BY <1>3, TailFacts DEF Intervals
      <3> QED BY <3>1, <3>2 DEF Elements
    <2>2. ASSUME NEW x \in Elements(s), x # Head(s) PROVE x \in Elements(Tail(s))
      <3>1. PICK i \in DOMAIN s : x = s[i]
        BY DEF Elements
      <3>2. i - 1 \in DOMAIN Tail(s) /\ Tail(s)[i - 1] = x
        BY <2>2, <3>1, TailFacts
      <3> QED BY <3>2 DEF Elements
    <2> QED BY <2>1, <2>2
  <1>5. EndOf(Tail(s), Head(s).last) = EndOf(s, Head(s).last)
    <2>1. CASE Len(s) = 1
      <3>1. Tail(s) = <<>>
        BY <2>1, TailFacts
      <3> QED BY <2>1, <3>1, TailFacts DEF EndOf
    <2>2. CASE Len(s) # 1
      <3>1. Len(s) \in Nat \ {0} /\ Len(Tail(s)) = Len(s) - 1
        BY TailFacts
      <3>2. Len(s) - 1 \in 1..(Len(s) - 1) /\ (Len(s) - 1) + 1 = Len(s)
        BY <2>2, <3>1
      <3>3. Tail(s) # <<>>
        BY <3>1, <3>2
      <3>4. Tail(s)[Len(s) - 1] = s[(Len(s) - 1) + 1]
        BY <3>2, TailFacts
      <3> QED BY <3>1, <3>2, <3>3, <3>4 DEF EndOf
    <2> QED BY <2>1, <2>2
  <1>6. ASSUME NEW w, NEW i \in DOMAIN Tail(s)
        PROVE  Before(Tail(s), Head(s).last, i) = Before(s, w, i + 1)
    <2>1. i \in 1..(Len(s) - 1) /\ i + 1 # 1 /\ (i + 1) - 1 = i
      BY TailFacts
    <2>2. CASE i = 1
      BY <2>1, <2>2, TailFacts DEF Before
    <2>3. CASE i # 1
      <3>1. i - 1 \in 1..(Len(s) - 1) /\ (i - 1) + 1 = i
        BY <2>1, <2>3, TailFacts
      <3>2. Tail(s)[i - 1] = s[i]
        BY <3>1, TailFacts
      <3> QED BY <2>1, <2>3, <3>2 DEF Before
    <2> QED BY <2>2, <2>3
  <1> QED BY <1>1, <1>2, <1>3, <1>4, <1>5, <1>6

-----------------------------------------------------------------------------
(* The steps that move chunks. *)

LEMMA InitSafe == ASSUME Init PROVE CliInv
  <1>1. TypeOK
    <2>1. pending \in BOOLEAN /\ failed \in BOOLEAN /\ mpTcpCli \in BOOLEAN
      BY Zenon DEF Init
    <2>2. writes \in Seq(Intervals)
      BY DEF Init
    <2>3. spc \in [Threads -> {"idle", "send"}]
      BY DEF Init
    <2> QED BY <2>1, <2>2, <2>3 DEF Init, TypeOK
  <1>2. ConnSafe /\ NoStrandedData
    BY DEF Init, ConnSafe, NoStrandedData
  <1>3. Elements(writes) = {} /\ DOMAIN writes = {}
    BY DEF Init, Elements
  <1>4. ChunksSafe
    BY <1>3 DEF Init, ChunksSafe, Ordered
  <1>5. NoGap /\ MapSafe
    BY <1>3 DEF Init, NoGap, MapSafe, EndOf
  <1> QED BY <1>1, <1>2, <1>4, <1>5 DEF CliInv

\* Send appends the next byte behind all there is.
LEMMA SendAppendSafe ==
    ASSUME CliInv, NEW t \in Threads, SendAppend(t)
    PROVE  CliInv'
  <1> DEFINE n == miNeedSendBytes + 1
  <1>0. TypeOK /\ miNeedSendBytes \in Nat /\ n \in Nat /\ spc[t] = "send" /\ lpc # "gone"
    BY DEF CliInv, TypeOK, SendAppend, ConnSafe
  <1>1. /\ miNeedSendBytes' = n
        /\ spc' = [spc EXCEPT ![t] = "idle"]
        /\ early' = IF miTcpCliState = "none" THEN n ELSE early
        /\ pending' = (pending \/ miTcpCliState = "estab")
        /\ mpSendBuf' = Appended(mpSendBuf, n)
        /\ UNCHANGED <<miTcpCliState, mpTcpCli, role, mmapSend, miTotalSendBytes, lpc, tcp, async,
                       writes, rejected, failed, wire>>
    BY DEF SendAppend, object
  <1> HIDE DEF n
  <1>2. /\ mpSendBuf' \in Intervals /\ mpSendBuf' # NULL /\ mpSendBuf'.last = n
        /\ mpSendBuf'.first = IF mpSendBuf = NULL THEN n ELSE mpSendBuf.first
    <2>1. CASE mpSendBuf = NULL
      BY <1>0, <1>1, <2>1, NullAssumption DEF Appended, Intervals
    <2>2. CASE mpSendBuf # NULL
      <3>1. mpSendBuf \in Intervals
        BY <1>0, <2>2 DEF TypeOK
      <3>2. mpSendBuf' = [first |-> mpSendBuf.first, last |-> n] /\ mpSendBuf.first \in Nat
        BY <1>1, <2>2, <3>1 DEF Appended, Intervals
      <3> QED BY <1>0, <2>2, <3>2, NullAssumption DEF Intervals
    <2> QED BY <2>1, <2>2
  <1>3. pending' \in BOOLEAN
    BY <1>1, Zenon
  <1>4. TypeOK'
    BY <1>0, <1>1, <1>2, <1>3 DEF TypeOK
  <1>5. ConnSafe'
    BY <1>0, <1>1 DEF CliInv, ConnSafe, TypeOK
  <1>6. /\ writes \in Seq(Intervals) /\ wire \in Nat
        /\ \A i \in DOMAIN writes : writes[i] \in Intervals /\ writes[i].last \in Nat
        /\ mpSendBuf # NULL => mpSendBuf.first \in Nat /\ mpSendBuf.last \in Nat
        /\ n = miNeedSendBytes + 1
    <2>1. writes \in Seq(Intervals) /\ wire \in Nat /\ n = miNeedSendBytes + 1
      BY <1>0 DEF TypeOK, n
    <2>2. \A i \in DOMAIN writes : writes[i] \in Intervals
      BY <2>1
    <2>3. mpSendBuf # NULL => mpSendBuf \in Intervals
      BY <1>0 DEF TypeOK
    <2> QED BY <2>1, <2>2, <2>3 DEF Intervals
  <1>7. ChunksSafe'
    <2>1. \A i \in DOMAIN writes : writes[i].last < mpSendBuf'.first
      BY <1>0, <1>2, <1>6 DEF CliInv, ChunksSafe
    <2>2. \A i \in DOMAIN writes : writes[i].last <= n
      BY <1>0, <1>6 DEF CliInv, ChunksSafe
    <2>3. wire <= n /\ wire < mpSendBuf'.first /\ mpSendBuf'.first <= n
      BY <1>0, <1>2, <1>6 DEF CliInv, ChunksSafe
    <2> QED BY <1>1, <1>2, <2>1, <2>2, <2>3 DEF CliInv, ChunksSafe
  <1>8. NoGap'
    BY <1>0, <1>1, <1>2, <1>6 DEF CliInv, NoGap
  <1>9. MapSafe'
    <2> SUFFICES ASSUME NEW r \in rejected
                 PROVE  r.first <= r.last /\ r.last <= n /\ r.last < mpSendBuf'.first
      BY <1>1, <1>2 DEF CliInv, MapSafe
    <2>1. r.first \in Nat /\ r.last \in Nat
      BY <1>0 DEF TypeOK, Intervals
    <2> QED BY <1>0, <1>2, <1>6, <2>1 DEF CliInv, MapSafe
  <1>10. NoStrandedData'
    <2>1. miTcpCliState = "estab" => pending'
      BY <1>1, Zenon
    <2> QED BY <1>1, <2>1 DEF NoStrandedData
  <1> QED BY <1>4, <1>5, <1>7, <1>8, <1>9, <1>10 DEF CliInv

\* A chunk handed to uv_write follows those it took before.
LEMMA DoSendSafe ==
    ASSUME CliInv, DoSend, lpc \in {"idle", "dosend"}, lpc' = "idle", pending' \in BOOLEAN,
           lpc = "dosend" => pending' = pending,
           UNCHANGED <<object, miNeedSendBytes, miTotalSendBytes, spc, tcp, async,
                       failed, wire, early>>
    PROVE  CliInv'
  <1>0. TypeOK /\ UNCHANGED <<miTcpCliState, mpTcpCli, role>>
    BY DEF CliInv, object
  <1>1. CASE /\ miTcpCliState = "estab" /\ mpSendBuf # NULL
             /\ mmapSend' = mmapSend \cup {mpSendBuf} /\ mpSendBuf' = NULL
             /\ \/ writes' = Append(writes, mpSendBuf) /\ UNCHANGED rejected
                \/ rejected' = rejected \cup {mpSendBuf} /\ UNCHANGED writes
    <2>1. PICK q \in Intervals : q = mpSendBuf
      BY <1>0, <1>1 DEF TypeOK
    <2>2. /\ q.first \in Nat /\ q.last \in Nat /\ q.first <= q.last /\ q.last = miNeedSendBytes
          /\ wire < q.first /\ \A i \in DOMAIN writes : writes[i].last < q.first
          /\ \A r \in rejected : r.last < q.first
      BY <1>1, <2>1 DEF CliInv, ChunksSafe, MapSafe, Intervals
    <2>3. /\ writes \in Seq(Intervals) /\ rejected \in SUBSET Intervals
          /\ mmapSend = Elements(writes) \cup rejected /\ rejected \cap Elements(writes) = {}
          /\ Ordered(writes)
      BY <1>0 DEF TypeOK, CliInv, MapSafe, ChunksSafe
    <2>4. q \notin rejected /\ q \notin Elements(writes)
      BY <2>2 DEF Elements
    <2>5. miTcpCliState' = "estab" /\ tcp' = "open" /\ tcp' # "closed" /\ lpc' # "gone" /\ mpSendBuf' = NULL
      BY <1>0, <1>1 DEF CliInv, ConnSafe
    <2>6. CASE writes' = Append(writes, q) /\ rejected' = rejected
      <3>1. /\ writes' \in Seq(Intervals)
            /\ DOMAIN writes' = 1..(Len(writes) + 1) /\ DOMAIN writes = 1..Len(writes)
            /\ Len(writes) \in Nat /\ writes'[Len(writes) + 1] = q
            /\ \A i \in 1..Len(writes) : writes'[i] = writes[i] /\ writes[i] \in Intervals
        BY <2>3, <2>6, AppendFacts
      <3>2. /\ EndOf(writes', wire) = q.last
            /\ Elements(writes') = Elements(writes) \cup {q}
            /\ \A i \in 1..Len(writes) : Before(writes', wire, i) = Before(writes, wire, i)
            /\ Before(writes', wire, Len(writes) + 1) = EndOf(writes, wire)
        BY <2>3, <2>6, EndOfAppend
      <3>3. \A i \in 1..(Len(writes) + 1) : i \in 1..Len(writes) \/ i = Len(writes) + 1
        BY <3>1
      <3>4. TypeOK'
        BY <1>0, <1>1, <2>1, <2>6, <3>1 DEF TypeOK
      <3>5. ChunksSafe'
        <4>1. Ordered(writes)'
          <5> SUFFICES ASSUME NEW i \in 1..(Len(writes) + 1), NEW j \in 1..(Len(writes) + 1), i < j
                       PROVE  writes'[i].last < writes'[j].first
            BY <3>1 DEF Ordered
          <5>1. i \in 1..Len(writes)
            BY <3>1
          <5>2. CASE j = Len(writes) + 1
            BY <2>2, <3>1, <5>1, <5>2
          <5>3. CASE j \in 1..Len(writes)
            BY <2>3, <3>1, <5>1, <5>3 DEF Ordered
          <5> QED BY <3>3, <5>2, <5>3
        <4>2. \A i \in DOMAIN writes' : /\ writes'[i].first <= writes'[i].last
                                        /\ wire < writes'[i].first
                                        /\ writes'[i].last <= miNeedSendBytes
          BY <2>2, <3>1, <3>3 DEF CliInv, ChunksSafe
        <4> QED BY <1>0, <2>5, <4>1, <4>2 DEF CliInv, ChunksSafe
      <3>6. NoGap'
        <4> SUFFICES ASSUME rejected = {}, ~failed
                     PROVE  /\ \A i \in DOMAIN writes' : writes'[i].first = Before(writes', wire, i) + 1
                            /\ EndOf(writes', wire) = miNeedSendBytes
          BY <2>5, <2>6 DEF NoGap
        <4>1. /\ \A i \in DOMAIN writes : writes[i].first = Before(writes, wire, i) + 1
              /\ q.first = EndOf(writes, wire) + 1
          BY <1>1, <2>1 DEF CliInv, NoGap
        <4> QED BY <2>2, <3>1, <3>2, <3>3, <4>1
      <3>7. MapSafe'
        BY <1>1, <2>1, <2>3, <2>4, <2>5, <2>6, <3>2 DEF CliInv, MapSafe
      <3>8. ConnSafe' /\ NoStrandedData'
        BY <1>0, <2>5 DEF CliInv, ConnSafe, NoStrandedData
      <3> QED BY <3>4, <3>5, <3>6, <3>7, <3>8 DEF CliInv
    <2>7. CASE rejected' = rejected \cup {q} /\ writes' = writes
      <3>1. TypeOK'
        BY <1>0, <1>1, <2>1, <2>7 DEF TypeOK
      <3>2. ChunksSafe'
        BY <1>0, <2>5, <2>7 DEF CliInv, ChunksSafe
      <3>3. NoGap'
        <4>1. rejected' # {}
          BY <2>7
        <4> QED BY <4>1 DEF NoGap
      <3>4. MapSafe'
        <4>1. \A r \in rejected' : r.first <= r.last /\ r.last <= miNeedSendBytes
          BY <2>2, <2>7 DEF CliInv, MapSafe
        <4> QED BY <1>1, <2>1, <2>3, <2>4, <2>5, <2>7, <4>1 DEF MapSafe
      <3>5. ConnSafe' /\ NoStrandedData'
        BY <1>0, <2>5 DEF CliInv, ConnSafe, NoStrandedData
      <3> QED BY <3>1, <3>2, <3>3, <3>4, <3>5 DEF CliInv
    <2> QED BY <1>1, <2>1, <2>6, <2>7
  <1>2. CASE /\ miTcpCliState # "estab" \/ mpSendBuf = NULL
             /\ UNCHANGED <<mmapSend, mpSendBuf, writes, rejected>>
    <2>1. TypeOK'
      BY <1>0, <1>2 DEF TypeOK
    <2>2. ChunksSafe' /\ MapSafe' /\ NoGap'
      BY <1>0, <1>2 DEF CliInv, ChunksSafe, MapSafe, NoGap
    <2>3. ConnSafe' /\ NoStrandedData'
      BY <1>0, <1>2 DEF CliInv, ConnSafe, NoStrandedData
    <2> QED BY <2>1, <2>2, <2>3 DEF CliInv
  <1> QED BY <1>1, <1>2 DEF DoSend

\* The write called back was the first; if it succeeded the wire has it.
LEMMA AfterSendSafe == ASSUME CliInv, SendOk \/ SendError \/ SendCanceled PROVE CliInv'
  <1>0. TypeOK
    BY DEF CliInv
  <1>1. PICK h \in Intervals : h = Head(writes)
    BY <1>0, TailFacts DEF SendOk, SendError, SendCanceled, AfterSend, TypeOK
  <1>2. /\ lpc = "idle" /\ writes # <<>> /\ writes' = Tail(writes)
        /\ mmapSend' = mmapSend \ {h}
        /\ miTotalSendBytes' = IF h \in mmapSend THEN miTotalSendBytes + Size(h) ELSE miTotalSendBytes
        /\ lpc' \in {"onsend", "onsenderr", "oncancel"}
        /\ UNCHANGED <<miTcpCliState, mpTcpCli, role, mpSendBuf, miNeedSendBytes, spc, async,
                       pending, rejected, early>>
    BY <1>1 DEF SendOk, SendError, SendCanceled, AfterSend, LoopIdle, object
  <1>2a. (wire' = h.last /\ failed' = failed) \/ (wire' = wire /\ failed' = TRUE)
    <2>1. CASE SendOk
      <3>1. wire' = h.last
        BY <1>1, <2>1 DEF SendOk
      <3>2. failed' = failed
        BY <2>1, Zenon DEF SendOk
      <3> QED BY <3>1, <3>2
    <2>2. CASE SendError
      <3>1. wire' = wire
        BY <2>2 DEF SendError
      <3>2. failed' = TRUE
        BY <2>2, Zenon DEF SendError
      <3> QED BY <3>1, <3>2, Zenon
    <2>3. CASE SendCanceled
      BY <2>3, Zenon DEF SendCanceled
    <2> QED BY <2>1, <2>2, <2>3
  <1>2b. tcp' = tcp \/ (tcp \in {"closing", "flushing"} /\ tcp' = "flushing")
    <2>1. CASE SendOk
      BY <2>1, Zenon DEF SendOk
    <2>2. CASE SendError
      BY <2>2, Zenon DEF SendError
    <2>3. CASE SendCanceled
      BY <2>3 DEF SendCanceled
    <2> QED BY <2>1, <2>2, <2>3
  <1>2c. wire' = h.last \/ (wire' = wire /\ failed')
    BY <1>2a, Zenon
  <1>2d. failed' \in BOOLEAN /\ (~failed' => ~failed)
    <2>1. failed \in BOOLEAN
      BY <1>0, Zenon DEF TypeOK
    <2> QED BY <2>1, <1>2a, Zenon
  <1>3. /\ writes \in Seq(Intervals) /\ Ordered(writes)
        /\ \A i \in DOMAIN writes : writes[i].first <= writes[i].last
    BY <1>0 DEF TypeOK, CliInv, ChunksSafe
  <1>4. /\ writes' \in Seq(Intervals) /\ Ordered(writes')
        /\ Elements(writes') = Elements(writes) \ {h} /\ h \in Elements(writes)
        /\ EndOf(writes', h.last) = EndOf(writes, h.last)
        /\ \A i \in DOMAIN writes' : /\ writes'[i] = writes[i + 1] /\ i + 1 \in DOMAIN writes
                                     /\ h.last < writes'[i].first
        /\ \A i \in DOMAIN writes' : Before(writes', h.last, i) = Before(writes, wire, i + 1)
    BY <1>1, <1>2, <1>3, TailFacts, TailChunks
  <1>5. EndOf(writes, h.last) = EndOf(writes, wire)
    BY <1>2 DEF EndOf
  <1>6. /\ h.first \in Nat /\ h.last \in Nat /\ h.last <= miNeedSendBytes /\ h.first <= h.last
        /\ mpSendBuf # NULL => h.last < mpSendBuf.first
    <2>1. PICK i \in DOMAIN writes : h = writes[i]
      BY <1>4 DEF Elements
    <2> QED BY <2>1 DEF CliInv, ChunksSafe, Intervals
  <1>7. TypeOK'
    <2>1. Size(h) \in Nat
      BY <1>6 DEF Size
    <2>2. miTotalSendBytes \in Nat /\ wire \in Nat
      BY <1>0 DEF TypeOK
    <2>3. miTotalSendBytes' \in Nat
      BY <1>2, <2>1, <2>2
    <2>4. wire' \in Nat
      BY <1>2c, <1>6, <2>2
    <2> QED BY <1>0, <1>2, <1>2b, <1>2d, <1>4, <2>3, <2>4 DEF TypeOK, Callbacks
  <1>8. ConnSafe'
    BY <1>0, <1>2, <1>2b DEF CliInv, ConnSafe
  <1>9. ChunksSafe'
    BY <1>2, <1>2c, <1>4, <1>6 DEF CliInv, ChunksSafe
  <1>10. NoGap'
    <2> SUFFICES ASSUME rejected = {}, ~failed, wire' = h.last
                 PROVE  /\ \A i \in DOMAIN writes' : writes'[i].first = Before(writes', h.last, i) + 1
                        /\ mpSendBuf # NULL => mpSendBuf.first = EndOf(writes', h.last) + 1
                        /\ mpSendBuf = NULL => EndOf(writes', h.last) = miNeedSendBytes
      BY <1>2, <1>2c, <1>2d DEF NoGap
    <2>1. /\ \A i \in DOMAIN writes : writes[i].first = Before(writes, wire, i) + 1
          /\ mpSendBuf # NULL => mpSendBuf.first = EndOf(writes, wire) + 1
          /\ mpSendBuf = NULL => EndOf(writes, wire) = miNeedSendBytes
      BY <1>2 DEF CliInv, NoGap
    <2> QED BY <1>4, <1>5, <2>1
  <1>11. MapSafe'
    BY <1>2, <1>4 DEF CliInv, MapSafe
  <1>12. NoStrandedData'
    BY <1>2 DEF CliInv, NoStrandedData
  <1> QED BY <1>7, <1>8, <1>9, <1>10, <1>11, <1>12 DEF CliInv

LEMMA DestroySafe == ASSUME CliInv, Destroy PROVE CliInv'
  <1>0. /\ TypeOK /\ mpSendBuf' = NULL /\ mmapSend' = {} /\ lpc' = "gone" /\ tcp = "closed"
        /\ \A t \in Threads : spc[t] = "idle"
        /\ UNCHANGED <<object, miNeedSendBytes, miTotalSendBytes, spc, libuv, history>>
    BY DEF CliInv, Destroy
  <1> USE DEF object, libuv, history
  <1>1. TypeOK'
    BY <1>0 DEF TypeOK
  <1>2. ConnSafe' /\ NoStrandedData'
    BY <1>0 DEF CliInv, ConnSafe, NoStrandedData
  <1>3. ChunksSafe' /\ MapSafe'
    BY <1>0 DEF CliInv, ChunksSafe, MapSafe
  <1>4. NoGap'
    BY <1>0 DEF CliInv, NoGap
  <1> QED BY <1>1, <1>2, <1>3, <1>4 DEF CliInv

-----------------------------------------------------------------------------
(* The others leave the chunks alone. *)

LEMMA ChunksFrame ==
    ASSUME CliInv, UNCHANGED <<buffers, writes, history>>, lpc' # "gone" => lpc # "gone",
           miTcpCliState' = "none" => miTcpCliState = "none"
    PROVE  ChunksSafe' /\ NoGap' /\ MapSafe'
  BY DEF CliInv, ChunksSafe, NoGap, MapSafe, buffers, history

LEMMA OtherSafe ==
    ASSUME CliInv,
           \/ \E t \in Threads : SendCheck(t)
           \/ Connect \/ ConnectTooSoon \/ SetTcpCli \/ AfterAccept \/ DoConnOk
           \/ DoConnError \/ ConnDone
           \/ ConnErrorDone \/ SendOkDone \/ SendErrorDone \/ SendCanceledDone
           \/ RecvData \/ RecvDone \/ RecvError \/ Close \/ TcpClosed \/ CloseCb \/ AsyncClosed
           \/ UNCHANGED vars
    PROVE  CliInv'
  <1>0. TypeOK
    BY DEF CliInv
  <1> USE DEF object, buffers, libuv, history
  <1>1. CASE \E t \in Threads : SendCheck(t)
    <2> USE DEF SendCheck
    <2>1. TypeOK'
      BY <1>0, <1>1 DEF TypeOK
    <2>2. ConnSafe' /\ NoStrandedData'
      BY <1>0, <1>1 DEF CliInv, ConnSafe, NoStrandedData
    <2> QED BY <1>1, <2>1, <2>2, ChunksFrame DEF CliInv
  <1>2. CASE Connect \/ ConnectTooSoon \/ SetTcpCli
    <2> USE DEF Connect, ConnectTooSoon, SetTcpCli, LoopIdle
    <2>1. TypeOK'
      BY <1>0, <1>2, ZenonT(40) DEF TypeOK, Callbacks
    <2>2. ConnSafe'
      BY <1>0, <1>2 DEF CliInv, ConnSafe
    <2>3. NoStrandedData'
      BY <1>0, <1>2 DEF CliInv, ConnSafe, NoStrandedData
    <2> QED BY <1>2, <2>1, <2>2, <2>3, ChunksFrame DEF CliInv
  <1>3. CASE AfterAccept \/ DoConnOk
    <2> USE DEF AfterAccept, DoConnOk, AfterConn, LoopIdle
    <2>1. TypeOK'
      BY <1>0, <1>3 DEF TypeOK, Callbacks
    <2>2. ConnSafe'
      BY <1>0, <1>3 DEF CliInv, ConnSafe
    <2>3. NoStrandedData'
      <3>1. miTcpCliState = "none" /\ (lpc = "set" => role' = "accept") /\ (lpc # "set" => role' = "connect")
        BY <1>3 DEF CliInv, ConnSafe
      <3>2. mpSendBuf' # NULL => mpSendBuf'.last <= early'
        <4>1. mpSendBuf # NULL => mpSendBuf.last = miNeedSendBytes /\ early = miNeedSendBytes
                                  /\ miNeedSendBytes \in Nat
          BY <1>0, <3>1 DEF CliInv, ChunksSafe, TypeOK
        <4> QED BY <1>3, <4>1
      <3> QED BY <1>3, <3>1, <3>2 DEF NoStrandedData
    <2> QED BY <1>3, <2>1, <2>2, <2>3, ChunksFrame DEF CliInv
  <1>4. CASE DoConnError \/ ConnDone \/ ConnErrorDone \/ SendOkDone \/ SendCanceledDone
             \/ RecvData \/ RecvDone \/ TcpClosed \/ CloseCb \/ AsyncClosed \/ UNCHANGED vars
    <2> USE DEF DoConnError, ConnDone, ConnErrorDone, SendOkDone, SendCanceledDone,
                RecvData, RecvDone, TcpClosed, CloseCb, AsyncClosed, vars, LoopIdle, Reading
    <2>1. TypeOK'
      BY <1>0, <1>4 DEF TypeOK, Callbacks
    <2>2. ConnSafe'
      BY <1>0, <1>4 DEF CliInv, ConnSafe
    <2>3. NoStrandedData'
      BY <1>0, <1>4 DEF CliInv, ConnSafe, NoStrandedData
    <2> QED BY <1>4, <2>1, <2>2, <2>3, ChunksFrame DEF CliInv
  <1>5. CASE SendErrorDone \/ RecvError \/ Close
    <2> USE DEF SendErrorDone, RecvError, Close, CloseEffect, LoopIdle, Reading, Callbacks
    <2>1. TypeOK'
      BY <1>0, <1>5 DEF TypeOK
    <2>2. ConnSafe'
      BY <1>0, <1>5 DEF CliInv, ConnSafe
    <2>3. NoStrandedData'
      BY <1>0, <1>5 DEF CliInv, NoStrandedData
    <2> QED BY <1>5, <2>1, <2>2, <2>3, ChunksFrame DEF CliInv
  <1> QED BY <1>1, <1>2, <1>3, <1>4, <1>5

LEMMA NextSafe == ASSUME CliInv, [Next]_vars PROVE CliInv'
  <1>1. CASE LoopDoSend
    <2>1. pending' \in BOOLEAN /\ pending' = pending
      BY <1>1 DEF LoopDoSend, CliInv, TypeOK
    <2> QED BY <1>1, <2>1, DoSendSafe DEF LoopDoSend
  <1>2. CASE NotifySend
    BY <1>2, DoSendSafe DEF NotifySend, LoopIdle
  <1> QED BY <1>1, <1>2, SendAppendSafe, AfterSendSafe, DestroySafe, OtherSafe
          DEF Next, Handler, ConnEnds

\* Every step of the pipe's client is one of UvTcpCli.
LEMMA CliIsNext == [CliNext]_clivars => [Next]_vars
  BY DEF CliNext, clivars, PipeNext, PipeConnect, PipeAccept, PipeDoConn, PipeSend, PipeDoSend,
         PipeAfterSend, PipeDoRecv, PipeClose, PipeCloseCb, PipeCleanSendQueue, Next, Handler

\* The invariant of the TCP and pipe clients, at every step of the sending
\* threads and of the loop.
THEOREM CliInvCorrect == CliSpec => []CliInv
  <1>1. CliInit => CliInv
    BY InitSafe DEF CliInit
  <1>2. CliInv /\ [CliNext]_clivars => CliInv'
    BY NextSafe, CliIsNext
  <1> QED BY <1>1, <1>2, PTL DEF CliSpec

-----------------------------------------------------------------------------
(* What the invariant gives. *)

\* A chunk begins behind what is before it in its sequence.
LEMMA OrderedBefore ==
    ASSUME NEW s \in Seq(Intervals), NEW w \in Nat, Ordered(s),
           \A i \in DOMAIN s : w < s[i].first,
           NEW i \in DOMAIN s
    PROVE  Before(s, w, i) < s[i].first
  <1>1. CASE i = 1
    BY <1>1 DEF Before
  <1>2. CASE i # 1
    <2>1. i \in 1..Len(s) /\ Len(s) \in Nat /\ DOMAIN s = 1..Len(s)
      OBVIOUS
    <2>2. i - 1 \in DOMAIN s /\ i - 1 < i
      BY <1>2, <2>1
    <2> QED BY <1>2, <2>2 DEF Before, Ordered
  <1> QED BY <1>1, <1>2

LEMMA StreamOrdered == CliInv => WireInOrder
  <1> SUFFICES ASSUME CliInv PROVE WireInOrder
    OBVIOUS
  <1>1. /\ TypeOK /\ writes \in Seq(Intervals) /\ wire \in Nat /\ Ordered(writes)
        /\ \A i \in DOMAIN writes : writes[i].first <= writes[i].last /\ wire < writes[i].first
    BY DEF CliInv, TypeOK, ChunksSafe
  <1>2. \A i \in DOMAIN writes : Before(writes, wire, i) < writes[i].first
    BY <1>1, OrderedBefore
  <1>3. CASE mpSendBuf = NULL
    <2>1. Stream = writes /\ \A i : EndBefore(i) = Before(writes, wire, i)
      BY <1>3 DEF Stream, EndBefore, Before
    <2> QED BY <1>1, <1>2, <2>1 DEF WireInOrder, CliInv, NoGap
  <1>4. CASE mpSendBuf # NULL
    <2>1. PICK q \in Intervals : q = mpSendBuf
      BY <1>1, <1>4 DEF TypeOK
    <2>2. Stream = Append(writes, q) /\ \A i : EndBefore(i) = Before(Append(writes, q), wire, i)
      BY <1>4, <2>1 DEF Stream, EndBefore, Before
    <2>3. /\ Append(writes, q) \in Seq(Intervals) /\ Len(writes) \in Nat
          /\ DOMAIN Append(writes, q) = 1..(Len(writes) + 1) /\ DOMAIN writes = 1..Len(writes)
          /\ Append(writes, q)[Len(writes) + 1] = q
          /\ \A i \in 1..Len(writes) : Append(writes, q)[i] = writes[i]
      BY <1>1, AppendFacts
    <2>4. /\ \A i \in 1..Len(writes) : Before(Append(writes, q), wire, i) = Before(writes, wire, i)
          /\ Before(Append(writes, q), wire, Len(writes) + 1) = EndOf(writes, wire)
      BY <1>1, EndOfAppend
    <2>5. /\ q.first <= q.last /\ wire < q.first
          /\ \A i \in DOMAIN writes : writes[i].last < q.first
          /\ rejected = {} /\ ~failed => q.first = EndOf(writes, wire) + 1
      BY <1>4, <2>1 DEF CliInv, ChunksSafe, NoGap
    <2>6. EndOf(writes, wire) < q.first
      <3>1. CASE writes = <<>>
        BY <2>5, <3>1 DEF EndOf
      <3>2. CASE writes # <<>>
        <4>1. Len(writes) \in DOMAIN writes
          BY <1>1, <3>2, TailFacts
        <4> QED BY <2>5, <3>2, <4>1 DEF EndOf
      <3> QED BY <3>1, <3>2
    <2>7. \A i \in 1..(Len(writes) + 1) : i \in 1..Len(writes) \/ i = Len(writes) + 1
      BY <2>3
    <2>8. ASSUME NEW i \in DOMAIN Stream
          PROVE  /\ EndBefore(i) < Stream[i].first /\ Stream[i].first <= Stream[i].last
                 /\ rejected = {} /\ ~failed => Stream[i].first = EndBefore(i) + 1
      <3>1. CASE i \in 1..Len(writes)
        <4>1. Stream[i] = writes[i] /\ EndBefore(i) = Before(writes, wire, i)
          BY <2>2, <2>3, <2>4, <3>1
        <4> QED BY <1>1, <1>2, <2>3, <3>1, <4>1 DEF CliInv, NoGap
      <3>2. CASE i = Len(writes) + 1
        <4>1. Stream[i] = q /\ EndBefore(i) = EndOf(writes, wire)
          BY <2>2, <2>3, <2>4, <3>2
        <4> QED BY <2>5, <2>6, <4>1
      <3> QED BY <2>2, <2>3, <2>7, <3>1, <3>2
    <2> QED BY <1>1, <2>8 DEF WireInOrder
  <1> QED BY <1>3, <1>4

\* Every chunk is sent once, in the order Send took the bytes, and nothing
\* between two chunks is left out unless a write failed or was refused
\* (UvTcpCli.cpp:168-211), whatever the threads do and however much they send.
THEOREM WireInOrderCorrect == CliSpec => []WireInOrder
  BY CliInvCorrect, StreamOrdered, PTL

\* Data of an established connection has a DoSend to come, except what an
\* accepted connection had buffered before (UvTcpCli.cpp:58-64).
THEOREM NoStrandedDataCorrect == CliSpec => []NoStrandedData
  <1>1. CliInv => NoStrandedData
    BY DEF CliInv
  <1> QED BY <1>1, CliInvCorrect, PTL

\* A closed handle leaves no request in the map but those uv_write refused
\* (UvTcpCli.cpp:128-139,187).
THEOREM RequestsFreedCorrect == CliSpec => []RequestsFreed
  <1>1. CliInv => RequestsFreed
    <2>1. writes = <<>> => Elements(writes) = {}
      BY DEF Elements
    <2> QED BY <2>1 DEF CliInv, ConnSafe, MapSafe, RequestsFreed
  <1> QED BY <1>1, CliInvCorrect, PTL

-----------------------------------------------------------------------------
(* The bytes counted. *)

\* The map is finite, so that its bytes have a sum.
BytesInv == IsFiniteSet(mmapSend) /\ BytesAccounted

LEMMA SizeInt == ASSUME NEW r \in Intervals PROVE Size(r) \in Int
  <1>1. r # NULL /\ r.first \in Nat /\ r.last \in Nat
    BY NullAssumption DEF Intervals
  <1> QED BY <1>1 DEF Size

LEMMA BytesEmpty == Bytes({}) = 0
  BY SumEmpty DEF Bytes

\* One more request, of the bytes that were buffered.
LEMMA BytesAdd ==
    ASSUME NEW S \in SUBSET Intervals, IsFiniteSet(S), NEW e \in Intervals, e \notin S
    PROVE  /\ IsFiniteSet(S \cup {e})
           /\ Bytes(S) \in Int /\ Bytes(S \cup {e}) = Bytes(S) + Size(e)
  <1> DEFINE T == S \cup {e}
             f == [r \in S |-> Size(r)]
             g == [r \in T |-> Size(r)]
  <1>1. IsFiniteSet(T)
    BY FS_AddElement
  <1>2. \A r \in T : g[r] \in Int
    BY SizeInt
  <1>3. SumFunctionOnSet(f, S) = SumFunctionOnSet(g, S)
    <2>1. \A r \in S : f[r] = g[r]
      OBVIOUS
    <2> HIDE DEF f, g
    <2> QED BY <2>1, SumSame
  <1>4. e \in T \ S /\ S \in SUBSET T /\ g[e] = Size(e)
    OBVIOUS
  <1> HIDE DEF f, g, T
  <1>5. /\ SumFunctionOnSet(g, S) \in Int
        /\ SumFunctionOnSet(g, S \cup {e}) = SumFunctionOnSet(g, S) + g[e]
    BY <1>1, <1>2, <1>4, SumAdd
  <1> QED BY <1>1, <1>3, <1>4, <1>5 DEF Bytes, f, g, T

LEMMA BytesInt ==
    ASSUME NEW S \in SUBSET Intervals, IsFiniteSet(S)
    PROVE  Bytes(S) \in Int
  <1> DEFINE f == [r \in S |-> Size(r)]
  <1>1. \A r \in S : f[r] \in Int
    BY SizeInt
  <1> HIDE DEF f
  <1>2. \A T \in SUBSET S : SumFunctionOnSet(f, T) \in Int
    BY <1>1, SumAdd
  <1> QED BY <1>2 DEF Bytes, f

\* One request less.
LEMMA BytesRemove ==
    ASSUME NEW S \in SUBSET Intervals, IsFiniteSet(S), NEW e \in S
    PROVE  /\ IsFiniteSet(S \ {e})
           /\ Bytes(S) \in Int /\ Bytes(S \ {e}) = Bytes(S) - Size(e) /\ Size(e) \in Int
  <1>1. IsFiniteSet(S \ {e}) /\ (S \ {e}) \in SUBSET Intervals /\ e \in Intervals
        /\ e \notin S \ {e} /\ (S \ {e}) \cup {e} = S
    BY FS_RemoveElement
  <1>2. /\ Bytes(S \ {e}) \in Int
        /\ Bytes((S \ {e}) \cup {e}) = Bytes(S \ {e}) + Size(e)
    BY <1>1, BytesAdd
  <1>3. Bytes(S) = Bytes(S \ {e}) + Size(e)
    BY <1>1, <1>2
  <1> QED BY <1>1, <1>2, <1>3, SizeInt

LEMMA BytesInit == Init => BytesInv
  <1> SUFFICES ASSUME Init PROVE BytesInv
    OBVIOUS
  <1>1. mmapSend = {} /\ mpSendBuf = NULL /\ miNeedSendBytes = 0 /\ miTotalSendBytes = 0
    BY DEF Init
  <1>2. IsFiniteSet(mmapSend)
    BY <1>1, FS_EmptySet
  <1>3. Bytes(mmapSend) = 0
    BY <1>1, BytesEmpty
  <1> QED BY <1>1, <1>2, <1>3 DEF BytesInv, BytesAccounted, Size

LEMMA BytesFrame ==
    ASSUME BytesInv, lpc # "gone",
           UNCHANGED <<mmapSend, mpSendBuf, miNeedSendBytes, miTotalSendBytes>>
    PROVE  BytesInv'
  <1>1. Bytes(mmapSend)' = Bytes(mmapSend)
    BY DEF Bytes
  <1> QED BY <1>1 DEF BytesInv, BytesAccounted

\* A byte is accepted and buffered.
LEMMA SendAppendBytes ==
    ASSUME CliInv, BytesInv, NEW t \in Threads, SendAppend(t)
    PROVE  BytesInv'
  <1>1. lpc # "gone" /\ lpc' = lpc /\ mmapSend' = mmapSend
        /\ miTotalSendBytes' = miTotalSendBytes
        /\ miNeedSendBytes' = miNeedSendBytes + 1
        /\ mpSendBuf' = Appended(mpSendBuf, miNeedSendBytes + 1)
    BY DEF SendAppend, CliInv, ConnSafe
  <1>2. miNeedSendBytes \in Nat
    BY DEF CliInv, TypeOK
  <1>3. Size(mpSendBuf') = Size(mpSendBuf) + 1 /\ Size(mpSendBuf) \in Int
    <2>1. CASE mpSendBuf = NULL
      <3> DEFINE b == [first |-> miNeedSendBytes + 1, last |-> miNeedSendBytes + 1]
      <3>1. mpSendBuf' = b
        BY <1>1, <2>1 DEF Appended
      <3>2. b \in Intervals /\ b # NULL
        BY <1>2, NullAssumption DEF Intervals
      <3>3. b.last - b.first + 1 = 1
        BY <1>2
      <3> HIDE DEF b
      <3> QED BY <2>1, <3>1, <3>2, <3>3 DEF Size
    <2>2. CASE mpSendBuf # NULL
      <3>1. PICK q \in Intervals : q = mpSendBuf
        BY <2>2 DEF CliInv, TypeOK
      <3>2. q.first \in Nat /\ q.last = miNeedSendBytes
        BY <2>2, <3>1 DEF CliInv, ChunksSafe, Intervals
      <3> DEFINE b == [q EXCEPT !.last = miNeedSendBytes + 1]
      <3>3. mpSendBuf' = b
        BY <1>1, <2>2, <3>1 DEF Appended
      <3>4. b \in Intervals /\ b.first = q.first /\ b.last = miNeedSendBytes + 1
        BY <1>2 DEF Intervals
      <3>5. b # NULL
        BY <3>4, NullAssumption DEF Intervals
      <3> HIDE DEF b
      <3> QED BY <1>2, <2>2, <3>1, <3>2, <3>3, <3>4, <3>5 DEF Size
    <2> QED BY <2>1, <2>2
  <1>4. Bytes(mmapSend)' = Bytes(mmapSend)
    BY <1>1 DEF Bytes
  <1>5. IsFiniteSet(mmapSend) /\ Bytes(mmapSend) \in Int /\ miTotalSendBytes \in Nat
    <2>1. IsFiniteSet(mmapSend) /\ mmapSend \in SUBSET Intervals /\ miTotalSendBytes \in Nat
      BY DEF BytesInv, CliInv, TypeOK
    <2> QED BY <2>1, BytesInt
  <1>6. Size(mpSendBuf)' = Size(mpSendBuf')
    BY DEF Size
  <1> QED BY <1>1, <1>2, <1>3, <1>4, <1>5, <1>6 DEF BytesInv, BytesAccounted

\* What was buffered becomes a request, which the map had not.
LEMMA DoSendBytes ==
    ASSUME CliInv, BytesInv, DoSend, lpc # "gone",
           UNCHANGED <<miNeedSendBytes, miTotalSendBytes>>
    PROVE  BytesInv'
  <1>1. CASE miTcpCliState = "estab" /\ mpSendBuf # NULL
    <2>1. PICK q \in Intervals : q = mpSendBuf
      BY <1>1 DEF CliInv, TypeOK
    <2>2. mmapSend' = mmapSend \cup {q} /\ mpSendBuf' = NULL
      BY <1>1, <2>1 DEF DoSend
    <2>3. q \notin mmapSend
      <3>1. /\ q.first \in Nat /\ q.last \in Nat /\ q.first <= q.last
            /\ \A i \in DOMAIN writes : writes[i].last < q.first
            /\ \A r \in rejected : r.last < q.first
        BY <1>1, <2>1 DEF CliInv, ChunksSafe, MapSafe, Intervals
      <3>2. q \notin rejected /\ q \notin Elements(writes)
        BY <3>1 DEF Elements
      <3> QED BY <3>2 DEF CliInv, MapSafe
    <2>4. mmapSend \in SUBSET Intervals /\ IsFiniteSet(mmapSend)
      BY DEF CliInv, TypeOK, BytesInv
    <2>5. /\ IsFiniteSet(mmapSend \cup {q})
          /\ Bytes(mmapSend) \in Int
          /\ Bytes(mmapSend \cup {q}) = Bytes(mmapSend) + Size(q)
      BY <2>3, <2>4, BytesAdd
    <2>6. Bytes(mmapSend)' = Bytes(mmapSend \cup {q})
      BY <2>2 DEF Bytes
    <2>7. Size(mpSendBuf)' = 0
      BY <2>2 DEF Size
    <2>8. miNeedSendBytes \in Nat /\ miTotalSendBytes \in Nat /\ Size(q) \in Int
      BY SizeInt DEF CliInv, TypeOK
    <2> QED BY <2>1, <2>2, <2>5, <2>6, <2>7, <2>8 DEF BytesInv, BytesAccounted
  <1>2. CASE ~(miTcpCliState = "estab" /\ mpSendBuf # NULL)
    <2>1. UNCHANGED <<mmapSend, mpSendBuf>>
      BY <1>2 DEF DoSend
    <2> QED BY <2>1, BytesFrame
  <1> QED BY <1>1, <1>2

\* The first request is called back: its bytes are counted as sent.
LEMMA AfterSendBytes ==
    ASSUME CliInv, BytesInv, SendOk \/ SendError \/ SendCanceled
    PROVE  BytesInv'
  <1>1. PICK h \in Intervals : h = Head(writes)
    BY TailFacts DEF SendOk, SendError, SendCanceled, AfterSend, CliInv, TypeOK
  <1>2. /\ lpc = "idle" /\ writes # <<>> /\ mmapSend' = mmapSend \ {h}
        /\ miTotalSendBytes' = IF h \in mmapSend THEN miTotalSendBytes + Size(h) ELSE miTotalSendBytes
        /\ UNCHANGED <<mpSendBuf, miNeedSendBytes>>
    BY <1>1 DEF SendOk, SendError, SendCanceled, AfterSend, LoopIdle
  <1>3. h \in mmapSend
    <2>1. writes \in Seq(Intervals) /\ mmapSend = Elements(writes) \cup rejected
      BY <1>2 DEF CliInv, TypeOK, MapSafe
    <2>2. h = writes[1] /\ 1 \in DOMAIN writes
      BY <1>1, <1>2, <2>1, TailFacts
    <2> QED BY <2>1, <2>2 DEF Elements
  <1>4. mmapSend \in SUBSET Intervals /\ IsFiniteSet(mmapSend)
    BY DEF CliInv, TypeOK, BytesInv
  <1>5. /\ IsFiniteSet(mmapSend \ {h})
        /\ Bytes(mmapSend) \in Int /\ Bytes(mmapSend \ {h}) = Bytes(mmapSend) - Size(h)
        /\ Size(h) \in Int
    BY <1>3, <1>4, BytesRemove
  <1>6. Bytes(mmapSend)' = Bytes(mmapSend \ {h})
    BY <1>2 DEF Bytes
  <1>7. Size(mpSendBuf)' = Size(mpSendBuf) /\ Size(mpSendBuf) \in Int
    BY <1>2, SizeInt DEF CliInv, TypeOK, Size
  <1>8. miNeedSendBytes \in Nat /\ miTotalSendBytes \in Nat
    BY DEF CliInv, TypeOK
  <1> QED BY <1>2, <1>3, <1>5, <1>6, <1>7, <1>8 DEF BytesInv, BytesAccounted

LEMMA BytesStep == ASSUME CliInv, BytesInv, [Next]_vars PROVE BytesInv'
  <1> USE DEF object, buffers, libuv, history
  <1>1. CASE UNCHANGED vars
    <2>1. Bytes(mmapSend)' = Bytes(mmapSend)
      BY <1>1 DEF vars, Bytes
    <2> QED BY <1>1, <2>1 DEF vars, BytesInv, BytesAccounted
  <1>2. ASSUME NEW t \in Threads, SendCheck(t) PROVE BytesInv'
    BY <1>2, BytesFrame DEF SendCheck
  <1>3. CASE LoopDoSend \/ NotifySend
    BY <1>3, DoSendBytes DEF LoopDoSend, NotifySend, LoopIdle
  <1>4. CASE Connect \/ ConnectTooSoon \/ SetTcpCli \/ AfterAccept \/ ConnEnds
    BY <1>4, BytesFrame DEF Connect, ConnectTooSoon, SetTcpCli, AfterAccept, AfterConn, ConnEnds,
                            DoConnOk, DoConnError, LoopIdle
  <1>5. CASE ConnDone \/ ConnErrorDone \/ SendOkDone \/ SendErrorDone \/ SendCanceledDone
    BY <1>5, BytesFrame DEF ConnDone, ConnErrorDone, SendOkDone, SendErrorDone, SendCanceledDone
  <1>6. CASE RecvData \/ RecvDone \/ RecvError \/ Close
    BY <1>6, BytesFrame DEF RecvData, RecvDone, RecvError, Close, Reading, LoopIdle, Callbacks
  <1>7. CASE TcpClosed \/ CloseCb \/ AsyncClosed
    BY <1>7, BytesFrame DEF TcpClosed, CloseCb, AsyncClosed, LoopIdle
  <1>8. CASE Destroy
    <2>1. lpc' = "gone" /\ mmapSend' = {}
      BY <1>8 DEF Destroy
    <2> QED BY <2>1, FS_EmptySet DEF BytesInv, BytesAccounted
  <1> QED BY <1>1, <1>2, <1>3, <1>4, <1>5, <1>6, <1>7, <1>8, SendAppendBytes, AfterSendBytes
          DEF Next, Handler

\* No byte is counted twice or lost, whichever threads count, while the
\* connection lives, and no request is left over when it has ended, for any
\* number of threads and bytes (UvTcpCli.cpp:128-139,187,204).
THEOREM WritesAccountedCorrect == CliSpec => []WritesAccounted
  <1>1. CliInit => BytesInv
    BY BytesInit DEF CliInit
  <1>2. CliInv /\ BytesInv /\ [CliNext]_clivars => BytesInv'
    BY BytesStep, CliIsNext
  <1>3. BytesInv /\ RequestsFreed => WritesAccounted
    BY DEF BytesInv, WritesAccounted
  <1> QED BY <1>1, <1>2, <1>3, CliInvCorrect, RequestsFreedCorrect, PTL DEF CliSpec

-----------------------------------------------------------------------------
(* The triggers. *)

LEMMA StepTriggers ==
    ASSUME CliInv, [Next]_vars
    PROVE  /\ ~pending /\ pending' => async = "active"
           /\ Len(writes') > Len(writes) => tcp = "open" /\ async = "active"
  <1>0. writes \in Seq(Intervals) /\ Len(writes) \in Nat /\ ~(Len(writes) > Len(writes))
    BY DEF CliInv, TypeOK
  <1>1. ASSUME NEW t \in Threads, SendAppend(t)
        PROVE  /\ ~pending /\ pending' => async = "active"
               /\ writes' = writes
    <2>1. ~pending /\ pending' => miTcpCliState = "estab"
      BY <1>1, Zenon DEF SendAppend
    <2>2. writes' = writes
      BY <1>1 DEF SendAppend
    <2> QED BY <2>1, <2>2 DEF CliInv, ConnSafe
  <1>2. CASE LoopDoSend \/ NotifySend
    <2>1. ~pending /\ pending' => FALSE
      BY <1>2, Zenon DEF LoopDoSend, NotifySend
    <2>2. writes' = writes \/ miTcpCliState = "estab"
      BY <1>2 DEF LoopDoSend, NotifySend, DoSend
    <2> QED BY <1>0, <2>1, <2>2 DEF CliInv, ConnSafe
  <1>3. CASE SendOk \/ SendError \/ SendCanceled
    <2>1. pending' = pending
      BY <1>3, Zenon DEF SendOk, SendError, SendCanceled, AfterSend
    <2>2. writes # <<>> /\ writes' = Tail(writes)
      BY <1>3 DEF SendOk, SendError, SendCanceled, AfterSend
    <2>3. ~(Len(writes') > Len(writes))
      BY <1>0, <2>2, TailFacts
    <2> QED BY <2>1, <2>3
  <1>4. CASE \/ \E t \in Threads : SendCheck(t)
             \/ Connect \/ ConnectTooSoon \/ SetTcpCli \/ DoConnError \/ ConnDone \/ ConnErrorDone
             \/ SendOkDone \/ SendErrorDone \/ SendCanceledDone \/ Destroy
             \/ RecvData \/ RecvDone \/ RecvError \/ Close \/ TcpClosed \/ CloseCb
             \/ AsyncClosed \/ UNCHANGED vars
    <2> USE DEF SendCheck, Connect, ConnectTooSoon, SetTcpCli, DoConnError, ConnDone,
                ConnErrorDone,
                SendOkDone, SendErrorDone, SendCanceledDone, Destroy, RecvData, RecvDone,
                RecvError, Close, TcpClosed, CloseCb, AsyncClosed, vars, libuv
    <2>1. pending' = pending
      BY <1>4, Zenon
    <2>2. writes' = writes
      BY <1>4, Zenon
    <2> QED BY <1>0, <2>1, <2>2
  <1>5. CASE AfterAccept \/ DoConnOk
    <2>1. pending' = FALSE
      BY <1>5, Zenon DEF AfterAccept, DoConnOk, AfterConn
    <2>2. writes' = writes
      BY <1>5 DEF AfterAccept, DoConnOk, AfterConn
    <2> QED BY <1>0, <2>1, <2>2
  <1> QED BY <1>0, <1>1, <1>2, <1>3, <1>4, <1>5 DEF Next, Handler, ConnEnds

\* The handle is triggered, and a request handed to libuv, only while the
\* connection is established and its handles are open
\* (UvTcpCli.cpp:69-73,170,206).
THEOREM TriggerCorrect == CliSpec => TriggerOnlyAlive
  <1> DEFINE Step == /\ ~pending /\ pending' => async = "active"
                     /\ Len(writes') > Len(writes) => tcp = "open" /\ async = "active"
  <1>1. CliInv /\ [CliNext]_clivars => [Step]_vars
    BY StepTriggers, CliIsNext
  <1> HIDE DEF Step
  <1>2. CliSpec => [][Step]_vars
    BY <1>1, CliInvCorrect, PTL DEF CliSpec
  <1> QED BY <1>2 DEF TriggerOnlyAlive, Step
=============================================================================
