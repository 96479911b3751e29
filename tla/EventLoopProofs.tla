-------------------------- MODULE EventLoopProofs --------------------------
(***************************************************************************)
(* Proofs about a sub loop and its connections: nothing is written to a    *)
(* connection that has been removed, no byte of a client is lost, repeated *)
(* or reordered on its way to the handlers, what is handed on as a request *)
(* is one, and the loop implements the stream of requests.                 *)
(***************************************************************************)
EXTENDS EventLoop, SequenceLemmas

Byte == 1..MaxRequests * RequestLength

\* The m bytes that follow the first d.
After(d, m) == [j \in 1..m |-> d + j]

\* Where a client's r-th request ends, and its bytes.
Ends(r) == r * RequestLength
Request(r) == After(Ends(r - 1), RequestLength)

\* What has been handed on are whole requests, the first ones, and what is
\* left to be received begins with the next.
RequestsWhole ==
  \A c \in Clients :
    LET done == Ends(Len(handled[c])) IN
    /\ \A i \in 1..Len(handled[c]) : handled[c][i] = Request(i)
    /\ done <= sent[c]
    /\ recvBuffer[c] \o inbox[c] = After(done, sent[c] - done)

\* A connection has one timer on the loop at most.
TimersOnce == \A i, j \in DOMAIN playing : playing[i] = playing[j] => i = j

\* A client that has not connected is unknown to the loop.
StrangersUnknown ==
  \A c \in Clients : peer[c] = "away" => c \notin conns \cup pendings /\ rtcp[c] = "none"

\* What has been handed over is not in the loop yet.
HandedOverOnce == pendings \cap conns = {}

\* An RTCP socket in the batch has a datagram, or its connection is gone.
UdpEventsWait ==
  \A c \in Clients : <<"udp", c>> \in batch =>
    IF rtcp[c] = "none" THEN c \notin conns \cup pendings /\ peer[c] # "away"
    ELSE datagrams[c] > 0

LoopInv ==
  /\ TypeOK
  /\ TimersOnce
  /\ NothingWrittenAfterClose
  /\ StrangersUnknown
  /\ HandedOverOnce
  /\ UdpEventsWait
StreamInv == BytesInOrder /\ RequestsWhole
IInv == LoopInv /\ StreamInv

-----------------------------------------------------------------------------
(***************************************************************************)
(* The receive buffer (module TcpConnection).                              *)
(***************************************************************************)
LEMMA Lengths == /\ RequestLength \in Nat \ {0} /\ RecvSize \in Nat \ {0} /\ SendSpace \in Nat \ {0}
                 /\ MaxRequests \in Nat /\ MaxDatagrams \in Nat
                 /\ MaxRequests * RequestLength \in Nat
<1>1. RequestLength \in Nat /\ MaxRequests \in Nat
  BY TcpConnectionAssumption, EventLoopAssumption
<1>2. MaxRequests * RequestLength \in Nat
  BY ONLY <1>1
<1> QED  BY <1>2, TcpConnectionAssumption, EventLoopAssumption

\* What one recv takes and what it leaves.
LEMMA RecvSplits ==
  ASSUME NEW S, NEW in \in Seq(S)
  PROVE  Taken(in) \in Seq(S) /\ Left(in) \in Seq(S) /\ Taken(in) \o Left(in) = in
<1> USE Lengths
<1>1. \A i \in 1..Len(in) : in[i] \in S
  BY ElementOfSeq
<1>2. CASE Len(in) < RecvSize
  <2>1. Taken(in) = in
    BY <1>2, SubSeqFull DEF Taken
  <2>2. Left(in) = <<>>
    BY <1>2, SubSeqEmpty, Len(in) \in Nat DEF Left
  <2> QED  BY <2>1, <2>2, ConcatEmptySeq
<1>3. CASE ~(Len(in) < RecvSize)
  <2>1. /\ 1 \in 1..Len(in) + 1 /\ RecvSize \in 1 - 1..Len(in) /\ Len(in) \in RecvSize..Len(in)
    BY <1>3, Len(in) \in Nat
  <2>2. Taken(in) \o Left(in) = SubSeq(in, 1, Len(in))
    BY <1>3, <2>1, ConcatAdjacentSubSeq DEF Taken, Left
  <2>3. Taken(in) \in Seq(S)
    BY <1>1, <1>3, <2>1, SubSeqProperties DEF Taken
  <2>4. Left(in) \in Seq(S)
    BY <1>1, <1>3, <2>1, SubSeqProperties DEF Left
  <2> QED  BY <2>2, <2>3, <2>4, SubSeqFull
<1> QED  BY <1>2, <1>3

LEMMA RequestEndInRange ==
  ASSUME NEW S, NEW s \in Seq(S)
  PROVE  /\ RequestEnd(s) \in 0..Len(s)
         /\ RequestEnd(s) = 0 <=> \A i \in 1..Len(s) : ~EndsRequest(s[i])
         /\ RequestEnd(s) # 0 => /\ EndsRequest(s[RequestEnd(s)])
                                 /\ \A i \in 1..Len(s) : EndsRequest(s[i]) => RequestEnd(s) <= i
<1> DEFINE I == {i \in 1..Len(s) : EndsRequest(s[i])}
<1>1. RequestEnd(s) = IF I # {} THEN Min(I) ELSE 0
  BY DEF RequestEnd, SelectInSeq
<1>2. I # {} => Min(I) \in I /\ \A m \in I : Min(I) <= m
  <2>1. I \in SUBSET Nat
    OBVIOUS
  <2> QED  BY <2>1, MinIsLeast
<1>3. CASE I = {}
  BY <1>1, <1>3, Len(s) \in Nat
<1>4. CASE I # {}
  <2> DEFINE k == Min(I)
  <2>1. RequestEnd(s) = k /\ k \in I /\ \A m \in I : k <= m
    BY <1>1, <1>2, <1>4
  <2> HIDE DEF k
  <2> QED  BY <2>1
<1> QED  BY <1>3, <1>4

\* reciveRtspRequest: the request it cuts out, what stays in the buffer and
\* what stays in the socket are what was in the buffer and in the socket.
LEMMA ReciveSplits ==
  ASSUME NEW S, NEW buffer \in Seq(S), NEW in \in Seq(S)
  PROVE  LET got == ReciveRtspRequest(buffer, in) IN
         /\ got.request \in Seq(S) /\ got.buffer \in Seq(S)
         /\ got.request \o got.buffer = buffer \o Taken(in)
         /\ got.request \o (got.buffer \o Left(in)) = buffer \o in
<1> DEFINE got == ReciveRtspRequest(buffer, in)
           received == buffer \o Taken(in)
           end == RequestEnd(received)
<1>1. /\ Taken(in) \in Seq(S) /\ Left(in) \in Seq(S) /\ Taken(in) \o Left(in) = in
  BY RecvSplits
<1>2. received \in Seq(S)
  BY <1>1, ConcatProperties
<1>3. end \in 0..Len(received)
  BY <1>2, RequestEndInRange
<1>4. got.request = SubSeq(received, 1, end) /\ got.buffer = SubSeq(received, end + 1, Len(received))
  BY DEF ReciveRtspRequest
<1> HIDE DEF got, received, end
<1>5. got.request \in Seq(S) /\ got.buffer \in Seq(S)
  <2> DEFINE n == Len(received)
  <2>1. \A i \in 1..n : received[i] \in S
    BY <1>2, ElementOfSeq
  <2>2. n \in Nat /\ end \in 0..n
    BY <1>2, <1>3
  <2>3. got.request = SubSeq(received, 1, end) /\ got.buffer = SubSeq(received, end + 1, n)
    BY <1>4
  <2> HIDE DEF n
  <2>4. SubSeq(received, 1, end) \in Seq(S)
    <3>1. \A i \in 1..end : received[i] \in S
      BY <2>1, <2>2
    <3> QED  BY <2>2, <3>1, SubSeqProperties
  <2>5. SubSeq(received, end + 1, n) \in Seq(S)
    <3>1. \A i \in (end + 1)..n : received[i] \in S
      BY <2>1, <2>2
    <3> QED  BY <2>2, <3>1, SubSeqProperties
  <2> QED  BY <2>3, <2>4, <2>5
<1>6. got.request \o got.buffer = received
  <2>1. /\ 1 \in 1..Len(received) + 1 /\ end \in 1 - 1..Len(received) /\ Len(received) \in end..Len(received)
    BY <1>2, <1>3
  <2>2. got.request \o got.buffer = SubSeq(received, 1, Len(received))
    BY <1>2, <1>4, <2>1, ConcatAdjacentSubSeq
  <2> QED  BY <1>2, <2>2, SubSeqFull
<1>7. got.request \o (got.buffer \o Left(in)) = buffer \o in
  <2> DEFINE r == got.request
             g == got.buffer
             k == Taken(in)
             l == Left(in)
  <2>1. /\ r \in Seq(S) /\ g \in Seq(S) /\ k \in Seq(S) /\ l \in Seq(S)
    BY <1>1, <1>5
  <2>2. r \o g = received /\ received = buffer \o k /\ k \o l = in
    BY <1>1, <1>6 DEF received
  <2> HIDE DEF r, g, k, l
  <2>3. (r \o g) \o l = r \o (g \o l)
    BY ONLY <2>1, ConcatAssociative, SMTT(60)
  <2>4. (buffer \o k) \o l = buffer \o (k \o l)
    BY ONLY <2>1, buffer \in Seq(S), ConcatAssociative, SMTT(60)
  <2>5. r \o (g \o l) = buffer \o in
    BY ONLY <2>2, <2>3, <2>4, Zenon
  <2> QED  BY <2>5 DEF r, g, l
<1> QED  BY <1>5, <1>6, <1>7 DEF got, received

\* If what waits are the bytes that follow q requests, the request cut out is
\* the next one, and all of it has arrived.
LEMMA ReciveCutsNext ==
  ASSUME NEW S, NEW buffer \in Seq(S), NEW in \in Seq(S), NEW q \in Nat, NEW m \in Nat,
         buffer \o in = After(Ends(q), m)
  PROVE  LET got == ReciveRtspRequest(buffer, in) IN
         got.request # <<>> =>
           /\ RequestLength <= m
           /\ got.request = After(Ends(q), RequestLength)
           /\ got.buffer \o Left(in) = After(Ends(q + 1), m - RequestLength)
<1> USE DEF After, Ends
<1> DEFINE got == ReciveRtspRequest(buffer, in)
           received == buffer \o Taken(in)
           end == RequestEnd(received)
           b == RequestLength
           rest == got.buffer \o Left(in)
<1>0. b \in Nat \ {0}
  BY Lengths
<1>1. b \in Nat \ {0} /\ q * b \in Nat /\ (q + 1) * b = q * b + b
  BY ONLY <1>0, q \in Nat
<1>2. /\ Taken(in) \in Seq(S) /\ Left(in) \in Seq(S) /\ Taken(in) \o Left(in) = in
  BY RecvSplits
<1>3. /\ got.request \in Seq(S) /\ got.buffer \in Seq(S)
      /\ got.request \o got.buffer = received
      /\ got.request \o rest = buffer \o in
  <2> HIDE DEF got
  <2> QED  BY ReciveSplits DEF got
<1>4. received \in Seq(S) /\ rest \in Seq(S) /\ received \o Left(in) = buffer \o in
  <2>1. received \in Seq(S)
    BY <1>2, ConcatProperties
  <2>2. rest \in Seq(S)
    <3> HIDE DEF got
    <3> QED  BY <1>2, <1>3, ConcatProperties
  <2>3. received \o Left(in) = buffer \o (Taken(in) \o Left(in))
    <3> DEFINE k == Taken(in)
               l == Left(in)
    <3>1. k \in Seq(S) /\ l \in Seq(S)
      BY <1>2
    <3> HIDE DEF k, l
    <3>2. (buffer \o k) \o l = buffer \o (k \o l)
      BY ONLY <3>1, buffer \in Seq(S)
    <3> QED  BY <3>2 DEF k, l
  <2> QED  BY <1>2, <2>1, <2>2, <2>3
<1>5. got.request = SubSeq(received, 1, end)
  BY DEF ReciveRtspRequest
<1> HIDE DEF got, received, end, b, rest
<1>6. Len(received) \in 0..m /\ \A j \in 1..Len(received) : received[j] = q * b + j
  <2> DEFINE t == Left(in)
  <2>t. t \in Seq(S)
    BY <1>2
  <2>1. /\ Len(received \o t) = Len(received) + Len(t)
        /\ \A j \in 1..Len(received) + Len(t) :
             (received \o t)[j] = IF j <= Len(received) THEN received[j] ELSE t[j - Len(received)]
    BY <1>2, <1>4, ConcatProperties
  <2>2. received \o t = [j \in 1..m |-> q * b + j]
    BY <1>4 DEF b
  <2>3. Len(received) + Len(t) = m /\ Len(received) \in Nat /\ Len(t) \in Nat
    <3>1. Len([j \in 1..m |-> q * b + j]) = m
      OBVIOUS
    <3> QED  BY <1>2, <1>4, <2>1, <2>2, <3>1
  <2>4. \A j \in 1..Len(received) : (received \o t)[j] = q * b + j
    BY <2>2, <2>3
  <2> QED  BY <2>1, <2>3, <2>4
<1>7. ASSUME NEW j \in 1..b
      PROVE  EndsRequest(q * b + j) <=> j = b
  <2>1. CASE j = b
    <3>1. ((q + 1) * b + 0) % b = 0
      BY <1>1, q + 1 \in Nat, 0 \in 0..b - 1, Division
    <3>2. (q * b + j) = (q + 1) * b + 0
      BY <1>1, <2>1
    <3> QED  BY <2>1, <3>1, <3>2 DEF EndsRequest, b
  <2>2. CASE j # b
    <3>1. j \in 0..b - 1 /\ j # 0
      BY <1>1, <2>2
    <3>2. (q * b + j) % b = j
      BY <1>1, <3>1, Division
    <3> QED  BY <2>2, <3>1, <3>2 DEF EndsRequest, b
  <2> QED  BY <2>1, <2>2
<1> SUFFICES ASSUME got.request # <<>>
             PROVE  /\ b <= m
                    /\ got.request = [j \in 1..b |-> q * b + j]
                    /\ rest = [j \in 1..m - b |-> (q + 1) * b + j]
  BY DEF got, b, rest
<1>8. end = b /\ b <= Len(received)
  <2>1. /\ end \in 0..Len(received)
        /\ end # 0 => /\ EndsRequest(received[end])
                      /\ \A i \in 1..Len(received) : EndsRequest(received[i]) => end <= i
    BY <1>4, RequestEndInRange DEF end
  <2>2. end # 0
    <3>1. SubSeq(received, 1, 0) = <<>>
      BY SubSeqEmpty
    <3> QED  BY <1>5, <3>1
  <2>3. end \in 1..Len(received) /\ EndsRequest(q * b + end)
    BY <1>6, <2>1, <2>2
  <2>4. ~(end < b)
    <3>1. end < b => end \in 1..b
      BY <1>1, <2>3
    <3> QED  BY <1>1, <1>7, <2>3, <3>1
  <2>5. b \in 1..Len(received) /\ received[b] = q * b + b
    BY <1>1, <1>6, <2>3, <2>4
  <2>6. EndsRequest(received[b])
    BY <1>1, <1>7, <2>5
  <2> QED  BY <1>1, <1>6, <2>1, <2>2, <2>4, <2>5, <2>6
<1>9. Len(got.request) = b /\ \A j \in 1..b : got.request[j] = q * b + j
  <2>1. \A i \in 1..b : received[i] \in S
    BY ONLY <1>1, <1>4, <1>6, <1>8
  <2>2. /\ Len(SubSeq(received, 1, b)) = b
        /\ \A i \in 1..b : SubSeq(received, 1, b)[i] = received[i]
    BY <1>1, <2>1, SubSeqProperties
  <2>3. got.request = SubSeq(received, 1, b)
    BY <1>5, <1>8
  <2>4. \A j \in 1..b : received[j] = q * b + j
    BY ONLY <1>0, <1>6, <1>8
  <2> QED  BY <2>2, <2>3, <2>4
<1>10. got.request = [j \in 1..b |-> q * b + j]
  BY ONLY <1>1, <1>3, <1>9
<1>11. b <= m
  BY <1>1, <1>6, <1>8
<1>12. rest = [j \in 1..m - b |-> (q + 1) * b + j]
  <2> DEFINE r == got.request
             all == [j \in 1..m |-> q * b + j]
  <2>1. r \in Seq(S) /\ rest \in Seq(S) /\ r \o rest = all /\ Len(r) = b
    BY <1>3, <1>4, <1>9 DEF b
  <2>2. Len(all) = m /\ \A j \in 1..m : all[j] = q * b + j
    OBVIOUS
  <2> HIDE DEF all, r
  <2>3. Len(rest) = Len(all) - b /\ \A j \in 1..Len(rest) : rest[j] = all[b + j]
    BY ONLY <2>1, SecondPart
  <2>4. Len(rest) = m - b
    BY ONLY <2>2, <2>3
  <2>5. ASSUME NEW j \in 1..m - b
        PROVE  rest[j] = (q + 1) * b + j
    <3>1. b + j \in 1..m
      BY <1>0, <1>11
    <3>2. rest[j] = q * b + (b + j)
      BY <2>2, <2>3, <2>4, <3>1
    <3>3. q * b + (b + j) = (q + 1) * b + j
      BY <1>1
    <3> QED  BY <3>2, <3>3
  <2>6. rest = [j \in 1..m - b |-> rest[j]]
    BY ONLY <2>1, <2>4
  <2> QED  BY <2>5, <2>6
<1> QED  BY <1>10, <1>11, <1>12

\* The same, of what waits on a socket: `Waits` says that the m bytes which
\* follow q requests are there, `CutsNext` that the call hands over the next one.
Waits(buffer, in, q, m) == buffer \o in = After(Ends(q), m)

CutsNext(got, in, q, m) ==
  got.request # <<>> =>
    /\ RequestLength <= m
    /\ got.request = After(Ends(q), RequestLength)
    /\ got.buffer \o Left(in) = After(Ends(q + 1), m - RequestLength)

LEMMA WaitingIsCut ==
  ASSUME NEW S, NEW buffer \in Seq(S), NEW in \in Seq(S), NEW q \in Nat, NEW m \in Nat,
         Waits(buffer, in, q, m)
  PROVE  CutsNext(ReciveRtspRequest(buffer, in), in, q, m)
<1>1. buffer \o in = After(Ends(q), m)
  BY DEF Waits
<1> DEFINE got == ReciveRtspRequest(buffer, in)
<1>2. got.request # <<>> =>
        /\ RequestLength <= m
        /\ got.request = After(Ends(q), RequestLength)
        /\ got.buffer \o Left(in) = After(Ends(q + 1), m - RequestLength)
  BY ONLY <1>1, ReciveCutsNext, buffer \in Seq(S), in \in Seq(S), q \in Nat, m \in Nat
<1> HIDE DEF got
<1>3. CutsNext(got, in, q, m)
  BY ONLY <1>2 DEF CutsNext
<1> QED  BY <1>3 DEF got

-----------------------------------------------------------------------------
(***************************************************************************)
(* LoopInv: types, and what is written to.                                 *)
(***************************************************************************)
LEMMA InitLoopInv == Init => LoopInv
<1> SUFFICES ASSUME Init PROVE LoopInv
  OBVIOUS
<1> USE Lengths DEF Init
<1>1. TypeOK
  <2>1. <<>> \in Seq(Byte) /\ <<>> \in Seq(Seq(Byte)) /\ <<>> \in Seq(Clients)
    BY EmptySeq
  <2>2. /\ [c \in Clients |-> <<>>] \in [Clients -> Seq(Byte)]
        /\ [c \in Clients |-> <<>>] \in [Clients -> Seq(Seq(Byte))]
    BY <2>1
  <2>3. /\ inbox \in [Clients -> Seq(Byte)] /\ recvBuffer \in [Clients -> Seq(Byte)]
        /\ handled \in [Clients -> Seq(Seq(Byte))]
    BY <2>2
  <2>4. playing \in Seq(Clients) /\ toWrite \in Seq(Clients)
    BY <2>1
  <2>5. /\ peer \in [Clients -> Peer] /\ sent \in [Clients -> 0..MaxRequests * RequestLength]
        /\ outbox \in [Clients -> 0..SendSpace] /\ datagrams \in [Clients -> 0..MaxDatagrams]
        /\ pusher \in [Clients -> {"none", "one", "replaced"}]
        /\ rtcp \in [Clients -> {"none", "registered"}]
    <3>1. peer = [c \in Clients |-> "away"] /\ "away" \in Peer
      BY DEF Peer
    <3>2. 0 \in 0..MaxRequests * RequestLength /\ 0 \in 0..SendSpace /\ 0 \in 0..MaxDatagrams
      OBVIOUS
    <3> QED  BY <3>1, <3>2
  <2>6. pendings \subseteq Clients /\ conns \subseteq Clients /\ batch \subseteq Events
    OBVIOUS
  <2>7. crashed \in BOOLEAN
    OBVIOUS
  <2> QED  BY ONLY <2>3, <2>4, <2>5, <2>6, <2>7 DEF TypeOK, Byte
<1>2. TimersOnce /\ NothingWrittenAfterClose /\ StrangersUnknown /\ HandedOverOnce /\ UdpEventsWait
  BY DEF TimersOnce, NothingWrittenAfterClose, StrangersUnknown, HandedOverOnce, UdpEventsWait
<1> QED  BY <1>1, <1>2 DEF LoopInv

\* The parts of LoopInv about the timers, for the steps that need them.
LEMMA TimersTyped ==
  ASSUME LoopInv
  PROVE  /\ playing \in Seq(Clients) /\ DOMAIN playing = 1..Len(playing)
         /\ toWrite \in Seq(Clients)
         /\ \A i, j \in 1..Len(playing) : playing[i] = playing[j] => i = j
         /\ rtcp \in [Clients -> {"none", "registered"}]
<1>1. playing \in Seq(Clients) /\ toWrite \in Seq(Clients)
  BY DEF LoopInv, TypeOK
<1>2. rtcp \in [Clients -> {"none", "registered"}]
  BY DEF LoopInv, TypeOK
<1>3. DOMAIN playing = 1..Len(playing)
  BY <1>1
<1>4. \A i, j \in 1..Len(playing) : playing[i] = playing[j] => i = j
  BY <1>3 DEF LoopInv, TimersOnce
<1> QED  BY ONLY <1>1, <1>2, <1>3, <1>4

\* Steps that leave the timers and the writes alone.
LEMMA TimersKept ==
  ASSUME LoopInv, UNCHANGED <<playing, toWrite>>, conns \subseteq conns'
  PROVE  TimersOnce' /\ NothingWrittenAfterClose'
  BY DEF LoopInv, TimersOnce, NothingWrittenAfterClose

LEMMA ClientLoopInv ==
  ASSUME LoopInv, NEW c \in Clients,
         Connect(c) \/ Send(c) \/ Read(c) \/ Close(c) \/ Abort(c) \/ SendRtcp(c)
  PROVE  LoopInv'
<1>1. UNCHANGED <<playing, toWrite, conns, recvBuffer, handled, pusher, rtcp, batch, crashed>>
  BY DEF Connect, Send, Read, Close, Abort, SendRtcp, loopState
<1>2. TimersOnce' /\ NothingWrittenAfterClose'
  BY <1>1, TimersKept
<1>3. /\ pendings' = pendings \/ (peer[c] = "away" /\ pendings' = pendings \cup {c})
      /\ \A d \in Clients : peer'[d] = "away" => peer[d] = "away" /\ (d = c => pendings' = pendings)
      /\ \A d \in Clients : datagrams'[d] = datagrams[d] \/ datagrams'[d] = datagrams[d] + 1
  BY DEF Connect, Send, Read, Close, Abort, SendRtcp, loopState, LoopInv, TypeOK
<1>4. StrangersUnknown' /\ HandedOverOnce'
  BY <1>1, <1>3 DEF LoopInv, StrangersUnknown, HandedOverOnce
<1>5. UdpEventsWait'
  <2>1. \A d \in Clients : datagrams[d] \in Nat
    BY DEF LoopInv, TypeOK
  <2>2. \A d \in Clients : peer[d] # "away" => peer'[d] # "away" /\ (d \in pendings' => d \in pendings)
    BY <1>3
  <2> QED  BY <1>1, <1>3, <2>1, <2>2 DEF LoopInv, UdpEventsWait
<1>6. TypeOK'
  <2>1. CASE Send(c)
    <3>1. sent[c] + 1 \in Byte /\ sent' = [sent EXCEPT ![c] = sent[c] + 1]
      BY <2>1, Lengths DEF Send, LoopInv, TypeOK, Byte
    <3>2. inbox[c] \in Seq(Byte) /\ inbox' = [inbox EXCEPT ![c] = Append(inbox[c], sent[c] + 1)]
      BY <2>1, <3>1 DEF Send, LoopInv, TypeOK, Byte
    <3>3. Append(inbox[c], sent[c] + 1) \in Seq(Byte)
      BY <3>1, <3>2, AppendProperties
    <3>4. inbox' \in [Clients -> Seq(Byte)]
      BY <3>2, <3>3 DEF LoopInv, TypeOK, Byte
    <3>5. sent' \in [Clients -> 0..MaxRequests * RequestLength]
      BY <3>1, Lengths DEF LoopInv, TypeOK, Byte
    <3> QED  BY <1>1, <2>1, <3>4, <3>5 DEF Send, LoopInv, TypeOK, loopState, Byte
  <2>2. CASE Connect(c) \/ Close(c) \/ Abort(c)
    <3>1. peer' \in [Clients -> Peer] /\ pendings' \subseteq Clients
      BY <2>2 DEF Connect, Close, Abort, loopState, LoopInv, TypeOK, Peer
    <3>2. UNCHANGED <<sent, inbox, outbox, datagrams>>
      BY <2>2 DEF Connect, Close, Abort
    <3> QED  BY <1>1, <3>1, <3>2 DEF LoopInv, TypeOK
  <2>3. CASE Read(c) \/ SendRtcp(c)
    <3>0. /\ outbox \in [Clients -> 0..SendSpace] /\ datagrams \in [Clients -> 0..MaxDatagrams]
          /\ SendSpace \in Nat /\ MaxDatagrams \in Nat
      BY Lengths DEF LoopInv, TypeOK
    <3>1. outbox' \in [Clients -> 0..SendSpace] /\ datagrams' \in [Clients -> 0..MaxDatagrams]
      <4>1. CASE Read(c)
        <5>1. outbox[c] - 1 \in 0..SendSpace
          BY <3>0, <4>1 DEF Read
        <5>2. outbox' = [outbox EXCEPT ![c] = outbox[c] - 1] /\ datagrams' = datagrams
          BY <4>1 DEF Read
        <5> QED  BY <3>0, <5>1, <5>2
      <4>2. CASE SendRtcp(c)
        <5>1. datagrams[c] + 1 \in 0..MaxDatagrams
          BY <3>0, <4>2 DEF SendRtcp
        <5>2. datagrams' = [datagrams EXCEPT ![c] = datagrams[c] + 1] /\ outbox' = outbox
          BY <4>2 DEF SendRtcp
        <5> QED  BY <3>0, <5>1, <5>2
      <4> QED  BY <2>3, <4>1, <4>2
    <3>2. UNCHANGED <<sent, inbox, peer, pendings>>
      BY <2>3 DEF Read, SendRtcp, loopState
    <3> QED  BY <1>1, <3>1, <3>2 DEF LoopInv, TypeOK
  <2> QED  BY <2>1, <2>2, <2>3
<1> QED  BY <1>2, <1>4, <1>5, <1>6 DEF LoopInv

LEMMA WaitLoopInv ==
  ASSUME LoopInv, WaitEpollFd \/ AddConnections
  PROVE  LoopInv'
<1>1. CASE WaitEpollFd
  <2>1. /\ Ready \subseteq Events
        /\ batch' = Ready /\ UNCHANGED <<network, loopState, toWrite, crashed>>
    BY <1>1 DEF Ready, WaitEpollFd
  <2>2. UdpEventsWait'
    <3> SUFFICES ASSUME NEW c \in Clients, <<"udp", c>> \in Ready
                 PROVE  rtcp[c] # "none" /\ datagrams[c] > 0
      BY <2>1 DEF UdpEventsWait, loopState, network
    <3> QED  BY DEF Ready
  <2>3. TimersOnce' /\ NothingWrittenAfterClose'
    BY <2>1, TimersKept DEF loopState
  <2>4. TypeOK'
    BY <2>1 DEF LoopInv, TypeOK, loopState, network
  <2>5. StrangersUnknown' /\ HandedOverOnce'
    BY <2>1 DEF LoopInv, StrangersUnknown, HandedOverOnce, loopState, network
  <2> QED  BY <2>2, <2>3, <2>4, <2>5 DEF LoopInv
<1>2. CASE AddConnections
  <2>1. /\ batch' \subseteq batch /\ conns' = conns \cup pendings /\ pendings' = {}
        /\ UNCHANGED <<network, recvBuffer, handled, playing, pusher, rtcp, toWrite, crashed>>
    BY <1>2 DEF AddConnections, Dispatch
  <2>2. TimersOnce' /\ NothingWrittenAfterClose'
    BY <2>1, TimersKept
  <2>3. TypeOK'
    BY <2>1 DEF LoopInv, TypeOK, network
  <2>4. StrangersUnknown' /\ HandedOverOnce' /\ UdpEventsWait'
    BY <2>1 DEF LoopInv, StrangersUnknown, HandedOverOnce, UdpEventsWait, network
  <2> QED  BY <2>2, <2>3, <2>4 DEF LoopInv
<1> QED  BY <1>1, <1>2

LEMMA PushLoopInv ==
  ASSUME LoopInv, PushFrames
  PROVE  LoopInv'
<1>1. PICK n \in 0..Len(playing) : \E due \in [1..n -> DOMAIN playing] :
        toWrite' = [i \in 1..n |-> playing[due[i]]]
  BY DEF PushFrames
<1>2. PICK due \in [1..n -> DOMAIN playing] : toWrite' = [i \in 1..n |-> playing[due[i]]]
  BY <1>1
<1>3. playing \in Seq(Clients) /\ DOMAIN playing = 1..Len(playing) /\ n \in Nat
  BY TimersTyped
<1>4. \A i \in 1..n : toWrite'[i] = playing[due[i]] /\ due[i] \in 1..Len(playing) /\ playing[due[i]] \in Clients
  BY <1>2, <1>3
<1>5. toWrite' \in Seq(Clients) /\ DOMAIN toWrite' = 1..n
  BY <1>2, <1>3, <1>4
<1>6. {toWrite'[i] : i \in DOMAIN toWrite'} \subseteq {playing[i] : i \in DOMAIN playing}
  BY <1>3, <1>4, <1>5
<1>7. batch' \subseteq batch /\ UNCHANGED <<network, loopState>> /\ crashed' \in BOOLEAN
  BY DEF PushFrames, Dispatch, Dangling
<1>8. TypeOK'
  BY <1>5, <1>7 DEF LoopInv, TypeOK, network, loopState
<1>9. TimersOnce' /\ NothingWrittenAfterClose'
  <2>1. playing' = playing /\ conns' = conns
    BY <1>7 DEF loopState
  <2>2. {playing[i] : i \in DOMAIN playing} \subseteq conns
    BY DEF LoopInv, NothingWrittenAfterClose
  <2>3. {toWrite'[i] : i \in DOMAIN toWrite'} \subseteq conns
    BY ONLY <1>6, <2>2
  <2>4. TimersOnce'
    BY <2>1 DEF LoopInv, TimersOnce
  <2> QED  BY ONLY <2>1, <2>2, <2>3, <2>4 DEF NothingWrittenAfterClose
<1>10. StrangersUnknown' /\ HandedOverOnce' /\ UdpEventsWait'
  BY <1>7 DEF LoopInv, StrangersUnknown, HandedOverOnce, UdpEventsWait, network, loopState
<1> QED  BY <1>8, <1>9, <1>10 DEF LoopInv

\* stop: the timer of a pusher's connection goes, the others stay.
LEMMA RemovedFromTimers ==
  ASSUME LoopInv, NEW c, playing' = RemoveFirst(playing, c)
  PROVE  /\ playing' \in Seq(Clients)
         /\ {playing'[i] : i \in 1..Len(playing')} = {playing[i] : i \in 1..Len(playing)} \ {c}
         /\ \A i, j \in 1..Len(playing') : playing'[i] = playing'[j] => i = j
<1> DEFINE r == RemoveFirst(playing, c)
<1>1. /\ r \in Seq(Clients)
      /\ {r[i] : i \in 1..Len(r)} = {playing[i] : i \in 1..Len(playing)} \ {c}
      /\ \A i, j \in 1..Len(r) : r[i] = r[j] => i = j
  BY TimersTyped, RemoveFirstProperties
<1>2. playing' = r
  OBVIOUS
<1> HIDE DEF r
<1> QED  BY ONLY <1>1, <1>2

\* The pusher's timer and the RTCP sockets of a connection, while and after it
\* is served: a pusher more, or less, and nothing for another connection.
LEMMA EffectLoopInv ==
  ASSUME LoopInv, NEW c \in conns, RequestEffect(c)
  PROVE  /\ playing' \in Seq(Clients)
         /\ {playing'[i] : i \in 1..Len(playing')} \subseteq {playing[i] : i \in 1..Len(playing)} \cup {c}
         /\ \A i, j \in 1..Len(playing') : playing'[i] = playing'[j] => i = j
         /\ pusher' \in [Clients -> {"none", "one", "replaced"}]
         /\ rtcp' \in [Clients -> {"none", "registered"}]
         /\ \A d \in Clients : d # c => rtcp'[d] = rtcp[d]
         /\ rtcp[c] # "none" => rtcp'[c] # "none"
<1> DEFINE r == RemoveFirst(playing, c)
<1>1. /\ playing \in Seq(Clients) /\ DOMAIN playing = 1..Len(playing)
      /\ rtcp \in [Clients -> {"none", "registered"}]
      /\ pusher \in [Clients -> {"none", "one", "replaced"}]
      /\ c \in Clients
      /\ \A i, j \in 1..Len(playing) : playing[i] = playing[j] => i = j
  BY TimersTyped DEF LoopInv, TypeOK
<1>2. /\ r \in Seq(Clients)
      /\ {r[i] : i \in 1..Len(r)} = {playing[i] : i \in 1..Len(playing)} \ {c}
      /\ \A i, j \in 1..Len(r) : r[i] = r[j] => i = j
  BY <1>1, RemoveFirstProperties
<1> HIDE DEF r
<1>3. /\ pusher' \in [Clients -> {"none", "one", "replaced"}]
      /\ rtcp' \in [Clients -> {"none", "registered"}]
      /\ \A d \in Clients : d # c => rtcp'[d] = rtcp[d]
      /\ rtcp[c] # "none" => rtcp'[c] # "none"
  <2>1. /\ rtcp' = rtcp \/ rtcp' = [rtcp EXCEPT ![c] = "registered"]
        /\ pusher' = pusher \/ \E p \in {"one", "replaced"} : pusher' = [pusher EXCEPT ![c] = p]
    BY DEF RequestEffect, PlayEffect
  <2> QED  BY ONLY <1>1, <2>1
<1>4. playing' = playing \/ playing' = r \/ playing' = Append(r, c)
  BY DEF RequestEffect, PlayEffect, r
<1>5. /\ playing' \in Seq(Clients)
      /\ {playing'[i] : i \in 1..Len(playing')} \subseteq {playing[i] : i \in 1..Len(playing)} \cup {c}
      /\ \A i, j \in 1..Len(playing') : playing'[i] = playing'[j] => i = j
  <2>1. CASE playing' = playing
    BY ONLY <1>1, <2>1
  <2>2. CASE playing' = r
    BY ONLY <1>2, <2>2
  <2>3. CASE playing' = Append(r, c)
    <3>1. \A i \in 1..Len(r) : r[i] # c
      BY ONLY <1>2
    <3>2. /\ playing' \in Seq(Clients) /\ Len(playing') = Len(r) + 1 /\ Len(r) \in Nat
          /\ \A i \in 1..Len(r) : playing'[i] = r[i]
          /\ playing'[Len(r) + 1] = c
      BY <1>1, <1>2, <2>3, AppendProperties
    <3>3. \A i \in 1..Len(playing') : i \in 1..Len(r) \/ i = Len(r) + 1
      BY ONLY <3>2
    <3>4. {playing'[i] : i \in 1..Len(playing')} \subseteq {r[i] : i \in 1..Len(r)} \cup {c}
      BY ONLY <3>2, <3>3
    <3>5. \A i, j \in 1..Len(playing') : playing'[i] = playing'[j] => i = j
      BY ONLY <1>2, <3>1, <3>2, <3>3
    <3> QED  BY ONLY <1>2, <3>2, <3>4, <3>5
  <2> QED  BY ONLY <1>4, <2>1, <2>2, <2>3
<1> QED  BY ONLY <1>3, <1>5

\* What serving a message leaves in the receive buffer and in the socket.
LEMMA RequestTypes ==
  ASSUME TypeOK, NEW c \in Clients, HandleRequest(c)
  PROVE  /\ peer' \in [Clients -> Peer]
         /\ {inbox', recvBuffer'} \subseteq [Clients -> Seq(Byte)]
         /\ handled' \in [Clients -> Seq(Seq(Byte))]
         /\ \A d \in Clients : peer[d] # "away" => peer'[d] # "away"
         /\ \A d \in Clients : peer'[d] = "away" => peer[d] = "away"
         /\ \/ UNCHANGED <<playing, pusher, rtcp, toWrite>>
            \/ toWrite' = <<c>> /\ RequestEffect(c)
<1> DEFINE got == ReciveRtspRequest(recvBuffer[c], inbox[c])
<1>1. /\ peer \in [Clients -> Peer]
      /\ {inbox, recvBuffer} \subseteq [Clients -> Seq(Byte)]
      /\ handled \in [Clients -> Seq(Seq(Byte))]
  BY DEF TypeOK, Byte
<1>2. got.request \in Seq(Byte) /\ got.buffer \in Seq(Byte) /\ Left(inbox[c]) \in Seq(Byte)
  BY <1>1, ReciveSplits, RecvSplits
<1> HIDE DEF got
<1>3. CASE inbox[c] = <<>>
  <2>1. peer' = [peer EXCEPT ![c] = "drained"]
        /\ UNCHANGED <<inbox, recvBuffer, handled, playing, pusher, rtcp, toWrite>>
    BY <1>3 DEF HandleRequest
  <2> QED  BY <1>1, <2>1 DEF Peer
<1>4. CASE inbox[c] # <<>>
  <2>1. /\ inbox' = [inbox EXCEPT ![c] = Left(inbox[c])]
        /\ recvBuffer' = [recvBuffer EXCEPT ![c] = got.buffer]
        /\ UNCHANGED peer
        /\ \/ UNCHANGED <<handled, playing, pusher, rtcp, toWrite>>
           \/ /\ handled' = [handled EXCEPT ![c] = Append(handled[c], got.request)]
              /\ toWrite' = <<c>>
              /\ RequestEffect(c)
    BY <1>4 DEF HandleRequest, got
  <2>2. Append(handled[c], got.request) \in Seq(Seq(Byte))
    BY <1>1, <1>2, AppendProperties
  <2>3. /\ [handled EXCEPT ![c] = Append(handled[c], got.request)] \in [Clients -> Seq(Seq(Byte))]
        /\ [inbox EXCEPT ![c] = Left(inbox[c])] \in [Clients -> Seq(Byte)]
        /\ [recvBuffer EXCEPT ![c] = got.buffer] \in [Clients -> Seq(Byte)]
    BY <1>1, <1>2, <2>2
  <2> QED  BY <1>1, <2>1, <2>3
<1> QED  BY <1>3, <1>4

LEMMA RequestLoopInv ==
  ASSUME LoopInv, NEW c \in Clients, HandleRequest(c)
  PROVE  LoopInv'
<1>1. /\ c \in conns /\ <<"tcp", c>> \in batch /\ toWrite = <<>> /\ ~crashed
      /\ batch' = batch \ {<<"tcp", c>>}
      /\ UNCHANGED <<sent, outbox, datagrams, pendings, conns, crashed>>
  BY DEF HandleRequest, Dispatch
<1>2. /\ peer' \in [Clients -> Peer]
      /\ {inbox', recvBuffer'} \subseteq [Clients -> Seq(Byte)]
      /\ handled' \in [Clients -> Seq(Seq(Byte))]
      /\ \A d \in Clients : peer[d] # "away" => peer'[d] # "away"
      /\ \A d \in Clients : peer'[d] = "away" => peer[d] = "away"
      /\ \/ UNCHANGED <<playing, pusher, rtcp, toWrite>>
         \/ toWrite' = <<c>> /\ RequestEffect(c)
  BY RequestTypes DEF LoopInv
<1>3. /\ playing' \in Seq(Clients)
      /\ {playing'[i] : i \in 1..Len(playing')} \subseteq {playing[i] : i \in 1..Len(playing)} \cup {c}
      /\ \A i, j \in 1..Len(playing') : playing'[i] = playing'[j] => i = j
      /\ pusher' \in [Clients -> {"none", "one", "replaced"}]
      /\ rtcp' \in [Clients -> {"none", "registered"}]
      /\ \A d \in Clients : d # c => rtcp'[d] = rtcp[d]
      /\ rtcp[c] # "none" => rtcp'[c] # "none"
  <2>1. CASE UNCHANGED <<playing, pusher, rtcp>>
    <3>1. /\ playing \in Seq(Clients) /\ DOMAIN playing = 1..Len(playing)
          /\ pusher \in [Clients -> {"none", "one", "replaced"}]
          /\ rtcp \in [Clients -> {"none", "registered"}]
      BY DEF LoopInv, TypeOK
    <3> QED  BY <2>1, <3>1 DEF LoopInv, TimersOnce
  <2>2. CASE RequestEffect(c)
    BY <1>1, <2>2, EffectLoopInv
  <2> QED  BY <1>2, <2>1, <2>2
<1>4. toWrite' \in Seq(Clients) /\ {toWrite'[i] : i \in DOMAIN toWrite'} \subseteq {c}
  <2>1. CASE toWrite' = toWrite
    BY <1>1, <2>1
  <2>2. CASE toWrite' = <<c>>
    BY <1>1, <2>2
  <2> QED  BY <1>2, <2>1, <2>2
<1>5. DOMAIN playing = 1..Len(playing) /\ DOMAIN playing' = 1..Len(playing')
  BY <1>3 DEF LoopInv, TypeOK
<1>6. TypeOK'
  BY <1>1, <1>2, <1>3, <1>4 DEF LoopInv, TypeOK, Byte
<1>7. TimersOnce' /\ NothingWrittenAfterClose'
  BY <1>1, <1>3, <1>4, <1>5 DEF LoopInv, TimersOnce, NothingWrittenAfterClose
<1>8. StrangersUnknown' /\ HandedOverOnce'
  BY <1>1, <1>2, <1>3 DEF LoopInv, StrangersUnknown, HandedOverOnce
<1>9. UdpEventsWait'
  BY <1>1, <1>2, <1>3 DEF LoopInv, UdpEventsWait
<1> QED  BY <1>6, <1>7, <1>8, <1>9 DEF LoopInv

LEMMA CloseLoopInv ==
  ASSUME LoopInv, NEW c \in Clients, HandleClose(c)
  PROVE  LoopInv'
<1>1. /\ playing \in Seq(Clients) /\ DOMAIN playing = 1..Len(playing)
      /\ \A i, j \in 1..Len(playing) : playing[i] = playing[j] => i = j
      /\ toWrite = <<>> /\ playing' = RemoveFirst(playing, c)
  BY TimersTyped DEF HandleClose, Dispatch
<1>2. /\ playing' \in Seq(Clients)
      /\ {playing'[i] : i \in 1..Len(playing')} = {playing[i] : i \in 1..Len(playing)} \ {c}
      /\ \A i, j \in 1..Len(playing') : playing'[i] = playing'[j] => i = j
  BY <1>1, RemovedFromTimers
<1>3. /\ DOMAIN playing' = 1..Len(playing') /\ toWrite' = <<>> /\ DOMAIN toWrite' = {}
  BY <1>1, <1>2 DEF HandleClose
<1>4. /\ conns' = conns \ {c} /\ c \in conns
      /\ batch' = batch \ {<<"tcp", c>>}
      /\ UNCHANGED <<peer, sent, inbox, outbox, pendings, recvBuffer, handled, pusher, toWrite,
                     crashed>>
  BY DEF HandleClose, Dispatch, RemoveConnection
<1>9. \/ UNCHANGED <<rtcp, datagrams>>
      \/ /\ rtcp' = [rtcp EXCEPT ![c] = "none"]
         /\ datagrams' = [datagrams EXCEPT ![c] = 0]
  BY DEF HandleClose, ReleaseRtcp
<1>10. /\ rtcp \in [Clients -> {"none", "registered"}]
       /\ datagrams \in [Clients -> 0..MaxDatagrams]
  BY DEF LoopInv, TypeOK
<1>11. /\ rtcp' \in [Clients -> {"none", "registered"}]
       /\ datagrams' \in [Clients -> 0..MaxDatagrams]
       /\ \A d \in Clients : d # c => rtcp'[d] = rtcp[d] /\ datagrams'[d] = datagrams[d]
       /\ rtcp'[c] = "none" \/ (rtcp'[c] = rtcp[c] /\ datagrams'[c] = datagrams[c])
       /\ rtcp[c] = "none" => rtcp'[c] = "none"
  BY ONLY <1>9, <1>10, Lengths
<1>5. TypeOK'
  BY <1>2, <1>4, <1>11 DEF LoopInv, TypeOK
<1>6. TimersOnce' /\ NothingWrittenAfterClose'
  BY <1>1, <1>2, <1>3, <1>4 DEF LoopInv, TimersOnce, NothingWrittenAfterClose
<1>7. StrangersUnknown' /\ HandedOverOnce'
  BY <1>4, <1>11 DEF LoopInv, StrangersUnknown, HandedOverOnce, TypeOK
<1>8. UdpEventsWait'
  <2> SUFFICES ASSUME NEW d \in Clients, <<"udp", d>> \in batch
               PROVE  IF rtcp'[d] = "none" THEN d \notin conns' \cup pendings' /\ peer'[d] # "away"
                      ELSE datagrams'[d] > 0
    BY <1>4 DEF UdpEventsWait
  <2>1. IF rtcp[d] = "none" THEN d \notin conns \cup pendings /\ peer[d] # "away"
        ELSE datagrams[d] > 0
    BY DEF LoopInv, UdpEventsWait
  <2>2. c \notin pendings /\ peer[c] # "away"
    BY <1>4 DEF LoopInv, StrangersUnknown, HandedOverOnce
  <2> QED  BY <1>4, <1>11, <2>1, <2>2
<1> QED  BY <1>5, <1>6, <1>7, <1>8 DEF LoopInv

LEMMA DatagramLoopInv ==
  ASSUME LoopInv, NEW c \in Clients, HandleRtcp(c) \/ ConnectionNotFound(c)
  PROVE  LoopInv'
<1>1. /\ <<"udp", c>> \in batch /\ batch' = batch \ {<<"udp", c>>}
      /\ UNCHANGED <<peer, sent, inbox, outbox, loopState, toWrite, crashed>>
      /\ \/ rtcp[c] # "none" /\ datagrams' = [datagrams EXCEPT ![c] = datagrams[c] - 1]
         \/ datagrams' = datagrams
  BY DEF HandleRtcp, ConnectionNotFound, Dispatch, network
<1>2. datagrams \in [Clients -> 0..MaxDatagrams] /\ MaxDatagrams \in Nat
  BY Lengths DEF LoopInv, TypeOK
<1>3. rtcp[c] # "none" => datagrams[c] - 1 \in 0..MaxDatagrams
  BY <1>1, <1>2 DEF LoopInv, UdpEventsWait
<1>4. datagrams' \in [Clients -> 0..MaxDatagrams]
  BY <1>1, <1>2, <1>3
<1>5. TypeOK'
  BY <1>1, <1>4 DEF LoopInv, TypeOK, loopState
<1>6. TimersOnce' /\ NothingWrittenAfterClose'
  BY <1>1, TimersKept DEF loopState
<1>7. StrangersUnknown' /\ HandedOverOnce'
  BY <1>1 DEF LoopInv, StrangersUnknown, HandedOverOnce, loopState
<1>8. UdpEventsWait'
  <2>1. ASSUME NEW d \in Clients, <<"udp", d>> \in batch'
        PROVE  <<"udp", d>> \in batch /\ d # c /\ datagrams'[d] = datagrams[d]
    BY <1>1, <1>2, <2>1
  <2> QED  BY <1>1, <2>1 DEF LoopInv, UdpEventsWait, loopState
<1> QED  BY <1>5, <1>6, <1>7, <1>8 DEF LoopInv

LEMMA WriteLoopInv ==
  ASSUME LoopInv, Write
  PROVE  LoopInv'
<1> DEFINE c == Head(toWrite)
<1>1. toWrite \in Seq(Clients) /\ toWrite # <<>>
  BY TimersTyped DEF Write
<1>2. /\ c \in Clients /\ Tail(toWrite) \in Seq(Clients)
      /\ Len(Tail(toWrite)) = Len(toWrite) - 1 /\ Len(toWrite) \in Nat \ {0}
      /\ \A i \in 1..Len(Tail(toWrite)) : Tail(toWrite)[i] = toWrite[i + 1]
  BY <1>1, HeadTailProperties
<1>3. /\ ~(peer[c] = "connected" /\ outbox[c] = SendSpace)
      /\ crashed' \in BOOLEAN
      /\ outbox' = [outbox EXCEPT ![c] = IF peer[c] = "connected" THEN outbox[c] + 1 ELSE outbox[c]]
      /\ toWrite' = Tail(toWrite)
      /\ UNCHANGED <<peer, sent, inbox, datagrams, loopState, batch>>
  BY DEF Write, WriteBlocks, WriteFails
<1> HIDE DEF c
<1>4. outbox' \in [Clients -> 0..SendSpace]
  <2>1. outbox \in [Clients -> 0..SendSpace] /\ SendSpace \in Nat
    BY Lengths DEF LoopInv, TypeOK
  <2> QED  BY <1>2, <1>3, <2>1
<1>5. TypeOK'
  BY <1>2, <1>3, <1>4 DEF LoopInv, TypeOK, loopState
<1>6. TimersOnce' /\ NothingWrittenAfterClose'
  <2>1. playing' = playing /\ conns' = conns
    BY <1>3 DEF loopState
  <2>2. {playing[i] : i \in DOMAIN playing} \cup {toWrite[i] : i \in DOMAIN toWrite} \subseteq conns
    BY DEF LoopInv, NothingWrittenAfterClose
  <2>3. {toWrite'[i] : i \in DOMAIN toWrite'} \subseteq {toWrite[i] : i \in DOMAIN toWrite}
    BY <1>1, <1>2, <1>3
  <2>4. TimersOnce'
    BY <2>1 DEF LoopInv, TimersOnce
  <2> QED  BY ONLY <2>1, <2>2, <2>3, <2>4 DEF NothingWrittenAfterClose
<1>7. StrangersUnknown' /\ HandedOverOnce' /\ UdpEventsWait'
  BY <1>3 DEF LoopInv, StrangersUnknown, HandedOverOnce, UdpEventsWait, loopState
<1> QED  BY <1>5, <1>6, <1>7 DEF LoopInv

LEMMA NextLoopInv == LoopInv /\ [Next]_vars => LoopInv'
<1> SUFFICES ASSUME LoopInv, [Next]_vars PROVE LoopInv'
  OBVIOUS
<1>1. CASE UNCHANGED vars
  <2>1. TypeOK'
    BY <1>1 DEF LoopInv, TypeOK, vars, network, loopState
  <2>2. (TimersOnce /\ NothingWrittenAfterClose /\ StrangersUnknown /\ HandedOverOnce /\ UdpEventsWait)'
    BY <1>1 DEF LoopInv, TimersOnce, NothingWrittenAfterClose, StrangersUnknown, HandedOverOnce,
                UdpEventsWait, vars, network, loopState
  <2> QED  BY <2>1, <2>2 DEF LoopInv
<1>2. CASE ClientStep
  BY <1>2, ClientLoopInv DEF ClientStep
<1>3. CASE LoopStep
  BY <1>3, WaitLoopInv, PushLoopInv, WriteLoopInv, RequestLoopInv, CloseLoopInv, DatagramLoopInv
     DEF LoopStep
<1> QED  BY <1>1, <1>2, <1>3 DEF Next

-----------------------------------------------------------------------------
(***************************************************************************)
(* StreamInv: the bytes between a client and the handlers.                 *)
(***************************************************************************)
\* One more byte at the end of a concatenation.
LEMMA AppendToSecond ==
  ASSUME NEW S, NEW a \in Seq(S), NEW b \in Seq(S), NEW e \in S
  PROVE  a \o Append(b, e) = Append(a \o b, e)
  OBVIOUS

\* One more byte at the end of a run of bytes.
LEMMA RunGrows ==
  ASSUME NEW d \in Nat, NEW m \in Nat
  PROVE  Append(After(d, m), d + m + 1) = After(d, m + 1)
  BY DEF After

LEMMA InitStreamInv == Init => StreamInv
<1> SUFFICES ASSUME Init PROVE StreamInv
  OBVIOUS
<1>1. FlattenSeq(<<>>) = <<>>
  BY FlattenAppend
<1>2. BytesInOrder
  <2> SUFFICES ASSUME NEW c \in Clients
               PROVE  FlattenSeq(handled[c]) \o recvBuffer[c] \o inbox[c] = Bytes(sent[c])
    BY DEF BytesInOrder
  <2>1. handled[c] = <<>> /\ recvBuffer[c] = <<>> /\ inbox[c] = <<>> /\ sent[c] = 0
    BY DEF Init
  <2>2. Bytes(0) = <<>>
    BY DEF Bytes
  <2> QED  BY <1>1, <2>1, <2>2
<1>3. RequestsWhole
  <2> SUFFICES ASSUME NEW c \in Clients
               PROVE  LET done == Ends(Len(handled[c])) IN
                      /\ \A i \in 1..Len(handled[c]) : handled[c][i] = Request(i)
                      /\ done <= sent[c]
                      /\ recvBuffer[c] \o inbox[c] = After(done, sent[c] - done)
    BY DEF RequestsWhole
  <2>1. handled[c] = <<>> /\ recvBuffer[c] = <<>> /\ inbox[c] = <<>> /\ sent[c] = 0
    BY DEF Init
  <2>2. Len(handled[c]) = 0 /\ Ends(Len(handled[c])) = 0
    BY <2>1, Lengths DEF Ends
  <2>3. After(0, 0) = <<>>
    BY DEF After
  <2> QED  BY <2>1, <2>2, <2>3
<1> QED  BY <1>2, <1>3 DEF StreamInv

\* Steps that neither bring bytes nor receive any.
LEMMA StreamKept ==
  ASSUME StreamInv, UNCHANGED <<sent, inbox, recvBuffer, handled>>
  PROVE  StreamInv'
  BY DEF StreamInv, BytesInOrder, RequestsWhole

\* What StreamInv says of one client, for the steps that move its bytes.
ClientStream(c) ==
  LET done == Ends(Len(handled[c])) IN
  /\ FlattenSeq(handled[c]) \o recvBuffer[c] \o inbox[c] = Bytes(sent[c])
  /\ \A i \in 1..Len(handled[c]) : handled[c][i] = Request(i)
  /\ done <= sent[c]
  /\ recvBuffer[c] \o inbox[c] = After(done, sent[c] - done)

LEMMA StreamOfEach == /\ StreamInv <=> \A c \in Clients : ClientStream(c)
                      /\ StreamInv' <=> \A c \in Clients : ClientStream(c)'
  BY DEF StreamInv, BytesInOrder, RequestsWhole, ClientStream

LEMMA StreamTypes ==
  ASSUME LoopInv, NEW c \in Clients
  PROVE  /\ inbox[c] \in Seq(Byte) /\ recvBuffer[c] \in Seq(Byte)
         /\ handled[c] \in Seq(Seq(Byte)) /\ FlattenSeq(handled[c]) \in Seq(Byte)
         /\ sent[c] \in Nat /\ Len(handled[c]) \in Nat
         /\ Ends(Len(handled[c])) \in Nat
<1>1. /\ inbox[c] \in Seq(Byte) /\ recvBuffer[c] \in Seq(Byte)
      /\ handled[c] \in Seq(Seq(Byte)) /\ sent[c] \in Nat
  BY Lengths DEF LoopInv, TypeOK, Byte
<1>2. FlattenSeq(handled[c]) \in Seq(Byte)
  BY <1>1, FlattenAppend
<1>3. Len(handled[c]) \in Nat /\ RequestLength \in Nat
  BY <1>1, Lengths
<1>4. Ends(Len(handled[c])) \in Nat
  BY ONLY <1>3 DEF Ends
<1> QED  BY <1>1, <1>2, <1>3, <1>4

LEMMA SendStreamInv ==
  ASSUME LoopInv, StreamInv, NEW c \in Clients, Send(c)
  PROVE  StreamInv'
<1> DEFINE n == sent[c]
           r == recvBuffer[c]
           in == inbox[c]
           f == FlattenSeq(handled[c])
           done == Ends(Len(handled[c]))
<1>1. /\ r \in Seq(Byte) /\ in \in Seq(Byte) /\ f \in Seq(Byte) /\ n \in Nat /\ done \in Nat
  BY StreamTypes
<1>2. /\ sent' = [sent EXCEPT ![c] = n + 1] /\ inbox' = [inbox EXCEPT ![c] = Append(in, n + 1)]
      /\ n + 1 \in Byte
      /\ UNCHANGED <<recvBuffer, handled>>
  <2>1. sent \in [Clients -> 0..MaxRequests * RequestLength]
    BY DEF LoopInv, TypeOK
  <2> QED  BY <2>1, Lengths DEF Send, loopState, Byte
<1>3. /\ f \o r \o in = Bytes(n) /\ done <= n
      /\ r \o in = After(done, n - done)
      /\ \A i \in 1..Len(handled[c]) : handled[c][i] = Request(i)
  BY StreamOfEach DEF ClientStream
<1>4. /\ sent'[c] = n + 1 /\ inbox'[c] = Append(in, n + 1)
      /\ \A d \in Clients : d # c => sent'[d] = sent[d] /\ inbox'[d] = inbox[d]
  BY <1>2 DEF LoopInv, TypeOK
<1> HIDE DEF n, r, in, f, done
<1>5. f \o r \o Append(in, n + 1) = Bytes(n + 1)
  <2>1. f \o r \in Seq(Byte)
    BY ONLY <1>1, ConcatProperties
  <2>2. f \o r \o Append(in, n + 1) = Append(f \o r \o in, n + 1)
    BY ONLY <1>1, <1>2, <2>1, AppendToSecond
  <2>3. Append(Bytes(n), n + 1) = Bytes(n + 1)
    BY ONLY <1>1 DEF Bytes
  <2> QED  BY ONLY <1>3, <2>2, <2>3
<1>6. r \o Append(in, n + 1) = After(done, (n + 1) - done)
  <2>1. r \o Append(in, n + 1) = Append(r \o in, n + 1)
    BY ONLY <1>1, <1>2, AppendToSecond
  <2>2. Append(After(done, n - done), done + (n - done) + 1)
          = After(done, (n - done) + 1)
    BY <1>1, <1>3, n - done \in Nat, RunGrows
  <2>3. done + (n - done) + 1 = n + 1 /\ (n - done) + 1 = (n + 1) - done
    BY <1>1
  <2> QED  BY <1>3, <2>1, <2>2, <2>3
<1>7. ClientStream(c)'
  <2>1. handled'[c] = handled[c] /\ recvBuffer'[c] = r
    BY <1>2 DEF r
  <2>2. FlattenSeq(handled'[c]) \o recvBuffer'[c] \o inbox'[c] = Bytes(sent'[c])
    BY <1>4, <1>5, <2>1 DEF f
  <2>3. recvBuffer'[c] \o inbox'[c] = After(done, sent'[c] - done)
    BY <1>4, <1>6, <2>1
  <2>4. done <= sent'[c]
    BY <1>1, <1>3, <1>4
  <2> QED  BY <1>3, <2>1, <2>2, <2>3, <2>4 DEF ClientStream, done
<1>8. \A d \in Clients : d # c => ClientStream(d)'
  <2>1. \A d \in Clients : ClientStream(d)
    BY StreamOfEach
  <2> QED  BY <1>2, <1>4, <2>1 DEF ClientStream
<1> QED  BY <1>7, <1>8, StreamOfEach

\* What serving a message does to the bytes of its connection: nothing if
\* recv fails, or it takes out the request and leaves the rest.
LEMMA RequestTaken ==
  ASSUME LoopInv, NEW c \in Clients, HandleRequest(c)
  PROVE  LET got == ReciveRtspRequest(recvBuffer[c], inbox[c]) IN
         /\ sent' = sent
         /\ \/ UNCHANGED <<inbox, recvBuffer, handled>>
            \/ /\ inbox' = [inbox EXCEPT ![c] = Left(inbox[c])]
               /\ recvBuffer' = [recvBuffer EXCEPT ![c] = got.buffer]
               /\ handled' = IF got.request = <<>> THEN handled
                             ELSE [handled EXCEPT ![c] = Append(handled[c], got.request)]
<1> DEFINE got == ReciveRtspRequest(recvBuffer[c], inbox[c])
<1> HIDE DEF got
<1>1. CASE inbox[c] = <<>>
  BY <1>1 DEF HandleRequest
<1>2. CASE inbox[c] # <<>>
  BY <1>2 DEF HandleRequest, got
<1> QED  BY <1>1, <1>2 DEF got

LEMMA RequestStreamInv ==
  ASSUME LoopInv, StreamInv, NEW c \in Clients, HandleRequest(c)
  PROVE  StreamInv'
<1> DEFINE got == ReciveRtspRequest(recvBuffer[c], inbox[c])
           req == got.request
           buf == got.buffer
           l == Left(inbox[c])
           r == recvBuffer[c]
           in == inbox[c]
           f == FlattenSeq(handled[c])
           q == Len(handled[c])
           done == Ends(q)
           n == sent[c]
<1>1. /\ r \in Seq(Byte) /\ in \in Seq(Byte) /\ f \in Seq(Byte) /\ handled[c] \in Seq(Seq(Byte))
      /\ n \in Nat /\ q \in Nat /\ done \in Nat
  BY StreamTypes
<1>2. l \in Seq(Byte)
  BY <1>1, RecvSplits
<1>3. req \in Seq(Byte) /\ buf \in Seq(Byte) /\ req \o (buf \o l) = r \o in
  <2>1. recvBuffer[c] \in Seq(Byte) /\ inbox[c] \in Seq(Byte)
    BY <1>1
  <2> HIDE DEF got
  <2> QED  BY ONLY <2>1, ReciveSplits DEF got, req, buf, l, r, in
<1>4. /\ f \o r \o in = Bytes(n) /\ done <= n
      /\ r \o in = After(done, n - done)
      /\ \A i \in 1..q : handled[c][i] = Request(i)
  BY StreamOfEach DEF ClientStream
<1>5. CASE UNCHANGED <<inbox, recvBuffer, handled>>
  BY <1>5, RequestTaken, StreamKept
<1>6. CASE /\ inbox' = [inbox EXCEPT ![c] = l]
           /\ recvBuffer' = [recvBuffer EXCEPT ![c] = buf]
           /\ handled' = IF req = <<>> THEN handled
                         ELSE [handled EXCEPT ![c] = Append(handled[c], req)]
  <2>1. sent' = sent
    BY RequestTaken
  <2>2. /\ inbox \in [Clients -> Seq(Byte)] /\ recvBuffer \in [Clients -> Seq(Byte)]
        /\ handled \in [Clients -> Seq(Seq(Byte))]
    BY DEF LoopInv, TypeOK, Byte
  <2>m. req # <<>> => /\ RequestLength <= n - done
                      /\ req = After(done, RequestLength)
                      /\ buf \o l = After(Ends(q + 1), (n - done) - RequestLength)
    <3>1. n - done \in Nat
      BY <1>1, <1>4
    <3>2. /\ recvBuffer[c] \in Seq(Byte) /\ inbox[c] \in Seq(Byte) /\ q \in Nat
          /\ recvBuffer[c] \o inbox[c] = After(Ends(q), n - done)
      BY <1>1, <1>4
    <3> DEFINE m == n - done
    <3>3. m \in Nat /\ recvBuffer[c] \o inbox[c] = After(Ends(q), m)
      BY <3>1, <3>2
    <3>4. recvBuffer[c] \in Seq(Byte) /\ inbox[c] \in Seq(Byte) /\ q \in Nat
      BY <3>2
    <3>5. Waits(recvBuffer[c], inbox[c], q, m)
      BY ONLY <3>3 DEF Waits
    <3> HIDE DEF m
    <3>6. CutsNext(got, inbox[c], q, m)
      <4> DEFINE B == recvBuffer[c]
                 I == inbox[c]
      <4>1. B \in Seq(Byte) /\ I \in Seq(Byte) /\ q \in Nat /\ m \in Nat
        BY ONLY <3>3, <3>4
      <4>2. Waits(B, I, q, m)
        BY ONLY <3>5
      <4> HIDE DEF B, I, got, q, m
      <4>3. CutsNext(ReciveRtspRequest(B, I), I, q, m)
        BY ONLY <4>1, <4>2, WaitingIsCut, Zenon
      <4> QED  BY ONLY <4>3 DEF got, B, I
    <3>7. got.request # <<>> =>
            /\ RequestLength <= m
            /\ got.request = After(Ends(q), RequestLength)
            /\ got.buffer \o Left(inbox[c]) = After(Ends(q + 1), m - RequestLength)
      BY ONLY <3>6 DEF CutsNext
    <3> QED  BY ONLY <3>7 DEF req, buf, l, m, done
  <2> HIDE DEF got, req, buf, l, r, in, f, q, done, n
  <2>3. /\ inbox'[c] = l /\ recvBuffer'[c] = buf
        /\ handled'[c] = IF req = <<>> THEN handled[c] ELSE Append(handled[c], req)
        /\ \A d \in Clients : d # c => /\ inbox'[d] = inbox[d] /\ recvBuffer'[d] = recvBuffer[d]
                                       /\ handled'[d] = handled[d]
    BY <1>6, <2>2
  <2>4. FlattenSeq(handled'[c]) = f \o req
    <3>1. CASE req = <<>>
      <4>1. f \o <<>> = f
        BY <1>1, ConcatEmptySeq
      <4> QED  BY <2>3, <3>1, <4>1 DEF f
    <3>2. CASE req # <<>>
      BY <1>1, <1>3, <2>3, <3>2, FlattenAppend DEF f
    <3> QED  BY <3>1, <3>2
  <2>5. f \o req \o buf \o l = Bytes(n)
    <3>0. f \in Seq(Byte) /\ req \in Seq(Byte) /\ buf \in Seq(Byte) /\ l \in Seq(Byte)
      BY <1>1, <1>2, <1>3
    <3>1. f \o req \o buf \o l = f \o (req \o (buf \o l))
      BY ONLY <3>0
    <3>2. f \o r \o in = f \o (r \o in)
      BY ONLY <1>1
    <3> QED  BY ONLY <1>3, <1>4, <3>1, <3>2, Zenon
  <2>6. ASSUME req = <<>> PROVE ClientStream(c)'
    <3>1. buf \o l = r \o in
      <4>1. <<>> \o (buf \o l) = buf \o l
        BY <1>2, <1>3, ConcatEmptySeq, ConcatProperties
      <4> QED  BY <1>3, <2>6, <4>1
    <3>2. handled'[c] = handled[c]
      BY <2>3, <2>6
    <3>3. FlattenSeq(handled'[c]) \o recvBuffer'[c] \o inbox'[c] = Bytes(sent'[c])
      BY <2>1, <2>3, <2>4, <2>5 DEF n
    <3>4. recvBuffer'[c] \o inbox'[c] = After(done, n - done)
      BY <1>4, <2>3, <3>1
    <3> QED  BY <1>4, <2>1, <3>2, <3>3, <3>4 DEF ClientStream, q, done, n
  <2>7. ASSUME req # <<>> PROVE ClientStream(c)'
    <3> DEFINE done1 == Ends(q + 1)
    <3>0. RequestLength \in Nat
      BY Lengths
    <3>1. done1 = done + RequestLength
      BY ONLY <1>1, <3>0 DEF done, Ends
    <3>2. handled'[c] = Append(handled[c], req) /\ Len(handled'[c]) = q + 1
      BY <1>1, <2>3, <2>7, AppendProperties DEF q
    <3>3. \A i \in 1..q + 1 : handled'[c][i] = Request(i)
      <4>1. req = Request(q + 1)
        <5>1. (q + 1) - 1 = q
          BY <1>1
        <5> QED  BY <2>m, <2>7, <5>1 DEF Request, done
      <4>2. /\ handled'[c][q + 1] = req
            /\ \A i \in 1..q : handled'[c][i] = handled[c][i]
        BY <1>1, <1>3, <3>2, AppendProperties DEF q
      <4>3. \A i \in 1..q + 1 : i \in 1..q \/ i = q + 1
        BY <1>1
      <4> QED  BY <1>4, <4>1, <4>2, <4>3
    <3>4. done1 <= n
      BY <1>1, <2>m, <2>7, <3>0, <3>1
    <3>5. buf \o l = After(done1, n - done1)
      <4>1. (n - done) - RequestLength = n - done1
        BY <1>1, <3>0, <3>1
      <4> QED  BY <2>m, <2>7, <4>1
    <3>6. FlattenSeq(handled'[c]) \o recvBuffer'[c] \o inbox'[c] = Bytes(sent'[c])
      BY <2>1, <2>3, <2>4, <2>5 DEF n
    <3> QED  BY <2>1, <2>3, <3>2, <3>3, <3>4, <3>5, <3>6 DEF ClientStream, n
  <2>8. ClientStream(c)'
    BY <2>6, <2>7
  <2>9. \A d \in Clients : d # c => ClientStream(d)'
    <3>1. \A d \in Clients : ClientStream(d)
      BY StreamOfEach
    <3> QED  BY <2>1, <2>3, <3>1 DEF ClientStream
  <2> QED  BY <2>8, <2>9, StreamOfEach
<1> QED  BY <1>5, <1>6, RequestTaken

LEMMA NextStreamInv == LoopInv /\ StreamInv /\ [Next]_vars => StreamInv'
<1> SUFFICES ASSUME LoopInv, StreamInv, [Next]_vars PROVE StreamInv'
  OBVIOUS
<1>1. CASE \E c \in Clients : Send(c)
  BY <1>1, SendStreamInv
<1>2. CASE \E c \in Clients : HandleRequest(c)
  BY <1>2, RequestStreamInv
<1>3. CASE \/ WaitEpollFd \/ AddConnections \/ PushFrames \/ Write \/ UNCHANGED vars
           \/ \E c \in Clients : \/ HandleClose(c) \/ HandleRtcp(c) \/ ConnectionNotFound(c)
                                 \/ Connect(c) \/ Read(c) \/ Close(c) \/ Abort(c) \/ SendRtcp(c)
  <2>1. UNCHANGED <<sent, inbox, recvBuffer, handled>>
    BY <1>3 DEF WaitEpollFd, AddConnections, PushFrames, Write, HandleClose, HandleRtcp,
                ConnectionNotFound, Connect, Read, Close, Abort, SendRtcp, vars, network, loopState
  <2> QED  BY <2>1, StreamKept
<1> QED  BY <1>1, <1>2, <1>3 DEF Next, LoopStep, ClientStep

LEMMA Inductive == Spec => []IInv
<1>1. Init => IInv
  BY InitLoopInv, InitStreamInv DEF IInv
<1>2. IInv /\ [Next]_vars => IInv'
  BY NextLoopInv, NextStreamInv DEF IInv
<1> QED  BY <1>1, <1>2, PTL DEF Spec

-----------------------------------------------------------------------------
(***************************************************************************)
(* The theorems.                                                           *)
(***************************************************************************)
\* The state of the loop and of its connections has its types: above all no
\* socket holds more messages than its space, and no RTCP event finds its
\* socket empty.
THEOREM TypeCorrect == Spec => []TypeOK
BY Inductive, PTL DEF IInv, LoopInv

\* However many clients there are, however their bytes are cut up, and
\* whatever the loop is waiting for, no byte is lost, repeated or reordered
\* between a client and the handlers.
THEOREM BytesArriveInOrder == Spec => []BytesInOrder
BY Inductive, PTL DEF IInv, StreamInv

\* A connection that has been removed is not written to, neither by the timer
\* of its pusher nor with a response.
THEOREM NothingWrittenToTheGone == Spec => []NothingWrittenAfterClose
BY Inductive, PTL DEF IInv, LoopInv

\* What is handed on as a request is one, the next of its client.
THEOREM RequestsAreWhole == Spec => []RequestsWhole
BY Inductive, PTL DEF IInv, StreamInv

\* The number of a request is found from its bytes.
LEMMA NumberOfRequest ==
  ASSUME NEW r \in Nat \ {0}
  PROVE  RequestNumber(Request(r)) = r
<1> DEFINE b == RequestLength
<1>0. b \in Nat \ {0} /\ r - 1 \in Nat
  BY Lengths
<1> HIDE DEF b
<1>1. (r - 1) * b + b = r * b /\ r * b \in Nat /\ (r - 1) * b \in Nat
  BY ONLY <1>0, r \in Nat \ {0}
<1>2. Len(Request(r)) = b /\ Request(r)[b] = r * b
  BY <1>0, <1>1 DEF Request, After, Ends, b
<1>3. (r * b + 0) \div b = r
  BY <1>0, 0 \in 0..b - 1, r \in Nat, Division
<1>4. (r * b) \div b = r
  BY <1>1, <1>3
<1>5. Request(r) = [i \in 1..b |-> (r - 1) * b + i]
  BY DEF Request, After, Ends, b
<1>6. Request(r)[Len(Request(r))] \div b = r
  BY <1>2, <1>4
<1> HIDE DEF Request
<1> QED  BY <1>5, <1>6 DEF RequestNumber, b

\* How many requests have been sent in full.
LEMMA SentRequests ==
  ASSUME NEW n \in Nat
  PROVE  /\ (n + 1) \div RequestLength \in {n \div RequestLength, n \div RequestLength + 1}
         /\ \A q \in Nat : Ends(q) <= n => q <= n \div RequestLength
<1> DEFINE b == RequestLength
           k == n \div b
           r == n % b
<1>0. b \in Nat \ {0}
  BY Lengths
<1> HIDE DEF b
<1>1. k \in Nat /\ r \in 0..b - 1 /\ n = k * b + r
  BY ONLY <1>0, n \in Nat
<1> HIDE DEF k, r
<1>2. (k + 1) * b = k * b + b /\ k * b \in Nat
  BY ONLY <1>0, <1>1
<1>3. (n + 1) \div b \in {k, k + 1}
  <2>1. CASE r + 1 \in 0..b - 1
    <3>1. (k * b + (r + 1)) \div b = k
      BY <1>0, <1>1, <2>1, Division
    <3>2. k * b + (r + 1) = n + 1
      BY <1>1, <1>2
    <3> QED  BY <3>1, <3>2
  <2>2. CASE r + 1 = b
    <3>1. ((k + 1) * b + 0) \div b = k + 1
      BY <1>0, <1>1, k + 1 \in Nat, 0 \in 0..b - 1, Division
    <3>2. (k + 1) * b + 0 = n + 1
      BY <1>1, <1>2, <2>2
    <3> QED  BY <3>1, <3>2
  <2> QED  BY <1>0, <1>1, <2>1, <2>2
<1>4. ASSUME NEW q \in Nat, q * b <= n
      PROVE  q <= k
  <2> DEFINE x == n - q * b
             p == x \div b
             s == x % b
  <2>1. q * b \in Nat
    BY ONLY <1>0, q \in Nat
  <2>2. x \in Nat
    BY <1>4, <2>1
  <2>3. n = q * b + x
    BY <2>1
  <2> HIDE DEF x
  <2>4. p \in Nat /\ s \in 0..b - 1 /\ x = p * b + s
    BY ONLY <1>0, <2>2
  <2> HIDE DEF p, s
  <2>5. q * b + (p * b + s) = (q + p) * b + s
    BY ONLY <1>0, <2>4, q \in Nat
  <2>6. n = (q + p) * b + s
    BY ONLY <2>3, <2>4, <2>5
  <2>7. ((q + p) * b + s) \div b = q + p
    BY <1>0, <2>4, q + p \in Nat, Division
  <2>8. k = q + p
    BY <2>6, <2>7 DEF k
  <2> QED  BY <2>4, <2>8
<1> QED  BY <1>3, <1>4 DEF k, b, Ends

\* What has been served are the numbers of the first requests.
Served == [c \in Clients |-> [i \in DOMAIN handled[c] |-> RequestNumber(handled[c][i])]]
Counted == [c \in Clients |-> [i \in 1..Len(handled[c]) |-> i]]
SentInFull == [c \in Clients |-> sent[c] \div RequestLength]

LEMMA ServedInOrder == IInv => Served = Counted
<1> SUFFICES ASSUME IInv, NEW c \in Clients
             PROVE  [i \in DOMAIN handled[c] |-> RequestNumber(handled[c][i])]
                      = [i \in 1..Len(handled[c]) |-> i]
  BY DEF Served, Counted
<1>1. DOMAIN handled[c] = 1..Len(handled[c])
  BY StreamTypes DEF IInv
<1>2. \A i \in 1..Len(handled[c]) : handled[c][i] = Request(i)
  BY StreamOfEach DEF IInv, ClientStream
<1>3. \A i \in 1..Len(handled[c]) : RequestNumber(handled[c][i]) = i
  BY <1>2, NumberOfRequest
<1> QED  BY <1>1, <1>3

\* Every behaviour of the loop, of its epoll set, its receive buffers and its
\* batches is one of the abstract stream of requests: a byte that completes a
\* request is its arrival, and a message that a request is cut out of serves
\* it.
THEOREM RefinesRequestStream == Spec => ImplementsRequestStream
<1>1. Init => Stream!Init
  <2> SUFFICES ASSUME Init PROVE Stream!Init
    OBVIOUS
  <2>1. 0 \div RequestLength = 0
    <3>1. (0 * RequestLength + 0) \div RequestLength = 0
      BY Lengths, 0 \in 0..RequestLength - 1, Division
    <3> QED  BY <3>1, Lengths
  <2>2. \A c \in Clients : sent[c] = 0 /\ handled[c] = <<>>
    BY DEF Init
  <2> QED  BY <2>1, <2>2 DEF Stream!Init
<1>2. IInv /\ IInv' /\ [Next]_vars => [Stream!Next]_(Stream!streamVars)
  <2> SUFFICES ASSUME IInv, IInv', [Next]_vars
               PROVE  [Stream!Next]_(Stream!streamVars)
    OBVIOUS
  <2>1. Served = Counted /\ Served' = Counted'
    <3>1. (IInv => Served = Counted)'
      BY ServedInOrder, PTL
    <3> QED  BY <3>1, ServedInOrder
  <2> SUFFICES \/ UNCHANGED <<SentInFull, Served>>
               \/ \E c \in Clients :
                    \/ /\ SentInFull' = [SentInFull EXCEPT ![c] = SentInFull[c] + 1]
                       /\ UNCHANGED Served
                    \/ /\ Len(Served[c]) < SentInFull[c]
                       /\ Served' = [Served EXCEPT ![c] = Append(Served[c], Len(Served[c]) + 1)]
                       /\ UNCHANGED SentInFull
    BY DEF Stream!Next, Stream!Arrive, Stream!Serve, Stream!streamVars, SentInFull, Served
  <2>2. ASSUME NEW c \in Clients, Send(c)
        PROVE  \/ UNCHANGED <<SentInFull, Served>>
               \/ /\ SentInFull' = [SentInFull EXCEPT ![c] = SentInFull[c] + 1]
                  /\ UNCHANGED Served
    <3>1. UNCHANGED Served
      BY <2>2 DEF Send, loopState, Served
    <3>2. sent' = [sent EXCEPT ![c] = sent[c] + 1] /\ DOMAIN sent = Clients
      BY <2>2 DEF Send, IInv, LoopInv, TypeOK
    <3>3. sent[c] \in Nat
      BY StreamTypes DEF IInv
    <3>4. sent'[c] \div RequestLength \in {sent[c] \div RequestLength, sent[c] \div RequestLength + 1}
      BY <3>2, <3>3, SentRequests
    <3> QED  BY <3>1, <3>2, <3>4 DEF SentInFull
  <2>3. ASSUME NEW c \in Clients, HandleRequest(c)
        PROVE  \/ UNCHANGED <<SentInFull, Served>>
               \/ /\ Len(Served[c]) < SentInFull[c]
                  /\ Served' = [Served EXCEPT ![c] = Append(Served[c], Len(Served[c]) + 1)]
                  /\ UNCHANGED SentInFull
    <3> DEFINE req == ReciveRtspRequest(recvBuffer[c], inbox[c]).request
               q == Len(handled[c])
    <3>1. sent' = sent /\ (handled' = handled \/ handled' = [handled EXCEPT ![c] = Append(handled[c], req)])
      BY <2>3, RequestTaken DEF IInv
    <3>2. UNCHANGED SentInFull
      BY <3>1 DEF SentInFull
    <3>3. CASE handled' = handled
      BY <3>2, <3>3 DEF Served
    <3>4. CASE handled' = [handled EXCEPT ![c] = Append(handled[c], req)]
      <4> HIDE DEF req
      <4>1. handled \in [Clients -> Seq(Seq(Byte))] /\ q \in Nat
        BY StreamTypes DEF IInv, LoopInv, TypeOK, Byte
      <4>2. /\ handled'[c] = Append(handled[c], req) /\ Len(handled'[c]) = q + 1
            /\ \A d \in Clients : d # c => handled'[d] = handled[d]
        BY <3>4, <4>1
      <4>3. q < SentInFull[c]
        <5>1. Ends(q + 1) <= sent[c]
          <6>1. ClientStream(c)'
            BY StreamOfEach DEF IInv
          <6> QED  BY <3>1, <4>2, <6>1 DEF ClientStream
        <5>2. sent[c] \in Nat /\ q + 1 \in Nat
          BY StreamTypes DEF IInv
        <5>3. q + 1 <= sent[c] \div RequestLength
          BY <5>1, <5>2, SentRequests
        <5>4. sent[c] \div RequestLength \in Int
          BY <5>2, Lengths
        <5> QED  BY <4>1, <5>3, <5>4 DEF SentInFull
      <4>4. Counted[c] = [i \in 1..q |-> i] /\ Counted'[c] = [i \in 1..q + 1 |-> i]
        BY <4>2 DEF Counted
      <4>5. Len(Counted[c]) = q /\ Counted'[c] = Append(Counted[c], q + 1)
        <5> HIDE DEF q
        <5> QED  BY <4>1, <4>4
      <4>6. \A d \in Clients : d # c => Counted'[d] = Counted[d]
        BY <4>2 DEF Counted
      <4>7. Counted' = [Counted EXCEPT ![c] = Append(Counted[c], q + 1)]
        BY <4>5, <4>6 DEF Counted
      <4> QED  BY <2>1, <3>2, <4>3, <4>5, <4>7
    <3> QED  BY <3>1, <3>3, <3>4
  <2>4. CASE \/ WaitEpollFd \/ AddConnections \/ PushFrames \/ Write \/ UNCHANGED vars
             \/ \E c \in Clients : \/ HandleClose(c) \/ HandleRtcp(c) \/ ConnectionNotFound(c)
                                   \/ Connect(c) \/ Read(c) \/ Close(c) \/ Abort(c) \/ SendRtcp(c)
    <3>1. UNCHANGED <<sent, handled>>
      BY <2>4 DEF WaitEpollFd, AddConnections, PushFrames, Write, HandleClose, HandleRtcp,
                  ConnectionNotFound, Connect, Read, Close, Abort, SendRtcp, vars, network, loopState
    <3> QED  BY <3>1 DEF SentInFull, Served
  <2> QED  BY <2>2, <2>3, <2>4 DEF Next, LoopStep, ClientStep
<1> QED  BY <1>1, <1>2, Inductive, PTL DEF Spec, ImplementsRequestStream, Stream!Spec
=============================================================================
