-------------------------- MODULE RtpStreamProofs --------------------------
(***************************************************************************)
(* Proofs about what the timer callback of an RtpPusher reads and sends.   *)
(* IInv types the packets and keeps the streams in step with their clocks  *)
(* and the audio with its file: no video packet is longer than the MTU,    *)
(* neither stream drifts, the audio packets carry whole frames in order.   *)
(* SentInv, on top of it, says what has been read of the H.264 file and    *)
(* what a receiver has put together: the NAL units of the file are read,   *)
(* and a receiver gets them.  Received and Expected are recursive          *)
(* functions; each is unfolded one element at a time.                      *)
(***************************************************************************)
EXTENDS RtpStream, SequenceLemmas, FiniteSetTheorems

\* The payloads of the three kinds, and those that fit into a packet.
Payload == [kind : {"nalu"}, nalu : Seq(Nat)]
           \cup [kind : {"fu"}, start : BOOLEAN, end : BOOLEAN, header : Nat, data : Seq(Nat)]
           \cup [kind : {"stap"}, nalus : Seq(Seq(Nat))]
Fitting == {p \in Payload : PacketSize([payload |-> p]) <= Mtu}
VideoPacket == [seq : 0..SeqLimit - 1, ts : Nat, marker : BOOLEAN, payload : Fitting]

VideoTyped ==
  /\ h264Pos \in 1..Len(h264) + 1
  /\ sps \in Seq(Nat) /\ pps \in Seq(Nat) /\ taken \in Seq(Seq(Nat))
  /\ seqVideo \in 0..SeqLimit - 1
  /\ tsVideo \in Nat /\ tsVideo % VideoTicks = 0
  /\ dueVideo \in Int
  /\ video \in Seq(VideoPacket)

AudioTyped ==
  /\ aacPos \in 1..Len(aac) + 1
  /\ dueAudio \in Int
  /\ audio \in Seq([seq : 0..SeqLimit - 1, ts : Nat, marker : BOOLEAN, payload : AdtsFrame])
  /\ heard \in Seq(AdtsFrame)

\* The counters of the audio stream follow the packets sent.
AudioInStep ==
  /\ seqAudio = Len(audio) % SeqLimit
  /\ tsAudio = Len(audio) * AudioTicks
  /\ \A i \in 1..Len(audio) : audio[i].seq = (i - 1) % SeqLimit /\ audio[i].ts = (i - 1) * AudioTicks

\* The packets of the latest pusher carry the last frames read.
AudioIsHeard ==
  /\ Len(audio) <= Len(heard)
  /\ \A i \in 1..Len(audio) : audio[i].payload = heard[Len(heard) - Len(audio) + i]

\* The frames read lie in the file one behind the other but for bad headers, and
\* so does the reader, unless it is at the end.
HeardInFile ==
  /\ \A i \in 1..Len(heard) : Intact(aac, heard[i]) /\ BadHeaders(aac, Behind(heard, i - 1), heard[i].at)
  /\ aacPos > Len(aac) \/ BadHeaders(aac, Behind(heard, Len(heard)), aacPos)

\* A stream of which n frames have been sent, clock after PLAY.
OnTime(n, interval, due, time) == time + due = n * interval /\ (n - 1) * interval <= time

IInv ==
  /\ useUdp \in BOOLEAN /\ h264 \in H264Files /\ aac \in AacFiles
  /\ plays \in 0..MaxPlays /\ running \in BOOLEAN
  /\ firstTaken \in 0..Len(taken) /\ clock \in Nat
  /\ VideoTyped /\ AudioTyped /\ AudioInStep /\ AudioIsHeard /\ HeardInFile
  /\ OnTime(tsVideo \div VideoTicks, VideoInterval, dueVideo, clock)
  /\ OnTime(Len(audio), AudioInterval, dueAudio, clock)

-----------------------------------------------------------------------------
(***************************************************************************)
(* The packets.                                                            *)
(***************************************************************************)
LEMMA Numbers == /\ Mtu \in Nat /\ Mtu > 14 /\ SeqLimit \in Nat \ {0}
                 /\ VideoInterval \in Nat \ {0} /\ AudioInterval \in Nat \ {0}
                 /\ MaxPlays \in Nat /\ Gaps \subseteq Nat \ {0}
                 /\ \A file \in H264Files : file \in Seq(Nat)
                 /\ \A file \in AacFiles : file \in Seq(Nat)
  BY RtpPacketsAssumption, RtpStreamAssumption

\* What n bytes make in pieces of at most b: all but the last are full.
LEMMA Pieces ==
  ASSUME NEW b \in Nat \ {0}, NEW n \in Nat, NEW i \in 1..n \div b + 1
  PROVE  /\ n \div b + 1 \in Nat \ {0}
         /\ (i - 1) * b \in Nat /\ i * b = (i - 1) * b + b
         /\ (i - 1) * b <= n
         /\ i # n \div b + 1 => i * b <= n
         /\ i = n \div b + 1 => n < i * b
<1> DEFINE q == n \div b
           r == n % b
<1>1. q \in Nat /\ r \in 0..b - 1 /\ n = q * b + r
  BY ONLY b \in Nat \ {0}, n \in Nat
<1> HIDE DEF r, q
<1>2. i - 1 \in Nat /\ q - (i - 1) \in Nat /\ i \in 1..q + 1
  BY <1>1 DEF q
<1>3. (i - 1) * b \in Nat /\ i * b = (i - 1) * b + b
  BY ONLY <1>2, b \in Nat \ {0}
<1>4. q * b = (i - 1) * b + (q - (i - 1)) * b /\ (q - (i - 1)) * b \in Nat
  BY ONLY <1>1, <1>2, b \in Nat \ {0}
<1>5. i # q + 1 => (q - (i - 1)) * b >= b
  <2> SUFFICES ASSUME i # q + 1 PROVE (q - (i - 1)) * b >= b
    OBVIOUS
  <2>1. q - i \in Nat
    BY <1>1, <1>2
  <2>2. (q - (i - 1)) * b = (q - i) * b + b /\ (q - i) * b \in Nat
    BY ONLY <1>1, <1>2, <2>1, b \in Nat \ {0}
  <2> QED  BY ONLY <2>2, b \in Nat \ {0}
<1>6. i = q + 1 => (q - (i - 1)) * b = 0
  <2> SUFFICES ASSUME i = q + 1 PROVE (q - (i - 1)) * b = 0
    OBVIOUS
  <2>1. q - (i - 1) = 0
    BY <1>1
  <2> QED  BY ONLY <2>1, b \in Nat \ {0}
<1> DEFINE x == (i - 1) * b
           y == (q - (i - 1)) * b
           z == q * b
           w == i * b
<1>7. /\ x \in Nat /\ w = x + b /\ z = x + y /\ y \in Nat /\ n = z + r
      /\ (i # q + 1 => y >= b) /\ (i = q + 1 => y = 0)
  BY <1>1, <1>3, <1>4, <1>5, <1>6
<1> HIDE DEF x, y, z, w
<1>8. /\ x <= n
      /\ i # q + 1 => w <= n
      /\ i = q + 1 => n < w
  BY ONLY <1>1, <1>7, b \in Nat \ {0}
<1> QED  BY <1>1, <1>3, <1>8 DEF x, w, q

LEMMA FragmentsFit ==
  ASSUME NEW nalu \in Seq(Nat), Len(nalu) + RtpHeader > Mtu
  PROVE  Fragments(nalu) \in Seq(Fitting)
<1> DEFINE most == Mtu - RtpHeader - FuHeader
           bytes == Len(nalu) - 2
           n == bytes \div most + 1
           fu(i) == [kind |-> "fu", start |-> i = 1, end |-> i = n, header |-> nalu[1],
                     data |-> SubSeq(nalu, 2 + (i - 1) * most,
                                     IF i = n THEN Len(nalu) ELSE 1 + i * most)]
<1>1. most \in Nat \ {0} /\ bytes \in Nat /\ Len(nalu) = bytes + 2
  BY Numbers DEF RtpHeader, FuHeader
<1>2. Fragments(nalu) = [i \in 1..n |-> fu(i)]
  BY DEF Fragments
<1> HIDE DEF most, bytes
<1>3. n \in Nat \ {0}
  <2>1. 1 \in 1..n
    BY <1>1
  <2> QED  BY ONLY <1>1, <2>1, Pieces
<1>4. ASSUME NEW i \in 1..n
      PROVE  fu(i) \in Fitting
  <2> DEFINE x == (i - 1) * most
             w == i * most
             last == IF i = n THEN Len(nalu) ELSE 1 + w
             data == SubSeq(nalu, 2 + x, last)
  <2>1. /\ x \in Nat /\ w = x + most /\ x <= bytes
        /\ i # n => w <= bytes
        /\ i = n => bytes < w
    BY ONLY <1>1, <1>4, Pieces
  <2>2. fu(i) = [kind |-> "fu", start |-> i = 1, end |-> i = n, header |-> nalu[1], data |-> data]
    OBVIOUS
  <2> HIDE DEF x, w, n, fu
  <2>3. 2 + x \in 1..Len(nalu) /\ last \in 0..Len(nalu) /\ last - (2 + x) + 1 \in 0..most
    BY ONLY <1>1, <2>1
  <2>4. data \in Seq(Nat) /\ Len(data) <= most /\ Len(data) \in Nat
    <3> HIDE DEF last
    <3>1. \A j \in 2 + x..last : nalu[j] \in Nat
      BY <2>3, ElementOfSeq
    <3> QED  BY <2>3, <3>1, SubSeqProperties
  <2> HIDE DEF data, last
  <2>5. nalu[1] \in Nat
    BY <1>1, ElementOfSeq
  <2>6. fu(i) \in Payload
    BY <2>2, <2>4, <2>5 DEF Payload
  <2>7. PacketSize([payload |-> fu(i)]) = RtpHeader + (FuHeader + Len(data))
    BY <2>2 DEF PacketSize
  <2>8. RtpHeader + (FuHeader + Len(data)) <= Mtu
    BY <2>4, Numbers DEF most, RtpHeader, FuHeader
  <2> QED  BY <2>6, <2>7, <2>8 DEF Fitting
<1> HIDE DEF n, fu
<1> QED  BY <1>2, <1>3, <1>4

LEMMA PayloadsFit ==
  ASSUME NEW nalu \in Seq(Nat)
  PROVE  Payloads(nalu) \in Seq(Fitting)
<1>1. CASE Len(nalu) + RtpHeader <= Mtu
  <2>1. Whole(nalu) \in Payload
    BY DEF Whole, Payload
  <2>2. PacketSize([payload |-> Whole(nalu)]) = RtpHeader + Len(nalu)
    BY DEF PacketSize, Whole
  <2>3. Whole(nalu) \in Fitting
    BY <1>1, <2>1, <2>2 DEF Fitting, RtpHeader
  <2> QED  BY <1>1, <2>3 DEF Payloads
<1>2. CASE ~(Len(nalu) + RtpHeader <= Mtu)
  <2>1. Len(nalu) + RtpHeader > Mtu
    BY <1>2, Numbers DEF RtpHeader
  <2> QED  BY <1>2, <2>1, FragmentsFit DEF Payloads
<1> QED  BY <1>1, <1>2

LEMMA FrameWithParameterSetsFits ==
  ASSUME NEW nalu \in Seq(Nat), NEW s \in Seq(Nat), NEW p \in Seq(Nat), NEW udp
  PROVE  FrameWithParameterSets(nalu, s, p, udp) \in Seq(Fitting)
<1> DEFINE nalus == Known(s) \o Known(p) \o <<nalu>>
           stap == [kind |-> "stap", nalus |-> nalus]
           each == [i \in DOMAIN nalus |-> Payloads(nalus[i])]
<1>1. nalus \in Seq(Seq(Nat))
  <2>1. Known(s) \in Seq(Seq(Nat)) /\ Known(p) \in Seq(Seq(Nat)) /\ <<nalu>> \in Seq(Seq(Nat))
    BY DEF Known
  <2> QED  BY <2>1, ConcatProperties
<1>2. FrameWithParameterSets(nalu, s, p, udp) =
        IF udp /\ Len(nalus) = 3 /\ RtpHeader + StapSize(nalus) <= Mtu THEN <<stap>> ELSE FlattenSeq(each)
  BY DEF FrameWithParameterSets
<1> HIDE DEF nalus
<1>3. CASE udp /\ Len(nalus) = 3 /\ RtpHeader + StapSize(nalus) <= Mtu
  <2>1. stap \in Payload
    BY <1>1 DEF Payload
  <2>2. PacketSize([payload |-> stap]) = RtpHeader + StapSize(nalus)
    BY DEF PacketSize
  <2>3. PacketSize([payload |-> stap]) <= Mtu
    BY <1>3, <2>2 DEF RtpHeader
  <2>4. stap \in Fitting
    BY <2>1, <2>3 DEF Fitting
  <2> QED  BY <1>2, <1>3, <2>4
<1>4. CASE ~(udp /\ Len(nalus) = 3 /\ RtpHeader + StapSize(nalus) <= Mtu)
  <2>1. each \in Seq(Seq(Fitting))
    <3>1. \A i \in 1..Len(nalus) : nalus[i] \in Seq(Nat)
      BY <1>1, ElementOfSeq
    <3>2. \A i \in 1..Len(nalus) : Payloads(nalus[i]) \in Seq(Fitting)
      BY <3>1, PayloadsFit
    <3>3. DOMAIN nalus = 1..Len(nalus) /\ Len(nalus) \in Nat
      BY <1>1
    <3> QED  BY <3>2, <3>3
  <2>2. FlattenSeq(each) \in Seq(Fitting)
    <3> HIDE DEF each
    <3>1. <<>> \in Seq(Fitting)
      OBVIOUS
    <3> QED  BY <2>1, <3>1, FlattenAppend
  <2> QED  BY <1>2, <1>4, <2>2
<1> QED  BY <1>3, <1>4

LEMMA NextSeqWraps ==
  ASSUME NEW seq \in Nat, NEW n \in Nat
  PROVE  NextSeq(seq, n) \in 0..SeqLimit - 1
<1>1. SeqLimit \in Nat \ {0}
  BY Numbers
<1> QED  BY <1>1 DEF NextSeq

LEMMA PacketsTyped ==
  ASSUME NEW payloads \in Seq(Fitting), NEW seq \in 0..SeqLimit - 1, NEW ts \in Nat
  PROVE  Packets(payloads, seq, ts) \in Seq(VideoPacket)
<1>1. DOMAIN payloads = 1..Len(payloads) /\ Len(payloads) \in Nat
  OBVIOUS
<1>2. ASSUME NEW i \in 1..Len(payloads)
      PROVE  [seq |-> NextSeq(seq, i - 1), ts |-> ts,
              marker |-> payloads[i].kind = "fu" => payloads[i].end,
              payload |-> payloads[i]] \in VideoPacket
  <2>1. payloads[i] \in Fitting
    BY ElementOfSeq
  <2>2. NextSeq(seq, i - 1) \in 0..SeqLimit - 1
    <3>1. seq \in Nat /\ i - 1 \in Nat
      BY <1>1
    <3> QED  BY <3>1, NextSeqWraps
  <2>3. (payloads[i].kind = "fu" => payloads[i].end) \in BOOLEAN
    OBVIOUS
  <2> QED  BY <2>1, <2>2, <2>3 DEF VideoPacket
<1> QED  BY <1>1, <1>2 DEF Packets

-----------------------------------------------------------------------------
(***************************************************************************)
(* The readers.                                                            *)
(***************************************************************************)
LEMMA NaluRead ==
  ASSUME NEW file \in Seq(Nat), NEW pos \in 1..Len(file) + 1
  PROVE  /\ ReadNalu(file, pos).pos \in 1..Len(file) + 1
         /\ ReadNalu(file, pos).frame \in Seq(Nat)
<1> DEFINE n == Len(file)
<1>0. n \in Nat /\ \A i \in 1..n : file[i] \in Nat
  BY ElementOfSeq
<1>1. CASE pos > n
  BY <1>1 DEF ReadNalu
<1>2. CASE pos <= n /\ StartCodeLength(file, pos) > 0
  <2> DEFINE body == pos + StartCodeLength(file, pos)
             codes == {i \in body..n : StartCodeAt(file, i)}
             code == Min(codes)
             end == IF codes = {} THEN n
                    ELSE IF code > body /\ file[code - 1] = 0 THEN code - 2
                    ELSE code - 1
  <2>1. body \in 1..n + 1
    <3>1. \A i \in Nat : StartCodeAt(file, i) => i + 2 <= n
      BY DEF StartCodeAt
    <3>2. StartCodeLength(file, pos) \in {0, 3, 4} /\ pos + StartCodeLength(file, pos) <= n + 1
      BY <1>0, <1>2, <3>1 DEF StartCodeLength
    <3> QED  BY <1>0, <1>2, <3>2
  <2>2. codes # {} => code \in body..n
    <3>1. codes \in SUBSET Nat
      BY <2>1
    <3>2. codes # {} => Min(codes) \in codes
      BY <3>1, MinIsLeast
    <3> QED  BY <3>2
  <2>3. ReadNalu(file, pos).pos = end + 1 /\ ReadNalu(file, pos).frame = SubSeq(file, body, end)
    <3>1. ~(pos > Len(file)) /\ StartCodeLength(file, pos) > 0
      BY <1>0, <1>2
    <3>2. ReadNalu(file, pos) = NaluFrom(file, body)
      BY ONLY <3>1 DEF ReadNalu
    <3> HIDE DEF body
    <3>3. NaluFrom(file, body).pos = end + 1 /\ NaluFrom(file, body).frame = SubSeq(file, body, end)
      BY DEF NaluFrom
    <3> QED  BY ONLY <3>2, <3>3
  <2> HIDE DEF body, codes, code, n
  <2>4. end \in 0..n
    BY <1>0, <2>1, <2>2
  <2> HIDE DEF end
  <2>5. SubSeq(file, body, end) \in Seq(Nat)
    <3>1. \A i \in body..end : file[i] \in Nat
      BY <1>0, <2>1, <2>4
    <3> QED  BY <2>1, <2>4, <3>1, SubSeqProperties
  <2> QED  BY <1>0, <2>3, <2>4, <2>5 DEF n
<1>3. CASE pos <= n /\ ~(StartCodeLength(file, pos) > 0)
  <2>1. /\ ReadNalu(file, pos).pos = n + 1
        /\ ReadNalu(file, pos).frame = SubSeq(file, pos, n)
    <3>1. ~(pos > Len(file)) /\ ~(StartCodeLength(file, pos) > 0)
      BY <1>0, <1>3
    <3> QED  BY ONLY <3>1 DEF ReadNalu
  <2>2. SubSeq(file, pos, n) \in Seq(Nat)
    <3>1. \A i \in pos..n : file[i] \in Nat
      BY <1>0
    <3> QED  BY <1>0, <3>1, SubSeqProperties
  <2> QED  BY <1>0, <2>1, <2>2
<1> QED  BY <1>0, <1>1, <1>2, <1>3

\* What is read is a whole frame at the reader's position, which then lies
\* behind it; the reader goes on otherwise only to the end of the file or past
\* a bad header.
LEMMA AdtsRead ==
  ASSUME NEW file \in Seq(Nat), NEW pos \in 1..Len(file) + 1
  PROVE  LET read == ReadAdts(file, pos) IN
         /\ read.pos \in 1..Len(file) + 1
         /\ read.status = "Ok" =>
              LET frame == read.frame[1] IN
              /\ pos <= Len(file) /\ frame \in AdtsFrame /\ Intact(file, frame)
              /\ frame.at = pos /\ read.pos = frame.at + frame.length
         /\ read.status # "Ok" =>
              read.pos > Len(file) \/ (file[pos] < AdtsHeader /\ read.pos = pos + AdtsHeader)
<1> DEFINE left == Len(file) - pos + 1
<1>0. Len(file) \in Nat /\ pos \in Nat \ {0} /\ left \in Int /\ DOMAIN file = 1..Len(file)
  OBVIOUS
<1>1. CASE left < AdtsHeader
  BY <1>0, <1>1 DEF ReadAdts
<1>2. CASE ~(left < AdtsHeader)
  <2>1. pos \in 1..Len(file) /\ file[pos] \in Nat
    BY <1>0, <1>2, ElementOfSeq DEF AdtsHeader
  <2>2. CASE file[pos] < AdtsHeader
    BY <1>0, <1>2, <2>1, <2>2 DEF ReadAdts, AdtsHeader
  <2>3. CASE ~(file[pos] < AdtsHeader) /\ file[pos] > left
    BY <1>0, <1>2, <2>1, <2>3 DEF ReadAdts
  <2>4. CASE ~(file[pos] < AdtsHeader) /\ ~(file[pos] > left)
    <3> DEFINE frame == [at |-> pos, length |-> file[pos]]
    <3>1. ReadAdts(file, pos) = [status |-> "Ok", frame |-> <<frame>>, pos |-> pos + file[pos]]
      BY <1>2, <2>4 DEF ReadAdts
    <3>2. frame \in AdtsFrame /\ Intact(file, frame) /\ pos + file[pos] \in 1..Len(file) + 1
      BY <1>0, <2>1, <2>4 DEF Intact, AdtsFrame, AdtsHeader
    <3> QED  BY <2>1, <3>1, <3>2
  <2> QED  BY <2>2, <2>3, <2>4
<1> QED  BY <1>1, <1>2

\* Where there is nothing yet to skip, and one bad header more.
LEMMA BadHeadersGrow ==
  ASSUME NEW file \in Seq(Nat), NEW i \in Nat
  PROVE  /\ BadHeaders(file, i, i)
         /\ \A j \in Nat : /\ BadHeaders(file, i, j) /\ i > 0
                           /\ file[j] < AdtsHeader /\ j + AdtsHeader <= Len(file) + 1
                           => BadHeaders(file, i, j + AdtsHeader)
<1>0. Len(file) \in Nat
  OBVIOUS
<1>1. BadHeaders(file, i, i)
  <2>1. 0 \in 0..Len(file) /\ i = i + AdtsHeader * 0 /\ 0..0 - 1 = {}
    BY <1>0 DEF AdtsHeader
  <2> QED  BY <2>1 DEF BadHeaders
<1>2. ASSUME NEW j \in Nat, BadHeaders(file, i, j), i > 0,
             file[j] < AdtsHeader, j + AdtsHeader <= Len(file) + 1
      PROVE  BadHeaders(file, i, j + AdtsHeader)
  <2>1. PICK k \in 0..Len(file) :
          j = i + AdtsHeader * k /\ \A n \in 0..k - 1 : file[i + AdtsHeader * n] < AdtsHeader
    BY <1>2 DEF BadHeaders
  <2>2. k + 1 \in 0..Len(file) /\ j + AdtsHeader = i + AdtsHeader * (k + 1)
    BY <1>0, <1>2, <2>1 DEF AdtsHeader
  <2>3. \A n \in 0..(k + 1) - 1 : n \in 0..k - 1 \/ n = k
    BY <2>1
  <2>4. \A n \in 0..(k + 1) - 1 : file[i + AdtsHeader * n] < AdtsHeader
    BY <1>2, <2>1, <2>3
  <2> QED  BY ONLY <2>2, <2>4 DEF BadHeaders
<1> QED  BY <1>1, <1>2

-----------------------------------------------------------------------------
(***************************************************************************)
(* The callback, for each stream.                                          *)
(***************************************************************************)
\* A stream stays on time when time passes, and when it sends a frame that is
\* due.
LEMMA Pace ==
  ASSUME NEW n \in Nat, NEW b \in Nat \ {0}, NEW due \in Int, NEW time \in Nat, NEW gap \in Nat,
         OnTime(n, b, due, time)
  PROVE  /\ OnTime(n, b, due - gap, time + gap)
         /\ due - gap <= 0 => OnTime(n + 1, b, due - gap + b, time + gap)
<1> DEFINE x == n * b
           y == (n - 1) * b
           z == (n + 1) * b
<1>1. x \in Int /\ y \in Int /\ z = x + b /\ (n + 1) - 1 = n
  BY ONLY n \in Nat, b \in Nat \ {0}
<1>2. time + due = x /\ y <= time
  BY DEF OnTime
<1> HIDE DEF x, y, z
<1>3. /\ (time + gap) + (due - gap) = x /\ y <= time + gap
      /\ due - gap <= 0 => (time + gap) + (due - gap + b) = z /\ x <= time + gap
  BY <1>1, <1>2
<1> QED  BY <1>1, <1>3 DEF OnTime, x, y, z

LEMMA VideoKeepsTime ==
  ASSUME IInv, NEW gap \in Nat \ {0}, VideoTurn(gap) \/ VideoEnds(gap), clock' = clock + gap
  PROVE  /\ tsVideo' \in Nat /\ tsVideo' % VideoTicks = 0 /\ dueVideo' \in Int
         /\ OnTime(tsVideo' \div VideoTicks, VideoInterval, dueVideo', clock')
<1> DEFINE n == tsVideo \div VideoTicks
<1>1. /\ tsVideo \in Nat /\ tsVideo % VideoTicks = 0 /\ dueVideo \in Int /\ clock \in Nat
      /\ VideoInterval \in Nat \ {0} /\ n \in Nat
      /\ OnTime(n, VideoInterval, dueVideo, clock)
  BY Numbers DEF IInv, VideoTyped, VideoTicks
<1> HIDE DEF n
<1>2. /\ OnTime(n, VideoInterval, dueVideo - gap, clock + gap)
      /\ dueVideo - gap <= 0 => OnTime(n + 1, VideoInterval, dueVideo - gap + VideoInterval, clock + gap)
  BY <1>1, Pace
<1>3. CASE tsVideo' = tsVideo /\ dueVideo' = dueVideo - gap
  BY <1>1, <1>2, <1>3 DEF n
<1>4. CASE /\ dueVideo - gap <= 0 /\ tsVideo' = tsVideo + VideoTicks
           /\ dueVideo' = dueVideo - gap + VideoInterval
  <2>1. tsVideo' \in Nat /\ tsVideo' % VideoTicks = 0 /\ tsVideo' \div VideoTicks = n + 1
    BY <1>1, <1>4 DEF n, VideoTicks
  <2>2. dueVideo' \in Int
    BY <1>1, <1>4
  <2>3. OnTime(n + 1, VideoInterval, dueVideo', clock')
    BY <1>2, <1>4
  <2> QED  BY <2>1, <2>2, <2>3
<1> QED  BY <1>3, <1>4 DEF VideoTurn, VideoNotDue, KeepParameterSet, SendVideo, VideoEnds

LEMMA VideoStaysTyped ==
  ASSUME IInv, NEW gap \in Nat \ {0}, VideoTurn(gap) \/ VideoEnds(gap), clock' = clock + gap,
         UNCHANGED session
  PROVE  VideoTyped' /\ Len(taken) <= Len(taken')
<1>1. /\ h264 \in Seq(Nat) /\ h264' = h264 /\ h264Pos \in 1..Len(h264) + 1
      /\ sps \in Seq(Nat) /\ pps \in Seq(Nat) /\ taken \in Seq(Seq(Nat))
      /\ seqVideo \in 0..SeqLimit - 1 /\ tsVideo \in Nat
      /\ video \in Seq(VideoPacket)
  BY Numbers DEF IInv, VideoTyped, session
<1>2. tsVideo' \in Nat /\ tsVideo' % VideoTicks = 0 /\ dueVideo' \in Int
  BY VideoKeepsTime
<1>3. Nalu.pos \in 1..Len(h264) + 1 /\ Nalu.frame \in Seq(Nat)
  BY <1>1, NaluRead DEF Nalu
<1>4. /\ Append(taken, Nalu.frame) \in Seq(Seq(Nat))
      /\ Len(taken) <= Len(Append(taken, Nalu.frame))
  BY <1>1, <1>3, AppendProperties
<1>5. CASE VideoNotDue(gap)
  BY <1>1, <1>2, <1>5 DEF VideoNotDue, VideoTyped
<1>6. CASE VideoEnds(gap)
  BY <1>1, <1>2, <1>3, <1>6 DEF VideoEnds, VideoTyped
<1>7. CASE KeepParameterSet(gap)
  BY <1>1, <1>2, <1>3, <1>4, <1>7 DEF KeepParameterSet, VideoTyped
<1>8. CASE SendVideo(gap)
  <2> DEFINE payloads == IF NaluType = 5 THEN FrameWithParameterSets(Nalu.frame, sps, pps, useUdp)
                         ELSE Payloads(Nalu.frame)
  <2>1. payloads \in Seq(Fitting)
    BY <1>1, <1>3, PayloadsFit, FrameWithParameterSetsFits
  <2>2. /\ video' = video \o Packets(payloads, seqVideo, tsVideo)
        /\ seqVideo' = NextSeq(seqVideo, Len(payloads))
        /\ h264Pos' = Nalu.pos /\ taken' = Append(taken, Nalu.frame)
        /\ UNCHANGED <<sps, pps>>
    BY <1>8 DEF SendVideo
  <2> HIDE DEF payloads
  <2>3. Packets(payloads, seqVideo, tsVideo) \in Seq(VideoPacket)
    BY <1>1, <2>1, PacketsTyped
  <2>4. video' \in Seq(VideoPacket)
    BY <1>1, <2>2, <2>3, ConcatProperties
  <2>5. seqVideo' \in 0..SeqLimit - 1
    <3>1. seqVideo \in Nat /\ Len(payloads) \in Nat
      BY <1>1, <2>1
    <3> QED  BY <2>2, <3>1, NextSeqWraps
  <2> QED  BY <1>1, <1>2, <1>3, <1>4, <2>2, <2>4, <2>5 DEF VideoTyped
<1> QED  BY <1>5, <1>6, <1>7, <1>8 DEF VideoTurn

LEMMA AudioKeepsTime ==
  ASSUME IInv, NEW gap \in Nat \ {0}, AudioTurn(gap) \/ VideoEnds(gap), clock' = clock + gap
  PROVE  OnTime(Len(audio'), AudioInterval, dueAudio', clock') /\ dueAudio' \in Int
<1>1. /\ Len(audio) \in Nat /\ dueAudio \in Int /\ clock \in Nat /\ AudioInterval \in Nat \ {0}
      /\ OnTime(Len(audio), AudioInterval, dueAudio, clock)
  BY Numbers DEF IInv, AudioTyped
<1>2. /\ OnTime(Len(audio), AudioInterval, dueAudio - gap, clock + gap)
      /\ dueAudio - gap <= 0 =>
           OnTime(Len(audio) + 1, AudioInterval, dueAudio - gap + AudioInterval, clock + gap)
  BY <1>1, Pace
<1>3. CASE audio' = audio /\ dueAudio' = dueAudio - gap
  BY <1>1, <1>2, <1>3
<1>4. CASE SendAudio(gap)
  <2>1. /\ dueAudio - gap <= 0 /\ dueAudio' = dueAudio - gap + AudioInterval
        /\ Len(audio') = Len(audio) + 1
    BY <1>4 DEF SendAudio, IInv, AudioTyped
  <2> QED  BY <1>1, <1>2, <2>1
<1> QED  BY <1>3, <1>4 DEF AudioTurn, AudioNotDue, AudioEnds, VideoEnds

\* The next sequence number, from the number of packets sent.
LEMMA NextOfCount ==
  ASSUME NEW n \in Nat
  PROVE  NextSeq(n % SeqLimit, 1) = (n + 1) % SeqLimit
<1> DEFINE b == SeqLimit
           q == n \div b
           r == n % b
<1>0. b \in Nat \ {0}
  BY Numbers
<1> HIDE DEF b
<1>1. q \in Nat /\ r \in 0..b - 1 /\ n = q * b + r
  BY ONLY <1>0, n \in Nat
<1> HIDE DEF q, r
<1>2. CASE r + 1 \in 0..b - 1
  <2>1. (q * b + (r + 1)) % b = r + 1 /\ (r + 1) % b = r + 1
    BY ONLY <1>0, <1>1, <1>2
  <2>2. n + 1 = q * b + (r + 1)
    <3>1. q * b \in Nat
      BY ONLY <1>0, <1>1
    <3> QED  BY ONLY <1>1, <3>1
  <2> QED  BY <2>1, <2>2 DEF NextSeq, b, r
<1>3. CASE r + 1 = b
  <2>1. ((q + 1) * b + 0) % b = 0 /\ b % b = 0 /\ (q + 1) * b = q * b + b /\ q * b \in Nat
    <3>1. (1 * b + 0) % b = 0
      BY ONLY <1>0, 0 \in 0..b - 1, 1 \in Nat, Division
    <3>2. 1 * b + 0 = b
      BY ONLY <1>0
    <3>3. ((q + 1) * b + 0) % b = 0
      BY ONLY <1>0, <1>1, q + 1 \in Nat, 0 \in 0..b - 1, Division
    <3>4. (q + 1) * b = q * b + b /\ q * b \in Nat
      BY ONLY <1>0, <1>1
    <3> QED  BY ONLY <3>1, <3>2, <3>3, <3>4
  <2>2. n + 1 = (q + 1) * b + 0
    BY ONLY <1>0, <1>1, <1>3, <2>1
  <2> QED  BY <1>3, <2>1, <2>2 DEF NextSeq, b, r
<1> QED  BY <1>0, <1>1, <1>2, <1>3

\* An audio frame is sent: a whole one, from where the reader is.
LEMMA AudioSent ==
  ASSUME IInv, NEW gap \in Nat \ {0}, SendAudio(gap), UNCHANGED session
  PROVE  AudioInStep' /\ AudioTyped' /\ AudioIsHeard' /\ HeardInFile'
<1> DEFINE n == Len(audio)
           m == Len(heard)
           frame == Aac.frame[1]
           packet == AudioPacket(frame, seqAudio, tsAudio)
           Packet == [seq : 0..SeqLimit - 1, ts : Nat, marker : BOOLEAN, payload : AdtsFrame]
<1>1. /\ aac \in Seq(Nat) /\ aac' = aac /\ aacPos \in 1..Len(aac) + 1
      /\ audio \in Seq(Packet) /\ n \in Nat /\ Len(aac) \in Nat
      /\ heard \in Seq(AdtsFrame) /\ m \in Nat /\ n <= m
      /\ seqAudio = n % SeqLimit /\ tsAudio = n * AudioTicks
      /\ \A i \in 1..n : audio[i].seq = (i - 1) % SeqLimit /\ audio[i].ts = (i - 1) * AudioTicks
      /\ \A i \in 1..n : audio[i].payload = heard[m - n + i]
  BY Numbers DEF IInv, AudioTyped, AudioInStep, AudioIsHeard, session
<1>2. /\ \A i \in 1..m : Intact(aac, heard[i]) /\ BadHeaders(aac, Behind(heard, i - 1), heard[i].at)
      /\ aacPos > Len(aac) \/ BadHeaders(aac, Behind(heard, m), aacPos)
  BY DEF IInv, HeardInFile
<1>3. /\ aacPos <= Len(aac) /\ frame \in AdtsFrame /\ Intact(aac, frame)
      /\ frame.at = aacPos /\ Aac.pos = frame.at + frame.length /\ Aac.pos \in 1..Len(aac) + 1
  BY <1>1, AdtsRead DEF SendAudio, Aac
<1>4. /\ audio' = Append(audio, packet) /\ seqAudio' = NextSeq(seqAudio, 1)
      /\ heard' = Append(heard, frame)
      /\ aacPos' = Aac.pos /\ tsAudio' = tsAudio + AudioTicks
      /\ dueAudio' = dueAudio - gap + AudioInterval
  BY DEF SendAudio
<1>5. /\ packet = [seq |-> seqAudio, ts |-> tsAudio, marker |-> TRUE, payload |-> frame]
      /\ seqAudio \in 0..SeqLimit - 1 /\ tsAudio \in Nat
  <2>1. SeqLimit \in Nat \ {0}
    BY Numbers
  <2>2. n % SeqLimit \in 0..SeqLimit - 1
    BY ONLY <1>1, <2>1
  <2> QED  BY <1>1, <2>2 DEF AudioPacket, AudioTicks
<1> HIDE DEF frame, packet, n, m
<1>6. packet \in Packet
  BY <1>3, <1>5
<1> HIDE DEF Packet
<1>7. /\ audio' \in Seq(Packet) /\ Len(audio') = n + 1
      /\ \A i \in 1..n : audio'[i] = audio[i]
      /\ audio'[n + 1] = packet
  BY <1>1, <1>4, <1>6, AppendProperties DEF n
<1>8. /\ heard' \in Seq(AdtsFrame) /\ Len(heard') = m + 1
      /\ \A i \in 1..m : heard'[i] = heard[i]
      /\ heard'[m + 1] = frame
  BY <1>1, <1>3, <1>4, AppendProperties DEF m
<1>9. /\ \A i \in 1..n + 1 : i \in 1..n \/ i = n + 1
      /\ \A i \in 1..m + 1 : i \in 1..m \/ i = m + 1
  BY <1>1
<1>10. AudioInStep'
  <2>1. seqAudio' = (n + 1) % SeqLimit /\ tsAudio' = (n + 1) * AudioTicks
    BY <1>1, <1>4, NextOfCount DEF AudioTicks
  <2>2. \A i \in 1..n + 1 : audio'[i].seq = (i - 1) % SeqLimit /\ audio'[i].ts = (i - 1) * AudioTicks
    <3>1. packet.seq = n % SeqLimit /\ packet.ts = n * AudioTicks /\ (n + 1) - 1 = n
      BY <1>1, <1>5
    <3> QED  BY <1>1, <1>7, <1>9, <3>1
  <2> QED  BY <1>7, <2>1, <2>2 DEF AudioInStep
<1>11. AudioTyped'
  <2>1. dueAudio' \in Int
    BY <1>4, Numbers DEF IInv, AudioTyped
  <2>2. aacPos' \in 1..Len(aac) + 1
    BY <1>3, <1>4
  <2> QED  BY <1>1, <1>7, <1>8, <2>1, <2>2 DEF AudioTyped, Packet
<1>12. AudioIsHeard'
  <2>1. (m + 1) - (n + 1) = m - n /\ n + 1 <= m + 1 /\ m - n + (n + 1) = m + 1
        /\ \A i \in 1..n : m - n + i \in 1..m
    BY ONLY <1>1
  <2>2. \A i \in 1..n + 1 : audio'[i].payload = heard'[m - n + i]
    <3>1. \A i \in 1..n : audio'[i].payload = heard'[m - n + i]
      BY <1>1, <1>7, <1>8, <2>1
    <3>2. audio'[n + 1].payload = heard'[m - n + (n + 1)]
      BY <1>5, <1>7, <1>8, <2>1
    <3> QED  BY <1>9, <3>1, <3>2
  <2> QED  BY <1>7, <1>8, <2>1, <2>2 DEF AudioIsHeard
<1>13. HeardInFile'
  <2>1. /\ \A i \in 0..m : Behind(heard', i) = Behind(heard, i)
        /\ Behind(heard', m + 1) = aacPos'
    <3>1. \A i \in 0..m : i = 0 \/ i \in 1..m
      BY ONLY <1>1
    <3>2. m + 1 # 0
      BY ONLY <1>1
    <3> QED  BY ONLY <1>3, <1>4, <1>8, <3>1, <3>2 DEF Behind
  <2>2. BadHeaders(aac, Behind(heard, m), frame.at)
    <3>1. ~(aacPos > Len(aac))
      BY ONLY <1>1, <1>3
    <3> QED  BY ONLY <1>2, <1>3, <3>1
  <2>3. \A i \in 1..m : Intact(aac', heard'[i]) /\ BadHeaders(aac', Behind(heard', i - 1), heard'[i].at)
    <3>1. \A i \in 1..m : i - 1 \in 0..m
      BY <1>1
    <3> QED  BY <1>1, <1>2, <1>8, <2>1, <3>1
  <2>4. Intact(aac', heard'[m + 1]) /\ BadHeaders(aac', Behind(heard', (m + 1) - 1), heard'[m + 1].at)
    <3>1. (m + 1) - 1 = m /\ m \in 0..m
      BY <1>1
    <3> QED  BY <1>1, <1>3, <1>8, <2>1, <2>2, <3>1
  <2>5. BadHeaders(aac', Behind(heard', m + 1), aacPos')
    <3>1. aacPos' \in Nat
      BY <1>3, <1>4
    <3> QED  BY <1>1, <2>1, <3>1, BadHeadersGrow
  <2>6. \A i \in 1..m + 1 : Intact(aac', heard'[i]) /\ BadHeaders(aac', Behind(heard', i - 1), heard'[i].at)
    BY <1>9, <2>3, <2>4
  <2> QED  BY <1>8, <2>5, <2>6 DEF HeardInFile
<1> QED  BY <1>10, <1>11, <1>12, <1>13

\* Nothing is read.
LEMMA AudioHeld ==
  ASSUME AudioInStep, AudioIsHeard, UNCHANGED <<audio, heard, seqAudio, tsAudio>>
  PROVE  AudioInStep' /\ AudioIsHeard'
BY DEF AudioInStep, AudioIsHeard

\* The reader finds the end of the file or a bad header.
LEMMA AudioReaderMoves ==
  ASSUME IInv, UNCHANGED <<aac, heard>>, aacPos' = aacPos \/ (aacPos' = Aac.pos /\ Aac.status # "Ok")
  PROVE  HeardInFile'
<1>1. /\ aac \in Seq(Nat) /\ aacPos \in 1..Len(aac) + 1 /\ aacPos \in Nat
      /\ heard \in Seq(AdtsFrame) /\ Len(aac) \in Nat /\ Len(heard) \in Nat
  BY Numbers DEF IInv, AudioTyped
<1>2. aacPos > Len(aac) \/ BadHeaders(aac, Behind(heard, Len(heard)), aacPos)
  BY DEF IInv, HeardInFile
<1>3. Behind(heard, Len(heard)) \in Nat /\ Behind(heard, Len(heard)) > 0
  <2>1. Len(heard) # 0 => heard[Len(heard)] \in AdtsFrame
    BY <1>1, ElementOfSeq
  <2> QED  BY <1>1, <2>1 DEF Behind, AdtsFrame
<1>4. aacPos' > Len(aac) \/ BadHeaders(aac, Behind(heard, Len(heard)), aacPos')
  <2>1. CASE aacPos' = aacPos
    BY <1>2, <2>1
  <2>2. CASE aacPos' = Aac.pos /\ Aac.status # "Ok"
    <3>1. /\ Aac.pos \in 1..Len(aac) + 1
          /\ Aac.pos > Len(aac) \/ (aac[aacPos] < AdtsHeader /\ Aac.pos = aacPos + AdtsHeader)
      BY <1>1, <2>2, AdtsRead DEF Aac
    <3>2. CASE Aac.pos > Len(aac) \/ aacPos > Len(aac)
      BY <1>1, <2>2, <3>1, <3>2 DEF AdtsHeader
    <3>3. CASE ~(Aac.pos > Len(aac)) /\ ~(aacPos > Len(aac))
      <4>1. aac[aacPos] < AdtsHeader /\ Aac.pos = aacPos + AdtsHeader
            /\ BadHeaders(aac, Behind(heard, Len(heard)), aacPos)
        BY <1>2, <3>1, <3>3
      <4>2. aacPos + AdtsHeader <= Len(aac) + 1
        BY <1>1, <3>1, <4>1
      <4> QED  BY <1>1, <1>3, <2>2, <4>1, <4>2, BadHeadersGrow
    <3> QED  BY <3>2, <3>3
  <2> QED  BY <2>1, <2>2
<1> QED  BY <1>4 DEF IInv, HeardInFile, Behind

\* A callback that sends no audio: it may end the streams.
LEMMA AudioKept ==
  ASSUME IInv, NEW gap \in Nat \ {0}, AudioNotDue(gap) \/ AudioEnds(gap) \/ VideoEnds(gap),
         UNCHANGED session
  PROVE  AudioInStep' /\ AudioTyped' /\ AudioIsHeard' /\ HeardInFile' /\ running' \in BOOLEAN
<1>1. /\ UNCHANGED <<aac, audio, heard, seqAudio, tsAudio>>
      /\ running' = FALSE \/ running' = running
      /\ aacPos' = aacPos \/ (aacPos' = Aac.pos /\ Aac.status # "Ok")
      /\ dueAudio' = dueAudio - gap
  BY DEF AudioNotDue, AudioEnds, VideoEnds, session
<1>2. Aac.pos \in 1..Len(aac) + 1 /\ aacPos \in 1..Len(aac) + 1 /\ dueAudio \in Int
  BY Numbers, AdtsRead DEF Aac, IInv, AudioTyped
<1>3. AudioTyped'
  BY <1>1, <1>2 DEF IInv, AudioTyped
<1>4. AudioInStep' /\ AudioIsHeard'
  BY <1>1, AudioHeld DEF IInv
<1>5. HeardInFile'
  BY <1>1, AudioReaderMoves
<1> QED  BY <1>1, <1>3, <1>4, <1>5 DEF IInv

LEMMA CallbackInv ==
  ASSUME IInv, NEW gap \in Gaps, Callback(gap)
  PROVE  IInv'
<1>1. /\ gap \in Nat \ {0} /\ running /\ clock' = clock + gap
      /\ UNCHANGED <<useUdp, h264, aac, plays, firstTaken>> /\ UNCHANGED session
      /\ VideoEnds(gap) \/ (VideoTurn(gap) /\ AudioTurn(gap))
  BY Numbers DEF Callback, session
<1>2. VideoTyped' /\ Len(taken) <= Len(taken')
  BY <1>1, VideoStaysTyped
<1>3. OnTime(tsVideo' \div VideoTicks, VideoInterval, dueVideo', clock')
  BY <1>1, VideoKeepsTime
<1>4. OnTime(Len(audio'), AudioInterval, dueAudio', clock')
  BY <1>1, AudioKeepsTime
<1>5. AudioInStep' /\ AudioTyped' /\ AudioIsHeard' /\ HeardInFile' /\ running' \in BOOLEAN
  <2>1. CASE SendAudio(gap)
    <3>1. running' \in BOOLEAN
      BY <2>1 DEF SendAudio, IInv
    <3> QED  BY <1>1, <2>1, <3>1, AudioSent
  <2>2. CASE AudioNotDue(gap) \/ AudioEnds(gap) \/ VideoEnds(gap)
    BY <1>1, <2>2, AudioKept
  <2> QED  BY <1>1, <2>1, <2>2 DEF AudioTurn
<1>6. firstTaken' \in 0..Len(taken') /\ clock' \in Nat
  <2>1. Len(taken') \in Nat /\ Len(taken) \in Nat
    <3>1. taken \in Seq(Seq(Nat)) /\ taken' \in Seq(Seq(Nat))
      BY <1>2 DEF IInv, VideoTyped
    <3> QED  BY ONLY <3>1
  <2> QED  BY <1>1, <1>2, <2>1 DEF IInv
<1>7. useUdp' \in BOOLEAN /\ h264' \in H264Files /\ aac' \in AacFiles /\ plays' \in 0..MaxPlays
  BY <1>1 DEF IInv
<1> QED  BY <1>2, <1>3, <1>4, <1>5, <1>6, <1>7 DEF IInv

\* A pusher that has sent nothing is on time, and in step with what was read.
LEMMA FreshInStep ==
  ASSUME heard \in Seq(AdtsFrame), audio = <<>>, seqAudio = 0, tsAudio = 0
  PROVE  AudioInStep /\ AudioIsHeard
<1>1. 0 % SeqLimit = 0
  <2>1. SeqLimit \in Nat \ {0}
    BY Numbers
  <2>2. (0 * SeqLimit + 0) % SeqLimit = 0
    BY ONLY <2>1, 0 \in Nat, 0 \in 0..SeqLimit - 1, Division
  <2>3. 0 * SeqLimit + 0 = 0
    BY ONLY <2>1
  <2> QED  BY <2>2, <2>3
<1>2. Len(audio) = 0 /\ Len(heard) \in Nat /\ 1..0 = {}
  OBVIOUS
<1> QED  BY <1>1, <1>2 DEF AudioInStep, AudioIsHeard, AudioTicks

LEMMA FreshOnTime == /\ OnTime(0 \div VideoTicks, VideoInterval, 0, 0)
                     /\ OnTime(0, AudioInterval, 0, 0)
<1>1. VideoInterval \in Nat \ {0} /\ AudioInterval \in Nat \ {0} /\ 0 \div VideoTicks = 0
  BY Numbers DEF VideoTicks
<1>2. /\ 0 * VideoInterval = 0 /\ (0 - 1) * VideoInterval <= 0
      /\ 0 * AudioInterval = 0 /\ (0 - 1) * AudioInterval <= 0
  BY ONLY <1>1
<1> QED  BY <1>1, <1>2 DEF OnTime

LEMMA InitIInv == Init => IInv
<1> SUFFICES ASSUME Init PROVE IInv
  OBVIOUS
<1>1. h264 \in Seq(Nat) /\ aac \in Seq(Nat) /\ SeqLimit \in Nat \ {0} /\ MaxPlays \in Nat
  BY Numbers DEF Init
<1>2. AudioInStep /\ AudioIsHeard /\ HeardInFile
  <2>1. heard = <<>> /\ Len(heard) = 0 /\ Behind(heard, 0) = 1 /\ aacPos = 1
    BY DEF Init, Behind
  <2>2. BadHeaders(aac, 1, 1)
    BY <1>1, BadHeadersGrow
  <2>3. HeardInFile
    BY <2>1, <2>2 DEF HeardInFile
  <2> QED  BY <1>1, <2>3, FreshInStep DEF Init
<1>3. VideoTyped
  BY <1>1 DEF Init, VideoTyped, VideoTicks
<1>4. AudioTyped
  BY <1>1 DEF Init, AudioTyped
<1>5. OnTime(tsVideo \div VideoTicks, VideoInterval, dueVideo, clock) /\ OnTime(Len(audio), AudioInterval, dueAudio, clock)
  BY FreshOnTime DEF Init
<1>6. useUdp \in BOOLEAN /\ h264 \in H264Files /\ aac \in AacFiles /\ running \in BOOLEAN
  BY DEF Init
<1>7. plays \in 0..MaxPlays /\ firstTaken \in 0..Len(taken) /\ clock \in Nat
  BY <1>1 DEF Init
<1> QED  BY ONLY <1>2, <1>3, <1>4, <1>5, <1>6, <1>7 DEF IInv

LEMMA PlayInv ==
  ASSUME IInv, Play
  PROVE  IInv'
<1>1. /\ h264 \in Seq(Nat) /\ aac \in Seq(Nat) /\ SeqLimit \in Nat \ {0} /\ MaxPlays \in Nat
      /\ aacPos \in 1..Len(aac) + 1 /\ heard \in Seq(AdtsFrame)
  BY Numbers DEF IInv, AudioTyped
<1>2. UNCHANGED <<useUdp, h264, aac, h264Pos, aacPos, taken, heard>>
  BY DEF Play, session
<1>3. audio' = <<>> /\ seqAudio' = 0 /\ tsAudio' = 0 /\ dueAudio' = 0 /\ clock' = 0
  BY DEF Play
<1>4. AudioInStep' /\ AudioIsHeard' /\ HeardInFile'
  <2>1. (heard \in Seq(AdtsFrame) /\ audio = <<>> /\ seqAudio = 0 /\ tsAudio = 0
          => AudioInStep /\ AudioIsHeard)'
    BY FreshInStep, PTL
  <2>2. HeardInFile'
    BY <1>2 DEF IInv, HeardInFile, Behind
  <2> QED  BY <1>1, <1>2, <1>3, <2>1, <2>2
<1>5. VideoTyped'
  BY <1>1, <1>2 DEF Play, IInv, VideoTyped, VideoTicks
<1>6. AudioTyped'
  BY <1>1, <1>2, <1>3 DEF AudioTyped
<1>7. /\ OnTime(tsVideo' \div VideoTicks, VideoInterval, dueVideo', clock')
      /\ OnTime(Len(audio'), AudioInterval, dueAudio', clock')
  BY <1>3, FreshOnTime DEF Play
<1>8. firstTaken' \in 0..Len(taken') /\ clock' \in Nat
  BY <1>2, <1>3 DEF Play, IInv, VideoTyped
<1>9. useUdp' \in BOOLEAN /\ h264' \in H264Files /\ aac' \in AacFiles /\ plays' \in 0..MaxPlays /\ running' \in BOOLEAN
  BY <1>1, <1>2 DEF Play, IInv
<1> QED  BY <1>4, <1>5, <1>6, <1>7, <1>8, <1>9 DEF IInv

LEMMA Inductive == Spec => []IInv
<1>1. IInv /\ [Next]_vars => IInv'
  <2> SUFFICES ASSUME IInv, [Next]_vars PROVE IInv'
    OBVIOUS
  <2>1. CASE Stop \/ UNCHANGED vars
    <3>1. /\ UNCHANGED <<session, videoVars, audioVars, plays, firstTaken, clock>>
          /\ running' = FALSE \/ running' = running
      BY <2>1 DEF Stop, vars
    <3>2. VideoTyped' /\ AudioTyped'
      BY <3>1 DEF IInv, VideoTyped, AudioTyped, session, videoVars, audioVars
    <3>3. AudioInStep' /\ AudioIsHeard'
      BY <3>1, AudioHeld DEF IInv, audioVars
    <3>4. HeardInFile'
      BY <3>1 DEF IInv, HeardInFile, Behind, session, audioVars
    <3> QED  BY <3>1, <3>2, <3>3, <3>4 DEF IInv, session, videoVars, audioVars
  <2> QED  BY <2>1, PlayInv, CallbackInv DEF Next
<1> QED  BY <1>1, InitIInv, PTL DEF Spec

-----------------------------------------------------------------------------
(***************************************************************************)
(* The NAL units that the reader takes.                                    *)
(***************************************************************************)
\* What is at a start code, byte by byte.
LEMMA StartCodeBytes ==
  ASSUME NEW file \in Seq(Nat), NEW i \in Nat \ {0}
  PROVE  StartCodeAt(file, i) <=>
           i + 2 <= Len(file) /\ file[i] = 0 /\ file[i + 1] = 0 /\ file[i + 2] = 1
<1> SUFFICES ASSUME i + 2 <= Len(file)
             PROVE  SubSeq(file, i, i + 2) = StartCode <=>
                      file[i] = 0 /\ file[i + 1] = 0 /\ file[i + 2] = 1
  BY DEF StartCodeAt
<1> DEFINE s == SubSeq(file, i, i + 2)
<1>1. /\ s \in Seq(Nat) /\ Len(s) = 3
      /\ s[1] = file[i] /\ s[2] = file[i + 1] /\ s[3] = file[i + 2]
  <2>1. \A j \in i..i + 2 : file[j] \in Nat
    BY ElementOfSeq
  <2>2. /\ s \in Seq(Nat) /\ Len(s) = (i + 2) - i + 1
        /\ \A j \in 1..(i + 2) - i + 1 : s[j] = file[i + j - 1]
    BY <2>1, SubSeqProperties
  <2>3. /\ 1 \in 1..(i + 2) - i + 1 /\ 2 \in 1..(i + 2) - i + 1 /\ 3 \in 1..(i + 2) - i + 1
        /\ (i + 2) - i + 1 = 3
        /\ i + 1 - 1 = i /\ i + 2 - 1 = i + 1 /\ i + 3 - 1 = i + 2
    OBVIOUS
  <2> HIDE DEF s
  <2> QED  BY <2>2, <2>3
<1> HIDE DEF s
<1>2. s = StartCode <=> s[1] = 0 /\ s[2] = 0 /\ s[3] = 1
  <2>1. StartCode \in Seq(Nat) /\ Len(StartCode) = 3 /\ StartCode[1] = 0 /\ StartCode[2] = 0 /\ StartCode[3] = 1
    BY DEF StartCode
  <2>2. s = StartCode <=> \A j \in 1..3 : s[j] = StartCode[j]
    <3> HIDE DEF StartCode
    <3> QED  BY <1>1, <2>1, SeqEqual
  <2>3. 1..3 = {1, 2, 3}
    OBVIOUS
  <2> QED  BY <2>1, <2>2, <2>3
<1> QED  BY <1>1, <1>2 DEF s

\* Start codes do not overlap.
LEMMA StartCodesApart ==
  ASSUME NEW file \in Seq(Nat), NEW i \in Nat \ {0}, NEW j \in Nat,
         StartCodeAt(file, i), StartCodeAt(file, j), i < j
  PROVE  i + 3 <= j
<1>1. /\ file[i] = 0 /\ file[i + 1] = 0 /\ file[i + 2] = 1
      /\ file[j] = 0 /\ file[j + 1] = 0 /\ file[j + 2] = 1
  BY StartCodeBytes
<1>2. j # i + 1 /\ j # i + 2
  BY <1>1
<1> QED  BY <1>2

\* Where readFrame stands at a start code, it is this one it takes off.
CodeFrom(file, pos) == IF StartCodeAt(file, pos) THEN pos ELSE pos + 1

LEMMA CodeTakenOff ==
  ASSUME NEW file \in Seq(Nat), NEW pos \in 1..Len(file) + 1, StartCodeLength(file, pos) > 0
  PROVE  LET i == CodeFrom(file, pos) IN
         /\ i \in 1..Len(file) /\ pos <= i /\ i <= pos + 1 /\ StartCodeAt(file, i)
         /\ pos <= Len(file) /\ i + 3 <= Len(file) + 1
         /\ pos + StartCodeLength(file, pos) = i + 3
         /\ \A j \in 1..Len(file) : StartCodeAt(file, j) /\ pos <= j => i <= j
<1>1. Len(file) \in Nat /\ \A i \in Nat : StartCodeAt(file, i) => i + 2 <= Len(file)
  BY DEF StartCodeAt
<1>2. CASE StartCodeAt(file, pos)
  BY <1>1, <1>2 DEF StartCodeLength, CodeFrom
<1>3. CASE ~StartCodeAt(file, pos)
  <2>1. pos < Len(file) /\ StartCodeAt(file, pos + 1) /\ StartCodeLength(file, pos) = 4
    BY <1>3 DEF StartCodeLength
  <2> QED  BY <1>1, <1>3, <2>1 DEF CodeFrom
<1> QED  BY <1>2, <1>3

\* readFrame at a start code hands over the NAL unit of that start code, unless
\* it is empty, and leaves the reader at the next start code or at the end.
LEMMA UnitIsRead ==
  ASSUME NEW file \in Seq(Nat), NEW pos \in 1..Len(file) + 1, StartCodeLength(file, pos) > 0
  PROVE  LET i == CodeFrom(file, pos)
             read == ReadNalu(file, pos)
         IN  /\ read.frame = UnitAt(file, i)
             /\ read.status = "Ok" <=> UnitAt(file, i) # <<>>
             /\ i < read.pos /\ read.pos \in 1..Len(file) + 1
             /\ \A j \in 1..Len(file) : StartCodeAt(file, j) /\ pos <= j /\ j < read.pos => j = i
             /\ read.pos > Len(file) \/ StartCodeLength(file, read.pos) > 0
<1> DEFINE n == Len(file)
           i == CodeFrom(file, pos)
           body == i + 3
           codes == {k \in body..n : StartCodeAt(file, k)}
           code == Min(codes)
           end == IF codes = {} THEN n
                  ELSE IF code > body /\ file[code - 1] = 0 THEN code - 2
                  ELSE code - 1
           later == {j \in i + 1..n : StartCodeAt(file, j)}
           unstripped == SubSeq(file, body, IF later = {} THEN n ELSE Min(later) - 1)
           frame == SubSeq(file, body, end)
<1>0. n \in Nat /\ \A j \in 1..n : file[j] \in Nat
  BY ElementOfSeq
<1>1. /\ i \in 1..n /\ pos <= i /\ StartCodeAt(file, i) /\ pos <= n /\ body <= n + 1
      /\ pos + StartCodeLength(file, pos) = body
      /\ \A j \in 1..n : StartCodeAt(file, j) /\ pos <= j => i <= j
  BY CodeTakenOff
<1>2. /\ ReadNalu(file, pos).pos = end + 1
      /\ ReadNalu(file, pos).frame = frame
      /\ ReadNalu(file, pos).status = "Ok" <=> end >= body
  <2>1. ReadNalu(file, pos) = NaluFrom(file, body)
    <3>1. ~(pos > Len(file))
      BY <1>0, <1>1
    <3> QED  BY ONLY <1>1, <3>1, StartCodeLength(file, pos) > 0 DEF ReadNalu
  <2> HIDE DEF body
  <2>2. /\ NaluFrom(file, body).pos = end + 1
        /\ NaluFrom(file, body).frame = frame
        /\ NaluFrom(file, body).status = "Ok" <=> end >= body
    BY DEF NaluFrom
  <2> QED  BY ONLY <2>1, <2>2
<1>3. UnitAt(file, i) = IF later # {} /\ unstripped # <<>> /\ Last(unstripped) = 0
                        THEN Front(unstripped) ELSE unstripped
  BY DEF UnitAt
<1>a. /\ codes = {} => end = n
      /\ codes # {} /\ code > body /\ file[code - 1] = 0 => end = code - 2
      /\ codes # {} /\ ~(code > body /\ file[code - 1] = 0) => end = code - 1
  BY ONLY DEF end
<1>b. /\ later = {} => unstripped = SubSeq(file, body, n)
      /\ later # {} => unstripped = SubSeq(file, body, Min(later) - 1)
  BY ONLY DEF unstripped
<1>c. frame = SubSeq(file, body, end)
  OBVIOUS
<1> HIDE DEF n, i, end, frame, unstripped
<1>4. later = codes
  <2>1. ASSUME NEW j \in i + 1..n, StartCodeAt(file, j)
        PROVE  j \in body..n
    <3>1. i + 3 <= j
      BY <1>0, <1>1, <2>1, StartCodesApart
    <3> QED  BY <1>0, <1>1, <3>1
  <2>2. body..n \subseteq i + 1..n
    BY <1>0, <1>1
  <2> QED  BY <2>1, <2>2
<1>5. codes # {} => /\ code \in body..n /\ StartCodeAt(file, code)
                    /\ \A j \in codes : code <= j
  <2>1. codes \in SUBSET Nat
    BY <1>1
  <2>2. codes # {} => code \in codes /\ \A j \in codes : code <= j
    <3> HIDE DEF codes
    <3> QED  BY <2>1, MinIsLeast
  <2> QED  BY <2>2
<1>6. body \in Nat /\ body = i + 3 /\ body - 3 \in 1..n
  BY <1>0, <1>1
<1>7. \A j \in 1..n : StartCodeAt(file, j) /\ i < j => j \in codes
  <2>1. \A j \in 1..n : i < j => j \in i + 1..n
    BY ONLY <1>0, <1>1
  <2>2. \A j \in i + 1..n : StartCodeAt(file, j) => j \in later
    OBVIOUS
  <2> HIDE DEF later, codes
  <2> QED  BY ONLY <1>4, <2>1, <2>2
<1>d. codes # {} => code = Min(later) /\ code \in Nat /\ code \in Int
  <2>1. code = Min(later)
    <3> HIDE DEF later, codes
    <3> QED  BY ONLY <1>4 DEF code
  <2> HIDE DEF later, codes, code, body
  <2> QED  BY ONLY <1>0, <1>5, <1>6, <2>1
<1> HIDE DEF later, body, codes, code
<1>8. ASSUME NEW last \in body - 1..n
      PROVE  /\ SubSeq(file, body, last) \in Seq(Nat)
             /\ Len(SubSeq(file, body, last)) = last - body + 1
             /\ \A j \in 1..last - body + 1 : SubSeq(file, body, last)[j] = file[body + j - 1]
  <2>1. \A j \in body..last : file[j] \in Nat
    BY <1>0, <1>6
  <2>2. /\ last >= body - 1 /\ last \in Int /\ (body <= last + 1) /\ last - body + 1 \in Nat
        /\ body \in Int
    BY <1>0, <1>6
  <2> QED  BY ONLY <2>1, <2>2, SubSeqProperties
<1>9. end \in body - 1..n
  <2>1. CASE codes = {}
    BY ONLY <1>a, <1>0, <1>1, <1>6, <2>1
  <2>2. CASE codes # {}
    <3>1. code \in body..n /\ n \in Nat /\ body \in Nat
      BY ONLY <1>0, <1>5, <1>6, <2>2
    <3>2. code > body => code - 2 \in body - 1..n
      BY ONLY <3>1
    <3>3. code - 1 \in body - 1..n
      BY ONLY <3>1
    <3> QED  BY ONLY <1>a, <2>2, <3>2, <3>3
  <2> QED  BY <2>1, <2>2
<1>10. frame # <<>> <=> end >= body
  <2>1. frame \in Seq(Nat) /\ Len(frame) = end - body + 1
    BY <1>8, <1>9, <1>c
  <2>2. frame # <<>> <=> Len(frame) # 0
    BY ONLY <2>1, EmptySeq
  <2> QED  BY ONLY <1>0, <1>6, <1>9, <2>1, <2>2
<1>11. frame = UnitAt(file, i)
  <2>1. CASE codes = {}
    BY ONLY <1>3, <1>4, <1>a, <1>b, <1>c, <2>1
  <2>2. CASE codes # {}
    <3>0. code \in body..n /\ n \in Nat /\ body \in Nat
      BY ONLY <1>0, <1>5, <1>6, <2>2
    <3>1. unstripped = SubSeq(file, body, code - 1)
      BY ONLY <1>4, <1>b, <1>d, <2>2
    <3>2. code - 1 \in body - 1..n
      BY ONLY <3>0
    <3>3. /\ unstripped \in Seq(Nat) /\ Len(unstripped) = code - body
          /\ \A j \in 1..code - body : unstripped[j] = file[body + j - 1]
      <4>1. (code - 1) - body + 1 = code - body
        BY ONLY <3>0
      <4> QED  BY ONLY <1>8, <3>1, <3>2, <4>1
    <3>4. unstripped # <<>> <=> code > body
      <4>1. unstripped # <<>> <=> Len(unstripped) # 0
        BY ONLY <3>3, EmptySeq
      <4>2. code - body # 0 <=> code > body
        BY ONLY <3>0
      <4> QED  BY ONLY <3>3, <4>1, <4>2
    <3>5. code > body => Last(unstripped) = file[code - 1]
      <4> SUFFICES ASSUME code > body PROVE Last(unstripped) = file[code - 1]
        OBVIOUS
      <4>1. code - body \in 1..code - body /\ body + (code - body) - 1 = code - 1
        BY ONLY <3>0, code > body
      <4> QED  BY ONLY <3>3, <4>1 DEF Last
    <3>6. CASE code > body /\ file[code - 1] = 0
      <4>1. end = code - 2
        BY ONLY <1>a, <2>2, <3>6
      <4>i. code - 2 \in body - 1..n
        BY ONLY <3>0, <3>6
      <4>2. /\ frame \in Seq(Nat) /\ Len(frame) = code - body - 1
            /\ \A j \in 1..code - body - 1 : frame[j] = file[body + j - 1]
        <5>1. (code - 2) - body + 1 = code - body - 1
          BY ONLY <3>0
        <5> QED  BY ONLY <1>8, <1>c, <4>1, <4>i, <5>1
      <4>3. Front(unstripped) = SubSeq(unstripped, 1, code - body - 1)
        BY ONLY <3>3 DEF Front
      <4> DEFINE front == SubSeq(unstripped, 1, code - body - 1)
                 m == code - body - 1
      <4>4. m \in Nat /\ m - 1 + 1 = m /\ \A j \in 1..m : j \in 1..code - body
        BY ONLY <3>0, <3>6
      <4>5. front \in Seq(Nat) /\ Len(front) = m /\ \A j \in 1..m : front[j] = unstripped[j]
        <5>1. \A j \in 1..m : unstripped[j] \in Nat
          BY ONLY <3>3, <4>4, ElementOfSeq
        <5> HIDE DEF m
        <5>2. /\ \A j \in 1..m : 1 + j - 1 = j
              /\ m \in Int /\ 1 \in Int /\ m - 1 + 1 = m /\ (1 <= m <=> m # 0)
          BY ONLY <4>4
        <5>3. front = SubSeq(unstripped, 1, m)
          BY DEF m
        <5> HIDE DEF front
        <5> QED  BY ONLY <4>4, <5>1, <5>2, <5>3, SubSeqProperties
      <4> HIDE DEF front, m
      <4>6. frame = front
        <5>1. /\ frame \in Seq(Nat) /\ Len(frame) = m
              /\ \A j \in 1..m : frame[j] = file[body + j - 1]
          BY ONLY <4>2 DEF m
        <5>2. \A j \in 1..m : unstripped[j] = file[body + j - 1]
          BY ONLY <3>3, <4>4
        <5> QED  BY ONLY <4>5, <5>1, <5>2, SeqEqual
      <4> QED  BY ONLY <1>3, <1>4, <2>2, <3>4, <3>5, <3>6, <4>3, <4>6 DEF front, m
    <3>7. CASE ~(code > body /\ file[code - 1] = 0)
      <4>1. end = code - 1
        BY ONLY <1>a, <2>2, <3>7
      <4>2. UnitAt(file, i) = unstripped
        BY ONLY <1>3, <1>4, <3>4, <3>5, <3>7
      <4> QED  BY ONLY <1>c, <3>1, <4>1, <4>2
    <3> QED  BY <3>6, <3>7
  <2> QED  BY <2>1, <2>2
<1>12. ASSUME NEW j \in 1..n, StartCodeAt(file, j), pos <= j, j < end + 1
       PROVE  j = i
  <2> SUFFICES ASSUME j # i PROVE FALSE
    OBVIOUS
  <2>1. i < j
    BY <1>0, <1>1, <1>12
  <2>2. j \in codes
    BY <1>7, <1>12, <2>1
  <2>3. codes # {} /\ code <= j /\ code \in Nat
    BY ONLY <1>5, <1>d, <2>2
  <2>4. end <= code - 1
    BY ONLY <1>a, <2>3
  <2>5. end \in Int /\ j \in Nat
    BY <1>0, <1>6, <1>9
  <2> QED  BY ONLY <1>12, <2>3, <2>4, <2>5
<1>13. end + 1 > n \/ StartCodeLength(file, end + 1) > 0
  <2>1. CASE codes = {}
    BY ONLY <1>0, <1>a, <2>1
  <2>2. CASE codes # {} /\ code > body /\ file[code - 1] = 0
    <3>1. code \in body..n /\ StartCodeAt(file, code) /\ n \in Nat /\ body \in Nat
      BY ONLY <1>0, <1>5, <1>6, <2>2
    <3>2. end = code - 2
      BY ONLY <1>a, <2>2
    <3>3. end + 1 = code - 1 /\ code - 1 < n /\ (code - 1) + 1 = code
      BY ONLY <2>2, <3>1, <3>2
    <3>4. StartCodeLength(file, end + 1) = IF StartCodeAt(file, end + 1) THEN 3 ELSE 4
      BY ONLY <2>2, <3>1, <3>3 DEF StartCodeLength, n
    <3> QED  BY ONLY <3>4
  <2>3. CASE codes # {} /\ ~(code > body /\ file[code - 1] = 0)
    <3>1. code \in body..n /\ StartCodeAt(file, code) /\ n \in Nat /\ body \in Nat
      BY ONLY <1>0, <1>5, <1>6, <2>3
    <3>2. end = code - 1
      BY ONLY <1>a, <2>3
    <3>3. end + 1 = code
      BY ONLY <3>1, <3>2
    <3> QED  BY ONLY <3>1, <3>3 DEF StartCodeLength
  <2> QED  BY <2>1, <2>2, <2>3
<1>14. i < end + 1 /\ end + 1 \in 1..n + 1
  <2>1. i \in 1..n /\ body \in Nat /\ body = i + 3 /\ n \in Nat
    BY ONLY <1>0, <1>1, <1>6
  <2> QED  BY ONLY <1>9, <2>1
<1> QED  BY <1>2, <1>10, <1>11, <1>12, <1>13, <1>14 DEF n, i

\* The NAL units of a file before a position have been taken, in order.
UnitsTaken(file, pos, nalus) ==
  LET read == {i \in UnitPlaces(file) : i < pos}
  IN  /\ Len(nalus) = Cardinality(read)
      /\ \A i \in read : nalus[Cardinality({j \in UnitPlaces(file) : j <= i})] = UnitAt(file, i)

\* The place of a NAL unit among the first ones of a file.
LEMMA PlaceAmongUnits ==
  ASSUME NEW n \in Nat, NEW units \in SUBSET (1..n), NEW pos \in Nat, NEW i \in units, i < pos
  PROVE  /\ IsFiniteSet(units) /\ IsFiniteSet({j \in units : j < pos})
         /\ Cardinality({j \in units : j < pos}) \in Nat
         /\ Cardinality({j \in units : j <= i}) \in 1..Cardinality({j \in units : j < pos})
<1> DEFINE read == {j \in units : j < pos}
           upTo == {j \in units : j <= i}
<1>1. IsFiniteSet(units)
  <2>1. IsFiniteSet(1..n)
    BY FS_Interval
  <2> QED  BY <2>1, FS_Subset
<1>2. read \subseteq units /\ upTo \subseteq read /\ i \in upTo
  <2>1. i \in Nat /\ \A j \in units : j \in Nat
    OBVIOUS
  <2>2. \A j \in units : j <= i => j < pos
    BY <2>1
  <2>3. i <= i
    BY <2>1
  <2>4. upTo \subseteq read
    BY ONLY <2>2
  <2> QED  BY <2>3, <2>4
<1> HIDE DEF read, upTo
<1>3. IsFiniteSet(read) /\ IsFiniteSet(upTo)
  BY ONLY <1>1, <1>2, FS_Subset
<1>4. Cardinality(upTo) <= Cardinality(read) /\ Cardinality(upTo) \in Nat /\ Cardinality(read) \in Nat
  BY ONLY <1>2, <1>3, FS_Subset, FS_CardinalityType
<1>5. Cardinality(upTo) # 0
  BY ONLY <1>2, <1>3, FS_EmptySet
<1> QED  BY <1>1, <1>3, <1>4, <1>5 DEF read, upTo

\* A call of readFrame at a start code takes the next NAL unit, or none if it is
\* empty.
LEMMA NextUnitTaken ==
  ASSUME NEW file \in Seq(Nat), NEW pos \in 1..Len(file) + 1, StartCodeLength(file, pos) > 0,
         NEW nalus \in Seq(Seq(Nat)), UnitsTaken(file, pos, nalus)
  PROVE  LET read == ReadNalu(file, pos) IN
         UnitsTaken(file, read.pos,
                    IF read.status = "Ok" THEN Append(nalus, read.frame) ELSE nalus)
<1> DEFINE U == UnitPlaces(file)
           next == ReadNalu(file, pos).pos
           frame == ReadNalu(file, pos).frame
           ok == ReadNalu(file, pos).status = "Ok"
           c == CodeFrom(file, pos)
           n == Len(file)
           before == {i \in U : i < pos}
           after == {i \in U : i < next}
           rank(i) == Cardinality({j \in U : j <= i})
           nalus1 == IF ok THEN Append(nalus, frame) ELSE nalus
<1>1. /\ c \in 1..n /\ pos <= c /\ StartCodeAt(file, c)
  BY CodeTakenOff
<1>2. /\ frame = UnitAt(file, c)
      /\ ok <=> UnitAt(file, c) # <<>>
      /\ c < next /\ next \in 1..n + 1
      /\ \A j \in 1..n : StartCodeAt(file, j) /\ pos <= j /\ j < next => j = c
  BY UnitIsRead
<1>3. /\ U \in SUBSET (1..n) /\ \A i \in U : StartCodeAt(file, i)
      /\ c \in U <=> ok
  <2>1. DOMAIN file = 1..n
    OBVIOUS
  <2> HIDE DEF c, n, ok, frame, next
  <2>2. U = {i \in 1..n : StartCodeAt(file, i) /\ UnitAt(file, i) # <<>>}
    BY ONLY <2>1 DEF UnitPlaces
  <2> HIDE DEF U
  <2> QED  BY ONLY <1>1, <1>2, <2>2
<1>4. /\ Len(nalus) = Cardinality(before)
      /\ \A i \in before : nalus[rank(i)] = UnitAt(file, i)
  BY DEF UnitsTaken
<1>5. frame \in Seq(Nat)
  BY NaluRead
<1>n. n \in Nat /\ pos \in Nat /\ next \in Nat
  BY <1>2
<1> HIDE DEF U, next, frame, ok, c, n
<1>6. IsFiniteSet(before) /\ Cardinality(before) \in Nat
  <2>1. before \in SUBSET (1..n)
    BY <1>3
  <2>2. IsFiniteSet(1..n)
    BY <1>n, FS_Interval
  <2> HIDE DEF before
  <2> QED  BY <2>1, <2>2, FS_Subset, FS_CardinalityType
<1>7. \A i \in before : rank(i) \in 1..Cardinality(before)
  BY <1>3, <1>n, PlaceAmongUnits
<1>8. \A j \in U : j \in Nat /\ (j < next <=> j < pos \/ j = c)
  <2> SUFFICES ASSUME NEW j \in U PROVE j \in Nat /\ (j < next <=> j < pos \/ j = c)
    OBVIOUS
  <2>1. j \in 1..n /\ StartCodeAt(file, j)
    BY <1>3
  <2> QED  BY <1>1, <1>2, <1>n, <2>1
<1>9. /\ after = IF ok THEN before \cup {c} ELSE before
      /\ ok => {j \in U : j <= c} = after /\ c \notin before
  <2>1. c \in Nat /\ pos <= c
    BY <1>1, <1>n
  <2>2. \A j \in U : j < next <=> j <= c
    BY <1>2, <1>8, <1>n, <2>1
  <2>3. ~(c < pos)
    BY <1>n, <2>1
  <2>4. \A j \in U : j \in after <=> j \in before \/ j = c
    BY <1>8
  <2> QED  BY <1>3, <2>2, <2>3, <2>4
<1> HIDE DEF before, after
<1>10. CASE ok
  <2>1. Cardinality(after) = Cardinality(before) + 1
    BY <1>6, <1>9, <1>10, FS_AddElement
  <2>2. /\ Len(nalus1) = Len(nalus) + 1
        /\ \A k \in 1..Len(nalus) : nalus1[k] = nalus[k]
        /\ nalus1[Len(nalus) + 1] = frame
    BY <1>5, <1>10, AppendProperties
  <2> HIDE DEF nalus1
  <2>3. ASSUME NEW i \in after PROVE nalus1[rank(i)] = UnitAt(file, i)
    <3>1. CASE i \in before
      <4> HIDE DEF rank
      <4> QED  BY <1>4, <1>7, <2>2, <3>1
    <3>2. CASE i = c
      <4>1. rank(i) = Len(nalus) + 1
        BY <1>4, <1>9, <1>10, <2>1, <3>2
      <4> HIDE DEF rank
      <4>2. UnitAt(file, i) = frame
        BY <1>2, <3>2
      <4> QED  BY ONLY <2>2, <4>1, <4>2
    <3> QED  BY <1>9, <1>10, <3>1, <3>2
  <2>4. Len(nalus1) = Cardinality(after)
    BY <1>4, <2>1, <2>2
  <2> QED  BY <2>3, <2>4 DEF UnitsTaken, after, nalus1, ok, next, U, frame
<1>11. CASE ~ok
  <2>1. after = before /\ nalus1 = nalus
    BY <1>9, <1>11
  <2>2. Len(nalus1) = Cardinality(after) /\ \A i \in after : nalus1[rank(i)] = UnitAt(file, i)
    <3> HIDE DEF nalus1, rank
    <3> QED  BY <1>4, <2>1
  <2> HIDE DEF nalus1
  <2> QED  BY <2>2 DEF UnitsTaken, after, nalus1, ok, next, U, frame
<1> QED  BY <1>10, <1>11

-----------------------------------------------------------------------------
(***************************************************************************)
(* What a receiver makes of packets, and what it should get.               *)
(***************************************************************************)
\* What has been received is what the function it is defined with gives: after
\* no packets nothing, and a packet more is received after the others.
LEMMA ReceivedOneByOne ==
  /\ Received(<<>>) = NothingReceived
  /\ \A S : \A s \in Seq(S), x \in S : Received(Append(s, x)) = Receive(Received(s), x)
<1> DEFINE Step(f, s, i) == IF i = 0 THEN NothingReceived ELSE Receive(f[i - 1], s[i])
           Of(f, s, n) == f = [i \in 0..n |-> Step(f, s, i)]
           F(s) == CHOOSE f : Of(f, s, Len(s))
<1>1. \A s : Received(s) = F(s)[Len(s)]
  BY DEF Received
<1>2. ASSUME NEW s, NEW N \in Nat
      PROVE  \E f : Of(f, s, N)
  <2> DEFINE P == {n \in 0..N : \E f : Of(f, s, n)}
  <2>1. 0 \in P
    <3> DEFINE f == [i \in 0..0 |-> NothingReceived]
    <3>1. Of(f, s, 0)
      OBVIOUS
    <3> HIDE DEF f, Of
    <3> QED  BY <3>1
  <2>2. ASSUME NEW n \in 0..N - 1, n \in P
        PROVE  n + 1 \in P
    <3>1. PICK f : Of(f, s, n)
      BY <2>2
    <3> DEFINE g == [i \in 0..n + 1 |-> IF i = n + 1 THEN Receive(f[n], s[n + 1]) ELSE f[i]]
    <3>2. ASSUME NEW i \in 0..n + 1
          PROVE  g[i] = Step(g, s, i)
      <4>1. CASE i = n + 1
        BY <4>1
      <4>2. CASE i # n + 1
        <5>1. i \in 0..n /\ g[i] = f[i] /\ (i # 0 => g[i - 1] = f[i - 1])
          BY <4>2
        <5>2. f[i] = Step(f, s, i)
          BY <3>1, <5>1
        <5> QED  BY <5>1, <5>2
      <4> QED  BY <4>1, <4>2
    <3>3. g = [i \in 0..n + 1 |-> g[i]]
      OBVIOUS
    <3> HIDE DEF g, Step
    <3>4. Of(g, s, n + 1)
      BY <3>2, <3>3
    <3> HIDE DEF Of
    <3> QED  BY <3>4
  <2> HIDE DEF P, Of
  <2>3. N \in P
    BY <2>1, <2>2, BoundedInduction
  <2> QED  BY <2>3 DEF P
<1>3. ASSUME NEW s, NEW N \in Nat, NEW f, NEW g, Of(f, s, N), Of(g, s, N)
      PROVE  f = g
  <2> DEFINE P == {n \in 0..N : f[n] = g[n]}
  <2>1. 0 \in P
    BY <1>3
  <2>2. ASSUME NEW n \in 0..N - 1, n \in P
        PROVE  n + 1 \in P
    <3>1. n + 1 \in 0..N /\ n + 1 # 0 /\ (n + 1) - 1 = n
      OBVIOUS
    <3>2. f[n + 1] = Receive(f[n], s[n + 1]) /\ g[n + 1] = Receive(g[n], s[n + 1])
      BY <1>3, <3>1
    <3> QED  BY <2>2, <3>1, <3>2
  <2> HIDE DEF P
  <2>3. 0..N \subseteq P
    BY <2>1, <2>2, BoundedInduction
  <2>4. \A n \in 0..N : f[n] = g[n]
    BY <2>3 DEF P
  <2>5. f = [n \in 0..N |-> f[n]] /\ g = [n \in 0..N |-> g[n]]
    BY <1>3
  <2> QED  BY ONLY <2>4, <2>5
<1>4. ASSUME NEW s, Len(s) \in Nat
      PROVE  Of(F(s), s, Len(s))
  <2> HIDE DEF Of
  <2> QED  BY <1>2, <1>4
<1> HIDE DEF F
<1>5. Received(<<>>) = NothingReceived
  BY <1>1, <1>4
<1>6. ASSUME NEW S, NEW s \in Seq(S), NEW x \in S
      PROVE  Received(Append(s, x)) = Receive(Received(s), x)
  <2> DEFINE t == Append(s, x)
             n == Len(s)
             g == [i \in 0..n |-> F(t)[i]]
  <2>1. /\ t \in Seq(S) /\ Len(t) = n + 1 /\ n \in Nat /\ t[n + 1] = x
        /\ \A i \in 1..n : t[i] = s[i]
    BY AppendProperties
  <2> HIDE DEF t, n
  <2>2. \A i \in 0..n + 1 : F(t)[i] = Step(F(t), t, i)
    <3>1. Of(F(t), t, n + 1)
      BY <1>4, <2>1
    <3> QED  BY <3>1
  <2>3. Of(g, s, n)
    <3>1. ASSUME NEW i \in 0..n PROVE g[i] = Step(g, s, i)
      <4>1. i \in 0..n + 1 /\ (i # 0 => i \in 1..n /\ i - 1 \in 0..n)
        BY <2>1
      <4> QED  BY <2>1, <2>2, <4>1
    <3>2. g = [i \in 0..n |-> g[i]]
      OBVIOUS
    <3> HIDE DEF g, Step
    <3> QED  BY <3>1, <3>2
  <2>4. F(s) = g
    <3>1. Of(F(s), s, n)
      BY <1>4, <2>1 DEF n
    <3> HIDE DEF Of, g
    <3> QED  BY <1>3, <2>1, <2>3, <3>1
  <2>5. F(t)[n + 1] = Receive(F(t)[n], x)
    <3>1. n + 1 \in 0..n + 1 /\ n + 1 # 0 /\ (n + 1) - 1 = n
      BY <2>1
    <3> QED  BY <2>1, <2>2, <3>1
  <2>6. F(t)[n] = F(s)[n]
    BY <2>1, <2>4
  <2> QED  BY <1>1, <2>1, <2>5, <2>6 DEF t, n
<1> QED  BY <1>5, <1>6

\* The same of what a receiver should get.
LEMMA ExpectedOneByOne ==
  /\ Expected(<<>>) = NothingExpected
  /\ \A S : \A s \in Seq(S), x \in S : Expected(Append(s, x)) = Expect(Expected(s), x)
<1> DEFINE Step(f, s, i) == IF i = 0 THEN NothingExpected ELSE Expect(f[i - 1], s[i])
           Of(f, s, n) == f = [i \in 0..n |-> Step(f, s, i)]
           F(s) == CHOOSE f : Of(f, s, Len(s))
<1>1. \A s : Expected(s) = F(s)[Len(s)]
  BY DEF Expected
<1>2. ASSUME NEW s, NEW N \in Nat
      PROVE  \E f : Of(f, s, N)
  <2> DEFINE P == {n \in 0..N : \E f : Of(f, s, n)}
  <2>1. 0 \in P
    <3> DEFINE f == [i \in 0..0 |-> NothingExpected]
    <3>1. Of(f, s, 0)
      OBVIOUS
    <3> HIDE DEF f, Of
    <3> QED  BY <3>1
  <2>2. ASSUME NEW n \in 0..N - 1, n \in P
        PROVE  n + 1 \in P
    <3>1. PICK f : Of(f, s, n)
      BY <2>2
    <3> DEFINE g == [i \in 0..n + 1 |-> IF i = n + 1 THEN Expect(f[n], s[n + 1]) ELSE f[i]]
    <3>2. ASSUME NEW i \in 0..n + 1
          PROVE  g[i] = Step(g, s, i)
      <4>1. CASE i = n + 1
        BY <4>1
      <4>2. CASE i # n + 1
        <5>1. i \in 0..n /\ g[i] = f[i] /\ (i # 0 => g[i - 1] = f[i - 1])
          BY <4>2
        <5>2. f[i] = Step(f, s, i)
          BY <3>1, <5>1
        <5> QED  BY <5>1, <5>2
      <4> QED  BY <4>1, <4>2
    <3>3. g = [i \in 0..n + 1 |-> g[i]]
      OBVIOUS
    <3> HIDE DEF g, Step
    <3>4. Of(g, s, n + 1)
      BY <3>2, <3>3
    <3> HIDE DEF Of
    <3> QED  BY <3>4
  <2> HIDE DEF P, Of
  <2>3. N \in P
    BY <2>1, <2>2, BoundedInduction
  <2> QED  BY <2>3 DEF P
<1>3. ASSUME NEW s, NEW N \in Nat, NEW f, NEW g, Of(f, s, N), Of(g, s, N)
      PROVE  f = g
  <2> DEFINE P == {n \in 0..N : f[n] = g[n]}
  <2>1. 0 \in P
    BY <1>3
  <2>2. ASSUME NEW n \in 0..N - 1, n \in P
        PROVE  n + 1 \in P
    <3>1. n + 1 \in 0..N /\ n + 1 # 0 /\ (n + 1) - 1 = n
      OBVIOUS
    <3>2. f[n + 1] = Expect(f[n], s[n + 1]) /\ g[n + 1] = Expect(g[n], s[n + 1])
      BY <1>3, <3>1
    <3> QED  BY <2>2, <3>1, <3>2
  <2> HIDE DEF P
  <2>3. 0..N \subseteq P
    BY <2>1, <2>2, BoundedInduction
  <2>4. \A n \in 0..N : f[n] = g[n]
    BY <2>3 DEF P
  <2>5. f = [n \in 0..N |-> f[n]] /\ g = [n \in 0..N |-> g[n]]
    BY <1>3
  <2> QED  BY ONLY <2>4, <2>5
<1>4. ASSUME NEW s, Len(s) \in Nat
      PROVE  Of(F(s), s, Len(s))
  <2> HIDE DEF Of
  <2> QED  BY <1>2, <1>4
<1> HIDE DEF F
<1>5. Expected(<<>>) = NothingExpected
  BY <1>1, <1>4
<1>6. ASSUME NEW S, NEW s \in Seq(S), NEW x \in S
      PROVE  Expected(Append(s, x)) = Expect(Expected(s), x)
  <2> DEFINE t == Append(s, x)
             n == Len(s)
             g == [i \in 0..n |-> F(t)[i]]
  <2>1. /\ t \in Seq(S) /\ Len(t) = n + 1 /\ n \in Nat /\ t[n + 1] = x
        /\ \A i \in 1..n : t[i] = s[i]
    BY AppendProperties
  <2> HIDE DEF t, n
  <2>2. \A i \in 0..n + 1 : F(t)[i] = Step(F(t), t, i)
    <3>1. Of(F(t), t, n + 1)
      BY <1>4, <2>1
    <3> QED  BY <3>1
  <2>3. Of(g, s, n)
    <3>1. ASSUME NEW i \in 0..n PROVE g[i] = Step(g, s, i)
      <4>1. i \in 0..n + 1 /\ (i # 0 => i \in 1..n /\ i - 1 \in 0..n)
        BY <2>1
      <4> QED  BY <2>1, <2>2, <4>1
    <3>2. g = [i \in 0..n |-> g[i]]
      OBVIOUS
    <3> HIDE DEF g, Step
    <3> QED  BY <3>1, <3>2
  <2>4. F(s) = g
    <3>1. Of(F(s), s, n)
      BY <1>4, <2>1 DEF n
    <3> HIDE DEF Of, g
    <3> QED  BY <1>3, <2>1, <2>3, <3>1
  <2>5. F(t)[n + 1] = Expect(F(t)[n], x)
    <3>1. n + 1 \in 0..n + 1 /\ n + 1 # 0 /\ (n + 1) - 1 = n
      BY <2>1
    <3> QED  BY <2>1, <2>2, <3>1
  <2>6. F(t)[n] = F(s)[n]
    BY <2>1, <2>4
  <2> QED  BY <1>1, <2>1, <2>5, <2>6 DEF t, n
<1> QED  BY <1>5, <1>6

\* Sequence numbers: m packets later and then n packets later.
LEMMA NextSeqAdds ==
  ASSUME NEW seq \in Nat, NEW m \in Nat, NEW n \in Nat
  PROVE  NextSeq(NextSeq(seq, m), n) = NextSeq(seq, m + n)
<1> DEFINE b == SeqLimit
           q == (seq + m) \div b
           r == (seq + m) % b
           q2 == (r + n) \div b
           r2 == (r + n) % b
<1>0. b \in Nat \ {0}
  BY Numbers
<1> HIDE DEF b
<1>1. q \in Nat /\ r \in 0..b - 1 /\ seq + m = q * b + r
  BY ONLY <1>0, seq + m \in Nat
<1> HIDE DEF q, r
<1>2. q2 \in Nat /\ r2 \in 0..b - 1 /\ r + n = q2 * b + r2
  BY ONLY <1>0, <1>1, r + n \in Nat
<1> HIDE DEF q2, r2
<1>3. (q + q2) * b = q * b + q2 * b /\ q * b \in Nat /\ q2 * b \in Nat
  BY ONLY <1>0, <1>1, <1>2
<1>4. seq + (m + n) = (q + q2) * b + r2
  <2> DEFINE x == q * b
             y == q2 * b
             z == (q + q2) * b
  <2>1. z = x + y /\ x \in Nat /\ y \in Nat /\ seq + m = x + r /\ r + n = y + r2
    BY <1>1, <1>2, <1>3
  <2>2. r \in Nat /\ r2 \in Nat
    BY <1>0, <1>1, <1>2
  <2> HIDE DEF x, y, z
  <2>3. seq + (m + n) = z + r2
    BY ONLY <2>1, <2>2, seq \in Nat, m \in Nat, n \in Nat
  <2> QED  BY <2>3 DEF z
<1>5. ((q + q2) * b + r2) % b = r2
  BY ONLY <1>0, <1>1, <1>2, q + q2 \in Nat, Division
<1> QED  BY <1>4, <1>5 DEF NextSeq, r2, r, b

LEMMA NextSeqOfNone ==
  ASSUME NEW seq \in 0..SeqLimit - 1
  PROVE  NextSeq(seq, 0) = seq
<1>1. SeqLimit \in Nat \ {0}
  BY Numbers
<1>2. seq % SeqLimit = seq /\ seq + 0 = seq
  BY ONLY <1>1, seq \in 0..SeqLimit - 1
<1> QED  BY <1>2 DEF NextSeq

\* The packets of payloads that follow others have the numbers that follow.
LEMMA PacketsConcat ==
  ASSUME NEW S, NEW p \in Seq(S), NEW r \in Seq(S), NEW seq \in Nat, NEW ts
  PROVE  Packets(p \o r, seq, ts) = Packets(p, seq, ts) \o Packets(r, NextSeq(seq, Len(p)), ts)
<1> DEFINE m == Len(p)
           n == Len(r)
           packet(x, k) == [seq |-> k, ts |-> ts, marker |-> x.kind = "fu" => x.end, payload |-> x]
           all == p \o r
           P == Packets(p, seq, ts)
           R == Packets(r, NextSeq(seq, m), ts)
           A == Packets(all, seq, ts)
<1>1. /\ m \in Nat /\ n \in Nat /\ all \in Seq(S) /\ Len(all) = m + n
      /\ \A i \in 1..m + n : all[i] = IF i <= m THEN p[i] ELSE r[i - m]
  BY ConcatProperties
<1>2. /\ A = [i \in 1..m + n |-> packet(all[i], NextSeq(seq, i - 1))]
      /\ P = [i \in 1..m |-> packet(p[i], NextSeq(seq, i - 1))]
      /\ R = [i \in 1..n |-> packet(r[i], NextSeq(NextSeq(seq, m), i - 1))]
  <2>1. DOMAIN all = 1..m + n /\ DOMAIN p = 1..m /\ DOMAIN r = 1..n
    BY <1>1
  <2> HIDE DEF m, n, all
  <2> QED  BY <2>1 DEF Packets
<1> HIDE DEF all, m, n, A, P, R, packet
<1> DEFINE T == {packet(x, k) : x \in S, k \in Nat}
<1>3. \A k \in Nat, j \in Nat : NextSeq(k, j) \in Nat
  <2> TAKE k \in Nat, j \in Nat
  <2>1. NextSeq(k, j) \in 0..SeqLimit - 1
    BY NextSeqWraps
  <2> QED  BY <2>1, Numbers
<1>4. \A i \in 1..m + n : all[i] \in S
  BY <1>1, ElementOfSeq
<1>5. \A i \in 1..m : p[i] \in S
  BY ElementOfSeq DEF m
<1>6. \A i \in 1..n : r[i] \in S
  BY ElementOfSeq DEF n
<1>7. A \in Seq(T) /\ Len(A) = m + n
  <2>1. \A i \in 1..m + n : packet(all[i], NextSeq(seq, i - 1)) \in T
    BY <1>1, <1>3, <1>4
  <2>2. m + n \in Nat
    BY <1>1
  <2> DEFINE k == m + n
  <2> HIDE DEF T, k
  <2>3. A \in Seq(T) /\ Len(A) = k
    <3>1. k \in Nat /\ A = [i \in 1..k |-> packet(all[i], NextSeq(seq, i - 1))]
      BY ONLY <1>2, <2>2 DEF k
    <3>2. \A i \in 1..k : packet(all[i], NextSeq(seq, i - 1)) \in T
      BY ONLY <2>1 DEF k
    <3> QED  BY ONLY <3>1, <3>2
  <2> QED  BY ONLY <2>3 DEF k
<1>8. P \in Seq(T) /\ Len(P) = m
  <2>1. \A i \in 1..m : packet(p[i], NextSeq(seq, i - 1)) \in T
    BY <1>1, <1>3, <1>5
  <2>2. P = [i \in 1..m |-> packet(p[i], NextSeq(seq, i - 1))] /\ m \in Nat
    BY <1>1, <1>2
  <2> HIDE DEF T, P, m, packet
  <2> QED  BY ONLY <2>1, <2>2
<1>9. R \in Seq(T) /\ Len(R) = n
  <2>1. \A i \in 1..n : packet(r[i], NextSeq(NextSeq(seq, m), i - 1)) \in T
    BY <1>1, <1>3, <1>6
  <2>2. R = [i \in 1..n |-> packet(r[i], NextSeq(NextSeq(seq, m), i - 1))] /\ n \in Nat
    BY <1>1, <1>2
  <2> HIDE DEF T, R, n, m, packet
  <2> QED  BY ONLY <2>1, <2>2
<1>10. /\ P \o R \in Seq(T) /\ Len(P \o R) = m + n
       /\ \A i \in 1..m + n : (P \o R)[i] = IF i <= m THEN P[i] ELSE R[i - m]
  <2> HIDE DEF T
  <2> QED  BY ONLY <1>8, <1>9, ConcatProperties
<1>11. ASSUME NEW i \in 1..m + n
       PROVE  A[i] = (P \o R)[i]
  <2>1. CASE i <= m
    <3>1. i \in 1..m /\ all[i] = p[i] /\ (P \o R)[i] = P[i]
      BY <1>1, <1>10, <2>1
    <3> QED  BY <1>2, <3>1
  <2>2. CASE ~(i <= m)
    <3>1. i - m \in 1..n
      BY <1>1, <2>2
    <3>0. all[i] = r[i - m] /\ (P \o R)[i] = R[i - m]
      <4> DEFINE PR == P \o R
      <4>1. \A k \in 1..m + n : PR[k] = IF k <= m THEN P[k] ELSE R[k - m]
        BY ONLY <1>10
      <4>2. \A k \in 1..m + n : all[k] = IF k <= m THEN p[k] ELSE r[k - m]
        BY ONLY <1>1
      <4> HIDE DEF PR
      <4>3. PR[i] = R[i - m]
        BY ONLY <2>2, <4>1, i \in 1..m + n
      <4>4. all[i] = r[i - m]
        BY ONLY <2>2, <4>2, i \in 1..m + n
      <4> QED  BY ONLY <4>3, <4>4 DEF PR
    <3>2. NextSeq(NextSeq(seq, m), (i - m) - 1) = NextSeq(seq, i - 1)
      <4>1. (i - m) - 1 \in Nat /\ m + ((i - m) - 1) = i - 1
        BY <1>1, <2>2
      <4> QED  BY <1>1, <4>1, NextSeqAdds
    <3> QED  BY <1>2, <3>0, <3>1, <3>2
  <2> QED  BY <2>1, <2>2
<1>12. A = P \o R
  <2> HIDE DEF T
  <2> QED  BY ONLY <1>7, <1>10, <1>11, SeqEqual
<1> QED  BY <1>12 DEF A, P, R, all, m

\* What a receiver has when no fragment is outstanding.
At(nalus, seq) == [nalus |-> nalus, partial |-> <<>>, next |-> seq, sound |-> TRUE]
StampedNalu == [nalu : Seq(Nat), ts : Nat]

LEMMA StampedTyped ==
  ASSUME NEW nalus \in Seq(Seq(Nat)), NEW ts \in Nat
  PROVE  /\ Stamped(nalus, ts) \in Seq(StampedNalu) /\ Len(Stamped(nalus, ts)) = Len(nalus)
         /\ Stamped(<<>>, ts) = <<>>
         /\ \A i \in 1..Len(nalus) : Stamped(nalus, ts)[i] = [nalu |-> nalus[i], ts |-> ts]
<1>1. DOMAIN nalus = 1..Len(nalus) /\ Len(nalus) \in Nat /\ \A i \in 1..Len(nalus) : nalus[i] \in Seq(Nat)
  BY ElementOfSeq
<1> DEFINE n == Len(nalus)
<1>2. Stamped(nalus, ts) = [i \in 1..n |-> [nalu |-> nalus[i], ts |-> ts]]
  BY <1>1 DEF Stamped
<1>3. \A i \in 1..n : [nalu |-> nalus[i], ts |-> ts] \in StampedNalu
  BY <1>1 DEF StampedNalu
<1>4. Stamped(<<>>, ts) = <<>>
  BY DEF Stamped
<1> HIDE DEF n, StampedNalu
<1>5. n \in Nat
  BY <1>1 DEF n
<1>6. Stamped(nalus, ts) \in Seq(StampedNalu) /\ Len(Stamped(nalus, ts)) = n
  BY ONLY <1>2, <1>3, <1>5
<1> QED  BY <1>2, <1>4, <1>6 DEF n

LEMMA StampedConcat ==
  ASSUME NEW a \in Seq(Seq(Nat)), NEW b \in Seq(Seq(Nat)), NEW ts \in Nat
  PROVE  Stamped(a \o b, ts) = Stamped(a, ts) \o Stamped(b, ts)
<1> DEFINE ab == a \o b
           A == Stamped(a, ts)
           B == Stamped(b, ts)
           C == Stamped(ab, ts)
           AB == A \o B
<1>1. /\ ab \in Seq(Seq(Nat)) /\ Len(ab) = Len(a) + Len(b)
      /\ \A i \in 1..Len(a) + Len(b) : ab[i] = IF i <= Len(a) THEN a[i] ELSE b[i - Len(a)]
  BY ConcatProperties
<1>2. /\ A \in Seq(StampedNalu) /\ Len(A) = Len(a)
      /\ \A i \in 1..Len(a) : A[i] = [nalu |-> a[i], ts |-> ts]
  BY StampedTyped
<1>3. /\ B \in Seq(StampedNalu) /\ Len(B) = Len(b)
      /\ \A i \in 1..Len(b) : B[i] = [nalu |-> b[i], ts |-> ts]
  BY StampedTyped
<1> HIDE DEF ab, A, B, StampedNalu
<1>4. /\ C \in Seq(StampedNalu) /\ Len(C) = Len(a) + Len(b)
      /\ \A i \in 1..Len(a) + Len(b) : C[i] = [nalu |-> ab[i], ts |-> ts]
  <2>1. /\ C \in Seq(StampedNalu) /\ Len(C) = Len(ab)
        /\ \A i \in 1..Len(ab) : C[i] = [nalu |-> ab[i], ts |-> ts]
    BY <1>1, StampedTyped
  <2> HIDE DEF C
  <2> QED  BY ONLY <1>1, <2>1
<1>5. /\ AB \in Seq(StampedNalu) /\ Len(AB) = Len(a) + Len(b)
      /\ \A i \in 1..Len(a) + Len(b) : AB[i] = IF i <= Len(a) THEN A[i] ELSE B[i - Len(a)]
  <2>1. /\ AB \in Seq(StampedNalu) /\ Len(AB) = Len(A) + Len(B)
        /\ \A i \in 1..Len(A) + Len(B) : AB[i] = IF i <= Len(A) THEN A[i] ELSE B[i - Len(A)]
    BY ONLY <1>2, <1>3, ConcatProperties
  <2> HIDE DEF AB
  <2> QED  BY ONLY <1>2, <1>3, <2>1
<1> HIDE DEF AB, C
<1>6. ASSUME NEW i \in 1..Len(a) + Len(b)
      PROVE  C[i] = AB[i]
  <2>0. Len(a) \in Nat /\ Len(b) \in Nat
    OBVIOUS
  <2>1. CASE i <= Len(a)
    <3>1. i \in 1..Len(a)
      BY <2>0, <2>1
    <3>2. C[i] = [nalu |-> a[i], ts |-> ts] /\ AB[i] = A[i]
      BY ONLY <1>1, <1>4, <1>5, <2>1, i \in 1..Len(a) + Len(b)
    <3> QED  BY ONLY <1>2, <3>1, <3>2
  <2>2. CASE ~(i <= Len(a))
    <3>1. i - Len(a) \in 1..Len(b)
      BY <2>0, <2>2
    <3>2. C[i] = [nalu |-> b[i - Len(a)], ts |-> ts] /\ AB[i] = B[i - Len(a)]
      BY ONLY <1>1, <1>4, <1>5, <2>2, i \in 1..Len(a) + Len(b)
    <3> QED  BY ONLY <1>3, <3>1, <3>2
  <2> QED  BY <2>1, <2>2
<1>7. C = AB
  BY ONLY <1>4, <1>5, <1>6, SeqEqual
<1> QED  BY <1>7 DEF C, AB, A, B, ab

LEMMA ReceivedNext ==
  ASSUME NEW s \in Seq(VideoPacket), NEW a \in Seq(VideoPacket), NEW x \in VideoPacket
  PROVE  Received(s \o Append(a, x)) = Receive(Received(s \o a), x)
<1>1. s \o Append(a, x) = Append(s \o a, x)
  <2> HIDE DEF VideoPacket
  <2> QED  OBVIOUS
<1>2. s \o a \in Seq(VideoPacket)
  BY ConcatProperties
<1> QED  BY <1>1, <1>2, ReceivedOneByOne

\* The fragments of a NAL unit: how many, and what each carries.
LEMMA FragmentsCarry ==
  ASSUME NEW nalu \in Seq(Nat), Len(nalu) + RtpHeader > Mtu
  PROVE  \E most \in Nat \ {0}, n \in Nat :
           /\ n > 1 /\ Fragments(nalu) \in Seq(Fitting) /\ Len(Fragments(nalu)) = n
           /\ \A i \in 1..n :
                LET from == 1 + (i - 1) * most
                    to == IF i = n THEN Len(nalu) ELSE 1 + i * most
                IN  /\ from \in 1..Len(nalu) /\ to \in from..Len(nalu)
                    /\ Fragments(nalu)[i] =
                         [kind |-> "fu", start |-> i = 1, end |-> i = n, header |-> nalu[1],
                          data |-> SubSeq(nalu, from + 1, to)]
<1> DEFINE most == Mtu - RtpHeader - FuHeader
           bytes == Len(nalu) - 2
           n == bytes \div most + 1
           fu(i) == [kind |-> "fu", start |-> i = 1, end |-> i = n, header |-> nalu[1],
                     data |-> SubSeq(nalu, 2 + (i - 1) * most,
                                     IF i = n THEN Len(nalu) ELSE 1 + i * most)]
<1>1. most \in Nat \ {0} /\ bytes \in Nat /\ Len(nalu) = bytes + 2 /\ bytes > most
  BY Numbers DEF RtpHeader, FuHeader
<1>2. Fragments(nalu) = [i \in 1..n |-> fu(i)]
  BY DEF Fragments
<1> HIDE DEF most, bytes, n
<1>3. \A i \in 1..n : /\ (i - 1) * most \in Nat /\ i * most = (i - 1) * most + most
                      /\ (i - 1) * most <= bytes
                      /\ i # n => i * most <= bytes
                      /\ i = n => bytes < i * most
  <2> TAKE i \in 1..n
  <2>1. i \in 1..bytes \div most + 1
    BY DEF n
  <2> QED  BY ONLY <1>1, <2>1, Pieces DEF n
<1>4. n \in Nat /\ n > 1
  <2>1. 1 \in 1..bytes \div most + 1
    BY <1>1
  <2>2. n \in Nat \ {0}
    BY ONLY <1>1, <2>1, Pieces DEF n
  <2>3. 1 \in 1..n
    BY <2>2
  <2>4. 1 * most = most
    BY ONLY <1>1
  <2>5. n # 1
    BY <1>1, <1>3, <2>3, <2>4
  <2> QED  BY <2>2, <2>5
<1> HIDE DEF fu
<1>5. Fragments(nalu) \in Seq(Fitting) /\ Len(Fragments(nalu)) = n
  <2>1. Fragments(nalu) \in Seq(Fitting)
    BY FragmentsFit
  <2>2. DOMAIN Fragments(nalu) = 1..n
    BY <1>2
  <2>3. DOMAIN Fragments(nalu) = 1..Len(Fragments(nalu)) /\ Len(Fragments(nalu)) \in Nat
    BY <2>1
  <2> QED  BY <1>4, <2>1, <2>2, <2>3
<1>6. ASSUME NEW i \in 1..n
      PROVE  LET from == 1 + (i - 1) * most
                 to == IF i = n THEN Len(nalu) ELSE 1 + i * most
             IN  /\ from \in 1..Len(nalu) /\ to \in from..Len(nalu)
                 /\ Fragments(nalu)[i] =
                      [kind |-> "fu", start |-> i = 1, end |-> i = n, header |-> nalu[1],
                       data |-> SubSeq(nalu, from + 1, to)]
  <2> DEFINE x == (i - 1) * most
             w == i * most
             to == IF i = n THEN Len(nalu) ELSE 1 + w
  <2>1. /\ x \in Nat /\ w = x + most /\ x <= bytes
        /\ i # n => w <= bytes
    BY <1>3
  <2>2. Fragments(nalu)[i] = [kind |-> "fu", start |-> i = 1, end |-> i = n, header |-> nalu[1],
                              data |-> SubSeq(nalu, 2 + x, to)]
    BY <1>2 DEF fu
  <2> HIDE DEF x, w
  <2>3. 1 + x \in 1..Len(nalu) /\ to \in 1 + x..Len(nalu) /\ 2 + x = (1 + x) + 1
    BY ONLY <1>1, <2>1
  <2> QED  BY <2>2, <2>3 DEF x, w
<1> QED  BY <1>1, <1>4, <1>5, <1>6

\* The packets of payloads, one by one.
LEMMA PacketOf ==
  ASSUME NEW payloads \in Seq(Fitting), NEW seq \in 0..SeqLimit - 1, NEW ts \in Nat
  PROVE  /\ Packets(payloads, seq, ts) \in Seq(VideoPacket)
         /\ Len(Packets(payloads, seq, ts)) = Len(payloads)
         /\ \A i \in 1..Len(payloads) :
              /\ Packets(payloads, seq, ts)[i].payload = payloads[i]
              /\ Packets(payloads, seq, ts)[i].seq = NextSeq(seq, i - 1)
              /\ Packets(payloads, seq, ts)[i].ts = ts
<1> DEFINE P == Packets(payloads, seq, ts)
           n == Len(payloads)
<1>1. DOMAIN payloads = 1..n /\ n \in Nat
  OBVIOUS
<1>2. P \in Seq(VideoPacket)
  BY PacketsTyped
<1> HIDE DEF n
<1>3. P = [i \in 1..n |-> [seq |-> NextSeq(seq, i - 1), ts |-> ts,
                           marker |-> payloads[i].kind = "fu" => payloads[i].end,
                           payload |-> payloads[i]]]
  BY ONLY <1>1 DEF Packets
<1> HIDE DEF P
<1>4. Len(P) = n
  <2>1. DOMAIN P = 1..n /\ DOMAIN P = 1..Len(P) /\ Len(P) \in Nat
    <3>1. DOMAIN P = 1..n
      BY ONLY <1>3, Zenon
    <3> QED  BY ONLY <1>2, <3>1
  <2> QED  BY ONLY <1>1, <2>1
<1>5. \A i \in 1..n : P[i].payload = payloads[i] /\ P[i].seq = NextSeq(seq, i - 1) /\ P[i].ts = ts
  BY ONLY <1>3
<1> QED  BY <1>2, <1>4, <1>5 DEF P, n

\* One packet later.
LEMMA NextSeqStep ==
  ASSUME NEW seq \in Nat, NEW j \in Nat
  PROVE  (NextSeq(seq, j) + 1) % SeqLimit = NextSeq(seq, j + 1)
<1>1. NextSeq(NextSeq(seq, j), 1) = NextSeq(seq, j + 1)
  BY NextSeqAdds, 1 \in Nat
<1> QED  BY <1>1 DEF NextSeq

\* A receiver that has no fragment outstanding puts the fragments of a NAL unit
\* together again.
LEMMA FragmentsReceived ==
  ASSUME NEW nalu \in Seq(Nat), Len(nalu) + RtpHeader > Mtu,
         NEW s \in Seq(VideoPacket), NEW ns \in Seq(StampedNalu),
         NEW seq \in 0..SeqLimit - 1, NEW ts \in Nat, Received(s) = At(ns, seq)
  PROVE  Received(s \o Packets(Fragments(nalu), seq, ts))
           = At(ns \o Stamped(<<nalu>>, ts), NextSeq(seq, Len(Fragments(nalu))))
<1> DEFINE F == Fragments(nalu)
           P == Packets(F, seq, ts)
<1>1. PICK most \in Nat \ {0}, n \in Nat :
        /\ n > 1 /\ F \in Seq(Fitting) /\ Len(F) = n
        /\ \A i \in 1..n :
             LET from == 1 + (i - 1) * most
                 to == IF i = n THEN Len(nalu) ELSE 1 + i * most
             IN  /\ from \in 1..Len(nalu) /\ to \in from..Len(nalu)
                 /\ F[i] = [kind |-> "fu", start |-> i = 1, end |-> i = n, header |-> nalu[1],
                            data |-> SubSeq(nalu, from + 1, to)]
  BY FragmentsCarry
<1>2. /\ P \in Seq(VideoPacket) /\ Len(P) = n
      /\ \A i \in 1..n : P[i].payload = F[i] /\ P[i].seq = NextSeq(seq, i - 1) /\ P[i].ts = ts
  <2> HIDE DEF F
  <2> QED  BY <1>1, PacketOf
<1> HIDE DEF F, P
<1> DEFINE from(i) == 1 + (i - 1) * most
           to(i) == IF i = n THEN Len(nalu) ELSE 1 + i * most
           bytes(i) == IF i = 0 THEN <<>> ELSE SubSeq(nalu, 1, to(i))
           after(i) == [nalus |-> ns, partial |-> bytes(i), next |-> NextSeq(seq, i), sound |-> TRUE]
<1>3. ASSUME NEW i \in 1..n
      PROVE  /\ from(i) \in 1..Len(nalu) /\ to(i) \in from(i)..Len(nalu)
             /\ P[i].payload.kind = "fu" /\ P[i].payload.header = nalu[1]
             /\ P[i].payload.start <=> i = 1
             /\ P[i].payload.end <=> i = n
             /\ P[i].payload.data = SubSeq(nalu, from(i) + 1, to(i))
  <2>1. /\ from(i) \in 1..Len(nalu) /\ to(i) \in from(i)..Len(nalu)
        /\ F[i] = [kind |-> "fu", start |-> i = 1, end |-> i = n, header |-> nalu[1],
                   data |-> SubSeq(nalu, from(i) + 1, to(i))]
    BY ONLY <1>1
  <2>2. P[i].payload = F[i]
    BY <1>2
  <2> DEFINE data == SubSeq(nalu, from(i) + 1, to(i))
             y == P[i].payload
  <2>3. y = [kind |-> "fu", start |-> i = 1, end |-> i = n, header |-> nalu[1], data |-> data]
    BY ONLY <2>1, <2>2
  <2> HIDE DEF from, to, data, y
  <2>4. /\ y.kind = "fu" /\ y.header = nalu[1] /\ y.data = data
        /\ y.start <=> i = 1
        /\ y.end <=> i = n
    BY ONLY <2>3
  <2> QED  BY ONLY <2>1, <2>4 DEF y, data
<1>4. \A i \in 1..n - 1 : to(i) = from(i + 1)
  <2> SUFFICES ASSUME NEW i \in 1..n - 1 PROVE to(i) = from(i + 1)
    OBVIOUS
  <2>1. i # n /\ (i + 1) - 1 = i
    BY <1>1
  <2> QED  BY <2>1
<1>5. from(1) = 1 /\ nalu[1] \in Nat /\ SubSeq(nalu, 1, 1) = <<nalu[1]>>
  <2>1. from(1) = 1
    <3>1. 0 * most = 0 /\ 1 - 1 = 0
      BY ONLY <1>1
    <3> QED  BY <3>1
  <2>2. 1 \in 1..n
    BY <1>1
  <2>3. 1 \in 1..Len(nalu)
    BY <1>3, <2>1, <2>2
  <2>4. SubSeq(nalu, 1, 1) = Append(SubSeq(nalu, 1, 1 - 1), nalu[1]) /\ SubSeq(nalu, 1, 0) = <<>>
    BY <2>3, FirstOnes
  <2>5. SubSeq(nalu, 1, 1) = <<nalu[1]>>
    <3>1. Append(<<>>, nalu[1]) = <<nalu[1]>> /\ 1 - 1 = 0
      OBVIOUS
    <3> QED  BY ONLY <2>4, <3>1
  <2> HIDE DEF from
  <2> QED  BY ONLY <2>1, <2>3, <2>5, nalu \in Seq(Nat), ElementOfSeq
<1> HIDE DEF from, to
\* Each fragment continues the NAL unit where the one before it stopped.
<1>6. ASSUME NEW i \in 1..n
      PROVE  SubSeq(nalu, 1, from(i)) \o P[i].payload.data = SubSeq(nalu, 1, to(i))
  <2>1. 1 \in 1..Len(nalu) + 1 /\ from(i) \in 1 - 1..Len(nalu) /\ to(i) \in from(i)..Len(nalu)
    BY <1>3
  <2>2. SubSeq(nalu, 1, from(i)) \o SubSeq(nalu, from(i) + 1, to(i)) = SubSeq(nalu, 1, to(i))
    BY ONLY <2>1, nalu \in Seq(Nat), ConcatAdjacentSubSeq
  <2> QED  BY <1>3, <2>2
<1>7. ASSUME NEW i \in 1..n
      PROVE  SubSeq(nalu, 1, to(i)) # <<>>
  <2>1. \A j \in 1..to(i) : nalu[j] \in Nat
    BY <1>3, ElementOfSeq
  <2>2. to(i) \in Nat /\ to(i) # 0 /\ 1 <= to(i) + 1 /\ to(i) - 1 + 1 = to(i)
    BY <1>3
  <2>3. Len(SubSeq(nalu, 1, to(i))) = to(i)
    BY <2>1, <2>2, SubSeqProperties
  <2> QED  BY <2>2, <2>3
<1>8. \A i \in 1..n : bytes(i - 1) = IF i = 1 THEN <<>> ELSE SubSeq(nalu, 1, from(i))
  <2> TAKE i \in 1..n
  <2>1. CASE i = 1
    BY <2>1
  <2>2. CASE i # 1
    <3>1. i - 1 # 0 /\ i - 1 \in 1..n - 1 /\ (i - 1) + 1 = i
      BY <1>1, <2>2
    <3>2. to(i - 1) = from(i)
      BY <1>4, <3>1
    <3> QED  BY <2>2, <3>1, <3>2
  <2> QED  BY <2>1, <2>2
<1>9. ASSUME NEW i \in 1..n
      PROVE  /\ P[i] \in VideoPacket
             /\ ~(P[i].payload.start /\ P[i].payload.end)
             /\ P[i].payload.start <=> bytes(i - 1) = <<>>
             /\ (IF P[i].payload.start THEN <<P[i].payload.header>> \o P[i].payload.data
                 ELSE bytes(i - 1) \o P[i].payload.data) = SubSeq(nalu, 1, to(i))
  <2>1. P[i] \in VideoPacket
    BY <1>2, ElementOfSeq
  <2>2. ~(i = 1 /\ i = n)
    BY <1>1
  <2>3. i # 1 => bytes(i - 1) # <<>>
    <3> SUFFICES ASSUME i # 1 PROVE bytes(i - 1) # <<>>
      OBVIOUS
    <3>1. i - 1 \in 1..n /\ i - 1 # 0
      BY <1>1
    <3> QED  BY <1>7, <3>1
  <2> DEFINE y == P[i].payload
  <2>6. /\ y.header = nalu[1]
        /\ y.start <=> i = 1
        /\ y.end <=> i = n
        /\ SubSeq(nalu, 1, from(i)) \o y.data = SubSeq(nalu, 1, to(i))
    BY <1>3, <1>6
  <2> HIDE DEF y
  <2>7. (IF y.start THEN <<y.header>> \o y.data ELSE bytes(i - 1) \o y.data) = SubSeq(nalu, 1, to(i))
    <3>1. CASE i = 1
      <4>1. <<y.header>> = SubSeq(nalu, 1, from(i))
        BY ONLY <1>5, <2>6, <3>1
      <4> QED  BY ONLY <2>6, <3>1, <4>1
    <3>2. CASE i # 1
      <4> HIDE DEF bytes
      <4>1. bytes(i - 1) = SubSeq(nalu, 1, from(i))
        BY ONLY <1>8, <3>2, i \in 1..n
      <4> QED  BY ONLY <2>6, <3>2, <4>1
    <3> QED  BY <3>1, <3>2
  <2>8. y.start <=> bytes(i - 1) = <<>>
    <3>1. i = 1 => bytes(i - 1) = <<>>
      BY <1>8
    <3> HIDE DEF bytes
    <3> QED  BY <2>3, <2>6, <3>1
  <2> HIDE DEF bytes
  <2> QED  BY ONLY <2>1, <2>2, <2>6, <2>7, <2>8 DEF y
<1> DEFINE first(j) == SubSeq(P, 1, j)
<1>10. /\ first(0) = <<>> /\ first(n) = P
       /\ \A i \in 1..n : first(i - 1) \in Seq(VideoPacket) /\ first(i) = Append(first(i - 1), P[i])
  <2>1. \A i \in 1..n : i - 1 \in 0..Len(P) /\ i \in 1..Len(P)
    BY <1>2
  <2> QED  BY <1>2, <2>1, FirstOnes
<1> HIDE DEF first, bytes
\* What has been received once the first i fragments have.
<1>11. ASSUME NEW i \in 1..n, Received(s \o first(i - 1)) = after(i - 1)
       PROVE  Received(s \o first(i)) =
                [nalus |-> ns \o Stamped(IF i = n THEN <<nalu>> ELSE <<>>, ts),
                 partial |-> IF i = n THEN <<>> ELSE SubSeq(nalu, 1, to(i)),
                 next |-> NextSeq(seq, i), sound |-> TRUE]
  <2> DEFINE x == P[i]
             partial == bytes(i - 1)
             k == NextSeq(seq, i - 1)
             fin == x.payload.end
             beg == x.payload.start
             data == x.payload.data
             header == x.payload.header
  <2>1. Received(s \o first(i)) = Receive(Received(s \o first(i - 1)), x)
    <3> DEFINE a == first(i - 1)
    <3>1. a \in Seq(VideoPacket) /\ first(i) = Append(a, x) /\ x \in VideoPacket
      BY <1>9, <1>10
    <3> HIDE DEF a, x
    <3>2. Received(s \o Append(a, x)) = Receive(Received(s \o a), x)
      BY ONLY <3>1, s \in Seq(VideoPacket), ReceivedNext
    <3> QED  BY ONLY <3>1, <3>2 DEF a
  <2>2. /\ x.seq = k /\ x.ts = ts /\ x.payload.kind = "fu" /\ ~(beg /\ fin)
        /\ beg <=> partial = <<>>
        /\ (IF beg THEN <<header>> \o data ELSE partial \o data) = SubSeq(nalu, 1, to(i))
        /\ fin <=> i = n
    BY <1>2, <1>3, <1>9
  <2>3. after(i - 1) = [nalus |-> ns, partial |-> partial, next |-> k, sound |-> TRUE]
    OBVIOUS
  <2> HIDE DEF x, partial, k, after
  <2>4. Receive(after(i - 1), x) =
          [nalus |-> ns \o Stamped(IF fin THEN <<partial \o data>> ELSE <<>>, ts),
           partial |-> IF fin THEN <<>> ELSE IF beg THEN <<header>> \o data ELSE partial \o data,
           next |-> (k + 1) % SeqLimit, sound |-> TRUE]
    <3> DEFINE st == [nalus |-> ns, partial |-> partial, next |-> k, sound |-> TRUE]
    <3>1. Receive(st, x) =
            [nalus |-> ns \o Stamped(IF fin THEN <<partial \o data>> ELSE <<>>, ts),
             partial |-> IF fin THEN <<>> ELSE IF beg THEN <<header>> \o data ELSE partial \o data,
             next |-> (k + 1) % SeqLimit, sound |-> TRUE]
      BY ONLY <2>2 DEF Receive
    <3> HIDE DEF st
    <3>2. after(i - 1) = st
      BY ONLY <2>3 DEF st
    <3> QED  BY ONLY <3>1, <3>2
  <2> HIDE DEF fin, beg, data, header
  <2>5. fin => partial \o data = nalu
    <3> SUFFICES ASSUME fin PROVE partial \o data = nalu
      OBVIOUS
    <3>1. i = n /\ ~beg
      BY <2>2
    <3>2. to(i) = Len(nalu)
      BY <3>1 DEF to
    <3>3. partial \o data = SubSeq(nalu, 1, Len(nalu))
      BY <2>2, <3>1, <3>2
    <3> QED  BY <3>3, FirstOnes
  <2>6. (k + 1) % SeqLimit = NextSeq(seq, i)
    <3>1. seq \in Nat /\ i - 1 \in Nat /\ (i - 1) + 1 = i
      BY <1>1, Numbers
    <3>2. (NextSeq(seq, i - 1) + 1) % SeqLimit = NextSeq(seq, (i - 1) + 1)
      BY <3>1, NextSeqStep
    <3> QED  BY <3>1, <3>2 DEF k
  <2>7. (IF fin THEN <<partial \o data>> ELSE <<>>) = IF i = n THEN <<nalu>> ELSE <<>>
    BY <2>2, <2>5
  <2>8. (IF fin THEN <<>> ELSE IF beg THEN <<header>> \o data ELSE partial \o data)
          = IF i = n THEN <<>> ELSE SubSeq(nalu, 1, to(i))
    BY <2>2
  <2> QED  BY ONLY <1>11, <2>1, <2>4, <2>6, <2>7, <2>8
<1>12. n - 1 \in 0..n - 1 /\ Received(s \o first(n - 1)) = after(n - 1)
  <2> DEFINE I == {j \in 0..n - 1 : Received(s \o first(j)) = after(j)}
  <2>1. 0 \in I
    <3>1. s \o first(0) = s
      BY <1>10, ConcatEmptySeq
    <3>2. NextSeq(seq, 0) = seq /\ bytes(0) = <<>>
      BY NextSeqOfNone DEF bytes
    <3>3. 0 \in 0..n - 1
      BY <1>1
    <3> QED  BY <3>1, <3>2, <3>3 DEF At
  <2>2. ASSUME NEW j \in 0..(n - 1) - 1, j \in I
        PROVE  j + 1 \in I
    <3>1. j + 1 \in 1..n /\ (j + 1) - 1 = j /\ j + 1 # n /\ j + 1 # 0 /\ j + 1 \in 0..n - 1
      BY <1>1
    <3>2. Received(s \o first(j)) = after(j)
      BY <2>2
    <3>3. Received(s \o first(j + 1)) =
            [nalus |-> ns \o Stamped(IF j + 1 = n THEN <<nalu>> ELSE <<>>, ts),
             partial |-> IF j + 1 = n THEN <<>> ELSE SubSeq(nalu, 1, to(j + 1)),
             next |-> NextSeq(seq, j + 1), sound |-> TRUE]
      <4> HIDE DEF after
      <4> QED  BY <1>11, <3>1, <3>2
    <3>4. ns \o Stamped(<<>>, ts) = ns
      BY StampedTyped, ConcatEmptySeq, <<>> \in Seq(Seq(Nat))
    <3>5. bytes(j + 1) = SubSeq(nalu, 1, to(j + 1))
      BY <3>1 DEF bytes
    <3>6. Received(s \o first(j + 1)) = after(j + 1)
      BY ONLY <3>1, <3>3, <3>4, <3>5
    <3> QED  BY <3>1, <3>6
  <2> HIDE DEF I
  <2>3. n - 1 \in Nat
    BY <1>1
  <2>4. n - 1 \in I
    <3> DEFINE N == n - 1
    <3>1. N \in Nat /\ 0 \in I /\ \A j \in 0..N - 1 : j \in I => j + 1 \in I
      BY <2>1, <2>2, <2>3
    <3> HIDE DEF N
    <3>2. 0..N \subseteq I
      BY ONLY <3>1, BoundedInduction
    <3> QED  BY <3>1, <3>2 DEF N
  <2> QED  BY <2>4 DEF I
<1>13. Received(s \o first(n)) = At(ns \o Stamped(<<nalu>>, ts), NextSeq(seq, n))
  <2>1. n \in 1..n
    BY <1>1
  <2> HIDE DEF after
  <2> QED  BY <1>11, <1>12, <2>1 DEF At
<1> QED  BY <1>1, <1>10, <1>13 DEF P, F

\* A payload that carries whole NAL units.
Carries(payload, nalus) ==
  \/ payload.kind = "nalu" /\ nalus = <<payload.nalu>>
  \/ payload.kind = "stap" /\ nalus = payload.nalus

\* One packet with whole NAL units in it.
LEMMA WholeReceived ==
  ASSUME NEW payload \in Fitting, NEW nalus, Carries(payload, nalus),
         NEW s \in Seq(VideoPacket), NEW ns,
         NEW seq \in 0..SeqLimit - 1, NEW ts \in Nat, Received(s) = At(ns, seq)
  PROVE  Received(s \o Packets(<<payload>>, seq, ts)) = At(ns \o Stamped(nalus, ts), NextSeq(seq, 1))
<1> DEFINE one == <<payload>>
           P == Packets(one, seq, ts)
           x == P[1]
<1>1. one \in Seq(Fitting) /\ Len(one) = 1 /\ one[1] = payload
  <2> HIDE DEF Fitting
  <2> QED  OBVIOUS
<1> HIDE DEF one
<1>2. /\ P \in Seq(VideoPacket) /\ Len(P) = 1
      /\ x.payload = payload /\ x.seq = seq /\ x.ts = ts
  <2>1. 1 \in 1..Len(one)
    BY <1>1
  <2>2. x.seq = NextSeq(seq, 1 - 1) /\ x.payload = one[1] /\ x.ts = ts
    BY ONLY <1>1, <2>1, PacketOf, seq \in 0..SeqLimit - 1, ts \in Nat
  <2>3. P \in Seq(VideoPacket) /\ Len(P) = Len(one)
    BY <1>1, PacketOf
  <2> HIDE DEF P
  <2> QED  BY <1>1, <2>2, <2>3, NextSeqOfNone
<1> HIDE DEF P
<1>3. x \in VideoPacket /\ P = Append(<<>>, x)
  <2>1. 1 \in 1..Len(P)
    BY <1>2
  <2>2. SubSeq(P, 1, 1) = Append(SubSeq(P, 1, 1 - 1), P[1])
    BY <1>2, <2>1, FirstOnes
  <2>3. SubSeq(P, 1, 0) = <<>> /\ SubSeq(P, 1, 1) = P /\ 1 - 1 = 0
    BY <1>2, FirstOnes
  <2>4. P[1] \in VideoPacket
    BY <1>2, <2>1, ElementOfSeq
  <2> QED  BY <2>2, <2>3, <2>4
<1> HIDE DEF x
<1>4. Received(s \o P) = Receive(Received(s \o <<>>), x)
  <2>1. <<>> \in Seq(VideoPacket)
    OBVIOUS
  <2>2. Received(s \o Append(<<>>, x)) = Receive(Received(s \o <<>>), x)
    BY ONLY <1>3, <2>1, s \in Seq(VideoPacket), ReceivedNext
  <2> QED  BY ONLY <1>3, <2>2
<1>5. s \o <<>> = s
  BY ConcatEmptySeq
<1>6. Receive(At(ns, seq), x) = At(ns \o Stamped(nalus, ts), (seq + 1) % SeqLimit)
  BY <1>2 DEF Carries, Receive, At
<1> QED  BY <1>4, <1>5, <1>6 DEF P, one, NextSeq

\* A NAL unit, in whatever form it is sent.
LEMMA PayloadsReceived ==
  ASSUME NEW nalu \in Seq(Nat),
         NEW s \in Seq(VideoPacket), NEW ns \in Seq(StampedNalu),
         NEW seq \in 0..SeqLimit - 1, NEW ts \in Nat, Received(s) = At(ns, seq)
  PROVE  Received(s \o Packets(Payloads(nalu), seq, ts))
           = At(ns \o Stamped(<<nalu>>, ts), NextSeq(seq, Len(Payloads(nalu))))
<1>1. CASE Len(nalu) + RtpHeader <= Mtu
  <2>1. Payloads(nalu) = <<Whole(nalu)>>
    BY <1>1 DEF Payloads
  <2>2. Whole(nalu) \in Fitting
    <3>1. Payloads(nalu) \in Seq(Fitting)
      BY PayloadsFit
    <3>2. <<Whole(nalu)>>[1] = Whole(nalu) /\ Len(<<Whole(nalu)>>) = 1
      OBVIOUS
    <3> HIDE DEF Fitting
    <3> QED  BY <2>1, <3>1, <3>2, ElementOfSeq
  <2>3. Carries(Whole(nalu), <<nalu>>)
    BY DEF Carries, Whole
  <2>4. Received(s \o Packets(<<Whole(nalu)>>, seq, ts)) = At(ns \o Stamped(<<nalu>>, ts), NextSeq(seq, 1))
    BY <2>2, <2>3, WholeReceived
  <2> QED  BY <2>1, <2>4
<1>2. CASE ~(Len(nalu) + RtpHeader <= Mtu)
  <2>1. Len(nalu) + RtpHeader > Mtu
    BY <1>2, Numbers DEF RtpHeader
  <2>2. Payloads(nalu) = Fragments(nalu)
    BY <1>2 DEF Payloads
  <2>3. Received(s \o Packets(Fragments(nalu), seq, ts))
           = At(ns \o Stamped(<<nalu>>, ts), NextSeq(seq, Len(Fragments(nalu))))
    BY <2>1, FragmentsReceived
  <2> QED  BY <2>2, <2>3
<1> QED  BY <1>1, <1>2

LEMMA Regroup ==
  /\ \A x, y, z \in Seq(VideoPacket) : (x \o y) \o z = x \o (y \o z)
  /\ \A x, y, z \in Seq(StampedNalu) : (x \o y) \o z = x \o (y \o z)
<1>1. \A x, y, z \in Seq(VideoPacket) : (x \o y) \o z = x \o (y \o z)
  BY ConcatAssociative
<1>2. \A x, y, z \in Seq(StampedNalu) : (x \o y) \o z = x \o (y \o z)
  BY ConcatAssociative
<1> QED  BY <1>1, <1>2

\* Several NAL units, one after the other.
LEMMA NalusReceived ==
  ASSUME NEW nalus \in Seq(Seq(Nat)),
         NEW s \in Seq(VideoPacket), NEW ns \in Seq(StampedNalu),
         NEW seq \in 0..SeqLimit - 1, NEW ts \in Nat, Received(s) = At(ns, seq)
  PROVE  LET payloads == FlattenSeq([i \in DOMAIN nalus |-> Payloads(nalus[i])]) IN
         Received(s \o Packets(payloads, seq, ts))
           = At(ns \o Stamped(nalus, ts), NextSeq(seq, Len(payloads)))
<1> DEFINE n == Len(nalus)
           each == [i \in DOMAIN nalus |-> Payloads(nalus[i])]
           flat(j) == FlattenSeq(SubSeq(each, 1, j))
           head(j) == SubSeq(nalus, 1, j)
           Got(j) == Received(s \o Packets(flat(j), seq, ts))
                       = At(ns \o Stamped(head(j), ts), NextSeq(seq, Len(flat(j))))
<1>0. \A p, r \in Seq(Fitting), k \in Nat :
        Packets(p \o r, k, ts) = Packets(p, k, ts) \o Packets(r, NextSeq(k, Len(p)), ts)
  <2> TAKE p \in Seq(Fitting), r \in Seq(Fitting), k \in Nat
  <2> QED  BY ONLY p \in Seq(Fitting), r \in Seq(Fitting), k \in Nat, PacketsConcat
<1>1. /\ each \in Seq(Seq(Fitting)) /\ Len(each) = n /\ n \in Nat
      /\ \A i \in 1..n : each[i] = Payloads(nalus[i]) /\ nalus[i] \in Seq(Nat)
  <2>1. \A i \in 1..Len(nalus) : nalus[i] \in Seq(Nat)
    BY ElementOfSeq
  <2>2. \A i \in 1..Len(nalus) : Payloads(nalus[i]) \in Seq(Fitting)
    BY <2>1, PayloadsFit
  <2>3. DOMAIN nalus = 1..n /\ n \in Nat
    OBVIOUS
  <2> HIDE DEF n
  <2>4. each = [i \in 1..n |-> Payloads(nalus[i])]
    BY ONLY <2>3
  <2> HIDE DEF Fitting, each
  <2> QED  BY <2>1, <2>2, <2>3, <2>4 DEF n
<1> HIDE DEF each, Fitting
<1>2. ASSUME NEW j \in 0..n
      PROVE  /\ flat(j) \in Seq(Fitting)
             /\ head(j) \in Seq(Seq(Nat))
             /\ SubSeq(each, 1, j) \in Seq(Seq(Fitting))
  <2>1. SubSeq(each, 1, j) \in Seq(Seq(Fitting)) /\ head(j) \in Seq(Seq(Nat))
    BY <1>1, FirstOnes
  <2>2. <<>> \in Seq(Fitting)
    OBVIOUS
  <2> QED  BY <2>1, <2>2, FlattenAppend
<1>3. ASSUME NEW j \in 1..n
      PROVE  /\ flat(j) = flat(j - 1) \o Payloads(nalus[j])
             /\ head(j) = Append(head(j - 1), nalus[j])
  <2>1. SubSeq(each, 1, j) = Append(SubSeq(each, 1, j - 1), each[j]) /\ head(j) = Append(head(j - 1), nalus[j])
    BY <1>1, FirstOnes
  <2>2. each[j] \in Seq(Fitting) /\ each[j] = Payloads(nalus[j])
    BY <1>1, ElementOfSeq
  <2>3. SubSeq(each, 1, j - 1) \in Seq(Seq(Fitting))
    <3>1. j - 1 \in 0..n
      BY <1>1
    <3> QED  BY <1>2, <3>1
  <2>4. FlattenSeq(Append(SubSeq(each, 1, j - 1), each[j])) = FlattenSeq(SubSeq(each, 1, j - 1)) \o each[j]
    BY ONLY <2>2, <2>3, FlattenAppend
  <2> QED  BY <2>1, <2>2, <2>4
<1>4. flat(0) = <<>> /\ head(0) = <<>> /\ flat(n) = FlattenSeq(each) /\ head(n) = nalus
  BY <1>1, FirstOnes, FlattenAppend
<1> HIDE DEF flat, head
<1>5. Got(0)
  <2>1. Packets(<<>>, seq, ts) = <<>>
    BY DEF Packets
  <2>2. s \o <<>> = s /\ ns \o <<>> = ns
    BY ConcatEmptySeq
  <2>3. Stamped(<<>>, ts) = <<>>
    BY StampedTyped, <<>> \in Seq(Seq(Nat))
  <2>4. NextSeq(seq, Len(<<>>)) = seq
    BY NextSeqOfNone
  <2> QED  BY <1>4, <2>1, <2>2, <2>3, <2>4
<1>6. ASSUME NEW j \in 1..n, Got(j - 1)
      PROVE  Got(j)
  <2> DEFINE a == flat(j - 1)
             b == Payloads(nalus[j])
             seq1 == NextSeq(seq, Len(a))
             A == Packets(a, seq, ts)
             B == Packets(b, seq1, ts)
             ns1 == ns \o Stamped(head(j - 1), ts)
             one == <<nalus[j]>>
  <2>1. /\ a \in Seq(Fitting) /\ b \in Seq(Fitting) /\ head(j - 1) \in Seq(Seq(Nat))
        /\ nalus[j] \in Seq(Nat) /\ Len(a) \in Nat /\ Len(b) \in Nat /\ seq \in Nat
        /\ one \in Seq(Seq(Nat))
    <3>1. j - 1 \in 0..n
      BY <1>1
    <3>2. a \in Seq(Fitting) /\ head(j - 1) \in Seq(Seq(Nat))
      BY <1>2, <3>1
    <3>3. nalus[j] \in Seq(Nat)
      BY <1>1
    <3>4. b \in Seq(Fitting)
      BY <3>3, PayloadsFit
    <3> HIDE DEF a, b
    <3>5. seq \in Nat
      BY Numbers
    <3> QED  BY <3>2, <3>3, <3>4, <3>5
  <2>2. flat(j) = a \o b /\ head(j) = head(j - 1) \o one
    <3>1. Append(head(j - 1), nalus[j]) = head(j - 1) \o one
      BY <2>1, AppendIsConcat
    <3> QED  BY <1>3, <3>1
  <2> HIDE DEF a, b, one
  <2>3. seq1 \in 0..SeqLimit - 1
    BY <2>1, NextSeqWraps
  <2>4. Packets(flat(j), seq, ts) = A \o B
    <3> HIDE DEF A, B
    <3>1. Packets(a \o b, seq, ts) = Packets(a, seq, ts) \o Packets(b, NextSeq(seq, Len(a)), ts)
      BY ONLY <1>0, <2>1, Zenon
    <3> QED  BY ONLY <2>2, <3>1 DEF A, B
  <2>5. A \in Seq(VideoPacket) /\ B \in Seq(VideoPacket)
    BY <2>1, <2>3, PacketsTyped
  <2>6. ns1 \in Seq(StampedNalu) /\ Stamped(one, ts) \in Seq(StampedNalu) /\ Stamped(head(j - 1), ts) \in Seq(StampedNalu)
    <3>1. Stamped(one, ts) \in Seq(StampedNalu) /\ Stamped(head(j - 1), ts) \in Seq(StampedNalu)
      BY <2>1, StampedTyped
    <3> QED  BY <3>1, ConcatProperties
  <2>7. Received(s \o A) = At(ns1, seq1)
    BY ONLY <1>6 DEF a
  <2> HIDE DEF A, ns1, seq1
  <2>8. s \o A \in Seq(VideoPacket)
    BY <2>5, ConcatProperties
  <2>9. Received((s \o A) \o B) = At(ns1 \o Stamped(one, ts), NextSeq(seq1, Len(b)))
    <3> DEFINE sA == s \o A
               u == nalus[j]
    <3>0. /\ u \in Seq(Nat) /\ sA \in Seq(VideoPacket) /\ ns1 \in Seq(StampedNalu)
          /\ seq1 \in 0..SeqLimit - 1 /\ Received(sA) = At(ns1, seq1)
      BY ONLY <2>1, <2>3, <2>6, <2>7, <2>8
    <3> HIDE DEF sA, u
    <3>1. Received(sA \o Packets(Payloads(u), seq1, ts))
            = At(ns1 \o Stamped(<<u>>, ts), NextSeq(seq1, Len(Payloads(u))))
      BY ONLY <3>0, ts \in Nat, PayloadsReceived
    <3> QED  BY <3>1 DEF b, one, sA, u
  <2> HIDE DEF B
  <2>10. (s \o A) \o B = s \o (A \o B)
    BY ONLY Regroup, <2>5, s \in Seq(VideoPacket), Zenon
  <2>11. NextSeq(seq1, Len(b)) = NextSeq(seq, Len(flat(j)))
    <3>1. NextSeq(seq1, Len(b)) = NextSeq(seq, Len(a) + Len(b))
      BY ONLY <2>1, NextSeqAdds DEF seq1
    <3>2. Len(a \o b) = Len(a) + Len(b)
      BY <2>1, ConcatProperties
    <3> QED  BY <2>2, <3>1, <3>2
  <2>12. ns1 \o Stamped(one, ts) = ns \o Stamped(head(j), ts)
    <3>1. Stamped(head(j - 1) \o one, ts) = Stamped(head(j - 1), ts) \o Stamped(one, ts)
      BY <2>1, StampedConcat
    <3> DEFINE x == Stamped(head(j - 1), ts)
               y == Stamped(one, ts)
    <3>2. x \in Seq(StampedNalu) /\ y \in Seq(StampedNalu)
      BY <2>6
    <3> HIDE DEF x, y
    <3>3. (ns \o x) \o y = ns \o (x \o y)
      BY ONLY Regroup, <3>2, ns \in Seq(StampedNalu), Zenon
    <3> QED  BY ONLY <2>2, <3>1, <3>3 DEF x, y, ns1
  <2> QED  BY ONLY <2>4, <2>9, <2>10, <2>11, <2>12
<1>7. Got(n)
  <2> DEFINE I == {j \in 0..n : Got(j)}
  <2>1. 0 \in I
    BY <1>1, <1>5
  <2>2. ASSUME NEW j \in 0..n - 1, j \in I
        PROVE  j + 1 \in I
    <3>1. j + 1 \in 1..n /\ (j + 1) - 1 = j /\ j + 1 \in 0..n
      BY <1>1
    <3>2. Got(j)
      BY <2>2
    <3> HIDE DEF Got
    <3>3. Got(j + 1)
      BY <1>6, <3>1, <3>2
    <3> QED  BY <3>1, <3>3
  <2> HIDE DEF I, Got
  <2>3. 0..n \subseteq I
    BY <1>1, <2>1, <2>2, BoundedInduction
  <2>4. n \in I
    BY <1>1, <2>3
  <2> QED  BY <2>4 DEF I
<1> QED  BY <1>4, <1>7 DEF each

\* An I frame with the parameter sets that are known, in one packet or several.
LEMMA FrameReceived ==
  ASSUME NEW nalu \in Seq(Nat), NEW p \in Seq(Nat), NEW q \in Seq(Nat), NEW udp,
         NEW s \in Seq(VideoPacket), NEW ns \in Seq(StampedNalu),
         NEW seq \in 0..SeqLimit - 1, NEW ts \in Nat, Received(s) = At(ns, seq)
  PROVE  LET payloads == FrameWithParameterSets(nalu, p, q, udp) IN
         Received(s \o Packets(payloads, seq, ts))
           = At(ns \o Stamped(Known(p) \o Known(q) \o <<nalu>>, ts), NextSeq(seq, Len(payloads)))
<1> DEFINE nalus == Known(p) \o Known(q) \o <<nalu>>
           stap == [kind |-> "stap", nalus |-> nalus]
           flat == FlattenSeq([i \in DOMAIN nalus |-> Payloads(nalus[i])])
           payloads == FrameWithParameterSets(nalu, p, q, udp)
<1>1. nalus \in Seq(Seq(Nat))
  <2>1. Known(p) \in Seq(Seq(Nat)) /\ Known(q) \in Seq(Seq(Nat)) /\ <<nalu>> \in Seq(Seq(Nat))
    BY DEF Known
  <2> QED  BY <2>1, ConcatProperties
<1>2. payloads = IF udp /\ Len(nalus) = 3 /\ RtpHeader + StapSize(nalus) <= Mtu
                 THEN <<stap>> ELSE flat
  BY DEF FrameWithParameterSets
<1>3. payloads \in Seq(Fitting)
  BY FrameWithParameterSetsFits
<1> HIDE DEF nalus, payloads
<1>4. CASE payloads = <<stap>>
  <2>1. stap \in Fitting
    <3>1. <<stap>>[1] = stap /\ Len(<<stap>>) = 1
      OBVIOUS
    <3> HIDE DEF Fitting, stap
    <3> QED  BY <1>3, <1>4, <3>1, ElementOfSeq
  <2>2. Received(s \o Packets(<<stap>>, seq, ts)) = At(ns \o Stamped(nalus, ts), NextSeq(seq, 1))
    <3>1. Carries(stap, nalus)
      BY DEF Carries
    <3> HIDE DEF stap
    <3> QED  BY ONLY <2>1, <3>1, s \in Seq(VideoPacket), seq \in 0..SeqLimit - 1, ts \in Nat,
                     Received(s) = At(ns, seq), WholeReceived
  <2>3. Len(<<stap>>) = 1
    OBVIOUS
  <2> HIDE DEF stap
  <2> QED  BY <1>4, <2>2, <2>3 DEF payloads, nalus
<1>5. CASE payloads = flat
  <2>1. Received(s \o Packets(flat, seq, ts)) = At(ns \o Stamped(nalus, ts), NextSeq(seq, Len(flat)))
    BY <1>1, NalusReceived
  <2> HIDE DEF flat
  <2> QED  BY <1>5, <2>1 DEF payloads, nalus
<1> QED  BY <1>2, <1>4, <1>5

-----------------------------------------------------------------------------
(***************************************************************************)
(* Reader, packets and receiver in step.                                   *)
(***************************************************************************)
\* A receiver has everything that a pusher has read so far: v are the packets
\* sent, sq the next sequence number, t the NAL units read, of which k before
\* PLAY.
InStep(v, sq, t, k, p, q, ts) ==
  /\ Received(v) = At(Received(v).nalus, sq)
  /\ Received(v).nalus \in Seq(StampedNalu)
  /\ Expected(SubSeq(t, k + 1, Len(t))) = [sps |-> p, pps |-> q, ts |-> ts, sent |-> Received(v).nalus]

LEMMA NoneInStep ==
  ASSUME NEW t \in Seq(Seq(Nat))
  PROVE  InStep(<<>>, 0, t, Len(t), <<>>, <<>>, 0)
<1>1. Received(<<>>) = At(<<>>, 0) /\ At(<<>>, 0).nalus = <<>>
  BY ReceivedOneByOne DEF NothingReceived, At
<1>2. SubSeq(t, Len(t) + 1, Len(t)) = <<>>
  <2>1. Len(t) \in Nat
    OBVIOUS
  <2>2. Len(t) < Len(t) + 1 /\ Len(t) + 1 \in Int /\ Len(t) \in Int
    BY <2>1
  <2> QED  BY <2>2, SubSeqEmpty
<1>3. Expected(<<>>) = [sps |-> <<>>, pps |-> <<>>, ts |-> 0, sent |-> <<>>]
  BY ExpectedOneByOne DEF NothingExpected
<1>4. <<>> \in Seq(StampedNalu)
  OBVIOUS
<1> QED  BY ONLY <1>1, <1>2, <1>3, <1>4 DEF InStep

\* One NAL unit more is expected when one more has been read.
LEMMA ExpectedNext ==
  ASSUME NEW t \in Seq(Seq(Nat)), NEW k \in 0..Len(t), NEW nalu \in Seq(Nat)
  PROVE  LET u == Append(t, nalu) IN
         Expected(SubSeq(u, k + 1, Len(u))) = Expect(Expected(SubSeq(t, k + 1, Len(t))), nalu)
<1> DEFINE u == Append(t, nalu)
           a == SubSeq(t, k + 1, Len(t))
           b == SubSeq(u, k + 1, Len(u))
<1>1. a \in Seq(Seq(Nat)) /\ b = Append(a, nalu)
  BY SinceAppend
<1> HIDE DEF a, b
<1>2. Expected(b) = Expect(Expected(a), nalu)
  BY <1>1, ExpectedOneByOne
<1> QED  BY <1>2 DEF a, b

LEMMA SetKept ==
  ASSUME NEW t \in Seq(Seq(Nat)), NEW k \in 0..Len(t), NEW nalu \in Seq(Nat), nalu[1] \in {7, 8},
         NEW v, NEW sq, NEW p, NEW q, NEW ts, InStep(v, sq, t, k, p, q, ts)
  PROVE  InStep(v, sq, Append(t, nalu), k, IF nalu[1] = 7 THEN nalu ELSE p,
                IF nalu[1] = 8 THEN nalu ELSE q, ts)
<1> DEFINE u == Append(t, nalu)
           s == [sps |-> p, pps |-> q, ts |-> ts, sent |-> Received(v).nalus]
<1>1. Expected(SubSeq(u, k + 1, Len(u))) = Expect(s, nalu)
  BY ExpectedNext DEF InStep
<1>2. Expect(s, nalu) = [sps |-> IF nalu[1] = 7 THEN nalu ELSE p,
                         pps |-> IF nalu[1] = 8 THEN nalu ELSE q,
                         ts |-> ts, sent |-> Received(v).nalus]
  BY DEF Expect
<1> HIDE DEF u, s
<1> QED  BY <1>1, <1>2 DEF InStep, u

LEMMA FrameSent ==
  ASSUME NEW t \in Seq(Seq(Nat)), NEW k \in 0..Len(t), NEW nalu \in Seq(Nat), nalu[1] \notin {7, 8},
         NEW v \in Seq(VideoPacket), NEW sq \in 0..SeqLimit - 1, NEW p \in Seq(Nat), NEW q \in Seq(Nat),
         NEW ts \in Nat, InStep(v, sq, t, k, p, q, ts), NEW udp
  PROVE  LET payloads == IF nalu[1] = 5 THEN FrameWithParameterSets(nalu, p, q, udp) ELSE Payloads(nalu)
         IN  InStep(v \o Packets(payloads, sq, ts), NextSeq(sq, Len(payloads)),
                    Append(t, nalu), k, p, q, ts + VideoTicks)
<1> DEFINE u == Append(t, nalu)
           ns == Received(v).nalus
           s == [sps |-> p, pps |-> q, ts |-> ts, sent |-> ns]
           sets == IF nalu[1] = 5 THEN Known(p) \o Known(q) ELSE <<>>
           nalus == sets \o <<nalu>>
           more == Stamped(nalus, ts)
           payloads == IF nalu[1] = 5 THEN FrameWithParameterSets(nalu, p, q, udp) ELSE Payloads(nalu)
           next == NextSeq(sq, Len(payloads))
           w == v \o Packets(payloads, sq, ts)
<1>1. ns \in Seq(StampedNalu) /\ Received(v) = At(ns, sq)
  BY DEF InStep
<1>2. Expected(SubSeq(u, k + 1, Len(u))) = Expect(s, nalu)
  BY ExpectedNext DEF InStep
<1>3. Expect(s, nalu) = [sps |-> p, pps |-> q, ts |-> ts + VideoTicks, sent |-> ns \o more]
  BY DEF Expect
<1>4. nalus \in Seq(Seq(Nat))
  <2>1. Known(p) \in Seq(Seq(Nat)) /\ Known(q) \in Seq(Seq(Nat)) /\ <<nalu>> \in Seq(Seq(Nat))
        /\ <<>> \in Seq(Seq(Nat))
    BY DEF Known
  <2>2. sets \in Seq(Seq(Nat))
    BY <2>1, ConcatProperties
  <2> HIDE DEF sets
  <2> QED  BY <2>1, <2>2, ConcatProperties
<1>5. Received(w) = At(ns \o more, next)
  <2>1. CASE nalu[1] = 5
    <3> DEFINE frame == FrameWithParameterSets(nalu, p, q, udp)
    <3>1. Received(v \o Packets(frame, sq, ts))
            = At(ns \o Stamped(Known(p) \o Known(q) \o <<nalu>>, ts), NextSeq(sq, Len(frame)))
      <4> HIDE DEF ns
      <4> QED  BY <1>1, FrameReceived
    <3> HIDE DEF frame
    <3>2. payloads = frame /\ nalus = Known(p) \o Known(q) \o <<nalu>>
      BY <2>1 DEF frame
    <3> HIDE DEF payloads, nalus, ns
    <3> QED  BY <3>1, <3>2
  <2>2. CASE nalu[1] # 5
    <3>1. Received(v \o Packets(Payloads(nalu), sq, ts))
            = At(ns \o Stamped(<<nalu>>, ts), NextSeq(sq, Len(Payloads(nalu))))
      <4> HIDE DEF ns
      <4> QED  BY <1>1, PayloadsReceived
    <3>2. payloads = Payloads(nalu) /\ nalus = <<nalu>>
      BY <2>2, ConcatEmptySeq
    <3> HIDE DEF payloads, nalus, ns
    <3> QED  BY <3>1, <3>2
  <2> QED  BY <2>1, <2>2
<1>6. more \in Seq(StampedNalu)
  <2> HIDE DEF nalus
  <2> QED  BY <1>4, StampedTyped
<1> HIDE DEF more, ns, w, next, u, s, payloads
<1>7. ns \o more \in Seq(StampedNalu)
  BY <1>1, <1>6, ConcatProperties
<1>8. At(ns \o more, next).nalus = ns \o more
  BY DEF At
<1> QED  BY <1>2, <1>3, <1>5, <1>7, <1>8 DEF InStep, u, w, next, payloads

\* A receiver has what was read for it.
ReceiverInStep == InStep(video, seqVideo, taken, firstTaken, sps, pps, tsVideo)

\* What was read are the NAL units before the reader, which is at a start code
\* or at the end.
ReaderInStep ==
  BeginsWithStartCode(h264) =>
    /\ UnitsTaken(h264, h264Pos, taken)
    /\ h264Pos > Len(h264) \/ StartCodeLength(h264, h264Pos) > 0

\* What a call of readFrame does to the reader.
LEMMA ReaderMoves ==
  ASSUME IInv, ReaderInStep, UNCHANGED h264, h264Pos' = Nalu.pos,
         taken' = IF Nalu.status = "Ok" THEN Append(taken, Nalu.frame) ELSE taken
  PROVE  ReaderInStep'
<1>1. h264 \in Seq(Nat) /\ h264Pos \in 1..Len(h264) + 1 /\ taken \in Seq(Seq(Nat)) /\ h264' = h264
  BY Numbers DEF IInv, VideoTyped
<1>2. SUFFICES ASSUME BeginsWithStartCode(h264)
               PROVE  /\ UnitsTaken(h264, h264Pos', taken')
                      /\ h264Pos' > Len(h264) \/ StartCodeLength(h264, h264Pos') > 0
  BY <1>1 DEF ReaderInStep
<1>3. UnitsTaken(h264, h264Pos, taken) /\ (h264Pos > Len(h264) \/ StartCodeLength(h264, h264Pos) > 0)
  BY <1>2 DEF ReaderInStep
<1>4. CASE h264Pos > Len(h264)
  <2>1. Nalu.status # "Ok" /\ Nalu.pos = h264Pos
    BY <1>4 DEF Nalu, ReadNalu
  <2> QED  BY <1>3, <1>4, <2>1
<1>5. CASE StartCodeLength(h264, h264Pos) > 0
  <2>1. UnitsTaken(h264, Nalu.pos, IF Nalu.status = "Ok" THEN Append(taken, Nalu.frame) ELSE taken)
    BY <1>1, <1>3, <1>5, NextUnitTaken DEF Nalu
  <2>2. Nalu.pos > Len(h264) \/ StartCodeLength(h264, Nalu.pos) > 0
    BY <1>1, <1>5, UnitIsRead DEF Nalu
  <2> QED  BY <2>1, <2>2
<1> QED  BY <1>3, <1>4, <1>5

LEMMA VideoStaysInStep ==
  ASSUME IInv, ReceiverInStep, ReaderInStep, NEW gap \in Nat \ {0}, VideoTurn(gap) \/ VideoEnds(gap),
         UNCHANGED <<session, firstTaken>>
  PROVE  ReceiverInStep' /\ ReaderInStep'
<1>1. /\ h264 \in Seq(Nat) /\ h264' = h264 /\ h264Pos \in 1..Len(h264) + 1
      /\ sps \in Seq(Nat) /\ pps \in Seq(Nat) /\ taken \in Seq(Seq(Nat))
      /\ seqVideo \in 0..SeqLimit - 1 /\ tsVideo \in Nat
      /\ video \in Seq(VideoPacket)
      /\ firstTaken \in 0..Len(taken) /\ firstTaken' = firstTaken
  BY Numbers DEF IInv, VideoTyped, session
<1>2. Nalu.frame \in Seq(Nat)
  BY <1>1, NaluRead DEF Nalu
<1>3. CASE VideoNotDue(gap)
  BY <1>1, <1>3 DEF VideoNotDue, ReceiverInStep, ReaderInStep
<1>4. CASE VideoEnds(gap)
  <2>1. ReceiverInStep'
    BY <1>1, <1>4 DEF VideoEnds, ReceiverInStep
  <2>2. ReaderInStep'
    BY <1>1, <1>4, ReaderMoves DEF VideoEnds
  <2> QED  BY <2>1, <2>2
<1>5. CASE KeepParameterSet(gap)
  <2>1. ReceiverInStep'
    <3>1. /\ video' = video /\ seqVideo' = seqVideo /\ tsVideo' = tsVideo
          /\ taken' = Append(taken, Nalu.frame) /\ Nalu.frame[1] \in {7, 8}
          /\ sps' = IF Nalu.frame[1] = 7 THEN Nalu.frame ELSE sps
          /\ pps' = IF Nalu.frame[1] = 8 THEN Nalu.frame ELSE pps
      BY <1>5 DEF KeepParameterSet, NaluType
    <3> DEFINE nalu == Nalu.frame
    <3>2. InStep(video, seqVideo, Append(taken, nalu), firstTaken,
                 IF nalu[1] = 7 THEN nalu ELSE sps, IF nalu[1] = 8 THEN nalu ELSE pps, tsVideo)
      <4>1. nalu \in Seq(Nat) /\ nalu[1] \in {7, 8}
        BY <1>2, <3>1
      <4> HIDE DEF nalu
      <4> QED  BY <1>1, <4>1, SetKept DEF ReceiverInStep
    <3> QED  BY <1>1, <3>1, <3>2 DEF ReceiverInStep
  <2>2. ReaderInStep'
    BY <1>1, <1>5, ReaderMoves DEF KeepParameterSet
  <2> QED  BY <2>1, <2>2
<1>6. CASE SendVideo(gap)
  <2>1. ReceiverInStep'
    <3> DEFINE nalu == Nalu.frame
               payloads == IF nalu[1] = 5 THEN FrameWithParameterSets(nalu, sps, pps, useUdp)
                           ELSE Payloads(nalu)
    <3>1. /\ video' = video \o Packets(payloads, seqVideo, tsVideo)
          /\ seqVideo' = NextSeq(seqVideo, Len(payloads))
          /\ tsVideo' = tsVideo + VideoTicks
          /\ taken' = Append(taken, nalu) /\ nalu[1] \notin {7, 8}
          /\ sps' = sps /\ pps' = pps
      BY <1>6 DEF SendVideo, NaluType
    <3>2. nalu \in Seq(Nat)
      BY <1>2
    <3> HIDE DEF nalu
    <3>3. InStep(video \o Packets(payloads, seqVideo, tsVideo), NextSeq(seqVideo, Len(payloads)),
                 Append(taken, nalu), firstTaken, sps, pps, tsVideo + VideoTicks)
      BY <1>1, <3>1, <3>2, FrameSent DEF ReceiverInStep
    <3> HIDE DEF payloads
    <3> QED  BY <1>1, <3>1, <3>3 DEF ReceiverInStep
  <2>2. ReaderInStep'
    BY <1>1, <1>6, ReaderMoves DEF SendVideo
  <2> QED  BY <2>1, <2>2
<1> QED  BY <1>3, <1>4, <1>5, <1>6 DEF VideoTurn

\* Before anything has been read nothing has been taken.
LEMMA NoneTaken ==
  ASSUME NEW file \in Seq(Nat)
  PROVE  UnitsTaken(file, 1, <<>>)
<1>1. \A i \in UnitPlaces(file) : ~(i < 1)
  BY DEF UnitPlaces
<1>2. {i \in UnitPlaces(file) : i < 1} = {}
  BY <1>1
<1>3. Cardinality({}) = 0
  BY FS_EmptySet
<1> QED  BY <1>2, <1>3 DEF UnitsTaken

\* The packets sent and the NAL units read, with IInv.
SentInv == ReceiverInStep /\ ReaderInStep

LEMMA SentAtFirst == Init => SentInv
<1> SUFFICES ASSUME Init PROVE SentInv
  OBVIOUS
<1>1. ReceiverInStep
  <2>1. InStep(<<>>, 0, <<>>, Len(<<>>), <<>>, <<>>, 0)
    BY NoneInStep, <<>> \in Seq(Seq(Nat))
  <2> QED  BY <2>1 DEF Init, ReceiverInStep
<1>2. ReaderInStep
  <2>1. UnitsTaken(h264, 1, <<>>)
    BY Numbers, NoneTaken DEF Init
  <2> QED  BY <2>1 DEF Init, ReaderInStep, BeginsWithStartCode
<1> QED  BY <1>1, <1>2 DEF SentInv

LEMMA SentNext == IInv /\ SentInv /\ [Next]_vars => SentInv'
<1> SUFFICES ASSUME IInv, SentInv, [Next]_vars PROVE SentInv'
  OBVIOUS
<1>1. CASE Play
  <2>1. InStep(<<>>, 0, taken, Len(taken), <<>>, <<>>, 0)
    BY NoneInStep DEF IInv, VideoTyped
  <2>2. ReceiverInStep'
    BY <1>1, <2>1 DEF Play, ReceiverInStep
  <2>3. ReaderInStep'
    BY <1>1 DEF Play, SentInv, ReaderInStep, session
  <2> QED  BY <2>2, <2>3 DEF SentInv
<1>2. CASE Stop \/ UNCHANGED vars
  BY <1>2 DEF Stop, vars, videoVars, session, SentInv, ReceiverInStep, ReaderInStep
<1>3. ASSUME NEW gap \in Gaps, Callback(gap)
      PROVE  SentInv'
  <2>1. /\ gap \in Nat \ {0} /\ UNCHANGED <<session, firstTaken>>
        /\ VideoTurn(gap) \/ VideoEnds(gap)
    BY <1>3, Numbers DEF Callback
  <2>2. IInv /\ ReceiverInStep /\ ReaderInStep
    BY DEF SentInv
  <2>3. ReceiverInStep' /\ ReaderInStep'
    BY ONLY <2>1, <2>2, VideoStaysInStep
  <2> QED  BY <2>3 DEF SentInv
<1> QED  BY <1>1, <1>2, <1>3 DEF Next

-----------------------------------------------------------------------------
(***************************************************************************)
(* The theorems.                                                           *)
(***************************************************************************)
\* The readers stay within their files and the sequence numbers within their
\* width, whatever the files.
THEOREM TypeCorrect == Spec => []TypeOK
<1>1. IInv => TypeOK
  <2> SUFFICES ASSUME IInv PROVE TypeOK
    OBVIOUS
  <2>1. seqAudio \in 0..SeqLimit - 1 /\ tsAudio % AudioTicks = 0
    <3>1. SeqLimit \in Nat \ {0} /\ Len(audio) \in Nat
      BY Numbers DEF IInv, AudioTyped
    <3>2. Len(audio) % SeqLimit \in 0..SeqLimit - 1
      BY ONLY <3>1
    <3>3. (Len(audio) * AudioTicks) % AudioTicks = 0
      BY ONLY <3>1 DEF AudioTicks
    <3> QED  BY <3>2, <3>3 DEF IInv, AudioInStep
  <2> QED  BY <2>1 DEF IInv, VideoTyped, AudioTyped, TypeOK
<1> QED  BY <1>1, Inductive, PTL

\* Whatever the MTU, a NAL unit and the parameter sets: no video packet is
\* longer than the MTU.
THEOREM VideoPacketsFitMtu == Spec => []PacketsFitMtu
<1>1. IInv => PacketsFitMtu
  <2> SUFFICES ASSUME IInv, NEW i \in DOMAIN video
               PROVE  PacketSize(video[i]) <= Mtu
    BY DEF PacketsFitMtu
  <2>1. video[i] \in VideoPacket
    BY ElementOfSeq DEF IInv, VideoTyped
  <2>2. PacketSize(video[i]) = PacketSize([payload |-> video[i].payload])
    BY DEF PacketSize
  <2> QED  BY <2>1, <2>2 DEF VideoPacket, Fitting
<1> QED  BY <1>1, Inductive, PTL

\* Whatever the intervals and however late the callbacks come: neither stream
\* drifts from its schedule, and no frame is sent before its time.
THEOREM NeitherStreamDrifts == Spec => []StreamsKeepTime
<1>1. IInv => StreamsKeepTime
  BY DEF IInv, OnTime, StreamsKeepTime
<1> QED  BY <1>1, Inductive, PTL

\* Whatever the file, and over several PLAYs: what is sent as audio is what was
\* read since the latest PLAY, numbered and stamped one after the other; every
\* piece read is whole by its header, and only bad headers lie between two.
THEOREM AudioFramesSentWhole == Spec => []AudioFramesAreWhole
<1>1. IInv => AudioFramesAreWhole
  <2>1. IInv => DOMAIN audio = 1..Len(audio) /\ DOMAIN heard = 1..Len(heard)
    BY DEF IInv, AudioTyped
  <2> QED  BY <2>1 DEF IInv, AudioInStep, AudioIsHeard, HeardInFile, AudioFramesAreWhole
<1> QED  BY <1>1, Inductive, PTL

\* Whatever the file, as long as it begins with a start code: the NAL units
\* read are those of the file before the reader, each once, whole and in order,
\* also over several PLAYs.
THEOREM FramesReadAreTheNalUnits == Spec => []FramesAreTheNalUnits
<1>1. IInv /\ ReaderInStep => FramesAreTheNalUnits
  BY DEF ReaderInStep, UnitsTaken, FramesAreTheNalUnits
<1>2. Spec => [](IInv /\ SentInv)
  BY SentAtFirst, SentNext, Inductive, PTL DEF Spec
<1> QED  BY <1>1, <1>2, PTL DEF SentInv

\* Whatever the MTU, the sequence limit, the file and the transport: a receiver
\* can use every packet and puts together the NAL units that were read, with
\* the timestamps of their frames and the parameter sets before an I frame.
THEOREM ReceiverGetsTheNalUnits == Spec => []ReceiverGetsWhatWasRead
<1>1. ReceiverInStep => ReceiverGetsWhatWasRead
  BY DEF ReceiverInStep, InStep, At, ReceiverGetsWhatWasRead
<1>2. Spec => []SentInv
  BY SentAtFirst, SentNext, Inductive, PTL DEF Spec
<1> QED  BY <1>1, <1>2, PTL DEF SentInv
=============================================================================
