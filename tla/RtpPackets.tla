----------------------------- MODULE RtpPackets -----------------------------
(***************************************************************************)
(* The RTP packets RtpPusher makes of a NAL unit (media/RtpPusher.cc), and *)
(* what a receiver makes of them (RFC 6184, packetisation mode 1).         *)
(*                                                                         *)
(* A payload is a whole NAL unit, a fragment of one (FU-A), or several of  *)
(* them (STAP-A).  A NAL unit is a sequence of bytes, its first the        *)
(* header; the reference bits of the header are left out.                  *)
(***************************************************************************)
EXTENDS Integers, SequencesExt

CONSTANTS Mtu,    \* bytes of the longest packet (1400 in the code)
          SeqLimit  \* sequence numbers wrap here (2^16 in the code)

ASSUME RtpPacketsAssumption == Mtu \in Nat /\ Mtu > 14 /\ SeqLimit \in Nat \ {0}

RtpHeader == 12
FuHeader == 2

Whole(nalu) == [kind |-> "nalu", nalu |-> nalu]

\* Mutant: fragments as long as the payload of a packet, the FU header
\* forgotten.
FragmentsTooLong(nalu) ==
  LET most == Mtu - RtpHeader
      n == (Len(nalu) - 2) \div most + 1
  IN  [i \in 1..n |->
        [kind |-> "fu", start |-> i = 1, end |-> i = n, header |-> nalu[1],
         data |-> SubSeq(nalu, 2 + (i - 1) * most,
                         IF i = n THEN Len(nalu) ELSE 1 + i * most)]]

\* The FU-A payloads of a NAL unit: its bytes after the header, in pieces.
Fragments(nalu) ==
  LET most == Mtu - RtpHeader - FuHeader
      n == (Len(nalu) - 2) \div most + 1
  IN  [i \in 1..n |->
        [kind |-> "fu", start |-> i = 1, end |-> i = n, header |-> nalu[1],
         data |-> SubSeq(nalu, 2 + (i - 1) * most,
                         IF i = n THEN Len(nalu) ELSE 1 + i * most)]]

\* sendH264Frame and sendH264FrameUdp.
Payloads(nalu) ==
  IF Len(nalu) + RtpHeader <= Mtu THEN <<Whole(nalu)>> ELSE Fragments(nalu)

\* The bytes of a STAP-A payload with these NAL units.
StapSize(nalus) == FoldLeft(LAMBDA size, nalu : size + 2 + Len(nalu), 1, nalus)

\* Mutant: the parameter sets are sent once the frame has been.
FrameBeforeParameterSets(nalu, sps, pps, useUdp) ==
  FlattenSeq([i \in 1..3 |-> LET n == <<nalu, sps, pps>>[i] IN IF n = <<>> THEN <<>> ELSE Payloads(n)])

\* A parameter set, if there is one.
Known(set) == IF set = <<>> THEN <<>> ELSE <<set>>

\* What is sent for an I frame: the parameter sets that are known, then the
\* frame; over UDP in one packet if both are known and it fits.
FrameWithParameterSets(nalu, sps, pps, useUdp) ==
  LET nalus == Known(sps) \o Known(pps) \o <<nalu>>
  IN  IF useUdp /\ Len(nalus) = 3 /\ RtpHeader + StapSize(nalus) <= Mtu
      THEN <<[kind |-> "stap", nalus |-> nalus]>>
      ELSE FlattenSeq([i \in DOMAIN nalus |-> Payloads(nalus[i])])

\* Mutant: sequence numbers are kept in an int.
NextSeqWithoutWrap(seq, n) == seq + n

\* _seqVideo and _seqAudio, n packets later: a uint16_t wraps.
NextSeq(seq, n) == (seq + n) % SeqLimit

\* buildRtpHeader for each payload in turn.
Packets(payloads, seq, ts) ==
  [i \in DOMAIN payloads |->
     [seq |-> NextSeq(seq, i - 1), ts |-> ts,
      marker |-> payloads[i].kind = "fu" => payloads[i].end,
      payload |-> payloads[i]]]

\* sendAacFrame and sendAacFrameUdp: one packet for a frame, whatever its size.
AudioPacket(frame, seq, ts) == [seq |-> seq, ts |-> ts, marker |-> TRUE, payload |-> frame]

PacketSize(packet) ==
  LET p == packet.payload
  IN  RtpHeader + CASE p.kind = "nalu" -> Len(p.nalu)
                    [] p.kind = "fu" -> FuHeader + Len(p.data)
                    [] p.kind = "stap" -> StapSize(p.nalus)

-----------------------------------------------------------------------------
(* The receiver. *)

\* What has been received so far: the NAL units with their timestamps, the
\* fragments of one still incomplete, the next sequence number, and whether
\* every packet could be used.
NothingReceived == [nalus |-> <<>>, partial |-> <<>>, next |-> 0, sound |-> TRUE]

Stamped(nalus, ts) == [i \in DOMAIN nalus |-> [nalu |-> nalus[i], ts |-> ts]]

Receive(state, packet) ==
  LET p == packet.payload
      whole == CASE p.kind = "nalu" -> <<p.nalu>>
                 [] p.kind = "stap" -> p.nalus
                 [] p.kind = "fu" -> IF p.end THEN <<state.partial \o p.data>> ELSE <<>>
      started == IF p.kind = "fu" /\ p.start THEN <<p.header>> \o p.data
                 ELSE state.partial \o p.data
  IN  [nalus |-> state.nalus \o Stamped(whole, packet.ts),
       partial |-> IF p.kind = "fu" /\ ~p.end THEN started ELSE <<>>,
       next |-> (state.next + 1) % SeqLimit,
       sound |-> /\ state.sound /\ packet.seq = state.next
                 /\ p.kind = "fu" => (p.start <=> state.partial = <<>>) /\ ~(p.start /\ p.end)
                 /\ p.kind # "fu" => state.partial = <<>>]

\* What has been received after these packets, one after the other.
Received(packets) ==
  LET after[i \in 0..Len(packets)] ==
        IF i = 0 THEN NothingReceived ELSE Receive(after[i - 1], packets[i])
  IN  after[Len(packets)]
=============================================================================
