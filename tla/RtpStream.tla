----------------------------- MODULE RtpStream -----------------------------
(***************************************************************************)
(* What the timer callback of an RtpPusher reads and sends                 *)
(* (media/RtpPusher.cc), from PLAY to the end of a file: one video and one *)
(* audio frame at most each time, when they are due, cut into RTP packets. *)
(* Module RtpPusher has the life of the pusher and of its timer.           *)
(*                                                                         *)
(* The readers belong to the RtspConnect: a client that tears down, sets   *)
(* up and plays again gets a new pusher that reads on where the last one   *)
(* stopped.  Times are kept as the time left until a frame is due.         *)
(***************************************************************************)
EXTENDS RtpPackets, MediaReaders

CONSTANTS H264Files, AacFiles,            \* the files that may be served
          VideoInterval, AudioInterval,   \* time between frames (40 and 21 ms)
          Gaps,                           \* times between two callbacks
          MaxLate,                        \* no longer gap once a frame would be later
          MaxPlays                        \* bound on the PLAYs of the client

ASSUME RtpStreamAssumption ==
  /\ {VideoInterval, AudioInterval} \cup Gaps \subseteq Nat \ {0}
  /\ {MaxLate, MaxPlays} \subseteq Nat
  /\ H264Files \subseteq Seq(Nat) /\ AacFiles \subseteq Seq(Nat)

VideoTicks == 3600  \* added to the video timestamp for each frame
AudioTicks == 1920  \* added to the audio timestamp for each frame

VARIABLES useUdp, h264, aac,      \* the transport and the two files
          h264Pos, aacPos,        \* the positions of the readers
          plays,                  \* PLAYs so far
          running,                \* _running of the latest pusher
          sps, pps,               \* _sps, _pps
          seqVideo, seqAudio,     \* _seqVideo, _seqAudio
          tsVideo, tsAudio,       \* _timestampVideo, _timestampAudio
          dueVideo, dueAudio,     \* nextVideoTime and nextAudioTime, from now
          video, audio,           \* history: the packets of the latest pusher
          taken,                  \* history: the NAL units read since the first PLAY
          firstTaken,             \* how many of them were read before the latest PLAY
          heard,                  \* history: the audio frames read since the first PLAY
          clock                   \* history: time since the latest PLAY

session == <<useUdp, h264, aac>>
videoVars == <<h264Pos, sps, pps, seqVideo, tsVideo, dueVideo, video, taken>>
audioVars == <<aacPos, seqAudio, tsAudio, dueAudio, audio, heard>>
vars == <<session, videoVars, audioVars, plays, running, firstTaken, clock>>

TypeOK ==
  /\ useUdp \in BOOLEAN /\ h264 \in H264Files /\ aac \in AacFiles
  /\ h264Pos \in 1..Len(h264) + 1 /\ aacPos \in 1..Len(aac) + 1
  /\ plays \in 0..MaxPlays /\ running \in BOOLEAN
  /\ {seqVideo, seqAudio} \subseteq 0..SeqLimit - 1
  /\ tsVideo % VideoTicks = 0 /\ tsAudio % AudioTicks = 0
  /\ {dueVideo, dueAudio} \subseteq Int
  /\ firstTaken \in 0..Len(taken) /\ clock \in Nat

Init ==
  /\ useUdp \in BOOLEAN /\ h264 \in H264Files /\ aac \in AacFiles
  /\ h264Pos = 1 /\ aacPos = 1
  /\ plays = 0 /\ running = FALSE
  /\ sps = <<>> /\ pps = <<>>
  /\ seqVideo = 0 /\ seqAudio = 0 /\ tsVideo = 0 /\ tsAudio = 0
  /\ dueVideo = 0 /\ dueAudio = 0
  /\ video = <<>> /\ audio = <<>> /\ taken = <<>> /\ heard = <<>>
  /\ firstTaken = 0 /\ clock = 0

\* PLAY, once the last pusher has stopped: a new RtpPusher, started.
Play ==
  /\ ~running /\ plays < MaxPlays
  /\ plays' = plays + 1
  /\ running' = TRUE
  /\ sps' = <<>> /\ pps' = <<>>
  /\ seqVideo' = 0 /\ seqAudio' = 0 /\ tsVideo' = 0 /\ tsAudio' = 0
  /\ dueVideo' = 0 /\ dueAudio' = 0
  /\ video' = <<>> /\ audio' = <<>> /\ firstTaken' = Len(taken) /\ clock' = 0
  /\ UNCHANGED <<session, h264Pos, aacPos, taken, heard>>

\* TEARDOWN, or the client closes: stop.
Stop ==
  /\ running
  /\ running' = FALSE
  /\ UNCHANGED <<session, videoVars, audioVars, plays, firstTaken, clock>>

-----------------------------------------------------------------------------
(* The callback, gap after the one before. *)

Nalu == ReadNalu(h264, h264Pos)
Aac == ReadAdts(aac, aacPos)
NaluType == Nalu.frame[1]

VideoNotDue(gap) ==
  /\ dueVideo - gap > 0
  /\ dueVideo' = dueVideo - gap
  /\ UNCHANGED <<h264Pos, sps, pps, seqVideo, tsVideo, video, taken>>

\* A parameter set is kept; the next frame is due at once.
KeepParameterSet(gap) ==
  /\ dueVideo - gap <= 0 /\ Nalu.status = "Ok" /\ NaluType \in {7, 8}
  /\ sps' = IF NaluType = 7 THEN Nalu.frame ELSE sps
  /\ pps' = IF NaluType = 8 THEN Nalu.frame ELSE pps
  /\ h264Pos' = Nalu.pos
  /\ taken' = Append(taken, Nalu.frame)
  /\ dueVideo' = dueVideo - gap
  /\ UNCHANGED <<seqVideo, tsVideo, video>>

SendVideo(gap) ==
  /\ dueVideo - gap <= 0 /\ Nalu.status = "Ok" /\ NaluType \notin {7, 8}
  /\ LET payloads == IF NaluType = 5 THEN FrameWithParameterSets(Nalu.frame, sps, pps, useUdp)
                     ELSE Payloads(Nalu.frame)
     IN  /\ video' = video \o Packets(payloads, seqVideo, tsVideo)
         /\ seqVideo' = NextSeq(seqVideo, Len(payloads))
  /\ h264Pos' = Nalu.pos
  /\ taken' = Append(taken, Nalu.frame)
  /\ tsVideo' = tsVideo + VideoTicks
  /\ dueVideo' = dueVideo - gap + VideoInterval
  /\ UNCHANGED <<sps, pps>>

VideoTurn(gap) == VideoNotDue(gap) \/ KeepParameterSet(gap) \/ SendVideo(gap)

AudioNotDue(gap) ==
  /\ dueAudio - gap > 0
  /\ dueAudio' = dueAudio - gap
  /\ UNCHANGED <<aacPos, seqAudio, tsAudio, audio, heard, running>>

\* Mutant: the next frame is due an interval after this one was sent.
SendAudioFromNow(gap) ==
  /\ dueAudio - gap <= 0 /\ Aac.status = "Ok"
  /\ audio' = Append(audio, AudioPacket(Aac.frame[1], seqAudio, tsAudio))
  /\ heard' = Append(heard, Aac.frame[1])
  /\ seqAudio' = NextSeq(seqAudio, 1)
  /\ aacPos' = Aac.pos
  /\ tsAudio' = tsAudio + AudioTicks
  /\ dueAudio' = AudioInterval
  /\ UNCHANGED running

SendAudio(gap) ==
  /\ dueAudio - gap <= 0 /\ Aac.status = "Ok"
  /\ audio' = Append(audio, AudioPacket(Aac.frame[1], seqAudio, tsAudio))
  /\ heard' = Append(heard, Aac.frame[1])
  /\ seqAudio' = NextSeq(seqAudio, 1)
  /\ aacPos' = Aac.pos
  /\ tsAudio' = tsAudio + AudioTicks
  /\ dueAudio' = dueAudio - gap + AudioInterval
  /\ UNCHANGED running

\* The end of the audio file, or an error in it, ends both streams.
AudioEnds(gap) ==
  /\ dueAudio - gap <= 0 /\ Aac.status # "Ok"
  /\ running' = FALSE
  /\ aacPos' = Aac.pos
  /\ dueAudio' = dueAudio - gap
  /\ UNCHANGED <<seqAudio, tsAudio, audio, heard>>

AudioTurn(gap) == AudioNotDue(gap) \/ SendAudio(gap) \/ AudioEnds(gap)

\* The end of the video file, or an error in it: the callback returns before
\* it comes to the audio.
VideoEnds(gap) ==
  /\ dueVideo - gap <= 0 /\ Nalu.status # "Ok"
  /\ running' = FALSE
  /\ h264Pos' = Nalu.pos
  /\ dueVideo' = dueVideo - gap
  /\ dueAudio' = dueAudio - gap
  /\ UNCHANGED <<sps, pps, seqVideo, tsVideo, video, taken,
                 aacPos, seqAudio, tsAudio, audio, heard>>

Callback(gap) ==
  /\ running
  /\ gap # Min(Gaps) => dueVideo - gap >= -MaxLate /\ dueAudio - gap >= -MaxLate
  /\ VideoEnds(gap) \/ (VideoTurn(gap) /\ AudioTurn(gap))
  /\ clock' = clock + gap
  /\ UNCHANGED <<session, plays, firstTaken>>

Next == Play \/ Stop \/ \E gap \in Gaps : Callback(gap)

Spec == Init /\ [][Next]_vars
-----------------------------------------------------------------------------
(* Properties. *)

\* The reader cuts the file into its NAL units: those before its position have
\* been read, each once and in order, none lost, split, joined with another or
\* left with a piece of a start code, and a second PLAY reads on
\* (H264FileReader::readFrame).
FramesAreTheNalUnits ==
  LET read == {i \in UnitPlaces(h264) : i < h264Pos}
  IN  BeginsWithStartCode(h264) =>
        /\ Len(taken) = Cardinality(read)
        /\ \A i \in read :
             taken[Cardinality({j \in UnitPlaces(h264) : j <= i})] = UnitAt(h264, i)

\* What a receiver gets for NAL units read by one pusher: each with the
\* timestamp of its frame, an I frame after the last parameter sets of these.
NothingExpected == [sps |-> <<>>, pps |-> <<>>, ts |-> 0, sent |-> <<>>]

Expect(s, nalu) ==
  CASE nalu[1] = 7 -> [s EXCEPT !.sps = nalu]
    [] nalu[1] = 8 -> [s EXCEPT !.pps = nalu]
    [] OTHER ->
         [s EXCEPT !.ts = @ + VideoTicks,
                   !.sent = @ \o Stamped((IF nalu[1] = 5 THEN Known(s.sps) \o Known(s.pps) ELSE <<>>)
                                          \o <<nalu>>, s.ts)]

Expected(nalus) ==
  LET after[i \in 0..Len(nalus)] ==
        IF i = 0 THEN NothingExpected ELSE Expect(after[i - 1], nalus[i])
  IN  after[Len(nalus)]

\* The packets of a pusher, single, aggregated or fragmented, with consecutive
\* sequence numbers that wrap, give a receiver the NAL units that were read
\* since its PLAY, an I frame after the parameter sets read since then
\* (sendH264Frame, sendH264FrameUdp and the callback's STAP-A).  Sets that an
\* earlier pusher read are not sent again: see IFramesFollowParameterSets.
ReceiverGetsWhatWasRead ==
  LET received == Received(video)
  IN  /\ received.sound /\ received.partial = <<>>
      /\ received.nalus = Expected(SubSeq(taken, firstTaken + 1, Len(taken))).sent

\* No video packet is longer than the MTU, whichever of the three forms was
\* chosen (the sizes compared in RtpPusher.cc against those built).
PacketsFitMtu == \A i \in DOMAIN video : PacketSize(video[i]) <= Mtu

\* However late the callbacks come, neither stream drifts: its next frame is
\* due as many intervals after PLAY as frames were sent, and none was sent
\* before its time (nextVideoTime, nextAudioTime).
StreamsKeepTime ==
  LET videoSent == tsVideo \div VideoTicks
      audioSent == Len(audio)
  IN  /\ clock + dueVideo = videoSent * VideoInterval
      /\ clock + dueAudio = audioSent * AudioInterval
      /\ (videoSent - 1) * VideoInterval <= clock
      /\ (audioSent - 1) * AudioInterval <= clock

\* Where the audio reader stood when it had read the first i of these frames.
Behind(frames, i) == IF i = 0 THEN 1 ELSE frames[i].at + frames[i].length

\* What is sent as audio is what the reader gave out since the latest PLAY,
\* each piece once, in order.  Over all PLAYs a piece is as long as the header
\* it begins with says and never one that the file cuts off, and it begins
\* where the last one ended: only headers that are none are skipped
\* (AacFileReader::readFrame).
AudioFramesAreWhole ==
  /\ Len(audio) <= Len(heard)
  /\ \A i \in DOMAIN audio : /\ audio[i].payload = heard[Len(heard) - Len(audio) + i]
                             /\ audio[i].seq = (i - 1) % SeqLimit
                             /\ audio[i].ts = (i - 1) * AudioTicks
  /\ \A i \in DOMAIN heard : Intact(aac, heard[i]) /\ BadHeaders(aac, Behind(heard, i - 1), heard[i].at)

\* What RtpPusher.cc:93 says of an I frame: it is sent after the SPS and the
\* PPS, when the client has been played one of each before.  A second PLAY
\* makes a new pusher that knows neither, and the reader does not go back.
IFramesFollowParameterSets ==
  LET before == SubSeq(taken, 1, firstTaken)
      nalus == Received(video).nalus
      type(i) == nalus[i].nalu[1]
  IN  (\A set \in {7, 8} : \E i \in DOMAIN before : before[i][1] = set) =>
        \A i \in DOMAIN nalus : type(i) = 5 => i > 2 /\ type(i - 2) = 7 /\ type(i - 1) = 8
=============================================================================
