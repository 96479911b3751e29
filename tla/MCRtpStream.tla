---------------------------- MODULE MCRtpStream ----------------------------
(***************************************************************************)
(* TLC instance of RtpStream: packets of 22 bytes at most, so that an I    *)
(* frame of one byte goes out with its parameter sets in one packet, one   *)
(* of 10 is sent alone, and longer ones are fragmented, exactly (17) or    *)
(* with a rest (11).                                                       *)
(***************************************************************************)
EXTENDS RtpStream

NalUnit(type, size) == <<type>> \o [i \in 1..size - 1 |-> 9]

Nalus == {<<7>>, <<8>>, <<1, 0>>, <<>>} \cup {NalUnit(5, n) : n \in {1, 10, 11, 17}}
Codes == {<<0, 0, 1>>, <<0, 0, 0, 1>>}

\* Files of at most two NAL units in every mixture of start codes, files with
\* both parameter sets before two frames, and files that begin otherwise.
ShortFiles == {FlattenSeq(f) : f \in UNION {[1..n -> {c \o u : c \in Codes, u \in Nalus}] : n \in 0..2}}
FullFiles == {FlattenSeq(<<<<0, 0, 0, 1, 7, 0, 0, 0, 1, 8, 0, 0, 1>>, f, <<0, 0, 0, 1>>, g>>) :
                f \in Nalus, g \in Nalus}
OddFiles == {<<0>> \o f : f \in ShortFiles} \cup {<<9, 0, 0, 1, 7>>}

MCH264Files == ShortFiles \cup FullFiles \cup OddFiles

\* A frame of n bytes, n of nothing, and n with what looks like a header of a
\* frame of 8 bytes behind the first seven.
Adts(n) == <<n>> \o [i \in 1..n - 1 |-> 0]
Junk(n) == [i \in 1..n |-> 0]
Deceptive(n) == [i \in 1..n |-> IF i = AdtsHeader + 1 THEN 8 ELSE 0]

\* Frames cut off within the header and behind it, a bad header with a frame
\* right behind it, in the middle of a frame, and with a false one behind it.
MCAacFiles ==
  {<<>>, Adts(9) \o Adts(8) \o Adts(7) \o Adts(9) \o SubSeq(Adts(9), 1, 4),
   Adts(9) \o SubSeq(Adts(9), 1, 8), Adts(8) \o Junk(7) \o Adts(8),
   Adts(8) \o Deceptive(9) \o Adts(8), SubSeq(Adts(6), 1, 6) \o Adts(8)}
=============================================================================
