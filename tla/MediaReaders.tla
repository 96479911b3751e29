---------------------------- MODULE MediaReaders ----------------------------
(***************************************************************************)
(* readFrame of H264FileReader and AacFileReader (src/media), as functions *)
(* of a file and the position of its next byte or frame.  The result has   *)
(* the status, the frame if it is "Ok", and the position left behind.      *)
(*                                                                         *)
(* An H.264 file is a sequence of bytes.  An ADTS file is given, byte by   *)
(* byte, by what a header that began there would say: the length of its    *)
(* frame, or 0 without the sync word.                                      *)
(***************************************************************************)
EXTENDS Integers, SequencesExt, FiniteSetsExt

StartCode == <<0, 0, 1>>
AdtsHeader == 7

\* A piece of an ADTS file: the place of its header, and the length it has there.
AdtsFrame == [at : Nat \ {0}, length : Nat]

\* A start code of three bytes at i.
StartCodeAt(file, i) == i + 2 <= Len(file) /\ SubSeq(file, i, i + 2) = StartCode

\* isStartCode at i, a position to read from: how long the start code is.
StartCodeLength(file, i) ==
  IF StartCodeAt(file, i) THEN 3
  ELSE IF i < Len(file) /\ file[i] = 0 /\ StartCodeAt(file, i + 1) THEN 4
  ELSE 0

\* Mutant: only start codes of three bytes are taken off the end of a frame.
NaluFromKeepingZero(file, body) ==
  LET codes == {i \in body..Len(file) : StartCodeAt(file, i)}
      end == IF codes = {} THEN Len(file) ELSE Min(codes) - 1
  IN  [status |-> IF end >= body THEN "Ok" ELSE IF codes = {} THEN "Eof" ELSE "NoData",
       frame |-> SubSeq(file, body, end),
       pos |-> end + 1]

\* The second loop of readFrame: the bytes from body up to the next start
\* code, which is left in the file; a zero before its three bytes is its own.
NaluFrom(file, body) ==
  LET codes == {i \in body..Len(file) : StartCodeAt(file, i)}
      code == Min(codes)
      end == IF codes = {} THEN Len(file)
             ELSE IF code > body /\ file[code - 1] = 0 THEN code - 2
             ELSE code - 1
  IN  [status |-> IF end >= body THEN "Ok" ELSE IF codes = {} THEN "Eof" ELSE "NoData",
       frame |-> SubSeq(file, body, end),
       pos |-> end + 1]

\* H264FileReader::readFrame.  The first loop looks for a start code at the
\* position it starts from only: without one it reads to the end of the file.
ReadNalu(file, pos) ==
  IF pos > Len(file) THEN [status |-> "Eof", frame |-> <<>>, pos |-> pos]
  ELSE IF StartCodeLength(file, pos) > 0
       THEN NaluFrom(file, pos + StartCodeLength(file, pos))
       ELSE [status |-> "Ok", frame |-> SubSeq(file, pos, Len(file)), pos |-> Len(file) + 1]

\* Mutant: a frame that was cut off is taken for a whole one.
ReadAdtsUnchecked(file, pos) ==
  LET left == Len(file) - pos + 1
      result(status, frame, next) == [status |-> status, frame |-> frame, pos |-> next]
  IN  IF left < AdtsHeader THEN result("Eof", <<>>, Len(file) + 1)
      ELSE IF file[pos] < AdtsHeader THEN result("FileError", <<>>, pos + AdtsHeader)
      ELSE result("Ok", <<[at |-> pos, length |-> file[pos]]>>, Min({pos + file[pos], Len(file) + 1}))

\* AacFileReader::readFrame.  A read that comes to the end of the file leaves
\* the stream there for good; after a header that is none it stands behind
\* these seven bytes, and the next call reads on from there.
ReadAdts(file, pos) ==
  LET left == Len(file) - pos + 1
      result(status, frame, next) == [status |-> status, frame |-> frame, pos |-> next]
  IN  IF left < AdtsHeader THEN result("Eof", <<>>, Len(file) + 1)
      ELSE IF file[pos] < AdtsHeader THEN result("FileError", <<>>, pos + AdtsHeader)
      ELSE IF file[pos] > left THEN result("Eof", <<>>, Len(file) + 1)
      ELSE result("Ok", <<[at |-> pos, length |-> file[pos]]>>, pos + file[pos])

-----------------------------------------------------------------------------
(* Reference definitions. *)

\* The NAL unit of the start code at i: what lies between it and the next one,
\* or the end, without the zero that makes a start code four bytes.
UnitAt(file, i) ==
  LET later == {j \in i + 1..Len(file) : StartCodeAt(file, j)}
      unstripped == SubSeq(file, i + 3, IF later = {} THEN Len(file) ELSE Min(later) - 1)
  IN  IF later # {} /\ unstripped # <<>> /\ Last(unstripped) = 0
      THEN Front(unstripped) ELSE unstripped

\* The NAL units of a byte stream, by the places of their start codes.
UnitPlaces(file) == {i \in DOMAIN file : StartCodeAt(file, i) /\ UnitAt(file, i) # <<>>}

\* A file that begins with a start code.
BeginsWithStartCode(file) == StartCodeLength(file, 1) > 0

\* The piece has a header, all of it is there, and it is as long as that says.
Intact(file, frame) ==
  /\ frame.at \in DOMAIN file /\ frame.length = file[frame.at]
  /\ AdtsHeader <= frame.length /\ frame.length <= Len(file) - frame.at + 1

\* From i to j there is nothing but headers that are none.
BadHeaders(file, i, j) ==
  \E k \in 0..Len(file) :
    j = i + AdtsHeader * k /\ \A n \in 0..k - 1 : file[i + AdtsHeader * n] < AdtsHeader
=============================================================================
