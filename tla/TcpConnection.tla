--------------------------- MODULE TcpConnection ---------------------------
(***************************************************************************)
(* The socket and the receive buffer of a TcpConnection                    *)
(* (reactor/TcpConnection.cc, reactor/SocketIO.cc).                        *)
(*                                                                         *)
(* The bytes a client sends are numbered 1, 2, ...; its requests are       *)
(* RequestLength bytes long, the last of them standing for the blank line  *)
(* that ends a request.                                                    *)
(*                                                                         *)
(* An accepted socket is left in blocking mode (Socket.cc:17 sets no flag, *)
(* and accept does not inherit the listener's), so writen returns when     *)
(* everything has been written or the peer is gone: _sendBuffer stays      *)
(* empty, _isWriting false, and handleWriteCallback is never called.       *)
(***************************************************************************)
EXTENDS Naturals, SequencesExt

CONSTANTS RequestLength,  \* bytes of a request
          RecvSize,       \* bytes one recv takes at most (4096 in the code)
          SendSpace       \* messages the kernel holds for a client that does not read

ASSUME TcpConnectionAssumption == {RequestLength, RecvSize, SendSpace} \subseteq Nat \ {0}

\* The peer of a socket: not there yet, there, closed (its FIN is queued
\* behind its bytes), aborted (RST), and aborted with the error reported.
Peer == {"away", "connected", "closed", "reset", "drained"}

EndsRequest(byte) == byte % RequestLength = 0

Bytes(n) == [i \in 1..n |-> i]

\* The number of the request that the string request is, 0 if it is none.
RequestNumber(request) ==
  LET r == request[Len(request)] \div RequestLength
  IN  IF request = [i \in 1..RequestLength |-> (r - 1) * RequestLength + i] THEN r ELSE 0

\* Mutant: only a FIN counts as closed.
IsClosedByFin(peer, inbox) == inbox = <<>> /\ peer = "closed"

\* isClosed: recv with MSG_PEEK returns 0.
IsClosed(peer, inbox) == inbox = <<>> /\ peer \in {"closed", "drained"}

\* What one recv takes from the bytes that have arrived, and leaves of them.
Taken(inbox) == SubSeq(inbox, 1, IF Len(inbox) < RecvSize THEN Len(inbox) ELSE RecvSize)
Left(inbox) == SubSeq(inbox, RecvSize + 1, Len(inbox))

\* Where the first complete request in the receive buffer ends, 0 if there
\* is none.
RequestEnd(buffer) == SelectInSeq(buffer, EndsRequest)

\* Mutant: everything received is taken for the request.
ReciveWithoutSplit(buffer, inbox) ==
  LET received == buffer \o Taken(inbox)
  IN  [request |-> IF RequestEnd(received) = 0 THEN <<>> ELSE received,
       buffer |-> IF RequestEnd(received) = 0 THEN received ELSE <<>>]

\* Mutant: what has been received of an incomplete request is forgotten.
ReciveWithoutBuffer(buffer, inbox) ==
  LET received == buffer \o Taken(inbox)
      end == RequestEnd(received)
  IN  [request |-> SubSeq(received, 1, end), buffer |-> <<>>]

\* reciveRtspRequest, its result and what it leaves in the receive buffer:
\* one recv, and at most one request cut out.
ReciveRtspRequest(buffer, inbox) ==
  LET received == buffer \o Taken(inbox)
      end == RequestEnd(received)
  IN  [request |-> SubSeq(received, 1, end), buffer |-> SubSeq(received, end + 1, Len(received))]

\* Mutant: the socket is taken for a non-blocking one.
WriteNeverBlocks(peer, outbox) == FALSE

\* writen to a blocking socket: it waits while the peer is there and the
\* kernel's buffer is full, and fails once the peer has aborted.  A peer that
\* has closed takes no more, and answers with an RST some time later.
WriteBlocks(peer, outbox) == peer = "connected" /\ outbox = SendSpace
WriteFails(peer) == peer \in {"reset", "drained"}
=============================================================================
