----------------------------- MODULE EventLoop -----------------------------
(***************************************************************************)
(* A sub loop at work (reactor/EventLoop.cc) with the TCP connections and  *)
(* the RTCP sockets it serves: one thread waits in epoll_wait, works off   *)
(* the events it got in one go, and in the middle of a handler may have to *)
(* wait for a client's socket to take a message.                           *)
(*                                                                         *)
(* The connections are handed over by the main loop (runInLoop, at what    *)
(* Eventor is shown to implement).  A handler's effect on the pushers and  *)
(* on the RTCP sockets of its connection is a choice among those that the  *)
(* requests have (module RtspConnect has the requests themselves); a       *)
(* pusher that uses UDP never makes the loop wait, and what its timer      *)
(* sends is left out.                                                      *)
(***************************************************************************)
EXTENDS TcpConnection, FiniteSets

CONSTANTS Clients,
          Pipeliners,     \* clients that send a request before the last is answered
          Readers,        \* clients that go on reading while they are connected
          Quitters,       \* clients that may close or abort
          MaxRequests,    \* bound on the requests of a client
          MaxDatagrams    \* bound on the RTCP datagrams waiting at a socket

ASSUME EventLoopAssumption ==
  /\ UNION {Pipeliners, Readers, Quitters} \subseteq Clients
  /\ {MaxRequests, MaxDatagrams} \subseteq Nat

VARIABLES peer,        \* the state of each client's socket
          sent,        \* history: bytes each client has sent
          inbox,       \* bytes that have arrived at its socket and were not received
          outbox,      \* messages in its socket that the client has not read
          datagrams,   \* RTCP datagrams waiting for each client's RTCP sockets
          pendings,    \* connections handed to the loop, not yet added
          conns,       \* _conns, which are also the sockets in the epoll set
          recvBuffer,  \* _recvBuffer of each TcpConnection
          handled,     \* history: what each RtspConnect was given as a request
          playing,     \* connections whose pusher, over TCP, has its timer on the loop
          pusher,      \* the pushers of each connection: none yet, one at most that
                       \* has a timer, or one that was replaced with its timer on
          rtcp,        \* whether RTCP sockets of each connection are in the epoll set
          batch,       \* events of the last epoll_wait still to be handled
          toWrite,     \* connections a message is still to be written to
          crashed      \* the process is gone

network == <<peer, sent, inbox, outbox, datagrams>>
loopState == <<pendings, conns, recvBuffer, handled, playing, pusher, rtcp>>
vars == <<network, loopState, batch, toWrite, crashed>>

Events == {<<"eventfd">>, <<"timerfd">>} \cup ({"tcp", "udp"} \X Clients)

TypeOK ==
  /\ peer \in [Clients -> Peer]
  /\ sent \in [Clients -> 0..MaxRequests * RequestLength]
  /\ {inbox, recvBuffer} \subseteq [Clients -> Seq(1..MaxRequests * RequestLength)]
  /\ outbox \in [Clients -> 0..SendSpace]
  /\ datagrams \in [Clients -> 0..MaxDatagrams]
  /\ pendings \subseteq Clients /\ conns \subseteq Clients
  /\ handled \in [Clients -> Seq(Seq(1..MaxRequests * RequestLength))]
  /\ playing \in Seq(Clients)
  /\ pusher \in [Clients -> {"none", "one", "replaced"}]
  /\ rtcp \in [Clients -> {"none", "registered"}]
  /\ batch \subseteq Events
  /\ toWrite \in Seq(Clients)
  /\ crashed \in BOOLEAN

Init ==
  /\ peer = [c \in Clients |-> "away"]
  /\ sent = [c \in Clients |-> 0]
  /\ inbox = [c \in Clients |-> <<>>]
  /\ outbox = [c \in Clients |-> 0]
  /\ datagrams = [c \in Clients |-> 0]
  /\ pendings = {} /\ conns = {}
  /\ recvBuffer = [c \in Clients |-> <<>>]
  /\ handled = [c \in Clients |-> <<>>]
  /\ playing = <<>>
  /\ pusher = [c \in Clients |-> "none"]
  /\ rtcp = [c \in Clients |-> "none"]
  /\ batch = {} /\ toWrite = <<>> /\ crashed = FALSE

-----------------------------------------------------------------------------
(* The clients and the network. *)

\* The main loop accepts the client and hands its connection over.
Connect(c) ==
  /\ peer[c] = "away"
  /\ peer' = [peer EXCEPT ![c] = "connected"]
  /\ pendings' = pendings \cup {c}
  /\ UNCHANGED <<sent, inbox, outbox, datagrams, conns, recvBuffer, handled, playing, pusher,
                 rtcp, batch, toWrite, crashed>>

\* The requests c has sent in full and the loop has not answered.
Outstanding(c) ==
  sent[c] \div RequestLength - Len(handled[c]) + Cardinality({i \in DOMAIN toWrite : toWrite[i] = c})

\* The next byte of c arrives.  Who does not pipeline starts a request when
\* the one before has been answered, a pipeliner one request earlier.
Send(c) ==
  /\ peer[c] = "connected" /\ sent[c] < MaxRequests * RequestLength
  /\ EndsRequest(sent[c]) => Outstanding(c) <= IF c \in Pipeliners THEN 1 ELSE 0
  /\ sent' = [sent EXCEPT ![c] = @ + 1]
  /\ inbox' = [inbox EXCEPT ![c] = Append(@, sent'[c])]
  /\ UNCHANGED <<peer, outbox, datagrams, loopState, batch, toWrite, crashed>>

Read(c) ==
  /\ peer[c] = "connected" /\ outbox[c] > 0
  /\ outbox' = [outbox EXCEPT ![c] = @ - 1]
  /\ UNCHANGED <<peer, sent, inbox, datagrams, loopState, batch, toWrite, crashed>>

Close(c) ==
  /\ c \in Quitters /\ peer[c] = "connected"
  /\ peer' = [peer EXCEPT ![c] = "closed"]
  /\ UNCHANGED <<sent, inbox, outbox, datagrams, loopState, batch, toWrite, crashed>>

Abort(c) ==
  /\ c \in Quitters /\ peer[c] \in {"connected", "closed"}
  /\ peer' = [peer EXCEPT ![c] = "reset"]
  /\ UNCHANGED <<sent, inbox, outbox, datagrams, loopState, batch, toWrite, crashed>>

SendRtcp(c) ==
  /\ rtcp[c] # "none" /\ datagrams[c] < MaxDatagrams
  /\ datagrams' = [datagrams EXCEPT ![c] = @ + 1]
  /\ UNCHANGED <<peer, sent, inbox, outbox, loopState, batch, toWrite, crashed>>

-----------------------------------------------------------------------------
(* The loop. *)

\* A timer is on the loop whose pusher is gone.
Dangling == \E c \in Clients : pusher[c] = "replaced"

Ready ==
  {e \in Events : \/ e = <<"eventfd">> /\ pendings # {}
                  \/ e = <<"timerfd">> /\ (playing # <<>> \/ Dangling)
                  \/ \E c \in conns : /\ e = <<"tcp", c>>
                                      /\ inbox[c] # <<>> \/ peer[c] # "connected"
                  \/ \E c \in Clients : e = <<"udp", c>> /\ rtcp[c] # "none" /\ datagrams[c] > 0}

\* epoll_wait returns what is ready; its timeout changes nothing.
WaitEpollFd ==
  /\ batch = {} /\ toWrite = <<>> /\ ~crashed
  /\ batch' = Ready
  /\ UNCHANGED <<network, loopState, toWrite, crashed>>

\* The events of a batch are handled one at a time, in the order the kernel
\* happened to put them in.
Dispatch(e) ==
  /\ e \in batch /\ toWrite = <<>> /\ ~crashed
  /\ batch' = batch \ {e}


\* handleRead of the eventor: addConnection for each connection handed over.
AddConnections ==
  /\ Dispatch(<<"eventfd">>)
  /\ conns' = conns \cup pendings
  /\ pendings' = {}
  /\ UNCHANGED <<network, recvBuffer, handled, playing, pusher, rtcp, toWrite, crashed>>

\* handleRead of the timers: the callback of each pusher, in the order of the
\* timers, writes a packet if a frame is due and its files are not at an end.
\* That of a pusher that is gone uses a dangling pointer (or, for now, nothing
\* is noticed).
PushFrames ==
  /\ Dispatch(<<"timerfd">>)
  /\ \E n \in 0..Len(playing) : \E due \in [1..n -> DOMAIN playing] :
       /\ \A i, j \in 1..n : i < j => due[i] < due[j]
       /\ toWrite' = [i \in 1..n |-> playing[due[i]]]
  /\ crashed' \in {FALSE, Dangling}
  /\ UNCHANGED <<network, loopState>>

\* PLAY makes c a new pusher.  The one it replaces leaves its timer behind if
\* that is on the loop, as over TCP it is in playing, and over UDP may be.
PlayEffect(c) ==
  /\ \E p \in {"one", "replaced"} :
       /\ pusher[c] = "none" => p = "one"
       /\ pusher[c] = "replaced" \/ Contains(playing, c) => p = "replaced"
       /\ pusher' = [pusher EXCEPT ![c] = p]
  /\ \/ playing' = Append(RemoveFirst(playing, c), c) /\ UNCHANGED rtcp
     \/ playing' = RemoveFirst(playing, c) /\ rtcp' = [rtcp EXCEPT ![c] = "registered"]

\* What serving a request of c does besides its answer: nothing, PLAY over
\* the connection or over UDP, TEARDOWN.
RequestEffect(c) ==
  \/ UNCHANGED <<playing, pusher, rtcp>>
  \/ PlayEffect(c)
  \/ playing' = RemoveFirst(playing, c) /\ UNCHANGED <<pusher, rtcp>>

\* handleMessage on a connection that is not closed: handleRtspConnect.  A
\* recv that fails reports the abort, and there is no request.
HandleRequest(c) ==
  /\ Dispatch(<<"tcp", c>>) /\ c \in conns /\ ~IsClosed(peer[c], inbox[c])
  /\ LET got == ReciveRtspRequest(recvBuffer[c], inbox[c]) IN
     IF inbox[c] = <<>>
     THEN /\ peer' = [peer EXCEPT ![c] = "drained"]
          /\ UNCHANGED <<inbox, recvBuffer, handled, playing, pusher, rtcp, toWrite>>
     ELSE /\ inbox' = [inbox EXCEPT ![c] = Left(@)]
          /\ recvBuffer' = [recvBuffer EXCEPT ![c] = got.buffer]
          /\ UNCHANGED peer
          /\ IF got.request = <<>>
             THEN UNCHANGED <<handled, playing, pusher, rtcp, toWrite>>
             ELSE /\ handled' = [handled EXCEPT ![c] = Append(@, got.request)]
                  /\ toWrite' = <<c>>
                  /\ RequestEffect(c)
  /\ UNCHANGED <<sent, outbox, datagrams, pendings, conns, crashed>>

\* removeConnection: the descriptor leaves _conns and the epoll set.
RemoveConnection(c) == conns' = conns \ {c}

\* releaseUdpPorts: the RTCP sockets leave the epoll set, with what waits in
\* them, if the session is there and they are the ones c has now; either may
\* be the case (module RtspConnect).
ReleaseRtcp(c) ==
  \/ UNCHANGED <<rtcp, datagrams>>
  \/ /\ rtcp' = [rtcp EXCEPT ![c] = "none"]
     /\ datagrams' = [datagrams EXCEPT ![c] = 0]

\* Mutant: the pusher of a closed connection keeps its timer.
CloseWithoutStop(c) ==
  /\ Dispatch(<<"tcp", c>>) /\ c \in conns /\ IsClosed(peer[c], inbox[c])
  /\ RemoveConnection(c) /\ ReleaseRtcp(c)
  /\ UNCHANGED <<peer, sent, inbox, outbox, pendings, recvBuffer, handled, playing, pusher,
                 toWrite, crashed>>

\* handleMessage on a closed connection: its close callback (releaseSession,
\* which stops the pusher), removeConnection.
HandleClose(c) ==
  /\ Dispatch(<<"tcp", c>>) /\ c \in conns /\ IsClosed(peer[c], inbox[c])
  /\ RemoveConnection(c) /\ ReleaseRtcp(c)
  /\ playing' = RemoveFirst(playing, c)
  /\ UNCHANGED <<peer, sent, inbox, outbox, pendings, recvBuffer, handled, pusher, toWrite,
                 crashed>>

\* handleMessage on an RTCP socket: the callback receives one datagram.
HandleRtcp(c) ==
  /\ Dispatch(<<"udp", c>>) /\ rtcp[c] # "none"
  /\ datagrams' = [datagrams EXCEPT ![c] = @ - 1]
  /\ UNCHANGED <<peer, sent, inbox, outbox, loopState, toWrite, crashed>>

\* handleMessage on a descriptor that an earlier event of the batch has
\* taken out of udpConns.
ConnectionNotFound(c) ==
  /\ Dispatch(<<"udp", c>>) /\ rtcp[c] = "none"
  /\ UNCHANGED <<network, loopState, toWrite, crashed>>

\* send, called on the loop's thread: writen, and substr(-1), which throws
\* (or SIGPIPE) when it fails.
Write ==
  /\ toWrite # <<>> /\ ~crashed
  /\ LET c == Head(toWrite) IN
     /\ ~WriteBlocks(peer[c], outbox[c])
     /\ crashed' = WriteFails(peer[c])
     /\ outbox' = [outbox EXCEPT ![c] = IF peer[c] = "connected" THEN @ + 1 ELSE @]
  /\ toWrite' = Tail(toWrite)
  /\ UNCHANGED <<peer, sent, inbox, datagrams, loopState, batch>>

LoopStep == \/ WaitEpollFd \/ AddConnections \/ PushFrames \/ Write
            \/ \E c \in Clients : \/ HandleRequest(c) \/ HandleClose(c)
                                  \/ HandleRtcp(c) \/ ConnectionNotFound(c)

ClientStep == \E c \in Clients : \/ Connect(c) \/ Send(c) \/ Read(c)
                                 \/ Close(c) \/ Abort(c) \/ SendRtcp(c)

Next == ~crashed /\ (LoopStep \/ ClientStep)

\* The loop's thread is scheduled, and the Readers read.
Fairness == WF_vars(LoopStep) /\ \A c \in Readers : WF_vars(~crashed /\ Read(c))

Spec == Init /\ [][Next]_vars /\ Fairness
-----------------------------------------------------------------------------
(* Properties. *)

\* No byte is lost, repeated or reordered between the client and the handlers:
\* the requests handed on, what waits in _recvBuffer and what waits in the
\* socket are what the client sent (TcpConnection::reciveRtspRequest).
BytesInOrder ==
  \A c \in Clients : FlattenSeq(handled[c]) \o recvBuffer[c] \o inbox[c] = Bytes(sent[c])

\* A connection that has been removed is not written to: neither its pusher's
\* timer nor a response outlives it (the close callback and removeConnection in
\* EventLoop::handleMessage against the timers of the same loop).
NothingWrittenAfterClose ==
  {playing[i] : i \in DOMAIN playing} \cup {toWrite[i] : i \in DOMAIN toWrite} \subseteq conns

Stream == INSTANCE RequestStream WITH
  Clients <- Clients,
  arrived <- [c \in Clients |-> sent[c] \div RequestLength],
  served <- [c \in Clients |-> [i \in DOMAIN handled[c] |-> RequestNumber(handled[c][i])]]

\* Epoll, the receive buffers and the batches of events implement the stream of
\* requests, however bytes are cut into segments.
ImplementsRequestStream == Stream!Spec

Arrived(c, r) == sent[c] >= r * RequestLength
Handled(c, r) == Len(handled[c]) >= r /\ ~Contains(toWrite, c)
LeftOrLost(c) == peer[c] # "connected" \/ crashed


\* Every complete request is served, also one that arrives together with
\* another (the comments in TcpConnection::reciveRtspRequest).
EveryRequestIsServed ==
  \A c \in Readers : \A r \in 1..MaxRequests :
     Arrived(c, r) ~> Len(handled[c]) >= r \/ LeftOrLost(c)

\* The loop notices that a client has left: its connection, with the pusher,
\* goes (EventLoop::handleMessage, isClosed), unless the process does.
LeaversAreRemoved ==
  \A c \in Clients : peer[c] \in {"closed", "reset", "drained"} ~> c \notin conns \cup pendings \/ crashed
=============================================================================
