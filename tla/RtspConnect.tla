---------------------------- MODULE RtspConnect ----------------------------
(***************************************************************************)
(* The RTSP sessions of media/RtspConnect.cc: the session map all          *)
(* connections share, the UDP ports, the UDP connections of each RTSP      *)
(* connection, the registration of the RTCP ones with the loop, and the    *)
(* pusher PLAY starts.                                                     *)
(*                                                                         *)
(* A connection's requests and timer callbacks run one at a time on its    *)
(* loop's thread.  handleSetup, handlePlay, handleTeardown and             *)
(* releaseSession hold _sessionMutex from their first statement to their   *)
(* last, and parseRequest changes only the connection's own members, so a  *)
(* whole request is one action and requests of different connections       *)
(* interleave in any order.  A request always has a request line here.     *)
(* Nothing on a loop's thread catches what std::stoi throws.               *)
(***************************************************************************)
EXTENDS RtpPusher, FiniteSets

CONSTANTS
  NoSession,        \* the empty currentSessionId
  MaxSessions,      \* bound on the sessions generateSessionId names
  FirstPort,        \* 10000, the initial value of nextUdpPort
  MaxAllocations,   \* bound on the calls of allocateUdpPorts
  NamedSessions,    \* the sessions any client may name
  Methods,          \* the requests the clients send
  Transports        \* the Transport headers the clients send

ASSUME RtspConnectAssumption ==
  /\ MaxSessions \in Nat /\ MaxAllocations \in Nat
  /\ FirstPort \in Nat \ {0}
  /\ NoSession \notin Nat
  /\ NamedSessions \subseteq 1..MaxSessions
  /\ Methods \subseteq {"SETUP", "PLAY", "TEARDOWN", "OPTIONS"}
  /\ Transports \subseteq {"interleaved", "udp", "udpWithoutPorts"}

VARIABLES
  sessions,     \* _sessionMap
  nextSession,  \* the counter of generateSessionId
  nextUdpPort,  \* nextUdpPort
  conn,         \* the members of each RtspConnect and its connection's state
  registered,   \* the RTCP connections in the loops' epoll sets and udpConns
  strayed,      \* history: sessions that a client has come to or left by a Session
                \* header, which named another one or none
  crashed       \* the process has died of a null or dangling pointer or an exception

vars == <<pushers, sessions, nextSession, nextUdpPort, conn, registered, strayed, crashed>>

SessionId == 1..MaxSessions
Track == {"video", "audio"}

\* A pair of UdpConnections (RTP and RTCP) made by one SETUP: serial tells
\* the objects apart, port is the RTP one they were told to bind.
NoUdp == [serial |-> 0, port |-> 0]

Init == /\ pushers = <<>>
        /\ sessions = <<>>
        /\ nextSession = 1
        /\ nextUdpPort = FirstPort
        /\ conn = [c \in Conns |-> [open |-> TRUE, sid |-> NoSession, transport |-> "none",
                                    video |-> NoUdp, audio |-> NoUdp, pusher |-> 0]]
        /\ registered = {}
        /\ strayed = {}
        /\ crashed = FALSE

-----------------------------------------------------------------------------
\* The headers of a request to c that change something: the Transport header
\* ("none" if there is none, or the one kept already), and the session id c has
\* once a Session header has been read: the one it had (no header, or its own),
\* none at all (the header is there but empty), or any other, whether it was
\* given to another client, to none, or is yet to be generated.
Headers(c) ==
  [transport : (Transports \ {conn[c].transport}) \cup {"none"},
   session : {conn[c].sid, NoSession} \cup NamedSessions]

\* parseRequest: a Transport header replaces the one kept from an earlier
\* request, a Session header replaces currentSessionId, also by nothing.
Parsed(c, h) ==
  [conn[c] EXCEPT !.transport = IF h.transport = "none" THEN @ ELSE h.transport,
                  !.sid = h.session]

\* A request with these headers is delivered to c.
Serves(c, h, method) ==
  /\ ~crashed /\ conn[c].open /\ method \in Methods
  /\ strayed' = strayed \cup IF h.session = conn[c].sid THEN {}
                             ELSE {h.session, conn[c].sid} \ {NoSession}

\* std::stoi throws, and the process ends: on a CSeq that is not a number, in any
\* request, or in a SETUP on client ports that no int can hold.
StoiThrows(c) ==
  /\ ~crashed /\ conn[c].open
  /\ crashed' = TRUE
  /\ UNCHANGED <<pushers, sessions, nextSession, nextUdpPort, conn, registered, strayed>>

NewSession == [useUdp |-> FALSE, videoPort |-> 0, audioPort |-> 0]

\* _sessionMap[id]: a session is made if there is none.
SessionAt(id) == IF id \in DOMAIN sessions THEN sessions[id] ELSE NewSession

\* The session a SETUP works on: the one c is in, or a new one, which replaces
\* whatever was made under its id before.
SetupSession(old) == IF old.sid = NoSession THEN NewSession ELSE SessionAt(old.sid)

SetupId(old) == IF old.sid = NoSession THEN nextSession ELSE old.sid

WithSession(id, session) ==
  [other \in DOMAIN sessions \cup {id} |-> IF other = id THEN session ELSE sessions[other]]

WithoutSession(id) == [other \in DOMAIN sessions \ {id} |-> sessions[other]]

\* allocateUdpPorts, which hands out nextUdpPort and advances it by 2.
AllocateUdpPorts == nextUdpPort' = nextUdpPort + 2

\* handleSetup: the first UDP SETUP of a session fixes its video port, the
\* second its audio port, whichever tracks they are for.
WithPorts(session, base) ==
  IF session.videoPort = 0 THEN [session EXCEPT !.videoPort = base]
  ELSE IF session.audioPort = 0 THEN [session EXCEPT !.audioPort = base + 2]
  ELSE session

\* handleSetup over TCP, or with a Transport header that is not understood:
\* only the session's existence changes.
SetupTcp(c, h) ==
  /\ Serves(c, h, "SETUP")
  /\ Parsed(c, h).transport \in {"none", "interleaved"}
  /\ LET old == Parsed(c, h)
         id  == SetupId(old)
     IN  /\ id \in SessionId
         /\ sessions' = WithSession(id, SetupSession(old))
         /\ nextSession' = IF old.sid = NoSession THEN nextSession + 1 ELSE nextSession
         /\ conn' = [conn EXCEPT ![c] = [old EXCEPT !.sid = id]]
  /\ UNCHANGED <<pushers, nextUdpPort, registered, crashed>>

\* handleSetup over UDP for a track, or for a url of neither track.  The pair
\* of UdpConnections is made only if the client named its ports.
SetupUdp(c, h, track) ==
  /\ Serves(c, h, "SETUP")
  /\ Parsed(c, h).transport \in {"udp", "udpWithoutPorts"}
  /\ nextUdpPort < FirstPort + 2 * MaxAllocations
  /\ LET old     == Parsed(c, h)
         id      == SetupId(old)
         session == [WithPorts(SetupSession(old), nextUdpPort) EXCEPT !.useUdp = TRUE]
         pair(t) == IF old.transport = "udp" /\ t = track
                    THEN [serial |-> nextUdpPort,
                          port |-> IF t = "video" THEN session.videoPort
                                                  ELSE session.audioPort]
                    ELSE old[t]
     IN  /\ id \in SessionId
         /\ sessions' = WithSession(id, session)
         /\ nextSession' = IF old.sid = NoSession THEN nextSession + 1 ELSE nextSession
         /\ conn' = [conn EXCEPT ![c] = [old EXCEPT !.sid = id, !.video = pair("video"),
                                                    !.audio = pair("audio")]]
  /\ AllocateUdpPorts
  /\ UNCHANGED <<pushers, registered, crashed>>

-----------------------------------------------------------------------------
\* handlePlay.  Over UDP both RTCP connections are dereferenced to register
\* them: a track that was not set up leaves a null pointer.
Play(c, h) ==
  /\ Serves(c, h, "PLAY")
  /\ LET old == Parsed(c, h)
         new == Cardinality(DOMAIN pushers) + 1
         rtcp == {[owner |-> c, track |-> t, pair |-> old[t]] : t \in Track}
     IN  \/ /\ old.sid \notin DOMAIN sessions
            /\ conn' = [conn EXCEPT ![c] = old]
            /\ UNCHANGED <<pushers, registered, crashed>>
         \/ /\ old.sid \in DOMAIN sessions
            /\ sessions[old.sid].useUdp /\ (\E t \in Track : old[t] = NoUdp)
            /\ crashed' = TRUE
            /\ UNCHANGED <<pushers, registered, conn>>
         \/ /\ old.sid \in DOMAIN sessions
            /\ sessions[old.sid].useUdp => \A t \in Track : old[t] # NoUdp
            /\ new \in PusherId
            /\ pushers' = Replaced(pushers, c, old.pusher, new)
            /\ conn' = [conn EXCEPT ![c] = [old EXCEPT !.pusher = new]]
            /\ registered' = registered \cup (IF sessions[old.sid].useUdp THEN rtcp ELSE {})
            /\ UNCHANGED crashed
  /\ UNCHANGED <<sessions, nextSession, nextUdpPort>>

\* handleTeardown: the session is erased, the pusher stopped; the UDP
\* connections and currentSessionId stay.
Teardown(c, h) ==
  /\ Serves(c, h, "TEARDOWN")
  /\ LET old == Parsed(c, h)
     IN  /\ sessions' = WithoutSession(old.sid)
         /\ pushers' = Stopped(pushers, old.pusher)
         /\ conn' = [conn EXCEPT ![c] = old]
  /\ UNCHANGED <<nextSession, nextUdpPort, registered, crashed>>

\* OPTIONS, DESCRIBE and any other method: only the headers are taken.
OtherRequest(c, h) ==
  /\ Serves(c, h, "OPTIONS")
  /\ conn' = [conn EXCEPT ![c] = Parsed(c, h)]
  /\ UNCHANGED <<pushers, sessions, nextSession, nextUdpPort, registered, crashed>>

-----------------------------------------------------------------------------
\* Mutant: releaseSession stops the pusher only if it finds the session.
ReleaseOnlyFoundSession(c) ==
  /\ ~crashed
  /\ conn[c].open
  /\ sessions' = WithoutSession(conn[c].sid)
  /\ pushers' = IF conn[c].sid \in DOMAIN sessions THEN Stopped(pushers, conn[c].pusher)
                ELSE pushers
  /\ conn' = [conn EXCEPT ![c].open = FALSE, ![c].sid = NoSession]
  /\ UNCHANGED <<nextSession, nextUdpPort, registered, strayed, crashed>>

\* Mutant: the session stays in the map.
ReleaseKeepsSession(c) ==
  /\ ~crashed
  /\ conn[c].open
  /\ pushers' = Stopped(pushers, conn[c].pusher)
  /\ conn' = [conn EXCEPT ![c].open = FALSE, ![c].sid = NoSession]
  /\ UNCHANGED <<sessions, nextSession, nextUdpPort, registered, strayed, crashed>>

\* EventLoop::handleMessage sees that the peer has closed: onClose, that is
\* releaseSession, then removeConnection.  handleWriteCallback also calls
\* onClose, but an accepted socket blocks, so that it never waits to write.
Release(c) ==
  /\ ~crashed
  /\ conn[c].open
  /\ LET old     == conn[c]
         found   == old.sid \in DOMAIN sessions
         release == found /\ sessions[old.sid].useUdp
     IN  /\ sessions' = WithoutSession(old.sid)
         /\ registered' = IF ~release THEN registered
                          ELSE {r \in registered : r.owner = c => r.pair # old[r.track]}
         /\ conn' = [conn EXCEPT ![c] =
                       [old EXCEPT !.open = FALSE,
                                   !.sid = NoSession,
                                   !.video = IF release THEN NoUdp ELSE @,
                                   !.audio = IF release THEN NoUdp ELSE @]]
         /\ pushers' = Stopped(pushers, old.pusher)
  /\ UNCHANGED <<nextSession, nextUdpPort, strayed, crashed>>

\* The timer callbacks of the pushers.
PusherCallback(p) ==
  /\ ~crashed
  /\ ReachEnd(p) \/ CallbackWhenStopped(p)
  /\ UNCHANGED <<sessions, nextSession, nextUdpPort, conn, registered, strayed, crashed>>

\* The callback of a timer whose pusher is gone uses a dangling pointer: the
\* process dies (or, for now, nothing is noticed).
DanglingCallback(p) ==
  /\ ~crashed
  /\ p \in DOMAIN pushers
  /\ pushers[p].scheduled /\ ~pushers[p].alive
  /\ crashed' = TRUE
  /\ UNCHANGED <<pushers, sessions, nextSession, nextUdpPort, conn, registered, strayed>>

Request(c) ==
  \/ StoiThrows(c)
  \/ \E h \in Headers(c) :
       \/ SetupTcp(c, h)
       \/ \E track \in Track \cup {"neither"} : SetupUdp(c, h, track)
       \/ Play(c, h)
       \/ Teardown(c, h)
       \/ OtherRequest(c, h)

Next == \/ \E c \in Conns : Request(c)
        \/ \E c \in Conns : Release(c)
        \/ \E p \in PusherId : PusherCallback(p) \/ DanglingCallback(p)

Spec == Init /\ [][Next]_vars

-----------------------------------------------------------------------------
Port == 0..(FirstPort + 2 * MaxAllocations)
UdpPair == [serial : Port, port : Port]

TypeOK ==
  /\ DOMAIN pushers \subseteq PusherId
  /\ \A p \in DOMAIN pushers : pushers[p] \in Pusher
  /\ DOMAIN sessions \subseteq SessionId
  /\ \A s \in DOMAIN sessions :
        sessions[s] \in [useUdp : BOOLEAN, videoPort : Port, audioPort : Port]
  /\ nextSession \in 1..(MaxSessions + 1)
  /\ nextUdpPort \in Port
  /\ conn \in [Conns -> [open : BOOLEAN,
                         sid : SessionId \cup {NoSession},
                         transport : {"none", "interleaved", "udp", "udpWithoutPorts"},
                         video : UdpPair, audio : UdpPair,
                         pusher : PusherId \cup {0}]]
  /\ registered \subseteq [owner : Conns, track : Track, pair : UdpPair]
  /\ strayed \subseteq SessionId
  /\ crashed \in BOOLEAN

\* Two sessions never have the same video port, nor the same audio port, but
\* for the 0 of one not handed out yet (allocateUdpPorts, and the order in which
\* handleSetup hands the ports out).
PortsOfAKindDiffer ==
  \A s, t \in DOMAIN sessions : s # t =>
    /\ sessions[s].videoPort = sessions[t].videoPort => sessions[s].videoPort = 0
    /\ sessions[s].audioPort = sessions[t].audioPort => sessions[s].audioPort = 0

Live == {p \in DOMAIN pushers : pushers[p].alive}

\* When a connection is closed, its pusher has been stopped, whatever
\* happened to its session before: torn down by itself or by another
\* connection, or replaced by another Session header
\* (RtspConnect::releaseSession).
NoPusherRunsAfterClose ==
  \A p \in Live : pushers[p].running => conn[pushers[p].owner].open

\* A pusher's timer is on the loop exactly as long as the pusher is running,
\* except after the end of a file (RtpPusher::start, stop and the callback).
TimerFollowsRunning ==
  \A p \in Live : /\ pushers[p].running => pushers[p].scheduled
                  /\ pushers[p].scheduled /\ ~pushers[p].running => pushers[p].ended

\* A session that no client has come to or left by a Session header belongs to
\* exactly one connection, which is still open, so that its close erases it:
\* whatever clients do to each other's sessions, or to their own by naming
\* another or none, no third one's session is left behind (handleSetup,
\* handleTeardown, releaseSession).  One that a client has left by a header does
\* stay in the map.
EverySessionHasItsConnection ==
  \A s \in DOMAIN sessions \ strayed : Cardinality({c \in Conns : conn[c].open /\ conn[c].sid = s}) = 1

-----------------------------------------------------------------------------
(* What the documents and comments say, and the code does not do.          *)

\* "make sure that ports do not conflict" (architecture document, port
\* allocation): no two RTP sockets of the sessions are given one port.
NoPortConflict ==
  \A s, t \in DOMAIN sessions :
     sessions[s].videoPort = sessions[t].audioPort => sessions[s].videoPort = 0

\* "the RTP port the server sends audio from, RTCP is Port+1" (RtspConnect.h):
\* the port a pair of UDP connections is told to bind has been handed out.
UdpPairsHavePorts ==
  \A c \in Conns, t \in Track : conn[c][t] # NoUdp => conn[c][t].port # 0

\* "resources no longer needed are released in time" (architecture document):
\* every session in the map is the session of an open connection, whose close
\* will erase it.
SessionsHaveClients ==
  \A s \in DOMAIN sessions : \E c \in Conns : conn[c].open /\ conn[c].sid = s

\* "smart pointers manage the lifetime of the objects" (architecture
\* document): a pusher whose timer is still on the loop has not been destroyed.
TimerHasLivePusher ==
  \A p \in DOMAIN pushers : pushers[p].scheduled => pushers[p].alive
=============================================================================
