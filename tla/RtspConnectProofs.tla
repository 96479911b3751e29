------------------------- MODULE RtspConnectProofs -------------------------
(***************************************************************************)
(* Theorems about RtspConnect, for any connections, numbers of sessions,   *)
(* ports and pushers, and any requests, in any order.                      *)
(*                                                                         *)
(* NoPusherRunsAfterClose rests on OwnersHold: a pusher that has not been  *)
(* destroyed is the _rtspPusher of its connection, the one that            *)
(* releaseSession stops.  PortsOfAKindDiffer rests on PortsBelow: both     *)
(* kinds of ports are handed out in the increasing order of nextUdpPort.   *)
(* EverySessionHasItsConnection rests on SessionInv: a session that no     *)
(* client has come to or left by a Session header is the current one of    *)
(* one open connection.                                                    *)
(***************************************************************************)
EXTENDS RtspConnect, FiniteSetTheorems, TLAPS

\* The members of an RtspConnect.
Members == [open : BOOLEAN,
            sid : SessionId \cup {NoSession},
            transport : {"none", "interleaved", "udp", "udpWithoutPorts"},
            video : UdpPair, audio : UdpPair,
            pusher : PusherId \cup {0}]

\* The pushers are numbered in the order in which they were constructed.
PushersNumbered == \E n \in Nat : DOMAIN pushers = 1..n

OwnersHold == \A p \in Live : conn[pushers[p].owner].pusher = p

\* A running pusher has a timer that stop will find.
RunningHasTimer ==
  \A p \in Live : pushers[p].running => pushers[p].scheduled /\ pushers[p].hasTimerId

PortsCounted == \E k \in 0..MaxAllocations : nextUdpPort = FirstPort + 2 * k

PortsBelow == \A s \in DOMAIN sessions : /\ sessions[s].videoPort < nextUdpPort
                                         /\ sessions[s].audioPort < nextUdpPort + 2

\* The inductive invariants of the pushers and of the ports; TypeOK depends
\* on PortsCounted, as an audio port is 2 above the one handed out.
PusherInv == /\ PushersNumbered
             /\ OwnersHold
             /\ RunningHasTimer
             /\ NoPusherRunsAfterClose
             /\ TimerFollowsRunning

PortInv == PortsCounted /\ PortsBelow /\ PortsOfAKindDiffer

Inv == TypeOK /\ PusherInv /\ PortInv

-----------------------------------------------------------------------------
LEMMA InitInv == Init => Inv
<1> SUFFICES ASSUME Init PROVE Inv
  OBVIOUS
<1>1. /\ DOMAIN pushers = {} /\ DOMAIN sessions = {}
      /\ nextUdpPort = FirstPort /\ nextSession = 1
      /\ registered = {} /\ strayed = {} /\ crashed = FALSE
  BY DEF Init
<1>2. FirstPort \in Nat /\ MaxAllocations \in Nat /\ MaxSessions \in Nat
  BY RtspConnectAssumption
<1>3. FirstPort \in Port /\ 0 \in Port /\ 1 \in 1..(MaxSessions + 1)
  BY <1>2 DEF Port
<1>4. conn \in [Conns -> Members]
  BY <1>3 DEF Init, Members, UdpPair, NoUdp
<1>5. TypeOK
  BY <1>1, <1>3, <1>4 DEF TypeOK, Members
<1>6. PusherInv
  <2>1. PushersNumbered
    <3>1. DOMAIN pushers = 1..0
      BY <1>1
    <3> QED  BY <3>1 DEF PushersNumbered
  <2> QED  BY <1>1, <2>1 DEF PusherInv, OwnersHold, RunningHasTimer, Live,
                             NoPusherRunsAfterClose, TimerFollowsRunning
<1>7. PortInv
  <2>1. nextUdpPort = FirstPort + 2 * 0 /\ 0 \in 0..MaxAllocations
    BY <1>1, <1>2
  <2> QED  BY <1>1, <2>1 DEF PortInv, PortsCounted, PortsBelow, PortsOfAKindDiffer
<1> QED  BY <1>5, <1>6, <1>7 DEF Inv

\* What parseRequest leaves alone, and the types of what it changes.
LEMMA ParsedMembers ==
  ASSUME TypeOK, NEW c \in Conns, NEW h \in Headers(c)
  PROVE  /\ conn[c] \in Members
         /\ Parsed(c, h) \in Members
         /\ Parsed(c, h).pusher = conn[c].pusher
         /\ Parsed(c, h).open = conn[c].open
         /\ Parsed(c, h).video = conn[c].video
         /\ Parsed(c, h).audio = conn[c].audio
<1>1. conn[c] \in Members
  BY DEF TypeOK, Members
<1>2. h.transport \in {"none", "interleaved", "udp", "udpWithoutPorts"}
  BY RtspConnectAssumption DEF Headers
<1>3. h.session \in SessionId \cup {NoSession}
  BY RtspConnectAssumption, <1>1 DEF Headers, Members, SessionId
<1> QED  BY <1>1, <1>2, <1>3 DEF Parsed, Members

\* stop changes the one pusher, which no longer runs and has lost its timer
\* if it still knew it.
LEMMA StoppedEffect ==
  ASSUME TypeOK, NEW p, NEW ps, ps = Stopped(pushers, p)
  PROVE  /\ DOMAIN ps = DOMAIN pushers
         /\ \A q \in DOMAIN pushers :
               /\ ps[q] \in Pusher
               /\ ps[q].owner = pushers[q].owner
               /\ ps[q].alive = pushers[q].alive
               /\ ps[q].ended = pushers[q].ended
               /\ q # p => ps[q] = pushers[q]
               /\ q = p => /\ ~ps[q].running
                           /\ ps[q].scheduled = (pushers[q].scheduled /\ ~pushers[q].hasTimerId)
<1>1. \A q \in DOMAIN pushers : pushers[q] \in Pusher
  BY DEF TypeOK
<1>2. CASE p \notin DOMAIN pushers
  BY <1>1, <1>2 DEF Stopped
<1>3. CASE p \in DOMAIN pushers
  BY <1>1, <1>3 DEF Stopped, Pusher
<1> QED  BY <1>2, <1>3

-----------------------------------------------------------------------------
(***************************************************************************)
(* The pushers.                                                            *)
(***************************************************************************)
\* A request or callback that leaves the pushers and their owners alone.
LEMMA PushersKept ==
  ASSUME TypeOK, PusherInv, UNCHANGED pushers,
         \A d \in Conns : conn'[d].pusher = conn[d].pusher /\ conn'[d].open = conn[d].open
  PROVE  PusherInv'
<1>1. Live' = Live /\ \A p \in Live : pushers[p].owner \in Conns
  BY DEF Live, TypeOK, Pusher
<1> QED
  BY <1>1 DEF PusherInv, PushersNumbered, OwnersHold, RunningHasTimer,
              NoPusherRunsAfterClose, TimerFollowsRunning

\* stop on the pusher of c, as TEARDOWN and the close of c call it: whether c
\* is open afterwards no longer matters, as no live pusher of c runs.
LEMMA PusherStopped ==
  ASSUME TypeOK, PusherInv, NEW c \in Conns,
         pushers' = Stopped(pushers, conn[c].pusher),
         \A d \in Conns : conn'[d].pusher = conn[d].pusher,
         \A d \in Conns \ {c} : conn'[d].open = conn[d].open
  PROVE  PusherInv'
<1> DEFINE old == conn[c].pusher
<1>1. /\ DOMAIN pushers' = DOMAIN pushers
      /\ \A q \in DOMAIN pushers :
            /\ pushers'[q].owner = pushers[q].owner
            /\ pushers'[q].alive = pushers[q].alive
            /\ pushers'[q].ended = pushers[q].ended
            /\ q # old => pushers'[q] = pushers[q]
            /\ q = old => /\ ~pushers'[q].running
                          /\ pushers'[q].scheduled =
                               (pushers[q].scheduled /\ ~pushers[q].hasTimerId)
  BY StoppedEffect
<1>2. Live' = Live
  BY <1>1 DEF Live
<1>3. \A p \in Live : pushers[p].owner \in Conns /\ p \in DOMAIN pushers
  BY DEF Live, TypeOK, Pusher
<1>4. \A p \in Live : p # old => pushers[p].owner # c
  BY DEF PusherInv, OwnersHold
<1> HIDE DEF old
<1>5. PushersNumbered' /\ OwnersHold'
  BY <1>1, <1>2, <1>3 DEF PusherInv, PushersNumbered, OwnersHold
<1>6. RunningHasTimer'
  BY <1>1, <1>2, <1>3 DEF PusherInv, RunningHasTimer
<1>7. NoPusherRunsAfterClose'
  BY <1>1, <1>2, <1>3, <1>4 DEF PusherInv, NoPusherRunsAfterClose
<1>8. TimerFollowsRunning'
  <2> SUFFICES ASSUME NEW p \in Live
               PROVE  /\ pushers'[p].running => pushers'[p].scheduled
                      /\ pushers'[p].scheduled /\ ~pushers'[p].running => pushers'[p].ended
    BY <1>2 DEF TimerFollowsRunning
  <2>1. CASE p = old
    BY <2>1, <1>1, <1>3 DEF PusherInv, TimerFollowsRunning, RunningHasTimer
  <2>2. CASE p # old
    BY <2>2, <1>1, <1>3 DEF PusherInv, TimerFollowsRunning
  <2> QED  BY <2>1, <2>2
<1> QED  BY <1>5, <1>6, <1>7, <1>8 DEF PusherInv

\* The number of the next pusher is free.
LEMMA NextPusherIsNew ==
  ASSUME PushersNumbered
  PROVE  LET new == Cardinality(DOMAIN pushers) + 1
         IN  new \in Nat /\ new \notin DOMAIN pushers
                         /\ DOMAIN pushers \cup {new} = 1..new
<1>1. PICK n \in Nat : DOMAIN pushers = 1..n
  BY DEF PushersNumbered
<1>2. Cardinality(1..n) = n
  BY FS_Interval
<1> QED  BY <1>1, <1>2

\* PLAY: the connection's old pusher is destroyed, its new one runs.
LEMMA PusherPlayed ==
  ASSUME TypeOK, PusherInv, NEW c \in Conns, NEW new,
         new = Cardinality(DOMAIN pushers) + 1, new \in PusherId,
         pushers' = Replaced(pushers, c, conn[c].pusher, new),
         conn[c].open,
         \A d \in Conns : conn'[d].open = conn[d].open,
         conn'[c].pusher = new,
         \A d \in Conns \ {c} : conn'[d].pusher = conn[d].pusher
  PROVE  /\ DOMAIN pushers' \subseteq PusherId
         /\ \A p \in DOMAIN pushers' : pushers'[p] \in Pusher
         /\ PusherInv'
<1> DEFINE old == conn[c].pusher
<1>1. new \in Nat /\ new \notin DOMAIN pushers /\ DOMAIN pushers \cup {new} = 1..new
  BY NextPusherIsNew DEF PusherInv
<1>2. /\ DOMAIN pushers' = DOMAIN pushers \cup {new}
      /\ pushers'[new] = [owner |-> c, alive |-> TRUE, running |-> TRUE,
                          hasTimerId |-> TRUE, scheduled |-> TRUE, ended |-> FALSE]
      /\ \A p \in DOMAIN pushers :
            /\ p = old => pushers'[p] = [pushers[p] EXCEPT !.alive = FALSE]
            /\ p # old => pushers'[p] = pushers[p]
  BY <1>1 DEF Replaced
<1>3. \A p \in DOMAIN pushers : pushers[p] \in Pusher
  BY DEF TypeOK
<1>10. \A p \in DOMAIN pushers : LET dead == [pushers[p] EXCEPT !.alive = FALSE]
                                IN  dead \in Pusher /\ ~dead.alive
  BY <1>3 DEF Pusher
<1>4. \A p \in DOMAIN pushers' : pushers'[p] \in Pusher
  <2>1. pushers'[new] \in Pusher
    <3>1. [owner |-> c, alive |-> TRUE, running |-> TRUE, hasTimerId |-> TRUE,
           scheduled |-> TRUE, ended |-> FALSE] \in Pusher
      BY DEF Pusher
    <3> QED  BY <1>2, <3>1, Zenon
  <2>2. \A p \in DOMAIN pushers : pushers'[p] \in Pusher
    BY <1>2, <1>3, <1>10
  <2> QED  BY <1>2, <2>1, <2>2
<1>5. DOMAIN pushers' \subseteq PusherId
  BY <1>2 DEF TypeOK
<1>6. \A p \in DOMAIN pushers : p = old => ~pushers'[p].alive
  BY <1>2, <1>10
<1>7. \A p \in Live' \ {new} : p \in Live /\ p # old /\ pushers'[p] = pushers[p]
                                 /\ pushers[p].owner \in Conns /\ pushers[p].owner # c
  <2>1. \A p \in Live' \ {new} : p \in DOMAIN pushers /\ p # old
    BY <1>2, <1>6 DEF Live
  <2>2. \A p \in Live' \ {new} : pushers'[p] = pushers[p] /\ p \in Live
    BY <2>1, <1>2 DEF Live
  <2> QED  BY <2>1, <2>2, <1>3 DEF PusherInv, OwnersHold, Pusher
<1>8. PushersNumbered'
  BY <1>1, <1>2 DEF PushersNumbered
<1>9. OwnersHold' /\ RunningHasTimer' /\ NoPusherRunsAfterClose' /\ TimerFollowsRunning'
  <2>1. new \in DOMAIN pushers' /\ pushers'[new].owner = c /\ pushers'[new].running
        /\ pushers'[new].scheduled /\ pushers'[new].hasTimerId
    BY <1>2
  <2> HIDE DEF old
  <2>2. OwnersHold'
    BY <1>7, <2>1 DEF PusherInv, OwnersHold
  <2>3. RunningHasTimer' /\ TimerFollowsRunning'
    BY <1>7, <2>1 DEF PusherInv, RunningHasTimer, TimerFollowsRunning
  <2>4. NoPusherRunsAfterClose'
    BY <1>7, <2>1 DEF PusherInv, NoPusherRunsAfterClose
  <2> QED  BY <2>2, <2>3, <2>4
<1> QED  BY <1>4, <1>5, <1>8, <1>9 DEF PusherInv

\* The callback: a pusher that stops running by itself has met an end.
LEMMA PusherCalledBack ==
  ASSUME TypeOK, PusherInv, NEW p, ReachEnd(p) \/ CallbackWhenStopped(p), UNCHANGED conn
  PROVE  /\ DOMAIN pushers' \subseteq PusherId
         /\ \A q \in DOMAIN pushers' : pushers'[q] \in Pusher
         /\ PusherInv'
<1>1. /\ p \in DOMAIN pushers /\ pushers[p].alive
      /\ \A q \in DOMAIN pushers : pushers[q] \in Pusher
  BY DEF TypeOK, ReachEnd, CallbackWhenStopped
<1>2. /\ DOMAIN pushers' = DOMAIN pushers
      /\ \A q \in DOMAIN pushers :
            /\ pushers'[q] \in Pusher
            /\ pushers'[q].owner = pushers[q].owner
            /\ pushers'[q].alive = pushers[q].alive
            /\ pushers'[q].scheduled = pushers[q].scheduled
            /\ q # p => pushers'[q] = pushers[q]
  <2>1. CASE ReachEnd(p)
    BY <1>1, <2>1 DEF ReachEnd, Pusher
  <2>2. CASE CallbackWhenStopped(p)
    BY <1>1, <2>2 DEF CallbackWhenStopped, Pusher
  <2> QED  BY <2>1, <2>2
<1>3. /\ ~pushers'[p].running
      /\ pushers'[p].ended = (pushers[p].ended \/ pushers[p].running)
  BY <1>1 DEF ReachEnd, CallbackWhenStopped, Pusher
<1>4. Live' = Live /\ \A q \in Live : q \in DOMAIN pushers
  BY <1>2 DEF Live
<1>5. PushersNumbered' /\ OwnersHold'
  BY <1>2, <1>4 DEF PusherInv, PushersNumbered, OwnersHold
<1>6. RunningHasTimer' /\ NoPusherRunsAfterClose'
  BY <1>2, <1>3, <1>4 DEF PusherInv, RunningHasTimer, NoPusherRunsAfterClose
<1>7. TimerFollowsRunning'
  BY <1>2, <1>3, <1>4 DEF PusherInv, TimerFollowsRunning
<1> QED  BY <1>2, <1>5, <1>6, <1>7 DEF PusherInv, TypeOK


-----------------------------------------------------------------------------
(***************************************************************************)
(* The ports.                                                              *)
(***************************************************************************)
\* A step that hands out no port: sessions may go, and new ones have none.
LEMMA PortsKept ==
  ASSUME TypeOK, PortInv, UNCHANGED nextUdpPort,
         \A s \in DOMAIN sessions' : \/ s \in DOMAIN sessions /\ sessions'[s] = sessions[s]
                                    \/ sessions'[s] = NewSession
  PROVE  PortInv'
<1>1. nextUdpPort \in Nat /\ nextUdpPort > 0
  BY RtspConnectAssumption DEF PortInv, PortsCounted
<1>2. PortsCounted'
  BY DEF PortInv, PortsCounted
<1>3. \A s \in DOMAIN sessions' :
         \/ s \in DOMAIN sessions /\ sessions'[s] = sessions[s]
         \/ sessions'[s].videoPort = 0 /\ sessions'[s].audioPort = 0
  BY DEF NewSession
<1>4. PortsBelow'
  BY <1>1, <1>3 DEF PortInv, PortsBelow
<1>5. PortsOfAKindDiffer'
  BY <1>3 DEF PortInv, PortsOfAKindDiffer
<1> QED  BY <1>2, <1>4, <1>5 DEF PortInv

\* A SETUP over UDP: the port is above every port of its kind.
LEMMA PortsHandedOut ==
  ASSUME TypeOK, PortInv, NEW id \in SessionId, NEW session, NEW was,
         was = NewSession \/ (id \in DOMAIN sessions /\ was = sessions[id]),
         nextUdpPort < FirstPort + 2 * MaxAllocations,
         AllocateUdpPorts,
         session = [WithPorts(was, nextUdpPort) EXCEPT !.useUdp = TRUE],
         sessions' = WithSession(id, session)
  PROVE  /\ nextUdpPort' \in Port
         /\ session \in [useUdp : BOOLEAN, videoPort : Port, audioPort : Port]
         /\ PortInv'
<1> DEFINE Session == [useUdp : BOOLEAN, videoPort : Port, audioPort : Port]
           base == nextUdpPort
<1>1. PICK k \in 0..MaxAllocations : base = FirstPort + 2 * k
  BY DEF PortInv, PortsCounted
<1>2. FirstPort \in Nat /\ FirstPort > 0 /\ MaxAllocations \in Nat
  BY RtspConnectAssumption
<1>3. k + 1 \in 0..MaxAllocations /\ base + 2 = FirstPort + 2 * (k + 1) /\ base' = base + 2
  BY <1>1, <1>2 DEF AllocateUdpPorts
<1>4. base \in Port /\ base + 2 \in Port /\ base > 0 /\ base \in Nat
  BY <1>1, <1>2, <1>3 DEF Port
<1>5. PortsCounted'
  BY <1>3 DEF PortsCounted
<1>6. was \in Session /\ was.videoPort < base /\ was.audioPort < base + 2
  <2>1. CASE id \in DOMAIN sessions /\ was = sessions[id]
    BY <2>1 DEF TypeOK, PortInv, PortsBelow
  <2>2. CASE was = NewSession
    BY <2>2, <1>2, <1>4 DEF NewSession, Port
  <2> QED  BY <2>1, <2>2
<1>7. /\ session \in Session
      /\ session.videoPort = was.videoPort \/ session.videoPort = base
      /\ session.audioPort = was.audioPort \/ session.audioPort = base + 2
  <2> HIDE DEF base
  <2>1. CASE was.videoPort = 0
    BY <2>1, <1>4, <1>6 DEF WithPorts, base
  <2>2. CASE was.videoPort # 0 /\ was.audioPort = 0
    BY <2>2, <1>4, <1>6 DEF WithPorts, base
  <2>3. CASE was.videoPort # 0 /\ was.audioPort # 0
    BY <2>3, <1>4, <1>6 DEF WithPorts, base
  <2> QED  BY <2>1, <2>2, <2>3
<1>8. /\ DOMAIN sessions' = DOMAIN sessions \cup {id}
      /\ sessions'[id] = session
      /\ \A s \in DOMAIN sessions : s # id => sessions'[s] = sessions[s]
  BY DEF WithSession
<1>9. \A s \in DOMAIN sessions : /\ sessions[s].videoPort \in Nat /\ sessions[s].videoPort < base
                                 /\ sessions[s].audioPort \in Nat /\ sessions[s].audioPort < base + 2
  BY <1>2 DEF TypeOK, Port, PortInv, PortsBelow
<1>10. session.videoPort \in Nat /\ session.audioPort \in Nat
  BY <1>2, <1>7 DEF Port
<1>11. PortsBelow'
  <2>1. session.videoPort < base + 2 /\ session.audioPort < base + 4
    BY <1>4, <1>6, <1>7, <1>10
  <2>2. \A s \in DOMAIN sessions : /\ sessions[s].videoPort < base + 2
                                   /\ sessions[s].audioPort < base + 4
    BY <1>4, <1>9
  <2>3. \A s \in DOMAIN sessions' : /\ sessions'[s].videoPort < base + 2
                                    /\ sessions'[s].audioPort < base + 4
    BY <1>8, <2>1, <2>2
  <2>4. nextUdpPort' = base + 2 /\ nextUdpPort' + 2 = base + 4
    BY <1>3, <1>4
  <2> QED  BY <2>3, <2>4 DEF PortsBelow
<1>12. \A s \in DOMAIN sessions : s # id =>
          /\ session.videoPort = sessions[s].videoPort => session.videoPort = 0
          /\ session.audioPort = sessions[s].audioPort => session.audioPort = 0
  <2> SUFFICES ASSUME NEW s \in DOMAIN sessions, s # id
               PROVE  /\ session.videoPort = sessions[s].videoPort => session.videoPort = 0
                      /\ session.audioPort = sessions[s].audioPort => session.audioPort = 0
    OBVIOUS
  <2>1. /\ was.videoPort = sessions[s].videoPort => was.videoPort = 0
        /\ was.audioPort = sessions[s].audioPort => was.audioPort = 0
    <3>1. CASE id \in DOMAIN sessions /\ was = sessions[id]
      BY <3>1 DEF PortInv, PortsOfAKindDiffer
    <3>2. CASE was = NewSession
      BY <3>2 DEF NewSession
    <3> QED  BY <3>1, <3>2
  <2> HIDE DEF base
  <2> QED  BY <2>1, <1>4, <1>7, <1>9
<1>13. PortsOfAKindDiffer'
  <2> SUFFICES ASSUME NEW s \in DOMAIN sessions', NEW t \in DOMAIN sessions', s # t
               PROVE  /\ sessions'[s].videoPort = sessions'[t].videoPort => sessions'[s].videoPort = 0
                      /\ sessions'[s].audioPort = sessions'[t].audioPort => sessions'[s].audioPort = 0
    BY DEF PortsOfAKindDiffer
  <2> HIDE DEF base
  <2>1. CASE s = id
    BY <2>1, <1>8, <1>12
  <2>2. CASE t = id
    BY <2>2, <1>8, <1>12
  <2>3. CASE s # id /\ t # id
    <3>1. /\ s \in DOMAIN sessions /\ sessions'[s] = sessions[s]
          /\ t \in DOMAIN sessions /\ sessions'[t] = sessions[t]
      BY <2>3, <1>8
    <3>2. /\ sessions[s].videoPort = sessions[t].videoPort => sessions[s].videoPort = 0
          /\ sessions[s].audioPort = sessions[t].audioPort => sessions[s].audioPort = 0
      BY <3>1 DEF PortInv, PortsOfAKindDiffer
    <3> QED  BY <3>1, <3>2
  <2> QED  BY <2>1, <2>2, <2>3
<1> QED  BY <1>3, <1>4, <1>5, <1>7, <1>11, <1>13 DEF PortInv


-----------------------------------------------------------------------------
(***************************************************************************)
(* The requests and the close keep Inv.                                    *)
(***************************************************************************)
\* The history of the sessions named stays a set of sessions.
LEMMA StrayedTyped ==
  ASSUME TypeOK, NEW c \in Conns, NEW h \in Headers(c), NEW method, Serves(c, h, method)
  PROVE  strayed' \subseteq SessionId
<1>1. h.session \in SessionId \cup {NoSession} /\ conn[c].sid \in SessionId \cup {NoSession}
  BY RtspConnectAssumption DEF Headers, TypeOK, SessionId
<1> QED  BY <1>1 DEF Serves, TypeOK

\* The session a SETUP works on is new, or the one kept under the id c has.
LEMMA SetupSessionIs ==
  ASSUME NEW old
  PROVE  LET was == SetupSession(old)
             id  == SetupId(old)
         IN  was = NewSession \/ (id \in DOMAIN sessions /\ was = sessions[id])
BY DEF SetupSession, SetupId, SessionAt

\* The id handleSetup gives a session, and the counter it leaves.
LEMMA CounterTyped ==
  ASSUME TypeOK, NEW sid \in SessionId \cup {NoSession}, NEW id,
         id = IF sid = NoSession THEN nextSession ELSE sid, id \in SessionId,
         nextSession' = IF sid = NoSession THEN nextSession + 1 ELSE nextSession
  PROVE  nextSession' \in 1..(MaxSessions + 1)
BY RtspConnectAssumption DEF TypeOK, SessionId

LEMMA SetupTcpInv ==
  ASSUME Inv, NEW c \in Conns, NEW h \in Headers(c), SetupTcp(c, h)
  PROVE  Inv'
<1> DEFINE old == Parsed(c, h)
           id == SetupId(old)
<1>1. /\ old \in Members /\ old.pusher = conn[c].pusher /\ old.open = conn[c].open
      /\ old.sid \in SessionId \cup {NoSession}
      /\ conn \in [Conns -> Members]
  BY ParsedMembers DEF Inv, TypeOK, Members
<1>2. /\ id \in SessionId
      /\ sessions' = WithSession(id, SetupSession(old))
      /\ nextSession' = IF old.sid = NoSession THEN nextSession + 1 ELSE nextSession
      /\ conn' = [conn EXCEPT ![c] = [old EXCEPT !.sid = id]]
      /\ UNCHANGED <<pushers, nextUdpPort, registered, crashed>>
  BY DEF SetupTcp
<1>3. nextSession' \in 1..(MaxSessions + 1)
  BY <1>1, <1>2, CounterTyped DEF Inv, SetupId
<1>4. strayed' \subseteq SessionId
  BY StrayedTyped DEF Inv, SetupTcp
<1> HIDE DEF old, id
<1>5. /\ conn' \in [Conns -> Members]
      /\ \A d \in Conns : conn'[d].pusher = conn[d].pusher /\ conn'[d].open = conn[d].open
  <2>1. LET new == [old EXCEPT !.sid = id]
        IN  new \in Members /\ new.pusher = conn[c].pusher /\ new.open = conn[c].open
    BY <1>1, <1>2 DEF Members
  <2> QED  BY <1>1, <1>2, <2>1
<1>6. /\ DOMAIN sessions' = DOMAIN sessions \cup {id}
      /\ \A s \in DOMAIN sessions' : \/ s \in DOMAIN sessions /\ sessions'[s] = sessions[s]
                                    \/ sessions'[s] = NewSession
  <2>1. \/ SetupSession(old) = NewSession
        \/ id \in DOMAIN sessions /\ SetupSession(old) = sessions[id]
    BY SetupSessionIs DEF id
  <2> QED  BY <1>2, <2>1 DEF WithSession
<1>7. NewSession \in [useUdp : BOOLEAN, videoPort : Port, audioPort : Port]
  BY RtspConnectAssumption DEF NewSession, Port
<1>8. TypeOK'
  BY <1>2, <1>3, <1>4, <1>5, <1>6, <1>7 DEF Inv, TypeOK, Members
<1>9. PusherInv'
  BY <1>2, <1>5, PushersKept DEF Inv
<1>10. PortInv'
  BY <1>2, <1>6, PortsKept DEF Inv
<1> QED  BY <1>8, <1>9, <1>10 DEF Inv

LEMMA SetupUdpInv ==
  ASSUME Inv, NEW c \in Conns, NEW h \in Headers(c), NEW track, SetupUdp(c, h, track)
  PROVE  Inv'
<1> DEFINE old == Parsed(c, h)
           id == SetupId(old)
           session == [WithPorts(SetupSession(old), nextUdpPort) EXCEPT !.useUdp = TRUE]
           pair(t) == IF old.transport = "udp" /\ t = track
                      THEN [serial |-> nextUdpPort,
                            port |-> IF t = "video" THEN session.videoPort
                                                    ELSE session.audioPort]
                      ELSE old[t]
           new == [old EXCEPT !.sid = id, !.video = pair("video"), !.audio = pair("audio")]
<1>1. /\ old \in Members /\ old.pusher = conn[c].pusher /\ old.open = conn[c].open
      /\ old.sid \in SessionId \cup {NoSession}
      /\ conn \in [Conns -> Members]
  BY ParsedMembers DEF Inv, TypeOK, Members
<1>2. /\ id \in SessionId
      /\ nextUdpPort < FirstPort + 2 * MaxAllocations
      /\ sessions' = WithSession(id, session)
      /\ nextSession' = IF old.sid = NoSession THEN nextSession + 1 ELSE nextSession
      /\ conn' = [conn EXCEPT ![c] = new]
      /\ AllocateUdpPorts
      /\ UNCHANGED <<pushers, registered, crashed>>
  BY DEF SetupUdp
<1>3. nextSession' \in 1..(MaxSessions + 1)
  BY <1>1, <1>2, CounterTyped DEF Inv, SetupId
<1>4. strayed' \subseteq SessionId
  BY StrayedTyped DEF Inv, SetupUdp
<1>10. \/ SetupSession(old) = NewSession
       \/ id \in DOMAIN sessions /\ SetupSession(old) = sessions[id]
  BY SetupSessionIs
<1> HIDE DEF old, id
<1>5. /\ nextUdpPort' \in Port
      /\ session \in [useUdp : BOOLEAN, videoPort : Port, audioPort : Port]
      /\ PortInv'
  BY <1>2, <1>10, PortsHandedOut DEF Inv
<1> HIDE DEF session
<1>6. pair("video") \in UdpPair /\ pair("audio") \in UdpPair
  <2>1. nextUdpPort \in Port /\ session.videoPort \in Port /\ session.audioPort \in Port
    BY <1>5 DEF Inv, TypeOK
  <2>2. old.video \in UdpPair /\ old.audio \in UdpPair
    BY <1>1 DEF Members
  <2>3. \A p \in Port : [serial |-> nextUdpPort, port |-> p] \in UdpPair
    BY <2>1 DEF UdpPair
  <2> QED  BY <2>1, <2>2, <2>3
<1> HIDE DEF pair
<1>7. /\ conn' \in [Conns -> Members]
      /\ \A d \in Conns : conn'[d].pusher = conn[d].pusher /\ conn'[d].open = conn[d].open
  <2>1. new \in Members /\ new.pusher = conn[c].pusher /\ new.open = conn[c].open
    BY <1>1, <1>2, <1>6 DEF Members
  <2> HIDE DEF new
  <2> QED  BY <1>1, <1>2, <2>1
<1>8. TypeOK'
  <2>1. /\ DOMAIN sessions' = DOMAIN sessions \cup {id}
        /\ \A s \in DOMAIN sessions' :
              sessions'[s] \in [useUdp : BOOLEAN, videoPort : Port, audioPort : Port]
    BY <1>2, <1>5 DEF WithSession, Inv, TypeOK
  <2> QED  BY <1>2, <1>3, <1>4, <1>5, <1>7, <2>1 DEF Inv, TypeOK, Members
<1>9. PusherInv'
  BY <1>2, <1>7, PushersKept DEF Inv
<1> QED  BY <1>5, <1>8, <1>9 DEF Inv

\* An exception of std::stoi changes nothing else, as the process ends.
LEMMA ThrowsInv ==
  ASSUME Inv, NEW c \in Conns, StoiThrows(c)
  PROVE  Inv'
<1>1. UNCHANGED <<pushers, sessions, nextSession, nextUdpPort, conn, registered, strayed>>
      /\ crashed' = TRUE
  BY DEF StoiThrows
<1>2. TypeOK'
  BY <1>1 DEF Inv, TypeOK
<1>3. PusherInv'
  BY <1>1, PushersKept DEF Inv
<1>4. PortInv'
  BY <1>1, PortsKept DEF Inv
<1> QED  BY <1>2, <1>3, <1>4 DEF Inv

\* PLAY: nothing but the headers is taken, or the process dies, or a pusher is
\* made.
LEMMA PlayInv ==
  ASSUME Inv, NEW c \in Conns, NEW h \in Headers(c), Play(c, h)
  PROVE  Inv'
<1> DEFINE old == Parsed(c, h)
           new == Cardinality(DOMAIN pushers) + 1
           rtcp == {[owner |-> c, track |-> t, pair |-> old[t]] : t \in Track}
<1>1. /\ old \in Members /\ old.pusher = conn[c].pusher /\ old.open = conn[c].open
      /\ conn \in [Conns -> Members]
  BY ParsedMembers DEF Inv, TypeOK, Members
<1>2. UNCHANGED <<sessions, nextSession, nextUdpPort>>
  BY DEF Play
<1>3. strayed' \subseteq SessionId
  BY StrayedTyped DEF Inv, Play
<1>4. PortInv'
  BY <1>2, PortsKept DEF Inv
<1>5. CASE /\ conn' = [conn EXCEPT ![c] = old]
           /\ UNCHANGED <<pushers, registered, crashed>>
  <2> HIDE DEF old
  <2>1. /\ conn' \in [Conns -> Members]
        /\ \A d \in Conns : conn'[d].pusher = conn[d].pusher /\ conn'[d].open = conn[d].open
    BY <1>1, <1>5
  <2>2. PusherInv'
    BY <1>5, <2>1, PushersKept DEF Inv
  <2>3. TypeOK'
    BY <1>2, <1>3, <1>5, <2>1 DEF Inv, TypeOK, Members
  <2> QED  BY <1>4, <2>2, <2>3 DEF Inv
<1>6. CASE crashed' = TRUE /\ UNCHANGED <<pushers, registered, conn>>
  <2>1. PusherInv'
    BY <1>6, PushersKept DEF Inv
  <2>2. TypeOK'
    BY <1>2, <1>3, <1>6 DEF Inv, TypeOK
  <2> QED  BY <1>4, <2>1, <2>2 DEF Inv
<1>7. CASE /\ new \in PusherId
           /\ pushers' = Replaced(pushers, c, old.pusher, new)
           /\ conn' = [conn EXCEPT ![c] = [old EXCEPT !.pusher = new]]
           /\ registered' \subseteq registered \cup rtcp
           /\ UNCHANGED crashed
  <2>1. rtcp \subseteq [owner : Conns, track : Track, pair : UdpPair]
    BY <1>1 DEF Members, Track
  <2> HIDE DEF old, new, rtcp
  <2>2. conn[c].open
    BY DEF Play, Serves
  <2>3. LET m == [old EXCEPT !.pusher = new]
        IN  m \in Members /\ m.pusher = new /\ m.open = conn[c].open
    BY <1>1, <1>7 DEF Members
  <2>4. /\ conn' \in [Conns -> Members]
        /\ \A d \in Conns : conn'[d].open = conn[d].open
        /\ conn'[c].pusher = new
        /\ \A d \in Conns \ {c} : conn'[d].pusher = conn[d].pusher
    BY <1>1, <1>7, <2>3
  <2>5. pushers' = Replaced(pushers, c, conn[c].pusher, new)
    BY <1>1, <1>7
  <2>6. /\ DOMAIN pushers' \subseteq PusherId
        /\ \A p \in DOMAIN pushers' : pushers'[p] \in Pusher
        /\ PusherInv'
    <3>1. new = Cardinality(DOMAIN pushers) + 1
      BY DEF new
    <3> QED  BY <1>7, <2>2, <2>4, <2>5, <3>1, PusherPlayed DEF Inv
  <2>7. TypeOK'
    BY <1>2, <1>3, <1>7, <2>1, <2>4, <2>6 DEF Inv, TypeOK, Members
  <2> QED  BY <1>4, <2>6, <2>7 DEF Inv
<1> QED  BY <1>5, <1>6, <1>7 DEF Play

LEMMA TeardownInv ==
  ASSUME Inv, NEW c \in Conns, NEW h \in Headers(c), Teardown(c, h)
  PROVE  Inv'
<1> DEFINE old == Parsed(c, h)
<1>1. /\ old \in Members /\ old.pusher = conn[c].pusher /\ old.open = conn[c].open
      /\ conn \in [Conns -> Members]
  BY ParsedMembers DEF Inv, TypeOK, Members
<1>2. /\ sessions' = WithoutSession(old.sid)
      /\ pushers' = Stopped(pushers, old.pusher)
      /\ conn' = [conn EXCEPT ![c] = old]
      /\ UNCHANGED <<nextSession, nextUdpPort, registered, crashed>>
  BY DEF Teardown
<1>3. strayed' \subseteq SessionId
  BY StrayedTyped DEF Inv, Teardown
<1> HIDE DEF old
<1>4. /\ conn' \in [Conns -> Members]
      /\ \A d \in Conns : conn'[d].pusher = conn[d].pusher /\ conn'[d].open = conn[d].open
  BY <1>1, <1>2
<1>5. /\ DOMAIN sessions' \subseteq DOMAIN sessions
      /\ \A s \in DOMAIN sessions' : sessions'[s] = sessions[s]
  BY <1>2 DEF WithoutSession
<1>6. pushers' = Stopped(pushers, conn[c].pusher)
  BY <1>1, <1>2
<1>7. TypeOK'
  BY <1>2, <1>3, <1>4, <1>5, <1>6, StoppedEffect DEF Inv, TypeOK, Members
<1>8. PusherInv'
  BY <1>4, <1>6, PusherStopped DEF Inv
<1>9. PortInv'
  BY <1>2, <1>5, PortsKept DEF Inv
<1> QED  BY <1>7, <1>8, <1>9 DEF Inv

LEMMA OtherRequestInv ==
  ASSUME Inv, NEW c \in Conns, NEW h \in Headers(c), OtherRequest(c, h)
  PROVE  Inv'
<1> DEFINE old == Parsed(c, h)
<1>1. /\ old \in Members /\ old.pusher = conn[c].pusher /\ old.open = conn[c].open
      /\ conn \in [Conns -> Members]
  BY ParsedMembers DEF Inv, TypeOK, Members
<1>2. /\ conn' = [conn EXCEPT ![c] = old]
      /\ UNCHANGED <<pushers, sessions, nextSession, nextUdpPort, registered, crashed>>
  BY DEF OtherRequest
<1>3. strayed' \subseteq SessionId
  BY StrayedTyped DEF Inv, OtherRequest
<1> HIDE DEF old
<1>4. /\ conn' \in [Conns -> Members]
      /\ \A d \in Conns : conn'[d].pusher = conn[d].pusher /\ conn'[d].open = conn[d].open
  BY <1>1, <1>2
<1>5. TypeOK'
  BY <1>2, <1>3, <1>4 DEF Inv, TypeOK, Members
<1>6. PusherInv'
  BY <1>2, <1>4, PushersKept DEF Inv
<1>7. PortInv'
  BY <1>2, PortsKept DEF Inv
<1> QED  BY <1>5, <1>6, <1>7 DEF Inv

\* The close of a connection: its pusher is stopped whether or not
\* releaseSession finds the session.
LEMMA ReleaseInv ==
  ASSUME Inv, NEW c \in Conns, Release(c)
  PROVE  Inv'
<1> DEFINE old == conn[c]
           release == old.sid \in DOMAIN sessions /\ sessions[old.sid].useUdp
           new == [old EXCEPT !.open = FALSE, !.sid = NoSession,
                              !.video = IF release THEN NoUdp ELSE @,
                              !.audio = IF release THEN NoUdp ELSE @]
<1>1. old \in Members /\ conn \in [Conns -> Members]
  BY DEF Inv, TypeOK, Members
<1>2. /\ sessions' = WithoutSession(old.sid)
      /\ registered' \subseteq registered
      /\ conn' = [conn EXCEPT ![c] = new]
      /\ pushers' = Stopped(pushers, old.pusher)
      /\ UNCHANGED <<nextSession, nextUdpPort, strayed, crashed>>
  BY DEF Release
<1>3. new \in Members /\ new.pusher = old.pusher
  <2>1. NoUdp \in UdpPair
    BY RtspConnectAssumption DEF NoUdp, UdpPair, Port
  <2> HIDE DEF old, release
  <2> QED  BY <1>1, <2>1 DEF Members
<1> HIDE DEF new
<1>4. /\ conn' \in [Conns -> Members]
      /\ \A d \in Conns : conn'[d].pusher = conn[d].pusher
      /\ \A d \in Conns \ {c} : conn'[d].open = conn[d].open
  BY <1>1, <1>2, <1>3
<1>5. /\ DOMAIN sessions' \subseteq DOMAIN sessions
      /\ \A s \in DOMAIN sessions' : sessions'[s] = sessions[s]
  BY <1>2 DEF WithoutSession
<1>6. TypeOK'
  BY <1>2, <1>4, <1>5, StoppedEffect DEF Inv, TypeOK, Members
<1>7. PusherInv'
  BY <1>2, <1>4, PusherStopped DEF Inv
<1>8. PortInv'
  BY <1>2, <1>5, PortsKept DEF Inv
<1> QED  BY <1>6, <1>7, <1>8 DEF Inv

\* The timers' callbacks, of pushers that are there and of pushers that are not.
LEMMA CallbackInv ==
  ASSUME Inv, NEW p, PusherCallback(p) \/ DanglingCallback(p)
  PROVE  Inv'
<1>1. /\ UNCHANGED <<sessions, nextSession, nextUdpPort, conn, registered, strayed>>
      /\ crashed' \in BOOLEAN
  BY DEF PusherCallback, DanglingCallback, Inv, TypeOK
<1>2. /\ DOMAIN pushers' \subseteq PusherId
      /\ \A q \in DOMAIN pushers' : pushers'[q] \in Pusher
      /\ PusherInv'
  <2>1. CASE PusherCallback(p)
    BY <2>1, PusherCalledBack DEF PusherCallback, Inv
  <2>2. CASE DanglingCallback(p)
    <3>1. UNCHANGED pushers
      BY <2>2 DEF DanglingCallback
    <3> QED  BY <1>1, <3>1, PushersKept DEF Inv, TypeOK
  <2> QED  BY <2>1, <2>2
<1>3. TypeOK'
  BY <1>1, <1>2 DEF Inv, TypeOK
<1>4. PortInv'
  BY <1>1, PortsKept DEF Inv
<1> QED  BY <1>2, <1>3, <1>4 DEF Inv

LEMMA NextInv == Inv /\ [Next]_vars => Inv'
<1> SUFFICES ASSUME Inv, [Next]_vars PROVE Inv'
  OBVIOUS
<1>1. CASE \E c \in Conns : Request(c)
  BY <1>1, SetupTcpInv, SetupUdpInv, ThrowsInv, PlayInv, TeardownInv, OtherRequestInv
     DEF Request
<1>2. CASE \E c \in Conns : Release(c)
  BY <1>2, ReleaseInv
<1>3. CASE \E p \in PusherId : PusherCallback(p) \/ DanglingCallback(p)
  BY <1>3, CallbackInv
<1>4. CASE UNCHANGED vars
  <2>1. TypeOK' /\ PusherInv'
    BY <1>4, PushersKept DEF vars, Inv, TypeOK
  <2>2. PortInv'
    BY <1>4, PortsKept DEF vars, Inv
  <2> QED  BY <2>1, <2>2 DEF Inv
<1> QED  BY <1>1, <1>2, <1>3, <1>4 DEF Next

\* Inv holds in every reachable state.
LEMMA Invariance == Spec => []Inv
BY InitInv, NextInv, PTL DEF Spec

-----------------------------------------------------------------------------
\* The session map, the ports, the members of the connections and the pushers
\* are well formed, for any requests.
THEOREM TypeCorrect == Spec => []TypeOK
<1>1. Inv => TypeOK
  BY DEF Inv
<1> QED  BY <1>1, Invariance, PTL

\* However many clients set up, replay, tear down and name each other's
\* sessions, a connection that is closed leaves no pusher running.
THEOREM CloseStopsThePusher == Spec => []NoPusherRunsAfterClose
<1>1. Inv => NoPusherRunsAfterClose
  BY DEF Inv, PusherInv
<1> QED  BY <1>1, Invariance, PTL

\* A pusher has a timer as long as it runs, and no longer unless it ended by
\* itself.
THEOREM TimerKeepsToThePusher == Spec => []TimerFollowsRunning
<1>1. Inv => TimerFollowsRunning
  BY DEF Inv, PusherInv
<1> QED  BY <1>1, Invariance, PTL

\* No two sessions share a video port or an audio port, whatever tracks are
\* set up in whatever order.
THEOREM PortsOfAKindAreDistinct == Spec => []PortsOfAKindDiffer
<1>1. Inv => PortsOfAKindDiffer
  BY DEF Inv, PortInv
<1> QED  BY <1>1, Invariance, PTL

-----------------------------------------------------------------------------
(***************************************************************************)
(* The sessions.  A session no client has come to or left by a Session     *)
(* header is the current one of one open connection: handleSetup gives out *)
(* a number only once, and what takes it from its connection erases the    *)
(* session too.                                                            *)
(***************************************************************************)
\* A number in use has been handed out by generateSessionId, unless a client
\* has named it before.
SessionsNumbered ==
  /\ \A s \in DOMAIN sessions \ strayed : s < nextSession
  /\ \A c \in Conns : conn[c].sid \notin strayed \cup {NoSession} => conn[c].sid < nextSession

SessionsApart ==
  \A c, d \in Conns :
     /\ conn[c].open /\ conn[d].open /\ conn[c].sid = conn[d].sid
     /\ conn[c].sid \notin strayed \cup {NoSession}
     => c = d

SessionsKept ==
  \A s \in DOMAIN sessions \ strayed : \E c \in Conns : conn[c].open /\ conn[c].sid = s

SessionInv == SessionsNumbered /\ SessionsApart /\ SessionsKept

\* What a request does to the session c is in: it keeps it, it strays from it
\* to another or to none, or it is given a new one, by SETUP only.
KeepsSession(c) ==
  /\ conn'[c].sid = conn[c].sid /\ strayed \subseteq strayed' /\ nextSession' = nextSession
  /\ DOMAIN sessions' \subseteq DOMAIN sessions \cup ({conn[c].sid} \ {NoSession})

Strays(c) ==
  /\ conn'[c].sid \in strayed' \cup {NoSession} /\ conn[c].sid \in strayed' \cup {NoSession}
  /\ strayed \subseteq strayed' /\ nextSession' = nextSession
  /\ DOMAIN sessions' \subseteq DOMAIN sessions \cup strayed'

GetsSession(c) ==
  /\ conn[c].sid \in strayed' \cup {NoSession} /\ conn'[c].sid = nextSession
  /\ strayed \subseteq strayed' /\ nextSession' = nextSession + 1
  /\ DOMAIN sessions' = DOMAIN sessions \cup {nextSession}

\* A request to c is one of the three.
LEMMA RequestSession ==
  ASSUME Inv, NEW c \in Conns, Request(c)
  PROVE  /\ conn[c].open
         /\ \A d \in Conns : conn'[d].open = conn[d].open
         /\ \A d \in Conns \ {c} : conn'[d].sid = conn[d].sid
         /\ KeepsSession(c) \/ Strays(c) \/ GetsSession(c)
<1> DEFINE Goal == /\ conn[c].open
                   /\ \A d \in Conns : conn'[d].open = conn[d].open
                   /\ \A d \in Conns \ {c} : conn'[d].sid = conn[d].sid
                   /\ KeepsSession(c) \/ Strays(c) \/ GetsSession(c)
<1>1. CASE StoiThrows(c)
  BY <1>1 DEF StoiThrows, KeepsSession
<1>2. ASSUME NEW h \in Headers(c),
             \/ SetupTcp(c, h)
             \/ \E track \in Track \cup {"neither"} : SetupUdp(c, h, track)
             \/ Play(c, h) \/ Teardown(c, h) \/ OtherRequest(c, h)
      PROVE  Goal
  <2> DEFINE old == Parsed(c, h)
             id == SetupId(old)
  <2>1. /\ conn \in [Conns -> Members] /\ old \in Members /\ old.open = conn[c].open
    BY ParsedMembers DEF Inv, TypeOK, Members
  <2>2. old.sid = h.session
    BY <2>1 DEF Parsed, Members
  <2>3. nextSession \in Nat /\ NoSession \notin Nat
    BY RtspConnectAssumption DEF Inv, TypeOK
  <2>4. /\ conn[c].open
        /\ strayed' = strayed \cup IF h.session = conn[c].sid THEN {}
                                   ELSE {h.session, conn[c].sid} \ {NoSession}
    BY <1>2 DEF Serves, SetupTcp, SetupUdp, Play, Teardown, OtherRequest
  <2>5. /\ strayed \subseteq strayed'
        /\ \/ old.sid = conn[c].sid
           \/ old.sid \in strayed' \cup {NoSession} /\ conn[c].sid \in strayed' \cup {NoSession}
    BY <2>2, <2>4
  <2> HIDE DEF old
  \* SETUP: c is in the session it has named, or in a new one.
  <2>6. ASSUME /\ DOMAIN sessions' = DOMAIN sessions \cup {id}
               /\ nextSession' = IF old.sid = NoSession THEN nextSession + 1 ELSE nextSession
               /\ conn'[c].sid = id
        PROVE  KeepsSession(c) \/ Strays(c) \/ GetsSession(c)
    <3>1. CASE old.sid = NoSession
      BY <2>5, <2>6, <3>1 DEF GetsSession, SetupId
    <3>2. CASE old.sid # NoSession /\ old.sid = conn[c].sid
      BY <2>5, <2>6, <3>2 DEF KeepsSession, SetupId
    <3>3. CASE /\ old.sid # NoSession /\ old.sid \in strayed'
               /\ conn[c].sid \in strayed' \cup {NoSession}
      BY <2>5, <2>6, <3>3 DEF Strays, SetupId
    <3> QED  BY <2>5, <3>1, <3>2, <3>3
  \* The other requests: the headers, or nothing, are taken.
  <2>7. ASSUME /\ DOMAIN sessions' \subseteq DOMAIN sessions
               /\ nextSession' = nextSession
               /\ conn'[c].sid \in {old.sid, conn[c].sid}
        PROVE  KeepsSession(c) \/ Strays(c) \/ GetsSession(c)
    <3>1. CASE conn'[c].sid = conn[c].sid
      BY <2>5, <2>7, <3>1 DEF KeepsSession
    <3>2. CASE conn'[c].sid # conn[c].sid
      BY <2>5, <2>7, <3>2 DEF Strays
    <3> QED  BY <3>1, <3>2
  <2> DEFINE Changed(m) == conn' = [conn EXCEPT ![c] = m]
  <2>8. ASSUME NEW m, m.open = conn[c].open, Changed(m)
        PROVE  /\ \A d \in Conns : conn'[d].open = conn[d].open
               /\ \A d \in Conns \ {c} : conn'[d].sid = conn[d].sid
               /\ conn'[c].sid = m.sid
    BY <2>1, <2>8
  <2>9. ASSUME SetupTcp(c, h) PROVE Goal
    <3> DEFINE m == [old EXCEPT !.sid = id]
    <3>1. /\ DOMAIN sessions' = DOMAIN sessions \cup {id}
          /\ nextSession' = IF old.sid = NoSession THEN nextSession + 1 ELSE nextSession
          /\ Changed(m)
      BY <2>9 DEF SetupTcp, WithSession, old
    <3>2. m.open = conn[c].open /\ m.sid = id
      BY <2>1 DEF Members
    <3> HIDE DEF m, id, Changed
    <3> QED  BY <2>4, <2>6, <2>8, <3>1, <3>2
  <2>10. ASSUME NEW track, SetupUdp(c, h, track) PROVE Goal
    <3> DEFINE session == [WithPorts(SetupSession(old), nextUdpPort) EXCEPT !.useUdp = TRUE]
               pair(t) == IF old.transport = "udp" /\ t = track
                          THEN [serial |-> nextUdpPort,
                                port |-> IF t = "video" THEN session.videoPort
                                                        ELSE session.audioPort]
                          ELSE old[t]
               m == [old EXCEPT !.sid = id, !.video = pair("video"), !.audio = pair("audio")]
    <3>1. /\ DOMAIN sessions' = DOMAIN sessions \cup {id}
          /\ nextSession' = IF old.sid = NoSession THEN nextSession + 1 ELSE nextSession
          /\ Changed(m)
      BY <2>10 DEF SetupUdp, WithSession, old
    <3> HIDE DEF pair
    <3>2. m.open = conn[c].open /\ m.sid = id
      BY <2>1 DEF Members
    <3> HIDE DEF m, id, Changed
    <3> QED  BY <2>4, <2>6, <2>8, <3>1, <3>2
  <2>11. ASSUME Play(c, h) PROVE Goal
    <3> DEFINE new == Cardinality(DOMAIN pushers) + 1
               m == [old EXCEPT !.pusher = new]
    <3>1. UNCHANGED <<sessions, nextSession>> /\ (Changed(old) \/ UNCHANGED conn \/ Changed(m))
      BY <2>11 DEF Play, old
    <3> HIDE DEF new
    <3>2. m.open = conn[c].open /\ m.sid = old.sid
      BY <2>1 DEF Members
    <3> HIDE DEF m, Changed
    <3>3. CASE UNCHANGED conn
      BY <2>4, <2>7, <3>1, <3>3
    <3>4. CASE Changed(old)
      BY <2>1, <2>4, <2>7, <2>8, <3>1, <3>4
    <3>5. CASE Changed(m)
      BY <2>4, <2>7, <2>8, <3>1, <3>2, <3>5
    <3> QED  BY <3>1, <3>3, <3>4, <3>5
  <2>12. ASSUME Teardown(c, h) \/ OtherRequest(c, h) PROVE Goal
    <3>1. /\ DOMAIN sessions' \subseteq DOMAIN sessions
          /\ nextSession' = nextSession /\ Changed(old)
      BY <2>12 DEF Teardown, OtherRequest, WithoutSession, old
    <3> HIDE DEF Changed
    <3> QED  BY <2>1, <2>4, <2>7, <2>8, <3>1
  <2> QED  BY <1>2, <2>9, <2>10, <2>11, <2>12
<1> QED  BY <1>1, <1>2 DEF Request

\* Whichever it is, the sessions nobody has strayed to or from keep their
\* connection.
LEMMA RequestSessionInv ==
  ASSUME Inv, SessionInv, NEW c \in Conns, Request(c)
  PROVE  SessionInv'
<1>1. /\ conn[c].open
      /\ \A d \in Conns : conn'[d].open = conn[d].open
      /\ \A d \in Conns \ {c} : conn'[d].sid = conn[d].sid
      /\ KeepsSession(c) \/ Strays(c) \/ GetsSession(c)
  BY RequestSession
<1>2. /\ nextSession \in Nat /\ NoSession \notin Nat
      /\ \A s \in DOMAIN sessions : s \in Nat
      /\ \A d \in Conns : conn[d].sid \in Nat \cup {NoSession}
      /\ \A s \in DOMAIN sessions \ strayed : s < nextSession
      /\ \A d \in Conns : conn[d].sid \notin strayed \cup {NoSession} => conn[d].sid < nextSession
  BY RtspConnectAssumption DEF Inv, TypeOK, SessionId, SessionInv, SessionsNumbered
<1>3. CASE KeepsSession(c)
  <2>1. SessionsNumbered'
    BY <1>1, <1>2, <1>3 DEF KeepsSession, SessionsNumbered
  <2>2. SessionsApart'
    BY <1>1, <1>3 DEF KeepsSession, SessionInv, SessionsApart
  <2>3. SessionsKept'
    BY <1>1, <1>3 DEF KeepsSession, SessionInv, SessionsKept
  <2> QED  BY <2>1, <2>2, <2>3 DEF SessionInv
<1>4. CASE Strays(c)
  <2>1. SessionsNumbered'
    BY <1>1, <1>2, <1>4 DEF Strays, SessionsNumbered
  <2>2. SessionsApart'
    BY <1>1, <1>4 DEF Strays, SessionInv, SessionsApart
  <2>3. SessionsKept'
    BY <1>1, <1>2, <1>4 DEF Strays, SessionInv, SessionsKept
  <2> QED  BY <2>1, <2>2, <2>3 DEF SessionInv
<1>5. CASE GetsSession(c)
  <2>1. \A s \in DOMAIN sessions' \ strayed' : s < nextSession'
    <3>1. \A s \in (DOMAIN sessions \cup {nextSession}) \ strayed : s < nextSession + 1
      BY <1>2
    <3>2. /\ DOMAIN sessions' = DOMAIN sessions \cup {nextSession} /\ strayed \subseteq strayed'
          /\ nextSession' = nextSession + 1
      BY <1>5 DEF GetsSession
    <3> QED  BY <3>1, <3>2
  <2>2. \A d \in Conns : conn'[d].sid \notin strayed' \cup {NoSession}
                           => conn'[d].sid < nextSession'
    BY <1>1, <1>2, <1>5 DEF GetsSession
  <2>3. SessionsNumbered'
    BY <2>1, <2>2 DEF SessionsNumbered
  <2>4. SessionsApart'
    BY <1>1, <1>2, <1>5 DEF GetsSession, SessionInv, SessionsApart
  <2>5. SessionsKept'
    BY <1>1, <1>2, <1>5 DEF GetsSession, SessionInv, SessionsKept
  <2> QED  BY <2>3, <2>4, <2>5 DEF SessionInv
<1> QED  BY <1>1, <1>3, <1>4, <1>5

\* The close of a connection erases the session it was in.
LEMMA ReleaseSessionInv ==
  ASSUME Inv, SessionInv, NEW c \in Conns, Release(c)
  PROVE  SessionInv'
<1>1. /\ ~conn'[c].open /\ conn'[c].sid = NoSession
      /\ \A d \in Conns \ {c} : conn'[d] = conn[d]
      /\ DOMAIN sessions' = DOMAIN sessions \ {conn[c].sid}
      /\ UNCHANGED <<nextSession, strayed>>
  <2> DEFINE release == conn[c].sid \in DOMAIN sessions /\ sessions[conn[c].sid].useUdp
             new == [conn[c] EXCEPT !.open = FALSE, !.sid = NoSession,
                                    !.video = IF release THEN NoUdp ELSE @,
                                    !.audio = IF release THEN NoUdp ELSE @]
  <2>1. conn' = [conn EXCEPT ![c] = new] /\ conn \in [Conns -> Members]
        /\ sessions' = WithoutSession(conn[c].sid) /\ UNCHANGED <<nextSession, strayed>>
    BY DEF Release, Inv, TypeOK, Members
  <2> HIDE DEF release
  <2>2. ~new.open /\ new.sid = NoSession
    BY <2>1 DEF Members
  <2> HIDE DEF new
  <2> QED  BY <2>1, <2>2 DEF WithoutSession
<1>2. SessionsNumbered'
  BY <1>1 DEF SessionInv, SessionsNumbered
<1>3. SessionsApart'
  BY <1>1 DEF SessionInv, SessionsApart
<1>4. SessionsKept'
  BY <1>1 DEF SessionInv, SessionsKept
<1> QED  BY <1>2, <1>3, <1>4 DEF SessionInv

LEMMA SessionsInductive == Spec => []SessionInv
<1>1. Init => SessionInv
  BY DEF Init, SessionInv, SessionsNumbered, SessionsApart, SessionsKept
<1>2. Inv /\ SessionInv /\ [Next]_vars => SessionInv'
  <2> SUFFICES ASSUME Inv, SessionInv, [Next]_vars PROVE SessionInv'
    OBVIOUS
  <2>1. CASE \E c \in Conns : Request(c)
    BY <2>1, RequestSessionInv
  <2>2. CASE \E c \in Conns : Release(c)
    BY <2>2, ReleaseSessionInv
  <2>3. CASE UNCHANGED <<sessions, nextSession, conn, strayed>>
    BY <2>3 DEF SessionInv, SessionsNumbered, SessionsApart, SessionsKept
  <2> QED  BY <2>1, <2>2, <2>3 DEF Next, PusherCallback, DanglingCallback, vars
<1> QED  BY <1>1, <1>2, Invariance, PTL DEF Spec

\* A session nobody has come to or left by a Session header belongs to exactly
\* one connection, an open one, so that the close of that connection erases it;
\* for any number of clients that set up, play, tear down, and name each other's
\* sessions, made-up ones or none.
THEOREM NoSessionIsLeftBehind == Spec => []EverySessionHasItsConnection
<1>1. Inv /\ SessionInv => EverySessionHasItsConnection
  <2> SUFFICES ASSUME Inv, SessionInv, NEW s \in DOMAIN sessions \ strayed
               PROVE  Cardinality({c \in Conns : conn[c].open /\ conn[c].sid = s}) = 1
    BY DEF EverySessionHasItsConnection
  <2>1. PICK c \in Conns : conn[c].open /\ conn[c].sid = s
    BY DEF SessionInv, SessionsKept
  <2>2. s # NoSession
    BY RtspConnectAssumption DEF Inv, TypeOK, SessionId
  <2>3. {d \in Conns : conn[d].open /\ conn[d].sid = s} = {c}
    BY <2>1, <2>2 DEF SessionInv, SessionsApart
  <2> QED  BY <2>3, FS_Singleton
<1> QED  BY <1>1, Invariance, SessionsInductive, PTL
=============================================================================
