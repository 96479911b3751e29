----------------------------- MODULE RtpPusher -----------------------------
(***************************************************************************)
(* The life of the RtpPusher objects (media/RtpPusher.cc): construction,   *)
(* start, which puts a periodic timer on the connection's loop, the        *)
(* timer's callback, stop, and destruction.  What the callback reads and   *)
(* sends is abstracted to whether it meets the end of a file (or a read    *)
(* error) and clears _running.  RtspConnect drives these operations; each  *)
(* happens on the loop thread of the pusher's connection.                  *)
(*                                                                         *)
(* The timer's callback captures the raw pointer this; the pusher's only   *)
(* owner is RtspConnect::_rtspPusher.  TimerManager puts a timer back      *)
(* after its callback, so a removeTimer the callback makes for its own     *)
(* timer removes nothing (module TimerManager).                            *)
(***************************************************************************)
EXTENDS Naturals

CONSTANTS Conns,      \* the connections served
          MaxPushers  \* bound on the pushers ever constructed

ASSUME RtpPusherAssumption == MaxPushers \in Nat

VARIABLE pushers  \* the RtpPusher objects constructed so far, by number

PusherId == 1..MaxPushers

Pusher ==
  [owner : Conns,        \* the connection whose RtspConnect owns it
   alive : BOOLEAN,      \* not destroyed
   running : BOOLEAN,    \* _running
   hasTimerId : BOOLEAN, \* _timerId # 0
   scheduled : BOOLEAN,  \* its timer is on the loop
   ended : BOOLEAN]      \* history: the callback met the end of a file

\* The pushers after the one that c owned, old, has been replaced by a new
\* one that has been started: the constructor sets _running, start adds the
\* timer, and the old one's last shared_ptr is gone.
Replaced(ps, c, old, new) ==
  [p \in DOMAIN ps \cup {new} |->
     IF p = new THEN [owner |-> c, alive |-> TRUE, running |-> TRUE, hasTimerId |-> TRUE,
                      scheduled |-> TRUE, ended |-> FALSE]
     ELSE IF p = old THEN [ps[p] EXCEPT !.alive = FALSE]
     ELSE ps[p]]

\* Mutant: stop leaves the timer on the loop.
StoppedWithoutRemove(ps, p) ==
  IF p \notin DOMAIN ps THEN ps
  ELSE [ps EXCEPT ![p].running = FALSE, ![p].hasTimerId = FALSE]

\* Mutant: _rtspPusher is not tested before it is used.
StoppedUnchecked(ps, p) ==
  [q \in DOMAIN ps \cup {p} |-> IF q \in DOMAIN ps THEN ps[q] ELSE {}]

\* The pushers after stop() on p, if there is such a pusher.
Stopped(ps, p) ==
  IF p \notin DOMAIN ps THEN ps
  ELSE [ps EXCEPT ![p].running = FALSE,
                  ![p].scheduled = @ /\ ~ps[p].hasTimerId,
                  ![p].hasTimerId = FALSE]

\* The timer's callback while _running: a frame is due and the reader is at
\* its end, or fails (otherwise nothing changes here).
ReachEnd(p) ==
  /\ p \in DOMAIN pushers
  /\ pushers[p].scheduled /\ pushers[p].alive /\ pushers[p].running
  /\ pushers' = [pushers EXCEPT ![p].running = FALSE, ![p].ended = TRUE]

\* The timer's callback once _running is false: removeTimer, which is undone
\* by the emplace that follows the callback, and _timerId = 0.
CallbackWhenStopped(p) ==
  /\ p \in DOMAIN pushers
  /\ pushers[p].scheduled /\ pushers[p].alive /\ ~pushers[p].running
  /\ pushers[p].hasTimerId
  /\ pushers' = [pushers EXCEPT ![p].hasTimerId = FALSE]
=============================================================================
