--------------------------- MODULE RequestStream ---------------------------
(***************************************************************************)
(* What TCP connections and their loop promise the RTSP handlers: however  *)
(* the network cuts up a client's bytes, its requests are served one at a  *)
(* time, in order, each at most once and none before all of it is there.   *)
(***************************************************************************)
EXTENDS Naturals, Sequences

CONSTANT Clients

VARIABLES arrived,  \* how many requests each client has sent in full
          served    \* the numbers of the requests served, in order

streamVars == <<arrived, served>>

Init == /\ arrived = [c \in Clients |-> 0]
        /\ served = [c \in Clients |-> <<>>]

Arrive(c) == /\ arrived' = [arrived EXCEPT ![c] = @ + 1]
             /\ UNCHANGED served

Serve(c) == /\ Len(served[c]) < arrived[c]
            /\ served' = [served EXCEPT ![c] = Append(@, Len(@) + 1)]
            /\ UNCHANGED arrived

Next == \E c \in Clients : Arrive(c) \/ Serve(c)

Spec == Init /\ [][Next]_streamVars
=============================================================================
