--------------------------- MODULE ListenService ---------------------------
(***************************************************************************)
(* What the peers of htmlserver see of its listening addresses while it is *)
(* restarted gracefully (src/README:14: the outside is served without a    *)
(* break): on an address that every configuration names, no connection is  *)
(* refused and none that waits is dropped, and every one is served.        *)
(***************************************************************************)
CONSTANTS Conns, Ports, Kept

VARIABLE conn   \* [state, port] of each connection

Waiting(c) == conn[c].state = "queued"

Connect(c, port, state) ==
  /\ conn[c].state = "none"
  /\ state \in {"queued", "refused"}
  /\ port \in Kept => state = "queued"
  /\ conn' = [conn EXCEPT ![c] = [state |-> state, port |-> port]]

Accept(c) ==
  /\ Waiting(c)
  /\ conn' = [conn EXCEPT ![c].state = "accepted"]

Answer(c) ==
  /\ conn[c].state = "accepted"
  /\ conn' = [conn EXCEPT ![c].state = "answered"]

(* An address goes out of use with everything that waits on it.            *)
Drop(S) ==
  /\ \A c \in S : Waiting(c) /\ conn[c].port \notin Kept
  /\ conn' = [c \in Conns |->
       IF c \in S THEN [conn[c] EXCEPT !.state = "reset"] ELSE conn[c]]

NoPort == 0

ServiceInit == conn = [c \in Conns |-> [state |-> "none", port |-> NoPort]]

ServiceNext ==
  \/ \E c \in Conns :
       \/ \E port \in Ports, state \in {"queued", "refused"} : Connect(c, port, state)
       \/ Accept(c)
       \/ Answer(c)
  \/ \E S \in SUBSET Conns : Drop(S)

Safety == ServiceInit /\ [][ServiceNext]_conn

(* A connection that waits is accepted unless its address goes; one that   *)
(* is accepted is answered.                                                *)
Fairness ==
  \A c \in Conns :
    /\ WF_conn(Accept(c) \/ \E S \in SUBSET Conns : c \in S /\ Drop(S))
    /\ WF_conn(Answer(c))

Service == Safety /\ Fairness
=============================================================================
