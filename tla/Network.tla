-------------------------------- MODULE Network --------------------------------
(***************************************************************************)
(* What Synod and MultiPaxos assume of the network: whatever one node      *)
(* sends, each other node receives at most once, in any order, or never;   *)
(* nothing else is received.                                               *)
(***************************************************************************)
EXTENDS Naturals, Sequences

CONSTANTS Nodes, Messages

VARIABLES
    sent,       \* sent[n]: the messages n has sent
    received    \* received[n]: what n has received, in its order

vars == <<sent, received>>

Init ==
    /\ sent = [n \in Nodes |-> {}]
    /\ received = [n \in Nodes |-> << >>]

Send(n, m) ==
    /\ \A k \in Nodes : m \notin sent[k]
    /\ sent' = [sent EXCEPT ![n] = @ \cup {m}]
    /\ UNCHANGED received

Receive(n, m) ==
    /\ \E k \in Nodes \ {n} : m \in sent[k]
    /\ \A i \in DOMAIN received[n] : received[n][i] # m
    /\ received' = [received EXCEPT ![n] = Append(@, m)]
    /\ UNCHANGED sent

Next == \E n \in Nodes, m \in Messages : Send(n, m) \/ Receive(n, m)

Spec == Init /\ [][Next]_vars
=============================================================================
