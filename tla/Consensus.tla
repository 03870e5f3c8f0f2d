------------------------------- MODULE Consensus -------------------------------
(***************************************************************************)
(* What one Paxos instance promises to the rest of the system: at most one *)
(* command is ever chosen for it, and a node learns nothing but the chosen *)
(* command.  A node that restarts no longer knows what it had learned      *)
(* (learners are not persisted), and may learn it again.                   *)
(***************************************************************************)
CONSTANTS Nodes, Commands, None

VARIABLES chosen,   \* the commands chosen so far
          learned   \* what each node's learner holds

vars == <<chosen, learned>>

Init ==
    /\ chosen = {}
    /\ learned = [n \in Nodes |-> None]

Choose(c) ==
    /\ chosen = {}
    /\ chosen' = {c}
    /\ UNCHANGED learned

Learn(n) ==
    /\ learned[n] = None
    /\ \E c \in chosen : learned' = [learned EXCEPT ![n] = c]
    /\ UNCHANGED chosen

Forget(n) ==
    /\ learned' = [learned EXCEPT ![n] = None]
    /\ UNCHANGED chosen

Next ==
    \/ \E c \in Commands : Choose(c)
    \/ \E n \in Nodes : Learn(n) \/ Forget(n)

Spec == Init /\ [][Next]_vars
=============================================================================
