----------------------------- MODULE MCMultiPaxos -----------------------------
(***************************************************************************)
(* MultiPaxos for TLC: who calls propose with what, and a view that leaves *)
(* out the envelopes whose receipt can never change anything any more.     *)
(***************************************************************************)
EXTENDS MultiPaxos

CONSTANTS A, B, C

Call(n, c) == [node |-> n, command |-> c]

\* The rivals of one instance, or a leader and a node that goes on without it.
RivalRequests == {Call(0, A), Call(1, B)}

\* A leader's second command.
LeaderRequests == {Call(0, A), Call(0, B)}

\* Node 1 wins an instance, then node 0 and node 1 propose again.
FastRequests == {Call(1, C), Call(0, A), Call(1, B)}

\* Node 1 leads, nodes 0 and 2 forward.
ForwardRequests == {Call(1, C), Call(0, A), Call(2, B)}

-----------------------------------------------------------------------------
MayPropose(n) == \E req \in Requests \ requested : req.node = n

\* Some node can still propose, or be asked to.
Unsettled ==
    \/ requested # Requests
    \/ \E e \in BagToSet(net) : e.msg.type = "RequestCommandToLeader"

\* A restart of n would not bring instance i back.
Forgettable(n, i) == crashes < MaxCrashes /\ instances[n][i].disk.ballot = 0

\* A nack can still make n prepare again in instance i, within the bound.
CanRetry(n, i) ==
    /\ NextBallot(instances[n][i].proposer.ballot, n) <= MaxBallot
    /\ \/ instances[n][i].proposer.state \in {"Proposal", "Accepting"}
       \/ Unsettled /\ (i >= next_instance_id[n] \/ Forgettable(n, i))

\* Receiving e opens the instance at its node, or moves next_instance_id, now
\* or after a restart.
Opens(e) ==
    \/ e.id \notin opened[e.to]
    \/ e.id >= next_instance_id[e.to]
    \/ Forgettable(e.to, e.id)

NackMatters(i) == Unsettled \/ \E n \in Nodes : CanRetry(n, i)

CanMatter(e) ==
    LET s == instances[e.to][e.id]
        p == s.proposer
        m == e.msg
    IN  CASE m.type = "RequestCommandToLeader" -> TRUE
          [] m.type = "ForwardAck" ->
               \/ forwarded_senders[e.to][m.forward_id] # None
               \/ MayPropose(e.to)
          [] OTHER ->
               \/ Opens(e)
               \/ /\ m.type = "Promise"
                  /\ p.state = "Proposal" /\ p.ballot = m.ballot
               \/ /\ m.type = "AckAccept"
                  /\ p.state = "Accepting" /\ p.ballot = m.ballot
               \/ m.type = "Prepare" /\ m.ballot > s.acceptor.max_ballot
               \/ m.type = "Accept" /\ m.ballot >= s.acceptor.max_ballot
               \/ m.type \in {"Prepare", "Accept"} /\ NackMatters(e.id)
               \/ m.type = "NackPrepare" /\ CanRetry(e.to, e.id)
               \/ m.type = "NackAccept" /\ (CanRetry(e.to, e.id) \/ Unsettled)
               \/ /\ m.type = "Learn"
                  /\ \/ s.learner.value = None
                     \/ MayPropose(e.to)
                     \/ crashes < MaxCrashes

LiveNet == [e \in {f \in BagToSet(net) : CanMatter(f)} |-> net[e]]

\* Only whether a leader is known matters, and only to a node that may propose.
LiveKnown ==
    [n \in Nodes |-> MayPropose(n) /\ known_leader_id[n] # None]

\* Nacks counted by a proposer that the bound keeps from preparing again.
LiveInstances ==
    [n \in Nodes |-> [i \in Ids |->
        IF CanRetry(n, i) THEN instances[n][i]
        ELSE [instances[n][i] EXCEPT !.proposer.nacks = 0]]]

View ==
    <<LiveInstances, LiveKnown, LiveNet, opened, next_instance_id,
      leader_ballot, pending_senders, forwarded_senders, next_forward_id,
      applied, replies, requested, sent, crashes>>
-----------------------------------------------------------------------------
\* A schedule that leads to two applied logs, for the search to follow: node 1
\* wins instance 0 with node 0 while node 0 proposes in instance 1, then node
\* 1, which has seen nothing of instance 1, proposes there too.
FastPathSchedule ==
    /\ \A n \in Nodes, i \in Ids : instances[n][i].proposer.nacks = 0
    /\ \A s \in sent : s.id = 0 => s.msg.sender \in {0, 1}
    /\ Call(0, A) \in requested => Call(1, C) \in requested
    /\ Call(1, B) \in requested => next_instance_id[0] = 2
    /\ 0 \in opened[2] => Call(1, B) \in requested
    /\ applied[1] = << >>

=============================================================================
