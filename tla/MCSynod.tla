-------------------------------- MODULE MCSynod --------------------------------
(***************************************************************************)
(* Synod for TLC.  Nodes are the numbers 0 .. N-1, since ballots are       *)
(* computed from them.  The view leaves out the envelopes whose receipt    *)
(* can never change anything any more: states that differ in nothing else  *)
(* have the same futures.                                                  *)
(***************************************************************************)
EXTENDS Synod

\* A nack can still make n prepare again, within the bound on ballots.
CanRetry(n) ==
    /\ n \in Proposers
    /\ \/ inst[n].proposer.state \in {"Proposal", "Accepting"}
       \/ ~opened[n]
       \/ crashes < MaxCrashes
    /\ NextBallot(inst[n].proposer.ballot, n) <= MaxBallot

CanMatter(e) ==
    LET s == inst[e.to]
        m == e.msg
    IN  CASE m.type = "Promise" ->
               s.proposer.state = "Proposal" /\ m.ballot = s.proposer.ballot
          [] m.type = "AckAccept" ->
               s.proposer.state = "Accepting" /\ m.ballot = s.proposer.ballot
          [] m.type \in {"NackPrepare", "NackAccept"} ->
               CanRetry(e.to)
          [] m.type = "Prepare" ->
               \/ m.ballot > s.acceptor.max_ballot
               \/ \E n \in Proposers : CanRetry(n)
          [] m.type = "Accept" ->
               \/ m.ballot >= s.acceptor.max_ballot
               \/ \E n \in Proposers : CanRetry(n)
          [] m.type = "Learn" ->
               s.learner.value = None \/ crashes < MaxCrashes

LiveNet == [e \in {f \in BagToSet(net) : CanMatter(f)} |-> net[e]]

\* Nacks counted by a proposer that the bound keeps from preparing again.
LiveInst ==
    [n \in Nodes |-> IF CanRetry(n) THEN inst[n]
                     ELSE [inst[n] EXCEPT !.proposer.nacks = 0]]

View == <<LiveInst, opened, LiveNet, sent, crashes>>
=============================================================================
