------------------------------- MODULE SynodVotes -------------------------------
(***************************************************************************)
(* What acceptors have promised and accepted, and why it protects a chosen *)
(* command: the argument of Paxos, for every number of nodes, set of       *)
(* commands and bound.                                                     *)
(*                                                                         *)
(* A step of Synod is a chain of answers a node gives to itself, so the    *)
(* invariant must hold between two of its links as well.  Its parts are    *)
(* therefore stated over I, the instances of all nodes, T, the messages    *)
(* said, and F, the envelopes not yet received, whatever these are.        *)
(***************************************************************************)
EXTENDS SynodProofs

-----------------------------------------------------------------------------
(* Votes.                                                                   *)

\* Acceptor a has not accepted in ballot b, and will not.
WontVote(I, T, a, b) == AckOf(a, b) \notin T /\ I[a].acceptor.max_ballot > b

\* No command but c is or will be chosen in a ballot below b.
SafeAt(I, T, b, c) ==
    \A d \in 0 .. b - 1 : \E Q \in Quorums :
        \A a \in Q : Voted(T, a, d, c) \/ WontVote(I, T, a, d)

-----------------------------------------------------------------------------
(* The invariant of the acceptors.                                          *)

\* s, the instance of acceptor a, accounts for all it has said.
AcceptorVotes(a, s, T) ==
    /\ s.disk.accepted = s.acceptor.max_accepted
    /\ s.acceptor.max_accepted # NoProposal =>
          Voted(T, a, s.acceptor.max_accepted.ballot,
                      s.acceptor.max_accepted.command)
    /\ \A m \in OfType(T, "Promise") :
          m.sender = a => m.ballot <= s.acceptor.max_ballot
    /\ \A m \in OfType(T, "AckAccept") :
          m.sender = a => m.ballot <= s.acceptor.max_accepted.ballot

\* A promise tells the last vote below its ballot, and is given once.
PromiseTrue(T, m) ==
    /\ m.max_accepted.ballot < m.ballot
    /\ m.max_accepted # NoProposal =>
          Voted(T, m.sender, m.max_accepted.ballot, m.max_accepted.command)
    /\ \A k \in OfType(T, "AckAccept") :
          (k.sender = m.sender /\ k.ballot < m.ballot) =>
              k.ballot <= m.max_accepted.ballot
    /\ \A k \in OfType(T, "Promise") :
          (k.sender = m.sender /\ k.ballot = m.ballot) => k = m

RequestTrue(I, T, m) ==
    /\ m.ballot > 0
    /\ m.sender = Owner(m.ballot)
    /\ \A k \in OfType(T, "Accept") : k.ballot = m.ballot => k = m
    /\ SafeAt(I, T, m.ballot, m.command)

VoteInv(I, T) ==
    /\ \A a \in Nodes : AcceptorVotes(a, I[a], T)
    /\ \A m \in OfType(T, "Promise") : PromiseTrue(T, m)
    /\ \A m \in OfType(T, "Accept") : RequestTrue(I, T, m)
    /\ \A m \in OfType(T, "AckAccept") :
          \E k \in OfType(T, "Accept") : k.ballot = m.ballot

-----------------------------------------------------------------------------
(* The invariant of the proposers, of what they have counted, of the        *)
(* learners, and of what is on its way.                                     *)

Counted == {"Promise", "Accept", "AckAccept"}

\* H: acceptors that n has heard from.
HeardPromises(n, p, T, F, H) ==
    \A a \in H : \E m \in OfType(T, "Promise") :
        /\ Heard(n, T, F, m)
        /\ m.sender = a
        /\ m.ballot = p.ballot
        /\ m.max_accepted.ballot <= p.best.ballot

ProposerCounts(n, p, T, F) ==
    /\ p.state \in {"Proposal", "Accepting"} => p.ballot > 0
    /\ p.state = "Proposal" =>
          /\ \E H \in SUBSET Nodes :
                /\ p.promises <= Cardinality(H)
                /\ HeardPromises(n, p, T, F, H)
          /\ p.best # NoProposal =>
                \E m \in OfType(T, "Promise") :
                    m.ballot = p.ballot /\ m.max_accepted = p.best
    /\ p.state = "Accepting" =>
          /\ Request(p.ballot, p.value) \in T
          /\ \E H \in SUBSET Nodes :
                /\ p.accepts <= Cardinality(H)
                /\ HeardAcks(n, p, T, F, H)
    /\ p.state # "Proposal" => p.promises = 0
    /\ p.state # "Accepting" => p.accepts = 0

LearnerKnows(l, T) == l.value # None => Decided(T, l.value)

MailTrue(T, e) ==
    /\ e.msg.type \in Counted => e.msg \in T
    /\ e.msg.type = "Accept" => AckOf(e.to, e.msg.ballot) \notin T
    /\ e.msg.type = "Learn" => Decided(T, e.msg.command)

CountInv(I, T, F) ==
    /\ \A n \in Nodes : ProposerCounts(n, I[n].proposer, T, F)
    /\ \A n \in Nodes : LearnerKnows(I[n].learner, T)
    /\ \A e \in F : MailTrue(T, e)

-----------------------------------------------------------------------------
(* Quorums.                                                                 *)

-----------------------------------------------------------------------------
(* Messages of one type.                                                    *)

\* A vote is for the only command of its ballot, and no ballot is 0.
LEMMA VoteFacts ==
    ASSUME NEW I, NEW T, T \subseteq Messages, VoteInv(I, T),
           NEW a, NEW b, NEW c, Voted(T, a, b, c)
    PROVE  b \in Nat /\ b > 0 /\ SafeAt(I, T, b, c)
           /\ \A d : Request(b, d) \in T => d = c
  <1>1. Request(b, c) \in OfType(T, "Accept") /\ Request(b, c) \in Messages
    BY RequestIn DEF Voted
  <1>2. RequestTrue(I, T, Request(b, c))
    BY <1>1 DEF VoteInv
  <1>3. Request(b, c).ballot = b /\ Request(b, c).command = c
    BY DEF Request
  <1>4. b \in Nat
    BY <1>1 DEF Request, Messages
  <1>5. ASSUME NEW d, Request(b, d) \in T
        PROVE  d = c
    BY <1>2, <1>3, <1>5, RequestIn DEF RequestTrue
  <1> QED BY <1>2, <1>3, <1>4, <1>5 DEF RequestTrue

-----------------------------------------------------------------------------
(* Steps only add to what is safe.                                          *)

AllInstances == [Nodes -> Instances]

Grows(I, T, J, U) ==
    /\ T \subseteq U
    /\ \A a \in Nodes : J[a].acceptor.max_ballot >= I[a].acceptor.max_ballot
    /\ \A a \in Nodes, b \in Nat :
          AckOf(a, b) \in U => \/ AckOf(a, b) \in T
                               \/ b >= I[a].acceptor.max_ballot

LEMMA MaxBallotType ==
    ASSUME NEW I \in AllInstances, NEW a \in Nodes
    PROVE  I[a] \in Instances /\ I[a].acceptor.max_ballot \in Nat
           /\ I[a].acceptor.max_accepted.ballot \in Nat
           /\ I[a].acceptor.max_accepted \in Proposals
  <1>1. I[a] \in Instances
    BY DEF AllInstances
  <1> QED BY <1>1, BallotTypes DEF Instances, AcceptorStates

LEMMA SafeAtStable ==
    ASSUME NEW I \in AllInstances, NEW J \in AllInstances, NEW T, NEW U,
           Grows(I, T, J, U), NEW b \in Nat, NEW c, SafeAt(I, T, b, c)
    PROVE  SafeAt(J, U, b, c)
  <1> SUFFICES ASSUME NEW d \in 0 .. b - 1
               PROVE  \E Q \in Quorums :
                        \A a \in Q : Voted(U, a, d, c) \/ WontVote(J, U, a, d)
    BY DEF SafeAt
  <1>1. PICK Q \in Quorums : \A a \in Q : Voted(T, a, d, c) \/ WontVote(I, T, a, d)
    BY DEF SafeAt
  <1>2. d \in Nat
    OBVIOUS
  <1>3. ASSUME NEW a \in Q
        PROVE  Voted(U, a, d, c) \/ WontVote(J, U, a, d)
    <2>1. a \in Nodes
      BY DEF Quorums
    <2>2. I[a].acceptor.max_ballot \in Nat /\ J[a].acceptor.max_ballot \in Nat
      BY <2>1, MaxBallotType
    <2>3. CASE Voted(T, a, d, c)
      BY <2>3 DEF Voted, Grows
    <2>4. CASE WontVote(I, T, a, d)
      BY <1>2, <2>1, <2>2, <2>4 DEF WontVote, Grows
    <2> QED BY <1>1, <2>3, <2>4
  <1> QED BY <1>3

-----------------------------------------------------------------------------
(* One command is decided.                                                  *)

\* A5 of acceptor.rs: after a quorum of votes for c in ballot b, every request
\* of a higher ballot is for c.
LEMMA DecidedProtected ==
    ASSUME NEW I, NEW T, T \subseteq Messages, VoteInv(I, T),
           NEW b \in Nat, NEW c, Voters(T, b, c) \in Quorums,
           NEW bb, NEW cc, NEW a, Voted(T, a, bb, cc), bb > b
    PROVE  c = cc
  <1>1. bb \in Nat /\ SafeAt(I, T, bb, cc)
    BY VoteFacts
  <1>2. b \in 0 .. bb - 1
    BY <1>1
  <1>3. PICK Q \in Quorums : \A k \in Q : Voted(T, k, b, cc) \/ WontVote(I, T, k, b)
    BY <1>1, <1>2 DEF SafeAt
  <1>4. PICK k \in Nodes : k \in Q /\ k \in Voters(T, b, c)
    BY QuorumsIntersect
  <1>5. Voted(T, k, b, c) /\ Voted(T, k, b, cc)
    BY <1>3, <1>4 DEF Voters, Voted, WontVote
  <1> QED BY <1>5, VoteFacts DEF Voted

LEMMA DecidedOnce ==
    ASSUME NEW I, NEW T, T \subseteq Messages, VoteInv(I, T),
           NEW c, Decided(T, c), NEW d, Decided(T, d)
    PROVE  c = d
  <1>1. PICK b : Cardinality(Voters(T, b, c)) >= Quorum
    BY DEF Decided
  <1>2. PICK bb : Cardinality(Voters(T, bb, d)) >= Quorum
    BY DEF Decided
  <1>3. Voters(T, b, c) \in Quorums /\ Voters(T, bb, d) \in Quorums
    BY <1>1, <1>2, VotersQuorum
  <1>4. PICK a \in Nodes : a \in Voters(T, b, c)
    BY <1>3, QuorumInhabited
  <1>5. PICK k \in Nodes : k \in Voters(T, bb, d)
    BY <1>3, QuorumInhabited
  <1>6. Voted(T, a, b, c) /\ Voted(T, k, bb, d)
    BY <1>4, <1>5 DEF Voters
  <1>7. b \in Nat /\ bb \in Nat
    BY <1>6, VoteFacts
  <1>8. CASE b = bb
    BY <1>6, <1>8, VoteFacts DEF Voted
  <1>9. CASE b < bb
    BY <1>3, <1>6, <1>7, <1>9, DecidedProtected
  <1>10. CASE bb < b
    BY <1>3, <1>6, <1>7, <1>10, DecidedProtected
  <1> QED BY <1>7, <1>8, <1>9, <1>10

-----------------------------------------------------------------------------
(* The steps of the acceptors, and the proposer's request.                  *)

\* No vote is cast; acceptors may raise their ballots.
QuietVotes(I, T, J, U) ==
    /\ T \subseteq U
    /\ \A t \in Counted : OfType(U, t) = OfType(T, t)
    /\ \A a \in Nodes :
          /\ J[a].acceptor.max_ballot >= I[a].acceptor.max_ballot
          /\ J[a].acceptor.max_accepted = I[a].acceptor.max_accepted
          /\ J[a].disk.accepted = I[a].disk.accepted

LEMMA QuietGrows ==
    ASSUME NEW I, NEW T, NEW J, NEW U, QuietVotes(I, T, J, U)
    PROVE  Grows(I, T, J, U)
  <1>1. ASSUME NEW a, NEW b, AckOf(a, b) \in U
        PROVE  AckOf(a, b) \in T
    BY <1>1, AckIn DEF QuietVotes, Counted, OfType
  <1> QED BY <1>1 DEF Grows, QuietVotes

LEMMA QuietStep ==
    ASSUME NEW I \in AllInstances, NEW J \in AllInstances, NEW T, NEW U,
           T \subseteq Messages, VoteInv(I, T), QuietVotes(I, T, J, U)
    PROVE  VoteInv(J, U)
  <1>1. T \subseteq U /\ OfType(U, "Promise") = OfType(T, "Promise")
        /\ OfType(U, "Accept") = OfType(T, "Accept")
        /\ OfType(U, "AckAccept") = OfType(T, "AckAccept")
    BY DEF QuietVotes, Counted
  <1>2. ASSUME NEW a \in Nodes
        PROVE  AcceptorVotes(a, J[a], U)
    <2>1. AcceptorVotes(a, I[a], T)
      BY DEF VoteInv
    <2>2. I[a].acceptor.max_ballot \in Nat /\ J[a].acceptor.max_ballot \in Nat
      BY MaxBallotType
    <2>3. /\ J[a].acceptor.max_ballot >= I[a].acceptor.max_ballot
          /\ J[a].acceptor.max_accepted = I[a].acceptor.max_accepted
          /\ J[a].disk.accepted = I[a].disk.accepted
      BY DEF QuietVotes
    <2>4. ASSUME NEW m \in OfType(U, "Promise"), m.sender = a
          PROVE  m.ballot <= J[a].acceptor.max_ballot
      <3>1. m.ballot \in Nat /\ m.ballot <= I[a].acceptor.max_ballot
        BY <1>1, <2>1, <2>4, PromiseShape DEF AcceptorVotes
      <3> QED BY <2>2, <2>3, <3>1
    <2> QED BY <1>1, <2>1, <2>3, <2>4, VotedStable DEF AcceptorVotes
  <1>3. ASSUME NEW m \in OfType(T, "Promise")
        PROVE  PromiseTrue(U, m)
    BY <1>1, VotedStable DEF VoteInv, PromiseTrue
  <1>4. ASSUME NEW m \in OfType(T, "Accept")
        PROVE  RequestTrue(J, U, m)
    <2>1. RequestTrue(I, T, m)
      BY DEF VoteInv
    <2>2. m.ballot \in Nat
      BY <2>1, AcceptShape DEF RequestTrue
    <2>3. SafeAt(J, U, m.ballot, m.command)
      BY <2>1, <2>2, QuietGrows, SafeAtStable DEF RequestTrue
    <2> QED BY <1>1, <2>1, <2>3 DEF RequestTrue
  <1> QED BY <1>1, <1>2, <1>3, <1>4 DEF VoteInv

\* An acceptor that has gone to ballot b promises it: no vote of its own lies
\* between what it tells and b.
LEMMA PromiseStep ==
    ASSUME NEW I \in AllInstances, NEW T, T \subseteq Messages, VoteInv(I, T),
           NEW n \in Nodes, NEW b \in Nat,
           I[n].acceptor.max_ballot = b,
           I[n].acceptor.max_accepted.ballot < b,
           \A m \in OfType(T, "Promise") : m.sender = n => m.ballot < b,
           NEW p \in Messages,
           p = [type |-> "Promise", sender |-> n, ballot |-> b,
                max_accepted |-> I[n].acceptor.max_accepted]
    PROVE  VoteInv(I, T \cup {p})
  <1> DEFINE U == T \cup {p}
  <1>1. /\ T \subseteq U
        /\ OfType(U, "Promise") = OfType(T, "Promise") \cup {p}
        /\ OfType(U, "Accept") = OfType(T, "Accept")
        /\ OfType(U, "AckAccept") = OfType(T, "AckAccept")
    BY DEF OfType
  <1>2. p.sender = n /\ p.ballot = b /\ p.max_accepted = I[n].acceptor.max_accepted
    OBVIOUS
  <1> HIDE DEF U
  <1>3. AcceptorVotes(n, I[n], T)
    BY DEF VoteInv
  <1>4. ASSUME NEW a \in Nodes
        PROVE  AcceptorVotes(a, I[a], U)
    <2>1. AcceptorVotes(a, I[a], T)
      BY DEF VoteInv
    <2>2. p.sender = a => p.ballot <= I[a].acceptor.max_ballot
      BY <1>2
    <2> QED BY <1>1, <2>1, <2>2, VotedStable DEF AcceptorVotes
  <1>5. ASSUME NEW m \in OfType(T, "Promise")
        PROVE  PromiseTrue(U, m)
    <2>1. PromiseTrue(T, m)
      BY DEF VoteInv
    <2>2. m.sender = n => m.ballot < b
      OBVIOUS
    <2>3. m.ballot \in Nat
      BY PromiseShape
    <2>4. ~(p.sender = m.sender /\ p.ballot = m.ballot)
      BY <1>2, <2>2, <2>3
    <2> QED BY <1>1, <2>1, <2>4, VotedStable DEF PromiseTrue
  <1>6. PromiseTrue(U, p)
    <2>1. p.max_accepted # NoProposal =>
             Voted(U, p.sender, p.max_accepted.ballot, p.max_accepted.command)
      BY <1>1, <1>2, <1>3, VotedStable DEF AcceptorVotes
    <2>2. ASSUME NEW k \in OfType(U, "AckAccept"), k.sender = p.sender
          PROVE  k.ballot <= p.max_accepted.ballot
      BY <1>1, <1>2, <1>3, <2>2 DEF AcceptorVotes
    <2>3. ASSUME NEW k \in OfType(U, "Promise"), k.sender = p.sender,
                 k.ballot = p.ballot
          PROVE  k = p
      <3>1. CASE k \in OfType(T, "Promise")
        BY <1>2, <2>3, <3>1
      <3> QED BY <1>1, <3>1
    <2> QED BY <1>2, <2>1, <2>2, <2>3 DEF PromiseTrue
  <1>7. ASSUME NEW m \in OfType(T, "Accept")
        PROVE  RequestTrue(I, U, m)
    <2>1. RequestTrue(I, T, m)
      BY DEF VoteInv
    <2>2. m.ballot \in Nat
      BY <2>1, AcceptShape DEF RequestTrue
    <2>3. Grows(I, T, I, U)
      <3>1. \A a \in Nodes, d \in Nat : AckOf(a, d) \in U => AckOf(a, d) \in T
        BY <1>1, AckIn DEF OfType
      <3> QED BY <1>1, <3>1, MaxBallotType DEF Grows
    <2>4. SafeAt(I, U, m.ballot, m.command)
      BY <2>1, <2>2, <2>3, SafeAtStable DEF RequestTrue
    <2> QED BY <1>1, <2>1, <2>4 DEF RequestTrue
  <1>8. VoteInv(I, U)
    BY <1>1, <1>4, <1>5, <1>6, <1>7 DEF VoteInv
  <1> QED BY <1>8 DEF U

\* A vote: the acceptor has promised nothing above the ballot of the request.
LEMMA VoteStep ==
    ASSUME NEW I \in AllInstances, NEW J \in AllInstances,
           NEW T, T \subseteq Messages, VoteInv(I, T),
           NEW n \in Nodes, NEW b \in Nat, NEW c \in Commands,
           Request(b, c) \in T,
           b >= I[n].acceptor.max_ballot,
           I[n].acceptor.max_accepted.ballot <= I[n].acceptor.max_ballot,
           \A a \in Nodes : a # n => J[a] = I[a],
           J[n].acceptor = [max_ballot |-> b,
                            max_accepted |-> [ballot |-> b, command |-> c]],
           J[n].disk.accepted = [ballot |-> b, command |-> c]
    PROVE  VoteInv(J, T \cup {AckOf(n, b)})
  <1> DEFINE ack == AckOf(n, b)
             U == T \cup {ack}
  <1>1. /\ T \subseteq U
        /\ OfType(U, "Promise") = OfType(T, "Promise")
        /\ OfType(U, "Accept") = OfType(T, "Accept")
        /\ OfType(U, "AckAccept") = OfType(T, "AckAccept") \cup {ack}
    BY DEF OfType, AckOf
  <1>2. ack.sender = n /\ ack.ballot = b
    BY DEF AckOf
  <1>3. ack \in U
    OBVIOUS
  <1>4. /\ I[n].acceptor.max_ballot \in Nat
        /\ I[n].acceptor.max_accepted.ballot \in Nat
    BY MaxBallotType
  <1>5. /\ J[n].acceptor.max_ballot = b
        /\ J[n].acceptor.max_accepted = [ballot |-> b, command |-> c]
    OBVIOUS
  <1>6. Grows(I, T, J, U)
    <2>1. \A a \in Nodes : J[a].acceptor.max_ballot >= I[a].acceptor.max_ballot
      BY <1>5, MaxBallotType
    <2>2. ASSUME NEW a \in Nodes, NEW d \in Nat, AckOf(a, d) \in U
          PROVE  AckOf(a, d) \in T \/ d >= I[a].acceptor.max_ballot
      <3>1. AckOf(a, d) = ack => a = n /\ d = b
        BY DEF AckOf
      <3> QED BY <2>2, <3>1
    <2> QED BY <1>1, <2>1, <2>2 DEF Grows
  <1> HIDE DEF U, ack
  <1>7. ASSUME NEW a \in Nodes
        PROVE  AcceptorVotes(a, J[a], U)
    <2>1. AcceptorVotes(a, I[a], T)
      BY DEF VoteInv
    <2>2. CASE a # n
      BY <1>1, <1>2, <2>1, <2>2, VotedStable DEF AcceptorVotes
    <2>3. CASE a = n
      <3>1. Voted(U, n, b, c)
        BY <1>1, <1>3 DEF Voted, ack
      <3>2. ASSUME NEW m \in OfType(U, "Promise"), m.sender = n
            PROVE  m.ballot <= b
        <4>1. m.ballot \in Nat /\ m.ballot <= I[n].acceptor.max_ballot
          BY <1>1, <2>1, <2>3, <3>2, PromiseShape DEF AcceptorVotes
        <4> QED BY <1>4, <4>1
      <3>3. ASSUME NEW m \in OfType(U, "AckAccept"), m.sender = n
            PROVE  m.ballot <= b
        <4>1. CASE m = ack
          BY <1>2, <4>1
        <4>2. CASE m \in OfType(T, "AckAccept")
          <5>1. m.ballot \in Nat
                /\ m.ballot <= I[n].acceptor.max_accepted.ballot
            BY <2>1, <2>3, <3>3, <4>2, AckShape DEF AcceptorVotes
          <5> QED BY <1>4, <5>1
        <4> QED BY <1>1, <4>1, <4>2
      <3> QED BY <1>5, <2>3, <3>1, <3>2, <3>3 DEF AcceptorVotes
    <2> QED BY <2>2, <2>3
  <1>8. ASSUME NEW m \in OfType(T, "Promise")
        PROVE  PromiseTrue(U, m)
    <2>1. PromiseTrue(T, m) /\ AcceptorVotes(n, I[n], T)
      BY DEF VoteInv
    <2>2. m.ballot \in Nat
      BY PromiseShape
    <2>3. ~(ack.sender = m.sender /\ ack.ballot < m.ballot)
      BY <1>2, <1>4, <2>1, <2>2 DEF AcceptorVotes
    <2> QED BY <1>1, <2>1, <2>3, VotedStable DEF PromiseTrue
  <1>9. ASSUME NEW m \in OfType(T, "Accept")
        PROVE  RequestTrue(J, U, m)
    <2>1. RequestTrue(I, T, m)
      BY DEF VoteInv
    <2>2. m.ballot \in Nat
      BY <2>1, AcceptShape DEF RequestTrue
    <2>3. SafeAt(J, U, m.ballot, m.command)
      BY <1>6, <2>1, <2>2, SafeAtStable DEF RequestTrue
    <2> QED BY <1>1, <2>1, <2>3 DEF RequestTrue
  <1>10. \E k \in OfType(T, "Accept") : k.ballot = ack.ballot
    BY <1>2, RequestIn
  <1>11. VoteInv(J, U)
    BY <1>1, <1>7, <1>8, <1>9, <1>10 DEF VoteInv
  <1> QED BY <1>11 DEF U, ack

\* A request of a new ballot, for a command that is safe.
LEMMA RequestStep ==
    ASSUME NEW I \in AllInstances, NEW T, T \subseteq Messages, VoteInv(I, T),
           NEW b \in Nat, b > 0, NEW c \in Commands,
           \A m \in OfType(T, "Accept") : m.ballot # b,
           SafeAt(I, T, b, c)
    PROVE  VoteInv(I, T \cup {Request(b, c)})
  <1> DEFINE req == Request(b, c)
             U == T \cup {req}
  <1>1. /\ T \subseteq U
        /\ OfType(U, "Promise") = OfType(T, "Promise")
        /\ OfType(U, "Accept") = OfType(T, "Accept") \cup {req}
        /\ OfType(U, "AckAccept") = OfType(T, "AckAccept")
    BY DEF OfType, Request
  <1>2. req.ballot = b /\ req.command = c /\ req.sender = Owner(b)
    BY DEF Request
  <1>3. Grows(I, T, I, U)
    <2>1. \A a \in Nodes, d \in Nat : AckOf(a, d) \in U => AckOf(a, d) \in T
      BY <1>1, AckIn DEF OfType
    <2> QED BY <1>1, <2>1, MaxBallotType DEF Grows
  <1> HIDE DEF U, req
  <1>4. ASSUME NEW a \in Nodes
        PROVE  AcceptorVotes(a, I[a], U)
    BY <1>1, VotedStable DEF AcceptorVotes, VoteInv
  <1>5. ASSUME NEW m \in OfType(T, "Promise")
        PROVE  PromiseTrue(U, m)
    BY <1>1, VotedStable DEF PromiseTrue, VoteInv
  <1>6. ASSUME NEW m \in OfType(T, "Accept")
        PROVE  RequestTrue(I, U, m)
    <2>1. RequestTrue(I, T, m)
      BY DEF VoteInv
    <2>2. m.ballot \in Nat
      BY <2>1, AcceptShape DEF RequestTrue
    <2>3. SafeAt(I, U, m.ballot, m.command)
      BY <1>3, <2>1, <2>2, SafeAtStable DEF RequestTrue
    <2>4. req.ballot # m.ballot
      BY <1>2
    <2> QED BY <1>1, <2>1, <2>3, <2>4 DEF RequestTrue
  <1>7. RequestTrue(I, U, req)
    <2>1. SafeAt(I, U, b, c)
      BY <1>3, SafeAtStable
    <2>2. \A k \in OfType(U, "Accept") : k.ballot = b => k = req
      BY <1>1
    <2> QED BY <1>2, <2>1, <2>2 DEF RequestTrue
  <1>8. VoteInv(I, U)
    BY <1>1, <1>4, <1>5, <1>6, <1>7 DEF VoteInv
  <1> QED BY <1>8 DEF U, req

-----------------------------------------------------------------------------
(* What a quorum of promises makes safe.                                    *)

\* Whoever has promised b, and told no vote above that of best, has voted in
\* no ballot between best's and b, and will not.
LEMMA PromisedVotes ==
    ASSUME NEW I \in AllInstances, NEW T, T \subseteq Messages, VoteInv(I, T),
           NEW b \in Nat, NEW best \in Proposals, NEW a \in Nodes,
           NEW m \in OfType(T, "Promise"), m.sender = a, m.ballot = b,
           m.max_accepted.ballot <= best.ballot,
           NEW d \in 0 .. b - 1
    PROVE  \/ WontVote(I, T, a, d)
           \/ AckOf(a, d) \in T /\ d <= best.ballot
  <1>1. PromiseTrue(T, m) /\ AcceptorVotes(a, I[a], T)
    BY DEF VoteInv
  <1>2. d \in Nat /\ d < b
    OBVIOUS
  <1>3. m.max_accepted.ballot \in Nat /\ best.ballot \in Nat
        /\ I[a].acceptor.max_ballot \in Nat
    BY PromiseShape, MaxBallotType DEF Proposals, NoProposal
  <1>4. CASE AckOf(a, d) \in T
    <2>1. d <= m.max_accepted.ballot
      BY <1>1, <1>2, <1>4, AckIn DEF PromiseTrue
    <2> QED BY <1>2, <1>3, <1>4, <2>1
  <1>5. CASE AckOf(a, d) \notin T
    <2>1. b <= I[a].acceptor.max_ballot
      BY <1>1 DEF AcceptorVotes
    <2> QED BY <1>2, <1>3, <1>5, <2>1 DEF WontVote
  <1> QED BY <1>4, <1>5

\* Proposer::process_promise: the command of the highest proposal a quorum of
\* promises told, or the proposer's own when they told none, is safe.
LEMMA QuorumSafe ==
    ASSUME NEW I \in AllInstances, NEW T, T \subseteq Messages, VoteInv(I, T),
           NEW b \in Nat, NEW best \in Proposals, NEW own, NEW H \in Quorums,
           \A a \in H : \E m \in OfType(T, "Promise") :
               /\ m.sender = a
               /\ m.ballot = b
               /\ m.max_accepted.ballot <= best.ballot,
           best # NoProposal =>
               \E m \in OfType(T, "Promise") :
                   m.ballot = b /\ m.max_accepted = best
    PROVE  SafeAt(I, T, b, ValueToAccept(best, own))
  <1> DEFINE v == ValueToAccept(best, own)
  <1> SUFFICES ASSUME NEW d \in 0 .. b - 1
               PROVE  \E Q \in Quorums :
                        \A a \in Q : Voted(T, a, d, v) \/ WontVote(I, T, a, d)
    BY DEF SafeAt
  <1>1. ASSUME NEW a \in H
        PROVE  WontVote(I, T, a, d) \/ (AckOf(a, d) \in T /\ d <= best.ballot)
    BY PromisedVotes DEF Quorums
  <1>2. d \in Nat /\ best.ballot \in Nat
    BY DEF Proposals, NoProposal
  <1>3. CASE best = NoProposal
    <2>1. ASSUME NEW a \in H, AckOf(a, d) \in T
          PROVE  d > 0
      <3>1. PICK k \in OfType(T, "Accept") : k.ballot = AckOf(a, d).ballot
        BY <2>1, AckIn DEF VoteInv
      <3>2. k.ballot = d /\ k.ballot > 0
        BY <3>1 DEF AckOf, VoteInv, RequestTrue
      <3> QED BY <3>2
    <2>2. best.ballot = 0
      BY <1>3 DEF NoProposal
    <2>3. \A a \in H : WontVote(I, T, a, d)
      BY <1>1, <1>2, <2>1, <2>2
    <2> QED BY <2>3
  <1>4. CASE best # NoProposal
    <2>1. PICK m \in OfType(T, "Promise") : m.ballot = b /\ m.max_accepted = best
      BY <1>4
    <2>2. PromiseTrue(T, m)
      BY DEF VoteInv
    <2>3. v = best.command
      BY <1>4 DEF ValueToAccept
    <2>4. Voted(T, m.sender, best.ballot, v)
      BY <1>4, <2>1, <2>2, <2>3 DEF PromiseTrue
    <2>5. SafeAt(I, T, best.ballot, v) /\ Request(best.ballot, v) \in T
      BY <2>4, VoteFacts DEF Voted
    <2> HIDE DEF v
    <2>6. CASE d < best.ballot
      <3>1. d \in 0 .. best.ballot - 1
        BY <1>2, <2>6
      <3> QED BY <2>5, <3>1 DEF SafeAt
    <2>7. CASE ~(d < best.ballot)
      <3>1. ASSUME NEW a \in H
            PROVE  Voted(T, a, d, v) \/ WontVote(I, T, a, d)
        <4>1. CASE AckOf(a, d) \in T /\ d <= best.ballot
          <5>1. d = best.ballot
            BY <1>2, <2>7, <4>1
          <5> QED BY <2>5, <4>1, <5>1 DEF Voted
        <4> QED BY <1>1, <4>1
      <3> QED BY <3>1
    <2> QED BY <2>6, <2>7
  <1> QED BY <1>3, <1>4
=============================================================================
