----------------------------- MODULE InstanceProofs -----------------------------
(***************************************************************************)
(* Lemmas about one instance on one node, for every number of nodes and    *)
(* set of commands: what a handler of PaxosInstance keeps of an instance,  *)
(* and what a chain of answers to oneself does.  The theorems about Synod  *)
(* and about MultiPaxos rest on them.                                      *)
(*                                                                         *)
(* They are about types, about what an acceptor keeps and has on disk,     *)
(* about the ballots a node has asked for, about the end of a chain, and   *)
(* about the quorums and the bags that acknowledgements are counted with.  *)
(***************************************************************************)
EXTENDS PaxosInstance, Bags, Integers, FiniteSetTheorems, TLAPS

-----------------------------------------------------------------------------
(* A single instance.  The handlers keep its type; that what an active      *)
(* proposer sends carries a command needs HasValue besides.                 *)

GoodInstance(s) == s \in Instances /\ HasValue(s)

Answers == Messages \cup {NoMessage}

\* What HandleX, Handle and NewX return.
GoodResult(r) == GoodInstance(r.inst) /\ r.resp \in Answers

\* NAssumption gives the arithmetic: the set of nodes, and ballots that grow.
LEMMA NodesType == Nodes \subseteq Nat
  BY NAssumption DEF Nodes

LEMMA NextBallotType ==
    ASSUME NEW b \in Nat, NEW me \in Nodes
    PROVE  NextBallot(b, me) \in Nat
  <1>1. b \div N \in Nat
    BY NAssumption
  <1>2. (b \div N + 1) * N \in Nat
    BY <1>1, NAssumption
  <1> QED
    BY <1>2, NodesType DEF NextBallot

LEMMA QuorumType == Quorum \in Nat
  BY NAssumption DEF Quorum

LEMMA FreshTypes ==
    ASSUME NEW me \in Nodes
    PROVE  /\ FreshAcceptor \in AcceptorStates
           /\ FreshProposer(me) \in ProposerStates
           /\ FreshLearner \in LearnerStates
           /\ FreshDisk \in Disks
  BY NodesType DEF FreshAcceptor, FreshProposer, FreshLearner, FreshDisk,
     AcceptorStates, ProposerStates, LearnerStates, Disks, Proposals,
     NoProposal, NoVotes

LEMMA FreshInstanceGood ==
    ASSUME NEW me \in Nodes, NEW disk \in Disks
    PROVE  GoodInstance(FreshInstance(me, disk))
  BY FreshTypes DEF FreshInstance, GoodInstance, Instances, HasValue, FreshProposer

LEMMA RestoredGood ==
    ASSUME NEW me \in Nodes, NEW disk \in Disks
    PROVE  GoodInstance(Restored(me, disk))
  BY FreshInstanceGood, FreshTypes
  DEF Restored, FreshInstance, GoodInstance, Instances, HasValue, Disks,
      AcceptorStates, FreshProposer

LEMMA HandlePrepareGood ==
    ASSUME NEW me \in Nodes, NEW s, GoodInstance(s),
           NEW m \in Messages, m.type = "Prepare"
    PROVE  GoodResult(HandlePrepare(me, s, m))
  BY DEF HandlePrepare, GoodResult, GoodInstance, HasValue, Instances, Answers,
         Messages, AcceptorStates, Disks, SavePromise, Proposals

LEMMA HandleAcceptGood ==
    ASSUME NEW me \in Nodes, NEW s, GoodInstance(s),
           NEW m \in Messages, m.type = "Accept"
    PROVE  GoodResult(HandleAccept(me, s, m))
  BY DEF HandleAccept, GoodResult, GoodInstance, HasValue, Instances, Answers,
         Messages, AcceptorStates, Disks, SaveAccept, SavePromise, Proposals

LEMMA NewPrepareGood ==
    ASSUME NEW me \in Nodes, NEW s \in Instances, NEW v \in Commands
    PROVE  GoodResult(NewPrepare(me, s, v))
  <1>1. s.proposer.ballot \in Nat
    BY DEF Instances, ProposerStates
  <1>2. NextBallot(s.proposer.ballot, me) \in Nat
    BY <1>1, NextBallotType
  <1> DEFINE b == NextBallot(s.proposer.ballot, me)
             p == [FreshProposer(me) EXCEPT !.state = "Proposal",
                                            !.ballot = b, !.value = v]
  <1>3. p \in ProposerStates /\ p.value \in Commands
    BY <1>2, FreshTypes DEF ProposerStates, FreshProposer
  <1> HIDE DEF p
  <1>4. [s EXCEPT !.proposer = p] \in Instances
    BY <1>3 DEF Instances
  <1>5. GoodInstance([s EXCEPT !.proposer = p])
    BY <1>3, <1>4 DEF GoodInstance, HasValue, Instances
  <1>6. [type |-> "Prepare", sender |-> me, ballot |-> b] \in Messages
    BY <1>2 DEF Messages
  <1> QED
    BY <1>5, <1>6 DEF GoodResult, NewPrepare, Answers, p

LEMMA NewAcceptGood ==
    ASSUME NEW me \in Nodes, NEW s \in Instances, NEW b \in Nat,
           NEW v \in Commands
    PROVE  GoodResult(NewAccept(me, s, b, v))
  <1> DEFINE p == [FreshProposer(me) EXCEPT !.state = "Accepting",
                                            !.ballot = b, !.value = v]
  <1>3. p \in ProposerStates /\ p.value \in Commands
    BY FreshTypes DEF ProposerStates, FreshProposer
  <1> HIDE DEF p
  <1>4. [s EXCEPT !.proposer = p] \in Instances
    BY <1>3 DEF Instances
  <1>5. GoodInstance([s EXCEPT !.proposer = p])
    BY <1>3, <1>4 DEF GoodInstance, HasValue, Instances
  <1>6. [type |-> "Accept", sender |-> me, ballot |-> b, command |-> v]
          \in Messages
    BY DEF Messages
  <1> QED
    BY <1>5, <1>6 DEF GoodResult, NewAccept, Answers, p

LEMMA HigherType ==
    ASSUME NEW best \in Proposals, NEW p \in Proposals
    PROVE  Higher(best, p) \in Proposals
  BY DEF Higher

LEMMA ValueToAcceptType ==
    ASSUME NEW best \in Proposals, NEW own \in Commands
    PROVE  ValueToAccept(best, own) \in Commands
  BY DEF ValueToAccept, Proposals

LEMMA IgnoredGood ==
    ASSUME NEW s, GoodInstance(s)
    PROVE  GoodResult(Ignored(s))
  BY DEF Ignored, GoodResult, Answers

LEMMA HandlePromiseGood ==
    ASSUME NEW me \in Nodes, NEW s, GoodInstance(s),
           NEW m \in Messages, m.type = "Promise"
    PROVE  GoodResult(HandlePromise(me, s, m))
  <1> DEFINE p == s.proposer
             best == Higher(p.best, m.max_accepted)
             promises == p.promises + 1
             mine == p.state = "Proposal" /\ m.ballot = p.ballot
  <1>1. s \in Instances /\ p \in ProposerStates
    BY DEF GoodInstance, Instances
  <1>2. promises \in Nat /\ p.ballot \in Nat
    BY <1>1 DEF ProposerStates
  <1>3. m.max_accepted \in Proposals
    BY DEF Messages
  <1>4. best \in Proposals
    BY <1>1, <1>3, HigherType DEF ProposerStates
  <1>5. CASE ~mine
    <2>1. HandlePromise(me, s, m) = Ignored(s)
      BY <1>5 DEF HandlePromise
    <2> QED BY <2>1, IgnoredGood
  <1>6. CASE mine /\ promises < Quorum
    <2> DEFINE t == [s EXCEPT !.proposer.promises = promises,
                              !.proposer.best = best]
    <2>1. HandlePromise(me, s, m) = [inst |-> t, resp |-> NoMessage]
      BY <1>6, <1>2, QuorumType DEF HandlePromise
    <2>2. GoodInstance(t)
      BY <1>1, <1>2, <1>4 DEF GoodInstance, HasValue, Instances, ProposerStates
    <2> QED BY <2>1, <2>2 DEF GoodResult, Answers
  <1>7. CASE mine /\ ~(promises < Quorum)
    <2>1. p.value \in Commands
      BY <1>7 DEF GoodInstance, HasValue
    <2>2. HandlePromise(me, s, m)
            = NewAccept(me, s, p.ballot, ValueToAccept(best, p.value))
      BY <1>7, <1>2, QuorumType DEF HandlePromise
    <2> QED BY <1>1, <1>2, <1>4, <2>1, <2>2, ValueToAcceptType, NewAcceptGood
  <1> QED BY <1>5, <1>6, <1>7

LEMMA HandleAckAcceptGood ==
    ASSUME NEW me \in Nodes, NEW s, GoodInstance(s),
           NEW m \in Messages, m.type = "AckAccept"
    PROVE  GoodResult(HandleAckAccept(me, s, m))
  <1> DEFINE p == s.proposer
             accepts == p.accepts + 1
             mine == p.state = "Accepting" /\ m.ballot = p.ballot
             q == [FreshProposer(me) EXCEPT !.state = "Learning",
                                            !.ballot = p.ballot]
  <1>1. s \in Instances /\ p \in ProposerStates
    BY DEF GoodInstance, Instances
  <1>2. accepts \in Nat /\ p.ballot \in Nat
    BY <1>1 DEF ProposerStates
  <1>3. CASE ~mine
    <2>1. HandleAckAccept(me, s, m) = Ignored(s)
      BY <1>3 DEF HandleAckAccept
    <2> QED BY <2>1, IgnoredGood
  <1>4. CASE mine /\ accepts < Quorum
    <2> DEFINE t == [s EXCEPT !.proposer.accepts = accepts]
    <2>1. HandleAckAccept(me, s, m) = [inst |-> t, resp |-> NoMessage]
      BY <1>4, <1>2, QuorumType DEF HandleAckAccept
    <2>2. GoodInstance(t)
      BY <1>1, <1>2 DEF GoodInstance, HasValue, Instances, ProposerStates
    <2> QED BY <2>1, <2>2 DEF GoodResult, Answers
  <1>5. CASE mine /\ ~(accepts < Quorum)
    <2> DEFINE learn == [type |-> "Learn", sender |-> me, ballot |-> p.ballot,
                         command |-> p.value]
    <2>1. HandleAckAccept(me, s, m) =
            [inst |-> [s EXCEPT !.proposer = q], resp |-> learn]
      BY <1>5, <1>2, QuorumType DEF HandleAckAccept
    <2>2. q \in ProposerStates /\ q.state = "Learning"
      BY <1>2, FreshTypes DEF ProposerStates, FreshProposer
    <2> HIDE DEF q
    <2>3. GoodInstance([s EXCEPT !.proposer = q])
      BY <1>1, <2>2 DEF GoodInstance, HasValue, Instances
    <2>4. learn \in Messages
      BY <1>5, <1>2 DEF Messages, GoodInstance, HasValue
    <2> QED BY <2>1, <2>3, <2>4 DEF GoodResult, Answers
  <1> QED BY <1>3, <1>4, <1>5

LEMMA HandleNackGood ==
    ASSUME NEW me \in Nodes, NEW s, GoodInstance(s), NEW m \in Messages,
           m.type \in {"NackPrepare", "NackAccept"}
    PROVE  GoodResult(HandleNack(me, s, m))
  <1> DEFINE p == s.proposer
             nacks == p.nacks + 1
             seen == IF m.max_ballot > p.ballot THEN m.max_ballot ELSE p.ballot
             t == [s EXCEPT !.proposer.nacks = nacks]
             u == [s EXCEPT !.proposer.ballot = seen]
  <1>1. s \in Instances /\ p \in ProposerStates
    BY DEF GoodInstance, Instances
  <1>2. m.max_ballot \in Nat
    BY DEF Messages
  <1>3. nacks \in Nat /\ p.ballot \in Nat /\ seen \in Nat
    BY <1>1, <1>2 DEF ProposerStates
  <1>4. N - Quorum \in Int
    BY NAssumption, QuorumType
  <1>5. CASE ~NackCounts(p, m)
    <2>1. HandleNack(me, s, m) = Ignored(s)
      BY <1>5 DEF HandleNack
    <2> QED BY <2>1, IgnoredGood
  <1>6. CASE NackCounts(p, m) /\ nacks <= N - Quorum
    <2>1. HandleNack(me, s, m) = [inst |-> t, resp |-> NoMessage]
      BY <1>6, <1>3, <1>4 DEF HandleNack
    <2>2. GoodInstance(t)
      BY <1>1, <1>3 DEF GoodInstance, HasValue, Instances, ProposerStates
    <2> QED BY <2>1, <2>2 DEF GoodResult, Answers
  <1>7. CASE NackCounts(p, m) /\ ~(nacks <= N - Quorum)
    <2>1. HandleNack(me, s, m) = NewPrepare(me, u, p.value)
      BY <1>7, <1>3, <1>4 DEF HandleNack
    <2>2. p.value \in Commands
      BY <1>7 DEF GoodInstance, HasValue, NackCounts
    <2>3. u \in Instances
      BY <1>1, <1>3 DEF Instances, ProposerStates
    <2> QED BY <2>1, <2>2, <2>3, NewPrepareGood
  <1> QED BY <1>5, <1>6, <1>7

LEMMA LearnedType ==
    ASSUME NEW l \in LearnerStates, NEW m \in Messages, m.type = "Learn"
    PROVE  Learned(l, m) \in LearnerStates
  <1> DEFINE at == AtBallot(l, m.ballot)
             votes == at.votes[m.command] + 1
  <1>1. m.ballot \in Nat /\ m.sender \in Nodes /\ m.command \in Commands
    BY DEF Messages
  <1>2. NoVotes \in [Commands -> Nat]
    BY DEF NoVotes
  <1>3. at \in LearnerStates
    BY <1>1, <1>2 DEF AtBallot, LearnerStates
  <1> HIDE DEF at
  <1>4. votes \in Nat
    BY <1>1, <1>3 DEF LearnerStates
  <1>5. [at EXCEPT !.voters = @ \cup {m.sender}, !.votes[m.command] = votes]
          \in LearnerStates
    BY <1>1, <1>3, <1>4 DEF LearnerStates
  <1>6. [at EXCEPT !.value = m.command, !.voters = {}, !.votes = NoVotes]
          \in LearnerStates
    BY <1>1, <1>2, <1>3 DEF LearnerStates
  <1> QED
    BY <1>3, <1>4, <1>5, <1>6, QuorumType DEF Learned, at

LEMMA HandleLearnGood ==
    ASSUME NEW me \in Nodes, NEW s, GoodInstance(s),
           NEW m \in Messages, m.type = "Learn"
    PROVE  GoodResult(HandleLearn(me, s, m))
  <1>1. s \in Instances /\ s.learner \in LearnerStates
    BY DEF GoodInstance, Instances
  <1>2. Learned(s.learner, m) \in LearnerStates
    BY <1>1, LearnedType
  <1>3. GoodInstance([s EXCEPT !.learner = Learned(s.learner, m)])
    BY <1>1, <1>2 DEF GoodInstance, HasValue, Instances
  <1>4. [m EXCEPT !.sender = me] \in Messages
    BY DEF Messages
  <1> QED
    BY <1>3, <1>4 DEF HandleLearn, GoodResult, Answers

LEMMA MessageTypes ==
    ASSUME NEW m \in Messages
    PROVE  m.type \in {"Prepare", "Promise", "Accept", "AckAccept",
                       "NackPrepare", "NackAccept", "Learn"}
  BY DEF Messages

\* handle_message of a well-formed instance and message is well-formed.
LEMMA HandleGood ==
    ASSUME NEW me \in Nodes, NEW s, GoodInstance(s), NEW m \in Messages
    PROVE  GoodResult(Handle(me, s, m))
  <1>1. CASE m.type = "Prepare"
    BY <1>1, HandlePrepareGood DEF Handle
  <1>2. CASE m.type = "Promise"
    BY <1>2, HandlePromiseGood DEF Handle
  <1>3. CASE m.type = "Accept"
    BY <1>3, HandleAcceptGood DEF Handle
  <1>4. CASE m.type = "AckAccept"
    BY <1>4, HandleAckAcceptGood DEF Handle
  <1>5. CASE m.type \in {"NackPrepare", "NackAccept"}
    BY <1>5, HandleNackGood DEF Handle
  <1>6. CASE m.type = "Learn"
    BY <1>6, HandleLearnGood DEF Handle
  <1> QED
    BY <1>1, <1>2, <1>3, <1>4, <1>5, <1>6, MessageTypes

-----------------------------------------------------------------------------
(* Self-delivery.                                                           *)

GoodChain(r) == GoodResult(r) /\ r.out \in Seq(Messages)

LEMMA EchoGood ==
    ASSUME NEW me \in Nodes, NEW r, GoodChain(r)
    PROVE  GoodChain(Echo(me, r))
  <1>1. CASE r.resp = NoMessage
    BY <1>1 DEF Echo
  <1>2. CASE r.resp # NoMessage
    <2>1. r.resp \in Messages /\ GoodInstance(r.inst) /\ r.out \in Seq(Messages)
      BY <1>2 DEF GoodChain, GoodResult, Answers
    <2>2. GoodResult(Handle(me, r.inst, r.resp))
      BY <2>1, HandleGood
    <2>3. Append(r.out, r.resp) \in Seq(Messages)
      BY <2>1
    <2> QED
      BY <1>2, <2>2, <2>3 DEF Echo, GoodChain, GoodResult
  <1> QED BY <1>1, <1>2

LEMMA SelfDeliverGood ==
    ASSUME NEW me \in Nodes, NEW r, GoodResult(r)
    PROVE  GoodChain(SelfDeliver(me, r))
  <1>1. GoodChain([inst |-> r.inst, resp |-> r.resp, out |-> << >>])
    BY DEF GoodChain, GoodResult
  <1> QED
    BY <1>1, EchoGood DEF SelfDeliver

LEMMA DeliverGood ==
    ASSUME NEW me \in Nodes, NEW s, GoodInstance(s), NEW m \in Messages
    PROVE  GoodChain(Deliver(me, s, m))
  BY HandleGood, SelfDeliverGood DEF Deliver

-----------------------------------------------------------------------------
(* Durability.  What the acceptor of a running node holds is what is on its  *)
(* disk, so that a restart brings it back.                                   *)

Durable(s) ==
    /\ s.acceptor.max_ballot = s.disk.ballot
    /\ s.acceptor.max_accepted.ballot = s.disk.accepted.ballot
    /\ s.acceptor.max_accepted.ballot <= s.acceptor.max_ballot

\* The acceptor of t has forgotten nothing the acceptor of s had taken on.
Keeps(s, t) ==
    /\ t.acceptor.max_ballot >= s.acceptor.max_ballot
    /\ t.acceptor.max_accepted.ballot >= s.acceptor.max_accepted.ballot

LEMMA BallotTypes ==
    ASSUME NEW s \in Instances
    PROVE  /\ s.acceptor.max_ballot \in Nat
           /\ s.acceptor.max_accepted.ballot \in Nat
           /\ s.disk.ballot \in Nat
           /\ s.disk.accepted.ballot \in Nat
  BY DEF Instances, AcceptorStates, Disks, Proposals, NoProposal

LEMMA KeepsReflexive ==
    ASSUME NEW s \in Instances
    PROVE  Keeps(s, s)
  BY BallotTypes DEF Keeps

LEMMA KeepsTransitive ==
    ASSUME NEW s \in Instances, NEW t \in Instances, NEW u \in Instances,
           Keeps(s, t), Keeps(t, u)
    PROVE  Keeps(s, u)
  <1>1. /\ s.acceptor.max_ballot \in Nat /\ t.acceptor.max_ballot \in Nat
        /\ u.acceptor.max_ballot \in Nat
        /\ s.acceptor.max_accepted.ballot \in Nat
        /\ t.acceptor.max_accepted.ballot \in Nat
        /\ u.acceptor.max_accepted.ballot \in Nat
    BY BallotTypes
  <1> QED BY <1>1 DEF Keeps

\* The handlers of the proposer and of the learner touch neither the acceptor
\* nor the disk.
LEMMA OthersKeep ==
    ASSUME NEW me \in Nodes, NEW s, GoodInstance(s), NEW m \in Messages,
           m.type \notin {"Prepare", "Accept"}
    PROVE  LET t == Handle(me, s, m).inst
           IN  t.acceptor = s.acceptor /\ t.disk = s.disk
  <1>1. s \in Instances /\ s.proposer \in ProposerStates
    BY DEF GoodInstance, Instances
  <1>2. s.proposer.promises + 1 \in Nat /\ s.proposer.accepts + 1 \in Nat
        /\ s.proposer.nacks + 1 \in Nat /\ N - Quorum \in Int
    BY <1>1, NAssumption, QuorumType DEF ProposerStates
  <1>3. CASE m.type = "Promise"
    <2>1. LET t == HandlePromise(me, s, m).inst
          IN  t.acceptor = s.acceptor /\ t.disk = s.disk
      BY <1>1, <1>2, QuorumType DEF HandlePromise, Ignored, NewAccept, Instances
    <2> QED BY <1>3, <2>1 DEF Handle
  <1>4. CASE m.type = "AckAccept"
    <2>1. LET t == HandleAckAccept(me, s, m).inst
          IN  t.acceptor = s.acceptor /\ t.disk = s.disk
      BY <1>1, <1>2, QuorumType DEF HandleAckAccept, Ignored, Instances
    <2> QED BY <1>4, <2>1 DEF Handle
  <1>5. CASE m.type \in {"NackPrepare", "NackAccept"}
    <2>1. LET t == HandleNack(me, s, m).inst
          IN  t.acceptor = s.acceptor /\ t.disk = s.disk
      BY <1>1, <1>2 DEF HandleNack, Ignored, NewPrepare, Instances
    <2> QED BY <1>5, <2>1 DEF Handle
  <1>6. CASE m.type = "Learn"
    BY <1>1, <1>6 DEF Handle, HandleLearn, Instances
  <1> QED BY <1>3, <1>4, <1>5, <1>6, MessageTypes

LEMMA PrepareKeeps ==
    ASSUME NEW me \in Nodes, NEW s \in Instances, Durable(s),
           NEW m \in Messages, m.type = "Prepare"
    PROVE  LET t == HandlePrepare(me, s, m).inst
           IN  Durable(t) /\ Keeps(s, t)
  <1>1. m.ballot \in Nat
    BY DEF Messages
  <1>2. CASE s.acceptor.max_ballot < m.ballot
    <2> DEFINE t == HandlePrepare(me, s, m).inst
    <2>1. /\ t.acceptor.max_ballot = m.ballot
          /\ t.acceptor.max_accepted = s.acceptor.max_accepted
          /\ t.disk.ballot = m.ballot
          /\ t.disk.accepted = s.disk.accepted
      BY <1>2 DEF HandlePrepare, SavePromise, Instances, AcceptorStates, Disks
    <2> HIDE DEF t
    <2>2. Durable(t) /\ Keeps(s, t)
      BY <1>1, <1>2, <2>1, BallotTypes DEF Durable, Keeps
    <2> QED BY <2>2 DEF t
  <1>3. CASE ~(s.acceptor.max_ballot < m.ballot)
    BY <1>3, KeepsReflexive DEF HandlePrepare
  <1> QED BY <1>2, <1>3

LEMMA AcceptKeeps ==
    ASSUME NEW me \in Nodes, NEW s \in Instances, Durable(s),
           NEW m \in Messages, m.type = "Accept"
    PROVE  LET t == HandleAccept(me, s, m).inst
           IN  Durable(t) /\ Keeps(s, t)
  <1>1. m.ballot \in Nat
    BY DEF Messages
  <1>2. CASE m.ballot >= s.acceptor.max_ballot
    <2> DEFINE t == HandleAccept(me, s, m).inst
    <2>1. /\ t.acceptor.max_ballot = m.ballot
          /\ t.acceptor.max_accepted.ballot = m.ballot
          /\ t.disk.ballot = m.ballot
          /\ t.disk.accepted.ballot = m.ballot
      BY <1>2
      DEF HandleAccept, SaveAccept, SavePromise, Instances, AcceptorStates, Disks
    <2> HIDE DEF t
    <2>2. Durable(t) /\ Keeps(s, t)
      BY <1>1, <1>2, <2>1, BallotTypes DEF Durable, Keeps
    <2> QED BY <2>2 DEF t
  <1>3. CASE ~(m.ballot >= s.acceptor.max_ballot)
    BY <1>3, KeepsReflexive DEF HandleAccept
  <1> QED BY <1>2, <1>3

\* handle_message keeps the disk in step with the acceptor, and the acceptor
\* only moves forward.
LEMMA HandleKeeps ==
    ASSUME NEW me \in Nodes, NEW s, GoodInstance(s), Durable(s),
           NEW m \in Messages
    PROVE  LET t == Handle(me, s, m).inst
           IN  Durable(t) /\ Keeps(s, t)
  <1>1. s \in Instances
    BY DEF GoodInstance
  <1>2. CASE m.type = "Prepare"
    BY <1>1, <1>2, PrepareKeeps DEF Handle
  <1>3. CASE m.type = "Accept"
    BY <1>1, <1>3, AcceptKeeps DEF Handle
  <1>4. CASE m.type \notin {"Prepare", "Accept"}
    BY <1>1, <1>4, OthersKeep, KeepsReflexive DEF Durable, Keeps
  <1> QED BY <1>2, <1>3, <1>4

\* A chain of self-deliveries that began at s.
ChainFrom(s, r) == GoodChain(r) /\ Durable(r.inst) /\ Keeps(s, r.inst)

LEMMA EchoKeeps ==
    ASSUME NEW me \in Nodes, NEW s \in Instances, NEW r, ChainFrom(s, r)
    PROVE  ChainFrom(s, Echo(me, r))
  <1>1. GoodChain(Echo(me, r)) /\ GoodInstance(r.inst) /\ r.inst \in Instances
    BY EchoGood DEF ChainFrom, GoodChain, GoodResult, GoodInstance
  <1>2. CASE r.resp = NoMessage
    BY <1>2 DEF Echo
  <1>3. CASE r.resp # NoMessage
    <2>1. r.resp \in Messages
      BY <1>3 DEF ChainFrom, GoodChain, GoodResult, Answers
    <2> DEFINE t == Handle(me, r.inst, r.resp).inst
    <2>2. Durable(t) /\ Keeps(r.inst, t) /\ t \in Instances
      BY <1>1, <2>1, HandleKeeps, HandleGood
      DEF ChainFrom, GoodResult, GoodInstance
    <2>3. Keeps(s, t)
      BY <1>1, <2>2, KeepsTransitive DEF ChainFrom
    <2>4. Echo(me, r).inst = t
      BY <1>3 DEF Echo
    <2> QED BY <1>1, <2>2, <2>3, <2>4 DEF ChainFrom
  <1> QED BY <1>2, <1>3

LEMMA SelfDeliverKeeps ==
    ASSUME NEW me \in Nodes, NEW s \in Instances, NEW r, GoodResult(r),
           Durable(r.inst), Keeps(s, r.inst)
    PROVE  ChainFrom(s, SelfDeliver(me, r))
  <1>1. ChainFrom(s, [inst |-> r.inst, resp |-> r.resp, out |-> << >>])
    BY DEF ChainFrom, GoodChain, GoodResult
  <1> QED
    BY <1>1, EchoKeeps DEF SelfDeliver

LEMMA DeliverKeeps ==
    ASSUME NEW me \in Nodes, NEW s, GoodInstance(s), Durable(s),
           NEW m \in Messages
    PROVE  ChainFrom(s, Deliver(me, s, m))
  BY HandleGood, HandleKeeps, SelfDeliverKeeps DEF Deliver, GoodInstance

LEMMA RestoredKeeps ==
    ASSUME NEW me \in Nodes, NEW s \in Instances, Durable(s), NEW disk \in Disks,
           disk.ballot >= s.disk.ballot,
           disk.accepted.ballot = s.disk.accepted.ballot
    PROVE  /\ Durable(Restored(me, disk)) /\ Keeps(s, Restored(me, disk))
           /\ Restored(me, disk).disk = disk
  <1>1. disk.ballot \in Nat /\ disk.accepted.ballot \in Nat
    BY DEF Disks, Proposals, NoProposal
  <1>2. Restored(me, disk).disk = disk
    BY DEF Restored, FreshInstance
  <1>3. CASE disk.ballot = 0
    <2>1. Restored(me, disk).acceptor = FreshAcceptor
      BY <1>3 DEF Restored, FreshInstance
    <2>2. s.acceptor.max_ballot = 0 /\ s.acceptor.max_accepted.ballot = 0
      BY <1>3, BallotTypes DEF Durable
    <2> QED
      BY <1>1, <1>2, <1>3, <2>1, <2>2
      DEF Durable, Keeps, FreshAcceptor, NoProposal
  <1>4. CASE disk.ballot # 0
    <2>1. Restored(me, disk).acceptor
            = [max_ballot |-> disk.ballot, max_accepted |-> disk.accepted]
      BY <1>4 DEF Restored, FreshInstance
    <2> QED
      BY <1>1, <1>2, <2>1, BallotTypes DEF Durable, Keeps
  <1> QED BY <1>3, <1>4

-----------------------------------------------------------------------------
(* Ballots.                                                                 *)

LEMMA OwnBallot ==
    ASSUME NEW me \in Nodes, NEW k \in Nat
    PROVE  Owner(k * N + me) = me
  BY NAssumption DEF Owner, Nodes

LEMMA FirstBallot ==
    ASSUME NEW me \in Nodes
    PROVE  Owner(me) = me
  BY NAssumption DEF Owner, Nodes

\* new_prepare goes to a ballot of the node's own, above the one it starts from.
LEMMA NextBallotOwn ==
    ASSUME NEW me \in Nodes, NEW b \in Nat
    PROVE  Owner(NextBallot(b, me)) = me
  <1>1. b \div N + 1 \in Nat
    BY NAssumption
  <1> QED BY <1>1, OwnBallot DEF NextBallot

LEMMA NextBallotAbove ==
    ASSUME NEW me \in Nodes, NEW b \in Nat
    PROVE  NextBallot(b, me) > b
  <1>1. b = (b \div N) * N + (b % N) /\ (b % N) \in 0 .. N - 1
    BY NAssumption
  <1>2. b \div N \in Nat
    BY NAssumption
  <1>3. (b \div N + 1) * N = (b \div N) * N + N
    BY <1>2, NAssumption
  <1>4. (b \div N) * N \in Nat
    BY <1>2, NAssumption
  <1> QED BY <1>1, <1>3, <1>4, NAssumption DEF NextBallot, Nodes

-----------------------------------------------------------------------------
(* What a node has asked for, and how its instance accounts for it.         *)

Active(s) == s.proposer.state \in {"Proposal", "Accepting"}

Asked(n, said) ==
    {m \in said : m.type \in {"Prepare", "Accept"} /\ m.sender = n}

Accounts(n, s, said) ==
    /\ Owner(s.proposer.ballot) = n
    /\ \A m \in Asked(n, said) :
          /\ Owner(m.ballot) = n
          /\ m.ballot <= s.acceptor.max_ballot
          /\ Active(s) => m.ballot <= s.proposer.ballot
          /\ (m.type = "Accept" /\ s.proposer.state = "Proposal") =>
                 m.ballot < s.proposer.ballot
    /\ \A m, k \in Asked(n, said) :
          (m.type = "Accept" /\ k.type = "Accept" /\ m.ballot = k.ballot) =>
              m = k

\* The answer a handler has given and the node has not yet handled itself.
Pending(n, s, resp, said) ==
    /\ resp # NoMessage => resp.sender = n
    /\ resp.type \in {"Prepare", "Accept"} => resp.ballot = s.proposer.ballot
    /\ resp.type = "Prepare" => s.proposer.state = "Proposal"
    /\ resp.type = "Accept" =>
          /\ s.proposer.state = "Accepting"
          /\ \A m \in Asked(n, said) :
                m.type = "Accept" => m.ballot < resp.ballot

\* From s to t the proposer went forward, or gave up.
Advances(s, t) ==
    /\ Active(t) => Active(s) /\ t.proposer.ballot >= s.proposer.ballot
    /\ (t.proposer.state = "Proposal" /\ t.proposer.ballot = s.proposer.ballot)
         => s.proposer.state = "Proposal"

LEMMA InstanceBallots ==
    ASSUME NEW s \in Instances
    PROVE  s.proposer.ballot \in Nat /\ s.acceptor.max_ballot \in Nat
  BY DEF Instances, ProposerStates, AcceptorStates

LEMMA AskedBallots ==
    ASSUME NEW n, NEW said, said \subseteq Messages, NEW m \in Asked(n, said)
    PROVE  m.ballot \in Nat /\ m \in said /\ m \in Messages
  BY DEF Asked, Messages

LEMMA AdvancesReflexive ==
    ASSUME NEW s \in Instances, NEW t, t.proposer = s.proposer
    PROVE  Advances(s, t)
  BY InstanceBallots DEF Advances, Active

LEMMA AdvancesTransitive ==
    ASSUME NEW s \in Instances, NEW t \in Instances, NEW u \in Instances,
           Advances(s, t), Advances(t, u)
    PROVE  Advances(s, u)
  <1>1. /\ s.proposer.ballot \in Nat /\ t.proposer.ballot \in Nat
        /\ u.proposer.ballot \in Nat
    BY InstanceBallots
  <1> QED BY <1>1 DEF Advances, Active

LEMMA AccountsKept ==
    ASSUME NEW n \in Nodes, NEW s \in Instances, NEW t \in Instances,
           NEW said, said \subseteq Messages,
           Accounts(n, s, said), Advances(s, t),
           Owner(t.proposer.ballot) = n,
           t.acceptor.max_ballot >= s.acceptor.max_ballot
    PROVE  Accounts(n, t, said)
  <1>1. /\ s.proposer.ballot \in Nat /\ t.proposer.ballot \in Nat
        /\ s.acceptor.max_ballot \in Nat /\ t.acceptor.max_ballot \in Nat
    BY InstanceBallots
  <1>2. ASSUME NEW m \in Asked(n, said)
        PROVE  /\ Owner(m.ballot) = n
               /\ m.ballot <= t.acceptor.max_ballot
               /\ Active(t) => m.ballot <= t.proposer.ballot
               /\ (m.type = "Accept" /\ t.proposer.state = "Proposal") =>
                      m.ballot < t.proposer.ballot
    <2>1. m.ballot \in Nat
      BY AskedBallots
    <2>2. /\ Owner(m.ballot) = n
          /\ m.ballot <= s.acceptor.max_ballot
          /\ Active(s) => m.ballot <= s.proposer.ballot
          /\ (m.type = "Accept" /\ s.proposer.state = "Proposal") =>
                 m.ballot < s.proposer.ballot
      BY DEF Accounts
    <2> QED BY <1>1, <2>1, <2>2 DEF Advances, Active
  <1> QED BY <1>2 DEF Accounts

-----------------------------------------------------------------------------
(* The handlers.                                                            *)

\* One handler's step, and its answer.
GoesOn(n, s, h, said) ==
    /\ Owner(h.inst.proposer.ballot) = n
    /\ Advances(s, h.inst)
    /\ Pending(n, h.inst, h.resp, said)

LEMMA ProposerUntouched ==
    ASSUME NEW n \in Nodes, NEW s \in Instances, NEW h, NEW said,
           Owner(s.proposer.ballot) = n,
           h.inst.proposer = s.proposer,
           h.resp # NoMessage => h.resp.sender = n,
           h.resp.type \notin {"Prepare", "Accept"}
    PROVE  GoesOn(n, s, h, said)
  BY AdvancesReflexive DEF GoesOn, Pending

LEMMA NewPrepareGoesOn ==
    ASSUME NEW n \in Nodes, NEW s \in Instances, NEW v, NEW said
    PROVE  LET h == NewPrepare(n, s, v)
           IN  /\ Owner(h.inst.proposer.ballot) = n
               /\ h.inst.proposer.ballot \in Nat
               /\ h.inst.proposer.ballot > s.proposer.ballot
               /\ h.inst.proposer.state = "Proposal"
               /\ Pending(n, h.inst, h.resp, said)
  <1> DEFINE b == NextBallot(s.proposer.ballot, n)
             h == NewPrepare(n, s, v)
  <1>1. b > s.proposer.ballot /\ Owner(b) = n /\ b \in Nat
    BY InstanceBallots, NextBallotOwn, NextBallotAbove, NextBallotType
  <1>2. h.inst.proposer.ballot = b /\ h.inst.proposer.state = "Proposal"
    BY DEF NewPrepare, FreshProposer, Instances
  <1>3. h.resp = [type |-> "Prepare", sender |-> n, ballot |-> b]
    BY DEF NewPrepare
  <1> QED BY <1>1, <1>2, <1>3 DEF Pending

LEMMA PromiseGoesOn ==
    ASSUME NEW n \in Nodes, NEW s, GoodInstance(s), NEW said,
           Accounts(n, s, said), NEW m \in Messages, m.type = "Promise"
    PROVE  GoesOn(n, s, HandlePromise(n, s, m), said)
  <1> DEFINE p == s.proposer
             best == Higher(p.best, m.max_accepted)
             promises == p.promises + 1
             h == HandlePromise(n, s, m)
  <1>1. s \in Instances /\ p \in ProposerStates /\ Owner(p.ballot) = n
    BY DEF GoodInstance, Instances, Accounts
  <1>2. promises \in Nat /\ p.ballot \in Nat
    BY <1>1 DEF ProposerStates
  <1>3. CASE p.state # "Proposal" \/ m.ballot # p.ballot
    <2>1. h = [inst |-> s, resp |-> NoMessage]
      BY <1>3 DEF HandlePromise, Ignored
    <2> QED BY <1>1, <2>1, ProposerUntouched DEF NoMessage
  <1>4. CASE p.state = "Proposal" /\ m.ballot = p.ballot /\ promises < Quorum
    <2> DEFINE t == [s EXCEPT !.proposer.promises = promises,
                              !.proposer.best = best]
    <2>1. h = [inst |-> t, resp |-> NoMessage]
      BY <1>2, <1>4, QuorumType DEF HandlePromise
    <2>2. t.proposer.state = p.state /\ t.proposer.ballot = p.ballot
      BY <1>1 DEF Instances, ProposerStates
    <2> HIDE DEF t
    <2> QED
      BY <1>1, <1>2, <2>1, <2>2
      DEF GoesOn, Pending, Advances, Active, NoMessage
  <1>5. CASE p.state = "Proposal" /\ m.ballot = p.ballot /\ promises >= Quorum
    <2> DEFINE v == ValueToAccept(best, p.value)
    <2> DEFINE q == [FreshProposer(n) EXCEPT !.state = "Accepting",
                                             !.ballot = p.ballot,
                                             !.value = v]
    <2>1. h = [inst |-> [s EXCEPT !.proposer = q],
               resp |-> [type |-> "Accept", sender |-> n, ballot |-> p.ballot,
                         command |-> v]]
      BY <1>2, <1>5, QuorumType DEF HandlePromise, NewAccept
    <2>0. q.state = "Accepting" /\ q.ballot = p.ballot
      BY DEF FreshProposer
    <2> HIDE DEF q, v, h
    <2>2. h.inst.proposer.state = "Accepting" /\ h.inst.proposer.ballot = p.ballot
      BY <1>1, <2>1, <2>0 DEF Instances
    <2>3. h.resp = [type |-> "Accept", sender |-> n, ballot |-> p.ballot,
                    command |-> v]
      BY <2>1
    <2>4. \A k \in Asked(n, said) : k.type = "Accept" => k.ballot < p.ballot
      BY <1>5 DEF Accounts
    <2>5. Pending(n, h.inst, h.resp, said)
      BY <2>2, <2>3, <2>4 DEF Pending
    <2>6. Advances(s, h.inst)
      BY <1>2, <1>5, <2>2 DEF Advances, Active
    <2> QED BY <1>1, <2>2, <2>5, <2>6 DEF GoesOn, h
  <1> QED BY <1>2, <1>3, <1>4, <1>5, QuorumType

LEMMA AckAcceptGoesOn ==
    ASSUME NEW n \in Nodes, NEW s, GoodInstance(s), NEW said,
           Accounts(n, s, said), NEW m \in Messages, m.type = "AckAccept"
    PROVE  GoesOn(n, s, HandleAckAccept(n, s, m), said)
  <1> DEFINE p == s.proposer
             accepts == p.accepts + 1
             h == HandleAckAccept(n, s, m)
  <1>1. s \in Instances /\ p \in ProposerStates /\ Owner(p.ballot) = n
    BY DEF GoodInstance, Instances, Accounts
  <1>2. accepts \in Nat /\ p.ballot \in Nat
    BY <1>1 DEF ProposerStates
  <1>3. CASE p.state # "Accepting" \/ m.ballot # p.ballot
    <2>1. h = [inst |-> s, resp |-> NoMessage]
      BY <1>3 DEF HandleAckAccept, Ignored
    <2> QED BY <1>1, <2>1, ProposerUntouched DEF NoMessage
  <1>4. CASE p.state = "Accepting" /\ m.ballot = p.ballot /\ accepts < Quorum
    <2> DEFINE t == [s EXCEPT !.proposer.accepts = accepts]
    <2>1. h = [inst |-> t, resp |-> NoMessage]
      BY <1>2, <1>4, QuorumType DEF HandleAckAccept
    <2>2. t.proposer.state = p.state /\ t.proposer.ballot = p.ballot
      BY <1>1 DEF Instances, ProposerStates
    <2> HIDE DEF t
    <2> QED
      BY <1>1, <1>2, <2>1, <2>2
      DEF GoesOn, Pending, Advances, Active, NoMessage
  <1>5. CASE p.state = "Accepting" /\ m.ballot = p.ballot /\ accepts >= Quorum
    <2> DEFINE q == [FreshProposer(n) EXCEPT !.state = "Learning",
                                             !.ballot = p.ballot]
    <2>1. h = [inst |-> [s EXCEPT !.proposer = q],
               resp |-> [type |-> "Learn", sender |-> n, ballot |-> p.ballot,
                         command |-> p.value]]
      BY <1>2, <1>5, QuorumType DEF HandleAckAccept
    <2>2. q.state = "Learning" /\ q.ballot = p.ballot
      BY DEF FreshProposer
    <2> HIDE DEF q, h
    <2>3. h.inst.proposer.state = "Learning" /\ h.inst.proposer.ballot = p.ballot
      BY <1>1, <2>1, <2>2 DEF Instances
    <2> QED
      BY <1>1, <2>1, <2>3 DEF GoesOn, Pending, Advances, Active, h
  <1> QED BY <1>2, <1>3, <1>4, <1>5, QuorumType

LEMMA NackGoesOn ==
    ASSUME NEW n \in Nodes, NEW s, GoodInstance(s), NEW said,
           Accounts(n, s, said),
           NEW m \in Messages, m.type \in {"NackPrepare", "NackAccept"}
    PROVE  GoesOn(n, s, HandleNack(n, s, m), said)
  <1> DEFINE p == s.proposer
             nacks == p.nacks + 1
             seen == IF m.max_ballot > p.ballot THEN m.max_ballot ELSE p.ballot
             u == [s EXCEPT !.proposer.ballot = seen]
             h == HandleNack(n, s, m)
  <1>1. s \in Instances /\ p \in ProposerStates /\ Owner(p.ballot) = n
    BY DEF GoodInstance, Instances, Accounts
  <1>2. nacks \in Nat /\ p.ballot \in Nat /\ m.max_ballot \in Nat
        /\ N - Quorum \in Int
    BY <1>1, NAssumption, QuorumType DEF ProposerStates, Messages
  <1>3. seen \in Nat /\ seen >= p.ballot
    BY <1>2
  <1>4. CASE ~NackCounts(p, m)
    <2>1. h = [inst |-> s, resp |-> NoMessage]
      BY <1>4 DEF HandleNack, Ignored
    <2> QED BY <1>1, <2>1, ProposerUntouched DEF NoMessage
  <1>5. CASE NackCounts(p, m) /\ nacks <= N - Quorum
    <2> DEFINE t == [s EXCEPT !.proposer.nacks = nacks]
    <2>1. h = [inst |-> t, resp |-> NoMessage]
      BY <1>2, <1>5 DEF HandleNack
    <2>2. t.proposer.state = p.state /\ t.proposer.ballot = p.ballot
      BY <1>1 DEF Instances, ProposerStates
    <2> HIDE DEF t
    <2> QED
      BY <1>1, <1>2, <2>1, <2>2
      DEF GoesOn, Pending, Advances, Active, NoMessage
  <1>6. CASE NackCounts(p, m) /\ ~(nacks <= N - Quorum)
    <2>1. h = NewPrepare(n, u, p.value)
      BY <1>2, <1>6 DEF HandleNack
    <2>2. u \in Instances /\ u.proposer.ballot = seen
      BY <1>1, <1>3 DEF Instances, ProposerStates
    <2>3. Active(s)
      BY <1>6 DEF NackCounts, Active
    <2> HIDE DEF u
    <2>4. /\ Owner(h.inst.proposer.ballot) = n
          /\ h.inst.proposer.ballot \in Nat
          /\ h.inst.proposer.ballot > seen
          /\ h.inst.proposer.state = "Proposal"
          /\ Pending(n, h.inst, h.resp, said)
      BY <2>1, <2>2, NewPrepareGoesOn
    <2> HIDE DEF h
    <2>5. Advances(s, h.inst)
      BY <1>2, <1>3, <2>3, <2>4 DEF Advances
    <2> QED BY <2>4, <2>5 DEF GoesOn, h
  <1> QED BY <1>4, <1>5, <1>6

LEMMA HandleGoesOn ==
    ASSUME NEW n \in Nodes, NEW s, GoodInstance(s), NEW said,
           Accounts(n, s, said), NEW m \in Messages
    PROVE  GoesOn(n, s, Handle(n, s, m), said)
  <1>1. s \in Instances /\ Owner(s.proposer.ballot) = n
    BY DEF GoodInstance, Accounts
  <1>2. CASE m.type = "Prepare"
    <2> DEFINE h == HandlePrepare(n, s, m)
    <2>1. /\ h.inst.proposer = s.proposer
          /\ h.resp # NoMessage => h.resp.sender = n
          /\ h.resp.type \notin {"Prepare", "Accept"}
      BY <1>1 DEF HandlePrepare, Instances
    <2> QED BY <1>1, <1>2, <2>1, ProposerUntouched DEF Handle
  <1>3. CASE m.type = "Accept"
    <2> DEFINE h == HandleAccept(n, s, m)
    <2>1. /\ h.inst.proposer = s.proposer
          /\ h.resp # NoMessage => h.resp.sender = n
          /\ h.resp.type \notin {"Prepare", "Accept"}
      BY <1>1 DEF HandleAccept, Instances
    <2> QED BY <1>1, <1>3, <2>1, ProposerUntouched DEF Handle
  <1>4. CASE m.type = "Learn"
    <2> DEFINE h == HandleLearn(n, s, m)
    <2>1. h.inst.proposer = s.proposer
      BY <1>1 DEF HandleLearn, Instances
    <2>2. h.resp # NoMessage => h.resp = [m EXCEPT !.sender = n]
      BY DEF HandleLearn
    <2>3. h.resp # NoMessage => h.resp.sender = n /\ h.resp.type = "Learn"
      BY <1>4, <2>2 DEF Messages
    <2>4. h.resp.type \notin {"Prepare", "Accept"}
      BY <2>3 DEF NoMessage
    <2> QED BY <1>1, <1>4, <2>1, <2>3, <2>4, ProposerUntouched DEF Handle
  <1>5. CASE m.type = "Promise"
    BY <1>5, PromiseGoesOn DEF Handle
  <1>6. CASE m.type = "AckAccept"
    BY <1>6, AckAcceptGoesOn DEF Handle
  <1>7. CASE m.type \in {"NackPrepare", "NackAccept"}
    BY <1>7, NackGoesOn DEF Handle
  <1> QED BY <1>2, <1>3, <1>4, <1>5, <1>6, <1>7, MessageTypes

-----------------------------------------------------------------------------
(* Self-delivery: a request is said only when the node's own acceptor has   *)
(* answered it.                                                             *)

Spoken(out) == {out[i] : i \in DOMAIN out}

LEMMA SaidAppend ==
    ASSUME NEW out \in Seq(Messages), NEW m \in Messages
    PROVE  Spoken(Append(out, m)) = Spoken(out) \cup {m}
  <1> DEFINE more == Append(out, m)
  <1>1. /\ DOMAIN out = 1 .. Len(out) /\ Len(out) \in Nat
        /\ DOMAIN more = 1 .. Len(out) + 1
        /\ more[Len(out) + 1] = m
        /\ \A i \in 1 .. Len(out) : more[i] = out[i]
    OBVIOUS
  <1> HIDE DEF more
  <1>2. 1 .. Len(out) + 1 = (1 .. Len(out)) \cup {Len(out) + 1}
    BY <1>1
  <1>3. Spoken(more) = Spoken(out) \cup {m}
    BY <1>1, <1>2 DEF Spoken
  <1> QED BY <1>3 DEF more

LEMMA SaidMessages ==
    ASSUME NEW out \in Seq(Messages)
    PROVE  Spoken(out) \subseteq Messages
  BY DEF Spoken

\* An answer of the node to itself that asks nothing of the acceptors.
LEMMA NothingAsked ==
    ASSUME NEW n \in Nodes, NEW s, NEW resp, NEW said, NEW m,
           Accounts(n, s, said), Pending(n, s, resp, said),
           m.type \notin {"Prepare", "Accept"}
    PROVE  Accounts(n, s, said \cup {m}) /\ Pending(n, s, resp, said \cup {m})
  <1>1. Asked(n, said \cup {m}) = Asked(n, said)
    BY DEF Asked
  <1> QED BY <1>1 DEF Accounts, Pending

\* A request: t is the instance when the node's own acceptor has answered it.
LEMMA RequestAsked ==
    ASSUME NEW n \in Nodes, NEW t \in Instances, NEW said,
           NEW m \in Messages, m.type \in {"Prepare", "Accept"},
           Accounts(n, t, said), Pending(n, t, m, said),
           m.ballot <= t.acceptor.max_ballot
    PROVE  Accounts(n, t, said \cup {m})
  <1>1. Asked(n, said \cup {m}) \subseteq Asked(n, said) \cup {m}
    BY DEF Asked
  <1>2. /\ Owner(t.proposer.ballot) = n
        /\ m.ballot = t.proposer.ballot /\ m.ballot \in Nat
    BY InstanceBallots DEF Accounts, Pending
  <1>3. (m.type = "Accept" /\ t.proposer.state = "Proposal") =>
            m.ballot < t.proposer.ballot
    BY DEF Pending
  <1>4. ASSUME NEW k \in Asked(n, said), m.type = "Accept", k.type = "Accept",
               k.ballot = m.ballot
        PROVE  FALSE
    BY <1>2, <1>4 DEF Pending
  <1>5. /\ Owner(m.ballot) = n
        /\ m.ballot <= t.acceptor.max_ballot
        /\ Active(t) => m.ballot <= t.proposer.ballot
        /\ (m.type = "Accept" /\ t.proposer.state = "Proposal") =>
               m.ballot < t.proposer.ballot
    BY <1>2, <1>3
  <1>6. \A k \in Asked(n, said) :
            /\ Owner(k.ballot) = n
            /\ k.ballot <= t.acceptor.max_ballot
            /\ Active(t) => k.ballot <= t.proposer.ballot
            /\ (k.type = "Accept" /\ t.proposer.state = "Proposal") =>
                   k.ballot < t.proposer.ballot
    BY DEF Accounts
  <1>7. \A k, l \in Asked(n, said \cup {m}) :
          (k.type = "Accept" /\ l.type = "Accept" /\ k.ballot = l.ballot) =>
              k = l
    BY <1>1, <1>4 DEF Accounts
  <1> QED BY <1>1, <1>2, <1>5, <1>6, <1>7 DEF Accounts

\* The acceptor of the node answers a request of its own at once, and holds the
\* ballot of the request whatever it answers.
LEMMA RequestAnswered ==
    ASSUME NEW n \in Nodes, NEW s \in Instances, NEW m \in Messages,
           m.type \in {"Prepare", "Accept"}
    PROVE  LET h == Handle(n, s, m)
           IN  /\ h.inst.proposer = s.proposer
               /\ h.inst.acceptor.max_ballot >= m.ballot
               /\ h.resp.sender = n
               /\ h.resp.type \notin {"Prepare", "Accept"}
  <1>1. m.ballot \in Nat /\ s.acceptor.max_ballot \in Nat
    BY InstanceBallots DEF Messages
  <1>2. CASE m.type = "Prepare"
    <2> DEFINE h == HandlePrepare(n, s, m)
    <2>1. h.inst.proposer = s.proposer /\ h.resp.sender = n
          /\ h.resp.type \notin {"Prepare", "Accept"}
      BY DEF HandlePrepare, Instances
    <2>2. h.inst.acceptor.max_ballot >= m.ballot
      BY <1>1 DEF HandlePrepare, Instances, AcceptorStates
    <2> QED BY <1>2, <2>1, <2>2 DEF Handle
  <1>3. CASE m.type = "Accept"
    <2> DEFINE h == HandleAccept(n, s, m)
    <2>1. h.inst.proposer = s.proposer /\ h.resp.sender = n
          /\ h.resp.type \notin {"Prepare", "Accept"}
      BY DEF HandleAccept, Instances
    <2>2. h.inst.acceptor.max_ballot >= m.ballot
      BY <1>1 DEF HandleAccept, Instances, AcceptorStates
    <2> QED BY <1>3, <2>1, <2>2 DEF Handle
  <1> QED BY <1>2, <1>3

\* A chain of self-deliveries that began at s, of a node that had said `before`.
Speaks(n, s, before, r) ==
    /\ ChainFrom(s, r)
    /\ Advances(s, r.inst)
    /\ Accounts(n, r.inst, before \cup Spoken(r.out))
    /\ Pending(n, r.inst, r.resp, before \cup Spoken(r.out))
    /\ \A m \in Spoken(r.out) : m.sender = n

LEMMA EchoSpeaks ==
    ASSUME NEW n \in Nodes, NEW s \in Instances,
           NEW before, before \subseteq Messages,
           NEW r, Speaks(n, s, before, r)
    PROVE  Speaks(n, s, before, Echo(n, r))
  <1> DEFINE said == before \cup Spoken(r.out)
             m == r.resp
             h == Handle(n, r.inst, m)
             e == Echo(n, r)
  <1>1. CASE m = NoMessage
    BY <1>1 DEF Echo
  <1>2. CASE m # NoMessage
    <2>1. /\ m \in Messages /\ r.out \in Seq(Messages)
          /\ GoodInstance(r.inst) /\ r.inst \in Instances /\ Durable(r.inst)
      BY <1>2
      DEF Speaks, ChainFrom, GoodChain, GoodResult, GoodInstance, Answers
    <2>2. /\ Accounts(n, r.inst, said) /\ Pending(n, r.inst, m, said)
          /\ m.sender = n
      BY <1>2 DEF Speaks, Pending
    <2>3. said \subseteq Messages
      BY <2>1, SaidMessages
    <2>4. e.inst = h.inst /\ e.resp = h.resp /\ e.out = Append(r.out, m)
      BY <1>2 DEF Echo
    <2>5. Spoken(e.out) = Spoken(r.out) \cup {m}
      BY <2>1, <2>4, SaidAppend
    <2> HIDE DEF said, h, e
    <2>6. ChainFrom(s, e)
      BY EchoKeeps DEF Speaks, e
    <2>7. h.inst \in Instances /\ Keeps(r.inst, h.inst)
      BY <2>1, HandleGood, HandleKeeps DEF h, GoodResult, GoodInstance
    <2>8. GoesOn(n, r.inst, h, said)
      BY <2>1, <2>2, HandleGoesOn DEF h
    <2>9. Advances(s, h.inst)
      BY <2>1, <2>7, <2>8, AdvancesTransitive DEF GoesOn, Speaks
    <2>10. Accounts(n, h.inst, said) /\ Pending(n, h.inst, h.resp, said)
      BY <2>1, <2>2, <2>3, <2>7, <2>8, AccountsKept DEF GoesOn, Keeps
    <2>11. Accounts(n, h.inst, said \cup {m})
           /\ Pending(n, h.inst, h.resp, said \cup {m})
      <3>1. CASE m.type \notin {"Prepare", "Accept"}
        BY <2>10, <3>1, NothingAsked
      <3>2. CASE m.type \in {"Prepare", "Accept"}
        <4>1. /\ h.inst.proposer = r.inst.proposer
              /\ h.inst.acceptor.max_ballot >= m.ballot
              /\ h.resp.sender = n
              /\ h.resp.type \notin {"Prepare", "Accept"}
          BY <2>1, <3>2, RequestAnswered DEF h
        <4>2. Pending(n, h.inst, m, said)
          BY <2>2, <4>1 DEF Pending
        <4>3. m.ballot <= h.inst.acceptor.max_ballot
          BY <2>1, <2>7, <3>2, <4>1, InstanceBallots DEF Messages
        <4>4. Accounts(n, h.inst, said \cup {m})
          BY <2>1, <2>7, <2>10, <3>2, <4>2, <4>3, RequestAsked
        <4>5. Pending(n, h.inst, h.resp, said \cup {m})
          BY <4>1 DEF Pending
        <4> QED BY <4>4, <4>5
      <3> QED BY <3>1, <3>2
    <2>12. before \cup Spoken(e.out) = said \cup {m}
      BY <2>5 DEF said
    <2>13. \A k \in Spoken(e.out) : k.sender = n
      BY <2>2, <2>5 DEF Speaks
    <2>14. Speaks(n, s, before, e)
      BY <2>4, <2>6, <2>9, <2>11, <2>12, <2>13 DEF Speaks
    <2> QED BY <2>14 DEF e
  <1> QED BY <1>1, <1>2

\* The chain before its first link.
Opening(r) == [inst |-> r.inst, resp |-> r.resp, out |-> << >>]

LEMMA OpeningSpeaks ==
    ASSUME NEW n \in Nodes, NEW s \in Instances,
           NEW before, before \subseteq Messages, NEW r, GoodResult(r),
           Durable(r.inst), Keeps(s, r.inst), Advances(s, r.inst),
           Accounts(n, r.inst, before), Pending(n, r.inst, r.resp, before)
    PROVE  Speaks(n, s, before, Opening(r))
  <1> DEFINE first == Opening(r)
  <1>1. Spoken(first.out) = {}
    BY DEF Spoken, Opening
  <1>2. before \cup Spoken(first.out) = before
    BY <1>1
  <1>3. ChainFrom(s, first)
    BY DEF ChainFrom, GoodChain, GoodResult, Opening
  <1> QED BY <1>1, <1>2, <1>3 DEF Speaks, Opening

LEMMA SelfDeliverSpeaks ==
    ASSUME NEW n \in Nodes, NEW s \in Instances,
           NEW before, before \subseteq Messages,
           NEW r, Speaks(n, s, before, Opening(r))
    PROVE  Speaks(n, s, before, SelfDeliver(n, r))
  <1> DEFINE first == Opening(r)
  <1>1. Speaks(n, s, before, first)
    OBVIOUS
  <1> HIDE DEF first
  <1>2. Speaks(n, s, before, Echo(n, Echo(n, Echo(n, Echo(n, Echo(n, first))))))
    BY <1>1, EchoSpeaks
  <1> QED BY <1>2 DEF SelfDeliver, Opening, first

LEMMA HandleOpens ==
    ASSUME NEW n \in Nodes, NEW s, GoodInstance(s), Durable(s),
           NEW before, before \subseteq Messages, Accounts(n, s, before),
           NEW m \in Messages
    PROVE  Speaks(n, s, before, Opening(Handle(n, s, m)))
  <1> DEFINE r == Handle(n, s, m)
  <1>1. s \in Instances /\ GoodResult(r) /\ r.inst \in Instances
    BY HandleGood DEF GoodInstance, GoodResult
  <1>2. Durable(r.inst) /\ Keeps(s, r.inst)
    BY HandleKeeps
  <1>3. GoesOn(n, s, r, before)
    BY HandleGoesOn
  <1> HIDE DEF r
  <1>4. Accounts(n, r.inst, before)
    BY <1>1, <1>2, <1>3, AccountsKept DEF GoesOn, Keeps
  <1>5. Speaks(n, s, before, Opening(r))
    BY <1>1, <1>2, <1>3, <1>4, OpeningSpeaks DEF GoesOn
  <1> QED BY <1>5 DEF r

LEMMA DeliverSpeaks ==
    ASSUME NEW n \in Nodes, NEW s, GoodInstance(s), Durable(s),
           NEW before, before \subseteq Messages, Accounts(n, s, before),
           NEW m \in Messages
    PROVE  Speaks(n, s, before, Deliver(n, s, m))
  BY HandleOpens, SelfDeliverSpeaks DEF Deliver, GoodInstance

-----------------------------------------------------------------------------
(* The end of a chain of answers to oneself.  The longest chain: a promise  *)
(* that completes a quorum sets off an Accept, the node's own acceptor      *)
(* refuses it, the refusal sets off a Prepare, and that is promised, since  *)
(* its ballot is above the one refused for; one promise is less than a      *)
(* quorum, so nothing follows.                                              *)
(*                                                                          *)
(* EndsK: the chain of answers that starts with r.resp has at most K of     *)
(* them, counting r.resp.                                                   *)

Ends0(me, r) == r.resp = NoMessage
Ends1(me, r) == Ends0(me, Echo(me, r))
Ends2(me, r) == Ends1(me, Echo(me, r))
Ends3(me, r) == Ends2(me, Echo(me, r))
Ends4(me, r) == Ends3(me, Echo(me, r))
Ends5(me, r) == Ends4(me, Echo(me, r))

\* A chain that has ended stays ended.
LEMMA EndsStay ==
    ASSUME NEW me, NEW r, Ends0(me, r)
    PROVE  Ends1(me, r) /\ Ends2(me, r) /\ Ends3(me, r) /\ Ends4(me, r)
           /\ Ends5(me, r)
  <1>1. Echo(me, r) = r
    BY DEF Ends0, Echo
  <1> QED BY <1>1 DEF Ends0, Ends1, Ends2, Ends3, Ends4, Ends5

LEMMA EndsSooner ==
    ASSUME NEW me, NEW r
    PROVE  /\ Ends1(me, r) => Ends2(me, r)
           /\ Ends2(me, r) => Ends3(me, r)
           /\ Ends3(me, r) => Ends4(me, r)
           /\ Ends4(me, r) => Ends5(me, r)
  <1> DEFINE r1 == Echo(me, r)
             r2 == Echo(me, r1)
             r3 == Echo(me, r2)
             r4 == Echo(me, r3)
  <1>1. Ends1(me, r) => Ends2(me, r)
    BY EndsStay DEF Ends1, Ends2
  <1>2. Ends1(me, r1) => Ends2(me, r1)
    BY EndsStay DEF Ends1, Ends2
  <1>3. Ends1(me, r2) => Ends2(me, r2)
    BY EndsStay DEF Ends1, Ends2
  <1>4. Ends1(me, r3) => Ends2(me, r3)
    BY EndsStay DEF Ends1, Ends2
  <1> QED BY <1>1, <1>2, <1>3, <1>4 DEF Ends2, Ends3, Ends4, Ends5

-----------------------------------------------------------------------------
(* One lemma for each kind of answer a node gives itself.                   *)

\* What an answer that is handled by its own node becomes.
Answering(r) == GoodInstance(r.inst) /\ r.resp \in Messages

LEMMA EchoHandles ==
    ASSUME NEW me \in Nodes, NEW r, Answering(r)
    PROVE  /\ Echo(me, r).inst = Handle(me, r.inst, r.resp).inst
           /\ Echo(me, r).resp = Handle(me, r.inst, r.resp).resp
           /\ GoodInstance(Echo(me, r).inst)
           /\ Echo(me, r).resp \in Answers
  <1>1. r.resp # NoMessage
    BY MessageTypes DEF Answering, NoMessage
  <1>2. GoodResult(Handle(me, r.inst, r.resp))
    BY HandleGood DEF Answering
  <1> QED BY <1>1, <1>2 DEF Echo, GoodResult

\* A node does not repeat its own Learn.
LEMMA LearnEnds ==
    ASSUME NEW me \in Nodes, NEW r, Answering(r),
           r.resp.type = "Learn", r.resp.sender = me
    PROVE  Ends1(me, r)
  BY EchoHandles DEF Ends1, Ends0, Handle, HandleLearn

LEMMA AckAcceptEnds ==
    ASSUME NEW me \in Nodes, NEW r, Answering(r), r.resp.type = "AckAccept"
    PROVE  Ends2(me, r)
  <1> DEFINE h == Echo(me, r)
  <1>1. Answering(h) \/ h.resp = NoMessage
    BY EchoHandles DEF Answering, Answers
  <1>2. h.resp = HandleAckAccept(me, r.inst, r.resp).resp
    BY EchoHandles DEF Handle
  <1>3. h.resp = NoMessage \/ (h.resp.type = "Learn" /\ h.resp.sender = me)
    <2> DEFINE p == r.inst.proposer
    <2>1. p.accepts \in Nat /\ p.ballot \in Nat
      BY DEF Answering, GoodInstance, Instances, ProposerStates
    <2> QED BY <1>2, <2>1, QuorumType DEF HandleAckAccept, Ignored
  <1>4. Ends1(me, h)
    BY <1>1, <1>3, LearnEnds, EndsStay DEF Ends0
  <1> QED BY <1>4 DEF Ends2

\* A proposer that has just prepared: with its own promise it has one.
Preparing(s) == s.proposer.promises = 0

LEMMA PromiseOfOneEnds ==
    ASSUME NEW me \in Nodes, NEW r, Answering(r), r.resp.type = "Promise",
           Preparing(r.inst)
    PROVE  Ends1(me, r)
  <1> DEFINE p == r.inst.proposer
             mine == p.state = "Proposal" /\ r.resp.ballot = p.ballot
  <1>1. Echo(me, r).resp = HandlePromise(me, r.inst, r.resp).resp
    BY EchoHandles DEF Handle
  <1>2. p.promises = 0 /\ p.promises + 1 < Quorum /\ ~(p.promises + 1 >= Quorum)
    BY NAssumption DEF Preparing, Quorum
  <1>3. CASE mine
    BY <1>1, <1>2, <1>3 DEF HandlePromise, Ends1, Ends0
  <1>4. CASE ~mine
    <2>1. HandlePromise(me, r.inst, r.resp) = Ignored(r.inst)
      BY <1>4 DEF HandlePromise
    <2> QED BY <1>1, <2>1 DEF Ignored, Ends1, Ends0
  <1> QED BY <1>3, <1>4

\* A Prepare above all the node's acceptor has promised is promised.
LEMMA HighPrepareEnds ==
    ASSUME NEW me \in Nodes, NEW r, Answering(r), r.resp.type = "Prepare",
           Preparing(r.inst), r.inst.acceptor.max_ballot < r.resp.ballot
    PROVE  Ends2(me, r)
  <1> DEFINE h == Echo(me, r)
  <1>1. h.inst = HandlePrepare(me, r.inst, r.resp).inst
        /\ h.resp = HandlePrepare(me, r.inst, r.resp).resp
    BY EchoHandles DEF Handle
  <1>2. h.resp.type = "Promise"
    BY <1>1 DEF HandlePrepare
  <1>3. Preparing(h.inst)
    BY <1>1 DEF HandlePrepare, Preparing, Answering, GoodInstance, Instances
  <1>4. Answering(h)
    BY <1>2, EchoHandles DEF Answering, Answers, NoMessage
  <1> QED BY <1>2, <1>3, <1>4, PromiseOfOneEnds DEF Ends2

\* A retry goes above the ballot it was refused for, and starts to count again.
LEMMA RetryGoesAbove ==
    ASSUME NEW me \in Nodes, NEW s, GoodInstance(s), NEW m \in Messages,
           m.type \in {"NackPrepare", "NackAccept"},
           NEW r, r = HandleNack(me, s, m)
    PROVE  \/ r.resp = NoMessage
           \/ /\ r.resp.type = "Prepare"
              /\ r.resp.ballot > m.max_ballot
              /\ r.inst.acceptor = s.acceptor
              /\ Preparing(r.inst)
  <1> DEFINE p == s.proposer
             nacks == p.nacks + 1
             seen == IF m.max_ballot > p.ballot THEN m.max_ballot ELSE p.ballot
             t == [s EXCEPT !.proposer.ballot = seen]
  <1>1. s \in Instances /\ p \in ProposerStates
    BY DEF GoodInstance, Instances
  <1>2. m.max_ballot \in Nat /\ p.ballot \in Nat /\ nacks \in Nat
    BY <1>1 DEF Messages, ProposerStates
  <1>3. seen \in Nat /\ seen >= m.max_ballot
    BY <1>2
  <1>4. N - Quorum \in Int
    BY NAssumption, QuorumType
  <1>5. CASE ~NackCounts(p, m)
    BY <1>5 DEF HandleNack, Ignored
  <1>6. CASE NackCounts(p, m) /\ nacks <= N - Quorum
    <2>1. r = [inst |-> [s EXCEPT !.proposer.nacks = nacks], resp |-> NoMessage]
      BY <1>6, <1>2, <1>4 DEF HandleNack
    <2> QED BY <2>1
  <1>7. CASE NackCounts(p, m) /\ ~(nacks <= N - Quorum)
    <2>1. r = NewPrepare(me, t, p.value)
      BY <1>7, <1>2, <1>4 DEF HandleNack
    <2>2. t.proposer.ballot = seen /\ t.acceptor = s.acceptor
      BY <1>1 DEF Instances, ProposerStates
    <2>3. NextBallot(seen, me) > m.max_ballot
      BY <1>2, <1>3, NextBallotAbove, NextBallotType
    <2>4. t \in Instances
      BY <1>1, <1>3 DEF Instances, ProposerStates
    <2> HIDE DEF seen, t
    <2>5. r.resp.type = "Prepare" /\ r.resp.ballot > m.max_ballot
      BY <2>1, <2>2, <2>3 DEF NewPrepare
    <2> DEFINE q == [FreshProposer(me) EXCEPT
                       !.state = "Proposal",
                       !.ballot = NextBallot(t.proposer.ballot, me),
                       !.value = p.value]
    <2>6. r.inst = [t EXCEPT !.proposer = q]
      BY <2>1 DEF NewPrepare
    <2>7. q.promises = 0
      BY DEF FreshProposer
    <2> HIDE DEF q
    <2>8. r.inst.acceptor = s.acceptor /\ r.inst.proposer = q
      BY <2>2, <2>4, <2>6 DEF Instances
    <2> QED BY <2>5, <2>7, <2>8 DEF Preparing
  <1> QED BY <1>5, <1>6, <1>7

LEMMA OwnNackEnds ==
    ASSUME NEW me \in Nodes, NEW r, Answering(r),
           r.resp.type \in {"NackPrepare", "NackAccept"},
           r.resp.max_ballot = r.inst.acceptor.max_ballot
    PROVE  Ends3(me, r)
  <1> DEFINE h == Echo(me, r)
             k == HandleNack(me, r.inst, r.resp)
  <1>1. h.inst = k.inst /\ h.resp = k.resp
    BY EchoHandles DEF Handle
  <1>2. Answering(h) \/ h.resp = NoMessage
    BY EchoHandles DEF Answering, Answers
  <1>3. \/ k.resp = NoMessage
        \/ /\ k.resp.type = "Prepare"
           /\ k.resp.ballot > r.resp.max_ballot
           /\ k.inst.acceptor = r.inst.acceptor
           /\ Preparing(k.inst)
    BY RetryGoesAbove DEF Answering
  <1>4. CASE k.resp = NoMessage
    BY <1>1, <1>4, EndsStay DEF Ends0, Ends3
  <1>5. CASE k.resp # NoMessage
    <2>1. Ends2(me, h)
      <3>1. Answering(h) /\ h.resp.type = "Prepare" /\ Preparing(h.inst)
        BY <1>1, <1>2, <1>3, <1>5 DEF Preparing
      <3>2. h.resp.ballot > h.inst.acceptor.max_ballot
        BY <1>1, <1>3, <1>5
      <3>3. h.resp.ballot \in Nat /\ h.inst.acceptor.max_ballot \in Nat
        BY <3>1 DEF Answering, GoodInstance, Instances, AcceptorStates, Messages
      <3> HIDE DEF h
      <3> QED BY <3>1, <3>2, <3>3, HighPrepareEnds
    <2> QED BY <2>1 DEF Ends3
  <1> QED BY <1>4, <1>5

\* The node's own acceptor refuses a Prepare at most once.
LEMMA PrepareEnds ==
    ASSUME NEW me \in Nodes, NEW r, Answering(r), r.resp.type = "Prepare",
           Preparing(r.inst)
    PROVE  Ends4(me, r)
  <1> DEFINE h == Echo(me, r)
  <1>1. CASE r.inst.acceptor.max_ballot < r.resp.ballot
    BY <1>1, HighPrepareEnds, EndsSooner
  <1>2. CASE ~(r.inst.acceptor.max_ballot < r.resp.ballot)
    <2>1. h.inst = r.inst /\ h.resp.type = "NackPrepare"
          /\ h.resp.max_ballot = r.inst.acceptor.max_ballot
      <3>1. Handle(me, r.inst, r.resp) = HandlePrepare(me, r.inst, r.resp)
        BY DEF Handle
      <3>2. HandlePrepare(me, r.inst, r.resp) =
              [inst |-> r.inst,
               resp |-> [type |-> "NackPrepare", sender |-> me,
                         max_ballot |-> r.inst.acceptor.max_ballot]]
        BY <1>2 DEF HandlePrepare
      <3> QED BY <3>1, <3>2, EchoHandles
    <2>2. Answering(h)
      BY <2>1, EchoHandles DEF Answering, Answers, NoMessage
    <2> QED BY <2>1, <2>2, OwnNackEnds DEF Ends4
  <1> QED BY <1>1, <1>2

LEMMA AcceptEnds ==
    ASSUME NEW me \in Nodes, NEW r, Answering(r), r.resp.type = "Accept"
    PROVE  Ends4(me, r)
  <1> DEFINE h == Echo(me, r)
  <1>1. h.inst = HandleAccept(me, r.inst, r.resp).inst
        /\ h.resp = HandleAccept(me, r.inst, r.resp).resp
    BY EchoHandles DEF Handle
  <1>2. h.resp # NoMessage => Answering(h)
    BY EchoHandles DEF Answering, Answers
  <1>3. CASE r.resp.ballot >= r.inst.acceptor.max_ballot
    <2>1. h.resp.type = "AckAccept" /\ Answering(h)
      BY <1>1, <1>2, <1>3 DEF HandleAccept, NoMessage
    <2>2. Ends3(me, h)
      BY <2>1, AckAcceptEnds, EndsSooner
    <2> QED BY <2>2 DEF Ends4
  <1>4. CASE ~(r.resp.ballot >= r.inst.acceptor.max_ballot)
    <2>1. /\ h.inst = r.inst /\ h.resp.type = "NackAccept"
          /\ h.resp.max_ballot = r.inst.acceptor.max_ballot
      BY <1>1, <1>4 DEF HandleAccept
    <2>2. Answering(h)
      BY <1>2, <2>1 DEF NoMessage
    <2> QED BY <2>1, <2>2, OwnNackEnds DEF Ends4
  <1> QED BY <1>3, <1>4

LEMMA PromiseEnds ==
    ASSUME NEW me \in Nodes, NEW r, Answering(r), r.resp.type = "Promise"
    PROVE  Ends5(me, r)
  <1> DEFINE h == Echo(me, r)
             p == r.inst.proposer
  <1>1. h.resp = HandlePromise(me, r.inst, r.resp).resp
    BY EchoHandles DEF Handle
  <1>2. h.resp = NoMessage \/ h.resp.type = "Accept"
    <2>1. p.promises \in Nat /\ p.ballot \in Nat
      BY DEF Answering, GoodInstance, Instances, ProposerStates
    <2> QED BY <1>1, <2>1, QuorumType DEF HandlePromise, Ignored, NewAccept
  <1>3. Ends4(me, h)
    BY <1>2, EchoHandles, EndsStay, AcceptEnds DEF Ends0, Answering, Answers
  <1> QED BY <1>3 DEF Ends5

-----------------------------------------------------------------------------
(* Whatever arrives.                                                        *)

LEMMA DeliverEnds ==
    ASSUME NEW me \in Nodes, NEW s, GoodInstance(s), NEW m \in Messages
    PROVE  Deliver(me, s, m).resp = NoMessage
  <1> DEFINE a == Handle(me, s, m)
             r == [inst |-> a.inst, resp |-> a.resp, out |-> << >>]
  <1>1. GoodInstance(a.inst) /\ a.resp \in Answers
    BY HandleGood DEF GoodResult
  <1>2. r.inst = a.inst /\ r.resp = a.resp
    OBVIOUS
  <1>3. r.resp # NoMessage => Answering(r)
    BY <1>1, <1>2 DEF Answering, Answers
  <1>4. s.acceptor.max_ballot \in Nat /\ s.proposer.promises \in Nat
        /\ s.proposer.accepts \in Nat /\ s.proposer.ballot \in Nat
    BY DEF GoodInstance, Instances, AcceptorStates, ProposerStates
  <1> HIDE DEF r
  <1>5. Ends5(me, r)
    <2>1. CASE m.type = "Prepare"
      <3>1. a = HandlePrepare(me, s, m)
        BY <2>1 DEF Handle
      <3>2. \/ r.resp.type = "Promise"
            \/ /\ r.resp.type = "NackPrepare"
               /\ r.resp.max_ballot = r.inst.acceptor.max_ballot
        BY <1>2, <3>1 DEF HandlePrepare
      <3> QED
        BY <1>3, <3>2, PromiseEnds, OwnNackEnds, EndsSooner DEF NoMessage
    <2>2. CASE m.type = "Promise"
      <3>1. r.resp = HandlePromise(me, s, m).resp
        BY <1>2, <2>2 DEF Handle
      <3>2. r.resp = NoMessage \/ r.resp.type = "Accept"
        BY <1>4, <3>1, QuorumType DEF HandlePromise, Ignored, NewAccept
      <3> QED BY <1>3, <3>2, AcceptEnds, EndsStay, EndsSooner DEF Ends0
    <2>3. CASE m.type = "Accept"
      <3>1. a = HandleAccept(me, s, m)
        BY <2>3 DEF Handle
      <3>2. \/ r.resp.type = "AckAccept"
            \/ /\ r.resp.type = "NackAccept"
               /\ r.resp.max_ballot = r.inst.acceptor.max_ballot
        BY <1>2, <3>1 DEF HandleAccept
      <3> QED
        BY <1>3, <3>2, AckAcceptEnds, OwnNackEnds, EndsSooner DEF NoMessage
    <2>4. CASE m.type = "AckAccept"
      <3>1. r.resp = HandleAckAccept(me, s, m).resp
        BY <1>2, <2>4 DEF Handle
      <3>2. r.resp = NoMessage \/ (r.resp.type = "Learn" /\ r.resp.sender = me)
        BY <1>4, <3>1, QuorumType DEF HandleAckAccept, Ignored
      <3> QED BY <1>3, <3>2, LearnEnds, EndsStay, EndsSooner DEF Ends0
    <2>5. CASE m.type \in {"NackPrepare", "NackAccept"}
      <3>1. a = HandleNack(me, s, m)
        BY <2>5 DEF Handle
      <3>2. r.resp = NoMessage \/ (r.resp.type = "Prepare" /\ Preparing(r.inst))
        BY <1>2, <2>5, <3>1, RetryGoesAbove DEF Preparing
      <3> QED BY <1>3, <3>2, PrepareEnds, EndsStay, EndsSooner DEF Ends0
    <2>6. CASE m.type = "Learn"
      <3>1. r.resp = HandleLearn(me, s, m).resp
        BY <1>2, <2>6 DEF Handle
      <3>2. r.resp = NoMessage \/ (r.resp.type = "Learn" /\ r.resp.sender = me)
        BY <2>6, <3>1 DEF HandleLearn, Messages
      <3> QED BY <1>3, <3>2, LearnEnds, EndsStay, EndsSooner DEF Ends0
    <2> QED BY <2>1, <2>2, <2>3, <2>4, <2>5, <2>6, MessageTypes
  <1>6. Deliver(me, s, m)
          = Echo(me, Echo(me, Echo(me, Echo(me, Echo(me, r)))))
    BY DEF Deliver, SelfDeliver, r
  <1> QED BY <1>5, <1>6 DEF Ends5, Ends4, Ends3, Ends2, Ends1, Ends0

-----------------------------------------------------------------------------
(* Votes.                                                                   *)

AckOf(a, b) == [type |-> "AckAccept", sender |-> a, ballot |-> b]

Request(b, c) ==
    [type |-> "Accept", sender |-> Owner(b), ballot |-> b, command |-> c]

Voted(T, a, b, c) == AckOf(a, b) \in T /\ Request(b, c) \in T

Voters(T, b, c) == {a \in Nodes : Voted(T, a, b, c)}

Quorums == {Q \in SUBSET Nodes : Cardinality(Q) >= Quorum}

BallotsIn(T) == {m.ballot : m \in T}

Decided(T, c) == \E b \in BallotsIn(T) : Cardinality(Voters(T, b, c)) >= Quorum

OfType(T, t) == {m \in T : m.type = t}

-----------------------------------------------------------------------------
(* Quorums.                                                                 *)

LEMMA NodesFinite == IsFiniteSet(Nodes) /\ Cardinality(Nodes) = N
  <1>1. 0 \in Int /\ N - 1 \in Int /\ ~(0 > N - 1) /\ (N - 1) - 0 + 1 = N
    BY NAssumption
  <1> QED BY <1>1, FS_Interval DEF Nodes

LEMMA SomeNodes ==
    ASSUME NEW S \in SUBSET Nodes
    PROVE  IsFiniteSet(S) /\ Cardinality(S) \in Nat
  BY NodesFinite, FS_Subset, FS_CardinalityType

LEMMA QuorumsIntersect ==
    ASSUME NEW P \in Quorums, NEW Q \in Quorums
    PROVE  \E a \in Nodes : a \in P /\ a \in Q
  <1>1. P \subseteq Nodes /\ Q \subseteq Nodes
        /\ Cardinality(P) \in Nat /\ Cardinality(Q) \in Nat
    BY SomeNodes DEF Quorums
  <1>2. Quorum + Quorum > N
    BY NAssumption DEF Quorum
  <1>3. Cardinality(P) + Cardinality(Q) > Cardinality(Nodes)
    BY <1>1, <1>2, NodesFinite, NAssumption, QuorumType DEF Quorums
  <1> QED BY <1>1, <1>3, NodesFinite, FS_MajoritiesIntersect

LEMMA QuorumInhabited ==
    ASSUME NEW Q \in Quorums
    PROVE  \E a \in Nodes : a \in Q
  BY QuorumsIntersect

LEMMA VotersQuorum ==
    ASSUME NEW T, NEW b, NEW c, Cardinality(Voters(T, b, c)) >= Quorum
    PROVE  Voters(T, b, c) \in Quorums
  BY DEF Quorums, Voters

LEMMA VotedStable ==
    ASSUME NEW T, NEW U, T \subseteq U, NEW a, NEW b, NEW c, Voted(T, a, b, c)
    PROVE  Voted(U, a, b, c)
  BY DEF Voted

LEMMA DecidedStable ==
    ASSUME NEW T, NEW U, T \subseteq U, NEW c, Decided(T, c)
    PROVE  Decided(U, c)
  <1>1. PICK b \in BallotsIn(T) : Cardinality(Voters(T, b, c)) >= Quorum
    BY DEF Decided
  <1>2. b \in BallotsIn(U)
    BY DEF BallotsIn
  <1>3. Voters(T, b, c) \subseteq Voters(U, b, c) /\ Voters(U, b, c) \subseteq Nodes
        /\ Voters(T, b, c) \subseteq Nodes
    BY VotedStable DEF Voters
  <1>4. Cardinality(Voters(U, b, c)) >= Cardinality(Voters(T, b, c))
    BY <1>3, SomeNodes, FS_Subset
  <1>5. Cardinality(Voters(U, b, c)) >= Quorum
    BY <1>1, <1>3, <1>4, SomeNodes, QuorumType
  <1> QED BY <1>2, <1>5 DEF Decided

-----------------------------------------------------------------------------
(* Messages of one type.                                                    *)

LEMMA AckShape ==
    ASSUME NEW T, T \subseteq Messages, NEW m \in OfType(T, "AckAccept")
    PROVE  m.sender \in Nodes /\ m.ballot \in Nat /\ m = AckOf(m.sender, m.ballot)
           /\ m \in T
  BY DEF OfType, Messages, AckOf

LEMMA AcceptShape ==
    ASSUME NEW T, T \subseteq Messages, NEW m \in OfType(T, "Accept"),
           m.sender = Owner(m.ballot)
    PROVE  m.ballot \in Nat /\ m.command \in Commands
           /\ m = Request(m.ballot, m.command) /\ m \in T
  BY DEF OfType, Messages, Request

LEMMA PromiseShape ==
    ASSUME NEW T, T \subseteq Messages, NEW m \in OfType(T, "Promise")
    PROVE  m.sender \in Nodes /\ m.ballot \in Nat /\ m.max_accepted \in Proposals
           /\ m.max_accepted.ballot \in Nat /\ m \in T
  BY DEF OfType, Messages, Proposals, NoProposal

LEMMA AckIn ==
    ASSUME NEW T, NEW a, NEW b, AckOf(a, b) \in T
    PROVE  AckOf(a, b) \in OfType(T, "AckAccept")
           /\ AckOf(a, b).sender = a /\ AckOf(a, b).ballot = b
  BY DEF OfType, AckOf

LEMMA RequestIn ==
    ASSUME NEW T, NEW b, NEW c, Request(b, c) \in T
    PROVE  Request(b, c) \in OfType(T, "Accept")
           /\ Request(b, c).ballot = b /\ Request(b, c).command = c
           /\ Request(b, c).sender = Owner(b)
  BY DEF OfType, Request

-----------------------------------------------------------------------------
(* What a proposer has heard of the messages T: what is said and not in F,   *)
(* the envelopes that have not been received.                               *)

Heard(n, T, F, m) == m \in T /\ [to |-> n, msg |-> m] \notin F

HeardAcks(n, p, T, F, H) ==
    \A a \in H : Heard(n, T, F, AckOf(a, p.ballot))

LEMMA HeardIsDecided ==
    ASSUME NEW T, NEW n, NEW p, NEW F, NEW H \in SUBSET Nodes,
           HeardAcks(n, p, T, F, H), Request(p.ballot, p.value) \in T,
           Cardinality(H) >= Quorum
    PROVE  Decided(T, p.value)
  <1>1. p.ballot \in BallotsIn(T)
    BY RequestIn DEF BallotsIn, OfType
  <1>2. H \subseteq Voters(T, p.ballot, p.value)
    BY DEF HeardAcks, Heard, Voters, Voted
  <1>3. Voters(T, p.ballot, p.value) \in SUBSET Nodes
    BY DEF Voters
  <1>4. /\ Cardinality(H) \in Nat
        /\ Cardinality(Voters(T, p.ballot, p.value)) \in Nat
        /\ IsFiniteSet(Voters(T, p.ballot, p.value))
    BY <1>3, SomeNodes
  <1>5. Cardinality(H) <= Cardinality(Voters(T, p.ballot, p.value))
    BY <1>2, <1>4, FS_Subset
  <1>6. Cardinality(Voters(T, p.ballot, p.value)) >= Quorum
    BY <1>4, <1>5, QuorumType
  <1> QED BY <1>1, <1>6 DEF Decided

-----------------------------------------------------------------------------
(* What handlers change.                                                    *)

\* What is done when the acceptor promises, and when it accepts.
LEMMA PromisedFacts ==
    ASSUME NEW n \in Nodes, NEW s \in Instances, NEW m \in Messages,
           m.type = "Prepare", s.acceptor.max_ballot < m.ballot,
           NEW h, h = HandlePrepare(n, s, m)
    PROVE  /\ h.inst.acceptor.max_ballot = m.ballot
           /\ h.inst.acceptor.max_accepted = s.acceptor.max_accepted
           /\ h.inst.disk.accepted = s.disk.accepted
           /\ h.inst.proposer = s.proposer /\ h.inst.learner = s.learner
  BY DEF HandlePrepare, SavePromise, Instances, AcceptorStates, Disks

LEMMA AcceptedFacts ==
    ASSUME NEW n \in Nodes, NEW s \in Instances, NEW m \in Messages,
           m.type = "Accept", m.ballot >= s.acceptor.max_ballot,
           NEW h, h = HandleAccept(n, s, m)
    PROVE  /\ h.inst.acceptor = [max_ballot |-> m.ballot,
                                 max_accepted |-> [ballot |-> m.ballot,
                                                   command |-> m.command]]
           /\ h.inst.disk.accepted = [ballot |-> m.ballot, command |-> m.command]
           /\ h.inst.proposer = s.proposer /\ h.inst.learner = s.learner
  BY DEF HandleAccept, SaveAccept, SavePromise, Instances, AcceptorStates,
         Disks

LEMMA NewAcceptFacts ==
    ASSUME NEW n \in Nodes, NEW s \in Instances, NEW b \in Nat,
           NEW v \in Commands, Owner(b) = n,
           NEW h, h = NewAccept(n, s, b, v)
    PROVE  /\ h.inst \in Instances /\ h.resp \in Messages
           /\ h.inst.acceptor = s.acceptor /\ h.inst.disk = s.disk
           /\ h.inst.learner = s.learner
           /\ h.resp = Request(b, v) /\ h.resp.type = "Accept"
           /\ h.resp.ballot = b
           /\ h.inst.proposer.state = "Accepting"
           /\ h.inst.proposer.ballot = b /\ h.inst.proposer.value = v
           /\ h.inst.proposer.promises = 0 /\ h.inst.proposer.accepts = 0
  <1>1. GoodResult(h)
    BY NewAcceptGood
  <1> DEFINE q == [FreshProposer(n) EXCEPT !.state = "Accepting", !.ballot = b,
                                           !.value = v]
  <1>2. /\ h.inst = [s EXCEPT !.proposer = q]
        /\ h.resp = [type |-> "Accept", sender |-> n, ballot |-> b, command |-> v]
    BY DEF NewAccept
  <1>3. /\ q.state = "Accepting" /\ q.ballot = b /\ q.value = v
        /\ q.promises = 0 /\ q.accepts = 0
    BY DEF FreshProposer
  <1> HIDE DEF q
  <1>4. /\ h.inst.acceptor = s.acceptor /\ h.inst.disk = s.disk
        /\ h.inst.learner = s.learner /\ h.inst.proposer = q
    BY <1>2 DEF Instances
  <1>5. h.resp = Request(b, v) /\ h.resp.type = "Accept" /\ h.resp.ballot = b
    BY <1>2 DEF Request
  <1>6. h.inst \in Instances /\ h.resp \in Messages
    BY <1>1, <1>5 DEF GoodResult, GoodInstance, Answers, NoMessage
  <1> QED BY <1>3, <1>4, <1>5, <1>6

LEMMA LearnedFrom ==
    ASSUME NEW l \in LearnerStates, NEW m \in Messages, m.type = "Learn"
    PROVE  \/ Learned(l, m).value = l.value
           \/ l.value = None /\ Learned(l, m).value = m.command
  <1>1. AtBallot(l, m.ballot) \in LearnerStates
        /\ AtBallot(l, m.ballot).value = l.value
    <2>1. m.ballot \in Nat /\ NoVotes \in [Commands -> Nat]
      BY DEF Messages, NoVotes
    <2> QED BY <2>1 DEF AtBallot, LearnerStates
  <1>2. m.command \in Commands
    BY DEF Messages
  <1>3. AtBallot(l, m.ballot).votes[m.command] + 1 \in Nat
    BY <1>1, <1>2 DEF LearnerStates
  <1> QED BY <1>1, <1>3, QuorumType DEF Learned, LearnerStates

-----------------------------------------------------------------------------
(* Bags.                                                                    *)

LEMMA SetToBagType ==
    ASSUME NEW S
    PROVE  IsABag(SetToBag(S)) /\ BagToSet(SetToBag(S)) = S
  BY DEF IsABag, SetToBag, BagToSet

LEMMA BagUnionType ==
    ASSUME NEW b1, NEW b2, IsABag(b1), IsABag(b2)
    PROVE  /\ IsABag(b1 (+) b2)
           /\ BagToSet(b1 (+) b2) = BagToSet(b1) \cup BagToSet(b2)
  BY DEF IsABag, BagToSet, (+)

LEMMA BagDifferenceType ==
    ASSUME NEW b1, NEW b2, IsABag(b1), IsABag(b2)
    PROVE  /\ IsABag(b1 (-) b2)
           /\ BagToSet(b1 (-) b2) \subseteq BagToSet(b1)
  BY DEF IsABag, BagToSet, (-)

LEMMA BagMinus ==
    ASSUME NEW b, NEW r, IsABag(b), IsABag(r), NEW x \in BagToSet(b (-) r)
    PROVE  /\ x \in BagToSet(b)
           /\ b[x] = 1 => x \notin BagToSet(r) /\ (b (-) r)[x] = 1
  BY DEF IsABag, BagToSet, (-)

LEMMA BagPlusSet ==
    ASSUME NEW b, NEW S, IsABag(b), NEW x \in BagToSet(b (+) SetToBag(S))
    PROVE  /\ x \in S \/ (x \in BagToSet(b) /\ (b (+) SetToBag(S))[x] = b[x])
           /\ x \notin BagToSet(b) => (b (+) SetToBag(S))[x] = 1
  <1>1. IsABag(SetToBag(S)) /\ BagToSet(SetToBag(S)) = S
    BY SetToBagType
  <1>2. \A y \in S : SetToBag(S)[y] = 1
    BY DEF SetToBag
  <1>3. x \in BagToSet(b) \cup S
    BY <1>1, BagUnionType
  <1>4. x \in BagToSet(b) => b[x] \in Nat
    BY DEF IsABag, BagToSet
  <1> HIDE DEF SetToBag
  <1> QED BY <1>1, <1>2, <1>3, <1>4 DEF BagToSet, (+)
=============================================================================
