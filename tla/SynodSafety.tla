------------------------------ MODULE SynodSafety ------------------------------
(***************************************************************************)
(* Safety of Synod, for every number of nodes, set of commands and bound:  *)
(* what a proposer has counted acceptors have sent, what is learned is     *)
(* chosen, and only one command is.                                        *)
(*                                                                         *)
(* A handler's answer goes to the other nodes and to the node itself.      *)
(* While a chain of answers lasts, the answer that the node has yet to     *)
(* handle counts as one more envelope, addressed to itself.                *)
(***************************************************************************)
EXTENDS SynodVotes

-----------------------------------------------------------------------------
(* One handler, seen as the receipt of an envelope.                         *)

Safe(I, T, F) == VoteInv(I, T) /\ CountInv(I, T, F)

\* The envelopes of an answer, the one to the node itself included.
Mail(n, m) ==
    IF m = NoMessage
    THEN {}
    ELSE {[to |-> k, msg |-> m] : k \in Audience(m) \cup {n}}

Kept(m) == IF m.type \in RecordedTypes THEN {m} ELSE {}

\* What is left when e is received: a copy of an uncounted message may remain.
Rest(F, e) == IF e.msg.type \in Counted THEN F \ {e} ELSE F

\* No envelope of G is a new one of a message already heard.
Arrives(T, F, G) ==
    \A e \in G : e \in F \/ e.msg \notin T \/ e.msg.type \notin Counted

LEMMA MailFacts ==
    ASSUME NEW n \in Nodes, NEW m, NEW e \in Mail(n, m)
    PROVE  m # NoMessage /\ e.msg = m
  BY DEF Mail

LEMMA MailTo ==
    ASSUME NEW n \in Nodes, NEW m \in Messages, NEW e \in Mail(n, m)
    PROVE  e.to \in Nodes
  BY AudienceType DEF Mail

LEMMA CountsStable ==
    ASSUME NEW n \in Nodes, NEW p, NEW T, NEW U, NEW F, NEW G,
           ProposerCounts(n, p, T, F), T \subseteq U, Arrives(T, F, G)
    PROVE  ProposerCounts(n, p, U, G)
  <1>1. ASSUME NEW m, m.type \in Counted, Heard(n, T, F, m)
        PROVE  Heard(n, U, G, m)
    <2>1. [to |-> n, msg |-> m].msg = m
      OBVIOUS
    <2> QED BY <1>1, <2>1 DEF Heard, Arrives
  <1>2. OfType(T, "Promise") \subseteq OfType(U, "Promise")
    BY DEF OfType
  <1>3. ASSUME NEW H, HeardPromises(n, p, T, F, H)
        PROVE  HeardPromises(n, p, U, G, H)
    <2> SUFFICES ASSUME NEW a \in H
                 PROVE  \E m \in OfType(U, "Promise") :
                           /\ Heard(n, U, G, m)
                           /\ m.sender = a
                           /\ m.ballot = p.ballot
                           /\ m.max_accepted.ballot <= p.best.ballot
      BY DEF HeardPromises
    <2>1. PICK m \in OfType(T, "Promise") :
                 /\ Heard(n, T, F, m)
                 /\ m.sender = a
                 /\ m.ballot = p.ballot
                 /\ m.max_accepted.ballot <= p.best.ballot
      BY <1>3 DEF HeardPromises
    <2>2. m.type \in Counted
      BY DEF OfType, Counted
    <2> QED BY <1>1, <1>2, <2>1, <2>2
  <1>4. ASSUME NEW H, HeardAcks(n, p, T, F, H)
        PROVE  HeardAcks(n, p, U, G, H)
    <2>1. \A a : AckOf(a, p.ballot).type \in Counted
      BY DEF AckOf, Counted
    <2> QED BY <1>1, <1>4, <2>1 DEF HeardAcks
  <1>5. p.state = "Proposal" =>
          \E H \in SUBSET Nodes : /\ p.promises <= Cardinality(H)
                                  /\ HeardPromises(n, p, U, G, H)
    BY <1>3 DEF ProposerCounts
  <1>6. p.state = "Accepting" =>
          \E H \in SUBSET Nodes : /\ p.accepts <= Cardinality(H)
                                  /\ HeardAcks(n, p, U, G, H)
    BY <1>4 DEF ProposerCounts
  <1>7. (p.state = "Proposal" /\ p.best # NoProposal) =>
          \E m \in OfType(U, "Promise") :
             m.ballot = p.ballot /\ m.max_accepted = p.best
    BY <1>2 DEF ProposerCounts
  <1> QED BY <1>5, <1>6, <1>7 DEF ProposerCounts

\* An inactive proposer, or one that has just prepared, has counted nothing.
LEMMA NothingCounted ==
    ASSUME NEW n \in Nodes, NEW p, NEW T, NEW F,
           p.state # "Accepting", p.promises = 0, p.accepts = 0,
           p.state = "Proposal" => p.ballot > 0 /\ p.best = NoProposal
    PROVE  ProposerCounts(n, p, T, F)
  <1>1. {} \in SUBSET Nodes /\ p.promises <= Cardinality({})
        /\ HeardPromises(n, p, T, F, {})
    BY FS_EmptySet DEF HeardPromises
  <1> QED BY <1>1 DEF ProposerCounts

\* The step of node n, whose answer is resp.
LEMMA CountStep ==
    ASSUME NEW I, NEW J, NEW T, NEW U, T \subseteq U, NEW F, NEW R \in SUBSET F,
           CountInv(I, T, F),
           NEW n \in Nodes, NEW resp \in Answers,
           \A a \in Nodes : a # n => J[a] = I[a],
           ProposerCounts(n, J[n].proposer, U, R \cup Mail(n, resp)),
           LearnerKnows(J[n].learner, U),
           resp.type \in Counted => resp \notin T /\ resp \in U,
           \A e \in R : e.msg.type = "Accept" =>
                           AckOf(e.to, e.msg.ballot) \notin U,
           resp.type = "Accept" => \A k \in Nodes : AckOf(k, resp.ballot) \notin U,
           resp.type = "Learn" => Decided(U, resp.command)
    PROVE  CountInv(J, U, R \cup Mail(n, resp))
  <1> DEFINE G == R \cup Mail(n, resp)
  <1>1. Arrives(T, F, G)
    BY MailFacts DEF Arrives
  <1>2. \A a \in Nodes : ProposerCounts(a, J[a].proposer, U, G)
    BY <1>1, CountsStable DEF CountInv
  <1>3. \A a \in Nodes : LearnerKnows(J[a].learner, U)
    BY DecidedStable DEF CountInv, LearnerKnows
  <1>4. ASSUME NEW e \in R
        PROVE  MailTrue(U, e)
    BY DecidedStable DEF CountInv, MailTrue
  <1>5. ASSUME NEW e \in Mail(n, resp)
        PROVE  MailTrue(U, e)
    <2>1. e.msg = resp /\ resp \in Messages
      BY MailFacts DEF Answers
    <2>2. e.to \in Nodes
      BY <2>1, MailTo
    <2> QED BY <2>1, <2>2 DEF MailTrue
  <1> QED BY <1>2, <1>3, <1>4, <1>5 DEF CountInv

-----------------------------------------------------------------------------
(* The handlers that neither promise, accept nor request.                   *)

LEMMA PassiveStep ==
    ASSUME NEW I \in AllInstances, NEW T, T \subseteq Messages,
           NEW F, NEW R \in SUBSET F, Safe(I, T, F),
           NEW n \in Nodes, NEW t \in Instances, NEW resp \in Answers,
           t.acceptor = I[n].acceptor, t.disk = I[n].disk,
           resp.type \notin Counted,
           ProposerCounts(n, t.proposer, T, R),
           LearnerKnows(t.learner, T),
           resp.type = "Learn" => Decided(T, resp.command)
    PROVE  Safe([I EXCEPT ![n] = t], T \cup Kept(resp), R \cup Mail(n, resp))
  <1> DEFINE J == [I EXCEPT ![n] = t]
             U == T \cup Kept(resp)
             G == R \cup Mail(n, resp)
  <1>1. J \in AllInstances /\ J[n] = t /\ \A a \in Nodes : a # n => J[a] = I[a]
    BY DEF AllInstances
  <1>2. T \subseteq U /\ \A m \in U : m \in T \/ (m = resp /\ m \in Kept(resp))
    BY DEF Kept
  <1> HIDE DEF J, U
  <1>3. \A s \in Counted : OfType(U, s) = OfType(T, s)
    BY <1>2 DEF OfType
  <1>4. QuietVotes(I, T, J, U)
    <2>1. ASSUME NEW a \in Nodes
          PROVE  /\ J[a].acceptor.max_ballot >= I[a].acceptor.max_ballot
                 /\ J[a].acceptor.max_accepted = I[a].acceptor.max_accepted
                 /\ J[a].disk.accepted = I[a].disk.accepted
      BY <1>1, MaxBallotType
    <2> QED BY <1>2, <1>3, <2>1 DEF QuietVotes
  <1>5. VoteInv(J, U)
    BY <1>1, <1>4, QuietStep DEF Safe
  <1>6. ProposerCounts(n, t.proposer, U, G)
    <2>1. Arrives(T, R, G)
      BY MailFacts DEF Arrives
    <2> QED BY <1>2, <2>1, CountsStable
  <1>7. LearnerKnows(t.learner, U)
        /\ (resp.type = "Learn" => Decided(U, resp.command))
    BY <1>2, DecidedStable DEF LearnerKnows
  <1>8. \A e \in R : e.msg.type = "Accept" => AckOf(e.to, e.msg.ballot) \notin U
    <2>1. \A a, b : AckOf(a, b) \in U => AckOf(a, b) \in T
      BY <1>3, AckIn DEF OfType, Counted
    <2> QED BY <2>1 DEF Safe, CountInv, MailTrue
  <1>9. resp.type # "Accept"
    BY DEF Counted
  <1>10. CountInv(I, T, F)
    BY DEF Safe
  <1>11. CountInv(J, U, G)
    BY <1>1, <1>2, <1>6, <1>7, <1>8, <1>9, <1>10, CountStep
  <1> QED BY <1>5, <1>11 DEF Safe, J, U

\* A nack or nothing is said, and the instance has not changed.
LEMMA UnchangedStep ==
    ASSUME NEW I \in AllInstances, NEW T, T \subseteq Messages,
           NEW F, NEW R \in SUBSET F, Safe(I, T, F),
           NEW n \in Nodes, NEW resp \in Answers,
           resp.type \notin Counted \cup {"Learn"}
    PROVE  Safe([I EXCEPT ![n] = I[n]], T \cup Kept(resp), R \cup Mail(n, resp))
  <1>1. I[n] \in Instances
    BY DEF AllInstances
  <1>2. LearnerKnows(I[n].learner, T) /\ ProposerCounts(n, I[n].proposer, T, F)
    BY DEF Safe, CountInv
  <1>3. ProposerCounts(n, I[n].proposer, T, R)
    BY <1>2, CountsStable DEF Arrives
  <1> QED BY <1>1, <1>2, <1>3, PassiveStep

\* The receipt of e by its node, in the middle of a step or at its start.
Receipt(I, T, F, n, e) ==
    /\ I \in AllInstances
    /\ T \subseteq Messages
    /\ F \subseteq Envelopes
    /\ Safe(I, T, F)
    /\ n \in Nodes
    /\ e \in F
    /\ e.to = n
    /\ GoodInstance(I[n])
    /\ Durable(I[n])
    /\ Owner(I[n].proposer.ballot) = n

\* What the receipt makes of the instances, the messages and the envelopes.
SafeAfter(I, T, F, n, e, h) ==
    /\ Safe([I EXCEPT ![n] = h.inst], T \cup Kept(h.resp),
            Rest(F, e) \cup Mail(n, h.resp))
    /\ h.resp.type \in Counted => h.resp \notin T

LEMMA RestType ==
    ASSUME NEW F, NEW e
    PROVE  Rest(F, e) \in SUBSET F
  BY DEF Rest

LEMMA ReceiptTypes ==
    ASSUME NEW I, NEW T, NEW F, NEW n, NEW e, Receipt(I, T, F, n, e)
    PROVE  /\ e.msg \in Messages
           /\ GoodResult(Handle(n, I[n], e.msg))
           /\ I[n] \in Instances
  BY HandleGood DEF Receipt, Envelopes, GoodInstance

LEMMA UnchangedSafe ==
    ASSUME NEW I, NEW T, NEW F, NEW n, NEW e, Receipt(I, T, F, n, e),
           NEW h, h.inst = I[n], h.resp \in Answers,
           h.resp.type \notin Counted \cup {"Learn"}
    PROVE  SafeAfter(I, T, F, n, e, h)
  <1>1. /\ n \in Nodes /\ I \in AllInstances /\ T \subseteq Messages
        /\ Safe(I, T, F)
    BY DEF Receipt
  <1>2. Safe([I EXCEPT ![n] = I[n]], T \cup Kept(h.resp),
             Rest(F, e) \cup Mail(n, h.resp))
    BY <1>1, RestType, UnchangedStep
  <1> QED BY <1>2 DEF SafeAfter

LEMMA SilentSafe ==
    ASSUME NEW I, NEW T, NEW F, NEW n, NEW e, Receipt(I, T, F, n, e)
    PROVE  SafeAfter(I, T, F, n, e, Ignored(I[n]))
  <1>1. /\ Ignored(I[n]).inst = I[n] /\ Ignored(I[n]).resp = NoMessage
        /\ NoMessage \in Answers /\ NoMessage.type \notin Counted \cup {"Learn"}
    BY DEF Ignored, Answers, NoMessage, Counted
  <1> QED BY <1>1, UnchangedSafe

\* new_prepare leaves all but the proposer alone, and starts to count again.
LEMMA NewPrepareFacts ==
    ASSUME NEW n \in Nodes, NEW s \in Instances, NEW v \in Commands,
           NEW h, h = NewPrepare(n, s, v)
    PROVE  /\ h.inst \in Instances /\ h.resp \in Answers
           /\ h.inst.acceptor = s.acceptor /\ h.inst.disk = s.disk
           /\ h.inst.learner = s.learner
           /\ h.resp.type = "Prepare" /\ h.inst.proposer.promises = 0
           /\ \A T, F : ProposerCounts(n, h.inst.proposer, T, F)
  <1>1. GoodResult(h)
    BY NewPrepareGood
  <1>2. h.inst \in Instances /\ h.resp \in Answers
    BY <1>1 DEF GoodResult, GoodInstance
  <1> DEFINE b == NextBallot(s.proposer.ballot, n)
             q == [FreshProposer(n) EXCEPT !.state = "Proposal", !.ballot = b,
                                           !.value = v]
  <1>3. /\ h.inst = [s EXCEPT !.proposer = q]
        /\ h.resp = [type |-> "Prepare", sender |-> n, ballot |-> b]
    BY DEF NewPrepare
  <1>4. /\ q.state = "Proposal" /\ q.ballot = b /\ q.best = NoProposal
        /\ q.promises = 0 /\ q.accepts = 0
    BY DEF FreshProposer
  <1>5. b > 0
    <2>1. s.proposer.ballot \in Nat
      BY InstanceBallots
    <2>2. b \in Nat /\ b > s.proposer.ballot
      BY <2>1, NextBallotAbove, NextBallotType
    <2> QED BY <2>1, <2>2
  <1> HIDE DEF q, b
  <1>6. \A T, F : ProposerCounts(n, q, T, F)
    BY <1>4, <1>5, NothingCounted
  <1>7. /\ h.inst.acceptor = s.acceptor /\ h.inst.disk = s.disk
        /\ h.inst.learner = s.learner /\ h.inst.proposer = q
    BY <1>3 DEF Instances
  <1> QED BY <1>2, <1>3, <1>4, <1>6, <1>7

\* A retry starts to count again.
LEMMA NackSafe ==
    ASSUME NEW I, NEW T, NEW F, NEW n, NEW e, Receipt(I, T, F, n, e),
           e.msg.type \in {"NackPrepare", "NackAccept"}
    PROVE  SafeAfter(I, T, F, n, e, HandleNack(n, I[n], e.msg))
  <1> DEFINE s == I[n]
             m == e.msg
             p == s.proposer
             nacks == p.nacks + 1
             seen == IF m.max_ballot > p.ballot THEN m.max_ballot ELSE p.ballot
             t == [s EXCEPT !.proposer.nacks = nacks]
             u == [s EXCEPT !.proposer.ballot = seen]
             h == HandleNack(n, s, m)
             R == Rest(F, e)
  <1>1. /\ m \in Messages /\ s \in Instances /\ n \in Nodes
        /\ p \in ProposerStates /\ R \in SUBSET F /\ I \in AllInstances
        /\ T \subseteq Messages /\ Safe(I, T, F)
    BY ReceiptTypes, RestType DEF Receipt, Instances
  <1>2. nacks \in Nat /\ p.ballot \in Nat /\ m.max_ballot \in Nat
        /\ N - Quorum \in Int
    BY <1>1, NAssumption, QuorumType DEF ProposerStates, Messages
  <1>3. seen \in Nat /\ seen >= p.ballot
    BY <1>2
  <1>4. GoodResult(h)
    BY <1>1, ReceiptTypes DEF Handle
  <1>5. LearnerKnows(s.learner, T) /\ ProposerCounts(n, p, T, R)
    <2>1. LearnerKnows(s.learner, T) /\ ProposerCounts(n, p, T, F)
      BY <1>1 DEF Safe, CountInv
    <2> QED BY <1>1, <2>1, CountsStable DEF Arrives
  <1>6. CASE ~NackCounts(p, m)
    <2>1. h = Ignored(s)
      BY <1>6 DEF HandleNack
    <2> QED BY <2>1, SilentSafe
  <1>7. CASE NackCounts(p, m) /\ nacks <= N - Quorum
    <2>1. h = [inst |-> t, resp |-> NoMessage]
      BY <1>2, <1>7 DEF HandleNack
    <2>2. /\ t \in Instances /\ t.acceptor = s.acceptor /\ t.disk = s.disk
          /\ t.learner = s.learner
      BY <1>1, <1>2 DEF Instances, ProposerStates
    <2>3. /\ t.proposer.state = p.state /\ t.proposer.ballot = p.ballot
          /\ t.proposer.promises = p.promises /\ t.proposer.accepts = p.accepts
          /\ t.proposer.best = p.best /\ t.proposer.value = p.value
      BY <1>1 DEF Instances, ProposerStates
    <2> HIDE DEF t, h
    <2>4. ProposerCounts(n, t.proposer, T, R)
      BY <1>5, <2>3 DEF ProposerCounts, HeardPromises, HeardAcks
    <2>5. NoMessage \in Answers /\ NoMessage.type \notin Counted \cup {"Learn"}
      BY DEF Answers, NoMessage, Counted
    <2>6. Safe([I EXCEPT ![n] = t], T \cup Kept(NoMessage), R \cup Mail(n, NoMessage))
      BY <1>1, <1>5, <2>2, <2>4, <2>5, PassiveStep
    <2>7. SafeAfter(I, T, F, n, e, h)
      BY <2>1, <2>5, <2>6 DEF SafeAfter
    <2> QED BY <2>7 DEF h
  <1>8. CASE NackCounts(p, m) /\ ~(nacks <= N - Quorum)
    <2>1. h = NewPrepare(n, u, p.value)
      BY <1>2, <1>8 DEF HandleNack
    <2>2. /\ u \in Instances /\ u.acceptor = s.acceptor /\ u.disk = s.disk
          /\ u.learner = s.learner
      BY <1>1, <1>3 DEF Instances, ProposerStates
    <2> HIDE DEF u
    <2>3. p.value \in Commands
      BY <1>8 DEF Receipt, GoodInstance, HasValue, NackCounts
    <2>4. /\ h.inst \in Instances /\ h.resp \in Answers
          /\ h.inst.acceptor = s.acceptor /\ h.inst.disk = s.disk
          /\ h.inst.learner = s.learner /\ h.resp.type = "Prepare"
          /\ ProposerCounts(n, h.inst.proposer, T, R)
      BY <1>1, <2>1, <2>2, <2>3, NewPrepareFacts
    <2> HIDE DEF h
    <2>7. h.resp.type \notin Counted \cup {"Learn"}
      BY <2>4 DEF Counted
    <2>8. LearnerKnows(h.inst.learner, T)
      BY <1>5, <2>4
    <2> HIDE DEF R, s
    <2>9. s = I[n]
      BY DEF s
    <2>10. Safe([I EXCEPT ![n] = h.inst], T \cup Kept(h.resp), R \cup Mail(n, h.resp))
      BY <1>1, <2>4, <2>7, <2>8, <2>9, PassiveStep
    <2>11. SafeAfter(I, T, F, n, e, h)
      BY <2>7, <2>10 DEF SafeAfter, R
    <2> QED BY <2>11 DEF h, s
  <1> QED BY <1>6, <1>7, <1>8

\* A Learn on its way carries a decided command, and so does its repetition.
LEMMA LearnSafe ==
    ASSUME NEW I, NEW T, NEW F, NEW n, NEW e, Receipt(I, T, F, n, e),
           e.msg.type = "Learn"
    PROVE  SafeAfter(I, T, F, n, e, HandleLearn(n, I[n], e.msg))
  <1> DEFINE s == I[n]
             m == e.msg
             h == HandleLearn(n, s, m)
             R == Rest(F, e)
  <1>1. /\ m \in Messages /\ s \in Instances /\ n \in Nodes
        /\ R \in SUBSET F /\ I \in AllInstances
        /\ T \subseteq Messages /\ Safe(I, T, F)
    BY ReceiptTypes, RestType DEF Receipt
  <1>2. GoodResult(h)
    BY <1>1, ReceiptTypes DEF Handle
  <1>3. LearnerKnows(s.learner, T) /\ ProposerCounts(n, s.proposer, T, R)
    <2>1. LearnerKnows(s.learner, T) /\ ProposerCounts(n, s.proposer, T, F)
      BY <1>1 DEF Safe, CountInv
    <2> QED BY <1>1, <2>1, CountsStable DEF Arrives
  <1>4. Decided(T, m.command)
    BY <1>1 DEF Receipt, Safe, CountInv, MailTrue
  <1>5. /\ h.inst.acceptor = s.acceptor /\ h.inst.disk = s.disk
        /\ h.inst.proposer = s.proposer
        /\ h.inst.learner = Learned(s.learner, m)
    BY <1>1 DEF HandleLearn, Instances
  <1>6. Learned(s.learner, m).value \in {s.learner.value, m.command}
    <2>1. s.learner \in LearnerStates
      BY <1>1 DEF Instances
    <2>2. AtBallot(s.learner, m.ballot) \in LearnerStates
          /\ AtBallot(s.learner, m.ballot).value = s.learner.value
      <3>1. m.ballot \in Nat /\ NoVotes \in [Commands -> Nat]
        BY <1>1 DEF Messages, NoVotes
      <3> QED BY <2>1, <3>1 DEF AtBallot, LearnerStates
    <2>3. m.command \in Commands
      BY <1>1 DEF Messages
    <2>4. AtBallot(s.learner, m.ballot).votes[m.command] + 1 \in Nat
      BY <2>2, <2>3 DEF LearnerStates
    <2> QED BY <2>1, <2>2, <2>4, QuorumType DEF Learned, LearnerStates
  <1>7. LearnerKnows(h.inst.learner, T)
    BY <1>3, <1>4, <1>5, <1>6 DEF LearnerKnows
  <1>8. h.resp = NoMessage \/ (h.resp.type = "Learn" /\ h.resp.command = m.command)
    BY <1>1 DEF HandleLearn, Messages
  <1>9. h.resp.type \notin Counted
    BY <1>8 DEF Counted, NoMessage
  <1>10. h.resp.type = "Learn" => Decided(T, h.resp.command)
    BY <1>4, <1>8 DEF NoMessage
  <1>11. h.resp \in Answers /\ h.inst \in Instances
    BY <1>2 DEF GoodResult, GoodInstance
  <1>12. ProposerCounts(n, h.inst.proposer, T, R)
    BY <1>3, <1>5
  <1> HIDE DEF h, R
  <1>13. Safe([I EXCEPT ![n] = h.inst], T \cup Kept(h.resp), R \cup Mail(n, h.resp))
    BY <1>1, <1>5, <1>7, <1>9, <1>10, <1>11, <1>12, PassiveStep
  <1>14. SafeAfter(I, T, F, n, e, h)
    BY <1>9, <1>13 DEF SafeAfter, R
  <1> QED BY <1>14 DEF h

-----------------------------------------------------------------------------
(* The handlers of the acceptor.                                            *)

LEMMA SplitSafe ==
    ASSUME NEW I, NEW T, NEW F, NEW n, NEW e, Receipt(I, T, F, n, e)
    PROVE  /\ e.msg \in Messages /\ I[n] \in Instances /\ n \in Nodes
           /\ I \in AllInstances /\ T \subseteq Messages
           /\ VoteInv(I, T) /\ CountInv(I, T, F)
           /\ Rest(F, e) \in SUBSET F
           /\ LearnerKnows(I[n].learner, T)
           /\ ProposerCounts(n, I[n].proposer, T, F)
           /\ \A k \in Nodes : k # n => \A t : [I EXCEPT ![n] = t][k] = I[k]
           /\ \A t \in Instances : /\ [I EXCEPT ![n] = t] \in AllInstances
                                   /\ [I EXCEPT ![n] = t][n] = t
  BY ReceiptTypes, RestType DEF Receipt, Safe, CountInv, AllInstances

LEMMA PrepareSafe ==
    ASSUME NEW I, NEW T, NEW F, NEW n, NEW e, Receipt(I, T, F, n, e),
           e.msg.type = "Prepare"
    PROVE  SafeAfter(I, T, F, n, e, HandlePrepare(n, I[n], e.msg))
  <1> DEFINE s == I[n]
             m == e.msg
             b == m.ballot
             h == HandlePrepare(n, s, m)
             J == [I EXCEPT ![n] = h.inst]
             U == T \cup Kept(h.resp)
             R == Rest(F, e)
  <1>0. /\ m \in Messages /\ s \in Instances /\ n \in Nodes
        /\ I \in AllInstances /\ T \subseteq Messages
        /\ VoteInv(I, T) /\ CountInv(I, T, F) /\ R \in SUBSET F
        /\ LearnerKnows(s.learner, T) /\ ProposerCounts(n, s.proposer, T, F)
    BY SplitSafe
  <1>1. b \in Nat /\ GoodResult(h) /\ h.resp \in Answers /\ h.inst \in Instances
    BY ReceiptTypes DEF Handle, GoodResult, GoodInstance, Messages
  <1>2. CASE ~(s.acceptor.max_ballot < b)
    <2>1. h.inst = s /\ h.resp.type = "NackPrepare"
      BY <1>2 DEF HandlePrepare
    <2>2. h.resp.type \notin Counted \cup {"Learn"}
      BY <2>1 DEF Counted
    <2> QED BY <1>1, <2>1, <2>2, UnchangedSafe
  <1>3. CASE s.acceptor.max_ballot < b
    <2>0. h = HandlePrepare(n, s, m) /\ m.type = "Prepare"
      OBVIOUS
    <2>1. h.resp = [type |-> "Promise", sender |-> n, ballot |-> b,
                    max_accepted |-> s.acceptor.max_accepted]
      BY <1>3 DEF HandlePrepare
    <2>2. /\ h.inst.acceptor.max_ballot = b
          /\ h.inst.acceptor.max_accepted = s.acceptor.max_accepted
          /\ h.inst.disk.accepted = s.disk.accepted
          /\ h.inst.proposer = s.proposer /\ h.inst.learner = s.learner
      <3> HIDE DEF h, s, m
      <3> QED BY <1>0, <1>3, <2>0, PromisedFacts
    <2>3. h.resp.type = "Promise" /\ h.resp.sender = n /\ h.resp.ballot = b
          /\ h.resp \in Messages
      BY <1>1, <2>1 DEF Answers, NoMessage
    <2>4. Kept(h.resp) = {h.resp}
      BY <2>3 DEF Kept, RecordedTypes
    <2> HIDE DEF h
    <2>5. /\ J \in AllInstances /\ J[n] = h.inst
          /\ \A a \in Nodes : a # n => J[a] = I[a]
      BY <1>1, SplitSafe
    <2> HIDE DEF J
    <2>6. AcceptorVotes(n, s, T)
      BY <1>0 DEF VoteInv
    <2>7. s.acceptor.max_ballot \in Nat /\ s.acceptor.max_accepted.ballot \in Nat
          /\ s.acceptor.max_accepted.ballot <= s.acceptor.max_ballot
      BY <1>0, BallotTypes DEF Receipt, Durable
    <2>8. ASSUME NEW k \in OfType(T, "Promise"), k.sender = n
          PROVE  k.ballot < b
      <3>1. k.ballot \in Nat /\ k.ballot <= s.acceptor.max_ballot
        BY <2>6, <2>8, <1>0, PromiseShape DEF AcceptorVotes
      <3> QED BY <1>1, <1>3, <2>7, <3>1
    <2>9. QuietVotes(I, T, J, T)
      <3>1. ASSUME NEW a \in Nodes
            PROVE  /\ J[a].acceptor.max_ballot >= I[a].acceptor.max_ballot
                   /\ J[a].acceptor.max_accepted = I[a].acceptor.max_accepted
                   /\ J[a].disk.accepted = I[a].disk.accepted
        <4>1. I[a].acceptor.max_ballot \in Nat
          BY <1>0, MaxBallotType
        <4> QED BY <1>1, <1>3, <2>2, <2>5, <4>1
      <3> QED BY <3>1 DEF QuietVotes
    <2>10. VoteInv(J, T)
      BY <2>5, <2>9, <1>0, QuietStep
    <2>11. VoteInv(J, T \cup {h.resp})
      <3>1. /\ J[n].acceptor.max_ballot = b
            /\ J[n].acceptor.max_accepted = s.acceptor.max_accepted
            /\ J[n].acceptor.max_accepted.ballot < b
        BY <1>1, <1>3, <2>2, <2>5, <2>7
      <3> HIDE DEF s, b
      <3> QED
        BY <1>1, <2>1, <2>3, <2>5, <2>8, <2>10, <3>1, <1>0, PromiseStep
    <2>12. h.resp \notin T
      <3>1. h.resp \in T => h.resp \in OfType(T, "Promise")
        BY <2>3 DEF OfType
      <3> QED BY <1>1, <2>3, <2>8, <3>1
    <2>13. T \subseteq U /\ h.resp \in U /\ U = T \cup {h.resp}
      BY <2>4
    <2> HIDE DEF U
    <2>14. \A a, d : AckOf(a, d) \in U => AckOf(a, d) \in T
      BY <2>3, <2>13 DEF AckOf
    <2>15. ProposerCounts(n, J[n].proposer, U, R \cup Mail(n, h.resp))
      <3>1. Arrives(T, F, R \cup Mail(n, h.resp))
        BY <2>12, MailFacts, <1>0 DEF Arrives
      <3> QED BY <2>2, <2>5, <2>13, <3>1, <1>0, CountsStable
    <2>16. LearnerKnows(J[n].learner, U)
      BY <2>2, <2>5, <2>13, <1>0, DecidedStable DEF LearnerKnows
    <2>17. \A f \in R : f.msg.type = "Accept" => AckOf(f.to, f.msg.ballot) \notin U
      BY <2>14, <1>0 DEF CountInv, MailTrue
    <2>18. CountInv(J, U, R \cup Mail(n, h.resp))
      <3>1. h.resp.type # "Accept" /\ h.resp.type # "Learn"
        BY <2>3
      <3> HIDE DEF R, s, b, m
      <3> QED
        BY <1>1, <3>1, <2>5, <2>12, <2>13, <2>15, <2>16, <2>17,
           <1>0, CountStep
    <2>19. SafeAfter(I, T, F, n, e, h)
      BY <2>11, <2>12, <2>13, <2>18 DEF SafeAfter, Safe, J, U
    <2> QED BY <2>19 DEF h
  <1> QED BY <1>2, <1>3

\* The node votes at most once for a request: it is received once.
LEMMA AcceptSafe ==
    ASSUME NEW I, NEW T, NEW F, NEW n, NEW e, Receipt(I, T, F, n, e),
           e.msg.type = "Accept"
    PROVE  SafeAfter(I, T, F, n, e, HandleAccept(n, I[n], e.msg))
  <1> DEFINE s == I[n]
             m == e.msg
             b == m.ballot
             c == m.command
             h == HandleAccept(n, s, m)
             J == [I EXCEPT ![n] = h.inst]
             U == T \cup Kept(h.resp)
             R == Rest(F, e)
  <1>0. /\ m \in Messages /\ s \in Instances /\ n \in Nodes
        /\ I \in AllInstances /\ T \subseteq Messages
        /\ VoteInv(I, T) /\ CountInv(I, T, F) /\ R \in SUBSET F
        /\ LearnerKnows(s.learner, T) /\ ProposerCounts(n, s.proposer, T, F)
    BY SplitSafe
  <1>1. b \in Nat /\ c \in Commands
        /\ GoodResult(h) /\ h.resp \in Answers /\ h.inst \in Instances
    BY ReceiptTypes DEF Handle, GoodResult, GoodInstance, Messages
  <1>2. CASE ~(b >= s.acceptor.max_ballot)
    <2>1. h.inst = s /\ h.resp.type = "NackAccept"
      BY <1>2 DEF HandleAccept
    <2>2. h.resp.type \notin Counted \cup {"Learn"}
      BY <2>1 DEF Counted
    <2> QED BY <1>1, <2>1, <2>2, UnchangedSafe
  <1>3. CASE b >= s.acceptor.max_ballot
    <2>0. h = HandleAccept(n, s, m) /\ m.type = "Accept"
      OBVIOUS
    <2>1. h.resp = AckOf(n, b)
      BY <1>3 DEF HandleAccept, AckOf
    <2>2. /\ h.inst.acceptor = [max_ballot |-> b,
                                max_accepted |-> [ballot |-> b, command |-> c]]
          /\ h.inst.disk.accepted = [ballot |-> b, command |-> c]
          /\ h.inst.proposer = s.proposer /\ h.inst.learner = s.learner
      <3> HIDE DEF h, s, m
      <3> QED BY <1>0, <1>3, <2>0, AcceptedFacts
    <2>3. h.resp.type = "AckAccept"
      BY <2>1 DEF AckOf
    <2>4. Kept(h.resp) = {h.resp}
      BY <2>3 DEF Kept, RecordedTypes
    <2>5. MailTrue(T, e) /\ m \in T /\ AckOf(n, b) \notin T
      BY <1>0 DEF Receipt, CountInv, MailTrue, Counted
    <2>6. m \in OfType(T, "Accept") /\ RequestTrue(I, T, m)
      BY <2>5, <1>0 DEF OfType, VoteInv
    <2>7. m = Request(b, c)
      BY <2>6, <1>0, AcceptShape DEF RequestTrue
    <2> HIDE DEF h
    <2>8. /\ J \in AllInstances /\ J[n] = h.inst
          /\ \A a \in Nodes : a # n => J[a] = I[a]
      BY <1>1, SplitSafe
    <2>9. T \subseteq U /\ h.resp \in U /\ U = T \cup {h.resp}
      BY <2>4
    <2> HIDE DEF J, U
    <2>10. VoteInv(J, T \cup {AckOf(n, b)})
      <3>1. s.acceptor.max_accepted.ballot <= s.acceptor.max_ballot
        BY DEF Receipt, Durable
      <3>2. /\ J[n].acceptor = [max_ballot |-> b,
                                max_accepted |-> [ballot |-> b, command |-> c]]
            /\ J[n].disk.accepted = [ballot |-> b, command |-> c]
        BY <2>2, <2>8
      <3>3. Request(b, c) \in T
        BY <2>5, <2>7
      <3> HIDE DEF b, c
      <3> QED BY <1>1, <1>3, <2>8, <3>1, <3>2, <3>3, <1>0, VoteStep
    <2>11. \A a, d : AckOf(a, d) \in U => AckOf(a, d) \in T \/ (a = n /\ d = b)
      BY <2>1, <2>9 DEF AckOf
    <2>12. ProposerCounts(n, J[n].proposer, U, R \cup Mail(n, h.resp))
      <3>1. Arrives(T, F, R \cup Mail(n, h.resp))
        BY <2>1, <2>5, MailFacts, <1>0 DEF Arrives
      <3> QED BY <2>2, <2>8, <2>9, <3>1, <1>0, CountsStable
    <2>13. LearnerKnows(J[n].learner, U)
      BY <2>2, <2>8, <2>9, <1>0, DecidedStable DEF LearnerKnows
    <2>14. ASSUME NEW f \in R, f.msg.type = "Accept",
                  AckOf(f.to, f.msg.ballot) \in U
           PROVE  FALSE
      <3>1. f \in F /\ f # e
        BY <2>14 DEF Rest, Counted
      <3>2. MailTrue(T, f) /\ f \in Envelopes /\ e \in Envelopes /\ e.to = n
        BY <3>1, <1>0 DEF CountInv, Receipt
      <3>3. f.to = n /\ f.msg.ballot = b
        BY <2>11, <2>14, <3>2 DEF MailTrue
      <3>4. f.msg \in OfType(T, "Accept")
        BY <2>14, <3>2 DEF MailTrue, Counted, OfType
      <3>5. f.msg = m
        BY <2>6, <3>3, <3>4 DEF RequestTrue
      <3> QED BY <3>1, <3>2, <3>3, <3>5 DEF Envelopes
    <2>15. CountInv(J, U, R \cup Mail(n, h.resp))
      <3> HIDE DEF R, s
      <3>2. h.resp \notin T
        BY <2>1, <2>5
      <3> QED
        BY <1>1, <2>3, <2>8, <2>9, <2>12, <2>13, <2>14, <3>2,
           <1>0, CountStep
    <2>16. SafeAfter(I, T, F, n, e, h)
      BY <2>1, <2>5, <2>9, <2>10, <2>15 DEF SafeAfter, Safe, J, U
    <2> QED BY <2>16 DEF h
  <1> QED BY <1>2, <1>3

-----------------------------------------------------------------------------
(* The handlers of the proposer.                                            *)

\* One more promise than p has counted has been heard, of proposals up to best.
OneMorePromised(n, p, T, F, best) ==
    /\ best \in Proposals
    /\ \E H \in SUBSET Nodes :
          /\ p.promises + 1 <= Cardinality(H)
          /\ \A a \in H : \E k \in OfType(T, "Promise") :
                /\ Heard(n, T, F, k)
                /\ k.sender = a
                /\ k.ballot = p.ballot
                /\ k.max_accepted.ballot <= best.ballot
    /\ best # NoProposal =>
          \E k \in OfType(T, "Promise") :
              k.ballot = p.ballot /\ k.max_accepted = best

\* The proposer counts a promise although it does not look at the sender: it
\* has not heard from that acceptor before, or e would not be on its way.
LEMMA OneMorePromise ==
    ASSUME NEW I, NEW T, NEW F, NEW n, NEW e, Receipt(I, T, F, n, e),
           e.msg.type = "Promise", I[n].proposer.state = "Proposal",
           e.msg.ballot = I[n].proposer.ballot
    PROVE  OneMorePromised(n, I[n].proposer, T, Rest(F, e),
                           Higher(I[n].proposer.best, e.msg.max_accepted))
  <1> DEFINE p == I[n].proposer
             m == e.msg
             a0 == m.sender
             R == Rest(F, e)
             best == Higher(p.best, m.max_accepted)
  <1>0. /\ m \in Messages /\ I[n] \in Instances /\ n \in Nodes
        /\ I \in AllInstances /\ T \subseteq Messages
        /\ VoteInv(I, T) /\ CountInv(I, T, F) /\ R \in SUBSET F
        /\ ProposerCounts(n, p, T, F)
    BY SplitSafe
  <1>1. p \in ProposerStates /\ p.promises \in Nat /\ p.best \in Proposals
        /\ p.best.ballot \in Nat
    BY <1>0 DEF Instances, ProposerStates, Proposals, NoProposal
  <1>2. m \in OfType(T, "Promise")
    BY <1>0 DEF Receipt, CountInv, MailTrue, Counted, OfType
  <1>3. /\ a0 \in Nodes /\ m.max_accepted \in Proposals
        /\ m.max_accepted.ballot \in Nat /\ m \in T
    BY <1>0, <1>2, PromiseShape
  <1>4. PromiseTrue(T, m)
    BY <1>0, <1>2 DEF VoteInv
  <1>5. R = F \ {e} /\ e = [to |-> n, msg |-> m] /\ e \in F
    BY DEF Rest, Counted, Receipt, Envelopes
  <1>6. best \in Proposals /\ best.ballot \in Nat
        /\ p.best.ballot <= best.ballot /\ m.max_accepted.ballot <= best.ballot
    BY <1>1, <1>3 DEF Higher
  <1>7. best = p.best \/ best = m.max_accepted
    BY DEF Higher
  <1>8. PICK H \in SUBSET Nodes : /\ p.promises <= Cardinality(H)
                                  /\ HeardPromises(n, p, T, F, H)
    BY <1>0 DEF ProposerCounts
  <1>9. p.best # NoProposal =>
          \E k \in OfType(T, "Promise") :
             k.ballot = p.ballot /\ k.max_accepted = p.best
    BY <1>0 DEF ProposerCounts
  <1> HIDE DEF p, R, best
  <1>10. a0 \notin H
    <2> SUFFICES ASSUME a0 \in H PROVE FALSE
      OBVIOUS
    <2>1. PICK k \in OfType(T, "Promise") :
             Heard(n, T, F, k) /\ k.sender = a0 /\ k.ballot = p.ballot
      BY <1>8 DEF HeardPromises
    <2>2. k = m
      BY <1>4, <2>1 DEF PromiseTrue, p
    <2> QED BY <1>5, <2>1, <2>2 DEF Heard
  <1>11. /\ H \cup {a0} \in SUBSET Nodes
         /\ p.promises + 1 <= Cardinality(H \cup {a0})
    <2>1. IsFiniteSet(H) /\ Cardinality(H) \in Nat
      BY SomeNodes
    <2>2. Cardinality(H \cup {a0}) = Cardinality(H) + 1
      BY <1>10, <2>1, FS_AddElement
    <2> QED BY <1>1, <1>3, <1>8, <2>1, <2>2
  <1>12. ASSUME NEW a \in H \cup {a0}
         PROVE  \E k \in OfType(T, "Promise") :
                   /\ Heard(n, T, R, k)
                   /\ k.sender = a
                   /\ k.ballot = p.ballot
                   /\ k.max_accepted.ballot <= best.ballot
    <2>1. CASE a = a0
      <3>1. Heard(n, T, R, m)
        BY <1>3, <1>5 DEF Heard
      <3> QED BY <1>2, <1>6, <2>1, <3>1 DEF p
    <2>2. CASE a \in H
      <3>1. PICK k \in OfType(T, "Promise") :
               /\ Heard(n, T, F, k)
               /\ k.sender = a
               /\ k.ballot = p.ballot
               /\ k.max_accepted.ballot <= p.best.ballot
        BY <1>8, <2>2 DEF HeardPromises
      <3>2. k.max_accepted.ballot \in Nat
        BY <1>0, PromiseShape
      <3>3. k.max_accepted.ballot <= best.ballot
        BY <1>1, <1>6, <3>1, <3>2
      <3>4. Heard(n, T, R, k)
        BY <1>0, <3>1 DEF Heard
      <3> QED BY <3>1, <3>3, <3>4
    <2> QED BY <2>1, <2>2
  <1>13. best # NoProposal =>
           \E k \in OfType(T, "Promise") :
              k.ballot = p.ballot /\ k.max_accepted = best
    BY <1>2, <1>7, <1>9 DEF p
  <1>14. OneMorePromised(n, p, T, R, best)
    BY <1>6, <1>11, <1>12, <1>13 DEF OneMorePromised
  <1> QED BY <1>14 DEF p, R, best

\* The same for acknowledgements.
LEMMA OneMoreAck ==
    ASSUME NEW I, NEW T, NEW F, NEW n, NEW e, Receipt(I, T, F, n, e),
           e.msg.type = "AckAccept", I[n].proposer.state = "Accepting",
           e.msg.ballot = I[n].proposer.ballot
    PROVE  /\ Request(I[n].proposer.ballot, I[n].proposer.value) \in T
           /\ \E H \in SUBSET Nodes :
                 /\ I[n].proposer.accepts + 1 <= Cardinality(H)
                 /\ HeardAcks(n, I[n].proposer, T, Rest(F, e), H)
  <1> DEFINE p == I[n].proposer
             m == e.msg
             a0 == m.sender
             R == Rest(F, e)
  <1>0. /\ m \in Messages /\ I[n] \in Instances /\ n \in Nodes
        /\ I \in AllInstances /\ T \subseteq Messages
        /\ CountInv(I, T, F) /\ R \in SUBSET F
        /\ ProposerCounts(n, p, T, F)
    BY SplitSafe
  <1>1. p \in ProposerStates /\ p.accepts \in Nat
    BY <1>0 DEF Instances, ProposerStates
  <1>2. m \in OfType(T, "AckAccept")
    BY <1>0 DEF Receipt, CountInv, MailTrue, Counted, OfType
  <1>3. a0 \in Nodes /\ m = AckOf(a0, p.ballot) /\ m \in T
    BY <1>0, <1>2, AckShape
  <1>5. R = F \ {e} /\ e = [to |-> n, msg |-> m] /\ e \in F
    BY DEF Rest, Counted, Receipt, Envelopes
  <1>6. PICK H \in SUBSET Nodes : /\ p.accepts <= Cardinality(H)
                                  /\ HeardAcks(n, p, T, F, H)
    BY <1>0 DEF ProposerCounts
  <1>7. Request(p.ballot, p.value) \in T
    BY <1>0 DEF ProposerCounts
  <1> HIDE DEF p, R
  <1>8. a0 \notin H
    BY <1>3, <1>5, <1>6 DEF HeardAcks, Heard
  <1>9. /\ H \cup {a0} \in SUBSET Nodes
        /\ p.accepts + 1 <= Cardinality(H \cup {a0})
    <2>1. IsFiniteSet(H) /\ Cardinality(H) \in Nat
      BY SomeNodes
    <2>2. Cardinality(H \cup {a0}) = Cardinality(H) + 1
      BY <1>8, <2>1, FS_AddElement
    <2> QED BY <1>1, <1>3, <1>6, <2>1, <2>2
  <1>10. HeardAcks(n, p, T, R, H \cup {a0})
    <2>1. Heard(n, T, R, AckOf(a0, p.ballot))
      BY <1>3, <1>5 DEF Heard
    <2>2. \A a \in H : Heard(n, T, R, AckOf(a, p.ballot))
      BY <1>0, <1>6 DEF HeardAcks, Heard
    <2> QED BY <2>1, <2>2 DEF HeardAcks
  <1> QED BY <1>7, <1>9, <1>10 DEF p, R

LEMMA PassiveSafe ==
    ASSUME NEW I, NEW T, NEW F, NEW n, NEW e, Receipt(I, T, F, n, e),
           NEW h, h.inst \in Instances, h.resp \in Answers,
           h.inst.acceptor = I[n].acceptor, h.inst.disk = I[n].disk,
           h.inst.learner = I[n].learner,
           h.resp.type \notin Counted,
           ProposerCounts(n, h.inst.proposer, T, Rest(F, e)),
           h.resp.type = "Learn" => Decided(T, h.resp.command)
    PROVE  SafeAfter(I, T, F, n, e, h)
  <1>1. /\ n \in Nodes /\ I \in AllInstances /\ T \subseteq Messages
        /\ Safe(I, T, F)
    BY DEF Receipt
  <1>2. LearnerKnows(h.inst.learner, T)
    BY SplitSafe
  <1>3. Safe([I EXCEPT ![n] = h.inst], T \cup Kept(h.resp),
             Rest(F, e) \cup Mail(n, h.resp))
    BY <1>1, <1>2, RestType, PassiveStep
  <1> QED BY <1>3 DEF SafeAfter

\* Accept requests of a ballot of its own that nobody has requested in.
FreshRequest(T, resp) ==
    resp.type = "Accept" =>
        \A k \in OfType(T, "Accept") : k.ballot # resp.ballot

\* From a quorum of promises to the request.
LEMMA QuorumRequestSafe ==
    ASSUME NEW I, NEW T, NEW F, NEW n, NEW e, Receipt(I, T, F, n, e),
           NEW b \in Nat, b > 0, Owner(b) = n, NEW v \in Commands,
           SafeAt(I, T, b, v),
           NEW h, h = NewAccept(n, I[n], b, v), FreshRequest(T, h.resp)
    PROVE  SafeAfter(I, T, F, n, e, h)
  <1> DEFINE J == [I EXCEPT ![n] = h.inst]
             U == T \cup Kept(h.resp)
             R == Rest(F, e)
             req == Request(b, v)
  <1>0. /\ I[n] \in Instances /\ n \in Nodes
        /\ I \in AllInstances /\ T \subseteq Messages
        /\ VoteInv(I, T) /\ CountInv(I, T, F) /\ R \in SUBSET F
        /\ LearnerKnows(I[n].learner, T)
    BY SplitSafe
  <1>1. /\ h.inst \in Instances /\ h.resp \in Messages
        /\ h.inst.acceptor = I[n].acceptor /\ h.inst.disk = I[n].disk
        /\ h.inst.learner = I[n].learner
        /\ h.resp = req /\ h.resp.type = "Accept" /\ h.resp.ballot = b
        /\ h.inst.proposer.state = "Accepting"
        /\ h.inst.proposer.ballot = b /\ h.inst.proposer.value = v
        /\ h.inst.proposer.promises = 0 /\ h.inst.proposer.accepts = 0
    BY <1>0, NewAcceptFacts
  <1>2. /\ J \in AllInstances /\ J[n] = h.inst
        /\ \A a \in Nodes : a # n => J[a] = I[a]
    BY <1>1, SplitSafe
  <1>3. U = T \cup {req}
    BY <1>1 DEF Kept, RecordedTypes
  <1>4. \A k \in OfType(T, "Accept") : k.ballot # b
    BY <1>1 DEF FreshRequest
  <1>5. req \notin T
    BY <1>4, RequestIn
  <1> HIDE DEF J, U, R, req
  <1>6. VoteInv(I, U)
    BY <1>0, <1>3, <1>4, RequestStep DEF req
  <1>7. QuietVotes(I, U, J, U)
    BY <1>0, <1>1, <1>2, MaxBallotType DEF QuietVotes
  <1>8. U \subseteq Messages
    BY <1>0, <1>1, <1>3
  <1>9. VoteInv(J, U)
    BY <1>0, <1>2, <1>6, <1>7, <1>8, QuietStep
  <1>10. \A a, d : AckOf(a, d) \in U => AckOf(a, d) \in T
    BY <1>3 DEF AckOf, Request, req
  <1>11. ProposerCounts(n, h.inst.proposer, U, R \cup Mail(n, h.resp))
    <2>1. {} \in SUBSET Nodes /\ h.inst.proposer.accepts <= Cardinality({})
          /\ HeardAcks(n, h.inst.proposer, U, R \cup Mail(n, h.resp), {})
      BY <1>1, FS_EmptySet DEF HeardAcks
    <2>2. Request(h.inst.proposer.ballot, h.inst.proposer.value) \in U
      BY <1>1, <1>3 DEF req
    <2> QED BY <1>1, <2>1, <2>2 DEF ProposerCounts
  <1>12. LearnerKnows(h.inst.learner, U)
    BY <1>0, <1>1, <1>3, DecidedStable DEF LearnerKnows
  <1>13. \A f \in R : f.msg.type = "Accept" => AckOf(f.to, f.msg.ballot) \notin U
    BY <1>0, <1>10 DEF CountInv, MailTrue
  <1>14. ASSUME NEW k \in Nodes, AckOf(k, b) \in U
         PROVE  FALSE
    <2>1. AckOf(k, b) \in OfType(T, "AckAccept") /\ AckOf(k, b).ballot = b
      BY <1>10, <1>14, AckIn
    <2>2. \E r \in OfType(T, "Accept") : r.ballot = b
      BY <1>0, <2>1 DEF VoteInv
    <2> QED BY <1>4, <2>2
  <1>15. CountInv(J, U, R \cup Mail(n, h.resp))
    <2>1. T \subseteq U /\ h.resp \notin T /\ h.resp \in U /\ h.resp \in Answers
      BY <1>1, <1>3, <1>5 DEF Answers
    <2>2. ProposerCounts(n, J[n].proposer, U, R \cup Mail(n, h.resp))
          /\ LearnerKnows(J[n].learner, U)
      BY <1>2, <1>11, <1>12
    <2>3. \A k \in Nodes : AckOf(k, h.resp.ballot) \notin U
      BY <1>1, <1>14
    <2>4. h.resp.type = "Learn" => Decided(U, h.resp.command)
      BY <1>1
    <2>5. \A a \in Nodes : a # n => J[a] = I[a]
      BY <1>2
    <2>6. R \in SUBSET F /\ CountInv(I, T, F) /\ n \in Nodes
      BY <1>0
    <2> QED
      BY <1>13, <2>1, <2>2, <2>3, <2>4, <2>5, <2>6, CountStep
  <1> QED BY <1>1, <1>5, <1>9, <1>15 DEF SafeAfter, Safe, J, U, R

\* A quorum of promises makes the command to request safe.
LEMMA PromiseSafe ==
    ASSUME NEW I, NEW T, NEW F, NEW n, NEW e, Receipt(I, T, F, n, e),
           e.msg.type = "Promise",
           FreshRequest(T, HandlePromise(n, I[n], e.msg).resp)
    PROVE  SafeAfter(I, T, F, n, e, HandlePromise(n, I[n], e.msg))
  <1> DEFINE s == I[n]
             p == s.proposer
             m == e.msg
             best == Higher(p.best, m.max_accepted)
             promises == p.promises + 1
             R == Rest(F, e)
             h == HandlePromise(n, s, m)
             OneMore(H) ==
                 /\ promises <= Cardinality(H)
                 /\ \A a \in H : \E k \in OfType(T, "Promise") :
                       /\ Heard(n, T, R, k)
                       /\ k.sender = a
                       /\ k.ballot = p.ballot
                       /\ k.max_accepted.ballot <= best.ballot
  <1>0. /\ m \in Messages /\ s \in Instances /\ n \in Nodes
        /\ I \in AllInstances /\ T \subseteq Messages
        /\ VoteInv(I, T) /\ R \in SUBSET F
        /\ ProposerCounts(n, p, T, F) /\ p \in ProposerStates
    BY SplitSafe DEF Instances
  <1>1. promises \in Nat /\ p.ballot \in Nat
    BY <1>0 DEF ProposerStates
  <1>2. CASE p.state # "Proposal" \/ m.ballot # p.ballot
    <2>1. h = Ignored(s)
      BY <1>2 DEF HandlePromise
    <2> QED BY <2>1, SilentSafe
  <1>3. CASE p.state = "Proposal" /\ m.ballot = p.ballot
    <2>0. /\ best \in Proposals
          /\ \E H \in SUBSET Nodes : OneMore(H)
          /\ best # NoProposal =>
                \E k \in OfType(T, "Promise") :
                    k.ballot = p.ballot /\ k.max_accepted = best
      <3>1. OneMorePromised(n, p, T, R, best)
        BY <1>3, OneMorePromise
      <3> HIDE DEF best, p, R
      <3> QED BY <3>1 DEF OneMorePromised
    <2>1. PICK H \in SUBSET Nodes : OneMore(H)
      BY <2>0
    <2>2. p.ballot > 0 /\ p.accepts = 0
      BY <1>0, <1>3 DEF ProposerCounts
    <2>3. CASE promises < Quorum
      <3> DEFINE t == [s EXCEPT !.proposer.promises = promises,
                                !.proposer.best = best]
      <3>1. h = [inst |-> t, resp |-> NoMessage]
        BY <1>1, <1>3, <2>3, QuorumType DEF HandlePromise
      <3>2. GoodResult(h)
        BY <1>0, ReceiptTypes DEF Handle
      <3>3. /\ t.acceptor = s.acceptor /\ t.disk = s.disk
            /\ t.learner = s.learner
            /\ t.proposer = [p EXCEPT !.promises = promises, !.best = best]
        BY <1>0 DEF Instances
      <3>0. p \in ProposerStates
        BY <1>0 DEF Instances
      <3> HIDE DEF t, h, best, promises, p
      <3>4. /\ t.proposer.state = p.state /\ t.proposer.ballot = p.ballot
            /\ t.proposer.promises = promises /\ t.proposer.accepts = p.accepts
            /\ t.proposer.best = best
        BY <3>0, <3>3 DEF ProposerStates
      <3>5. HeardPromises(n, t.proposer, T, R, H)
        BY <2>1, <3>4 DEF HeardPromises
      <3>6. ProposerCounts(n, t.proposer, T, R)
        BY <1>3, <2>0, <2>1, <2>2, <3>4, <3>5 DEF ProposerCounts
      <3>7. /\ h.inst = t /\ h.resp = NoMessage
            /\ h.inst \in Instances /\ h.resp \in Answers
            /\ h.resp.type \notin Counted /\ h.resp.type # "Learn"
        BY <3>1, <3>2 DEF GoodResult, GoodInstance, NoMessage, Counted
      <3>8. SafeAfter(I, T, F, n, e, h)
        BY <3>3, <3>6, <3>7, PassiveSafe
      <3> QED BY <3>8 DEF h
    <2>4. CASE ~(promises < Quorum)
      <3> DEFINE v == ValueToAccept(best, p.value)
      <3>1. h = NewAccept(n, s, p.ballot, v)
        BY <1>1, <1>3, <2>4, QuorumType DEF HandlePromise
      <3>2. v \in Commands
        <4>1. p.value \in Commands
          BY <1>3 DEF Receipt, GoodInstance, HasValue
        <4> QED BY <2>0, <4>1, ValueToAcceptType
      <3>3. H \in Quorums
        <4>1. Cardinality(H) \in Nat
          BY SomeNodes
        <4> QED BY <1>1, <2>1, <2>4, <4>1, QuorumType DEF Quorums
      <3>4. SafeAt(I, T, p.ballot, v)
        <4> HIDE DEF best, p
        <4> QED BY <1>0, <1>1, <2>0, <2>1, <3>3, QuorumSafe
      <3>5. Owner(p.ballot) = n
        BY DEF Receipt
      <3>6. FreshRequest(T, h.resp)
        OBVIOUS
      <3> HIDE DEF h, v
      <3>7. SafeAfter(I, T, F, n, e, h)
        BY <1>1, <2>2, <3>1, <3>2, <3>4, <3>5, <3>6, QuorumRequestSafe
      <3> QED BY <3>7 DEF h
    <2> QED BY <2>3, <2>4
  <1> QED BY <1>2, <1>3

\* A quorum of acknowledgements has decided what the proposer tells to learn.
LEMMA AckAcceptSafe ==
    ASSUME NEW I, NEW T, NEW F, NEW n, NEW e, Receipt(I, T, F, n, e),
           e.msg.type = "AckAccept"
    PROVE  SafeAfter(I, T, F, n, e, HandleAckAccept(n, I[n], e.msg))
  <1> DEFINE s == I[n]
             p == s.proposer
             m == e.msg
             accepts == p.accepts + 1
             R == Rest(F, e)
             h == HandleAckAccept(n, s, m)
  <1>0. /\ m \in Messages /\ s \in Instances /\ n \in Nodes
        /\ I \in AllInstances /\ T \subseteq Messages
        /\ VoteInv(I, T) /\ R \in SUBSET F
        /\ ProposerCounts(n, p, T, F) /\ p \in ProposerStates
    BY SplitSafe DEF Instances
  <1>1. accepts \in Nat /\ p.ballot \in Nat
    BY <1>0 DEF ProposerStates
  <1>2. GoodResult(h)
    BY <1>0, ReceiptTypes DEF Handle
  <1>3. CASE p.state # "Accepting" \/ m.ballot # p.ballot
    <2>1. h = Ignored(s)
      BY <1>3 DEF HandleAckAccept
    <2> QED BY <2>1, SilentSafe
  <1>4. CASE p.state = "Accepting" /\ m.ballot = p.ballot
    <2>1. PICK H \in SUBSET Nodes :
                 accepts <= Cardinality(H) /\ HeardAcks(n, p, T, R, H)
      BY <1>4, OneMoreAck
    <2>2. Request(p.ballot, p.value) \in T
      BY <1>4, OneMoreAck
    <2>3. p.ballot > 0 /\ p.promises = 0
      BY <1>0, <1>4 DEF ProposerCounts
    <2>4. CASE accepts < Quorum
      <3> DEFINE t == [s EXCEPT !.proposer.accepts = accepts]
      <3>1. h = [inst |-> t, resp |-> NoMessage]
        BY <1>1, <1>4, <2>4, QuorumType DEF HandleAckAccept
      <3>2. /\ t.acceptor = s.acceptor /\ t.disk = s.disk
            /\ t.learner = s.learner
            /\ t.proposer = [p EXCEPT !.accepts = accepts]
        BY <1>0 DEF Instances
      <3>3. /\ t.proposer.state = p.state /\ t.proposer.ballot = p.ballot
            /\ t.proposer.promises = p.promises
            /\ t.proposer.accepts = accepts /\ t.proposer.value = p.value
        BY <1>0, <3>2 DEF ProposerStates
      <3> HIDE DEF t, h, accepts, R
      <3>4. HeardAcks(n, t.proposer, T, R, H)
        BY <2>1, <3>3 DEF HeardAcks
      <3>5. ProposerCounts(n, t.proposer, T, R)
        BY <1>4, <2>1, <2>2, <2>3, <3>3, <3>4 DEF ProposerCounts
      <3>6. /\ h.inst = t /\ h.resp = NoMessage
            /\ h.inst \in Instances /\ h.resp \in Answers
            /\ h.resp.type \notin Counted /\ h.resp.type # "Learn"
        BY <1>2, <3>1 DEF GoodResult, GoodInstance, NoMessage, Counted
      <3>7. SafeAfter(I, T, F, n, e, h)
        BY <3>2, <3>5, <3>6, PassiveSafe DEF R
      <3> QED BY <3>7 DEF h
    <2>5. CASE ~(accepts < Quorum)
      <3> DEFINE q == [FreshProposer(n) EXCEPT !.state = "Learning",
                                               !.ballot = p.ballot]
      <3>1. h = [inst |-> [s EXCEPT !.proposer = q],
                 resp |-> [type |-> "Learn", sender |-> n,
                           ballot |-> p.ballot, command |-> p.value]]
        BY <1>1, <1>4, <2>5, QuorumType DEF HandleAckAccept
      <3>2. q.state = "Learning" /\ q.promises = 0 /\ q.accepts = 0
        BY DEF FreshProposer
      <3> HIDE DEF q
      <3>3. /\ h.inst.acceptor = s.acceptor /\ h.inst.disk = s.disk
            /\ h.inst.learner = s.learner /\ h.inst.proposer = q
            /\ h.resp.type = "Learn" /\ h.resp.command = p.value
        BY <1>0, <3>1 DEF Instances
      <3>4. ProposerCounts(n, q, T, R)
        BY <1>0, <3>2, NothingCounted
      <3>5. Decided(T, p.value)
        <4>1. Cardinality(H) >= Quorum
          <5>1. Cardinality(H) \in Nat
            BY SomeNodes
          <5> QED BY <1>1, <2>1, <2>5, <5>1, QuorumType
        <4> QED BY <2>1, <2>2, <4>1, HeardIsDecided
      <3>6. /\ h.inst \in Instances /\ h.resp \in Answers
            /\ h.resp.type \notin Counted
        BY <1>2, <3>3 DEF GoodResult, GoodInstance, Counted
      <3> HIDE DEF h
      <3>7. SafeAfter(I, T, F, n, e, h)
        BY <3>3, <3>4, <3>5, <3>6, PassiveSafe
      <3> QED BY <3>7 DEF h
    <2> QED BY <2>4, <2>5
  <1> QED BY <1>3, <1>4

-----------------------------------------------------------------------------
(* Whatever is received.                                                    *)

LEMMA HandleSafe ==
    ASSUME NEW I, NEW T, NEW F, NEW n, NEW e, Receipt(I, T, F, n, e),
           FreshRequest(T, Handle(n, I[n], e.msg).resp)
    PROVE  SafeAfter(I, T, F, n, e, Handle(n, I[n], e.msg))
  <1>1. e.msg \in Messages
    BY ReceiptTypes
  <1>2. CASE e.msg.type = "Prepare"
    BY <1>2, PrepareSafe DEF Handle
  <1>3. CASE e.msg.type = "Promise"
    BY <1>3, PromiseSafe DEF Handle
  <1>4. CASE e.msg.type = "Accept"
    BY <1>4, AcceptSafe DEF Handle
  <1>5. CASE e.msg.type = "AckAccept"
    BY <1>5, AckAcceptSafe DEF Handle
  <1>6. CASE e.msg.type \in {"NackPrepare", "NackAccept"}
    BY <1>6, NackSafe DEF Handle
  <1>7. CASE e.msg.type = "Learn"
    BY <1>7, LearnSafe DEF Handle
  <1> QED BY <1>1, <1>2, <1>3, <1>4, <1>5, <1>6, <1>7, MessageTypes

-----------------------------------------------------------------------------
(* The chain of answers.                                                    *)

LEMMA FewerSafe ==
    ASSUME NEW I, NEW T, NEW G, Safe(I, T, G), NEW F, F \subseteq G
    PROVE  Safe(I, T, F)
  <1>1. Arrives(T, G, F)
    BY DEF Arrives
  <1>2. \A a \in Nodes : ProposerCounts(a, I[a].proposer, T, F)
    BY <1>1, CountsStable DEF Safe, CountInv
  <1> QED BY <1>2 DEF Safe, CountInv

\* The copies of an answer for the other nodes.
Copies(m) == {[to |-> k, msg |-> m] : k \in Audience(m)}

LEMMA EnvelopeOf ==
    ASSUME NEW out
    PROVE  /\ Envelope(out) = UNION {Copies(m) : m \in Spoken(out)}
           /\ Record(out) = {m \in Spoken(out) : m.type \in RecordedTypes}
  BY DEF Envelope, Record, Copies, Spoken

LEMMA OutAppend ==
    ASSUME NEW out \in Seq(Messages), NEW m \in Messages
    PROVE  /\ Envelope(Append(out, m)) = Envelope(out) \cup Copies(m)
           /\ Record(Append(out, m)) = Record(out) \cup Kept(m)
  <1>1. Spoken(Append(out, m)) = Spoken(out) \cup {m}
    BY SaidAppend
  <1>2. Envelope(Append(out, m)) = Envelope(out) \cup Copies(m)
    BY <1>1, EnvelopeOf
  <1>3. Record(Append(out, m)) = Record(out) \cup Kept(m)
    BY <1>1, EnvelopeOf DEF Kept
  <1> QED BY <1>2, <1>3

\* No node sends an envelope to itself.
Abroad(F) == \A e \in F : e.to # e.msg.sender

LEMMA CopiesAbroad ==
    ASSUME NEW m \in Messages
    PROVE  Abroad(Copies(m))
  BY MessageTypes DEF Copies, Abroad, Audience

\* A new request of node n is the first one of its ballot.
LEMMA PendingFresh ==
    ASSUME NEW n \in Nodes, NEW I, NEW U, U \subseteq Messages, VoteInv(I, U),
           NEW s \in Instances, NEW said, NEW resp \in Answers,
           Pending(n, s, resp, said), Owner(s.proposer.ballot) = n,
           \A k \in OfType(U, "Accept") :
               k \in said \/ resp.type # "Accept"
    PROVE  FreshRequest(U, resp)
  <1> SUFFICES ASSUME resp.type = "Accept",
                      NEW k \in OfType(U, "Accept"), k.ballot = resp.ballot
               PROVE  FALSE
    BY DEF FreshRequest
  <1>1. resp.ballot = s.proposer.ballot
    BY DEF Pending
  <1>2. RequestTrue(I, U, k) /\ k \in Messages /\ k.type = "Accept"
    BY DEF VoteInv, OfType
  <1>3. k.sender = n
    BY <1>1, <1>2 DEF RequestTrue
  <1>4. k \in Asked(n, said)
    BY <1>2, <1>3 DEF Asked
  <1>5. k.ballot < resp.ballot
    BY <1>2, <1>4 DEF Pending
  <1>6. k.ballot \in Nat
    BY <1>2 DEF Messages
  <1> QED BY <1>5, <1>6

\* In the middle of the chain of node n: what it has said has been recorded and
\* sent, the answer r.resp is on its way to itself as well.
SafeChain(n, s, I, T, F, r) ==
    /\ Speaks(n, s, T, r)
    /\ Safe([I EXCEPT ![n] = r.inst],
            T \cup Record(r.out) \cup Kept(r.resp),
            F \cup Envelope(r.out) \cup Mail(n, r.resp))
    /\ \A m \in Spoken(r.out) \cup {r.resp} : m.type \in Counted => m \notin T

LEMMA EchoSafe ==
    ASSUME NEW n \in Nodes, NEW s \in Instances, NEW I \in AllInstances,
           NEW T, T \subseteq Messages, NEW F, F \subseteq Envelopes, Abroad(F),
           NEW r, SafeChain(n, s, I, T, F, r)
    PROVE  SafeChain(n, s, I, T, F, Echo(n, r))
  <1> DEFINE m == r.resp
             h == Handle(n, r.inst, m)
             c == Echo(n, r)
             e == [to |-> n, msg |-> m]
             J == [I EXCEPT ![n] = r.inst]
             U == T \cup Record(r.out) \cup Kept(m)
             G == F \cup Envelope(r.out) \cup Mail(n, m)
             said == T \cup Spoken(r.out)
  <1>1. CASE m = NoMessage
    BY <1>1 DEF Echo
  <1>2. CASE m # NoMessage
    <2>1. /\ m \in Messages /\ r.out \in Seq(Messages)
          /\ GoodInstance(r.inst) /\ r.inst \in Instances /\ Durable(r.inst)
      BY <1>2
      DEF SafeChain, Speaks, ChainFrom, GoodChain, GoodResult, GoodInstance,
          Answers
    <2>2. /\ Accounts(n, r.inst, said) /\ Pending(n, r.inst, m, said)
          /\ m.sender = n /\ Owner(r.inst.proposer.ballot) = n
      BY <1>2 DEF SafeChain, Speaks, Accounts, Pending
    <2>3. c.inst = h.inst /\ c.resp = h.resp /\ c.out = Append(r.out, m)
      BY <1>2 DEF Echo
    <2>4. Speaks(n, s, T, c)
      BY EchoSpeaks DEF SafeChain
    <2>5. Safe(J, U, G)
      BY DEF SafeChain
    <2>6. J \in AllInstances /\ J[n] = r.inst
      BY <2>1 DEF AllInstances
    <2>7. U \subseteq Messages /\ G \subseteq Envelopes
      BY <2>1, EnvelopeType, MailFacts, MailTo DEF Kept, Mail, Envelopes
    <2>8. e \in G /\ e.to = n /\ e.msg = m
      BY <1>2 DEF Mail
    <2> HIDE DEF J, U, G, e, h, c
    <2>9. Receipt(J, U, G, n, e)
      BY <2>1, <2>2, <2>5, <2>6, <2>7, <2>8 DEF Receipt
    <2>10. h.inst \in Instances /\ h.resp \in Answers
           /\ Owner(h.inst.proposer.ballot) = n
           /\ Pending(n, h.inst, h.resp, said)
      <3>1. GoesOn(n, r.inst, h, said)
        BY <2>1, <2>2, HandleGoesOn DEF h
      <3>2. GoodResult(h)
        BY <2>1, HandleGood DEF h
      <3> QED BY <3>1, <3>2 DEF GoesOn, GoodResult, GoodInstance
    <2>11. FreshRequest(U, h.resp)
      <3>1. VoteInv(J, U)
        BY <2>5 DEF Safe
      <3>2. m.type = "Accept" => h.resp.type # "Accept"
        BY <2>1, RequestAnswered DEF h
      <3>3. \A k \in OfType(U, "Accept") : k \in said \/ h.resp.type # "Accept"
        BY <3>2, EnvelopeOf DEF U, OfType, Kept
      <3> HIDE DEF said
      <3> QED BY <2>7, <2>10, <3>1, <3>3, PendingFresh
    <2>12. SafeAfter(J, U, G, n, e, h)
      BY <2>6, <2>8, <2>9, <2>11, HandleSafe DEF h
    <2>13. /\ Envelope(c.out) = Envelope(r.out) \cup Copies(m)
           /\ Record(c.out) = Record(r.out) \cup Kept(m)
           /\ Spoken(c.out) = Spoken(r.out) \cup {m}
      BY <2>1, <2>3, OutAppend, SaidAppend
    <2>14. [J EXCEPT ![n] = h.inst] = [I EXCEPT ![n] = c.inst]
      BY <2>3 DEF J
    <2>15. U \cup Kept(h.resp) = T \cup Record(c.out) \cup Kept(c.resp)
      BY <2>3, <2>13 DEF U
    <2>16. F \cup Envelope(c.out) \cup Mail(n, c.resp)
             \subseteq Rest(G, e) \cup Mail(n, h.resp)
      <3>1. F \cup Envelope(c.out) \subseteq G
        BY <1>2, <2>13 DEF G, Copies, Mail
      <3>2. e \notin F
        BY <2>2, <2>8 DEF Abroad
      <3>3. e \notin Envelope(c.out)
        <4>1. ASSUME NEW k \in Spoken(c.out)
              PROVE  e \notin Copies(k)
          <5>1. k.sender = n
            BY <2>4 DEF Speaks
          <5>2. k \in Messages
            BY <2>1, <2>13, SaidMessages
          <5>3. Abroad(Copies(k))
            BY <5>2, CopiesAbroad
          <5>4. e \in Copies(k) => e.msg = k
            BY DEF Copies
          <5> QED BY <2>8, <5>1, <5>3, <5>4 DEF Abroad
        <4> QED BY <4>1, EnvelopeOf
      <3> QED BY <2>3, <3>1, <3>2, <3>3 DEF Rest
    <2>17. Safe([I EXCEPT ![n] = c.inst],
                T \cup Record(c.out) \cup Kept(c.resp),
                F \cup Envelope(c.out) \cup Mail(n, c.resp))
      BY <2>12, <2>14, <2>15, <2>16, FewerSafe DEF SafeAfter
    <2>18. \A k \in Spoken(c.out) \cup {c.resp} : k.type \in Counted => k \notin T
      <3>1. \A k \in Spoken(r.out) \cup {m} : k.type \in Counted => k \notin T
        BY DEF SafeChain
      <3>2. c.resp.type \in Counted => c.resp \notin T
        BY <2>3, <2>12 DEF SafeAfter, U
      <3> QED BY <2>13, <3>1, <3>2
    <2>19. SafeChain(n, s, I, T, F, c)
      BY <2>4, <2>17, <2>18 DEF SafeChain
    <2> QED BY <2>19 DEF c
  <1> QED BY <1>1, <1>2

\* The whole chain, and what it leaves to the network.
LEMMA SelfDeliverSafe ==
    ASSUME NEW n \in Nodes, NEW s \in Instances, NEW I \in AllInstances,
           NEW T, T \subseteq Messages, NEW F, F \subseteq Envelopes, Abroad(F),
           NEW h, SafeChain(n, s, I, T, F, Opening(h)),
           NEW r, r = SelfDeliver(n, h), r.resp = NoMessage
    PROVE  /\ Speaks(n, s, T, r)
           /\ Safe([I EXCEPT ![n] = r.inst], T \cup Record(r.out),
                   F \cup Envelope(r.out))
           /\ \A m \in Spoken(r.out) : m.type \in Counted => m \notin T
  <1> DEFINE first == Opening(h)
  <1>1. SafeChain(n, s, I, T, F, first)
    OBVIOUS
  <1>2. r = Echo(n, Echo(n, Echo(n, Echo(n, Echo(n, first)))))
    BY DEF SelfDeliver, Opening
  <1> HIDE DEF first
  <1>3. SafeChain(n, s, I, T, F, r)
    BY <1>1, <1>2, EchoSafe
  <1>4. Kept(r.resp) = {} /\ Mail(n, r.resp) = {}
    BY DEF Kept, Mail, NoMessage, RecordedTypes
  <1> QED BY <1>3, <1>4 DEF SafeChain

-----------------------------------------------------------------------------
(* The network.                                                             *)

\* No counted message is on its way twice to the same node.
NetInv ==
    /\ Abroad(BagToSet(net))
    /\ \A e \in BagToSet(net) : e.msg.type \in Counted => net[e] = 1

\* What leaves a node is new, so no envelope with it is on its way yet.
LEMMA CommitNet ==
    ASSUME IsABag(net), NetInv, \A e \in BagToSet(net) : MailTrue(sent, e),
           NEW received, IsABag(received), NEW out \in Seq(Messages),
           \A m \in Spoken(out) : m.type \in Counted => m \notin sent,
           net' = (net (-) received) (+) SetToBag(Envelope(out))
    PROVE  /\ NetInv'
           /\ \A e \in BagToSet(net') :
                 \/ e \in Envelope(out)
                 \/ /\ e \in BagToSet(net)
                    /\ e.msg.type \in Counted => e \notin BagToSet(received)
  <1> DEFINE left == net (-) received
             S == Envelope(out)
  <1>1. IsABag(left)
    BY BagDifferenceType
  <1>2. ASSUME NEW e \in BagToSet(left)
        PROVE  /\ e \in BagToSet(net)
               /\ e.msg.type \in Counted =>
                     e \notin BagToSet(received) /\ left[e] = 1
    BY BagMinus DEF NetInv
  <1>3. ASSUME NEW e \in S
        PROVE  /\ e.to # e.msg.sender
               /\ e.msg.type \in Counted => e \notin BagToSet(left)
    <2>1. PICK m \in Spoken(out) : e \in Copies(m)
      BY EnvelopeOf
    <2>2. m \in Messages /\ e.msg = m
      BY <2>1, SaidMessages DEF Copies
    <2>3. e.to # e.msg.sender
      BY <2>1, <2>2, CopiesAbroad DEF Abroad
    <2>4. m.type \in Counted => e \notin BagToSet(net)
      BY <2>2 DEF MailTrue
    <2> QED BY <1>2, <2>2, <2>3, <2>4
  <1> HIDE DEF left, S
  <1>4. net' = left (+) SetToBag(S)
    BY DEF left, S
  <1>5. ASSUME NEW e \in BagToSet(net')
        PROVE  /\ e \in S \/ e \in BagToSet(left)
               /\ e.to # e.msg.sender
               /\ e.msg.type \in Counted => net'[e] = 1
    <2>1. /\ e \in S \/ (e \in BagToSet(left) /\ net'[e] = left[e])
          /\ e \notin BagToSet(left) => net'[e] = 1
      BY <1>1, <1>4, BagPlusSet
    <2>2. e.to # e.msg.sender
      BY <1>2, <1>3, <2>1 DEF NetInv, Abroad
    <2>3. e.msg.type \in Counted => net'[e] = 1
      BY <1>2, <1>3, <2>1
    <2> QED BY <2>1, <2>2, <2>3
  <1>6. NetInv'
    BY <1>5 DEF NetInv, Abroad
  <1> QED BY <1>2, <1>5, <1>6 DEF S

-----------------------------------------------------------------------------
(* The steps of Synod.                                                      *)

SafetyInv ==
    /\ BallotInv
    /\ Safe(inst, sent, BagToSet(net))
    /\ NetInv

LEMMA SafetyTypes ==
    ASSUME SafetyInv
    PROVE  /\ inst \in AllInstances /\ sent \subseteq Messages
           /\ IsABag(net) /\ BagToSet(net) \subseteq Envelopes
           /\ Abroad(BagToSet(net))
           /\ \A e \in BagToSet(net) : MailTrue(sent, e)
           /\ \A n \in Nodes : /\ inst[n] \in Instances
                               /\ GoodInstance(inst[n])
                               /\ Durable(inst[n])
                               /\ Accounts(n, inst[n], sent)
                               /\ AcceptorVotes(n, inst[n], sent)
  BY DEF SafetyInv, BallotInv, DurabilityInv, TypeInv, TypeOK, AllInstances,
         NetInv, Safe, CountInv, VoteInv, GoodInstance

\* Nothing has been accepted in ballot 0.
LEMMA NothingAccepted ==
    ASSUME SafetyInv, NEW n \in Nodes, inst[n].acceptor.max_accepted.ballot = 0
    PROVE  inst[n].acceptor.max_accepted = NoProposal
  <1>1. /\ sent \subseteq Messages /\ AcceptorVotes(n, inst[n], sent)
        /\ VoteInv(inst, sent)
    BY SafetyTypes DEF SafetyInv, Safe
  <1> QED BY <1>1, VoteFacts DEF AcceptorVotes

LEMMA NothingProposed ==
    ASSUME NEW n \in Nodes, NEW T, NEW F
    PROVE  ProposerCounts(n, FreshProposer(n), T, F)
  <1> DEFINE p == FreshProposer(n)
  <1>1. p.state = "Initial" /\ p.promises = 0 /\ p.accepts = 0
    BY DEF FreshProposer
  <1> HIDE DEF p
  <1>2. ProposerCounts(n, p, T, F)
    BY <1>1, NothingCounted
  <1> QED BY <1>2 DEF p

LEMMA InitSafe == Init => SafetyInv
  <1> SUFFICES ASSUME Init PROVE SafetyInv
    OBVIOUS
  <1>1. sent = {} /\ BagToSet(net) = {}
    BY DEF Init, EmptyBag, SetToBag, BagToSet
  <1>2. ASSUME NEW n \in Nodes
        PROVE  /\ inst[n].acceptor = FreshAcceptor
               /\ inst[n].disk = FreshDisk
               /\ inst[n].proposer = FreshProposer(n)
               /\ inst[n].learner = FreshLearner
    BY DEF Init, FreshInstance
  <1>3. VoteInv(inst, sent)
    <2>1. \A t : OfType(sent, t) = {}
      BY <1>1 DEF OfType
    <2>2. \A n \in Nodes : AcceptorVotes(n, inst[n], sent)
      BY <1>2, <2>1 DEF AcceptorVotes, FreshAcceptor, FreshDisk
    <2> QED BY <2>1, <2>2 DEF VoteInv
  <1>4. CountInv(inst, sent, BagToSet(net))
    <2>1. ASSUME NEW n \in Nodes
          PROVE  ProposerCounts(n, inst[n].proposer, sent, BagToSet(net))
      <3>1. inst[n].proposer = FreshProposer(n)
        BY <1>2
      <3> QED BY <3>1, NothingProposed
    <2>2. \A n \in Nodes : LearnerKnows(inst[n].learner, sent)
      BY <1>2 DEF LearnerKnows, FreshLearner
    <2> QED BY <1>1, <2>1, <2>2 DEF CountInv
  <1>5. NetInv
    BY <1>1 DEF NetInv, Abroad
  <1> QED BY <1>3, <1>4, <1>5, InitBallots DEF SafetyInv, Safe

\* What Propose and Receive do with a chain of answers.
LEMMA CommitSafe ==
    ASSUME SafetyInv, NEW n \in Nodes, NEW s \in Instances,
           NEW received, IsABag(received), NEW F, F \subseteq Envelopes,
           Abroad(F), \A e \in BagToSet(net) :
               e \in F \/ (e \in BagToSet(received) /\ e.msg.type \in Counted),
           NEW h, SafeChain(n, s, inst, sent, F, Opening(h)),
           NEW r, r = SelfDeliver(n, h), r.resp = NoMessage,
           Commit(n, r, received)
    PROVE  Safe(inst', sent', BagToSet(net')) /\ NetInv'
  <1>0. /\ inst \in AllInstances /\ sent \subseteq Messages /\ IsABag(net)
        /\ \A e \in BagToSet(net) : MailTrue(sent, e)
    BY SafetyTypes
  <1>1. /\ Speaks(n, s, sent, r)
        /\ Safe([inst EXCEPT ![n] = r.inst], sent \cup Record(r.out),
                F \cup Envelope(r.out))
        /\ \A m \in Spoken(r.out) : m.type \in Counted => m \notin sent
    BY <1>0, SelfDeliverSafe
  <1>2. /\ inst' = [inst EXCEPT ![n] = r.inst]
        /\ sent' = sent \cup Record(r.out)
        /\ net' = (net (-) received) (+) SetToBag(Envelope(r.out))
    BY DEF Commit
  <1>3. r.out \in Seq(Messages)
    BY <1>1 DEF Speaks, ChainFrom, GoodChain
  <1>4. /\ NetInv'
        /\ \A e \in BagToSet(net') :
              \/ e \in Envelope(r.out)
              \/ /\ e \in BagToSet(net)
                 /\ e.msg.type \in Counted => e \notin BagToSet(received)
    BY <1>0, <1>1, <1>2, <1>3, CommitNet DEF SafetyInv
  <1>5. BagToSet(net') \subseteq F \cup Envelope(r.out)
    BY <1>4
  <1>6. Safe(inst', sent', F \cup Envelope(r.out))
    BY <1>1, <1>2
  <1> QED BY <1>4, <1>5, <1>6, FewerSafe

LEMMA EnvelopeReceipt ==
    ASSUME SafetyInv, NEW e \in BagToSet(net)
    PROVE  Receipt(inst, sent, BagToSet(net), e.to, e)
  <1>1. e.to \in Nodes
    BY SafetyTypes DEF Envelopes
  <1> QED BY <1>1, SafetyTypes DEF SafetyInv, Receipt, Accounts

LEMMA ReceiveSafe ==
    ASSUME SafetyInv, NEW e \in BagToSet(net), Receive(e)
    PROVE  Safe(inst', sent', BagToSet(net')) /\ NetInv'
  <1> DEFINE n == e.to
             m == e.msg
             s == inst[n]
             h == Handle(n, s, m)
             r == SelfDeliver(n, h)
             net0 == BagToSet(net)
             F == Rest(net0, e)
  <1>0. /\ inst \in AllInstances /\ sent \subseteq Messages
        /\ net0 \subseteq Envelopes /\ Abroad(net0)
    BY SafetyTypes
  <1>1. n \in Nodes /\ m \in Messages
    BY <1>0 DEF Envelopes
  <1>2. /\ s \in Instances /\ GoodInstance(s) /\ Durable(s)
        /\ Accounts(n, s, sent)
    BY <1>1, SafetyTypes
  <1>3. Receipt(inst, sent, net0, n, e)
    BY EnvelopeReceipt
  <1>4. /\ h.inst \in Instances /\ h.resp \in Answers
        /\ Owner(h.inst.proposer.ballot) = n
        /\ Pending(n, h.inst, h.resp, sent)
    <2>1. GoesOn(n, s, h, sent) /\ GoodResult(h)
      BY <1>1, <1>2, HandleGoesOn, HandleGood
    <2> QED BY <2>1 DEF GoesOn, GoodResult, GoodInstance
  <1>5. Speaks(n, s, sent, Opening(h))
    BY <1>0, <1>1, <1>2, HandleOpens
  <1>6. SafeAfter(inst, sent, net0, n, e, h)
    <2>1. FreshRequest(sent, h.resp)
      <3>1. \A k \in OfType(sent, "Accept") : k \in sent
        BY DEF OfType
      <3>2. VoteInv(inst, sent)
        BY DEF SafetyInv, Safe
      <3> HIDE DEF h, n
      <3> QED BY <1>0, <1>1, <1>4, <3>1, <3>2, PendingFresh
    <2> QED BY <1>3, <2>1, HandleSafe
  <1>7. r.resp = NoMessage
    BY <1>1, <1>2, DeliverEnds DEF Deliver
  <1>8. Commit(n, r, SetToBag({e}))
    BY DEF Receive, Deliver
  <1> HIDE DEF n, m, s, h, r, net0
  <1>9. SafeChain(n, s, inst, sent, F, Opening(h))
    <2>1. Opening(h).inst = h.inst /\ Opening(h).resp = h.resp
          /\ Spoken(Opening(h).out) = {}
      BY DEF Opening, Spoken
    <2>2. Envelope(Opening(h).out) = {} /\ Record(Opening(h).out) = {}
      BY <2>1, EnvelopeOf
    <2> HIDE DEF F
    <2> QED BY <1>5, <1>6, <2>1, <2>2 DEF SafeChain, SafeAfter, F
  <1>10. F \subseteq Envelopes /\ Abroad(F)
    BY <1>0, RestType DEF Abroad
  <1>11. IsABag(SetToBag({e})) /\ BagToSet(SetToBag({e})) = {e}
    BY SetToBagType
  <1>12. \A k \in BagToSet(net) :
            k \in F \/ (k \in BagToSet(SetToBag({e})) /\ k.msg.type \in Counted)
    BY <1>11 DEF Rest, net0
  <1>13. r = SelfDeliver(n, h)
    BY DEF r
  <1> HIDE DEF F
  <1> QED
    BY <1>1, <1>2, <1>7, <1>8, <1>9, <1>10, <1>11, <1>12, <1>13, CommitSafe

\* A proposal of an instance the node has not opened: its acceptor is a fresh
\* one, so replacing it by a fresh one forgets nothing.
LEMMA ProposeSafe ==
    ASSUME SafetyInv, NEW n \in Nodes, NEW c \in Commands, Propose(n, c)
    PROVE  Safe(inst', sent', BagToSet(net')) /\ NetInv'
  <1> DEFINE fresh == FreshInstance(n, inst[n].disk)
             h == Proposal(n, c)
             r == SelfDeliver(n, h)
             F == BagToSet(net)
  <1>0. /\ inst \in AllInstances /\ sent \subseteq Messages
        /\ F \subseteq Envelopes /\ Abroad(F)
    BY SafetyTypes
  <1>1. /\ inst[n] \in Instances /\ Durable(inst[n])
        /\ inst[n].disk \in Disks
        /\ Accounts(n, inst[n], sent) /\ BallotInv
        /\ Safe(inst, sent, F)
    BY SafetyTypes DEF SafetyInv, Instances
  <1>2. ~opened[n] /\ Commit(n, r, EmptyBag)
    BY DEF Propose, Proposal
  <1>3. /\ h.inst \in Instances
        /\ h.inst.acceptor = FreshAcceptor
        /\ h.inst.disk = inst[n].disk
        /\ inst[n].disk.ballot = 0
        /\ Speaks(n, h.inst, sent, Opening(h))
    BY <1>1, <1>2, ProposeOpens
  <1>4. inst[n].acceptor = FreshAcceptor
    <2>1. /\ inst[n].acceptor.max_ballot = 0
          /\ inst[n].acceptor.max_accepted.ballot = 0
      BY <1>1, <1>3, BallotTypes DEF Durable
    <2>2. inst[n].acceptor.max_accepted = NoProposal
      BY <2>1, NothingAccepted
    <2>3. inst[n].acceptor \in AcceptorStates
      BY <1>1 DEF Instances
    <2> QED BY <2>1, <2>2, <2>3 DEF AcceptorStates, FreshAcceptor
  <1>5. fresh \in Instances /\ fresh.learner = FreshLearner
    BY <1>1, FreshInstanceGood DEF FreshInstance, GoodInstance
  <1>6. h = NewPrepare(n, fresh, c)
    BY DEF Proposal
  <1> HIDE DEF fresh, h, r, F
  <1>7. /\ h.resp \in Answers /\ h.inst.learner = FreshLearner
        /\ h.resp.type = "Prepare" /\ h.inst.proposer.promises = 0
        /\ ProposerCounts(n, h.inst.proposer, sent, F)
    BY <1>5, <1>6, NewPrepareFacts
  <1>8. Safe([inst EXCEPT ![n] = h.inst], sent \cup Kept(h.resp),
             F \cup Mail(n, h.resp))
    <2>1. LearnerKnows(h.inst.learner, sent)
      BY <1>7 DEF LearnerKnows, FreshLearner
    <2>2. h.resp.type \notin Counted /\ h.resp.type # "Learn"
      BY <1>7 DEF Counted
    <2>3. F \in SUBSET F
      OBVIOUS
    <2> QED
      BY <1>0, <1>1, <1>3, <1>4, <1>7, <2>1, <2>2, <2>3, PassiveStep
  <1>9. SafeChain(n, h.inst, inst, sent, F, Opening(h))
    <2>1. Opening(h).inst = h.inst /\ Opening(h).resp = h.resp
          /\ Spoken(Opening(h).out) = {}
      BY DEF Opening, Spoken
    <2>2. Envelope(Opening(h).out) = {} /\ Record(Opening(h).out) = {}
      BY <2>1, EnvelopeOf
    <2>3. h.resp.type \notin Counted
      BY <1>7 DEF Counted
    <2> QED BY <1>3, <1>8, <2>1, <2>2, <2>3 DEF SafeChain
  <1>10. r.resp = NoMessage
    <2> DEFINE first == Opening(h)
    <2>1. first.inst = h.inst /\ first.resp = h.resp
      BY DEF Opening
    <2>2. Answering(first) /\ first.resp.type = "Prepare"
      <3>1. GoodInstance(h.inst)
        BY <1>3, <2>1 DEF Speaks, ChainFrom, GoodChain, GoodResult
      <3>2. h.resp # NoMessage
        BY <1>7 DEF NoMessage
      <3> QED BY <1>7, <2>1, <3>1, <3>2 DEF Answering, Answers
    <2>3. Preparing(first.inst)
      BY <1>7, <2>1 DEF Preparing
    <2>4. r = Echo(n, Echo(n, Echo(n, Echo(n, Echo(n, first)))))
      BY DEF r, SelfDeliver, Opening
    <2> HIDE DEF first
    <2>5. Ends5(n, first)
      BY <2>2, <2>3, PrepareEnds, EndsSooner
    <2> QED BY <2>4, <2>5 DEF Ends5, Ends4, Ends3, Ends2, Ends1, Ends0
  <1>11. IsABag(EmptyBag)
    BY SetToBagType DEF EmptyBag
  <1>12. r = SelfDeliver(n, h)
    BY DEF r
  <1>13. \A e \in BagToSet(net) : e \in F
    BY DEF F
  <1> QED
    BY <1>0, <1>2, <1>3, <1>9, <1>10, <1>11, <1>12, <1>13, CommitSafe

\* A node that restarts has the acceptor that its disk holds, no proposer and
\* no votes; what it had counted is forgotten and is never missed.
LEMMA RestartSafe ==
    ASSUME SafetyInv, NEW n \in Nodes, NEW disk \in Disks, RestartFrom(n, disk),
           disk.accepted = inst[n].disk.accepted, InstanceKept(n),
           BagToSet(net') \subseteq BagToSet(net)
    PROVE  Safe(inst', sent', BagToSet(net'))
  <1> DEFINE t == Restored(n, disk)
             s == inst[n]
             F == BagToSet(net)
  <1>0. /\ inst \in AllInstances /\ sent \subseteq Messages
        /\ s \in Instances /\ Durable(s) /\ AcceptorVotes(n, s, sent)
        /\ Safe(inst, sent, F)
    BY SafetyTypes DEF SafetyInv
  <1>1. inst' = [inst EXCEPT ![n] = t] /\ sent' = sent
    BY DEF RestartFrom
  <1>2. t \in Instances
    BY RestoredGood DEF GoodInstance
  <1>3. /\ inst' \in AllInstances /\ inst'[n] = t
        /\ \A a \in Nodes : a # n => inst'[a] = inst[a]
    BY <1>0, <1>1, <1>2 DEF AllInstances
  <1>4. /\ t.proposer = FreshProposer(n) /\ t.learner = FreshLearner
        /\ t.disk = disk
        /\ disk.ballot = 0 => t.acceptor = FreshAcceptor
        /\ disk.ballot # 0 => t.acceptor.max_accepted = disk.accepted
    BY DEF Restored, FreshInstance
  <1>5. s.acceptor.max_accepted = disk.accepted
    BY <1>0 DEF AcceptorVotes
  <1> HIDE DEF t
  <1>6. t.acceptor.max_ballot >= s.acceptor.max_ballot
    BY <1>3 DEF InstanceKept, Keeps
  <1>7. t.acceptor.max_accepted = s.acceptor.max_accepted
    <2>1. CASE disk.ballot # 0
      BY <1>4, <1>5, <2>1
    <2>2. CASE disk.ballot = 0
      <3>1. t.acceptor.max_ballot = 0 /\ t.acceptor.max_accepted = NoProposal
        BY <1>4, <2>2 DEF FreshAcceptor
      <3>2. s.acceptor.max_accepted.ballot = 0
        BY <1>0, <1>6, <3>1, BallotTypes DEF Durable
      <3> QED BY <3>1, <3>2, NothingAccepted
    <2> QED BY <2>1, <2>2
  <1>8. QuietVotes(inst, sent, inst', sent)
    <2>1. ASSUME NEW a \in Nodes
          PROVE  /\ inst'[a].acceptor.max_ballot >= inst[a].acceptor.max_ballot
                 /\ inst'[a].acceptor.max_accepted = inst[a].acceptor.max_accepted
                 /\ inst'[a].disk.accepted = inst[a].disk.accepted
      <3>1. inst[a].acceptor.max_ballot \in Nat
        BY <1>0, MaxBallotType
      <3> QED BY <1>3, <1>4, <1>6, <1>7, <3>1
    <2> QED BY <2>1 DEF QuietVotes
  <1>9. VoteInv(inst', sent)
    BY <1>0, <1>3, <1>8, QuietStep DEF Safe
  <1>10. CountInv(inst', sent, F)
    <2>1. ProposerCounts(n, t.proposer, sent, F)
      BY <1>4, NothingProposed
    <2>2. LearnerKnows(t.learner, sent)
      BY <1>4 DEF LearnerKnows, FreshLearner
    <2>3. /\ \A a \in Nodes : ProposerCounts(a, inst[a].proposer, sent, F)
          /\ \A a \in Nodes : LearnerKnows(inst[a].learner, sent)
          /\ \A e \in F : MailTrue(sent, e)
      BY <1>0 DEF Safe, CountInv
    <2>4. \A a \in Nodes : /\ ProposerCounts(a, inst'[a].proposer, sent, F)
                           /\ LearnerKnows(inst'[a].learner, sent)
      BY <1>3, <2>1, <2>2, <2>3
    <2> QED BY <2>3, <2>4 DEF CountInv
  <1> QED BY <1>1, <1>9, <1>10, FewerSafe DEF Safe

LEMMA FewerNet ==
    ASSUME NetInv, IsABag(net), NEW r, IsABag(r), net' = net (-) r
    PROVE  NetInv' /\ BagToSet(net') \subseteq BagToSet(net)
  <1>1. ASSUME NEW x \in BagToSet(net')
        PROVE  x \in BagToSet(net) /\ (net[x] = 1 => net'[x] = 1)
    BY BagMinus
  <1> QED BY <1>1 DEF NetInv, Abroad

LEMMA StepSafe == SafetyInv /\ [Next]_vars => SafetyInv'
  <1> SUFFICES ASSUME SafetyInv, [Next]_vars
               PROVE  Safe(inst', sent', BagToSet(net')) /\ NetInv'
    BY StepBallots DEF SafetyInv
  <1>1. \A k \in Nodes : InstanceKept(k)
    BY StepKeeps DEF SafetyInv, BallotInv
  <1>2. ASSUME NEW n \in Nodes, NEW c \in Commands, Propose(n, c)
        PROVE  Safe(inst', sent', BagToSet(net')) /\ NetInv'
    BY <1>2, ProposeSafe
  <1>3. ASSUME NEW e \in BagToSet(net), Receive(e)
        PROVE  Safe(inst', sent', BagToSet(net')) /\ NetInv'
    BY <1>3, ReceiveSafe
  <1>4. ASSUME NEW n \in Nodes, Restart(n)
        PROVE  Safe(inst', sent', BagToSet(net')) /\ NetInv'
    <2>1. inst[n].disk \in Disks
      BY SafetyTypes DEF Instances
    <2>2. net' = net /\ RestartFrom(n, inst[n].disk)
      BY <1>4 DEF Restart
    <2> QED BY <1>1, <2>1, <2>2, RestartSafe DEF NetInv, Abroad, SafetyInv
  <1>5. ASSUME NEW e \in BagToSet(net), CrashInSaveAccept(e)
        PROVE  Safe(inst', sent', BagToSet(net')) /\ NetInv'
    <2> DEFINE before == inst[e.to].disk
               after == Deliver(e.to, inst[e.to], e.msg).inst.disk
    <2>1. e.to \in Nodes /\ before \in Disks /\ after \in Disks
      <3>1. /\ e.to \in Nodes /\ e.msg \in Messages
            /\ GoodInstance(inst[e.to]) /\ inst[e.to] \in Instances
        BY SafetyTypes DEF Envelopes
      <3>2. GoodChain(Deliver(e.to, inst[e.to], e.msg))
        BY <3>1, DeliverGood
      <3> QED BY <3>1, <3>2 DEF GoodChain, GoodResult, GoodInstance, Instances
    <2>2. /\ RestartFrom(e.to, Torn(before, after))
          /\ net' = net (-) SetToBag({e})
      BY <1>5 DEF CrashInSaveAccept
    <2>3. Torn(before, after) \in Disks
          /\ Torn(before, after).accepted = before.accepted
      BY <2>1, TornType DEF Torn, Disks
    <2>4. NetInv' /\ BagToSet(net') \subseteq BagToSet(net)
      BY <2>2, SafetyTypes, SetToBagType, FewerNet DEF SafetyInv
    <2> QED BY <1>1, <2>1, <2>2, <2>3, <2>4, RestartSafe
  <1>6. CASE UNCHANGED vars
    <2>1. inst' = inst /\ sent' = sent /\ net' = net
      BY <1>6 DEF vars
    <2> QED BY <2>1 DEF SafetyInv, NetInv, Abroad
  <1> QED BY <1>2, <1>3, <1>4, <1>5, <1>6 DEF Next

LEMMA SafetyHolds == Spec => []SafetyInv
  BY InitSafe, StepSafe, PTL DEF Spec

-----------------------------------------------------------------------------
(* What the invariant says of the properties of Synod.                      *)

LEMMA VotesMean ==
    /\ \A a, b, c : VotedFor(a, b, c) <=> Voted(sent, a, b, c)
    /\ \A b, c : ChosenAt(b, c) <=> Cardinality(Voters(sent, b, c)) >= Quorum
    /\ \A c : Chosen(c) <=> Decided(sent, c)
    /\ SentBallots = BallotsIn(sent)
  <1>1. \A a, b, c : VotedFor(a, b, c) <=> Voted(sent, a, b, c)
    BY DEF VotedFor, Voted, AckOf, Request
  <1>2. \A b, c : {a \in Nodes : VotedFor(a, b, c)} = Voters(sent, b, c)
    BY <1>1 DEF Voters
  <1>3. \A b, c : ChosenAt(b, c) <=> Cardinality(Voters(sent, b, c)) >= Quorum
    BY <1>2 DEF ChosenAt
  <1>4. SentBallots = BallotsIn(sent)
    BY DEF SentBallots, BallotsIn
  <1> QED BY <1>1, <1>3, <1>4 DEF Chosen, Decided

\* For every cluster: the proposer counts promises and acknowledgements without
\* looking at who sent them (handle_promise, handle_accept), and still no more
\* of them than acceptors answered its ballot, whatever is lost, repeated by a
\* chain of self-deliveries or forgotten by a restart.
THEOREM CountsAreTrue == Spec => []CountsAreAcceptors
  <1>1. SafetyInv => CountsAreAcceptors
    <2> SUFFICES ASSUME SafetyInv PROVE CountsAreAcceptors
      OBVIOUS
    <2>1. ASSUME NEW n \in Nodes
          PROVE  LET p == inst[n].proposer
                     Answered(t) == {a \in Nodes : \E m \in sent :
                              m.type = t /\ m.sender = a /\ m.ballot = p.ballot}
                 IN  /\ p.promises <= Cardinality(Answered("Promise"))
                     /\ p.accepts <= Cardinality(Answered("AckAccept"))
      <3> DEFINE p == inst[n].proposer
                 F == BagToSet(net)
                 Answered(t) == {a \in Nodes : \E m \in sent :
                              m.type = t /\ m.sender = a /\ m.ballot = p.ballot}
      <3>1. ProposerCounts(n, p, sent, F) /\ p \in ProposerStates
        BY SafetyTypes DEF SafetyInv, Safe, CountInv, Instances
      <3>2. p.promises \in Nat /\ p.accepts \in Nat
        BY <3>1 DEF ProposerStates
      <3>3. \A t : /\ Answered(t) \in SUBSET Nodes
                   /\ Cardinality(Answered(t)) \in Nat
                   /\ \A H \in SUBSET Answered(t) :
                         /\ Cardinality(H) \in Nat
                         /\ Cardinality(H) <= Cardinality(Answered(t))
        BY SomeNodes, FS_Subset
      <3> HIDE DEF p, F
      <3>4. p.promises <= Cardinality(Answered("Promise"))
        <4>1. CASE p.state # "Proposal"
          <5>1. p.promises = 0
            BY <3>1, <4>1 DEF ProposerCounts
          <5> HIDE DEF Answered
          <5> QED BY <3>3, <5>1
        <4>2. CASE p.state = "Proposal"
          <5>1. PICK H \in SUBSET Nodes : /\ p.promises <= Cardinality(H)
                                          /\ HeardPromises(n, p, sent, F, H)
            BY <3>1, <4>2 DEF ProposerCounts
          <5>2. H \in SUBSET Answered("Promise")
            BY <5>1 DEF HeardPromises, OfType
          <5> HIDE DEF Answered
          <5> QED BY <3>2, <3>3, <5>1, <5>2
        <4> QED BY <4>1, <4>2
      <3>5. p.accepts <= Cardinality(Answered("AckAccept"))
        <4>1. CASE p.state # "Accepting"
          <5>1. p.accepts = 0
            BY <3>1, <4>1 DEF ProposerCounts
          <5> HIDE DEF Answered
          <5> QED BY <3>3, <5>1
        <4>2. CASE p.state = "Accepting"
          <5>1. PICK H \in SUBSET Nodes : /\ p.accepts <= Cardinality(H)
                                          /\ HeardAcks(n, p, sent, F, H)
            BY <3>1, <4>2 DEF ProposerCounts
          <5>2. H \in SUBSET Answered("AckAccept")
            BY <5>1 DEF HeardAcks, Heard, AckOf
          <5> HIDE DEF Answered
          <5> QED BY <3>2, <3>3, <5>1, <5>2
        <4> QED BY <4>1, <4>2
      <3> QED BY <3>4, <3>5 DEF p
    <2> QED BY <2>1 DEF CountsAreAcceptors
  <1> QED BY <1>1, SafetyHolds, PTL

\* A5 of acceptor.rs, for every cluster: once a majority has accepted a command
\* in a ballot, nobody accepts another one in a higher ballot.
THEOREM ChosenIsProtected == Spec => []ChosenProtected
  <1>1. SafetyInv => ChosenProtected
    <2> SUFFICES ASSUME SafetyInv,
                        NEW b \in SentBallots, NEW bb \in SentBallots,
                        NEW c \in Commands, NEW cc \in Commands, NEW a \in Nodes,
                        ChosenAt(b, c), bb > b, VotedFor(a, bb, cc)
                 PROVE  c = cc
      BY DEF ChosenProtected
    <2>1. Voters(sent, b, c) \in Quorums /\ Voted(sent, a, bb, cc)
      BY VotesMean, VotersQuorum
    <2>2. VoteInv(inst, sent) /\ sent \subseteq Messages
      BY SafetyTypes DEF SafetyInv, Safe
    <2>3. PICK k \in Nodes : k \in Voters(sent, b, c)
      BY <2>1, QuorumInhabited
    <2>4. b \in Nat
      BY <2>2, <2>3, VoteFacts DEF Voters
    <2> QED BY <2>1, <2>2, <2>4, DecidedProtected
  <1> QED BY <1>1, SafetyHolds, PTL

\* For every cluster: a learner adopts only a command that a majority of
\* acceptors has accepted in one ballot, although it counts Learns of several
\* ballots together, and nodes repeat them in their own name (handle_learn).
THEOREM LearnersTrue == Spec => []LearnedIsChosen
  <1>1. SafetyInv => LearnedIsChosen
    BY VotesMean DEF SafetyInv, Safe, CountInv, LearnerKnows, LearnedIsChosen
  <1> QED BY <1>1, SafetyHolds, PTL

\* README.md's "the same commands are applied in the same order on every node",
\* for one instance and for every cluster: two nodes never learn different
\* commands, whatever messages are lost or reordered, proposers duel, and nodes
\* stop, even half-way through saving an acceptance.
THEOREM LearnersAgree == Spec => []Agreement
  <1>1. SafetyInv => Agreement
    <2> SUFFICES ASSUME SafetyInv, NEW m \in Nodes, NEW n \in Nodes,
                        inst[m].learner.value # None,
                        inst[n].learner.value # None
                 PROVE  inst[m].learner.value = inst[n].learner.value
      BY DEF Agreement
    <2>1. /\ Decided(sent, inst[m].learner.value)
          /\ Decided(sent, inst[n].learner.value)
      BY DEF SafetyInv, Safe, CountInv, LearnerKnows
    <2>2. VoteInv(inst, sent) /\ sent \subseteq Messages
      BY SafetyTypes DEF SafetyInv, Safe
    <2> QED BY <2>1, <2>2, DecidedOnce
  <1> QED BY <1>1, SafetyHolds, PTL

-----------------------------------------------------------------------------
(* The refinement of Consensus.  A step that lets a node learn must take    *)
(* the command from what was chosen before the step, although the same step *)
(* may cast the node's own vote.                                            *)

\* While a chain of answers lasts that began when T had been said and the
\* learner held v: s is the instance, m the answer the node handles next.
LearnsFrom(T, v, s, m) ==
    /\ s.learner.value = v \/ (v = None /\ Decided(T, s.learner.value))
    /\ m.type = "Learn" => Decided(T, m.command)
    /\ (/\ m.type \in {"Accept", "AckAccept"}
        /\ s.proposer.state = "Accepting"
        /\ m.ballot = s.proposer.ballot) => s.proposer.accepts = 0

LEMMA SameLearner ==
    ASSUME NEW T, NEW v, NEW s, NEW m, LearnsFrom(T, v, s, m),
           NEW h, h.inst.learner = s.learner,
           h.resp.type \notin {"Learn", "Accept", "AckAccept"}
    PROVE  LearnsFrom(T, v, h.inst, h.resp)
  BY DEF LearnsFrom

LEMMA NewProposerOnly ==
    ASSUME NEW n, NEW s \in Instances, NEW b, NEW v
    PROVE  /\ NewPrepare(n, s, v).inst.learner = s.learner
           /\ NewPrepare(n, s, v).resp.type = "Prepare"
           /\ NewAccept(n, s, b, v).inst.learner = s.learner
           /\ NewAccept(n, s, b, v).resp.type = "Accept"
           /\ NewAccept(n, s, b, v).inst.proposer.accepts = 0
  <1>1. /\ NewPrepare(n, s, v).inst.learner = s.learner
        /\ NewPrepare(n, s, v).resp.type = "Prepare"
    BY DEF NewPrepare, Instances
  <1> DEFINE q == [FreshProposer(n) EXCEPT !.state = "Accepting", !.ballot = b,
                                           !.value = v]
             k == NewAccept(n, s, b, v)
  <1>2. q.accepts = 0
    BY DEF FreshProposer
  <1>3. k.inst = [s EXCEPT !.proposer = q] /\ k.resp.type = "Accept"
    BY DEF NewAccept
  <1> HIDE DEF q, k
  <1>4. /\ k.inst.learner = s.learner /\ k.resp.type = "Accept"
        /\ k.inst.proposer.accepts = 0
    BY <1>2, <1>3 DEF Instances
  <1> QED BY <1>1, <1>4 DEF k

\* The answers that change neither the learner nor anything it learns from.
LEMMA PlainAnswer ==
    ASSUME NEW n \in Nodes, NEW s, GoodInstance(s), NEW m \in Messages,
           m.type \in {"Prepare", "NackPrepare", "NackAccept"}
    PROVE  LET h == Handle(n, s, m)
           IN  /\ h.inst.learner = s.learner
               /\ h.resp.type \notin {"Learn", "Accept", "AckAccept"}
  <1> DEFINE p == s.proposer
             nacks == p.nacks + 1
             seen == IF m.max_ballot > p.ballot THEN m.max_ballot ELSE p.ballot
             u == [s EXCEPT !.proposer.ballot = seen]
  <1>1. s \in Instances /\ p \in ProposerStates
    BY DEF GoodInstance, Instances
  <1>2. CASE m.type = "Prepare"
    BY <1>1, <1>2 DEF Handle, HandlePrepare, Instances
  <1>3. CASE m.type \in {"NackPrepare", "NackAccept"}
    <2> DEFINE h == HandleNack(n, s, m)
    <2>1. nacks \in Nat /\ N - Quorum \in Int
      BY <1>1, NAssumption, QuorumType DEF Instances, ProposerStates
    <2>2. \/ h = Ignored(s)
          \/ h = [inst |-> [s EXCEPT !.proposer.nacks = nacks],
                  resp |-> NoMessage]
          \/ h = NewPrepare(n, u, p.value)
      BY <2>1 DEF HandleNack
    <2>4. u \in Instances /\ u.learner = s.learner
      <3>1. p.ballot \in Nat /\ m.max_ballot \in Nat
        BY <1>1, <1>3 DEF ProposerStates, Messages
      <3>2. seen \in Nat
        BY <3>1
      <3> HIDE DEF seen
      <3> QED BY <1>1, <3>2 DEF Instances, ProposerStates
    <2> HIDE DEF u
    <2>3. /\ h.inst.learner = s.learner
          /\ h.resp.type \notin {"Learn", "Accept", "AckAccept"}
      <3>1. CASE h = Ignored(s)
        BY <3>1 DEF Ignored, NoMessage
      <3>2. CASE h = [inst |-> [s EXCEPT !.proposer.nacks = nacks],
                      resp |-> NoMessage]
        BY <1>1, <3>2 DEF NoMessage, Instances
      <3>3. CASE h = NewPrepare(n, u, p.value)
        BY <2>4, <3>3, NewProposerOnly
      <3> QED BY <2>2, <3>1, <3>2, <3>3
    <2> QED BY <1>3, <2>3 DEF Handle
  <1> QED BY <1>2, <1>3

LEMMA HandleLearns ==
    ASSUME NEW n \in Nodes, NEW s, GoodInstance(s), NEW m \in Messages,
           NEW T, NEW v, LearnsFrom(T, v, s, m),
           NEW h, h = Handle(n, s, m)
    PROVE  LearnsFrom(T, v, h.inst, h.resp)
  <1> DEFINE p == s.proposer
  <1>1. s \in Instances /\ p \in ProposerStates /\ s.learner \in LearnerStates
    BY DEF GoodInstance, Instances
  <1>2. CASE m.type \in {"Prepare", "NackPrepare", "NackAccept"}
    BY <1>2, PlainAnswer, SameLearner
  <1>3. CASE m.type = "Promise"
    <2> DEFINE best == Higher(p.best, m.max_accepted)
               promises == p.promises + 1
               t == [s EXCEPT !.proposer.promises = promises,
                              !.proposer.best = best]
    <2>1. promises \in Nat
      BY <1>1 DEF ProposerStates
    <2>2. \/ h = Ignored(s)
          \/ h = [inst |-> t, resp |-> NoMessage]
          \/ h = NewAccept(n, s, p.ballot, ValueToAccept(best, p.value))
      BY <1>3, <2>1, QuorumType DEF Handle, HandlePromise
    <2>3. \/ /\ h.inst.learner = s.learner
             /\ h.resp.type \notin {"Learn", "Accept", "AckAccept"}
          \/ /\ h.inst.learner = s.learner
             /\ h.resp.type = "Accept" /\ h.inst.proposer.accepts = 0
      <3>1. CASE h = Ignored(s)
        BY <3>1 DEF Ignored, NoMessage
      <3>2. CASE h = [inst |-> t, resp |-> NoMessage]
        <4>1. t.learner = s.learner
          BY <1>1 DEF Instances
        <4> HIDE DEF t
        <4> QED BY <3>2, <4>1 DEF NoMessage
      <3>3. CASE h = NewAccept(n, s, p.ballot, ValueToAccept(best, p.value))
        <4> HIDE DEF best, p
        <4> QED BY <1>1, <3>3, NewProposerOnly
      <3> QED BY <2>2, <3>1, <3>2, <3>3
    <2> QED BY <2>3, SameLearner DEF LearnsFrom
  <1>4. CASE m.type = "Accept"
    <2>1. \/ /\ h.inst.learner = s.learner
             /\ h.resp.type = "NackAccept"
          \/ /\ h.inst.learner = s.learner /\ h.inst.proposer = s.proposer
             /\ h.resp.type = "AckAccept" /\ h.resp.ballot = m.ballot
      BY <1>1, <1>4 DEF Handle, HandleAccept, Instances
    <2> QED BY <1>4, <2>1, SameLearner DEF LearnsFrom
  <1>5. CASE m.type = "AckAccept"
    <2> DEFINE accepts == p.accepts + 1
    <2>1. accepts \in Nat
      BY <1>1 DEF ProposerStates
    <2>2. (p.state = "Accepting" /\ m.ballot = p.ballot) => accepts < Quorum
      BY <1>5, NAssumption DEF LearnsFrom, Quorum
    <2>3. \/ h = Ignored(s)
          \/ h = [inst |-> [s EXCEPT !.proposer.accepts = accepts],
                  resp |-> NoMessage]
      BY <1>5, <2>1, <2>2, QuorumType DEF Handle, HandleAckAccept
    <2>4. /\ h.inst.learner = s.learner
          /\ h.resp.type \notin {"Learn", "Accept", "AckAccept"}
      BY <1>1, <2>3 DEF Ignored, NoMessage, Instances
    <2> QED BY <2>4, SameLearner
  <1>6. CASE m.type = "Learn"
    <2>1. h = HandleLearn(n, s, m)
      BY <1>6 DEF Handle
    <2>2. h.inst.learner = Learned(s.learner, m)
      BY <1>1, <2>1 DEF HandleLearn, Instances
    <2>3. h.resp = NoMessage \/ (h.resp.type = "Learn" /\ h.resp.command = m.command)
      BY <1>6, <2>1 DEF HandleLearn, Messages
    <2>4. h.resp.type \notin {"Accept", "AckAccept"}
          /\ (h.resp.type = "Learn" => h.resp.command = m.command)
      BY <2>3 DEF NoMessage
    <2>5. \/ h.inst.learner.value = s.learner.value
          \/ s.learner.value = None /\ h.inst.learner.value = m.command
      BY <1>1, <1>6, <2>2, LearnedFrom
    <2> HIDE DEF p
    <2> QED BY <1>6, <2>4, <2>5 DEF LearnsFrom
  <1> QED BY <1>2, <1>3, <1>4, <1>5, <1>6, MessageTypes

LEMMA SelfDeliverLearns ==
    ASSUME NEW n \in Nodes, NEW h, GoodResult(h), NEW T, NEW v,
           LearnsFrom(T, v, h.inst, h.resp)
    PROVE  LET r == SelfDeliver(n, h) IN LearnsFrom(T, v, r.inst, r.resp)
  <1> DEFINE Going(r) == GoodChain(r) /\ LearnsFrom(T, v, r.inst, r.resp)
             first == Opening(h)
  <1>1. ASSUME NEW r, Going(r)
        PROVE  Going(Echo(n, r))
    <2>1. GoodChain(Echo(n, r))
      BY <1>1, EchoGood
    <2>2. CASE r.resp = NoMessage
      BY <1>1, <2>2 DEF Echo
    <2>3. CASE r.resp # NoMessage
      <3>1. GoodInstance(r.inst) /\ r.resp \in Messages
        BY <1>1, <2>3 DEF GoodChain, GoodResult, Answers
      <3>2. /\ Echo(n, r).inst = Handle(n, r.inst, r.resp).inst
            /\ Echo(n, r).resp = Handle(n, r.inst, r.resp).resp
        BY <2>3 DEF Echo
      <3>3. LearnsFrom(T, v, Echo(n, r).inst, Echo(n, r).resp)
        BY <1>1, <3>1, <3>2, HandleLearns
      <3> QED BY <2>1, <3>3
    <2> QED BY <2>2, <2>3
  <1>2. Going(first)
    BY DEF Opening, GoodChain, GoodResult
  <1>3. SelfDeliver(n, h) = Echo(n, Echo(n, Echo(n, Echo(n, Echo(n, first)))))
    BY DEF SelfDeliver, Opening
  <1> HIDE DEF Going, first
  <1>4. Going(SelfDeliver(n, h))
    BY <1>1, <1>2, <1>3
  <1> QED BY <1>4 DEF Going

\* Only node n's learner changes in a step, and only to None or to a command
\* that was chosen before the step.
LearnsAt(n) ==
    /\ sent \subseteq sent'
    /\ \A k \in Nodes \ {n} : inst'[k].learner.value = inst[k].learner.value
    /\ \/ inst'[n].learner.value \in {inst[n].learner.value, None}
       \/ Decided(sent, inst'[n].learner.value)

LEMMA ReceiveLearns ==
    ASSUME SafetyInv, NEW e \in BagToSet(net), Receive(e)
    PROVE  LearnsAt(e.to)
  <1> DEFINE n == e.to
             m == e.msg
             s == inst[n]
             v == s.learner.value
             h == Handle(n, s, m)
             r == SelfDeliver(n, h)
  <1>0. inst \in AllInstances /\ MailTrue(sent, e) /\ m.sender # n
    BY SafetyTypes DEF Abroad
  <1>1. Receipt(inst, sent, BagToSet(net), n, e)
    BY EnvelopeReceipt
  <1>2. /\ n \in Nodes /\ m \in Messages /\ s \in Instances
        /\ GoodInstance(s) /\ Owner(s.proposer.ballot) = n
        /\ GoodResult(h)
    BY <1>1, ReceiptTypes DEF Receipt
  <1>3. LearnsFrom(sent, v, h.inst, h.resp)
    <2>1. CASE m.type # "AckAccept"
      <3>1. (m.type = "Accept" /\ m.ballot = s.proposer.ballot) => FALSE
        <4>1. m.type = "Accept" => m \in OfType(sent, "Accept")
          BY <1>0 DEF MailTrue, Counted, OfType
        <4>2. m.type = "Accept" => RequestTrue(inst, sent, m)
          BY <4>1 DEF SafetyInv, Safe, VoteInv
        <4> QED BY <1>0, <1>2, <4>2 DEF RequestTrue
      <3>2. m.type = "Learn" => Decided(sent, m.command)
        BY <1>0 DEF MailTrue
      <3>3. LearnsFrom(sent, v, s, m)
        BY <2>1, <3>1, <3>2 DEF LearnsFrom
      <3> QED BY <1>2, <3>3, HandleLearns
    <2>2. CASE m.type = "AckAccept"
      <3>1. h = HandleAckAccept(n, s, m)
        BY <2>2 DEF Handle
      <3>2. SafeAfter(inst, sent, BagToSet(net), n, e, h)
        BY <1>1, <2>2, <3>1, AckAcceptSafe
      <3>3. h.inst.learner = s.learner
            /\ (h.resp = NoMessage \/ h.resp.type = "Learn")
        <4> DEFINE p == s.proposer
                   q == [FreshProposer(n) EXCEPT !.state = "Learning",
                                                 !.ballot = p.ballot]
                   t == [s EXCEPT !.proposer.accepts = p.accepts + 1]
                   u == [s EXCEPT !.proposer = q]
        <4>1. p.accepts + 1 \in Nat
          BY <1>2 DEF Instances, ProposerStates
        <4>2. \/ h = Ignored(s)
              \/ h = [inst |-> t, resp |-> NoMessage]
              \/ h = [inst |-> u,
                      resp |-> [type |-> "Learn", sender |-> n,
                                ballot |-> p.ballot, command |-> p.value]]
          BY <3>1, <4>1, QuorumType DEF HandleAckAccept
        <4> HIDE DEF h, q
        <4>3. t.learner = s.learner /\ u.learner = s.learner
          BY <1>2 DEF Instances
        <4> HIDE DEF t, u
        <4> QED BY <4>2, <4>3 DEF Ignored
      <3> HIDE DEF h
      <3>4. h.resp.type = "Learn" => Decided(sent, h.resp.command)
        <4> SUFFICES ASSUME h.resp.type = "Learn"
                     PROVE  Decided(sent, h.resp.command)
          OBVIOUS
        <4>1. Kept(h.resp) = {} /\ h.resp # NoMessage
          BY DEF Kept, RecordedTypes, NoMessage
        <4>2. [to |-> n, msg |-> h.resp] \in Mail(n, h.resp)
          BY <4>1 DEF Mail
        <4>3. MailTrue(sent \cup Kept(h.resp), [to |-> n, msg |-> h.resp])
          BY <3>2, <4>2 DEF SafeAfter, Safe, CountInv
        <4>4. sent \cup Kept(h.resp) = sent
          BY <4>1
        <4> QED BY <4>3, <4>4 DEF MailTrue
      <3>5. h.resp.type \notin {"Accept", "AckAccept"}
        BY <3>3 DEF NoMessage
      <3> QED BY <3>3, <3>4, <3>5 DEF LearnsFrom
    <2> QED BY <2>1, <2>2
  <1>4. inst' = [inst EXCEPT ![n] = r.inst] /\ sent \subseteq sent'
    BY DEF Receive, Deliver, Commit
  <1> HIDE DEF n, h, r
  <1>5. LearnsFrom(sent, v, r.inst, r.resp)
    BY <1>2, <1>3, SelfDeliverLearns DEF r
  <1>6. inst'[n] = r.inst /\ \A k \in Nodes \ {n} : inst'[k] = inst[k]
    BY <1>0, <1>2, <1>4 DEF AllInstances
  <1>7. LearnsAt(n)
    BY <1>4, <1>5, <1>6 DEF LearnsFrom, LearnsAt
  <1> QED BY <1>7 DEF n

LEMMA ProposeLearns ==
    ASSUME SafetyInv, NEW n \in Nodes, NEW c \in Commands, Propose(n, c)
    PROVE  LearnsAt(n)
  <1> DEFINE fresh == FreshInstance(n, inst[n].disk)
             h == NewPrepare(n, fresh, c)
             r == SelfDeliver(n, h)
  <1>1. inst \in AllInstances /\ inst[n] \in Instances
    BY SafetyTypes
  <1>2. fresh \in Instances /\ fresh.learner = FreshLearner
    BY <1>1, FreshInstanceGood DEF FreshInstance, GoodInstance, Instances
  <1>3. inst' = [inst EXCEPT ![n] = r.inst] /\ sent \subseteq sent'
    BY DEF Propose, Commit
  <1> HIDE DEF fresh
  <1>4. GoodResult(h)
    BY <1>2, NewPrepareGood
  <1>5. h.inst.learner.value = None /\ h.resp.type = "Prepare"
    BY <1>2, NewPrepareFacts DEF FreshLearner
  <1> HIDE DEF h
  <1>6. LearnsFrom(sent, None, h.inst, h.resp)
    BY <1>5 DEF LearnsFrom
  <1> HIDE DEF r
  <1>7. LearnsFrom(sent, None, r.inst, r.resp)
    BY <1>4, <1>6, SelfDeliverLearns DEF r
  <1>8. inst'[n] = r.inst /\ \A k \in Nodes \ {n} : inst'[k] = inst[k]
    BY <1>1, <1>3 DEF AllInstances
  <1> QED BY <1>3, <1>7, <1>8 DEF LearnsFrom, LearnsAt

LEMMA RestartLearns ==
    ASSUME SafetyInv, NEW n \in Nodes, NEW disk, RestartFrom(n, disk)
    PROVE  LearnsAt(n)
  <1>1. inst \in AllInstances
    BY SafetyTypes
  <1>2. inst' = [inst EXCEPT ![n] = Restored(n, disk)] /\ sent' = sent
    BY DEF RestartFrom
  <1>3. Restored(n, disk).learner.value = None
    BY DEF Restored, FreshInstance, FreshLearner
  <1> QED BY <1>1, <1>2, <1>3 DEF AllInstances, LearnsAt

LEMMA StepLearns ==
    ASSUME SafetyInv, Next
    PROVE  \E n \in Nodes : LearnsAt(n)
  <1>1. \A e \in BagToSet(net) : e.to \in Nodes
    BY SafetyTypes DEF Envelopes
  <1>2. ASSUME NEW e \in BagToSet(net), CrashInSaveAccept(e)
        PROVE  LearnsAt(e.to)
    BY <1>1, <1>2, RestartLearns DEF CrashInSaveAccept
  <1> QED
    BY <1>1, <1>2, ProposeLearns, ReceiveLearns, RestartLearns DEF Next, Restart

-----------------------------------------------------------------------------
(* The instance implements Consensus.                                       *)

ChosenSet == {c \in Commands : Chosen(c)}
LearnedBy == [n \in Nodes |-> inst[n].learner.value]

\* What the invariant says of the abstract state: at most one command is
\* chosen, and nothing else is learned.
OneChosen ==
    /\ \A c \in ChosenSet, d \in ChosenSet : c = d
    /\ \A n \in Nodes : LearnedBy[n] \in ChosenSet \cup {None}

LEMMA ChosenDecided == ChosenSet = {c \in Commands : Decided(sent, c)}
  BY VotesMean DEF ChosenSet

LEMMA SafetyOneChosen ==
    ASSUME SafetyInv
    PROVE  OneChosen
  <1>1. VoteInv(inst, sent) /\ sent \subseteq Messages
    BY SafetyTypes DEF SafetyInv, Safe
  <1>2. \A c \in ChosenSet, d \in ChosenSet : c = d
    BY <1>1, ChosenDecided, DecidedOnce
  <1>3. ASSUME NEW n \in Nodes
        PROVE  LearnedBy[n] \in ChosenSet \cup {None}
    <2>1. inst[n].learner.value \in Commands \cup {None}
      BY SafetyTypes DEF Instances, LearnerStates
    <2>2. \/ inst[n].learner.value = None
          \/ Decided(sent, inst[n].learner.value)
      BY DEF SafetyInv, Safe, CountInv, LearnerKnows
    <2> QED BY <2>1, <2>2, ChosenDecided DEF LearnedBy
  <1> QED BY <1>2, <1>3 DEF OneChosen

LEMMA InitMaps == Init => ConsensusInstance!Init
  <1> SUFFICES ASSUME Init PROVE ConsensusInstance!Init
    OBVIOUS
  <1>1. ChosenSet = {}
    BY ChosenDecided DEF Init, Decided, BallotsIn
  <1>2. LearnedBy = [n \in Nodes |-> None]
    BY DEF LearnedBy, Init, FreshInstance, FreshLearner
  <1> QED BY <1>1, <1>2 DEF ConsensusInstance!Init, ChosenSet, LearnedBy

LEMMA StepMaps ==
    ASSUME SafetyInv, SafetyInv', [Next]_vars
    PROVE  [ConsensusInstance!Next]_ConsensusInstance!vars
  <1>1. ChosenSet' = {c \in Commands : Decided(sent', c)}
    <2>1. (ChosenSet = {c \in Commands : Decided(sent, c)})'
      BY ChosenDecided, PTL
    <2> QED BY <2>1
  <1>2. OneChosen /\ OneChosen'
    BY SafetyOneChosen, PTL
  <1>3. CASE UNCHANGED vars
    <2>1. UNCHANGED <<inst, sent>>
      BY <1>3 DEF vars
    <2>2. UNCHANGED <<ChosenSet, LearnedBy>>
      BY <2>1, <1>1, ChosenDecided DEF LearnedBy
    <2> QED BY <2>2 DEF ConsensusInstance!vars, ChosenSet, LearnedBy
  <1>4. ASSUME NEW n \in Nodes, LearnsAt(n)
        PROVE  [ConsensusInstance!Next]_ConsensusInstance!vars
    <2>1. ChosenSet \subseteq ChosenSet'
      BY <1>1, <1>4, ChosenDecided, DecidedStable DEF LearnsAt
    <2>2. LearnedBy' = [LearnedBy EXCEPT ![n] = LearnedBy'[n]]
      BY <1>4 DEF LearnsAt, LearnedBy
    <2>3. \/ LearnedBy'[n] = LearnedBy[n]
          \/ LearnedBy'[n] = None
          \/ LearnedBy'[n] \in ChosenSet
      <3>1. inst'[n].learner.value \in Commands \cup {None}
        BY <1>1, <1>2 DEF OneChosen, LearnedBy
      <3> QED BY <1>4, <3>1, ChosenDecided DEF LearnsAt, LearnedBy
    <2>4. ChosenSet # {} => ChosenSet' = ChosenSet
      BY <1>2, <2>1 DEF OneChosen
    <2>5. CASE LearnedBy'[n] = LearnedBy[n]
      <3>1. LearnedBy' = LearnedBy
        BY <2>2, <2>5 DEF LearnedBy
      <3>2. CASE ChosenSet' = ChosenSet
        BY <3>1, <3>2 DEF ConsensusInstance!vars, ChosenSet, LearnedBy
      <3>3. CASE ChosenSet' # ChosenSet
        <4>1. ChosenSet = {} /\ \E c \in Commands : ChosenSet' = {c}
          BY <1>1, <1>2, <2>4, <3>3 DEF OneChosen
        <4> QED BY <3>1, <4>1
             DEF ConsensusInstance!Next, ConsensusInstance!Choose,
                 ChosenSet, LearnedBy
      <3> QED BY <3>2, <3>3
    <2>6. CASE LearnedBy'[n] = None /\ LearnedBy[n] # None
      <3>1. ChosenSet' = ChosenSet
        BY <1>2, <2>4, <2>6 DEF OneChosen
      <3>2. LearnedBy' = [LearnedBy EXCEPT ![n] = None]
        BY <2>2, <2>6
      <3> QED BY <3>1, <3>2
           DEF ConsensusInstance!Next, ConsensusInstance!Forget,
               ChosenSet, LearnedBy
    <2>7. CASE LearnedBy'[n] \in ChosenSet /\ LearnedBy'[n] # LearnedBy[n]
      <3>1. ChosenSet' = ChosenSet /\ LearnedBy[n] = None
        BY <1>2, <2>4, <2>7 DEF OneChosen
      <3>2. \E c \in ChosenSet : LearnedBy' = [LearnedBy EXCEPT ![n] = c]
        BY <2>2, <2>7
      <3> QED BY <3>1, <3>2
           DEF ConsensusInstance!Next, ConsensusInstance!Learn,
               ChosenSet, LearnedBy
    <2> QED BY <2>3, <2>5, <2>6, <2>7
  <1> QED BY <1>3, <1>4, StepLearns

\* A cluster of any size implements Consensus: every step of a node, a crash
\* or a restart chooses the one command, lets one node learn it or forget it,
\* or changes nothing of either (the invariant and the PaxosInstance state
\* machines of src/multipaxos/synod).
THEOREM InstanceImplementsConsensus == Spec => ImplementsConsensus
  BY InitMaps, StepMaps, SafetyHolds, PTL
     DEF Spec, ImplementsConsensus, ConsensusInstance!Spec
=============================================================================
