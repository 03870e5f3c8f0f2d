----------------------------- MODULE PaxosInstance -----------------------------
(***************************************************************************)
(* One Paxos instance as one node holds it: the acceptor, the proposer and *)
(* the learner of src/multipaxos/synod, the acceptor state this node has   *)
(* written to its storage, and the handlers that connect them.  The module *)
(* has no variables: every handler is an operator from an instance and a   *)
(* message to the changed instance and the message it answers with, which  *)
(* Synod (one instance, many nodes) and MultiPaxos (many instances) place  *)
(* in a network.                                                           *)
(***************************************************************************)
EXTENDS Naturals, Sequences

CONSTANTS
    N,          \* total_nodes of SmrConfig
    Commands,   \* the commands clients may propose
    None        \* Option::None where an Option<C> is expected

\* PaxosInstance::new asserts quorum_size >= 2, which excludes N < 2.
ASSUME NAssumption == N \in Nat /\ N >= 2
ASSUME NoneAssumption == None \notin Commands

Nodes == 0 .. N - 1
Quorum == N \div 2 + 1

-----------------------------------------------------------------------------
(* Data.  A ballot of a real proposal is at least N (see NextBallot), so    *)
(* ballot 0 marks the absent Option<MaxAcceptedProposal>.                   *)

NoProposal == [ballot |-> 0, command |-> None]
Proposals == [ballot : Nat, command : Commands] \cup {NoProposal}

Messages ==
         [type : {"Prepare"}, sender : Nodes, ballot : Nat]
    \cup [type : {"Promise"}, sender : Nodes, ballot : Nat,
          max_accepted : Proposals]
    \cup [type : {"Accept", "Learn"}, sender : Nodes, ballot : Nat,
          command : Commands]
    \cup [type : {"AckAccept"}, sender : Nodes, ballot : Nat]
    \cup [type : {"NackPrepare", "NackAccept"}, sender : Nodes,
          max_ballot : Nat]

\* A handler that answers nothing returns NoMessage.
NoMessage == [type |-> "None"]

AcceptorStates == [max_ballot : Nat, max_accepted : Proposals]

\* A field that the Rust state does not carry (promises outside Proposal, ...)
\* holds its initial value.
ProposerStates ==
    [state    : {"Initial", "Proposal", "Accepting", "Learning"},
     ballot   : Nat,
     promises : Nat,
     accepts  : Nat,
     nacks    : Nat,
     best     : Proposals,   \* the max_by_key of max_accepted_proposals
     value    : Commands \cup {None}]

LearnerStates ==
    [value  : Commands \cup {None},
     voters : SUBSET Nodes,
     votes  : [Commands -> Nat],
     ballot : Nat]

\* The keys acceptor/<id>/ballot and acceptor/<id>/accepted; ballot 0 when the
\* first key does not exist.
Disks == [ballot : Nat, accepted : Proposals]

Instances == [acceptor : AcceptorStates, proposer : ProposerStates,
              learner : LearnerStates, disk : Disks]

\* A proposer that prepares or proposes carries a command.
HasValue(s) ==
    s.proposer.state \in {"Proposal", "Accepting"} => s.proposer.value \in Commands

NoVotes == [c \in Commands |-> 0]
FreshAcceptor == [max_ballot |-> 0, max_accepted |-> NoProposal]
FreshProposer(me) ==
    [state |-> "Initial", ballot |-> me, promises |-> 0, accepts |-> 0,
     nacks |-> 0, best |-> NoProposal, value |-> None]
FreshLearner == [value |-> None, voters |-> {}, votes |-> NoVotes, ballot |-> 0]
FreshDisk == [ballot |-> 0, accepted |-> NoProposal]

FreshInstance(me, disk) ==
    [acceptor |-> FreshAcceptor, proposer |-> FreshProposer(me),
     learner |-> FreshLearner, disk |-> disk]

\* restore_acceptor: what with_storage rebuilds of an instance after a restart.
\* An instance without a ballot key is not restored at all.
Restored(me, disk) ==
    IF disk.ballot = 0
    THEN FreshInstance(me, disk)
    ELSE [FreshInstance(me, disk) EXCEPT
            !.acceptor = [max_ballot |-> disk.ballot,
                          max_accepted |-> disk.accepted]]

-----------------------------------------------------------------------------
(* The acceptor and its storage.                                           *)

\* Mutant: the promise is not written before it is sent.
SavePromiseLater(disk, b) == disk

SavePromise(disk, b) == [disk EXCEPT !.ballot = b]

\* Mutant: save_accept without its call of save_promise.
SaveAcceptedOnly(disk, b, c) ==
    [disk EXCEPT !.accepted = [ballot |-> b, command |-> c]]

\* The ballot key first, then the accepted key: see Torn for a crash between.
SaveAccept(disk, b, c) ==
    [SavePromise(disk, b) EXCEPT !.accepted = [ballot |-> b, command |-> c]]

\* What is on disk when the node stops between the two puts of save_accept.
Torn(before, after) == [after EXCEPT !.accepted = before.accepted]

HandlePrepare(me, s, m) ==
    IF s.acceptor.max_ballot < m.ballot
    THEN [inst |-> [s EXCEPT !.acceptor.max_ballot = m.ballot,
                             !.disk = SavePromise(@, m.ballot)],
          resp |-> [type |-> "Promise", sender |-> me, ballot |-> m.ballot,
                    max_accepted |-> s.acceptor.max_accepted]]
    ELSE [inst |-> s,
          resp |-> [type |-> "NackPrepare", sender |-> me,
                    max_ballot |-> s.acceptor.max_ballot]]

\* Mutant: the acceptor accepts whatever it has promised.
HandleAcceptUnguarded(me, s, m) ==
    [inst |-> [s EXCEPT
                 !.acceptor = [max_ballot |-> m.ballot,
                               max_accepted |-> [ballot |-> m.ballot,
                                                 command |-> m.command]],
                 !.disk = SaveAccept(@, m.ballot, m.command)],
     resp |-> [type |-> "AckAccept", sender |-> me, ballot |-> m.ballot]]

HandleAccept(me, s, m) ==
    IF m.ballot >= s.acceptor.max_ballot
    THEN [inst |-> [s EXCEPT
                      !.acceptor = [max_ballot |-> m.ballot,
                                    max_accepted |-> [ballot |-> m.ballot,
                                                      command |-> m.command]],
                      !.disk = SaveAccept(@, m.ballot, m.command)],
          resp |-> [type |-> "AckAccept", sender |-> me, ballot |-> m.ballot]]
    ELSE [inst |-> s,
          resp |-> [type |-> "NackAccept", sender |-> me,
                    max_ballot |-> s.acceptor.max_ballot]]

-----------------------------------------------------------------------------
(* The proposer.                                                           *)

NextBallot(b, me) == (b \div N + 1) * N + me

\* The node whose ballots, by NextBallot, b is one of.
Owner(b) == b % N

NewPrepare(me, s, v) ==
    LET b == NextBallot(s.proposer.ballot, me)
    IN  [inst |-> [s EXCEPT !.proposer =
                     [FreshProposer(me) EXCEPT !.state = "Proposal",
                                               !.ballot = b,
                                               !.value = v]],
         resp |-> [type |-> "Prepare", sender |-> me, ballot |-> b]]

\* Mutant: the proposer asks for acceptance and goes on counting promises.
NewAcceptInProposal(me, s, b, v) ==
    [inst |-> s,
     resp |-> [type |-> "Accept", sender |-> me, ballot |-> b, command |-> v]]

NewAccept(me, s, b, v) ==
    [inst |-> [s EXCEPT !.proposer =
                 [FreshProposer(me) EXCEPT !.state = "Accepting",
                                           !.ballot = b,
                                           !.value = v]],
     resp |-> [type |-> "Accept", sender |-> me, ballot |-> b, command |-> v]]

Ignored(s) == [inst |-> s, resp |-> NoMessage]

\* Mutant: the proposal of the latest promise, not the one of highest ballot.
LatestProposal(best, p) == IF p # NoProposal THEN p ELSE best

\* The last of the proposals with the highest ballot, as max_by_key picks it.
Higher(best, p) == IF p.ballot >= best.ballot THEN p ELSE best

\* Mutant: the proposer keeps its own command.
OwnValueToAccept(best, own) == own

\* Mutant: no fallback when no acceptor has accepted anything.
AcceptedValueOnly(best, own) == best.command

ValueToAccept(best, own) == IF best = NoProposal THEN own ELSE best.command

HandlePromise(me, s, m) ==
    LET p        == s.proposer
        best     == Higher(p.best, m.max_accepted)
        promises == p.promises + 1
    IN  CASE p.state # "Proposal" \/ m.ballot # p.ballot -> Ignored(s)
          [] p.state = "Proposal" /\ m.ballot = p.ballot /\ promises < Quorum ->
               [inst |-> [s EXCEPT !.proposer.promises = promises,
                                   !.proposer.best = best],
                resp |-> NoMessage]
          [] p.state = "Proposal" /\ m.ballot = p.ballot /\ promises >= Quorum ->
               NewAccept(me, s, p.ballot, ValueToAccept(best, p.value))

\* Mutant: an acknowledgement of an earlier ballot counts too.
HandleAnyAckAccept(me, s, m) ==
    LET p       == s.proposer
        accepts == p.accepts + 1
    IN  CASE p.state # "Accepting" -> Ignored(s)
          [] p.state = "Accepting" /\ accepts < Quorum ->
               [inst |-> [s EXCEPT !.proposer.accepts = accepts],
                resp |-> NoMessage]
          [] p.state = "Accepting" /\ accepts >= Quorum ->
               [inst |-> [s EXCEPT !.proposer =
                            [FreshProposer(me) EXCEPT !.state = "Learning",
                                                      !.ballot = p.ballot]],
                resp |-> [type |-> "Learn", sender |-> me, ballot |-> p.ballot,
                          command |-> p.value]]

\* Mutant: one acknowledgement short of a quorum is taken for a quorum.
HandleEarlyAckAccept(me, s, m) ==
    LET p       == s.proposer
        accepts == p.accepts + 2
    IN  CASE p.state # "Accepting" \/ m.ballot # p.ballot -> Ignored(s)
          [] p.state = "Accepting" /\ m.ballot = p.ballot /\ accepts < Quorum ->
               [inst |-> [s EXCEPT !.proposer.accepts = accepts - 1],
                resp |-> NoMessage]
          [] p.state = "Accepting" /\ m.ballot = p.ballot /\ accepts >= Quorum ->
               [inst |-> [s EXCEPT !.proposer =
                            [FreshProposer(me) EXCEPT !.state = "Learning",
                                                      !.ballot = p.ballot]],
                resp |-> [type |-> "Learn", sender |-> me, ballot |-> p.ballot,
                          command |-> p.value]]

HandleAckAccept(me, s, m) ==
    LET p       == s.proposer
        accepts == p.accepts + 1
    IN  CASE p.state # "Accepting" \/ m.ballot # p.ballot -> Ignored(s)
          [] p.state = "Accepting" /\ m.ballot = p.ballot /\ accepts < Quorum ->
               [inst |-> [s EXCEPT !.proposer.accepts = accepts],
                resp |-> NoMessage]
          [] p.state = "Accepting" /\ m.ballot = p.ballot /\ accepts >= Quorum ->
               [inst |-> [s EXCEPT !.proposer =
                            [FreshProposer(me) EXCEPT !.state = "Learning",
                                                      !.ballot = p.ballot]],
                resp |-> [type |-> "Learn", sender |-> me, ballot |-> p.ballot,
                          command |-> p.value]]

\* NackPrepare counts in Proposal, NackAccept in Accepting.  Neither the ballot
\* the nack answers nor its sender is looked at.
NackCounts(p, m) ==
    \/ p.state = "Proposal" /\ m.type = "NackPrepare"
    \/ p.state = "Accepting" /\ m.type = "NackAccept"

HandleNack(me, s, m) ==
    LET p     == s.proposer
        nacks == p.nacks + 1
        seen  == IF m.max_ballot > p.ballot THEN m.max_ballot ELSE p.ballot
    IN  CASE ~NackCounts(p, m) -> Ignored(s)
          [] NackCounts(p, m) /\ nacks <= N - Quorum ->
               [inst |-> [s EXCEPT !.proposer.nacks = nacks],
                resp |-> NoMessage]
          [] NackCounts(p, m) /\ nacks > N - Quorum ->
               NewPrepare(me, [s EXCEPT !.proposer.ballot = seen], p.value)

-----------------------------------------------------------------------------
(* The learner.                                                            *)

\* A newer ballot starts the count again; an older one is counted with the rest.
AtBallot(l, b) ==
    IF b > l.ballot
    THEN [l EXCEPT !.ballot = b, !.voters = {}, !.votes = NoVotes]
    ELSE l

IsDuplicate(l, m) == m.ballot = l.ballot /\ m.sender \in l.voters

Learned(l, m) ==
    LET at    == AtBallot(l, m.ballot)
        votes == at.votes[m.command] + 1
    IN  CASE l.value # None -> l
          [] l.value = None /\ IsDuplicate(at, m) -> at
          [] l.value = None /\ ~IsDuplicate(at, m) /\ votes < Quorum ->
               [at EXCEPT !.voters = @ \cup {m.sender},
                          !.votes[m.command] = votes]
          [] l.value = None /\ ~IsDuplicate(at, m) /\ votes >= Quorum ->
               [at EXCEPT !.value = m.command, !.voters = {},
                          !.votes = NoVotes]

\* Mutant: a Learn is not repeated.
HandleLearnSilently(me, s, m) ==
    [inst |-> [s EXCEPT !.learner = Learned(@, m)], resp |-> NoMessage]

\* Mutant: a node repeats its own Learn too.
HandleLearnAgain(me, s, m) ==
    [inst |-> [s EXCEPT !.learner = Learned(@, m)],
     resp |-> IF s.learner.value = None
              THEN [m EXCEPT !.sender = me]
              ELSE NoMessage]

\* A node that had not learned repeats the Learn in its own name.
HandleLearn(me, s, m) ==
    [inst |-> [s EXCEPT !.learner = Learned(@, m)],
     resp |-> IF s.learner.value = None /\ m.sender # me
              THEN [m EXCEPT !.sender = me]
              ELSE NoMessage]

-----------------------------------------------------------------------------
(* PaxosInstance::handle_message, and MultiPaxosNode::self_deliver.         *)

Handle(me, s, m) ==
    CASE m.type = "Prepare"   -> HandlePrepare(me, s, m)
      [] m.type = "Promise"   -> HandlePromise(me, s, m)
      [] m.type = "Accept"    -> HandleAccept(me, s, m)
      [] m.type = "AckAccept" -> HandleAckAccept(me, s, m)
      [] m.type \in {"NackPrepare", "NackAccept"} -> HandleNack(me, s, m)
      [] m.type = "Learn"     -> HandleLearn(me, s, m)

\* One round of self_deliver's loop: the response is sent out, and handled by
\* the node itself, which may answer once more.
Echo(me, r) ==
    IF r.resp = NoMessage
    THEN r
    ELSE LET h == Handle(me, r.inst, r.resp)
         IN  [inst |-> h.inst, resp |-> h.resp, out |-> Append(r.out, r.resp)]

\* A handler's answer r, handled by the node itself until there is no answer.
\* The loop is unrolled: no chain of answers is longer than the five rounds
\* (property CascadeDrains of Synod).
SelfDeliver(me, r) ==
    LET first == [inst |-> r.inst, resp |-> r.resp, out |-> << >>]
    IN  Echo(me, Echo(me, Echo(me, Echo(me, Echo(me, first)))))

\* handle_message of a message from the network, with all it sets off.
Deliver(me, s, m) == SelfDeliver(me, Handle(me, s, m))
=============================================================================
