--------------------------------- MODULE Synod ---------------------------------
(***************************************************************************)
(* One instance of the log, run by the whole cluster: every proposal goes  *)
(* through phase 1 (MultiPaxosNode::propose without a leader ballot).      *)
(* Messages of the instance travel through a bag: they arrive in any       *)
(* order, each at most once, and one that is never received was lost.      *)
(* Nodes stop and restart from what they have written to storage.          *)
(***************************************************************************)
EXTENDS PaxosInstance, Bags, FiniteSets

CONSTANTS
    Proposers,    \* the nodes whose clients propose in this instance
    MaxBallot,    \* bound: no proposer goes to a ballot above it
    MaxCrashes    \* bound: how often nodes stop and restart, all together

ASSUME ProposersAssumption == Proposers \subseteq Nodes
ASSUME BoundsAssumption == MaxBallot \in Nat /\ MaxCrashes \in Nat

VARIABLES
    inst,      \* inst[n]: the instance as node n holds it
    opened,    \* opened[n]: n has an entry for it in paxos_instances
    net,       \* the bag of envelopes on their way to another node
    sent,      \* history: the messages of RecordedTypes ever sent
    crashes    \* how often a node has stopped

vars == <<inst, opened, net, sent, crashes>>

-----------------------------------------------------------------------------
(* Messages.  TcpChannel::send broadcasts to every peer.  A Promise or an    *)
(* AckAccept is ignored by every node but the one that owns the ballot, and  *)
(* a nack by a node that never proposes here, so only the copies that can    *)
(* have an effect are put in the bag.                                        *)

Audience(m) ==
    CASE m.type \in {"Promise", "AckAccept"} -> {Owner(m.ballot)} \ {m.sender}
      [] m.type \in {"NackPrepare", "NackAccept"} -> Proposers \ {m.sender}
      [] m.type \in {"Prepare", "Accept", "Learn"} -> Nodes \ {m.sender}

Envelopes == [to : Nodes, msg : Messages]

RecordedTypes == {"Prepare", "Promise", "Accept", "AckAccept"}

Envelope(out) ==
    UNION {{[to |-> n, msg |-> out[i]] : n \in Audience(out[i])} :
           i \in DOMAIN out}

Record(out) ==
    {out[i] : i \in {j \in DOMAIN out : out[j].type \in RecordedTypes}}

-----------------------------------------------------------------------------
Init ==
    /\ inst = [n \in Nodes |-> FreshInstance(n, FreshDisk)]
    /\ opened = [n \in Nodes |-> FALSE]
    /\ net = EmptyBag
    /\ sent = {}
    /\ crashes = 0

\* Node n's instance becomes r.inst, and the messages r.out leave n; `received`
\* is the bag of the envelope this consumes, if any.
Commit(n, r, received) ==
    /\ r.inst.proposer.ballot <= MaxBallot
    /\ inst' = [inst EXCEPT ![n] = r.inst]
    /\ opened' = [opened EXCEPT ![n] = TRUE]
    /\ net' = (net (-) received) (+) SetToBag(Envelope(r.out))
    /\ sent' = sent \cup Record(r.out)
    /\ UNCHANGED crashes

\* propose: next_instance_id is past every instance the node has opened.
Propose(n, c) ==
    /\ n \in Proposers
    /\ ~opened[n]
    /\ LET first == NewPrepare(n, FreshInstance(n, inst[n].disk), c)
       IN  Commit(n, SelfDeliver(n, first), EmptyBag)

\* handle_message of an envelope addressed to this node.
Receive(e) ==
    /\ BagIn(e, net)
    /\ \E r \in {Deliver(e.to, inst[e.to], e.msg)} :
          Commit(e.to, r, SetToBag({e}))

\* with_storage after a stop, from what is on disk.
RestartFrom(n, disk) ==
    /\ crashes < MaxCrashes
    /\ crashes' = crashes + 1
    /\ inst' = [inst EXCEPT ![n] = Restored(n, disk)]
    /\ opened' = [opened EXCEPT ![n] = disk.ballot # 0]
    /\ UNCHANGED sent

Restart(n) ==
    /\ RestartFrom(n, inst[n].disk)
    /\ UNCHANGED net

\* The node stops between the two puts of save_accept: nothing of the step has
\* been sent, and only the ballot of the acceptance is on disk.
CrashInSaveAccept(e) ==
    /\ BagIn(e, net)
    /\ LET before == inst[e.to].disk
           after  == Deliver(e.to, inst[e.to], e.msg).inst.disk
       IN  /\ after.accepted # before.accepted
           /\ RestartFrom(e.to, Torn(before, after))
    /\ net' = net (-) SetToBag({e})

Next ==
    \/ \E n \in Nodes, c \in Commands : Propose(n, c)
    \/ \E e \in BagToSet(net) : Receive(e)
    \/ \E n \in Nodes : Restart(n)
    \/ \E e \in BagToSet(net) : CrashInSaveAccept(e)

Spec == Init /\ [][Next]_vars

\* Reliable links and a scheduler that runs every node's message loop: whatever
\* is on its way is received.  Justified only while connections stay up.
FairSpec ==
    /\ Spec
    /\ \A n \in Nodes : WF_vars(\E e \in BagToSet(net) : e.to = n /\ Receive(e))
    /\ \A n \in Proposers : WF_vars(\E c \in Commands : Propose(n, c))

-----------------------------------------------------------------------------
(* What has been accepted, and what is chosen.                              *)

VotedFor(a, b, c) ==
    /\ [type |-> "AckAccept", sender |-> a, ballot |-> b] \in sent
    /\ [type |-> "Accept", sender |-> Owner(b), ballot |-> b, command |-> c]
         \in sent

ChosenAt(b, c) == Cardinality({a \in Nodes : VotedFor(a, b, c)}) >= Quorum

SentBallots == {m.ballot : m \in sent}

Chosen(c) == \E b \in SentBallots : ChosenAt(b, c)

-----------------------------------------------------------------------------
TypeOK ==
    /\ inst \in [Nodes -> Instances]
    /\ opened \in [Nodes -> BOOLEAN]
    /\ IsABag(net) /\ BagToSet(net) \subseteq Envelopes
    /\ sent \subseteq Messages
    /\ crashes \in Nat

\* Two nodes never learn different commands for the instance, whatever the
\* order of messages, the duels of proposers and the crashes (README.md: "the
\* same commands are applied in the same order on every node").
Agreement ==
    \A m, n \in Nodes :
        \/ inst[m].learner.value = None
        \/ inst[n].learner.value = None
        \/ inst[m].learner.value = inst[n].learner.value

\* A4 of acceptor.rs: under one ballot at most one command is put to the
\* acceptors, also by a node that restarts or that retries after nacks.
OneCommandPerBallot ==
    \A m, k \in sent :
        (m.type = "Accept" /\ k.type = "Accept" /\ m.ballot = k.ballot) => m = k

\* A5 of acceptor.rs: once a majority has accepted a command, no acceptor ever
\* accepts another one in a higher ballot.
ChosenProtected ==
    \A b, bb \in SentBallots, c, cc \in Commands, a \in Nodes :
        (ChosenAt(b, c) /\ bb > b /\ VotedFor(a, bb, cc)) => c = cc

\* A learner adopts only what a majority of acceptors accepted, although it
\* counts votes of several ballots together and restarts lose its count.
LearnedIsChosen ==
    \A n \in Nodes :
        inst[n].learner.value # None => Chosen(inst[n].learner.value)

\* The proposer counts promises and accepts without looking at who sent them;
\* still it never counts more of them than acceptors answered its ballot.
CountsAreAcceptors ==
    \A n \in Nodes :
        LET p == inst[n].proposer
            Answered(t) == {a \in Nodes : \E m \in sent :
                              m.type = t /\ m.sender = a /\ m.ballot = p.ballot}
        IN  /\ p.promises <= Cardinality(Answered("Promise"))
            /\ p.accepts <= Cardinality(Answered("AckAccept"))

\* self_deliver terminates: whatever is received next, the chain of a node's
\* answers to itself ends within the rounds SelfDeliver unrolls.
CascadeDrains ==
    \A e \in BagToSet(net) :
        Deliver(e.to, inst[e.to], e.msg).resp = NoMessage

\* No ballot is prepared twice, neither by two nodes nor by one node that
\* retries, or that restarts and forgets its proposer's ballot.
BallotsNeverReused ==
    [][\A n \in Nodes :
          LET p == inst'[n].proposer
          IN  (p.state = "Proposal" /\ p.ballot # inst[n].proposer.ballot) =>
                  \A m \in sent : m.type = "Prepare" => m.ballot # p.ballot]_vars

\* An acceptor takes back neither a promise nor an acceptance, not even by
\* restarting, or by stopping half-way through saving an acceptance (A1, A3).
AcceptorNeverForgets ==
    [][\A n \in Nodes :
          /\ inst'[n].acceptor.max_ballot >= inst[n].acceptor.max_ballot
          /\ inst'[n].acceptor.max_accepted.ballot
               >= inst[n].acceptor.max_accepted.ballot]_vars

\* The instance implements consensus.
ConsensusInstance ==
    INSTANCE Consensus WITH
        chosen  <- {c \in Commands : Chosen(c)},
        learned <- [n \in Nodes |-> inst[n].learner.value]
ImplementsConsensus == ConsensusInstance!Spec

\* With reliable links, no crash and one proposer, every node learns.
EveryNodeLearns == <>(\A n \in Nodes : inst[n].learner.value # None)
=============================================================================
