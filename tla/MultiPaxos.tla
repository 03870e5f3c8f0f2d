------------------------------- MODULE MultiPaxos -------------------------------
(***************************************************************************)
(* MultiPaxosNode on every node of the cluster: the instances of the log,  *)
(* the leader that skips phase 1 in new instances, followers that forward  *)
(* their clients' commands to it, and the loop of the runtime that applies *)
(* what is learned, in order, and answers the waiting clients.             *)
(*                                                                         *)
(* The background task handles one message from the network at a time,     *)
(* with the algorithm locked from handle_message to the end of the apply   *)
(* loop, and propose holds the same lock: each is one action.              *)
(***************************************************************************)
EXTENDS PaxosInstance, Bags, FiniteSets

CONSTANTS
    Requests,       \* the client calls of propose: records [node, command]
    NumInstances,   \* bound: instances 0 .. NumInstances - 1 can be proposed in
    MaxBallot,      \* bound: no proposer goes to a ballot above it
    MaxCrashes      \* bound: how often nodes stop and restart, all together

ASSUME RequestsAssumption ==
    /\ Requests \subseteq [node : Nodes, command : Commands]
    /\ IsFiniteSet(Requests)
ASSUME BoundsAssumption ==
    NumInstances \in Nat \ {0} /\ MaxBallot \in Nat /\ MaxCrashes \in Nat

VARIABLES
    instances,          \* instances[n][i]: paxos_instances, fresh where absent
    opened,             \* opened[n]: the keys of paxos_instances
    next_instance_id,
    leader_ballot,      \* NoBallot for None
    known_leader_id,
    pending_senders,    \* pending_senders[n][i]: the command whose client waits
    forwarded_senders,  \* forwarded_senders[n][f]: the same, by forward_id
    next_forward_id,
    applied,            \* applied[n]: what the state machine of n applied
    replies,            \* history: [asked, answered] for each answered client
    requested,          \* the members of Requests whose call has been made
    net,                \* the bag of envelopes on their way to another node
    sent,               \* history: Accept, AckAccept and Learn, by instance
    crashes

node_vars == <<instances, opened, next_instance_id, leader_ballot,
               known_leader_id, pending_senders, forwarded_senders,
               next_forward_id>>
vars == <<node_vars, applied, replies, requested, net, sent, crashes>>

Ids == 0 .. NumInstances - 1
ForwardIds == 0 .. Cardinality(Requests) - 1
NoBallot == 0

-----------------------------------------------------------------------------
(* Messages.                                                                *)

Forwards ==
         [type : {"RequestCommandToLeader"}, command : Commands,
          forward_id : ForwardIds]
    \cup [type : {"ForwardAck"}, forward_id : ForwardIds]

Envelopes == [to : Nodes, from : Nodes, id : Ids, msg : Messages \cup Forwards]

\* TcpChannel::send: every message goes to every other node.
Broadcast(n, id, out) ==
    {[to |-> m, from |-> n, id |-> id, msg |-> out[i]] :
        m \in Nodes \ {n}, i \in DOMAIN out}

Record(id, out) ==
    {[id |-> id, msg |-> out[i]] :
        i \in {j \in DOMAIN out : out[j].type \in {"Accept", "AckAccept", "Learn"}}}

-----------------------------------------------------------------------------
Init ==
    /\ instances = [n \in Nodes |-> [i \in Ids |-> FreshInstance(n, FreshDisk)]]
    /\ opened = [n \in Nodes |-> {}]
    /\ next_instance_id = [n \in Nodes |-> 0]
    /\ leader_ballot = [n \in Nodes |-> NoBallot]
    /\ known_leader_id = [n \in Nodes |-> None]
    /\ pending_senders = [n \in Nodes |-> [i \in Ids |-> None]]
    /\ forwarded_senders = [n \in Nodes |-> [f \in ForwardIds |-> None]]
    /\ next_forward_id = [n \in Nodes |-> 0]
    /\ applied = [n \in Nodes |-> << >>]
    /\ replies = {}
    /\ requested = {}
    /\ net = EmptyBag
    /\ sent = {}
    /\ crashes = 0

-----------------------------------------------------------------------------
(* propose.                                                                 *)

IsLeader(n) == leader_ballot[n] # NoBallot

\* The first message of a new instance: an Accept under the ballot the leader
\* has won with elsewhere, or a Prepare.
FirstMessage(n, c, fresh) ==
    IF IsLeader(n)
    THEN NewAccept(n, fresh, leader_ballot[n], c)
    ELSE NewPrepare(n, fresh, c)

\* The instance a proposal goes to is past every instance the node has seen.
NextFree(n) == next_instance_id[n] + 1

\* propose in an instance of its own; `client` is the command whose client
\* waits for the outcome (None when the receiver was dropped).
ProposeHere(n, c, client, received, answer) ==
    LET id    == next_instance_id[n]
        fresh == FreshInstance(n, instances[n][id].disk)
    IN  /\ id \in Ids
        /\ \E r \in {SelfDeliver(n, FirstMessage(n, c, fresh))} :
              /\ r.inst.proposer.ballot <= MaxBallot
              /\ instances' = [instances EXCEPT ![n][id] = r.inst]
              /\ net' = (net (-) received)
                          (+) SetToBag(Broadcast(n, id, r.out \o answer))
              /\ sent' = sent \cup Record(id, r.out)
        /\ opened' = [opened EXCEPT ![n] = @ \cup {id}]
        /\ next_instance_id' = [next_instance_id EXCEPT ![n] = NextFree(n)]
        /\ pending_senders' = [pending_senders EXCEPT ![n][id] = client]
        /\ UNCHANGED <<leader_ballot, known_leader_id, forwarded_senders,
                       next_forward_id>>

\* propose hands the command to the known leader, under a fresh forward id.
Forward(n, c) ==
    LET f == next_forward_id[n]
        m == [type |-> "RequestCommandToLeader", command |-> c,
              forward_id |-> f]
    IN  /\ forwarded_senders' = [forwarded_senders EXCEPT ![n][f] = c]
        /\ next_forward_id' = [next_forward_id EXCEPT ![n] = f + 1]
        /\ net' = net (+) SetToBag(Broadcast(n, 0, <<m>>))
        /\ UNCHANGED <<instances, opened, next_instance_id, leader_ballot,
                       known_leader_id, pending_senders, sent>>

HasLeader(n) == ~IsLeader(n) /\ known_leader_id[n] # None

Propose(req) ==
    /\ req \in Requests \ requested
    /\ requested' = requested \cup {req}
    /\ \/ HasLeader(req.node) /\ Forward(req.node, req.command)
       \/ ~HasLeader(req.node)
          /\ ProposeHere(req.node, req.command, req.command, EmptyBag, << >>)
    /\ UNCHANGED <<applied, replies, crashes>>

-----------------------------------------------------------------------------
(* The apply loop of the runtime: get_commit_id(last_applied) until the next *)
(* instance is not learned.  It runs after every message handled.           *)

LearnedValue(n, i) == instances[n][i].learner.value

\* Mutant: the loop runs to the last learned instance, over any gap.
CommitUpToLast(n) ==
    CHOOSE k \in Len(applied[n]) .. NumInstances :
        /\ k > Len(applied[n]) => LearnedValue(n, k - 1)' # None
        /\ \A i \in Ids : i >= k => LearnedValue(n, i)' = None

\* The number of instances applied once the loop of n ends.
CommitUpTo(n) ==
    CHOOSE k \in Len(applied[n]) .. NumInstances :
        /\ \A i \in Len(applied[n]) .. k - 1 : LearnedValue(n, i)' # None
        /\ k \in Ids => LearnedValue(n, k)' = None

\* Applies, and answers the client waiting for the instance if there is one;
\* `pending` is pending_senders of n after the message was handled.
ApplyLoop(n, pending) ==
    \E k \in {CommitUpTo(n)} :
        LET new == Len(applied[n]) .. k - 1
        IN  /\ applied' = [applied EXCEPT ![n] =
                             [i \in 1 .. k |-> IF i <= Len(applied[n])
                                               THEN applied[n][i]
                                               ELSE LearnedValue(n, i - 1)']]
            /\ replies' = replies \cup
                 {[asked |-> pending[i], answered |-> LearnedValue(n, i)'] :
                    i \in {j \in new : pending[j] # None}}
            /\ pending_senders' = [pending_senders EXCEPT ![n] =
                 [i \in Ids |-> IF i \in new THEN None ELSE pending[i]]]

-----------------------------------------------------------------------------
(* handle_message.                                                          *)

\* The leader after a message m that was answered by r.
\* Mutant: repeating a Learn counts as winning.
AnsweredByLearn(m, r) == r.type = "Learn"

WonRound(m, r) == m.type # "Learn" /\ r.type = "Learn"

LostTo(ballot, b) == IF b > ballot THEN NoBallot ELSE ballot

LeaderAfter(ballot, m, r) ==
    CASE WonRound(m, r)         -> r.ballot
      [] r.type = "Promise"     -> LostTo(ballot, r.ballot)
      [] m.type = "NackAccept"  -> LostTo(ballot, m.max_ballot)
      [] OTHER                 -> ballot

KnownLeaderAfter(n, known, m, r) ==
    CASE WonRound(m, r)                    -> None
      [] m.type = "Learn" /\ m.sender # n  -> m.sender
      [] OTHER                             -> known

\* Mutant: every message moves next_instance_id.
AlwaysAhead(next, id) == next + 1

\* next_instance_id stays ahead of every instance seen.
AheadOf(next, id) == IF id >= next THEN id + 1 ELSE next

ReceivePaxos(e) ==
    LET n == e.to
    IN  /\ e.msg \in Messages
        /\ \E first \in {Handle(n, instances[n][e.id], e.msg)} :
           \E r \in {SelfDeliver(n, first)} :
              /\ r.inst.proposer.ballot <= MaxBallot
              /\ instances' = [instances EXCEPT ![n][e.id] = r.inst]
              /\ leader_ballot' = [leader_ballot EXCEPT
                                     ![n] = LeaderAfter(@, e.msg, first.resp)]
              /\ known_leader_id' = [known_leader_id EXCEPT
                                     ![n] = KnownLeaderAfter(n, @, e.msg,
                                                             first.resp)]
              /\ net' = (net (-) SetToBag({e}))
                          (+) SetToBag(Broadcast(n, e.id, r.out))
              /\ sent' = sent \cup Record(e.id, r.out)
        /\ opened' = [opened EXCEPT ![n] = @ \cup {e.id}]
        /\ next_instance_id' = [next_instance_id EXCEPT ![n] = AheadOf(@, e.id)]
        /\ ApplyLoop(n, pending_senders[n])
        /\ UNCHANGED <<forwarded_senders, next_forward_id>>

\* A leader proposes what another node forwards, and tells every node which
\* instance the forward id went to.
ReceiveForward(e) ==
    /\ e.msg.type = "RequestCommandToLeader"
    /\ IsLeader(e.to)
    /\ ProposeHere(e.to, e.msg.command, None, SetToBag({e}),
                   <<[type |-> "ForwardAck", forward_id |-> e.msg.forward_id]>>)
    /\ UNCHANGED <<applied, replies>>

DropForward(e) ==
    /\ e.msg.type = "RequestCommandToLeader"
    /\ ~IsLeader(e.to)
    /\ net' = net (-) SetToBag({e})
    /\ UNCHANGED <<node_vars, applied, replies, sent>>

\* Whichever node waits under this forward id now waits for the instance.
ReceiveForwardAck(e) ==
    /\ e.msg.type = "ForwardAck"
    /\ LET n == e.to
           f == e.msg.forward_id
           c == forwarded_senders[n][f]
       IN  /\ forwarded_senders' = [forwarded_senders EXCEPT ![n][f] = None]
           /\ pending_senders' = IF c = None THEN pending_senders
                                 ELSE [pending_senders EXCEPT ![n][e.id] = c]
    /\ net' = net (-) SetToBag({e})
    /\ UNCHANGED <<instances, opened, next_instance_id, leader_ballot,
                   known_leader_id, next_forward_id, applied, replies, sent>>

Receive(e) ==
    /\ BagIn(e, net)
    /\ \/ ReceivePaxos(e)
       \/ ReceiveForward(e)
       \/ DropForward(e)
       \/ ReceiveForwardAck(e)
    /\ UNCHANGED <<requested, crashes>>

-----------------------------------------------------------------------------
(* with_storage, after a stop between two messages: the acceptors come back *)
(* from storage and the state machine by replaying the command log; the     *)
(* rest starts afresh.                                                      *)

Persisted(n) == {i \in Ids : instances[n][i].disk.ballot # 0}

\* Mutant: with_storage starts again at the first instance.
FromTheStart(n) == 0

PastPersisted(n) ==
    CHOOSE k \in 0 .. NumInstances :
        /\ \A i \in Persisted(n) : i < k
        /\ k # 0 => k - 1 \in Persisted(n)

Restart(n) ==
    /\ crashes < MaxCrashes
    /\ crashes' = crashes + 1
    /\ instances' = [instances EXCEPT ![n] =
                       [i \in Ids |-> Restored(n, instances[n][i].disk)]]
    /\ opened' = [opened EXCEPT ![n] = Persisted(n)]
    /\ next_instance_id' = [next_instance_id EXCEPT ![n] = PastPersisted(n)]
    /\ leader_ballot' = [leader_ballot EXCEPT ![n] = NoBallot]
    /\ known_leader_id' = [known_leader_id EXCEPT ![n] = None]
    /\ pending_senders' = [pending_senders EXCEPT ![n] = [i \in Ids |-> None]]
    /\ forwarded_senders' =
         [forwarded_senders EXCEPT ![n] = [f \in ForwardIds |-> None]]
    /\ next_forward_id' = [next_forward_id EXCEPT ![n] = 0]
    /\ UNCHANGED <<applied, replies, requested, net, sent>>

Next ==
    \/ \E req \in Requests : Propose(req)
    \/ \E e \in BagToSet(net) : Receive(e)
    \/ \E n \in Nodes : Restart(n)

Spec == Init /\ [][Next]_vars

-----------------------------------------------------------------------------
(* What has been accepted, and what is chosen, per instance.                 *)

Said(i, m) == [id |-> i, msg |-> m] \in sent

VotedFor(a, i, b, c) ==
    /\ Said(i, [type |-> "AckAccept", sender |-> a, ballot |-> b])
    /\ Said(i, [type |-> "Accept", sender |-> Owner(b), ballot |-> b,
                command |-> c])

ChosenAt(i, b, c) == Cardinality({a \in Nodes : VotedFor(a, i, b, c)}) >= Quorum

SentBallots == {s.msg.ballot : s \in sent}

Chosen(i, c) == \E b \in SentBallots : ChosenAt(i, b, c)

-----------------------------------------------------------------------------
TypeOK ==
    /\ instances \in [Nodes -> [Ids -> Instances]]
    /\ \A n \in Nodes, i \in Ids : HasValue(instances[n][i])
    /\ opened \in [Nodes -> SUBSET Ids]
    /\ next_instance_id \in [Nodes -> 0 .. NumInstances]
    /\ leader_ballot \in [Nodes -> Nat]
    /\ known_leader_id \in [Nodes -> Nodes \cup {None}]
    /\ pending_senders \in [Nodes -> [Ids -> Commands \cup {None}]]
    /\ forwarded_senders \in [Nodes -> [ForwardIds -> Commands \cup {None}]]
    /\ next_forward_id \in [Nodes -> 0 .. Cardinality(Requests)]
    /\ applied \in [Nodes -> Seq(Commands)]
    /\ \A n \in Nodes : Len(applied[n]) <= NumInstances
    /\ replies \subseteq [asked : Commands, answered : Commands]
    /\ requested \subseteq Requests
    /\ IsABag(net) /\ BagToSet(net) \subseteq Envelopes
    /\ sent \subseteq [id : Ids, msg : Messages]
    /\ crashes \in Nat

\* The credential of the fast path is earned: a node leads only with a ballot
\* of its own under which a majority has accepted a command in some instance.
LeaderHasWon ==
    \A n \in Nodes : IsLeader(n) =>
        /\ Owner(leader_ballot[n]) = n
        /\ \E i \in Ids, c \in Commands : ChosenAt(i, leader_ballot[n], c)

\* A4 of acceptor.rs, with the fast path and with forwarded proposals: under
\* one ballot and instance at most one command is put to the acceptors.
OneCommandPerBallot ==
    \A s, t \in sent :
        (/\ s.msg.type = "Accept" /\ t.msg.type = "Accept"
         /\ s.id = t.id /\ s.msg.ballot = t.msg.ballot) => s = t

\* Whatever a state machine applied as its i-th command was accepted by a
\* majority in instance i - 1: the apply loop skips no gap and takes no
\* instance for another, in whatever order they are learned.
AppliedIsChosen ==
    \A n \in Nodes, i \in Ids :
        i < Len(applied[n]) => Chosen(i, applied[n][i + 1])

\* No proposal is put in an instance the node has already taken part in, which
\* would replace its acceptor and forget what that had promised (insert in
\* propose overwrites); restarts forget nothing either.
AcceptorNeverForgets ==
    [][\A n \in Nodes, i \in Ids :
          /\ instances'[n][i].acceptor.max_ballot
               >= instances[n][i].acceptor.max_ballot
          /\ instances'[n][i].acceptor.max_accepted.ballot
               >= instances[n][i].acceptor.max_accepted.ballot]_vars

-----------------------------------------------------------------------------
(* Claims of the repository's documents that the code does not meet.         *)

\* README.md: the same commands are applied in the same order on every node.
SameOrder ==
    \A m, n \in Nodes, i \in 1 .. NumInstances :
        (i <= Len(applied[m]) /\ i <= Len(applied[n])) =>
            applied[m][i] = applied[n][i]

\* mod.rs, "Send ForwardAck so the forwarder can map forward_id to
\* instance_id": a client whose command was forwarded comes to wait for an
\* instance only when the leader has put that command there.
AckReachesForwarder ==
    [][\A n \in Nodes, i \in Ids :
          (/\ forwarded_senders'[n] # forwarded_senders[n]
           /\ pending_senders'[n][i] # pending_senders[n][i]
           /\ pending_senders'[n][i] # None) =>
              \E s \in sent : /\ s.id = i /\ s.msg.type = "Accept"
                              /\ s.msg.command = pending_senders'[n][i]]_vars

\* The client that is answered gets the outcome of its own command.
RepliesMatch == \A p \in replies : p.asked = p.answered
=============================================================================
