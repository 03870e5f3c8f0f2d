---------------------------- MODULE MultiPaxosProofs ----------------------------
(***************************************************************************)
(* Theorems about MultiPaxos, for every number of nodes and instances, set *)
(* of commands and of client calls, and bound: type correctness, what an   *)
(* acceptor keeps, under which ballots a node leads and proposes, and that *)
(* what a state machine applies was accepted by a majority.                *)
(***************************************************************************)
EXTENDS MultiPaxos, InstanceProofs, NaturalLemmas

-----------------------------------------------------------------------------
(* The type invariant.  A forward id is in range because a node uses a new   *)
(* one for each call it forwards, and an applied log is no longer than the    *)
(* instances there are.                                                      *)

InstancesTyped ==
    /\ instances \in [Nodes -> [Ids -> Instances]]
    /\ \A n \in Nodes, i \in Ids : HasValue(instances[n][i])

LeadershipTyped ==
    /\ opened \in [Nodes -> SUBSET Ids]
    /\ next_instance_id \in [Nodes -> 0 .. NumInstances]
    /\ leader_ballot \in [Nodes -> Nat]
    /\ known_leader_id \in [Nodes -> Nodes \cup {None}]

PendingTyped == pending_senders \in [Nodes -> [Ids -> Commands \cup {None}]]

ForwardsTyped ==
    /\ forwarded_senders \in [Nodes -> [ForwardIds -> Commands \cup {None}]]
    /\ next_forward_id \in [Nodes -> 0 .. Cardinality(Requests)]
    /\ requested \subseteq Requests
    /\ \A n \in Nodes : next_forward_id[n] <= Cardinality(requested)

AppliedTyped ==
    /\ applied \in [Nodes -> Seq(Commands)]
    /\ \A n \in Nodes : Len(applied[n]) <= NumInstances
    /\ replies \subseteq [asked : Commands, answered : Commands]

NetTyped ==
    /\ IsABag(net) /\ BagToSet(net) \subseteq Envelopes
    /\ sent \subseteq [id : Ids, msg : Messages]

TypeInv ==
    /\ InstancesTyped /\ LeadershipTyped /\ PendingTyped /\ ForwardsTyped
    /\ AppliedTyped /\ NetTyped
    /\ crashes \in Nat

LEMMA TypeInvTypes == TypeInv => TypeOK
  BY DEF TypeInv, TypeOK, InstancesTyped, LeadershipTyped, PendingTyped,
         ForwardsTyped, AppliedTyped, NetTyped

LEMMA CountsOfRequests ==
    /\ IsFiniteSet(Requests) /\ Cardinality(Requests) \in Nat
    /\ \A S \in SUBSET Requests : IsFiniteSet(S) /\ Cardinality(S) \in Nat
    /\ \A S \in SUBSET Requests : \A req \in Requests \ S :
          /\ Cardinality(S \cup {req}) = Cardinality(S) + 1
          /\ Cardinality(S) < Cardinality(Requests)
  <1>1. IsFiniteSet(Requests) /\ Cardinality(Requests) \in Nat
    BY RequestsAssumption, FS_CardinalityType
  <1>2. ASSUME NEW S \in SUBSET Requests
        PROVE  IsFiniteSet(S) /\ Cardinality(S) \in Nat
    BY <1>1, FS_Subset, FS_CardinalityType
  <1>3. ASSUME NEW S \in SUBSET Requests, NEW req \in Requests \ S
        PROVE  /\ Cardinality(S \cup {req}) = Cardinality(S) + 1
               /\ Cardinality(S) < Cardinality(Requests)
    <2>1. Cardinality(S \cup {req}) = Cardinality(S) + 1
      BY <1>2, FS_AddElement
    <2>2. S \cup {req} \in SUBSET Requests
      OBVIOUS
    <2>3. Cardinality(S \cup {req}) <= Cardinality(Requests)
      BY <1>1, <2>2, FS_Subset
    <2> QED BY <1>1, <1>2, <2>1, <2>3
  <1> QED BY <1>1, <1>2, <1>3

LEMMA InitType == Init => TypeInv
  <1> SUFFICES ASSUME Init PROVE TypeInv
    OBVIOUS
  <1>1. \A n \in Nodes : GoodInstance(FreshInstance(n, FreshDisk))
    BY FreshTypes, FreshInstanceGood
  <1>2. InstancesTyped
    BY <1>1 DEF Init, InstancesTyped, GoodInstance
  <1>3. LeadershipTyped /\ PendingTyped
    BY BoundsAssumption DEF Init, LeadershipTyped, PendingTyped, NoBallot
  <1>4. ForwardsTyped
    <2>1. Cardinality({}) = 0
      BY FS_EmptySet
    <2> QED BY <2>1, CountsOfRequests DEF Init, ForwardsTyped
  <1>5. AppliedTyped
    BY BoundsAssumption DEF Init, AppliedTyped
  <1>6. NetTyped
    BY SetToBagType DEF Init, NetTyped, EmptyBag
  <1> QED BY <1>2, <1>3, <1>4, <1>5, <1>6 DEF TypeInv, Init

-----------------------------------------------------------------------------
(* What a step does to one instance and the network: r is what has become of *)
(* instance i of node n, out what the node sends.                            *)

Commits(n, i, r, received, out) ==
    /\ instances' = [instances EXCEPT ![n][i] = r.inst]
    /\ net' = (net (-) received) (+) SetToBag(Broadcast(n, i, out))
    /\ sent' = sent \cup Record(i, r.out)

LEMMA BroadcastType ==
    ASSUME NEW n \in Nodes, NEW i \in Ids, NEW out \in Seq(Messages \cup Forwards)
    PROVE  Broadcast(n, i, out) \subseteq Envelopes
  <1>1. \A j \in DOMAIN out : out[j] \in Messages \cup Forwards
    OBVIOUS
  <1> QED BY <1>1 DEF Broadcast, Envelopes

LEMMA RecordType ==
    ASSUME NEW i \in Ids, NEW out \in Seq(Messages)
    PROVE  Record(i, out) \subseteq [id : Ids, msg : Messages]
  <1>1. \A j \in DOMAIN out : out[j] \in Messages
    OBVIOUS
  <1> QED BY <1>1 DEF Record

LEMMA NetType ==
    ASSUME NetTyped, NEW received, IsABag(received),
           NEW S \in SUBSET Envelopes,
           net' = (net (-) received) (+) SetToBag(S)
    PROVE  IsABag(net') /\ BagToSet(net') \subseteq Envelopes
  <1>1. /\ IsABag(net (-) received)
        /\ BagToSet(net (-) received) \subseteq BagToSet(net)
    BY BagDifferenceType DEF NetTyped
  <1>2. IsABag(SetToBag(S)) /\ BagToSet(SetToBag(S)) = S
    BY SetToBagType
  <1> QED BY <1>1, <1>2, BagUnionType DEF NetTyped

LEMMA CommitsType ==
    ASSUME TypeInv, NEW n \in Nodes, NEW i \in Ids, NEW r, GoodChain(r),
           NEW received, IsABag(received),
           NEW out \in Seq(Messages \cup Forwards),
           Commits(n, i, r, received, out)
    PROVE  InstancesTyped' /\ NetTyped'
  <1>1. r.inst \in Instances /\ HasValue(r.inst) /\ r.out \in Seq(Messages)
    BY DEF GoodChain, GoodResult, GoodInstance
  <1>2. instances \in [Nodes -> [Ids -> Instances]]
        /\ \A k \in Nodes, j \in Ids : HasValue(instances[k][j])
    BY DEF TypeInv, InstancesTyped
  <1>3. instances' = [instances EXCEPT ![n][i] = r.inst]
    BY DEF Commits
  <1>4. instances' \in [Nodes -> [Ids -> Instances]]
    BY <1>1, <1>2, <1>3
  <1>5. ASSUME NEW k \in Nodes, NEW j \in Ids
        PROVE  HasValue(instances'[k][j])
    <2>1. instances'[k][j] = IF k = n /\ j = i THEN r.inst ELSE instances[k][j]
      BY <1>2, <1>3
    <2> QED BY <1>1, <1>2, <2>1
  <1>6. IsABag(net') /\ BagToSet(net') \subseteq Envelopes
    BY BroadcastType, NetType DEF TypeInv, Commits
  <1>7. sent' \subseteq [id : Ids, msg : Messages]
    BY <1>1, RecordType DEF TypeInv, NetTyped, Commits
  <1> QED BY <1>4, <1>5, <1>6, <1>7 DEF InstancesTyped, NetTyped, HasValue

\* How a proposal begins, and what becomes of it.
Fresh(n) == FreshInstance(n, instances[n][next_instance_id[n]].disk)

First(n, c) == FirstMessage(n, c, Fresh(n))

LEMMA FirstGood ==
    ASSUME TypeInv, NEW n \in Nodes, NEW c \in Commands,
           next_instance_id[n] \in Ids
    PROVE  /\ Fresh(n) \in Instances
           /\ GoodResult(First(n, c))
           /\ First(n, c).inst.acceptor = FreshAcceptor
           /\ First(n, c).inst.disk = instances[n][next_instance_id[n]].disk
           /\ First(n, c).inst.learner = FreshLearner
  <1>1. instances[n][next_instance_id[n]] \in Instances
    BY DEF TypeInv, InstancesTyped
  <1>2. instances[n][next_instance_id[n]].disk \in Disks
    BY <1>1 DEF Instances
  <1>3. Fresh(n) \in Instances
    BY <1>2, FreshInstanceGood DEF Fresh, GoodInstance
  <1>4. /\ Fresh(n).acceptor = FreshAcceptor
        /\ Fresh(n).disk = instances[n][next_instance_id[n]].disk
        /\ Fresh(n).learner = FreshLearner
    BY DEF Fresh, FreshInstance
  <1>5. leader_ballot[n] \in Nat
    BY DEF TypeInv, LeadershipTyped
  <1> DEFINE s == Fresh(n)
  <1> HIDE DEF s
  <1>6. /\ GoodResult(NewPrepare(n, s, c))
        /\ GoodResult(NewAccept(n, s, leader_ballot[n], c))
    BY <1>3, <1>5, NewPrepareGood, NewAcceptGood DEF s
  <1>7. \A h \in {NewPrepare(n, s, c), NewAccept(n, s, leader_ballot[n], c)} :
            /\ h.inst.acceptor = s.acceptor
            /\ h.inst.disk = s.disk
            /\ h.inst.learner = s.learner
    <2>1. s \in Instances
      BY <1>3 DEF s
    <2>2. LET h == NewPrepare(n, s, c)
          IN  h.inst.acceptor = s.acceptor /\ h.inst.disk = s.disk
              /\ h.inst.learner = s.learner
      BY <2>1 DEF NewPrepare, Instances
    <2>3. LET h == NewAccept(n, s, leader_ballot[n], c)
          IN  h.inst.acceptor = s.acceptor /\ h.inst.disk = s.disk
              /\ h.inst.learner = s.learner
      BY <2>1 DEF NewAccept, Instances
    <2> QED BY <2>2, <2>3
  <1>8. First(n, c) \in {NewPrepare(n, s, c), NewAccept(n, s, leader_ballot[n], c)}
    BY DEF First, FirstMessage, s
  <1>9. /\ First(n, c).inst.acceptor = s.acceptor
        /\ First(n, c).inst.disk = s.disk
        /\ First(n, c).inst.learner = s.learner
    BY <1>7, <1>8
  <1> QED BY <1>3, <1>4, <1>6, <1>8, <1>9 DEF s

LEMMA ProposeHereFacts ==
    ASSUME TypeInv, NEW n \in Nodes, NEW c \in Commands, NEW client,
           NEW received, NEW answer \in Seq(Forwards),
           ProposeHere(n, c, client, received, answer)
    PROVE  LET i == next_instance_id[n]
               r == SelfDeliver(n, First(n, c))
           IN  /\ i \in Ids
               /\ GoodChain(r)
               /\ r.out \o answer \in Seq(Messages \cup Forwards)
               /\ Commits(n, i, r, received, r.out \o answer)
  <1> DEFINE i == next_instance_id[n]
             r == SelfDeliver(n, First(n, c))
  <1>1. i \in Ids
    BY DEF ProposeHere
  <1>2. GoodChain(r)
    BY <1>1, FirstGood, SelfDeliverGood
  <1>3. r.out \o answer \in Seq(Messages \cup Forwards)
    BY <1>2 DEF GoodChain
  <1>4. Commits(n, i, r, received, r.out \o answer)
    BY DEF ProposeHere, Commits, First, Fresh
  <1> QED BY <1>1, <1>2, <1>3, <1>4

LEMMA ProposeHereType ==
    ASSUME TypeInv, NEW n \in Nodes, NEW c \in Commands,
           NEW client \in Commands \cup {None},
           NEW received, IsABag(received), NEW answer \in Seq(Forwards),
           ProposeHere(n, c, client, received, answer)
    PROVE  InstancesTyped' /\ NetTyped' /\ LeadershipTyped' /\ PendingTyped'
  <1> DEFINE i == next_instance_id[n]
             r == SelfDeliver(n, First(n, c))
  <1>1. /\ i \in Ids /\ GoodChain(r)
        /\ r.out \o answer \in Seq(Messages \cup Forwards)
        /\ Commits(n, i, r, received, r.out \o answer)
    BY ProposeHereFacts
  <1>2. InstancesTyped' /\ NetTyped'
    <2> HIDE DEF r, i
    <2> QED BY <1>1, CommitsType
  <1>3. i + 1 \in 0 .. NumInstances
    BY <1>1, BoundsAssumption DEF Ids
  <1>4. LeadershipTyped'
    BY <1>1, <1>3 DEF ProposeHere, TypeInv, LeadershipTyped, NextFree
  <1>5. PendingTyped'
    BY <1>1 DEF ProposeHere, TypeInv, PendingTyped
  <1> QED BY <1>2, <1>4, <1>5

-----------------------------------------------------------------------------
(* The apply loop ends where the next instance is not learned.               *)

LEMMA CommitUpToFacts ==
    ASSUME AppliedTyped, NEW n \in Nodes
    PROVE  /\ CommitUpTo(n) \in Len(applied[n]) .. NumInstances
           /\ \A i \in Len(applied[n]) .. CommitUpTo(n) - 1 :
                 i \in Ids /\ instances'[n][i].learner.value # None
  <1> DEFINE from == Len(applied[n])
             Value(i) == instances'[n][i].learner.value
             T == {k \in from .. NumInstances : k \in Ids => Value(k) = None}
             Ends(k) == /\ \A i \in from .. k - 1 : Value(i) # None
                        /\ k \in Ids => Value(k) = None
  <1>1. from \in 0 .. NumInstances /\ NumInstances \in Nat
    BY BoundsAssumption DEF AppliedTyped
  <1>2. CommitUpTo(n) = CHOOSE k \in from .. NumInstances : Ends(k)
    BY DEF CommitUpTo, LearnedValue
  <1> HIDE DEF from, Value
  <1>3. T \subseteq Nat /\ NumInstances \in T
    BY <1>1 DEF Ids
  <1>4. PICK k \in T : \A j \in T : k <= j
    BY <1>3, LeastNatural
  <1>5. k \in from .. NumInstances /\ k \in Nat
    BY <1>1, <1>4
  <1>6. ASSUME NEW i \in from .. k - 1
        PROVE  Value(i) # None
    <2>1. i \in from .. NumInstances /\ i \notin T
      BY <1>1, <1>4, <1>5
    <2> QED BY <2>1
  <1>7. k \in from .. NumInstances /\ Ends(k)
    BY <1>4, <1>5, <1>6
  <1> HIDE DEF T, Ends
  <1>8. CommitUpTo(n) \in from .. NumInstances /\ Ends(CommitUpTo(n))
    BY <1>2, <1>7
  <1>9. \A i \in from .. CommitUpTo(n) - 1 : i \in Ids
    BY <1>1, <1>8 DEF Ids
  <1> QED BY <1>8, <1>9 DEF Ends, from, Value

LEMMA ApplyLoopType ==
    ASSUME TypeInv, InstancesTyped', NEW n \in Nodes,
           ApplyLoop(n, pending_senders[n])
    PROVE  AppliedTyped' /\ PendingTyped'
  <1> DEFINE from == Len(applied[n])
             k == CommitUpTo(n)
             log == [i \in 1 .. k |-> IF i <= from THEN applied[n][i]
                                      ELSE LearnedValue(n, i - 1)']
             pending == pending_senders[n]
  <1>1. AppliedTyped /\ PendingTyped
    BY DEF TypeInv
  <1>2. /\ k \in from .. NumInstances
        /\ \A i \in from .. k - 1 :
              i \in Ids /\ instances'[n][i].learner.value # None
    BY <1>1, CommitUpToFacts
  <1>3. /\ applied' = [applied EXCEPT ![n] = log]
        /\ replies' = replies \cup
             {[asked |-> pending[i], answered |-> LearnedValue(n, i)'] :
                i \in {j \in from .. k - 1 : pending[j] # None}}
        /\ pending_senders' = [pending_senders EXCEPT ![n] =
             [i \in Ids |-> IF i \in from .. k - 1 THEN None ELSE pending[i]]]
    BY DEF ApplyLoop
  <1>4. from \in Nat /\ applied[n] \in Seq(Commands) /\ NumInstances \in Nat
    BY <1>1, BoundsAssumption DEF AppliedTyped
  <1>5. \A i \in from .. k - 1 : LearnedValue(n, i)' \in Commands
    <2>1. ASSUME NEW i \in from .. k - 1
          PROVE  instances'[n][i].learner.value \in Commands
      <3>1. i \in Ids /\ instances'[n][i].learner.value # None
        BY <1>2
      <3>2. instances'[n][i] \in Instances
        BY <3>1 DEF InstancesTyped
      <3> QED BY <3>1, <3>2 DEF Instances, LearnerStates
    <2> QED BY <2>1 DEF LearnedValue
  <1> HIDE DEF k, from
  <1>6. k \in Nat
    BY <1>2, <1>4
  <1>7. log \in Seq(Commands) /\ Len(log) = k
    <2>1. \A i \in 1 .. k : log[i] \in Commands
      <3>1. ASSUME NEW i \in 1 .. k
            PROVE  log[i] \in Commands
        <4>1. CASE i <= from
          BY <1>4, <4>1 DEF from
        <4>2. CASE ~(i <= from)
          <5>1. i - 1 \in from .. k - 1
            BY <1>4, <1>6, <4>2
          <5>2. LearnedValue(n, i - 1)' \in Commands
            BY <1>5, <5>1
          <5> QED BY <4>2, <5>2
        <4> QED BY <4>1, <4>2
      <3> QED BY <3>1
    <2> QED BY <1>6, <2>1
  <1> HIDE DEF log
  <1>8. AppliedTyped'
    <2>1. applied' \in [Nodes -> Seq(Commands)]
      BY <1>1, <1>3, <1>7 DEF AppliedTyped
    <2>2. \A m \in Nodes : Len(applied'[m]) <= NumInstances
      BY <1>1, <1>2, <1>3, <1>4, <1>6, <1>7 DEF AppliedTyped
    <2>3. \A i \in from .. k - 1 : pending[i] # None => pending[i] \in Commands
      BY <1>1, <1>2 DEF PendingTyped
    <2>4. replies' \subseteq [asked : Commands, answered : Commands]
      BY <1>1, <1>3, <1>5, <2>3 DEF AppliedTyped
    <2> QED BY <2>1, <2>2, <2>4 DEF AppliedTyped
  <1>9. PendingTyped'
    BY <1>1, <1>3 DEF PendingTyped
  <1> QED BY <1>8, <1>9

\* A node restarts right behind the last instance it has a promise on disk for.
LEMMA PastPersistedFacts ==
    ASSUME NEW n \in Nodes
    PROVE  /\ PastPersisted(n) \in 0 .. NumInstances
           /\ \A i \in Persisted(n) : i < PastPersisted(n)
  <1> DEFINE P == Persisted(n)
             T == {k \in 0 .. NumInstances : \A i \in P : i < k}
             Past(k) == (\A i \in P : i < k) /\ (k # 0 => k - 1 \in P)
  <1>1. P \subseteq 0 .. NumInstances - 1 /\ NumInstances \in Nat
    BY BoundsAssumption DEF Persisted, Ids
  <1>2. PastPersisted(n) = CHOOSE k \in 0 .. NumInstances : Past(k)
    BY DEF PastPersisted
  <1> HIDE DEF P
  <1>3. T \subseteq Nat /\ NumInstances \in T
    BY <1>1
  <1>4. PICK k \in T : \A j \in T : k <= j
    BY <1>3, LeastNatural
  <1>5. k # 0 => k - 1 \in P
    <2> SUFFICES ASSUME k # 0 PROVE k - 1 \in P
      OBVIOUS
    <2>1. k - 1 \in 0 .. NumInstances /\ k - 1 \notin T
      BY <1>1, <1>3, <1>4
    <2>2. PICK i \in P : ~(i < k - 1)
      BY <2>1
    <2>3. i < k /\ i \in Nat /\ k \in Nat
      BY <1>1, <1>4
    <2>4. i = k - 1
      BY <2>2, <2>3
    <2> QED BY <2>4
  <1>6. k \in 0 .. NumInstances /\ Past(k)
    BY <1>4, <1>5
  <1> HIDE DEF T, Past
  <1>7. PastPersisted(n) \in 0 .. NumInstances /\ Past(PastPersisted(n))
    BY <1>2, <1>6
  <1> QED BY <1>7 DEF Past, P

-----------------------------------------------------------------------------
(* Every step keeps the types.                                               *)

LEMMA ForwardType ==
    ASSUME TypeInv, NEW req \in Requests \ requested,
           requested' = requested \cup {req}, Forward(req.node, req.command)
    PROVE  ForwardsTyped' /\ NetTyped'
  <1> DEFINE n == req.node
             c == req.command
             f == next_forward_id[n]
             m == [type |-> "RequestCommandToLeader", command |-> c,
                   forward_id |-> f]
  <1>1. ForwardsTyped /\ NetTyped
    BY DEF TypeInv
  <1>2. n \in Nodes /\ c \in Commands
    BY RequestsAssumption
  <1>3. /\ forwarded_senders' = [forwarded_senders EXCEPT ![n][f] = c]
        /\ next_forward_id' = [next_forward_id EXCEPT ![n] = f + 1]
        /\ net' = net (+) SetToBag(Broadcast(n, 0, <<m>>))
        /\ sent' = sent
    BY DEF Forward
  <1> HIDE DEF n, c
  <1>4. /\ Cardinality(Requests) \in Nat /\ Cardinality(requested) \in Nat
        /\ Cardinality(requested') = Cardinality(requested) + 1
        /\ Cardinality(requested) < Cardinality(Requests)
    BY <1>1, CountsOfRequests DEF ForwardsTyped
  <1>5. f \in Nat /\ f <= Cardinality(requested)
    BY <1>1, <1>2 DEF ForwardsTyped
  <1>6. f \in ForwardIds /\ f + 1 \in 0 .. Cardinality(Requests)
    BY <1>4, <1>5 DEF ForwardIds
  <1>7. ForwardsTyped'
    <2>1. forwarded_senders' \in
            [Nodes -> [ForwardIds -> Commands \cup {None}]]
      BY <1>1, <1>2, <1>3, <1>6 DEF ForwardsTyped
    <2>2. next_forward_id' \in [Nodes -> 0 .. Cardinality(Requests)]
      BY <1>1, <1>2, <1>3, <1>6 DEF ForwardsTyped
    <2>3. \A k \in Nodes : next_forward_id'[k] <= Cardinality(requested')
      BY <1>1, <1>2, <1>3, <1>4, <1>5 DEF ForwardsTyped
    <2>4. requested' \subseteq Requests
      BY <1>1 DEF ForwardsTyped
    <2> QED BY <2>1, <2>2, <2>3, <2>4 DEF ForwardsTyped
  <1>8. NetTyped'
    <2>1. m \in Forwards /\ 0 \in Ids
      BY <1>2, <1>6, BoundsAssumption DEF Forwards, Ids
    <2>2. Broadcast(n, 0, <<m>>) \subseteq Envelopes
      <3>1. <<m>> \in Seq(Messages \cup Forwards)
        BY <2>1
      <3> QED BY <1>2, <2>1, <3>1, BroadcastType
    <2> DEFINE S == Broadcast(n, 0, <<m>>)
    <2>3. IsABag(SetToBag(S)) /\ BagToSet(SetToBag(S)) = S
      BY SetToBagType
    <2> HIDE DEF S
    <2>4. IsABag(net') /\ BagToSet(net') \subseteq Envelopes
      <3>1. net' = net (+) SetToBag(S)
        BY <1>3 DEF S
      <3>2. S \subseteq Envelopes
        BY <2>2 DEF S
      <3> QED BY <1>1, <2>3, <3>1, <3>2, BagUnionType DEF NetTyped
    <2> QED BY <1>1, <1>3, <2>4 DEF NetTyped
  <1> QED BY <1>7, <1>8

\* More calls have been made, nothing else has changed for the forwards.
LEMMA MoreRequested ==
    ASSUME ForwardsTyped, NEW req \in Requests \ requested,
           requested' = requested \cup {req},
           UNCHANGED <<forwarded_senders, next_forward_id>>
    PROVE  ForwardsTyped'
  <1>1. /\ Cardinality(requested) \in Nat
        /\ Cardinality(requested') = Cardinality(requested) + 1
    BY CountsOfRequests DEF ForwardsTyped
  <1>2. \A k \in Nodes : next_forward_id[k] \in Nat
    BY CountsOfRequests DEF ForwardsTyped
  <1> QED BY <1>1, <1>2 DEF ForwardsTyped

LEMMA ProposeType ==
    ASSUME TypeInv, NEW req \in Requests, Propose(req)
    PROVE  TypeInv'
  <1>1. /\ req \in Requests \ requested /\ requested' = requested \cup {req}
        /\ UNCHANGED <<applied, replies, crashes>>
    BY DEF Propose
  <1>2. req.node \in Nodes /\ req.command \in Commands
    BY RequestsAssumption
  <1>3. AppliedTyped' /\ crashes' \in Nat
    BY <1>1 DEF TypeInv, AppliedTyped
  <1>4. CASE Forward(req.node, req.command)
    <2>1. ForwardsTyped' /\ NetTyped'
      BY <1>1, <1>4, ForwardType
    <2>2. UNCHANGED <<instances, opened, next_instance_id, leader_ballot,
                      known_leader_id, pending_senders>>
      BY <1>4 DEF Forward
    <2>3. InstancesTyped' /\ LeadershipTyped' /\ PendingTyped'
      BY <2>2 DEF TypeInv, InstancesTyped, LeadershipTyped, PendingTyped, HasValue
    <2> QED BY <1>3, <2>1, <2>3 DEF TypeInv
  <1>5. CASE ProposeHere(req.node, req.command, req.command, EmptyBag, << >>)
    <2>1. IsABag(EmptyBag) /\ << >> \in Seq(Forwards)
      BY SetToBagType DEF EmptyBag
    <2>2. InstancesTyped' /\ NetTyped' /\ LeadershipTyped' /\ PendingTyped'
      BY <1>2, <1>5, <2>1, ProposeHereType
    <2>3. UNCHANGED <<forwarded_senders, next_forward_id>>
      BY <1>5 DEF ProposeHere
    <2>4. ForwardsTyped'
      BY <1>1, <2>3, MoreRequested DEF TypeInv
    <2> QED BY <1>3, <2>2, <2>4 DEF TypeInv
  <1> QED BY <1>4, <1>5 DEF Propose

\* An envelope the network holds.
LEMMA InNet ==
    ASSUME NetTyped, NEW e \in BagToSet(net)
    PROVE  /\ e.to \in Nodes /\ e.from \in Nodes /\ e.id \in Ids
           /\ e.msg \in Messages \cup Forwards
           /\ IsABag(SetToBag({e}))
  BY SetToBagType DEF NetTyped, Envelopes

LEMMA LearnShape ==
    ASSUME NEW m \in Messages, m.type = "Learn"
    PROVE  m.sender \in Nodes /\ m.ballot \in Nat /\ m.command \in Commands
  BY DEF Messages

LEMMA ReceivePaxosFacts ==
    ASSUME TypeInv, NEW e \in BagToSet(net), ReceivePaxos(e)
    PROVE  LET n == e.to
               h == Handle(n, instances[n][e.id], e.msg)
               r == SelfDeliver(n, h)
           IN  /\ n \in Nodes /\ e.id \in Ids /\ e.msg \in Messages
               /\ GoodInstance(instances[n][e.id])
               /\ GoodResult(h) /\ GoodChain(r)
               /\ Commits(n, e.id, r, SetToBag({e}), r.out)
               /\ leader_ballot' = [leader_ballot EXCEPT
                                      ![n] = LeaderAfter(@, e.msg, h.resp)]
               /\ known_leader_id' = [known_leader_id EXCEPT
                                        ![n] = KnownLeaderAfter(n, @, e.msg,
                                                                h.resp)]
  <1> DEFINE n == e.to
             s == instances[n][e.id]
             h == Handle(n, s, e.msg)
             r == SelfDeliver(n, h)
  <1>1. n \in Nodes /\ e.id \in Ids /\ e.msg \in Messages
    BY InNet DEF ReceivePaxos, TypeInv
  <1>2. GoodInstance(s)
    BY <1>1 DEF TypeInv, InstancesTyped, GoodInstance
  <1>3. GoodResult(h)
    BY <1>1, <1>2, HandleGood
  <1>4. GoodChain(r)
    BY <1>1, <1>3, SelfDeliverGood
  <1>5. /\ instances' = [instances EXCEPT ![n][e.id] = r.inst]
        /\ net' = (net (-) SetToBag({e}))
                    (+) SetToBag(Broadcast(n, e.id, r.out))
        /\ sent' = sent \cup Record(e.id, r.out)
        /\ leader_ballot' = [leader_ballot EXCEPT
                               ![n] = LeaderAfter(@, e.msg, h.resp)]
        /\ known_leader_id' = [known_leader_id EXCEPT
                                 ![n] = KnownLeaderAfter(n, @, e.msg, h.resp)]
    BY DEF ReceivePaxos
  <1> QED BY <1>1, <1>2, <1>3, <1>4, <1>5 DEF Commits

LEMMA LeaderAfterType ==
    ASSUME NEW n \in Nodes, NEW b \in Nat, NEW known \in Nodes \cup {None},
           NEW m \in Messages, NEW resp \in Answers
    PROVE  /\ LeaderAfter(b, m, resp) \in Nat
           /\ KnownLeaderAfter(n, known, m, resp) \in Nodes \cup {None}
  <1>1. resp.type \in {"Learn", "Promise"} => resp \in Messages /\ resp.ballot \in Nat
    BY DEF Answers, NoMessage, Messages
  <1>2. m.type = "NackAccept" => m.max_ballot \in Nat
    BY DEF Messages
  <1>3. m.type = "Learn" => m.sender \in Nodes
    BY LearnShape
  <1>4. LeaderAfter(b, m, resp) \in Nat
    BY <1>1, <1>2 DEF LeaderAfter, LostTo, WonRound, NoBallot
  <1>5. KnownLeaderAfter(n, known, m, resp) \in Nodes \cup {None}
    BY <1>3 DEF KnownLeaderAfter, WonRound
  <1> QED BY <1>4, <1>5

LEMMA ReceivePaxosType ==
    ASSUME TypeInv, NEW e \in BagToSet(net), ReceivePaxos(e),
           requested' = requested, crashes' = crashes
    PROVE  TypeInv'
  <1> DEFINE n == e.to
             h == Handle(n, instances[n][e.id], e.msg)
             r == SelfDeliver(n, h)
  <1>1. /\ n \in Nodes /\ e.id \in Ids /\ e.msg \in Messages
        /\ GoodResult(h) /\ GoodChain(r)
        /\ Commits(n, e.id, r, SetToBag({e}), r.out)
        /\ leader_ballot' = [leader_ballot EXCEPT
                               ![n] = LeaderAfter(@, e.msg, h.resp)]
        /\ known_leader_id' = [known_leader_id EXCEPT
                                 ![n] = KnownLeaderAfter(n, @, e.msg, h.resp)]
    BY ReceivePaxosFacts
  <1>2. /\ opened' = [opened EXCEPT ![n] = @ \cup {e.id}]
        /\ next_instance_id' = [next_instance_id EXCEPT ![n] = AheadOf(@, e.id)]
        /\ ApplyLoop(n, pending_senders[n])
        /\ UNCHANGED <<forwarded_senders, next_forward_id>>
    BY DEF ReceivePaxos
  <1> HIDE DEF n, h, r
  <1>3. InstancesTyped' /\ NetTyped'
    <2>1. IsABag(SetToBag({e}))
      BY SetToBagType
    <2>2. r.out \in Seq(Messages \cup Forwards)
      BY <1>1 DEF GoodChain
    <2> QED BY <1>1, <2>1, <2>2, CommitsType
  <1>4. AppliedTyped' /\ PendingTyped'
    BY <1>1, <1>2, <1>3, ApplyLoopType
  <1>5. LeadershipTyped'
    <2>1. leader_ballot[n] \in Nat /\ known_leader_id[n] \in Nodes \cup {None}
          /\ next_instance_id[n] \in 0 .. NumInstances
      BY <1>1 DEF TypeInv, LeadershipTyped
    <2>2. h.resp \in Answers
      BY <1>1 DEF GoodResult
    <2>3. /\ LeaderAfter(leader_ballot[n], e.msg, h.resp) \in Nat
          /\ KnownLeaderAfter(n, known_leader_id[n], e.msg, h.resp)
               \in Nodes \cup {None}
      BY <1>1, <2>1, <2>2, LeaderAfterType
    <2>4. AheadOf(next_instance_id[n], e.id) \in 0 .. NumInstances
      BY <1>1, <2>1, BoundsAssumption DEF AheadOf, Ids
    <2> QED BY <1>1, <1>2, <2>3, <2>4 DEF TypeInv, LeadershipTyped
  <1>6. ForwardsTyped'
    BY <1>2 DEF TypeInv, ForwardsTyped
  <1> QED BY <1>3, <1>4, <1>5, <1>6 DEF TypeInv

\* A forwarded command is proposed, and the answer rides along.
ProposalForwarded(e) ==
    /\ e.to \in Nodes /\ e.msg.command \in Commands
    /\ IsABag(SetToBag({e}))
    /\ \E answer \in Seq(Forwards) :
          ProposeHere(e.to, e.msg.command, None, SetToBag({e}), answer)

LEMMA ReceiveForwardFacts ==
    ASSUME TypeInv, NEW e \in BagToSet(net), ReceiveForward(e)
    PROVE  ProposalForwarded(e)
  <1> DEFINE answer == <<[type |-> "ForwardAck",
                          forward_id |-> e.msg.forward_id]>>
  <1>1. /\ e.to \in Nodes /\ IsABag(SetToBag({e}))
        /\ e.msg \in Messages \cup Forwards
    BY InNet DEF TypeInv
  <1>2. e.msg.type = "RequestCommandToLeader"
    BY DEF ReceiveForward
  <1>3. e.msg.command \in Commands /\ e.msg.forward_id \in ForwardIds
    BY <1>1, <1>2 DEF Forwards, Messages
  <1>4. answer \in Seq(Forwards)
    BY <1>3 DEF Forwards
  <1>5. ProposeHere(e.to, e.msg.command, None, SetToBag({e}), answer)
    BY DEF ReceiveForward
  <1> HIDE DEF answer
  <1> QED BY <1>1, <1>3, <1>4, <1>5 DEF ProposalForwarded

LEMMA ReceiveType ==
    ASSUME TypeInv, NEW e \in BagToSet(net), Receive(e)
    PROVE  TypeInv'
  <1>1. requested' = requested /\ crashes' = crashes
    BY DEF Receive
  <1>2. /\ e.to \in Nodes /\ e.id \in Ids /\ IsABag(SetToBag({e}))
        /\ e.msg \in Messages \cup Forwards
    BY InNet DEF TypeInv
  <1>3. CASE ReceivePaxos(e)
    BY <1>1, <1>3, ReceivePaxosType
  <1>4. CASE ReceiveForward(e)
    <2>1. ProposalForwarded(e)
      BY <1>4, ReceiveForwardFacts
    <2>2. InstancesTyped' /\ NetTyped' /\ LeadershipTyped' /\ PendingTyped'
      BY <1>2, <2>1, ProposeHereType DEF ProposalForwarded
    <2>3. AppliedTyped' /\ ForwardsTyped'
      <3>1. UNCHANGED <<forwarded_senders, next_forward_id, applied, replies>>
        BY <1>4 DEF ProposeHere, ReceiveForward
      <3> QED BY <1>1, <3>1 DEF TypeInv, AppliedTyped, ForwardsTyped
    <2> QED BY <1>1, <2>2, <2>3 DEF TypeInv
  <1>5. ASSUME net' = net (-) SetToBag({e}), sent' = sent
        PROVE  NetTyped'
    BY <1>2, <1>5, BagDifferenceType DEF TypeInv, NetTyped
  <1>6. CASE DropForward(e)
    <2>1. UNCHANGED <<node_vars, applied, replies, sent>>
      BY <1>6 DEF DropForward
    <2>2. NetTyped'
      BY <1>5, <1>6 DEF DropForward
    <2> QED BY <1>1, <2>1, <2>2
        DEF node_vars, TypeInv, InstancesTyped, LeadershipTyped, PendingTyped,
            ForwardsTyped, AppliedTyped, HasValue
  <1>7. CASE ReceiveForwardAck(e)
    <2> DEFINE c == forwarded_senders[e.to][e.msg.forward_id]
    <2>1. e.msg.type = "ForwardAck"
      BY <1>7 DEF ReceiveForwardAck
    <2>2. e.msg.forward_id \in ForwardIds
      BY <1>2, <2>1 DEF Forwards, Messages
    <2>3. c \in Commands \cup {None}
      BY <1>2, <2>2 DEF TypeInv, ForwardsTyped
    <2>4. /\ forwarded_senders' = [forwarded_senders EXCEPT
                                     ![e.to][e.msg.forward_id] = None]
          /\ pending_senders' = IF c = None THEN pending_senders
                                ELSE [pending_senders EXCEPT ![e.to][e.id] = c]
          /\ UNCHANGED <<instances, opened, next_instance_id, leader_ballot,
                         known_leader_id, next_forward_id, applied, replies>>
      BY <1>7 DEF ReceiveForwardAck
    <2> HIDE DEF c
    <2>5. NetTyped'
      BY <1>5, <1>7 DEF ReceiveForwardAck
    <2>6. ForwardsTyped'
      BY <1>1, <1>2, <2>2, <2>4 DEF TypeInv, ForwardsTyped
    <2>7. PendingTyped'
      BY <1>2, <2>3, <2>4 DEF TypeInv, PendingTyped
    <2>8. InstancesTyped' /\ LeadershipTyped' /\ AppliedTyped'
      BY <2>4 DEF TypeInv, InstancesTyped, LeadershipTyped, AppliedTyped, HasValue
    <2> QED BY <1>1, <2>5, <2>6, <2>7, <2>8 DEF TypeInv
  <1> QED BY <1>3, <1>4, <1>6, <1>7 DEF Receive

LEMMA RestartType ==
    ASSUME TypeInv, NEW n \in Nodes, Restart(n)
    PROVE  TypeInv'
  <1> DEFINE back == [i \in Ids |-> Restored(n, instances[n][i].disk)]
  <1>1. \A i \in Ids : GoodInstance(Restored(n, instances[n][i].disk))
    <2>1. \A i \in Ids : instances[n][i].disk \in Disks
      BY DEF TypeInv, InstancesTyped, Instances
    <2> QED BY <2>1, RestoredGood
  <1>2. back \in [Ids -> Instances] /\ \A i \in Ids : HasValue(back[i])
    BY <1>1 DEF GoodInstance
  <1>3. instances' = [instances EXCEPT ![n] = back]
    BY DEF Restart
  <1> HIDE DEF back
  <1>4. InstancesTyped'
    <2>1. instances' \in [Nodes -> [Ids -> Instances]]
      BY <1>2, <1>3 DEF TypeInv, InstancesTyped
    <2>2. ASSUME NEW k \in Nodes, NEW i \in Ids
          PROVE  HasValue(instances'[k][i])
      <3>1. instances'[k] = IF k = n THEN back ELSE instances[k]
        BY <1>3 DEF TypeInv, InstancesTyped
      <3> QED BY <1>2, <3>1 DEF TypeInv, InstancesTyped
    <2> QED BY <2>1, <2>2 DEF InstancesTyped, HasValue
  <1>5. LeadershipTyped'
    <2>1. PastPersisted(n) \in 0 .. NumInstances /\ Persisted(n) \subseteq Ids
      BY PastPersistedFacts DEF Persisted
    <2> QED BY <2>1 DEF Restart, TypeInv, LeadershipTyped, NoBallot
  <1>6. PendingTyped'
    BY DEF Restart, TypeInv, PendingTyped
  <1>7. ForwardsTyped'
    <2>1. Cardinality(requested) \in Nat /\ Cardinality(Requests) \in Nat
      BY CountsOfRequests DEF TypeInv, ForwardsTyped
    <2> QED BY <2>1 DEF Restart, TypeInv, ForwardsTyped
  <1>8. AppliedTyped' /\ NetTyped' /\ crashes' \in Nat
    BY DEF Restart, TypeInv, AppliedTyped, NetTyped
  <1> QED BY <1>4, <1>5, <1>6, <1>7, <1>8 DEF TypeInv

LEMMA StutterType ==
    ASSUME TypeInv, UNCHANGED vars
    PROVE  TypeInv'
  BY DEF vars, node_vars, TypeInv, InstancesTyped, LeadershipTyped,
         PendingTyped, ForwardsTyped, AppliedTyped, NetTyped, HasValue

LEMMA StepType == TypeInv /\ [Next]_vars => TypeInv'
  BY ProposeType, ReceiveType, RestartType, StutterType DEF Next

LEMMA TypeInvariant == Spec => []TypeInv
  BY InitType, StepType, PTL DEF Spec

\* Every variable keeps its type: instance and forward ids stay in range, a
\* proposer that prepares or proposes carries a command, a state machine never
\* applies more commands than there are instances, and no answer of a handler
\* is anything but a message of the protocol.
THEOREM TypesHold == Spec => []TypeOK
  BY TypeInvariant, TypeInvTypes, PTL

-----------------------------------------------------------------------------
(* Durability.  A proposal starts from a fresh acceptor, and that forgets    *)
(* nothing: the node has no promise on disk for an instance it has not yet   *)
(* reached (next_instance_id is past every instance it has taken part in,    *)
(* and with_storage puts it there again after a restart).                    *)

DurableNow == \A n \in Nodes, i \in Ids : Durable(instances[n][i])

BlankAhead ==
    \A n \in Nodes, i \in Ids :
        i >= next_instance_id[n] => instances[n][i].disk.ballot = 0

DurabilityInv == TypeInv /\ DurableNow /\ BlankAhead

AllKeep ==
    \A n \in Nodes, i \in Ids : Keeps(instances[n][i], instances'[n][i])

LEMMA InitDurable == Init => DurabilityInv
  <1> SUFFICES ASSUME Init PROVE DurabilityInv
    OBVIOUS
  <1>1. \A n \in Nodes, i \in Ids :
            instances[n][i] = FreshInstance(n, FreshDisk)
    BY DEF Init
  <1>2. ASSUME NEW n \in Nodes, NEW s, s = FreshInstance(n, FreshDisk)
        PROVE  Durable(s) /\ s.disk.ballot = 0
    <2>1. s.acceptor = FreshAcceptor /\ s.disk = FreshDisk
      BY <1>2 DEF FreshInstance
    <2> QED BY <2>1 DEF FreshDisk, FreshAcceptor, NoProposal, Durable
  <1>3. DurableNow /\ BlankAhead
    BY <1>1, <1>2 DEF DurableNow, BlankAhead
  <1> QED BY <1>3, InitType DEF DurabilityInv

LEMMA TypedInstances ==
    ASSUME TypeInv, NEW n \in Nodes, NEW i \in Ids
    PROVE  /\ instances[n][i] \in Instances
           /\ GoodInstance(instances[n][i])
           /\ instances[n][i].disk \in Disks
  BY DEF TypeInv, InstancesTyped, GoodInstance, Instances

\* The instance a step changes, and all the others.
LEMMA CommitsAt ==
    ASSUME TypeInv, NEW n \in Nodes, NEW i \in Ids, NEW r, NEW received,
           NEW out, Commits(n, i, r, received, out)
    PROVE  \A k \in Nodes, j \in Ids :
              instances'[k][j] = IF k = n /\ j = i THEN r.inst
                                 ELSE instances[k][j]
  <1>1. /\ instances \in [Nodes -> [Ids -> Instances]]
        /\ instances' = [instances EXCEPT ![n][i] = r.inst]
    BY DEF Commits, TypeInv, InstancesTyped
  <1> QED BY <1>1

LEMMA CommitKeeps ==
    ASSUME DurabilityInv, TypeInv', NEW n \in Nodes, NEW i \in Ids, NEW r,
           NEW received, NEW out, Commits(n, i, r, received, out),
           ChainFrom(instances[n][i], r), NEW next \in Nat,
           next_instance_id' = [next_instance_id EXCEPT ![n] = next],
           next > i, next >= next_instance_id[n]
    PROVE  DurabilityInv' /\ AllKeep
  <1>1. \A k \in Nodes, j \in Ids :
            instances'[k][j] = IF k = n /\ j = i THEN r.inst
                               ELSE instances[k][j]
    BY CommitsAt DEF DurabilityInv
  <1>2. Durable(r.inst) /\ Keeps(instances[n][i], r.inst)
    BY DEF ChainFrom
  <1>3. \A k \in Nodes, j \in Ids : Durable(instances'[k][j])
    BY <1>1, <1>2 DEF DurabilityInv, DurableNow
  <1>4. ASSUME NEW k \in Nodes, NEW j \in Ids
        PROVE  Keeps(instances[k][j], instances'[k][j])
    <2>1. Keeps(instances[k][j], instances[k][j])
      BY TypedInstances, KeepsReflexive DEF DurabilityInv
    <2> QED BY <1>1, <1>2, <2>1
  <1>5. ASSUME NEW k \in Nodes, NEW j \in Ids, j >= next_instance_id'[k]
        PROVE  instances'[k][j].disk.ballot = 0
    <2>1. /\ next_instance_id'[k] = IF k = n THEN next ELSE next_instance_id[k]
          /\ next_instance_id[k] \in Nat /\ j \in Nat /\ i \in Nat
      BY BoundsAssumption DEF DurabilityInv, TypeInv, LeadershipTyped, Ids
    <2>2. j >= next_instance_id[k] /\ ~(k = n /\ j = i)
      BY <1>5, <2>1
    <2> QED BY <1>1, <2>2 DEF DurabilityInv, BlankAhead
  <1> QED BY <1>3, <1>4, <1>5 DEF DurabilityInv, DurableNow, BlankAhead,
                                  AllKeep, Durable

\* The instance a proposal goes to is blank, so a fresh acceptor keeps it.
LEMMA FirstKeeps ==
    ASSUME DurabilityInv, NEW n \in Nodes, NEW c \in Commands,
           next_instance_id[n] \in Ids
    PROVE  LET s == instances[n][next_instance_id[n]]
               o == First(n, c)
           IN  /\ s.acceptor.max_ballot = 0
               /\ Fresh(n) \in Instances /\ GoodResult(o)
               /\ Durable(o.inst) /\ Keeps(s, o.inst)
  <1> DEFINE s == instances[n][next_instance_id[n]]
             o == First(n, c)
  <1>1. s \in Instances
    BY TypedInstances DEF DurabilityInv
  <1>2. s.disk.ballot = 0 /\ Durable(s)
    <2>1. next_instance_id[n] >= next_instance_id[n]
      BY BoundsAssumption DEF Ids
    <2> QED BY <2>1 DEF DurabilityInv, DurableNow, BlankAhead
  <1>3. /\ Fresh(n) \in Instances /\ GoodResult(o)
        /\ o.inst.acceptor = FreshAcceptor
        /\ o.inst.disk = s.disk
    BY FirstGood DEF DurabilityInv
  <1> HIDE DEF s, o
  <1>4. Durable(o.inst) /\ Keeps(s, o.inst)
    BY <1>1, <1>2, <1>3, BallotTypes DEF Durable, Keeps, FreshAcceptor, NoProposal
  <1> QED BY <1>2, <1>3, <1>4 DEF Durable, s, o

LEMMA ProposeHereKeeps ==
    ASSUME DurabilityInv, TypeInv', NEW n \in Nodes, NEW c \in Commands,
           NEW client, NEW received, NEW answer \in Seq(Forwards),
           ProposeHere(n, c, client, received, answer)
    PROVE  DurabilityInv' /\ AllKeep
  <1> DEFINE i == next_instance_id[n]
             o == First(n, c)
             r == SelfDeliver(n, o)
  <1>1. i \in Ids /\ Commits(n, i, r, received, r.out \o answer)
    BY ProposeHereFacts DEF DurabilityInv
  <1>2. instances[n][i] \in Instances
    BY <1>1, TypedInstances DEF DurabilityInv
  <1>3. GoodResult(o) /\ Durable(o.inst) /\ Keeps(instances[n][i], o.inst)
    BY <1>1, FirstKeeps
  <1>4. next_instance_id' = [next_instance_id EXCEPT ![n] = i + 1]
    BY DEF ProposeHere, NextFree
  <1>5. i \in Nat
    BY <1>1, BoundsAssumption DEF Ids
  <1> HIDE DEF o, i
  <1>6. ChainFrom(instances[n][i], r)
    BY <1>2, <1>3, SelfDeliverKeeps
  <1> HIDE DEF r
  <1>7. i + 1 \in Nat /\ i + 1 > i /\ i + 1 >= next_instance_id[n]
    BY <1>5 DEF i
  <1> QED BY <1>1, <1>4, <1>6, <1>7, CommitKeeps

LEMMA ReceivePaxosKeeps ==
    ASSUME DurabilityInv, TypeInv', NEW e \in BagToSet(net), ReceivePaxos(e)
    PROVE  DurabilityInv' /\ AllKeep
  <1> DEFINE n == e.to
             s == instances[n][e.id]
             h == Handle(n, s, e.msg)
             r == SelfDeliver(n, h)
             next == AheadOf(next_instance_id[n], e.id)
  <1>1. /\ n \in Nodes /\ e.id \in Ids /\ e.msg \in Messages
        /\ GoodInstance(s) /\ GoodResult(h)
        /\ Commits(n, e.id, r, SetToBag({e}), r.out)
    BY ReceivePaxosFacts DEF DurabilityInv
  <1>2. s \in Instances /\ Durable(s)
    BY <1>1 DEF GoodInstance, DurabilityInv, DurableNow
  <1>3. ChainFrom(s, r)
    BY <1>1, <1>2, HandleKeeps, SelfDeliverKeeps
  <1>4. next_instance_id' = [next_instance_id EXCEPT ![n] = next]
    BY DEF ReceivePaxos
  <1>5. next \in Nat /\ next > e.id /\ next >= next_instance_id[n]
    <2>1. next_instance_id[n] \in Nat /\ e.id \in Nat
      BY <1>1, BoundsAssumption DEF DurabilityInv, TypeInv, LeadershipTyped, Ids
    <2> QED BY <2>1 DEF AheadOf
  <1> HIDE DEF r, next
  <1> QED BY <1>1, <1>3, <1>4, <1>5, CommitKeeps

\* What comes back from storage.
LEMMA RestartedAt ==
    ASSUME TypeInv, NEW n \in Nodes, Restart(n)
    PROVE  \A k \in Nodes, i \in Ids :
              instances'[k][i] = IF k = n THEN Restored(n, instances[n][i].disk)
                                 ELSE instances[k][i]
  BY DEF Restart, TypeInv, InstancesTyped

LEMMA RestartKeeps ==
    ASSUME DurabilityInv, TypeInv', NEW n \in Nodes, Restart(n)
    PROVE  DurabilityInv' /\ AllKeep
  <1>1. \A k \in Nodes, i \in Ids :
            instances'[k][i] = IF k = n THEN Restored(n, instances[n][i].disk)
                               ELSE instances[k][i]
    BY RestartedAt DEF DurabilityInv
  <1>2. ASSUME NEW i \in Ids
        PROVE  LET t == Restored(n, instances[n][i].disk)
               IN  /\ Durable(t) /\ Keeps(instances[n][i], t)
                   /\ t.disk = instances[n][i].disk
    <2>1. /\ instances[n][i] \in Instances /\ instances[n][i].disk \in Disks
          /\ Durable(instances[n][i])
      BY TypedInstances DEF DurabilityInv, DurableNow
    <2>2. instances[n][i].disk.ballot >= instances[n][i].disk.ballot
      BY <2>1, BallotTypes
    <2> QED BY <2>1, <2>2, RestoredKeeps
  <1>3. \A k \in Nodes, i \in Ids : Durable(instances'[k][i])
    BY <1>1, <1>2 DEF DurabilityInv, DurableNow
  <1>4. ASSUME NEW k \in Nodes, NEW i \in Ids
        PROVE  Keeps(instances[k][i], instances'[k][i])
    <2>1. Keeps(instances[k][i], instances[k][i])
      BY TypedInstances, KeepsReflexive DEF DurabilityInv
    <2> QED BY <1>1, <1>2, <2>1
  <1>5. ASSUME NEW k \in Nodes, NEW i \in Ids, i >= next_instance_id'[k]
        PROVE  instances'[k][i].disk.ballot = 0
    <2>1. next_instance_id'[k] = IF k = n THEN PastPersisted(n)
                                 ELSE next_instance_id[k]
      BY DEF Restart, DurabilityInv, TypeInv, LeadershipTyped
    <2>2. CASE k = n
      <3>1. PastPersisted(n) \in Nat /\ i \in Nat /\ i >= PastPersisted(n)
        BY <1>5, <2>1, <2>2, PastPersistedFacts, BoundsAssumption DEF Ids
      <3>2. i \notin Persisted(n)
        BY <3>1, PastPersistedFacts
      <3> QED BY <1>1, <1>2, <2>2, <3>2 DEF Persisted
    <2>3. CASE k # n
      BY <1>1, <1>5, <2>1, <2>3 DEF DurabilityInv, BlankAhead
    <2> QED BY <2>2, <2>3
  <1> QED BY <1>3, <1>4, <1>5 DEF DurabilityInv, DurableNow, BlankAhead,
                                  AllKeep, Durable

\* A step that leaves the instances and the instance ids alone.
LEMMA IdleKeeps ==
    ASSUME DurabilityInv, TypeInv',
           instances' = instances, next_instance_id' = next_instance_id
    PROVE  DurabilityInv' /\ AllKeep
  <1>1. \A n \in Nodes, i \in Ids : Keeps(instances[n][i], instances[n][i])
    BY TypedInstances, KeepsReflexive DEF DurabilityInv
  <1> QED BY <1>1 DEF DurabilityInv, DurableNow, BlankAhead, AllKeep, Durable

LEMMA StepKeeps ==
    ASSUME DurabilityInv, [Next]_vars
    PROVE  DurabilityInv' /\ AllKeep
  <1>1. TypeInv'
    BY StepType DEF DurabilityInv
  <1>2. ASSUME NEW req \in Requests, Propose(req)
        PROVE  DurabilityInv' /\ AllKeep
    <2>1. req.node \in Nodes /\ req.command \in Commands
      BY RequestsAssumption
    <2>2. CASE Forward(req.node, req.command)
      BY <1>1, <2>2, IdleKeeps DEF Forward
    <2>3. CASE ProposeHere(req.node, req.command, req.command, EmptyBag, << >>)
      <3>1. << >> \in Seq(Forwards)
        OBVIOUS
      <3> QED BY <1>1, <2>1, <2>3, <3>1, ProposeHereKeeps
    <2> QED BY <1>2, <2>2, <2>3 DEF Propose
  <1>3. ASSUME NEW e \in BagToSet(net), Receive(e)
        PROVE  DurabilityInv' /\ AllKeep
    <2>1. CASE ReceivePaxos(e)
      BY <1>1, <2>1, ReceivePaxosKeeps
    <2>2. CASE ReceiveForward(e)
      <3>1. ProposalForwarded(e)
        BY <2>2, ReceiveForwardFacts DEF DurabilityInv
      <3> QED BY <1>1, <3>1, ProposeHereKeeps DEF ProposalForwarded
    <2>3. CASE DropForward(e) \/ ReceiveForwardAck(e)
      BY <1>1, <2>3, IdleKeeps DEF DropForward, ReceiveForwardAck, node_vars
    <2> QED BY <1>3, <2>1, <2>2, <2>3 DEF Receive
  <1>4. ASSUME NEW n \in Nodes, Restart(n)
        PROVE  DurabilityInv' /\ AllKeep
    BY <1>1, <1>4, RestartKeeps
  <1>5. CASE UNCHANGED vars
    BY <1>1, <1>5, IdleKeeps DEF vars, node_vars
  <1> QED BY <1>2, <1>3, <1>4, <1>5 DEF Next

\* No step lowers an acceptor's ballot or that of what it has accepted: not
\* propose, which puts a fresh instance where there may have been one, nor
\* with_storage (save_promise and save_accept come before the answer).
THEOREM AcceptorsDurable == Spec => AcceptorNeverForgets
  <1>1. Spec => []DurabilityInv
    <2>1. DurabilityInv /\ [Next]_vars => DurabilityInv'
      BY StepKeeps
    <2> QED BY <2>1, InitDurable, PTL DEF Spec
  <1>2. DurabilityInv /\ [Next]_vars =>
          [\A n \in Nodes, i \in Ids :
              /\ instances'[n][i].acceptor.max_ballot
                   >= instances[n][i].acceptor.max_ballot
              /\ instances'[n][i].acceptor.max_accepted.ballot
                   >= instances[n][i].acceptor.max_accepted.ballot]_vars
    BY StepKeeps DEF AllKeep, Keeps
  <1> QED BY <1>1, <1>2, PTL DEF Spec, AcceptorNeverForgets

-----------------------------------------------------------------------------
(* Ballots.  The instances account, each for itself, for the Accepts that    *)
(* were sent in them; the ballot of a leader is one of its own, and above     *)
(* all that its blank instances account for.                                 *)

SaidAt(i) == {s.msg : s \in {t \in sent : t.id = i}}

Recorded(out) ==
    {m \in Spoken(out) : m.type \in {"Accept", "AckAccept", "Learn"}}

Accounted == \A n \in Nodes, i \in Ids : Accounts(n, instances[n][i], SaidAt(i))

LeadsByItself == \A n \in Nodes : IsLeader(n) => Owner(leader_ballot[n]) = n

BallotInv == DurabilityInv /\ Accounted /\ LeadsByItself

LEMMA SaidAtMessages ==
    ASSUME TypeInv, NEW i \in Ids
    PROVE  SaidAt(i) \subseteq Messages
  BY DEF TypeInv, NetTyped, SaidAt

LEMMA SaidAtGrows ==
    ASSUME NEW n, NEW i, NEW r, NEW received, NEW out,
           Commits(n, i, r, received, out)
    PROVE  \A j \in Ids : SaidAt(j)' = IF j = i THEN SaidAt(i) \cup Recorded(r.out)
                                       ELSE SaidAt(j)
  <1>1. sent' = sent \cup Record(i, r.out)
    BY DEF Commits
  <1>2. \A s : s \in Record(i, r.out) <=>
                 \E m \in Recorded(r.out) : s = [id |-> i, msg |-> m]
    BY DEF Record, Recorded, Spoken
  <1>3. ASSUME NEW j \in Ids, NEW m
        PROVE  m \in SaidAt(j)' <=>
                  m \in SaidAt(j) \/ (j = i /\ m \in Recorded(r.out))
    <2>1. m \in SaidAt(j)' <=> \E s \in sent' : s.id = j /\ s.msg = m
      BY DEF SaidAt
    <2>2. m \in SaidAt(j) <=> \E s \in sent : s.id = j /\ s.msg = m
      BY DEF SaidAt
    <2>3. (\E s \in Record(i, r.out) : s.id = j /\ s.msg = m)
            <=> (j = i /\ m \in Recorded(r.out))
      <3>1. ASSUME NEW s \in Record(i, r.out), s.id = j, s.msg = m
            PROVE  j = i /\ m \in Recorded(r.out)
        BY <1>2, <3>1
      <3>2. ASSUME j = i, m \in Recorded(r.out)
            PROVE  \E s \in Record(i, r.out) : s.id = j /\ s.msg = m
        <4> DEFINE s == [id |-> i, msg |-> m]
        <4>1. s \in Record(i, r.out) /\ s.id = j /\ s.msg = m
          BY <1>2, <3>2
        <4> QED BY <4>1
      <3> QED BY <3>1, <3>2
    <2> QED BY <1>1, <2>1, <2>2, <2>3
  <1> QED BY <1>3

\* What accounts for more accounts for less.
LEMMA AccountsLess ==
    ASSUME NEW n, NEW s, NEW T, NEW U, T \subseteq U, Accounts(n, s, U)
    PROVE  Accounts(n, s, T)
  <1>1. Asked(n, T) \subseteq Asked(n, U)
    BY DEF Asked
  <1> QED BY <1>1 DEF Accounts

\* The answers of another node are nothing a node accounts for.
LEMMA AccountsForOwn ==
    ASSUME NEW n, NEW s, NEW T, NEW U, Accounts(n, s, T),
           \A m \in U \ T : m.sender # n
    PROVE  Accounts(n, s, U)
  <1>1. Asked(n, U) \subseteq Asked(n, T)
    BY DEF Asked
  <1> QED BY <1>1 DEF Accounts

LEMMA CommitAccounts ==
    ASSUME BallotInv, NEW n \in Nodes, NEW i \in Ids, NEW r, NEW received,
           NEW out, Commits(n, i, r, received, out),
           Accounts(n, r.inst, SaidAt(i) \cup Spoken(r.out)),
           \A m \in Spoken(r.out) : m.sender = n
    PROVE  Accounted'
  <1>1. \A k \in Nodes, j \in Ids :
            instances'[k][j] = IF k = n /\ j = i THEN r.inst
                               ELSE instances[k][j]
    BY CommitsAt DEF BallotInv, DurabilityInv
  <1>2. \A j \in Ids : SaidAt(j)' = IF j = i THEN SaidAt(i) \cup Recorded(r.out)
                                    ELSE SaidAt(j)
    BY SaidAtGrows
  <1>3. Recorded(r.out) \subseteq Spoken(r.out)
    BY DEF Recorded
  <1>4. ASSUME NEW k \in Nodes, NEW j \in Ids
        PROVE  Accounts(k, instances'[k][j], SaidAt(j)')
    <2>1. Accounts(k, instances[k][j], SaidAt(j))
      BY DEF BallotInv, Accounted
    <2>2. CASE j # i
      BY <1>1, <1>2, <2>1, <2>2
    <2>3. CASE j = i /\ k # n
      <3>1. \A m \in (SaidAt(i) \cup Recorded(r.out)) \ SaidAt(i) : m.sender # k
        BY <1>3, <2>3
      <3>2. Accounts(k, instances[k][j], SaidAt(i) \cup Recorded(r.out))
        BY <2>1, <2>3, <3>1, AccountsForOwn
      <3> QED BY <1>1, <1>2, <2>3, <3>2
    <2>4. CASE j = i /\ k = n
      <3>1. Accounts(n, r.inst, SaidAt(i) \cup Recorded(r.out))
        BY <1>3, AccountsLess
      <3> QED BY <1>1, <1>2, <2>4, <3>1
    <2> QED BY <2>2, <2>3, <2>4
  <1> QED BY <1>4 DEF Accounted

\* A proposal begins a chain: what its node asked for in this instance before
\* had ballot 0, since the acceptor is blank.
LEMMA FirstOpens ==
    ASSUME BallotInv, NEW n \in Nodes, NEW c \in Commands,
           next_instance_id[n] \in Ids
    PROVE  LET o == First(n, c)
           IN  Speaks(n, o.inst, SaidAt(next_instance_id[n]), Opening(o))
  <1> DEFINE i == next_instance_id[n]
             s == instances[n][i]
             o == First(n, c)
             f == Fresh(n)
             T == SaidAt(i)
  <1>1. /\ s.acceptor.max_ballot = 0
        /\ f \in Instances /\ GoodResult(o)
        /\ Durable(o.inst)
    BY FirstKeeps DEF BallotInv
  <1>2. T \subseteq Messages /\ Accounts(n, s, T)
    BY SaidAtMessages DEF BallotInv, DurabilityInv, Accounted
  <1>3. \A m \in Asked(n, T) : m.ballot = 0 /\ Owner(m.ballot) = n
    <2> SUFFICES ASSUME NEW m \in Asked(n, T)
                 PROVE  m.ballot = 0 /\ Owner(m.ballot) = n
      OBVIOUS
    <2>1. m.ballot \in Nat
      BY <1>2, AskedBallots
    <2>2. m.ballot <= 0 /\ Owner(m.ballot) = n
      BY <1>1, <1>2 DEF Accounts
    <2> QED BY <2>1, <2>2
  <1>4. \A m, k \in Asked(n, T) :
            (m.type = "Accept" /\ k.type = "Accept" /\ m.ballot = k.ballot)
              => m = k
    BY <1>2 DEF Accounts
  <1>5. f.proposer.ballot = n /\ n \in Nat /\ Owner(n) = n
    BY FirstBallot, NodesType DEF Fresh, FreshInstance, FreshProposer
  <1>6. o.inst.acceptor.max_ballot = 0
    BY FirstGood DEF BallotInv, DurabilityInv, FreshAcceptor
  <1>7. o.inst \in Instances
    BY <1>1 DEF GoodResult, GoodInstance
  <1> HIDE DEF T, f
  <1>8. /\ o.inst.proposer.ballot \in Nat /\ o.inst.proposer.ballot > 0
        /\ Owner(o.inst.proposer.ballot) = n
        /\ Pending(n, o.inst, o.resp, T)
    <2>1. CASE IsLeader(n)
      <3> DEFINE b == leader_ballot[n]
      <3>1. b \in Nat /\ b # 0 /\ Owner(b) = n
        BY <2>1 DEF BallotInv, LeadsByItself, DurabilityInv, TypeInv,
                    LeadershipTyped, IsLeader, NoBallot
      <3>2. o = NewAccept(n, f, b, c)
        BY <2>1 DEF First, FirstMessage, f
      <3> HIDE DEF b, o
      <3>3. /\ o.resp = Request(b, c) /\ o.resp.type = "Accept"
            /\ o.resp.ballot = b
            /\ o.inst.proposer.state = "Accepting"
            /\ o.inst.proposer.ballot = b
        BY <1>1, <3>1, <3>2, NewAcceptFacts
      <3>4. o.resp.sender = n
        BY <3>1, <3>3 DEF Request
      <3> QED BY <1>3, <3>1, <3>3, <3>4 DEF Pending
    <2>2. CASE ~IsLeader(n)
      <3>1. o = NewPrepare(n, f, c)
        BY <2>2 DEF First, FirstMessage, f
      <3> HIDE DEF o
      <3>2. /\ Owner(o.inst.proposer.ballot) = n
            /\ o.inst.proposer.ballot \in Nat
            /\ o.inst.proposer.ballot > f.proposer.ballot
            /\ Pending(n, o.inst, o.resp, T)
        BY <1>1, <3>1, NewPrepareGoesOn
      <3> QED BY <1>5, <3>2
    <2> QED BY <2>1, <2>2
  <1> HIDE DEF o
  <1>9. Accounts(n, o.inst, T)
    BY <1>3, <1>4, <1>6, <1>8 DEF Accounts
  <1>10. Advances(o.inst, o.inst) /\ Keeps(o.inst, o.inst)
    BY <1>7, AdvancesReflexive, KeepsReflexive
  <1>11. Speaks(n, o.inst, T, Opening(o))
    BY <1>1, <1>2, <1>7, <1>8, <1>9, <1>10, OpeningSpeaks
  <1> QED BY <1>11 DEF o, T

\* The round a node wins is that of its own proposer.
LEMMA WinFacts ==
    ASSUME NEW n \in Nodes, NEW s, GoodInstance(s), NEW m \in Messages,
           WonRound(m, Handle(n, s, m).resp)
    PROVE  LET p == s.proposer
           IN  /\ m.type = "AckAccept" /\ p.state = "Accepting"
               /\ m.ballot = p.ballot /\ p.accepts + 1 >= Quorum
               /\ Handle(n, s, m).resp.ballot = p.ballot
  <1> DEFINE h == Handle(n, s, m)
  <1>1. m.type # "Learn" /\ h.resp.type = "Learn"
    BY DEF WonRound
  <1>2. CASE m.type = "Prepare"
    BY <1>1, <1>2 DEF Handle, HandlePrepare
  <1>3. CASE m.type = "Accept"
    BY <1>1, <1>3 DEF Handle, HandleAccept
  <1>4. CASE m.type = "Promise"
    <2>1. h = HandlePromise(n, s, m)
      BY <1>4 DEF Handle
    <2>2. s.proposer.promises + 1 \in Nat /\ m.ballot \in Nat
      BY <1>4 DEF GoodInstance, Instances, ProposerStates, Messages
    <2>3. h.resp.type \in {"None", "Accept"}
      BY <2>1, <2>2, QuorumType
      DEF HandlePromise, Ignored, NoMessage, NewAccept
    <2> QED BY <1>1, <2>3
  <1>5. CASE m.type \in {"NackPrepare", "NackAccept"}
    <2>1. h = HandleNack(n, s, m)
      BY <1>5 DEF Handle
    <2>2. s.proposer.nacks + 1 \in Nat /\ N - Quorum \in Int
      BY NAssumption, QuorumType DEF GoodInstance, Instances, ProposerStates
    <2>3. h.resp.type \in {"None", "Prepare"}
      BY <2>1, <2>2 DEF HandleNack, Ignored, NoMessage, NewPrepare
    <2> QED BY <1>1, <2>3
  <1>6. CASE m.type = "AckAccept"
    <2>1. h = HandleAckAccept(n, s, m)
      BY <1>6 DEF Handle
    <2>2. s.proposer.accepts + 1 \in Nat
      BY DEF GoodInstance, Instances, ProposerStates
    <2> QED BY <1>1, <1>6, <2>1, <2>2, QuorumType
        DEF HandleAckAccept, Ignored, NoMessage
  <1> QED BY <1>1, <1>2, <1>3, <1>4, <1>5, <1>6, MessageTypes

LEMMA ReceiveLeads ==
    ASSUME BallotInv, TypeInv', NEW e \in BagToSet(net), ReceivePaxos(e)
    PROVE  LeadsByItself'
  <1> DEFINE n == e.to
             s == instances[n][e.id]
             h == Handle(n, s, e.msg)
             b == leader_ballot[n]
  <1>1. /\ n \in Nodes /\ e.id \in Ids /\ e.msg \in Messages
        /\ GoodInstance(s)
        /\ leader_ballot' = [leader_ballot EXCEPT
                               ![n] = LeaderAfter(@, e.msg, h.resp)]
    BY ReceivePaxosFacts DEF BallotInv, DurabilityInv
  <1>2. Owner(s.proposer.ballot) = n
    BY <1>1 DEF BallotInv, Accounted, Accounts
  <1>3. WonRound(e.msg, h.resp) => h.resp.ballot = s.proposer.ballot
    BY <1>1, WinFacts
  <1>4. leader_ballot \in [Nodes -> Nat] /\ leader_ballot' \in [Nodes -> Nat]
    BY DEF BallotInv, DurabilityInv, TypeInv, LeadershipTyped
  <1> HIDE DEF h, s, n
  <1>5. \/ leader_ballot'[n] = b
        \/ leader_ballot'[n] = NoBallot
        \/ leader_ballot'[n] = h.resp.ballot /\ WonRound(e.msg, h.resp)
    BY <1>1, <1>4 DEF LeaderAfter, LostTo
  <1>6. ASSUME NEW k \in Nodes, leader_ballot'[k] # NoBallot
        PROVE  Owner(leader_ballot'[k]) = k
    <2>1. leader_ballot[k] # NoBallot => Owner(leader_ballot[k]) = k
      BY DEF BallotInv, LeadsByItself, IsLeader
    <2>2. CASE k = n
      BY <1>2, <1>3, <1>5, <1>6, <2>1, <2>2
    <2>3. CASE k # n
      BY <1>1, <1>4, <1>6, <2>1, <2>3
    <2> QED BY <2>2, <2>3
  <1> QED BY <1>6 DEF LeadsByItself, IsLeader

LEMMA ReceiveSpeaks ==
    ASSUME BallotInv, NEW e \in BagToSet(net), ReceivePaxos(e)
    PROVE  LET n == e.to
               s == instances[n][e.id]
           IN  Speaks(n, s, SaidAt(e.id), SelfDeliver(n, Handle(n, s, e.msg)))
  <1> DEFINE n == e.to
             s == instances[n][e.id]
             h == Handle(n, s, e.msg)
             T == SaidAt(e.id)
  <1>1. n \in Nodes /\ e.id \in Ids /\ e.msg \in Messages /\ GoodInstance(s)
    BY ReceivePaxosFacts DEF BallotInv, DurabilityInv
  <1>2. /\ T \subseteq Messages /\ Accounts(n, s, T) /\ Durable(s)
        /\ s \in Instances
    BY <1>1, SaidAtMessages
    DEF BallotInv, DurabilityInv, Accounted, DurableNow, GoodInstance
  <1> HIDE DEF T, s
  <1>3. Speaks(n, s, T, Opening(h))
    BY <1>1, <1>2, HandleOpens
  <1> HIDE DEF h
  <1>4. Speaks(n, s, T, SelfDeliver(n, h))
    BY <1>1, <1>2, <1>3, SelfDeliverSpeaks
  <1> QED BY <1>4 DEF h, s, T

LEMMA ReceivePaxosBallots ==
    ASSUME BallotInv, NEW e \in BagToSet(net), ReceivePaxos(e), DurabilityInv'
    PROVE  BallotInv'
  <1> DEFINE n == e.to
             s == instances[n][e.id]
             r == SelfDeliver(n, Handle(n, s, e.msg))
  <1>1. /\ n \in Nodes /\ e.id \in Ids
        /\ Commits(n, e.id, r, SetToBag({e}), r.out)
    BY ReceivePaxosFacts DEF BallotInv, DurabilityInv
  <1>2. Speaks(n, s, SaidAt(e.id), r)
    BY ReceiveSpeaks
  <1> HIDE DEF r
  <1>3. Accounted'
    BY <1>1, <1>2, CommitAccounts DEF Speaks
  <1>4. LeadsByItself'
    BY ReceiveLeads DEF DurabilityInv
  <1> QED BY <1>3, <1>4 DEF BallotInv

LEMMA ProposeHereSpeaks ==
    ASSUME BallotInv, NEW n \in Nodes, NEW c \in Commands,
           next_instance_id[n] \in Ids
    PROVE  Speaks(n, First(n, c).inst, SaidAt(next_instance_id[n]),
                  SelfDeliver(n, First(n, c)))
  <1> DEFINE o == First(n, c)
             T == SaidAt(next_instance_id[n])
  <1>1. Speaks(n, o.inst, T, Opening(o))
    BY FirstOpens
  <1>2. T \subseteq Messages
    BY SaidAtMessages DEF BallotInv, DurabilityInv
  <1>3. o.inst \in Instances
    BY FirstGood DEF BallotInv, DurabilityInv, GoodResult, GoodInstance
  <1> HIDE DEF o, T
  <1>4. Speaks(n, o.inst, T, SelfDeliver(n, o))
    BY <1>1, <1>2, <1>3, SelfDeliverSpeaks
  <1> QED BY <1>4 DEF o, T

LEMMA ProposeHereBallots ==
    ASSUME BallotInv, NEW n \in Nodes, NEW c \in Commands,
           NEW client, NEW received, NEW answer \in Seq(Forwards),
           ProposeHere(n, c, client, received, answer), DurabilityInv'
    PROVE  BallotInv'
  <1> DEFINE i == next_instance_id[n]
             r == SelfDeliver(n, First(n, c))
  <1>1. i \in Ids /\ Commits(n, i, r, received, r.out \o answer)
    BY ProposeHereFacts DEF BallotInv, DurabilityInv
  <1>2. Speaks(n, First(n, c).inst, SaidAt(i), r)
    BY <1>1, ProposeHereSpeaks
  <1> HIDE DEF r, i
  <1>3. Accounted'
    BY <1>1, <1>2, CommitAccounts DEF Speaks
  <1>4. leader_ballot' = leader_ballot
    BY DEF ProposeHere
  <1>5. LeadsByItself'
    BY <1>4 DEF BallotInv, LeadsByItself, IsLeader
  <1> QED BY <1>3, <1>5 DEF BallotInv

\* A restarted proposer has forgotten its ballots; its acceptor has not.
LEMMA RestoredAccounts ==
    ASSUME NEW n \in Nodes, NEW s \in Instances, Durable(s),
           NEW T, Accounts(n, s, T)
    PROVE  Accounts(n, Restored(n, s.disk), T)
  <1> DEFINE t == Restored(n, s.disk)
  <1>1. s.disk \in Disks
    BY DEF Instances
  <1>2. t.acceptor.max_ballot = s.acceptor.max_ballot
    <2>1. s.disk.ballot >= s.disk.ballot
      BY BallotTypes
    <2>2. Durable(t) /\ t.disk = s.disk
      BY <1>1, <2>1, RestoredKeeps
    <2> QED BY <2>2 DEF Durable
  <1>3. t.proposer = FreshProposer(n)
    BY DEF Restored, FreshInstance
  <1>4. Owner(t.proposer.ballot) = n /\ t.proposer.state = "Initial"
    BY <1>3, FirstBallot DEF FreshProposer
  <1> HIDE DEF t
  <1>5. Accounts(n, t, T)
    BY <1>2, <1>4 DEF Accounts, Active
  <1> QED BY <1>5 DEF t

LEMMA RestartBallots ==
    ASSUME BallotInv, NEW n \in Nodes, Restart(n), DurabilityInv'
    PROVE  BallotInv'
  <1>1. \A k \in Nodes, i \in Ids :
            instances'[k][i] = IF k = n THEN Restored(n, instances[n][i].disk)
                               ELSE instances[k][i]
    BY RestartedAt DEF BallotInv, DurabilityInv
  <1>2. \A i \in Ids : SaidAt(i)' = SaidAt(i)
    BY DEF SaidAt, Restart
  <1>3. ASSUME NEW k \in Nodes, NEW i \in Ids
        PROVE  Accounts(k, instances'[k][i], SaidAt(i)')
    <2>1. /\ instances[k][i] \in Instances /\ Durable(instances[k][i])
          /\ Accounts(k, instances[k][i], SaidAt(i))
      BY TypedInstances DEF BallotInv, DurabilityInv, DurableNow, Accounted
    <2>2. Accounts(k, Restored(k, instances[k][i].disk), SaidAt(i))
      BY <2>1, RestoredAccounts
    <2> QED BY <1>1, <1>2, <2>1, <2>2
  <1>4. LeadsByItself'
    <2>1. \A k \in Nodes : leader_ballot'[k] = IF k = n THEN NoBallot
                                               ELSE leader_ballot[k]
      BY DEF Restart, BallotInv, DurabilityInv, TypeInv, LeadershipTyped
    <2> QED BY <2>1 DEF BallotInv, LeadsByItself, IsLeader
  <1> QED BY <1>3, <1>4 DEF BallotInv, Accounted

LEMMA IdleBallots ==
    ASSUME BallotInv, DurabilityInv',
           UNCHANGED <<instances, leader_ballot, sent>>
    PROVE  BallotInv'
  <1>1. \A i \in Ids : SaidAt(i)' = SaidAt(i)
    BY DEF SaidAt
  <1> QED BY <1>1 DEF BallotInv, Accounted, Accounts, Active, LeadsByItself,
                      IsLeader

LEMMA InitBallots == Init => BallotInv
  <1> SUFFICES ASSUME Init PROVE BallotInv
    OBVIOUS
  <1>1. \A i \in Ids : SaidAt(i) = {}
    BY DEF Init, SaidAt
  <1>2. ASSUME NEW n \in Nodes, NEW i \in Ids
        PROVE  Accounts(n, instances[n][i], SaidAt(i))
    <2>1. instances[n][i].proposer = FreshProposer(n)
      BY DEF Init, FreshInstance
    <2>2. Owner(instances[n][i].proposer.ballot) = n
      BY <2>1, FirstBallot DEF FreshProposer
    <2>3. Asked(n, SaidAt(i)) = {}
      BY <1>1 DEF Asked
    <2> QED BY <2>2, <2>3 DEF Accounts
  <1>3. LeadsByItself
    BY DEF Init, LeadsByItself, IsLeader
  <1> QED BY <1>2, <1>3, InitDurable DEF BallotInv, Accounted

LEMMA StepBallots == BallotInv /\ [Next]_vars => BallotInv'
  <1> SUFFICES ASSUME BallotInv, [Next]_vars PROVE BallotInv'
    OBVIOUS
  <1>1. DurabilityInv'
    BY StepKeeps DEF BallotInv
  <1>2. ASSUME NEW req \in Requests, Propose(req)
        PROVE  BallotInv'
    <2>1. req.node \in Nodes /\ req.command \in Commands
      BY RequestsAssumption
    <2>2. CASE Forward(req.node, req.command)
      BY <1>1, <2>2, IdleBallots DEF Forward
    <2>3. CASE ProposeHere(req.node, req.command, req.command, EmptyBag, << >>)
      <3>1. << >> \in Seq(Forwards)
        OBVIOUS
      <3> QED BY <1>1, <2>1, <2>3, <3>1, ProposeHereBallots
    <2> QED BY <1>2, <2>2, <2>3 DEF Propose
  <1>3. ASSUME NEW e \in BagToSet(net), Receive(e)
        PROVE  BallotInv'
    <2>1. CASE ReceivePaxos(e)
      BY <1>1, <2>1, ReceivePaxosBallots
    <2>2. CASE ReceiveForward(e)
      <3>1. ProposalForwarded(e)
        BY <2>2, ReceiveForwardFacts DEF BallotInv, DurabilityInv
      <3> QED BY <1>1, <3>1, ProposeHereBallots DEF ProposalForwarded
    <2>3. CASE DropForward(e) \/ ReceiveForwardAck(e)
      BY <1>1, <2>3, IdleBallots DEF DropForward, ReceiveForwardAck, node_vars
    <2> QED BY <1>3, <2>1, <2>2, <2>3 DEF Receive
  <1>4. ASSUME NEW n \in Nodes, Restart(n)
        PROVE  BallotInv'
    BY <1>1, <1>4, RestartBallots
  <1>5. CASE UNCHANGED vars
    BY <1>1, <1>5, IdleBallots DEF vars, node_vars
  <1> QED BY <1>2, <1>3, <1>4, <1>5 DEF Next

LEMMA BallotsInvariant == Spec => []BallotInv
  BY InitBallots, StepBallots, PTL DEF Spec

LEMMA BallotsUnambiguous == BallotInv => OneCommandPerBallot
  <1> SUFFICES ASSUME BallotInv, NEW s \in sent, NEW t \in sent,
                      s.msg.type = "Accept", t.msg.type = "Accept",
                      s.id = t.id, s.msg.ballot = t.msg.ballot
               PROVE  s = t
    BY DEF OneCommandPerBallot
  <1>1. /\ s \in [id : Ids, msg : Messages] /\ t \in [id : Ids, msg : Messages]
    BY DEF BallotInv, DurabilityInv, TypeInv, NetTyped
  <1>2. s.id \in Ids /\ s.msg.sender \in Nodes /\ t.msg.sender \in Nodes
    BY <1>1 DEF Messages
  <1>3. s.msg \in SaidAt(s.id) /\ t.msg \in SaidAt(s.id)
    BY DEF SaidAt
  <1>4. /\ s.msg \in Asked(s.msg.sender, SaidAt(s.id))
        /\ t.msg \in Asked(t.msg.sender, SaidAt(s.id))
    BY <1>3 DEF Asked
  <1>5. \A n \in Nodes : Accounts(n, instances[n][s.id], SaidAt(s.id))
    BY <1>2 DEF BallotInv, Accounted
  <1>6. Owner(s.msg.ballot) = s.msg.sender /\ Owner(t.msg.ballot) = t.msg.sender
    BY <1>2, <1>4, <1>5 DEF Accounts
  <1>7. s.msg = t.msg
    BY <1>2, <1>4, <1>5, <1>6 DEF Accounts
  <1> QED BY <1>1, <1>7

\* A4 of acceptor.rs with the fast path: whether a ballot was prepared in the
\* instance, won in another one, or forgotten by a restart, at most one command
\* is put to the acceptors under it.
THEOREM OneCommand == Spec => []OneCommandPerBallot
  BY BallotsInvariant, BallotsUnambiguous, PTL

-----------------------------------------------------------------------------
(* Acknowledgements and learning.  All of this is within one instance of the *)
(* log: I are its states on all nodes, T the messages said in it, and F the  *)
(* envelopes of it that have not been received, in the middle of a chain of  *)
(* answers too.  An answer a node has yet to handle itself counts as one     *)
(* more envelope, addressed to itself.                                       *)

Counted == {"Accept", "AckAccept"}

\* What a proposer has counted, acceptors have sent; H are those it heard from.
ProposerCounts(n, p, T, F) ==
    p.state = "Accepting" =>
        /\ Request(p.ballot, p.value) \in T
        /\ \E H \in SUBSET Nodes :
              /\ p.accepts <= Cardinality(H)
              /\ HeardAcks(n, p, T, F, H)

LearnerKnows(l, T) == l.value # None => Decided(T, l.value)

MailTrue(T, e) ==
    /\ e = [to |-> e.to, msg |-> e.msg]
    /\ e.msg.type \in Counted => e.msg \in T
    /\ e.msg.type = "Accept" => AckOf(e.to, e.msg.ballot) \notin T
    /\ e.msg.type = "Learn" => Decided(T, e.msg.command)

RequestTrue(T, m) ==
    /\ m.sender = Owner(m.ballot)
    /\ \A k \in OfType(T, "Accept") : k.ballot = m.ballot => k = m

Safe(I, T, F) ==
    /\ \A m \in OfType(T, "Accept") : RequestTrue(T, m)
    /\ \A m \in OfType(T, "AckAccept") :
          \E k \in OfType(T, "Accept") : k.ballot = m.ballot
    /\ \A n \in Nodes : ProposerCounts(n, I[n].proposer, T, F)
    /\ \A n \in Nodes : LearnerKnows(I[n].learner, T)
    /\ \A e \in F : MailTrue(T, e)

At(i) == [n \in Nodes |-> instances[n][i]]

PaxosMail == {e \in BagToSet(net) : e.msg \in Messages}

FlyingAt(i) ==
    {[to |-> e.to, msg |-> e.msg] : e \in {f \in PaxosMail : f.id = i}}

SafeEverywhere == \A i \in Ids : Safe(At(i), SaidAt(i), FlyingAt(i))

\* No request or acknowledgement is on its way twice to the same node.
NetInv ==
    \A e \in PaxosMail :
        /\ e.from = e.msg.sender /\ e.to # e.from
        /\ e.msg.type \in Counted => net[e] = 1

WonSomewhere ==
    \A n \in Nodes : IsLeader(n) =>
        \E i \in Ids, c \in Commands :
            Cardinality(Voters(SaidAt(i), leader_ballot[n], c)) >= Quorum

AppliedDecided ==
    \A n \in Nodes, i \in Ids :
        i < Len(applied[n]) => Decided(SaidAt(i), applied[n][i + 1])

SafetyInv ==
    /\ BallotInv
    /\ SafeEverywhere
    /\ NetInv
    /\ WonSomewhere
    /\ AppliedDecided

-----------------------------------------------------------------------------
(* One handler.                                                              *)

\* The acknowledgement m is one the proposer p counts.
CountsAck(p, m) ==
    m.type = "AckAccept" /\ p.state = "Accepting" /\ m.ballot = p.ballot

\* The proposer q asks for the same as p, with k acknowledgements more.
CountsMore(p, q, k) ==
    /\ p.state = "Accepting" /\ q.ballot = p.ballot /\ q.value = p.value
    /\ q.accepts = p.accepts + k

\* What the result h of handling m at s says and counts.
Outcome(n, s, m, h) ==
    /\ \/ h.inst.learner.value = s.learner.value
       \/ m.type = "Learn" /\ h.inst.learner.value = m.command
    /\ h.resp.type = "Learn" =>
          \/ m.type = "Learn" /\ h.resp.command = m.command
          \/ /\ CountsAck(s.proposer, m)
             /\ s.proposer.accepts + 1 >= Quorum
             /\ h.resp.command = s.proposer.value
    /\ h.resp.type = "AckAccept" =>
          m.type = "Accept" /\ h.resp = AckOf(n, m.ballot)
    /\ h.resp.type = "Accept" =>
          /\ h.resp = Request(h.inst.proposer.ballot, h.inst.proposer.value)
          /\ h.inst.proposer.accepts = 0
    /\ h.inst.proposer.state = "Accepting" =>
          \/ h.resp.type = "Accept"
          \/ CountsMore(s.proposer, h.inst.proposer, 0)
          \/ /\ CountsAck(s.proposer, m)
             /\ CountsMore(s.proposer, h.inst.proposer, 1)

\* A handler that leaves the proposer and the learner alone.
LEMMA NothingCounted ==
    ASSUME NEW n, NEW s \in Instances, NEW m, NEW h,
           h.inst.proposer = s.proposer, h.inst.learner = s.learner,
           h.resp.type \notin {"Learn", "Accept"},
           h.resp.type = "AckAccept" =>
               m.type = "Accept" /\ h.resp = AckOf(n, m.ballot)
    PROVE  Outcome(n, s, m, h)
  <1>1. s.proposer.accepts \in Nat
    BY DEF Instances, ProposerStates
  <1>2. CountsMore(s.proposer, s.proposer, 0) \/ s.proposer.state # "Accepting"
    BY <1>1 DEF CountsMore
  <1> QED BY <1>2 DEF Outcome

LEMMA PromiseOutcome ==
    ASSUME NEW n \in Nodes, NEW s, GoodInstance(s), Owner(s.proposer.ballot) = n,
           NEW m \in Messages, m.type = "Promise"
    PROVE  Outcome(n, s, m, HandlePromise(n, s, m))
  <1> DEFINE p == s.proposer
             best == Higher(p.best, m.max_accepted)
             promises == p.promises + 1
             h == HandlePromise(n, s, m)
  <1>1. s \in Instances /\ p \in ProposerStates
    BY DEF GoodInstance, Instances
  <1>2. promises \in Nat /\ p.ballot \in Nat /\ m.max_accepted \in Proposals
    BY <1>1 DEF ProposerStates, Messages
  <1>3. CASE p.state # "Proposal" \/ m.ballot # p.ballot
    <2>1. h = [inst |-> s, resp |-> NoMessage]
      BY <1>3 DEF HandlePromise, Ignored
    <2> QED BY <1>1, <2>1, NothingCounted DEF NoMessage
  <1>4. CASE p.state = "Proposal" /\ m.ballot = p.ballot /\ promises < Quorum
    <2> DEFINE t == [s EXCEPT !.proposer.promises = promises,
                              !.proposer.best = best]
    <2>1. h = [inst |-> t, resp |-> NoMessage]
      BY <1>2, <1>4, QuorumType DEF HandlePromise
    <2>2. t.proposer.state = p.state /\ t.learner = s.learner
      BY <1>1 DEF Instances, ProposerStates
    <2> HIDE DEF t
    <2> QED BY <1>4, <2>1, <2>2 DEF Outcome, NoMessage
  <1>5. CASE p.state = "Proposal" /\ m.ballot = p.ballot /\ promises >= Quorum
    <2> DEFINE v == ValueToAccept(best, p.value)
    <2>1. h = NewAccept(n, s, p.ballot, v)
      BY <1>2, <1>5, QuorumType DEF HandlePromise
    <2>2. v \in Commands
      <3>1. p.value \in Commands /\ p.best \in Proposals
        BY <1>1, <1>5 DEF GoodInstance, HasValue, ProposerStates
      <3> QED BY <1>2, <3>1, HigherType, ValueToAcceptType
    <2> HIDE DEF h, v
    <2>3. /\ h.inst.learner = s.learner
          /\ h.resp = Request(p.ballot, v) /\ h.resp.type = "Accept"
          /\ h.inst.proposer.ballot = p.ballot /\ h.inst.proposer.value = v
          /\ h.inst.proposer.accepts = 0
      BY <1>1, <1>2, <2>1, <2>2, NewAcceptFacts
    <2> QED BY <2>3 DEF Outcome, h
  <1> QED BY <1>2, <1>3, <1>4, <1>5, QuorumType

LEMMA AckAcceptOutcome ==
    ASSUME NEW n \in Nodes, NEW s, GoodInstance(s),
           NEW m \in Messages, m.type = "AckAccept"
    PROVE  Outcome(n, s, m, HandleAckAccept(n, s, m))
  <1> DEFINE p == s.proposer
             accepts == p.accepts + 1
             h == HandleAckAccept(n, s, m)
  <1>1. s \in Instances /\ p \in ProposerStates
    BY DEF GoodInstance, Instances
  <1>2. accepts \in Nat
    BY <1>1 DEF ProposerStates
  <1>3. CASE p.state # "Accepting" \/ m.ballot # p.ballot
    <2>1. h = [inst |-> s, resp |-> NoMessage]
      BY <1>3 DEF HandleAckAccept, Ignored
    <2> QED BY <1>1, <2>1, NothingCounted DEF NoMessage
  <1>4. CASE p.state = "Accepting" /\ m.ballot = p.ballot /\ accepts < Quorum
    <2> DEFINE t == [s EXCEPT !.proposer.accepts = accepts]
    <2>1. h = [inst |-> t, resp |-> NoMessage]
      BY <1>2, <1>4, QuorumType DEF HandleAckAccept
    <2>2. /\ t.proposer.ballot = p.ballot /\ t.proposer.value = p.value
          /\ t.proposer.accepts = accepts /\ t.learner = s.learner
      BY <1>1 DEF Instances, ProposerStates
    <2> HIDE DEF t
    <2> QED
      BY <1>4, <2>1, <2>2 DEF Outcome, NoMessage, CountsAck, CountsMore
  <1>5. CASE p.state = "Accepting" /\ m.ballot = p.ballot /\ accepts >= Quorum
    <2> DEFINE q == [FreshProposer(n) EXCEPT !.state = "Learning",
                                             !.ballot = p.ballot]
    <2>1. h = [inst |-> [s EXCEPT !.proposer = q],
               resp |-> [type |-> "Learn", sender |-> n, ballot |-> p.ballot,
                         command |-> p.value]]
      BY <1>2, <1>5, QuorumType DEF HandleAckAccept
    <2>2. q.state = "Learning"
      BY DEF FreshProposer
    <2> HIDE DEF q, h
    <2>3. h.inst.proposer.state = "Learning" /\ h.inst.learner = s.learner
      BY <1>1, <2>1, <2>2 DEF Instances
    <2> QED BY <1>5, <2>1, <2>3 DEF Outcome, CountsAck, h
  <1> QED BY <1>2, <1>3, <1>4, <1>5, QuorumType

LEMMA NackOutcome ==
    ASSUME NEW n \in Nodes, NEW s, GoodInstance(s),
           NEW m \in Messages, m.type \in {"NackPrepare", "NackAccept"}
    PROVE  Outcome(n, s, m, HandleNack(n, s, m))
  <1> DEFINE p == s.proposer
             nacks == p.nacks + 1
             seen == IF m.max_ballot > p.ballot THEN m.max_ballot ELSE p.ballot
             u == [s EXCEPT !.proposer.ballot = seen]
             h == HandleNack(n, s, m)
  <1>1. s \in Instances /\ p \in ProposerStates
    BY DEF GoodInstance, Instances
  <1>2. nacks \in Nat /\ N - Quorum \in Int
    BY <1>1, NAssumption, QuorumType DEF ProposerStates
  <1>3. CASE ~NackCounts(p, m)
    <2>1. h = [inst |-> s, resp |-> NoMessage]
      BY <1>3 DEF HandleNack, Ignored
    <2> QED BY <1>1, <2>1, NothingCounted DEF NoMessage
  <1>4. CASE NackCounts(p, m) /\ nacks <= N - Quorum
    <2> DEFINE t == [s EXCEPT !.proposer.nacks = nacks]
    <2>1. h = [inst |-> t, resp |-> NoMessage]
      BY <1>2, <1>4 DEF HandleNack
    <2>2. /\ t.proposer.state = p.state /\ t.proposer.ballot = p.ballot
          /\ t.proposer.value = p.value /\ t.proposer.accepts = p.accepts
          /\ t.learner = s.learner /\ p.accepts \in Nat
      BY <1>1 DEF Instances, ProposerStates
    <2> HIDE DEF t
    <2> QED BY <2>1, <2>2 DEF Outcome, NoMessage, CountsMore
  <1>5. CASE NackCounts(p, m) /\ ~(nacks <= N - Quorum)
    <2> DEFINE q == [FreshProposer(n) EXCEPT
                       !.state = "Proposal",
                       !.ballot = NextBallot(u.proposer.ballot, n),
                       !.value = p.value]
    <2>1. h.inst = [u EXCEPT !.proposer = q] /\ h.resp.type = "Prepare"
      BY <1>2, <1>5 DEF HandleNack, NewPrepare
    <2>2. u.learner = s.learner /\ q.state = "Proposal"
      BY <1>1 DEF Instances, FreshProposer
    <2> HIDE DEF q, h
    <2>3. h.inst.proposer.state = "Proposal" /\ h.inst.learner = s.learner
      BY <1>1, <2>1, <2>2 DEF Instances
    <2> QED BY <2>1, <2>3 DEF Outcome, h
  <1> QED BY <1>3, <1>4, <1>5

LEMMA HandleOutcome ==
    ASSUME NEW n \in Nodes, NEW s, GoodInstance(s), Owner(s.proposer.ballot) = n,
           NEW m \in Messages
    PROVE  Outcome(n, s, m, Handle(n, s, m))
  <1>1. s \in Instances /\ s.learner \in LearnerStates
    BY DEF GoodInstance, Instances
  <1>2. CASE m.type = "Prepare"
    <2> DEFINE h == HandlePrepare(n, s, m)
    <2>1. /\ h.inst.proposer = s.proposer /\ h.inst.learner = s.learner
          /\ h.resp.type \in {"Promise", "NackPrepare"}
      BY <1>1 DEF HandlePrepare, Instances
    <2> HIDE DEF h
    <2>2. Outcome(n, s, m, h)
      BY <1>1, <2>1, NothingCounted
    <2> QED BY <1>2, <2>2 DEF Handle, h
  <1>3. CASE m.type = "Accept"
    <2> DEFINE h == HandleAccept(n, s, m)
    <2>1. /\ h.inst.proposer = s.proposer /\ h.inst.learner = s.learner
          /\ h.resp = AckOf(n, m.ballot) \/ h.resp.type = "NackAccept"
      BY <1>1 DEF HandleAccept, Instances, AckOf
    <2>2. h.resp.type \notin {"Learn", "Accept"}
      BY <2>1 DEF AckOf
    <2> HIDE DEF h
    <2>3. Outcome(n, s, m, h)
      BY <1>1, <1>3, <2>1, <2>2, NothingCounted
    <2> QED BY <1>3, <2>3 DEF Handle, h
  <1>4. CASE m.type = "Learn"
    <2> DEFINE h == HandleLearn(n, s, m)
    <2>1. h.inst.proposer = s.proposer
          /\ h.inst.learner = Learned(s.learner, m)
      BY <1>1 DEF HandleLearn, Instances
    <2>2. h.resp = NoMessage \/ h.resp = [m EXCEPT !.sender = n]
      BY DEF HandleLearn
    <2>3. \/ h.resp.type = "None"
          \/ h.resp.type = "Learn" /\ h.resp.command = m.command
      BY <1>4, <2>2 DEF NoMessage, Messages
    <2>4. \/ h.inst.learner.value = s.learner.value
          \/ h.inst.learner.value = m.command
      BY <1>1, <1>4, <2>1, LearnedFrom
    <2>5. s.proposer.accepts \in Nat
      BY <1>1 DEF Instances, ProposerStates
    <2> HIDE DEF h
    <2>6. Outcome(n, s, m, h)
      BY <1>4, <2>1, <2>3, <2>4, <2>5 DEF Outcome, CountsMore
    <2> QED BY <1>4, <2>6 DEF Handle, h
  <1>5. CASE m.type = "Promise"
    BY <1>5, PromiseOutcome DEF Handle
  <1>6. CASE m.type = "AckAccept"
    BY <1>6, AckAcceptOutcome DEF Handle
  <1>7. CASE m.type \in {"NackPrepare", "NackAccept"}
    BY <1>7, NackOutcome DEF Handle
  <1> QED BY <1>2, <1>3, <1>4, <1>5, <1>6, <1>7, MessageTypes

-----------------------------------------------------------------------------
(* The answer of one handler keeps an instance safe.                         *)

Kept(m) == IF m.type \in {"Accept", "AckAccept", "Learn"} THEN {m} ELSE {}

\* The envelopes of an answer of node n, the one to itself included.
Mail(m) == IF m = NoMessage THEN {} ELSE {[to |-> k, msg |-> m] : k \in Nodes}

\* What is left when e is received: a copy of an uncounted message may remain.
Rest(F, e) == IF e.msg.type \in Counted THEN F \ {e} ELSE F

\* No envelope of G is a new one of a message already heard.
Arrives(T, F, G) ==
    \A e \in G : e \in F \/ e.msg \notin T \/ e.msg.type \notin Counted

AllInstances == [Nodes -> Instances]

LEMMA MailFacts ==
    ASSUME NEW m, NEW e \in Mail(m)
    PROVE  /\ m # NoMessage /\ e.msg = m /\ e.to \in Nodes
           /\ e = [to |-> e.to, msg |-> m]
  BY DEF Mail

LEMMA CountsStable ==
    ASSUME NEW n \in Nodes, NEW p, NEW T, NEW U, NEW F, NEW G,
           ProposerCounts(n, p, T, F), T \subseteq U, Arrives(T, F, G)
    PROVE  ProposerCounts(n, p, U, G)
  <1>1. ASSUME NEW m, m.type \in Counted, Heard(n, T, F, m)
        PROVE  Heard(n, U, G, m)
    <2>1. [to |-> n, msg |-> m].msg = m
      OBVIOUS
    <2> QED BY <1>1, <2>1 DEF Heard, Arrives
  <1>2. ASSUME NEW H, HeardAcks(n, p, T, F, H)
        PROVE  HeardAcks(n, p, U, G, H)
    <2>1. \A a : AckOf(a, p.ballot).type \in Counted
      BY DEF AckOf, Counted
    <2> QED BY <1>1, <1>2, <2>1 DEF HeardAcks
  <1>3. p.state = "Accepting" =>
          \E H \in SUBSET Nodes : /\ p.accepts <= Cardinality(H)
                                  /\ HeardAcks(n, p, U, G, H)
    BY <1>2 DEF ProposerCounts
  <1> QED BY <1>3 DEF ProposerCounts

\* Accept requests of a ballot nobody has requested in.
FreshRequest(T, resp) ==
    resp.type = "Accept" =>
        /\ resp.sender = Owner(resp.ballot)
        /\ \A k \in OfType(T, "Accept") : k.ballot # resp.ballot

\* An acknowledgement is the first one for a request, and the request is gone.
FreshAck(T, R, resp) ==
    resp.type = "AckAccept" =>
        /\ resp \notin T
        /\ \E k \in OfType(T, "Accept") : k.ballot = resp.ballot
        /\ \A e \in R : e.msg.type = "Accept" =>
                            AckOf(e.to, e.msg.ballot) # resp

LEMMA AnswerRequests ==
    ASSUME NEW T, NEW resp,
           \A m \in OfType(T, "Accept") : RequestTrue(T, m),
           FreshRequest(T, resp)
    PROVE  \A m \in OfType(T \cup Kept(resp), "Accept") :
               RequestTrue(T \cup Kept(resp), m)
  <1> DEFINE U == T \cup Kept(resp)
  <1>1. \A m \in OfType(U, "Accept") :
            m \in OfType(T, "Accept") \/ (m = resp /\ resp.type = "Accept")
    BY DEF OfType, Kept
  <1> HIDE DEF U
  <1>2. ASSUME NEW m \in OfType(U, "Accept")
        PROVE  RequestTrue(U, m)
    <2>1. CASE m = resp /\ resp.type = "Accept"
      BY <1>1, <2>1 DEF FreshRequest, RequestTrue
    <2>2. CASE m \in OfType(T, "Accept")
      BY <1>1, <2>2 DEF FreshRequest, RequestTrue
    <2> QED BY <1>1, <2>1, <2>2
  <1> QED BY <1>2 DEF U

\* Node n gives the answer resp and is left with the instance t; R are the
\* envelopes that remain.
LEMMA AnswerSafe ==
    ASSUME NEW I \in AllInstances, NEW T, T \subseteq Messages,
           NEW F, NEW R \in SUBSET F, Safe(I, T, F),
           NEW n \in Nodes, NEW t \in Instances, NEW resp \in Answers,
           FreshRequest(T, resp), FreshAck(T, R, resp),
           resp.type = "Learn" => Decided(T, resp.command),
           LearnerKnows(t.learner, T),
           t.proposer.state = "Accepting" =>
              \/ ProposerCounts(n, t.proposer, T, R)
              \/ /\ resp.type = "Accept"
                 /\ resp = Request(t.proposer.ballot, t.proposer.value)
                 /\ t.proposer.accepts = 0
    PROVE  /\ Safe([I EXCEPT ![n] = t], T \cup Kept(resp), R \cup Mail(resp))
           /\ resp.type \in Counted => resp \notin T
  <1> DEFINE J == [I EXCEPT ![n] = t]
             U == T \cup Kept(resp)
             G == R \cup Mail(resp)
  <1>1. J[n] = t /\ \A a \in Nodes : a # n => J[a] = I[a]
    BY DEF AllInstances
  <1>2. /\ T \subseteq U
        /\ \A m \in U : m \in T \/ m = resp
        /\ resp.type \in {"Accept", "AckAccept", "Learn"} => resp \in U
    BY DEF Kept
  <1>3. resp.type \in Counted => resp \notin T
    BY DEF Counted, FreshAck, FreshRequest, OfType
  <1>4. Arrives(T, F, G)
    BY <1>3, MailFacts DEF Arrives
  <1>5. \A m \in OfType(U, "Accept") : RequestTrue(U, m)
    BY AnswerRequests DEF Safe
  <1> HIDE DEF J, U
  <1>6. OfType(T, "Accept") \subseteq OfType(U, "Accept")
    BY <1>2 DEF OfType
  <1>7. ASSUME NEW m \in OfType(U, "AckAccept")
        PROVE  \E k \in OfType(U, "Accept") : k.ballot = m.ballot
    <2>1. m \in OfType(T, "AckAccept") \/ (m = resp /\ resp.type = "AckAccept")
      BY <1>2 DEF OfType
    <2> QED BY <1>6, <2>1 DEF FreshAck, Safe
  <1>8. ASSUME NEW a \in Nodes
        PROVE  ProposerCounts(a, J[a].proposer, U, G)
    <2>1. CASE a # n
      <3>1. ProposerCounts(a, I[a].proposer, T, F)
        BY DEF Safe
      <3> QED BY <1>1, <1>2, <1>4, <2>1, <3>1, CountsStable
    <2>2. CASE a = n /\ t.proposer.state # "Accepting"
      BY <1>1, <2>2 DEF ProposerCounts
    <2>3. CASE a = n /\ ProposerCounts(n, t.proposer, T, R)
      <3>1. Arrives(T, R, G)
        BY <1>3, MailFacts DEF Arrives
      <3> HIDE DEF G
      <3> QED BY <1>1, <1>2, <2>3, <3>1, CountsStable
    <2>4. CASE /\ a = n /\ resp.type = "Accept"
               /\ resp = Request(t.proposer.ballot, t.proposer.value)
               /\ t.proposer.accepts = 0
      <3>1. {} \in SUBSET Nodes /\ 0 <= Cardinality({})
            /\ HeardAcks(n, t.proposer, U, G, {})
        BY FS_EmptySet DEF HeardAcks
      <3>2. ProposerCounts(n, t.proposer, U, G)
        BY <1>2, <2>4, <3>1 DEF ProposerCounts
      <3> QED BY <1>1, <2>4, <3>2
    <2> QED BY <2>1, <2>2, <2>3, <2>4
  <1>9. ASSUME NEW a \in Nodes
        PROVE  LearnerKnows(J[a].learner, U)
    BY <1>1, <1>2, DecidedStable DEF Safe, LearnerKnows
  <1>10. ASSUME NEW e \in R
         PROVE  MailTrue(U, e)
    <2>1. MailTrue(T, e)
      BY DEF Safe
    <2>2. e.msg.type \in Counted => e.msg \in U
      BY <1>2, <2>1 DEF MailTrue
    <2>3. e.msg.type = "Accept" => AckOf(e.to, e.msg.ballot) \notin U
      <3>1. AckOf(e.to, e.msg.ballot) = resp => resp.type = "AckAccept"
        BY DEF AckOf
      <3> QED BY <1>2, <2>1, <3>1 DEF MailTrue, FreshAck
    <2>4. e.msg.type = "Learn" => Decided(U, e.msg.command)
      BY <1>2, <2>1, DecidedStable DEF MailTrue
    <2>5. e = [to |-> e.to, msg |-> e.msg]
      BY <2>1 DEF MailTrue
    <2> QED BY <2>2, <2>3, <2>4, <2>5 DEF MailTrue
  <1>11. ASSUME NEW e \in Mail(resp)
         PROVE  MailTrue(U, e)
    <2>1. e.msg = resp /\ e = [to |-> e.to, msg |-> e.msg]
      BY MailFacts
    <2>2. resp.type = "Accept" => AckOf(e.to, resp.ballot) \notin U
      <3> SUFFICES ASSUME resp.type = "Accept", AckOf(e.to, resp.ballot) \in U
                   PROVE  FALSE
        OBVIOUS
      <3>1. AckOf(e.to, resp.ballot) # resp
        BY DEF AckOf
      <3>2. AckOf(e.to, resp.ballot) \in T
        BY <1>2, <3>1
      <3>3. /\ AckOf(e.to, resp.ballot) \in OfType(T, "AckAccept")
            /\ AckOf(e.to, resp.ballot).ballot = resp.ballot
        BY <3>2, AckIn
      <3>4. \E k \in OfType(T, "Accept") : k.ballot = resp.ballot
        BY <3>3 DEF Safe
      <3> QED BY <3>4 DEF FreshRequest
    <2>3. resp.type = "Learn" => Decided(U, resp.command)
      BY <1>2, DecidedStable
    <2>4. resp.type \in Counted => resp \in U
      BY <1>2 DEF Counted
    <2> QED BY <2>1, <2>2, <2>3, <2>4 DEF MailTrue
  <1>12. Safe(J, U, G)
    BY <1>5, <1>7, <1>8, <1>9, <1>10, <1>11 DEF Safe
  <1> QED BY <1>3, <1>12 DEF J, U

\* Node n is about to handle the envelope e.
Receipt(I, T, F, n, e) ==
    /\ n \in Nodes /\ I \in AllInstances /\ T \subseteq Messages
    /\ Safe(I, T, F)
    /\ GoodInstance(I[n]) /\ Owner(I[n].proposer.ballot) = n
    /\ e \in F /\ e = [to |-> n, msg |-> e.msg] /\ e.msg \in Messages

\* What an acknowledgement adds to the count has not been counted before.
LEMMA OneMoreAck ==
    ASSUME NEW I, NEW T, NEW F, NEW n, NEW e, Receipt(I, T, F, n, e),
           CountsAck(I[n].proposer, e.msg)
    PROVE  /\ Request(I[n].proposer.ballot, I[n].proposer.value) \in T
           /\ \E H \in SUBSET Nodes :
                 /\ I[n].proposer.accepts + 1 <= Cardinality(H)
                 /\ HeardAcks(n, I[n].proposer, T, Rest(F, e), H)
  <1> DEFINE p == I[n].proposer
             m == e.msg
             a0 == m.sender
             R == Rest(F, e)
  <1>1. /\ p.accepts \in Nat /\ n \in Nodes /\ T \subseteq Messages
        /\ ProposerCounts(n, p, T, F) /\ MailTrue(T, e)
        /\ e = [to |-> n, msg |-> m] /\ e \in F
        /\ m.type = "AckAccept" /\ p.state = "Accepting" /\ m.ballot = p.ballot
    BY DEF Receipt, Safe, GoodInstance, Instances, ProposerStates, CountsAck
  <1>2. m \in OfType(T, "AckAccept")
    BY <1>1 DEF MailTrue, Counted, OfType
  <1>3. a0 \in Nodes /\ m = AckOf(a0, p.ballot) /\ m \in T
    BY <1>1, <1>2, AckShape
  <1>4. R = F \ {e}
    BY <1>1 DEF Rest, Counted
  <1>5. Request(p.ballot, p.value) \in T
    BY <1>1 DEF ProposerCounts
  <1>6. PICK H \in SUBSET Nodes : /\ p.accepts <= Cardinality(H)
                                  /\ HeardAcks(n, p, T, F, H)
    BY <1>1 DEF ProposerCounts
  <1> HIDE DEF p, R
  <1>7. a0 \notin H
    BY <1>1, <1>3, <1>6 DEF HeardAcks, Heard
  <1>8. /\ H \cup {a0} \in SUBSET Nodes
        /\ p.accepts + 1 <= Cardinality(H \cup {a0})
    <2>1. IsFiniteSet(H) /\ Cardinality(H) \in Nat
      BY SomeNodes
    <2>2. Cardinality(H \cup {a0}) = Cardinality(H) + 1
      BY <1>7, <2>1, FS_AddElement
    <2> QED BY <1>1, <1>3, <1>6, <2>1, <2>2
  <1>9. HeardAcks(n, p, T, R, H \cup {a0})
    <2>1. Heard(n, T, R, AckOf(a0, p.ballot))
      BY <1>1, <1>3, <1>4 DEF Heard
    <2>2. \A a \in H : Heard(n, T, R, AckOf(a, p.ballot))
      BY <1>4, <1>6 DEF HeardAcks, Heard
    <2> QED BY <2>1, <2>2 DEF HeardAcks
  <1> QED BY <1>5, <1>8, <1>9 DEF p, R

\* A round is won, and the command it was about decided, by a majority.
LEMMA RoundDecides ==
    ASSUME NEW I, NEW T, NEW F, NEW n, NEW e, Receipt(I, T, F, n, e),
           CountsAck(I[n].proposer, e.msg), I[n].proposer.accepts + 1 >= Quorum
    PROVE  LET p == I[n].proposer
           IN  /\ Cardinality(Voters(T, p.ballot, p.value)) >= Quorum
               /\ Decided(T, p.value)
  <1> DEFINE p == I[n].proposer
             V == Voters(T, p.ballot, p.value)
  <1>1. PICK H \in SUBSET Nodes : /\ p.accepts + 1 <= Cardinality(H)
                                  /\ HeardAcks(n, p, T, Rest(F, e), H)
    BY OneMoreAck
  <1>2. Request(p.ballot, p.value) \in T
    BY OneMoreAck
  <1>3. p.accepts + 1 \in Nat /\ p.accepts + 1 >= Quorum
    BY DEF Receipt, GoodInstance, Instances, ProposerStates
  <1> HIDE DEF p
  <1>4. H \subseteq V
    BY <1>1, <1>2 DEF HeardAcks, Heard, Voters, Voted
  <1>5. V \in SUBSET Nodes
    BY DEF Voters
  <1>6. Cardinality(H) \in Nat /\ Cardinality(V) \in Nat /\ IsFiniteSet(V)
    BY <1>5, SomeNodes
  <1>7. Cardinality(H) <= Cardinality(V)
    BY <1>4, <1>6, FS_Subset
  <1>8. Cardinality(V) >= Quorum
    BY <1>1, <1>3, <1>6, <1>7, QuorumType
  <1>9. p.ballot \in BallotsIn(T)
    BY <1>2, RequestIn DEF BallotsIn, OfType
  <1> QED BY <1>8, <1>9 DEF Decided, p

LEMMA HandleSafe ==
    ASSUME NEW I, NEW T, NEW F, NEW n, NEW e, Receipt(I, T, F, n, e),
           NEW h, h = Handle(n, I[n], e.msg), FreshRequest(T, h.resp)
    PROVE  /\ Safe([I EXCEPT ![n] = h.inst], T \cup Kept(h.resp),
                   Rest(F, e) \cup Mail(h.resp))
           /\ h.resp.type \in Counted => h.resp \notin T
  <1> DEFINE s == I[n]
             m == e.msg
             R == Rest(F, e)
             t == h.inst
             resp == h.resp
  <1>1. /\ n \in Nodes /\ I \in AllInstances /\ T \subseteq Messages
        /\ Safe(I, T, F) /\ m \in Messages
        /\ GoodInstance(s) /\ Owner(s.proposer.ballot) = n
        /\ e = [to |-> n, msg |-> m] /\ e \in F
    BY DEF Receipt
  <1>2. Outcome(n, s, m, h)
    BY <1>1, HandleOutcome
  <1>3. t \in Instances /\ resp \in Answers
    BY <1>1, HandleGood DEF GoodResult, GoodInstance
  <1>4. MailTrue(T, e) /\ ProposerCounts(n, s.proposer, T, F)
        /\ LearnerKnows(s.learner, T)
    BY <1>1 DEF Safe
  <1>5. R \in SUBSET F
    BY DEF Rest
  <1> HIDE DEF s, t, resp, R
  <1>6. resp.type = "Learn" => Decided(T, resp.command)
    <2> SUFFICES ASSUME resp.type = "Learn"
                 PROVE  Decided(T, resp.command)
      OBVIOUS
    <2>1. CASE m.type = "Learn" /\ resp.command = m.command
      BY <1>4, <2>1 DEF MailTrue
    <2>2. CASE /\ CountsAck(s.proposer, m) /\ s.proposer.accepts + 1 >= Quorum
               /\ resp.command = s.proposer.value
      <3>1. Decided(T, s.proposer.value)
        BY <2>2, RoundDecides DEF s
      <3> QED BY <2>2, <3>1
    <2> QED BY <1>2, <2>1, <2>2 DEF Outcome, resp
  <1>7. LearnerKnows(t.learner, T)
    BY <1>2, <1>4 DEF Outcome, LearnerKnows, MailTrue, t
  <1>8. FreshAck(T, R, resp)
    <2> SUFFICES ASSUME resp.type = "AckAccept"
                 PROVE  /\ resp \notin T
                        /\ \E k \in OfType(T, "Accept") : k.ballot = resp.ballot
                        /\ \A f \in R : f.msg.type = "Accept" =>
                                            AckOf(f.to, f.msg.ballot) # resp
      BY DEF FreshAck
    <2>1. m.type = "Accept" /\ resp = AckOf(n, m.ballot)
      BY <1>2 DEF Outcome, resp
    <2>2. m \in OfType(T, "Accept")
      BY <1>4, <2>1 DEF MailTrue, Counted, OfType
    <2>3. resp \notin T
      BY <1>1, <1>4, <2>1 DEF MailTrue
    <2>4. resp.ballot = m.ballot
      BY <2>1 DEF AckOf
    <2>5. ASSUME NEW f \in R, f.msg.type = "Accept",
                 AckOf(f.to, f.msg.ballot) = resp
          PROVE  FALSE
      <3>1. f.to = n /\ f.msg.ballot = m.ballot
        BY <2>1, <2>5 DEF AckOf
      <3>2. f.msg \in OfType(T, "Accept")
        BY <1>1, <1>5, <2>5 DEF Safe, MailTrue, Counted, OfType
      <3>3. f.msg = m
        BY <1>1, <2>2, <3>1, <3>2 DEF Safe, RequestTrue
      <3>4. f # e /\ f \in F
        BY <2>1 DEF R, Rest, Counted
      <3>5. f = [to |-> f.to, msg |-> f.msg]
        BY <1>1, <3>4 DEF Safe, MailTrue
      <3> QED BY <1>1, <3>1, <3>3, <3>4, <3>5
    <2> QED BY <2>2, <2>3, <2>4, <2>5
  <1>9. t.proposer.state = "Accepting" =>
           \/ ProposerCounts(n, t.proposer, T, R)
           \/ /\ resp.type = "Accept"
              /\ resp = Request(t.proposer.ballot, t.proposer.value)
              /\ t.proposer.accepts = 0
    <2> SUFFICES ASSUME t.proposer.state = "Accepting", resp.type # "Accept"
                 PROVE  ProposerCounts(n, t.proposer, T, R)
      BY <1>2 DEF Outcome, t, resp
    <2>1. CASE CountsMore(s.proposer, t.proposer, 0)
      <3>1. Arrives(T, F, R)
        BY <1>5 DEF Arrives
      <3>2. ProposerCounts(n, s.proposer, T, R)
        BY <1>1, <1>4, <3>1, CountsStable
      <3>3. s.proposer.accepts \in Nat
        BY <1>1 DEF GoodInstance, Instances, ProposerStates
      <3>4. t.proposer.accepts = s.proposer.accepts
        BY <2>1, <3>3 DEF CountsMore
      <3> QED BY <2>1, <3>2, <3>4 DEF CountsMore, ProposerCounts, HeardAcks
    <2>2. CASE CountsAck(s.proposer, m) /\ CountsMore(s.proposer, t.proposer, 1)
      <3>1. /\ Request(s.proposer.ballot, s.proposer.value) \in T
            /\ \E H \in SUBSET Nodes :
                  /\ s.proposer.accepts + 1 <= Cardinality(H)
                  /\ HeardAcks(n, s.proposer, T, R, H)
        BY <2>2, OneMoreAck DEF s, R
      <3> QED BY <2>2, <3>1 DEF CountsMore, ProposerCounts, HeardAcks
    <2> QED BY <1>2, <2>1, <2>2 DEF Outcome, t, resp
  <1>10. FreshRequest(T, resp)
    BY DEF resp
  <1>11. /\ Safe([I EXCEPT ![n] = t], T \cup Kept(resp), R \cup Mail(resp))
         /\ resp.type \in Counted => resp \notin T
    BY <1>1, <1>3, <1>5, <1>6, <1>7, <1>8, <1>9, <1>10, AnswerSafe
  <1> QED BY <1>11 DEF t, resp, R

-----------------------------------------------------------------------------
(* The chain of answers.                                                     *)

LEMMA FewerSafe ==
    ASSUME NEW I, NEW T, NEW G, Safe(I, T, G), NEW F, F \subseteq G
    PROVE  Safe(I, T, F)
  <1>1. Arrives(T, G, F)
    BY DEF Arrives
  <1>2. \A a \in Nodes : ProposerCounts(a, I[a].proposer, T, F)
    BY <1>1, CountsStable DEF Safe
  <1> QED BY <1>2 DEF Safe

\* The copies of an answer for the other nodes, and all that a chain sends.
Copies(m) == {[to |-> k, msg |-> m] : k \in Nodes \ {m.sender}}

Away(out) == UNION {Copies(m) : m \in Spoken(out)}

\* No node sends an envelope to itself.
Abroad(F) == \A e \in F : e.to # e.msg.sender

LEMMA OutAppend ==
    ASSUME NEW out \in Seq(Messages), NEW m \in Messages
    PROVE  /\ Spoken(Append(out, m)) = Spoken(out) \cup {m}
           /\ Away(Append(out, m)) = Away(out) \cup Copies(m)
           /\ Recorded(Append(out, m)) = Recorded(out) \cup Kept(m)
  <1>1. Spoken(Append(out, m)) = Spoken(out) \cup {m}
    BY SaidAppend
  <1>2. Away(Append(out, m)) = Away(out) \cup Copies(m)
    BY <1>1 DEF Away
  <1>3. Recorded(Append(out, m)) = Recorded(out) \cup Kept(m)
    BY <1>1 DEF Recorded, Kept
  <1> QED BY <1>1, <1>2, <1>3

LEMMA AwayAbroad ==
    ASSUME NEW out
    PROVE  Abroad(Away(out)) /\ \A e \in Away(out) : e.msg \in Spoken(out)
  BY DEF Away, Copies, Abroad

\* A new request of node n is the first one of its ballot.
LEMMA PendingFresh ==
    ASSUME NEW n \in Nodes, NEW U, U \subseteq Messages,
           \A k \in OfType(U, "Accept") : RequestTrue(U, k),
           NEW s \in Instances, NEW said, NEW resp \in Answers,
           Pending(n, s, resp, said), Owner(s.proposer.ballot) = n,
           \A k \in OfType(U, "Accept") : k \in said \/ resp.type # "Accept"
    PROVE  FreshRequest(U, resp)
  <1> SUFFICES ASSUME resp.type = "Accept"
               PROVE  /\ resp.sender = Owner(resp.ballot)
                      /\ \A k \in OfType(U, "Accept") : k.ballot # resp.ballot
    BY DEF FreshRequest
  <1>1. resp.ballot = s.proposer.ballot /\ resp.sender = n
    BY DEF Pending, NoMessage
  <1>2. ASSUME NEW k \in OfType(U, "Accept"), k.ballot = resp.ballot
        PROVE  FALSE
    <2>1. k \in Messages /\ k.type = "Accept" /\ k.sender = n
      BY <1>1, <1>2 DEF OfType, RequestTrue
    <2>2. k \in Asked(n, said)
      BY <2>1 DEF Asked
    <2>3. k.ballot < resp.ballot
      BY <2>1, <2>2 DEF Pending
    <2>4. k.ballot \in Nat
      BY <2>1 DEF Messages
    <2> QED BY <1>2, <2>3, <2>4
  <1> QED BY <1>1, <1>2

\* In the middle of the chain of node n: what it has said has been recorded and
\* sent, the answer r.resp is on its way to itself as well.
SafeChain(n, s, I, T, F, r) ==
    /\ Speaks(n, s, T, r)
    /\ Safe([I EXCEPT ![n] = r.inst],
            T \cup Recorded(r.out) \cup Kept(r.resp),
            F \cup Away(r.out) \cup Mail(r.resp))
    /\ \A m \in Spoken(r.out) \cup {r.resp} : m.type \in Counted => m \notin T

LEMMA EchoSafe ==
    ASSUME NEW n \in Nodes, NEW s \in Instances, NEW I \in AllInstances,
           NEW T, T \subseteq Messages, NEW F, Abroad(F),
           NEW r, SafeChain(n, s, I, T, F, r)
    PROVE  SafeChain(n, s, I, T, F, Echo(n, r))
  <1> DEFINE m == r.resp
             h == Handle(n, r.inst, m)
             c == Echo(n, r)
             e == [to |-> n, msg |-> m]
             J == [I EXCEPT ![n] = r.inst]
             U == T \cup Recorded(r.out) \cup Kept(m)
             G == F \cup Away(r.out) \cup Mail(m)
             said == T \cup Spoken(r.out)
  <1>1. CASE m = NoMessage
    BY <1>1 DEF Echo
  <1>2. CASE m # NoMessage
    <2>1. /\ m \in Messages /\ r.out \in Seq(Messages)
          /\ GoodInstance(r.inst) /\ r.inst \in Instances
      BY <1>2
      DEF SafeChain, Speaks, ChainFrom, GoodChain, GoodResult, GoodInstance,
          Answers
    <2>2. /\ Accounts(n, r.inst, said) /\ Pending(n, r.inst, m, said)
          /\ m.sender = n /\ Owner(r.inst.proposer.ballot) = n
      BY <1>2 DEF SafeChain, Speaks, Accounts, Pending
    <2>3. c.inst = h.inst /\ c.resp = h.resp /\ c.out = Append(r.out, m)
      BY <1>2 DEF Echo
    <2>4. Speaks(n, s, T, c)
      BY EchoSpeaks DEF SafeChain
    <2>5. Safe(J, U, G)
      BY DEF SafeChain
    <2>6. J \in AllInstances /\ J[n] = r.inst
      BY <2>1 DEF AllInstances
    <2>7. U \subseteq Messages
      BY <2>1, SaidMessages DEF Kept, Recorded
    <2>8. e \in G /\ e.to = n /\ e.msg = m /\ e = [to |-> n, msg |-> e.msg]
      BY <1>2 DEF Mail
    <2>9. said \subseteq Messages
      BY <2>1, SaidMessages
    <2> HIDE DEF J, U, G, e, h, c
    <2>10. Receipt(J, U, G, n, e)
      BY <2>1, <2>2, <2>5, <2>6, <2>7, <2>8 DEF Receipt
    <2>11. h.inst \in Instances /\ h.resp \in Answers
           /\ Owner(h.inst.proposer.ballot) = n
           /\ Pending(n, h.inst, h.resp, said)
      <3>1. GoesOn(n, r.inst, h, said)
        BY <2>1, <2>2, HandleGoesOn DEF h
      <3>2. GoodResult(h)
        BY <2>1, HandleGood DEF h
      <3> QED BY <3>1, <3>2 DEF GoesOn, GoodResult, GoodInstance
    <2>12. FreshRequest(U, h.resp)
      <3>1. \A k \in OfType(U, "Accept") : RequestTrue(U, k)
        BY <2>5 DEF Safe
      <3>2. m.type = "Accept" => h.resp.type # "Accept"
        BY <2>1, RequestAnswered DEF h
      <3>3. \A k \in OfType(U, "Accept") : k \in said \/ h.resp.type # "Accept"
        BY <3>2 DEF U, OfType, Kept, Recorded
      <3> HIDE DEF said
      <3> QED BY <2>7, <2>11, <3>1, <3>3, PendingFresh
    <2>13. h = Handle(n, J[n], e.msg)
      BY <2>6, <2>8 DEF h
    <2>14. /\ Safe([J EXCEPT ![n] = h.inst], U \cup Kept(h.resp),
                   Rest(G, e) \cup Mail(h.resp))
           /\ h.resp.type \in Counted => h.resp \notin U
      BY <2>10, <2>12, <2>13, HandleSafe
    <2>15. /\ Away(c.out) = Away(r.out) \cup Copies(m)
           /\ Recorded(c.out) = Recorded(r.out) \cup Kept(m)
           /\ Spoken(c.out) = Spoken(r.out) \cup {m}
      BY <2>1, <2>3, OutAppend
    <2>16. [J EXCEPT ![n] = h.inst] = [I EXCEPT ![n] = c.inst]
      BY <2>3 DEF J
    <2>17. U \cup Kept(h.resp) = T \cup Recorded(c.out) \cup Kept(c.resp)
      BY <2>3, <2>15 DEF U
    <2>18. F \cup Away(c.out) \cup Mail(c.resp)
             \subseteq Rest(G, e) \cup Mail(h.resp)
      <3>1. F \cup Away(c.out) \subseteq G
        BY <1>2, <2>15 DEF G, Copies, Mail
      <3>2. e \notin F
        BY <2>2, <2>8 DEF Abroad
      <3>3. e \notin Away(c.out)
        BY <2>2, <2>8, AwayAbroad DEF Abroad
      <3> QED BY <2>3, <3>1, <3>2, <3>3 DEF Rest
    <2>19. Safe([I EXCEPT ![n] = c.inst],
                T \cup Recorded(c.out) \cup Kept(c.resp),
                F \cup Away(c.out) \cup Mail(c.resp))
      BY <2>14, <2>16, <2>17, <2>18, FewerSafe
    <2>20. \A k \in Spoken(c.out) \cup {c.resp} : k.type \in Counted => k \notin T
      <3>1. \A k \in Spoken(r.out) \cup {m} : k.type \in Counted => k \notin T
        BY DEF SafeChain
      <3>2. c.resp.type \in Counted => c.resp \notin T
        BY <2>3, <2>14 DEF U
      <3> QED BY <2>15, <3>1, <3>2
    <2>21. SafeChain(n, s, I, T, F, c)
      BY <2>4, <2>19, <2>20 DEF SafeChain
    <2> QED BY <2>21 DEF c
  <1> QED BY <1>1, <1>2

\* The whole chain, and what it leaves to the network.
LEMMA SelfDeliverSafe ==
    ASSUME NEW n \in Nodes, NEW s \in Instances, NEW I \in AllInstances,
           NEW T, T \subseteq Messages, NEW F, Abroad(F),
           NEW h, SafeChain(n, s, I, T, F, Opening(h)),
           NEW r, r = SelfDeliver(n, h), r.resp = NoMessage
    PROVE  /\ Speaks(n, s, T, r)
           /\ Safe([I EXCEPT ![n] = r.inst], T \cup Recorded(r.out),
                   F \cup Away(r.out))
           /\ \A m \in Spoken(r.out) : m.type \in Counted => m \notin T
  <1> DEFINE first == Opening(h)
  <1>1. SafeChain(n, s, I, T, F, first)
    OBVIOUS
  <1>2. r = Echo(n, Echo(n, Echo(n, Echo(n, Echo(n, first)))))
    BY DEF SelfDeliver, Opening
  <1> HIDE DEF first
  <1>3. SafeChain(n, s, I, T, F, r)
    BY <1>1, <1>2, EchoSafe
  <1>4. Kept(r.resp) = {} /\ Mail(r.resp) = {}
    BY DEF Kept, Mail, NoMessage
  <1> QED BY <1>3, <1>4 DEF SafeChain

\* A chain that opens with the answer h.
LEMMA OpeningSafe ==
    ASSUME NEW n \in Nodes, NEW s \in Instances, NEW I, NEW T, NEW F, NEW G,
           NEW h, Speaks(n, s, T, Opening(h)), F \subseteq G,
           Safe([I EXCEPT ![n] = h.inst], T \cup Kept(h.resp),
                G \cup Mail(h.resp)),
           h.resp.type \in Counted => h.resp \notin T
    PROVE  SafeChain(n, s, I, T, F, Opening(h))
  <1>1. Opening(h).inst = h.inst /\ Opening(h).resp = h.resp
        /\ Spoken(Opening(h).out) = {}
    BY DEF Opening, Spoken
  <1>2. Away(Opening(h).out) = {} /\ Recorded(Opening(h).out) = {}
    BY <1>1 DEF Away, Recorded
  <1>3. Safe([I EXCEPT ![n] = h.inst], T \cup Kept(h.resp),
             F \cup Mail(h.resp))
    BY FewerSafe
  <1> QED BY <1>1, <1>2, <1>3 DEF SafeChain

-----------------------------------------------------------------------------
(* The network.                                                              *)

LEMMA ForwardsApart ==
    ASSUME NEW m \in Forwards
    PROVE  m \notin Messages
  BY MessageTypes DEF Forwards

LEMMA AtTypes ==
    ASSUME TypeInv, NEW i \in Ids
    PROVE  At(i) \in AllInstances /\ \A n \in Nodes : At(i)[n] = instances[n][i]
  BY TypedInstances DEF At, AllInstances

LEMMA FlyingFacts ==
    ASSUME TypeInv, NetInv, NEW i \in Ids
    PROVE  /\ Abroad(FlyingAt(i))
           /\ \A e \in PaxosMail : e.id = i =>
                 [to |-> e.to, msg |-> e.msg] \in FlyingAt(i)
  BY DEF FlyingAt, Abroad, NetInv

\* `left` is what remains of the network without D, S are the new envelopes.
LEMMA MailStep ==
    ASSUME NetInv, NEW left, IsABag(left), NEW D, NEW S,
           \A e \in BagToSet(left) :
              e \in BagToSet(net) /\ (net[e] = 1 => e \notin D /\ left[e] = 1),
           net' = left (+) SetToBag(S),
           \A e \in S : e.msg \in Messages =>
              /\ e.from = e.msg.sender /\ e.to # e.from
              /\ e.msg.type \in Counted => e \notin BagToSet(net)
    PROVE  /\ NetInv'
           /\ \A e \in PaxosMail' :
                 \/ e \in S
                 \/ e \in PaxosMail /\ (e.msg.type \in Counted => e \notin D)
  <1>1. ASSUME NEW e \in BagToSet(net'), e.msg \in Messages
        PROVE  /\ e.from = e.msg.sender /\ e.to # e.from
               /\ e.msg.type \in Counted => net'[e] = 1
               /\ \/ e \in S
                  \/ e \in PaxosMail /\ (e.msg.type \in Counted => e \notin D)
    <2>1. /\ e \in S \/ (e \in BagToSet(left) /\ net'[e] = left[e])
          /\ e \notin BagToSet(left) => net'[e] = 1
      BY BagPlusSet
    <2>2. e \in BagToSet(left) => e \in PaxosMail
      BY <1>1 DEF PaxosMail
    <2>3. e \in BagToSet(left) =>
             /\ e.from = e.msg.sender /\ e.to # e.from
             /\ e.msg.type \in Counted => e \notin D /\ left[e] = 1
      BY <2>2 DEF NetInv
    <2>4. e \in BagToSet(left) => e \in BagToSet(net)
      OBVIOUS
    <2> QED BY <1>1, <2>1, <2>2, <2>3, <2>4
  <1>2. PaxosMail' = {e \in BagToSet(net') : e.msg \in Messages}
    BY DEF PaxosMail
  <1> QED BY <1>1, <1>2 DEF NetInv

\* What a chain of answers sends is new, so it is not yet on its way.
LEMMA CommitFlying ==
    ASSUME TypeInv, NetInv, SafeEverywhere, NEW n \in Nodes, NEW i \in Ids,
           NEW r, NEW received, IsABag(received), NEW out,
           Spoken(out) \subseteq Spoken(r.out) \cup Forwards,
           Commits(n, i, r, received, out),
           \A m \in Spoken(r.out) :
              m.sender = n /\ (m.type \in Counted => m \notin SaidAt(i)),
           NEW F, \A e \in PaxosMail :
              (e.id = i /\ (e.msg.type \in Counted => e \notin BagToSet(received)))
                => [to |-> e.to, msg |-> e.msg] \in F
    PROVE  /\ NetInv'
           /\ FlyingAt(i)' \subseteq F \cup Away(r.out)
           /\ \A j \in Ids : j # i => FlyingAt(j)' \subseteq FlyingAt(j)
  <1> DEFINE left == net (-) received
             S == Broadcast(n, i, out)
             D == BagToSet(received)
  <1>1. IsABag(net)
    BY DEF TypeInv, NetTyped
  <1>2. IsABag(left) /\ \A e \in BagToSet(left) :
            e \in BagToSet(net) /\ (net[e] = 1 => e \notin D /\ left[e] = 1)
    BY <1>1, BagDifferenceType, BagMinus
  <1>3. ASSUME NEW e \in S, e.msg \in Messages
        PROVE  /\ e.msg \in Spoken(r.out) /\ e.id = i
               /\ e.from = e.msg.sender /\ e.to # e.from
               /\ [to |-> e.to, msg |-> e.msg] \in Away(r.out)
    <2>1. /\ e.to \in Nodes \ {n} /\ e.from = n /\ e.id = i
          /\ e.msg \in Spoken(out)
      BY DEF Broadcast, Spoken
    <2>2. e.msg \in Spoken(r.out) /\ e.msg.sender = n
      BY <1>3, <2>1, ForwardsApart
    <2>3. [to |-> e.to, msg |-> e.msg] \in Copies(e.msg)
      BY <2>1, <2>2 DEF Copies
    <2> QED BY <2>1, <2>2, <2>3 DEF Away
  <1>4. ASSUME NEW e \in S, e.msg \in Messages, e.msg.type \in Counted
        PROVE  e \notin BagToSet(net)
    <2> SUFFICES ASSUME e \in BagToSet(net) PROVE FALSE
      OBVIOUS
    <2>1. e.id = i /\ e.msg \in Spoken(r.out)
      BY <1>3, <1>4
    <2> DEFINE g == [to |-> e.to, msg |-> e.msg]
    <2>2. g \in FlyingAt(i) /\ g.msg = e.msg
      BY <1>4, <2>1, FlyingFacts DEF PaxosMail
    <2> HIDE DEF g
    <2>3. MailTrue(SaidAt(i), g)
      BY <2>2 DEF SafeEverywhere, Safe
    <2>4. e.msg \in SaidAt(i)
      BY <1>4, <2>2, <2>3 DEF MailTrue
    <2> QED BY <1>4, <2>1, <2>4
  <1> HIDE DEF left, S, D
  <1>5. net' = left (+) SetToBag(S)
    BY DEF Commits, left, S
  <1>6. /\ NetInv'
        /\ \A e \in PaxosMail' :
              \/ e \in S
              \/ e \in PaxosMail /\ (e.msg.type \in Counted => e \notin D)
    BY <1>2, <1>3, <1>4, <1>5, MailStep
  <1>7. \A e \in PaxosMail' : e.msg \in Messages
    BY DEF PaxosMail
  <1>8. ASSUME NEW j \in Ids, NEW g \in FlyingAt(j)'
        PROVE  /\ j = i => g \in F \cup Away(r.out)
               /\ j # i => g \in FlyingAt(j)
    <2>1. PICK e \in PaxosMail' : e.id = j /\ g = [to |-> e.to, msg |-> e.msg]
      BY DEF FlyingAt
    <2>2. CASE e \in S
      BY <1>3, <1>7, <2>1, <2>2
    <2>3. CASE e \in PaxosMail /\ (e.msg.type \in Counted => e \notin D)
      BY <2>1, <2>3, FlyingFacts DEF D
    <2> QED BY <1>6, <2>2, <2>3
  <1> QED BY <1>6, <1>8

LEMMA CommitAt ==
    ASSUME TypeInv, NEW n \in Nodes, NEW i \in Ids, NEW r, NEW received,
           NEW out, Commits(n, i, r, received, out)
    PROVE  \A j \in Ids : At(j)' = IF j = i THEN [At(i) EXCEPT ![n] = r.inst]
                                   ELSE At(j)
  <1>1. \A k \in Nodes, j \in Ids :
            instances'[k][j] = IF k = n /\ j = i THEN r.inst
                               ELSE instances[k][j]
    BY CommitsAt
  <1>2. ASSUME NEW j \in Ids
        PROVE  At(j)' = IF j = i THEN [At(i) EXCEPT ![n] = r.inst] ELSE At(j)
    <2>1. At(j)' = [k \in Nodes |-> instances'[k][j]]
      BY DEF At
    <2>2. CASE j = i
      BY <1>1, <2>1, <2>2 DEF At
    <2>3. CASE j # i
      BY <1>1, <2>1, <2>3 DEF At
    <2> QED BY <2>2, <2>3
  <1> QED BY <1>2

\* What Propose and Receive do with a chain of answers.
LEMMA CommitSafe ==
    ASSUME TypeInv, NetInv, SafeEverywhere, NEW n \in Nodes, NEW i \in Ids,
           NEW s \in Instances, NEW F, Abroad(F), NEW h,
           SafeChain(n, s, At(i), SaidAt(i), F, Opening(h)),
           NEW r, r = SelfDeliver(n, h), r.resp = NoMessage,
           NEW received, IsABag(received), NEW out,
           Spoken(out) \subseteq Spoken(r.out) \cup Forwards,
           Commits(n, i, r, received, out),
           \A e \in PaxosMail :
              (e.id = i /\ (e.msg.type \in Counted => e \notin BagToSet(received)))
                => [to |-> e.to, msg |-> e.msg] \in F
    PROVE  SafeEverywhere' /\ NetInv'
  <1>0. At(i) \in AllInstances /\ SaidAt(i) \subseteq Messages
    BY AtTypes, SaidAtMessages
  <1>1. /\ Speaks(n, s, SaidAt(i), r)
        /\ Safe([At(i) EXCEPT ![n] = r.inst], SaidAt(i) \cup Recorded(r.out),
                F \cup Away(r.out))
        /\ \A m \in Spoken(r.out) : m.type \in Counted => m \notin SaidAt(i)
    BY <1>0, SelfDeliverSafe
  <1>2. \A m \in Spoken(r.out) : m.sender = n
    BY <1>1 DEF Speaks
  <1>3. /\ NetInv'
        /\ FlyingAt(i)' \subseteq F \cup Away(r.out)
        /\ \A j \in Ids : j # i => FlyingAt(j)' \subseteq FlyingAt(j)
    <2>1. \A m \in Spoken(r.out) :
             m.sender = n /\ (m.type \in Counted => m \notin SaidAt(i))
      BY <1>1, <1>2
    <2>2. \A e \in PaxosMail :
             (e.id = i /\ (e.msg.type \in Counted => e \notin BagToSet(received)))
                => [to |-> e.to, msg |-> e.msg] \in F
      OBVIOUS
    <2>3. Spoken(out) \subseteq Spoken(r.out) \cup Forwards
      OBVIOUS
    <2> QED BY <2>1, <2>2, <2>3, CommitFlying
  <1>4. \A j \in Ids : At(j)' = IF j = i THEN [At(i) EXCEPT ![n] = r.inst]
                                ELSE At(j)
    BY CommitAt
  <1>5. \A j \in Ids : SaidAt(j)' = IF j = i THEN SaidAt(i) \cup Recorded(r.out)
                                    ELSE SaidAt(j)
    BY SaidAtGrows
  <1>6. ASSUME NEW j \in Ids
        PROVE  Safe(At(j)', SaidAt(j)', FlyingAt(j)')
    <2>1. CASE j = i
      BY <1>1, <1>3, <1>4, <1>5, <2>1, FewerSafe
    <2>2. CASE j # i
      <3>1. Safe(At(j), SaidAt(j), FlyingAt(j))
        BY DEF SafeEverywhere
      <3> QED BY <1>3, <1>4, <1>5, <2>2, <3>1, FewerSafe
    <2> QED BY <2>1, <2>2
  <1> QED BY <1>3, <1>6 DEF SafeEverywhere

\* What a node takes from the network is an envelope of the instance.
LEMMA EnvelopeReceipt ==
    ASSUME BallotInv, NetInv, SafeEverywhere,
           NEW e \in BagToSet(net), ReceivePaxos(e)
    PROVE  Receipt(At(e.id), SaidAt(e.id), FlyingAt(e.id), e.to,
                   [to |-> e.to, msg |-> e.msg])
  <1> DEFINE f == [to |-> e.to, msg |-> e.msg]
  <1>0. TypeInv
    BY DEF BallotInv, DurabilityInv
  <1>1. /\ e.to \in Nodes /\ e.id \in Ids /\ e.msg \in Messages
        /\ GoodInstance(instances[e.to][e.id])
    BY <1>0, ReceivePaxosFacts
  <1>2. At(e.id) \in AllInstances /\ At(e.id)[e.to] = instances[e.to][e.id]
    BY <1>0, <1>1, AtTypes
  <1>3. SaidAt(e.id) \subseteq Messages
    BY <1>0, <1>1, SaidAtMessages
  <1>4. Safe(At(e.id), SaidAt(e.id), FlyingAt(e.id))
    BY <1>1 DEF SafeEverywhere
  <1>5. Owner(instances[e.to][e.id].proposer.ballot) = e.to
    BY <1>1 DEF BallotInv, Accounted, Accounts
  <1>6. f \in FlyingAt(e.id)
    BY <1>0, <1>1, FlyingFacts DEF PaxosMail
  <1>7. f.msg = e.msg /\ f = [to |-> e.to, msg |-> f.msg]
    OBVIOUS
  <1> HIDE DEF f
  <1>8. Receipt(At(e.id), SaidAt(e.id), FlyingAt(e.id), e.to, f)
    BY <1>1, <1>2, <1>3, <1>4, <1>5, <1>6, <1>7 DEF Receipt
  <1> QED BY <1>8 DEF f

\* The other envelopes are on their way still.
LEMMA OthersRemain ==
    ASSUME TypeInv, NetInv, NEW e \in BagToSet(net), e.msg \in Messages,
           NEW g \in PaxosMail, g.id = e.id,
           g.msg.type \in Counted => g \notin BagToSet(SetToBag({e}))
    PROVE  [to |-> g.to, msg |-> g.msg] \in
              Rest(FlyingAt(e.id), [to |-> e.to, msg |-> e.msg])
  <1> DEFINE f == [to |-> e.to, msg |-> e.msg]
             k == [to |-> g.to, msg |-> g.msg]
  <1>1. e.id \in Ids /\ k \in FlyingAt(e.id)
    BY InNet, FlyingFacts DEF TypeInv
  <1>2. f.msg = e.msg /\ f.to = e.to /\ k.msg = g.msg /\ k.to = g.to
    OBVIOUS
  <1> HIDE DEF f, k
  <1>3. CASE f.msg.type \notin Counted
    BY <1>1, <1>3 DEF Rest, f, k
  <1>4. CASE f.msg.type \in Counted /\ k # f
    BY <1>1, <1>4 DEF Rest, f, k
  <1>5. CASE f.msg.type \in Counted /\ k = f
    <2>1. g.to = e.to /\ g.msg = e.msg
      BY <1>2, <1>5
    <2>2. g.from = e.from
      BY <2>1 DEF NetInv, PaxosMail
    <2>3. g \in Envelopes /\ e \in Envelopes
      BY DEF TypeInv, NetTyped, PaxosMail
    <2>4. g = e
      BY <2>1, <2>2, <2>3 DEF Envelopes
    <2>5. g \notin BagToSet(SetToBag({e}))
      BY <1>2, <1>5, <2>1
    <2> QED BY <2>4, <2>5, SetToBagType
  <1> QED BY <1>3, <1>4, <1>5

LEMMA ReceiveSafe ==
    ASSUME BallotInv, NetInv, SafeEverywhere,
           NEW e \in BagToSet(net), ReceivePaxos(e)
    PROVE  SafeEverywhere' /\ NetInv'
  <1> DEFINE n == e.to
             i == e.id
             f == [to |-> n, msg |-> e.msg]
             I == At(i)
             T == SaidAt(i)
             F == FlyingAt(i)
             s == instances[n][i]
             h == Handle(n, s, e.msg)
             r == SelfDeliver(n, h)
             R == Rest(F, f)
  <1>1. TypeInv
    BY DEF BallotInv, DurabilityInv
  <1>2. /\ n \in Nodes /\ i \in Ids /\ e.msg \in Messages
        /\ GoodInstance(s) /\ s \in Instances /\ GoodResult(h)
        /\ Commits(n, i, r, SetToBag({e}), r.out)
    BY <1>1, ReceivePaxosFacts DEF GoodInstance
  <1>3. Receipt(I, T, F, n, f) /\ f.msg = e.msg
    BY EnvelopeReceipt
  <1>4. /\ T \subseteq Messages /\ Accounts(n, s, T) /\ Durable(s)
        /\ I[n] = s /\ Safe(I, T, F)
    BY <1>1, <1>2, <1>3, AtTypes
    DEF BallotInv, DurabilityInv, Accounted, DurableNow, Receipt
  <1>5. Speaks(n, s, T, Opening(h))
    BY <1>2, <1>4, HandleOpens
  <1>6. r.resp = NoMessage
    BY <1>2, DeliverEnds DEF Deliver
  <1>7. Abroad(R)
    BY <1>1, <1>2, FlyingFacts DEF Abroad, Rest
  <1>8. \A g \in PaxosMail :
           (g.id = i /\ (g.msg.type \in Counted
                           => g \notin BagToSet(SetToBag({e}))))
             => [to |-> g.to, msg |-> g.msg] \in R
    BY <1>1, <1>2, OthersRemain
  <1>9. IsABag(SetToBag({e}))
    BY SetToBagType
  <1>10. GoesOn(n, s, h, T)
    BY <1>2, <1>4, HandleGoesOn
  <1>11. Spoken(r.out) \subseteq Spoken(r.out) \cup Forwards
    OBVIOUS
  <1>12. h = Handle(n, I[n], f.msg)
    BY <1>3, <1>4
  <1>13. r = SelfDeliver(n, h)
    OBVIOUS
  <1> HIDE DEF n, i, f, I, T, F, s, h, r, R
  <1>14. FreshRequest(T, h.resp)
    <2>1. /\ Pending(n, h.inst, h.resp, T)
          /\ Owner(h.inst.proposer.ballot) = n
      BY <1>10 DEF GoesOn
    <2>2. h.inst \in Instances /\ h.resp \in Answers
      BY <1>2 DEF GoodResult, GoodInstance
    <2>3. \A k \in OfType(T, "Accept") : RequestTrue(T, k) /\ k \in T
      BY <1>4 DEF Safe, OfType
    <2> QED BY <1>2, <1>4, <2>1, <2>2, <2>3, PendingFresh
  <1>15. /\ Safe([I EXCEPT ![n] = h.inst], T \cup Kept(h.resp),
                 R \cup Mail(h.resp))
         /\ h.resp.type \in Counted => h.resp \notin T
    BY <1>3, <1>12, <1>14, HandleSafe DEF R
  <1>16. SafeChain(n, s, I, T, R, Opening(h))
    <2>1. R \subseteq R
      OBVIOUS
    <2> QED BY <1>2, <1>5, <1>15, <2>1, OpeningSafe
  <1> QED
    BY <1>1, <1>2, <1>6, <1>7, <1>8, <1>9, <1>11, <1>13, <1>16, CommitSafe
    DEF I, T

-----------------------------------------------------------------------------
(* A proposal.                                                               *)

LEMMA FirstEnds ==
    ASSUME TypeInv, NEW n \in Nodes, NEW c \in Commands,
           next_instance_id[n] \in Ids
    PROVE  SelfDeliver(n, First(n, c)).resp = NoMessage
  <1> DEFINE o == First(n, c)
             r == Opening(o)
             f == Fresh(n)
  <1>1. f \in Instances /\ GoodResult(o)
    BY FirstGood
  <1>2. r.inst = o.inst /\ r.resp = o.resp
    BY DEF Opening
  <1>3. \/ o = NewPrepare(n, f, c)
        \/ o = NewAccept(n, f, leader_ballot[n], c)
    BY DEF First, FirstMessage
  <1>4. SelfDeliver(n, o) = Echo(n, Echo(n, Echo(n, Echo(n, Echo(n, r)))))
    BY DEF SelfDeliver, Opening
  <1> HIDE DEF o, r, f
  <1>5. o.resp \in Messages /\ (\/ o.resp.type = "Accept"
                                \/ /\ o.resp.type = "Prepare"
                                   /\ o.inst.proposer.promises = 0)
    <2>1. o.resp \in Answers
      BY <1>1 DEF GoodResult
    <2>2. CASE o = NewPrepare(n, f, c)
      <3>1. o.resp.type = "Prepare"
        BY <2>2 DEF NewPrepare
      <3>2. o.inst.proposer.promises = 0
        BY <1>1, <2>2 DEF NewPrepare, Instances, FreshProposer
      <3> QED BY <2>1, <3>1, <3>2 DEF Answers, NoMessage
    <2>3. CASE o = NewAccept(n, f, leader_ballot[n], c)
      <3>1. o.resp.type = "Accept"
        BY <2>3 DEF NewAccept
      <3> QED BY <2>1, <3>1 DEF Answers, NoMessage
    <2> QED BY <1>3, <2>2, <2>3
  <1>6. Answering(r)
    BY <1>1, <1>2, <1>5 DEF Answering, GoodResult
  <1>7. Ends4(n, r)
    BY <1>2, <1>5, <1>6, PrepareEnds, AcceptEnds DEF Preparing
  <1>8. Ends5(n, r)
    BY <1>7, EndsSooner
  <1> QED BY <1>4, <1>8 DEF Ends5, Ends4, Ends3, Ends2, Ends1, Ends0, o

\* The first message of a proposal is an answer to the client.
LEMMA FirstSafe ==
    ASSUME BallotInv, SafeEverywhere, NEW n \in Nodes, NEW c \in Commands,
           next_instance_id[n] \in Ids
    PROVE  LET i == next_instance_id[n]
               o == First(n, c)
           IN  /\ Safe([At(i) EXCEPT ![n] = o.inst], SaidAt(i) \cup Kept(o.resp),
                       FlyingAt(i) \cup Mail(o.resp))
               /\ o.resp.type \in Counted => o.resp \notin SaidAt(i)
  <1> DEFINE i == next_instance_id[n]
             o == First(n, c)
             f == Fresh(n)
             I == At(i)
             T == SaidAt(i)
             F == FlyingAt(i)
  <1>1. TypeInv /\ i \in Ids
    BY DEF BallotInv, DurabilityInv
  <1>2. /\ f \in Instances /\ GoodResult(o)
        /\ o.inst \in Instances /\ o.resp \in Answers
        /\ o.inst.learner = FreshLearner
    BY <1>1, FirstGood DEF GoodResult, GoodInstance
  <1>3. I \in AllInstances /\ T \subseteq Messages /\ Safe(I, T, F)
    BY <1>1, AtTypes, SaidAtMessages DEF SafeEverywhere
  <1>4. Speaks(n, o.inst, T, Opening(o))
    BY <1>1, FirstOpens
  <1>5. Opening(o).inst = o.inst /\ Opening(o).resp = o.resp
        /\ Spoken(Opening(o).out) = {}
    BY DEF Opening, Spoken
  <1>6. IsLeader(n) => leader_ballot[n] \in Nat /\ Owner(leader_ballot[n]) = n
    BY <1>1 DEF BallotInv, LeadsByItself, TypeInv, LeadershipTyped
  <1>7. IF IsLeader(n) THEN o = NewAccept(n, f, leader_ballot[n], c)
                       ELSE o = NewPrepare(n, f, c)
    BY DEF First, FirstMessage
  <1> HIDE DEF i, o, f, I, T, F
  <1>8. FreshRequest(T, o.resp)
    <2>1. T \cup Spoken(Opening(o).out) = T
      BY <1>5
    <2>2. Pending(n, o.inst, o.resp, T) /\ Owner(o.inst.proposer.ballot) = n
      BY <1>4, <1>5, <2>1 DEF Speaks, Accounts
    <2>3. \A k \in OfType(T, "Accept") : RequestTrue(T, k) /\ k \in T
      BY <1>3 DEF Safe, OfType
    <2> QED BY <1>2, <1>3, <2>2, <2>3, PendingFresh
  <1>9. /\ o.resp.type \in {"Prepare", "Accept"}
        /\ o.inst.proposer.state = "Accepting" =>
              /\ o.resp.type = "Accept"
              /\ o.resp = Request(o.inst.proposer.ballot, o.inst.proposer.value)
              /\ o.inst.proposer.accepts = 0
    <2>1. CASE IsLeader(n)
      BY <1>2, <1>6, <1>7, <2>1, NewAcceptFacts
    <2>2. CASE ~IsLeader(n)
      <3>1. o.resp.type = "Prepare"
        BY <1>7, <2>2 DEF NewPrepare
      <3>2. o.inst.proposer.state = "Proposal"
        BY <1>2, <1>7, <2>2, NewPrepareGoesOn
      <3> QED BY <3>1, <3>2
    <2> QED BY <2>1, <2>2
  <1>10. LearnerKnows(o.inst.learner, T)
    BY <1>2 DEF LearnerKnows, FreshLearner
  <1>11. FreshAck(T, F, o.resp)
    BY <1>9 DEF FreshAck
  <1>12. F \in SUBSET F
    OBVIOUS
  <1>13. /\ Safe([I EXCEPT ![n] = o.inst], T \cup Kept(o.resp),
                 F \cup Mail(o.resp))
         /\ o.resp.type \in Counted => o.resp \notin T
    BY <1>2, <1>3, <1>8, <1>9, <1>10, <1>11, <1>12, AnswerSafe
  <1> QED BY <1>13 DEF i, o, I, T, F

\* `received` holds no message of Paxos: it is a forward, or nothing.
LEMMA ProposeHereSafe ==
    ASSUME BallotInv, NetInv, SafeEverywhere, NEW n \in Nodes,
           NEW c \in Commands, NEW client, NEW received, IsABag(received),
           NEW answer \in Seq(Forwards),
           ProposeHere(n, c, client, received, answer)
    PROVE  SafeEverywhere' /\ NetInv'
  <1> DEFINE i == next_instance_id[n]
             o == First(n, c)
             I == At(i)
             T == SaidAt(i)
             F == FlyingAt(i)
             r == SelfDeliver(n, o)
             out == r.out \o answer
  <1>1. TypeInv
    BY DEF BallotInv, DurabilityInv
  <1>2. i \in Ids /\ GoodChain(r) /\ Commits(n, i, r, received, out)
    BY <1>1, ProposeHereFacts
  <1>3. GoodResult(o) /\ o.inst \in Instances
    BY <1>1, <1>2, FirstGood DEF GoodResult, GoodInstance
  <1>4. r.resp = NoMessage
    BY <1>1, <1>2, FirstEnds
  <1>5. Speaks(n, o.inst, T, Opening(o))
    BY <1>2, FirstOpens
  <1>6. /\ Safe([I EXCEPT ![n] = o.inst], T \cup Kept(o.resp), F \cup Mail(o.resp))
        /\ o.resp.type \in Counted => o.resp \notin T
    BY <1>2, FirstSafe
  <1>7. /\ Abroad(F)
        /\ \A e \in PaxosMail : e.id = i => [to |-> e.to, msg |-> e.msg] \in F
    BY <1>1, <1>2, FlyingFacts
  <1>8. Spoken(out) \subseteq Spoken(r.out) \cup Forwards
    <2>1. r.out \in Seq(Messages)
      BY <1>2 DEF GoodChain
    <2> HIDE DEF r
    <2>2. \A j \in DOMAIN out : \/ j \in DOMAIN r.out /\ out[j] = r.out[j]
                                \/ out[j] \in Forwards
      BY <2>1
    <2> HIDE DEF out
    <2> QED BY <2>2 DEF Spoken
  <1>9. r = SelfDeliver(n, o)
    OBVIOUS
  <1> HIDE DEF i, o, I, T, F, r, out
  <1>10. SafeChain(n, o.inst, I, T, F, Opening(o))
    <2>1. F \subseteq F
      OBVIOUS
    <2> QED BY <1>3, <1>5, <1>6, <2>1, OpeningSafe
  <1>11. \A e \in PaxosMail :
           (e.id = i /\ (e.msg.type \in Counted => e \notin BagToSet(received)))
             => [to |-> e.to, msg |-> e.msg] \in F
    BY <1>7
  <1> QED BY <1>1, <1>2, <1>3, <1>4, <1>7, <1>8, <1>9, <1>10, <1>11, CommitSafe
          DEF I, T

-----------------------------------------------------------------------------
(* The steps in which no message of Paxos is sent or handled.                *)

LEMMA IdleSafe ==
    ASSUME SafeEverywhere, instances' = instances, sent' = sent,
           PaxosMail' \subseteq PaxosMail
    PROVE  SafeEverywhere'
  <1>1. ASSUME NEW i \in Ids
        PROVE  Safe(At(i)', SaidAt(i)', FlyingAt(i)')
    <2>1. At(i)' = At(i) /\ SaidAt(i)' = SaidAt(i)
      BY DEF At, SaidAt
    <2>2. FlyingAt(i)' \subseteq FlyingAt(i)
      BY DEF FlyingAt
    <2>3. Safe(At(i), SaidAt(i), FlyingAt(i))
      BY DEF SafeEverywhere
    <2> QED BY <2>1, <2>2, <2>3, FewerSafe
  <1> QED BY <1>1 DEF SafeEverywhere

LEMMA ForwardSafe ==
    ASSUME TypeInv, NetInv, SafeEverywhere, NEW n \in Nodes,
           NEW c \in Commands, Forward(n, c)
    PROVE  SafeEverywhere' /\ NetInv'
  <1> DEFINE m == [type |-> "RequestCommandToLeader", command |-> c,
                   forward_id |-> next_forward_id[n]]
             S == Broadcast(n, 0, <<m>>)
  <1>1. /\ net' = net (+) SetToBag(S)
        /\ instances' = instances /\ sent' = sent
    BY DEF Forward
  <1>2. m \notin Messages
    <2>1. m.type = "RequestCommandToLeader"
      OBVIOUS
    <2> QED BY <2>1, MessageTypes
  <1>3. \A e \in S : e.msg \notin Messages
    <2> HIDE DEF m
    <2> QED BY <1>2 DEF Broadcast
  <1>4. IsABag(net)
    BY DEF TypeInv, NetTyped
  <1> DEFINE D == {}
  <1>5. /\ \A e \in BagToSet(net) :
              e \in BagToSet(net) /\ (net[e] = 1 => e \notin D /\ net[e] = 1)
        /\ \A e \in S : e.msg \in Messages =>
              /\ e.from = e.msg.sender /\ e.to # e.from
              /\ e.msg.type \in Counted => e \notin BagToSet(net)
    BY <1>3
  <1> HIDE DEF S, D, m
  <1>6. /\ NetInv'
        /\ \A e \in PaxosMail' :
              \/ e \in S
              \/ e \in PaxosMail /\ (e.msg.type \in Counted => e \notin D)
    BY <1>1, <1>4, <1>5, MailStep
  <1>7. \A e \in PaxosMail' : e.msg \in Messages
    BY DEF PaxosMail
  <1>8. PaxosMail' \subseteq PaxosMail
    BY <1>3, <1>6, <1>7
  <1> QED BY <1>1, <1>6, <1>8, IdleSafe

LEMMA RemovalSafe ==
    ASSUME TypeInv, NetInv, SafeEverywhere, NEW e \in BagToSet(net),
           net' = net (-) SetToBag({e}), instances' = instances, sent' = sent
    PROVE  SafeEverywhere' /\ NetInv'
  <1>1. IsABag(net) /\ IsABag(SetToBag({e}))
    BY SetToBagType DEF TypeInv, NetTyped
  <1>2. ASSUME NEW x \in BagToSet(net')
        PROVE  x \in BagToSet(net) /\ (net[x] = 1 => net'[x] = 1)
    BY <1>1, <1>2, BagMinus
  <1>3. PaxosMail' \subseteq PaxosMail
    BY <1>2 DEF PaxosMail
  <1>4. NetInv'
    <2>1. PaxosMail' \subseteq BagToSet(net')
      BY DEF PaxosMail
    <2> QED BY <1>2, <1>3, <2>1 DEF NetInv
  <1> QED BY <1>3, <1>4, IdleSafe

\* A node that comes back has counted nothing and learned nothing.
LEMMA RestartSafe ==
    ASSUME TypeInv, NetInv, SafeEverywhere, NEW n \in Nodes, Restart(n)
    PROVE  SafeEverywhere' /\ NetInv'
  <1>1. \A k \in Nodes, i \in Ids :
            instances'[k][i] = IF k = n THEN Restored(n, instances[n][i].disk)
                               ELSE instances[k][i]
    BY RestartedAt
  <1>2. net' = net /\ sent' = sent
    BY DEF Restart
  <1>3. ASSUME NEW i \in Ids
        PROVE  Safe(At(i)', SaidAt(i)', FlyingAt(i)')
    <2> DEFINE t == Restored(n, instances[n][i].disk)
               I == At(i)
               T == SaidAt(i)
               F == FlyingAt(i)
    <2>1. instances[n][i].disk \in Disks
      BY TypedInstances DEF Instances
    <2>2. t \in Instances
      BY <2>1, RestoredGood DEF GoodInstance
    <2>3. t.proposer = FreshProposer(n) /\ t.learner = FreshLearner
      BY DEF Restored, FreshInstance
    <2>4. t.proposer.state = "Initial" /\ t.learner.value = None
      BY <2>3 DEF FreshProposer, FreshLearner
    <2>5. I \in AllInstances /\ T \subseteq Messages /\ Safe(I, T, F)
      BY AtTypes, SaidAtMessages DEF SafeEverywhere
    <2>6. NoMessage.type = "None" /\ NoMessage \in Answers
          /\ Kept(NoMessage) = {} /\ Mail(NoMessage) = {}
      BY DEF NoMessage, Answers, Kept, Mail
    <2>7. At(i)' = [I EXCEPT ![n] = t]
      <3>1. At(i)' = [k \in Nodes |-> instances'[k][i]]
        BY DEF At
      <3> QED BY <1>1, <3>1 DEF At
    <2>8. SaidAt(i)' = T /\ FlyingAt(i)' = F
      BY <1>2 DEF SaidAt, FlyingAt, PaxosMail
    <2> HIDE DEF t, I, T, F
    <2>9. LearnerKnows(t.learner, T)
      BY <2>4 DEF LearnerKnows
    <2>10. FreshRequest(T, NoMessage) /\ FreshAck(T, F, NoMessage)
      BY <2>6 DEF FreshRequest, FreshAck
    <2>11. F \in SUBSET F
      OBVIOUS
    <2>12. Safe([I EXCEPT ![n] = t], T \cup Kept(NoMessage), F \cup Mail(NoMessage))
      BY <2>2, <2>4, <2>5, <2>6, <2>9, <2>10, <2>11, AnswerSafe
    <2>13. Safe([I EXCEPT ![n] = t], T, F)
      BY <2>6, <2>12
    <2> QED BY <2>7, <2>8, <2>13
  <1>4. NetInv'
    BY <1>2 DEF NetInv, PaxosMail
  <1> QED BY <1>3, <1>4 DEF SafeEverywhere

LEMMA InitSafe ==
    ASSUME Init, TypeInv
    PROVE  SafeEverywhere /\ NetInv
  <1>1. PaxosMail = {}
    BY DEF Init, PaxosMail, EmptyBag, BagToSet, SetToBag
  <1>2. ASSUME NEW i \in Ids
        PROVE  Safe(At(i), SaidAt(i), FlyingAt(i))
    <2>1. SaidAt(i) = {} /\ FlyingAt(i) = {}
      BY <1>1 DEF Init, SaidAt, FlyingAt
    <2>2. ASSUME NEW n \in Nodes
          PROVE  /\ At(i)[n].proposer.state = "Initial"
                 /\ At(i)[n].learner.value = None
      <3>1. At(i)[n] = FreshInstance(n, FreshDisk)
        BY DEF Init, At
      <3> QED BY <3>1 DEF FreshInstance, FreshProposer, FreshLearner
    <2>3. \A n \in Nodes : /\ ProposerCounts(n, At(i)[n].proposer, {}, {})
                           /\ LearnerKnows(At(i)[n].learner, {})
      BY <2>2 DEF ProposerCounts, LearnerKnows
    <2> QED BY <2>1, <2>3 DEF Safe, OfType
  <1> QED BY <1>1, <1>2 DEF SafeEverywhere, NetInv

-----------------------------------------------------------------------------
(* What leaders have won with, and what is applied.                          *)

LEMMA MajorityStable ==
    ASSUME NEW T, NEW U, T \subseteq U, NEW b, NEW c,
           Cardinality(Voters(T, b, c)) >= Quorum
    PROVE  Cardinality(Voters(U, b, c)) >= Quorum
  <1>1. Voters(T, b, c) \subseteq Voters(U, b, c)
    BY VotedStable DEF Voters
  <1>2. Voters(T, b, c) \in SUBSET Nodes /\ Voters(U, b, c) \in SUBSET Nodes
    BY DEF Voters
  <1>3. /\ Cardinality(Voters(T, b, c)) \in Nat
        /\ Cardinality(Voters(U, b, c)) \in Nat
        /\ IsFiniteSet(Voters(U, b, c))
    BY <1>2, SomeNodes
  <1>4. Cardinality(Voters(T, b, c)) <= Cardinality(Voters(U, b, c))
    BY <1>1, <1>3, FS_Subset
  <1> QED BY <1>3, <1>4, QuorumType

LEMMA MoreSaid ==
    ASSUME sent \subseteq sent', NEW i \in Ids
    PROVE  SaidAt(i) \subseteq SaidAt(i)'
  BY DEF SaidAt

\* No node begins to lead.
LEMMA LeadersRemain ==
    ASSUME WonSomewhere, sent \subseteq sent',
           \A n \in Nodes : leader_ballot'[n] \in {leader_ballot[n], NoBallot}
    PROVE  WonSomewhere'
  <1>1. ASSUME NEW n \in Nodes, leader_ballot'[n] # NoBallot
        PROVE  \E i \in Ids, c \in Commands :
                  Cardinality(Voters(SaidAt(i)', leader_ballot'[n], c)) >= Quorum
    <2>1. leader_ballot'[n] = leader_ballot[n] /\ IsLeader(n)
      BY <1>1 DEF IsLeader
    <2>2. PICK i \in Ids, c \in Commands :
             Cardinality(Voters(SaidAt(i), leader_ballot[n], c)) >= Quorum
      BY <2>1 DEF WonSomewhere
    <2>3. Cardinality(Voters(SaidAt(i)', leader_ballot[n], c)) >= Quorum
      BY <2>2, MoreSaid, MajorityStable
    <2> QED BY <2>1, <2>3
  <1> QED BY <1>1 DEF WonSomewhere, IsLeader, Voters, Voted

\* The round that makes a node the leader was won in this instance.
LEMMA ReceiveWins ==
    ASSUME BallotInv, NetInv, SafeEverywhere, WonSomewhere, TypeInv',
           NEW e \in BagToSet(net), ReceivePaxos(e)
    PROVE  WonSomewhere'
  <1> DEFINE n == e.to
             i == e.id
             s == instances[n][i]
             p == s.proposer
             h == Handle(n, s, e.msg)
             r == SelfDeliver(n, h)
             f == [to |-> n, msg |-> e.msg]
  <1>1. TypeInv
    BY DEF BallotInv, DurabilityInv
  <1>2. /\ n \in Nodes /\ i \in Ids /\ e.msg \in Messages /\ GoodInstance(s)
        /\ Commits(n, i, r, SetToBag({e}), r.out)
        /\ leader_ballot' = [leader_ballot EXCEPT
                               ![n] = LeaderAfter(@, e.msg, h.resp)]
    BY <1>1, ReceivePaxosFacts
  <1>3. Receipt(At(i), SaidAt(i), FlyingAt(i), n, f) /\ f.msg = e.msg
    BY EnvelopeReceipt
  <1>4. At(i)[n] = s
    BY <1>1, <1>2, AtTypes
  <1>5. WonRound(e.msg, h.resp) =>
           /\ e.msg.type = "AckAccept" /\ p.state = "Accepting"
           /\ e.msg.ballot = p.ballot /\ p.accepts + 1 >= Quorum
           /\ h.resp.ballot = p.ballot
    BY <1>2, WinFacts
  <1>6. p.state = "Accepting" => p.value \in Commands
    BY <1>2 DEF GoodInstance, HasValue, Instances, ProposerStates
  <1>7. sent \subseteq sent'
    BY <1>2 DEF Commits
  <1>8. leader_ballot \in [Nodes -> Nat]
    BY <1>1 DEF TypeInv, LeadershipTyped
  <1> HIDE DEF h, r, s, p, f, n, i
  <1>9. \A k \in Nodes : \/ leader_ballot'[k] \in {leader_ballot[k], NoBallot}
                         \/ /\ k = n /\ WonRound(e.msg, h.resp)
                            /\ leader_ballot'[k] = h.resp.ballot
    BY <1>2, <1>8 DEF LeaderAfter, LostTo
  <1>10. CASE WonRound(e.msg, h.resp)
    <2>1. CountsAck(At(i)[n].proposer, f.msg)
      BY <1>3, <1>4, <1>5, <1>10 DEF CountsAck, p
    <2>2. Cardinality(Voters(SaidAt(i), p.ballot, p.value)) >= Quorum
      BY <1>3, <1>4, <1>5, <1>10, <2>1, RoundDecides DEF p
    <2>3. p.value \in Commands
      BY <1>5, <1>6, <1>10
    <2>4. Cardinality(Voters(SaidAt(i)', p.ballot, p.value)) >= Quorum
      BY <1>2, <1>7, <2>2, MoreSaid, MajorityStable
    <2>5. ASSUME NEW k \in Nodes, leader_ballot'[k] # NoBallot
          PROVE  \E j \in Ids, c \in Commands :
                    Cardinality(Voters(SaidAt(j)', leader_ballot'[k], c)) >= Quorum
      <3>1. CASE leader_ballot'[k] = p.ballot
        BY <1>2, <2>3, <2>4, <3>1
      <3>2. CASE leader_ballot'[k] # p.ballot
        <4>1. leader_ballot'[k] = leader_ballot[k] /\ IsLeader(k)
          BY <1>5, <1>9, <1>10, <2>5, <3>2 DEF IsLeader
        <4>2. PICK j \in Ids, c \in Commands :
                 Cardinality(Voters(SaidAt(j), leader_ballot[k], c)) >= Quorum
          BY <4>1 DEF WonSomewhere
        <4>3. Cardinality(Voters(SaidAt(j)', leader_ballot[k], c)) >= Quorum
          BY <1>7, <4>2, MoreSaid, MajorityStable
        <4> QED BY <4>1, <4>3
      <3> QED BY <3>1, <3>2
    <2> QED BY <2>5 DEF WonSomewhere, IsLeader, Voters, Voted
  <1>11. CASE ~WonRound(e.msg, h.resp)
    BY <1>7, <1>9, <1>11, LeadersRemain
  <1> QED BY <1>10, <1>11

LEMMA AppliedRemains ==
    ASSUME AppliedDecided, sent \subseteq sent', applied' = applied
    PROVE  AppliedDecided'
  <1>1. ASSUME NEW n \in Nodes, NEW i \in Ids, i < Len(applied[n])
        PROVE  Decided(SaidAt(i)', applied[n][i + 1])
    BY <1>1, MoreSaid, DecidedStable DEF AppliedDecided
  <1> QED BY <1>1 DEF AppliedDecided, Decided, BallotsIn, Voters, Voted

\* The loop applies what the learners know, each instance at its own place.
LEMMA ReceiveApplies ==
    ASSUME TypeInv, AppliedDecided, TypeInv', SafeEverywhere',
           NEW e \in BagToSet(net), ReceivePaxos(e)
    PROVE  AppliedDecided'
  <1> DEFINE n == e.to
             from == Len(applied[n])
             k == CommitUpTo(n)
             log == [i \in 1 .. k |-> IF i <= from THEN applied[n][i]
                                      ELSE LearnedValue(n, i - 1)']
  <1>1. n \in Nodes /\ sent \subseteq sent'
    BY ReceivePaxosFacts DEF Commits
  <1>2. AppliedTyped /\ applied' = [applied EXCEPT ![n] = log]
    BY DEF TypeInv, ReceivePaxos, ApplyLoop
  <1>3. /\ k \in from .. NumInstances
        /\ \A i \in from .. k - 1 :
              i \in Ids /\ instances'[n][i].learner.value # None
    BY <1>1, <1>2, CommitUpToFacts
  <1>4. from \in Nat /\ NumInstances \in Nat /\ applied \in [Nodes -> Seq(Commands)]
    BY <1>1, <1>2, BoundsAssumption DEF AppliedTyped
  <1> HIDE DEF k
  <1>5. k \in Nat
    BY <1>3, <1>4
  <1>6. Len(log) = k /\ \A i \in 1 .. k :
            log[i] = IF i <= from THEN applied[n][i]
                     ELSE instances'[n][i - 1].learner.value
    <2>1. log \in Seq({log[i] : i \in 1 .. k}) /\ Len(log) = k
      BY <1>5
    <2> QED BY <2>1 DEF LearnedValue
  <1>7. \A m \in Nodes : applied'[m] = IF m = n THEN log ELSE applied[m]
    BY <1>1, <1>2, <1>4
  <1> HIDE DEF log, n
  <1>8. ASSUME NEW m \in Nodes, NEW i \in Ids, i < Len(applied'[m])
        PROVE  Decided(SaidAt(i)', applied'[m][i + 1])
    <2>1. i \in Nat
      BY BoundsAssumption DEF Ids
    <2>2. i < Len(applied[m]) => Decided(SaidAt(i)', applied[m][i + 1])
      BY <1>1, MoreSaid, DecidedStable DEF AppliedDecided
    <2>3. CASE m # n
      BY <1>7, <1>8, <2>2, <2>3
    <2>4. CASE m = n /\ i < from
      <3>1. i + 1 \in 1 .. k /\ i + 1 <= from
        BY <1>3, <1>4, <1>5, <2>1, <2>4
      <3>2. applied'[m][i + 1] = applied[n][i + 1]
        BY <1>6, <1>7, <2>4, <3>1
      <3> QED BY <2>2, <2>4, <3>2 DEF from
    <2>5. CASE m = n /\ ~(i < from)
      <3>1. i + 1 \in 1 .. k /\ ~(i + 1 <= from) /\ i \in from .. k - 1
            /\ (i + 1) - 1 = i
        BY <1>4, <1>5, <1>6, <1>7, <1>8, <2>1, <2>5
      <3>2. applied'[m][i + 1] = instances'[n][i].learner.value
        BY <1>6, <1>7, <2>5, <3>1
      <3>3. instances'[n][i].learner.value # None
        BY <1>3, <3>1
      <3>4. At(i)'[n] = instances'[n][i]
        BY <1>1 DEF At
      <3>5. LearnerKnows(At(i)'[n].learner, SaidAt(i)')
        BY <1>1 DEF SafeEverywhere, Safe
      <3> QED BY <3>2, <3>3, <3>4, <3>5 DEF LearnerKnows
    <2> QED BY <2>3, <2>4, <2>5
  <1> QED BY <1>8 DEF AppliedDecided, Decided, BallotsIn, Voters, Voted

LEMMA InitSafety == Init => SafetyInv
  <1> SUFFICES ASSUME Init PROVE SafetyInv
    OBVIOUS
  <1>1. BallotInv
    BY InitBallots
  <1>2. SafeEverywhere /\ NetInv
    BY <1>1, InitSafe DEF BallotInv, DurabilityInv
  <1>3. WonSomewhere
    BY DEF Init, WonSomewhere, IsLeader
  <1>4. AppliedDecided
    <2>1. \A n \in Nodes : Len(applied[n]) = 0
      BY DEF Init
    <2> QED BY <2>1, BoundsAssumption DEF AppliedDecided, Ids
  <1> QED BY <1>1, <1>2, <1>3, <1>4 DEF SafetyInv

LEMMA ProposeHereSafety ==
    ASSUME SafetyInv, BallotInv', applied' = applied, NEW n \in Nodes,
           NEW c \in Commands, NEW client, NEW received, IsABag(received),
           NEW answer \in Seq(Forwards),
           ProposeHere(n, c, client, received, answer)
    PROVE  SafetyInv'
  <1>1. SafeEverywhere' /\ NetInv'
    BY ProposeHereSafe DEF SafetyInv
  <1>2. sent \subseteq sent' /\ leader_ballot' = leader_ballot
    BY DEF ProposeHere
  <1>3. WonSomewhere' /\ AppliedDecided'
    BY <1>2, LeadersRemain, AppliedRemains DEF SafetyInv
  <1> QED BY <1>1, <1>3 DEF SafetyInv

LEMMA StepSafety == SafetyInv /\ [Next]_vars => SafetyInv'
  <1> SUFFICES ASSUME SafetyInv, [Next]_vars PROVE SafetyInv'
    OBVIOUS
  <1>1. BallotInv /\ BallotInv' /\ TypeInv /\ TypeInv'
    BY StepBallots DEF SafetyInv, BallotInv, DurabilityInv
  <1>2. SafeEverywhere /\ NetInv /\ WonSomewhere /\ AppliedDecided
    BY DEF SafetyInv
  <1>3. ASSUME NEW req \in Requests, Propose(req)
        PROVE  SafetyInv'
    <2>1. req.node \in Nodes /\ req.command \in Commands
      BY RequestsAssumption
    <2>2. applied' = applied
      BY <1>3 DEF Propose
    <2>3. CASE Forward(req.node, req.command)
      <3>1. sent' = sent /\ leader_ballot' = leader_ballot
        BY <2>3 DEF Forward
      <3>2. WonSomewhere' /\ AppliedDecided'
        BY <1>2, <2>2, <3>1, LeadersRemain, AppliedRemains
      <3>3. SafeEverywhere' /\ NetInv'
        BY <1>1, <1>2, <2>1, <2>3, ForwardSafe
      <3> QED BY <1>1, <3>2, <3>3 DEF SafetyInv
    <2>4. CASE ProposeHere(req.node, req.command, req.command, EmptyBag, << >>)
      <3>1. << >> \in Seq(Forwards)
        OBVIOUS
      <3>2. IsABag(EmptyBag)
        BY SetToBagType DEF EmptyBag
      <3> QED BY <1>1, <2>1, <2>2, <2>4, <3>1, <3>2, ProposeHereSafety
    <2> QED BY <1>3, <2>3, <2>4 DEF Propose
  <1>4. ASSUME NEW e \in BagToSet(net), Receive(e)
        PROVE  SafetyInv'
    <2>1. CASE ReceivePaxos(e)
      <3>1. SafeEverywhere' /\ NetInv'
        BY <1>1, <1>2, <2>1, ReceiveSafe
      <3>2. WonSomewhere'
        BY <1>1, <1>2, <2>1, ReceiveWins
      <3>3. AppliedDecided'
        BY <1>1, <1>2, <2>1, <3>1, ReceiveApplies
      <3> QED BY <1>1, <3>1, <3>2, <3>3 DEF SafetyInv
    <2>2. CASE ReceiveForward(e)
      <3>1. ProposalForwarded(e)
        BY <1>1, <2>2, ReceiveForwardFacts
      <3>2. applied' = applied
        BY <2>2 DEF ReceiveForward
      <3> QED BY <1>1, <3>1, <3>2, ProposeHereSafety DEF ProposalForwarded
    <2>3. CASE DropForward(e) \/ ReceiveForwardAck(e)
      <3>1. /\ net' = net (-) SetToBag({e}) /\ instances' = instances
            /\ sent' = sent /\ leader_ballot' = leader_ballot
            /\ applied' = applied
        BY <2>3 DEF DropForward, ReceiveForwardAck, node_vars
      <3>2. SafeEverywhere' /\ NetInv'
        BY <1>1, <1>2, <3>1, RemovalSafe
      <3>3. WonSomewhere' /\ AppliedDecided'
        BY <1>2, <3>1, LeadersRemain, AppliedRemains
      <3> QED BY <1>1, <3>2, <3>3 DEF SafetyInv
    <2> QED BY <1>4, <2>1, <2>2, <2>3 DEF Receive
  <1>5. ASSUME NEW n \in Nodes, Restart(n)
        PROVE  SafetyInv'
    <2>1. SafeEverywhere' /\ NetInv'
      BY <1>1, <1>2, <1>5, RestartSafe
    <2>2. sent' = sent /\ applied' = applied
          /\ leader_ballot' = [leader_ballot EXCEPT ![n] = NoBallot]
      BY <1>5 DEF Restart
    <2>3. \A k \in Nodes : leader_ballot'[k] \in {leader_ballot[k], NoBallot}
      BY <1>1, <2>2 DEF TypeInv, LeadershipTyped
    <2>4. WonSomewhere' /\ AppliedDecided'
      BY <1>2, <2>2, <2>3, LeadersRemain, AppliedRemains
    <2> QED BY <1>1, <2>1, <2>4 DEF SafetyInv
  <1>6. CASE UNCHANGED vars
    <2>1. /\ net' = net /\ instances' = instances /\ sent' = sent
          /\ leader_ballot' = leader_ballot /\ applied' = applied
      BY <1>6 DEF vars, node_vars
    <2>2. PaxosMail' = PaxosMail
      BY <2>1 DEF PaxosMail
    <2>3. SafeEverywhere' /\ NetInv'
      BY <1>2, <2>1, <2>2, IdleSafe DEF NetInv
    <2>4. WonSomewhere' /\ AppliedDecided'
      BY <1>2, <2>1, LeadersRemain, AppliedRemains
    <2> QED BY <1>1, <2>3, <2>4 DEF SafetyInv
  <1> QED BY <1>3, <1>4, <1>5, <1>6 DEF Next

LEMMA SafetyInvariant == Spec => []SafetyInv
  BY InitSafety, StepSafety, PTL DEF Spec

-----------------------------------------------------------------------------
(* The theorems, in the words of MultiPaxos.                                 *)

LEMMA SaidIsSent ==
    ASSUME TypeInv, NEW i \in Ids, NEW m
    PROVE  Said(i, m) <=> m \in SaidAt(i)
  <1>1. ASSUME m \in SaidAt(i)
        PROVE  Said(i, m)
    <2>1. PICK s \in sent : s.id = i /\ s.msg = m
      BY <1>1 DEF SaidAt
    <2>2. s = [id |-> i, msg |-> m]
      BY <2>1 DEF TypeInv, NetTyped
    <2> QED BY <2>1, <2>2 DEF Said
  <1>2. ASSUME Said(i, m)
        PROVE  m \in SaidAt(i)
    <2> DEFINE s == [id |-> i, msg |-> m]
    <2>1. s \in sent /\ s.id = i /\ s.msg = m
      BY <1>2 DEF Said
    <2> QED BY <2>1 DEF SaidAt
  <1> QED BY <1>1, <1>2

LEMMA VotersAreVoting ==
    ASSUME TypeInv, NEW i \in Ids, NEW b, NEW c
    PROVE  ChosenAt(i, b, c)
             <=> Cardinality(Voters(SaidAt(i), b, c)) >= Quorum
  <1>1. ASSUME NEW a \in Nodes
        PROVE  VotedFor(a, i, b, c) <=> Voted(SaidAt(i), a, b, c)
    BY SaidIsSent DEF VotedFor, Voted, AckOf, Request
  <1>2. {a \in Nodes : VotedFor(a, i, b, c)} = Voters(SaidAt(i), b, c)
    BY <1>1 DEF Voters
  <1> QED BY <1>2 DEF ChosenAt

LEMMA DecidedIsChosen ==
    ASSUME TypeInv, NEW i \in Ids, NEW c, Decided(SaidAt(i), c)
    PROVE  Chosen(i, c)
  <1>1. PICK b \in BallotsIn(SaidAt(i)) :
           Cardinality(Voters(SaidAt(i), b, c)) >= Quorum
    BY DEF Decided
  <1>2. b \in SentBallots
    BY DEF BallotsIn, SaidAt, SentBallots
  <1> QED BY <1>1, <1>2, VotersAreVoting DEF Chosen

\* Nobody claims a lead it has not earned: a node skips the first phase only
\* with a ballot of its own under which a majority has accepted a command,
\* whatever the network did to the acknowledgements and whoever restarted.
THEOREM LeadersHaveWon == Spec => []LeaderHasWon
  <1>1. SafetyInv => LeaderHasWon
    <2> SUFFICES ASSUME SafetyInv, NEW n \in Nodes, IsLeader(n)
                 PROVE  /\ Owner(leader_ballot[n]) = n
                        /\ \E i \in Ids, c \in Commands :
                              ChosenAt(i, leader_ballot[n], c)
      BY DEF LeaderHasWon
    <2>1. TypeInv /\ Owner(leader_ballot[n]) = n
      BY DEF SafetyInv, BallotInv, DurabilityInv, LeadsByItself
    <2>2. PICK i \in Ids, c \in Commands :
             Cardinality(Voters(SaidAt(i), leader_ballot[n], c)) >= Quorum
      BY DEF SafetyInv, WonSomewhere
    <2>3. ChosenAt(i, leader_ballot[n], c)
      BY <2>1, <2>2, VotersAreVoting
    <2> QED BY <2>1, <2>3
  <1> QED BY <1>1, SafetyInvariant, PTL

\* A state machine applies as its i-th command only what a majority accepted
\* in instance i - 1: a learner's count of Learns, repeated by the others, ends
\* in a decided command, and the loop neither skips an instance nor takes one
\* for another, also when the node restarts between two of them.
THEOREM AppliedAreChosen == Spec => []AppliedIsChosen
  <1>1. SafetyInv => AppliedIsChosen
    <2> SUFFICES ASSUME SafetyInv, NEW n \in Nodes, NEW i \in Ids,
                        i < Len(applied[n])
                 PROVE  Chosen(i, applied[n][i + 1])
      BY DEF AppliedIsChosen
    <2>1. TypeInv
      BY DEF SafetyInv, BallotInv, DurabilityInv
    <2>2. Decided(SaidAt(i), applied[n][i + 1])
      BY DEF SafetyInv, AppliedDecided
    <2> QED BY <2>1, <2>2, DecidedIsChosen
  <1> QED BY <1>1, SafetyInvariant, PTL
=============================================================================
