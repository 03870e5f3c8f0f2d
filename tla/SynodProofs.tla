------------------------------ MODULE SynodProofs ------------------------------
(***************************************************************************)
(* Theorems about Synod, for every number of nodes, set of commands and    *)
(* bound: type correctness, that an acceptor never takes back what it has  *)
(* promised or accepted, that no ballot is prepared twice, that under one  *)
(* ballot at most one command is put to the acceptors, and that            *)
(* self_deliver terminates.                                                *)
(***************************************************************************)
EXTENDS Synod, InstanceProofs

-----------------------------------------------------------------------------
(* Bags of envelopes.                                                       *)

EnvelopeBag(b) == IsABag(b) /\ BagToSet(b) \subseteq Envelopes

LEMMA AudienceType ==
    ASSUME NEW m \in Messages
    PROVE  Audience(m) \subseteq Nodes
  <1>1. CASE m.type \in {"Promise", "AckAccept"}
    <2>1. m.ballot \in Nat
      BY <1>1 DEF Messages
    <2>2. Owner(m.ballot) \in Nodes
      BY <2>1, NAssumption DEF Owner, Nodes
    <2> QED BY <1>1, <2>2 DEF Audience
  <1>2. CASE m.type \in {"NackPrepare", "NackAccept"}
    BY <1>2, ProposersAssumption DEF Audience
  <1>3. CASE m.type \in {"Prepare", "Accept", "Learn"}
    BY <1>3 DEF Audience
  <1> QED BY <1>1, <1>2, <1>3, MessageTypes

LEMMA EnvelopeType ==
    ASSUME NEW out \in Seq(Messages)
    PROVE  Envelope(out) \subseteq Envelopes /\ Record(out) \subseteq Messages
  <1>1. \A i \in DOMAIN out : out[i] \in Messages
    OBVIOUS
  <1> QED BY <1>1, AudienceType DEF Envelope, Envelopes, Record

-----------------------------------------------------------------------------
(* Type correctness.  TypeOK alone is not inductive: the command that goes  *)
(* into an Accept or a Learn is the active proposer's, which must have one. *)

TypeInv == TypeOK /\ \A n \in Nodes : HasValue(inst[n])

LEMMA InitType == Init => TypeInv
  <1> SUFFICES ASSUME Init PROVE TypeInv
    OBVIOUS
  <1>1. \A n \in Nodes : GoodInstance(FreshInstance(n, FreshDisk))
    BY FreshTypes, FreshInstanceGood
  <1>2. EnvelopeBag(net)
    BY SetToBagType DEF Init, EmptyBag, EnvelopeBag
  <1> QED
    BY <1>1, <1>2 DEF Init, TypeInv, TypeOK, GoodInstance, EnvelopeBag

\* What Propose and Receive do with a well-formed result.
LEMMA CommitType ==
    ASSUME TypeInv, NEW n \in Nodes, NEW r, GoodChain(r),
           NEW received, IsABag(received), Commit(n, r, received)
    PROVE  TypeInv'
  <1>1. GoodInstance(r.inst) /\ r.out \in Seq(Messages)
    BY DEF GoodChain, GoodResult
  <1>2. inst' = [inst EXCEPT ![n] = r.inst]
    BY DEF Commit
  <1>3. inst' \in [Nodes -> Instances] /\ \A k \in Nodes : HasValue(inst'[k])
    BY <1>1, <1>2 DEF TypeInv, TypeOK, GoodInstance
  <1>4. opened' \in [Nodes -> BOOLEAN]
    BY DEF Commit, TypeInv, TypeOK
  <1>5. EnvelopeBag(net')
    <2>1. IsABag(net (-) received)
          /\ BagToSet(net (-) received) \subseteq Envelopes
      BY BagDifferenceType DEF TypeInv, TypeOK
    <2>2. net' = (net (-) received) (+) SetToBag(Envelope(r.out))
      BY DEF Commit
    <2> QED
      BY <1>1, <2>1, <2>2, SetToBagType, BagUnionType, EnvelopeType
      DEF EnvelopeBag
  <1>6. sent' \subseteq Messages /\ crashes' \in Nat
    BY <1>1, EnvelopeType DEF Commit, TypeInv, TypeOK
  <1> QED
    BY <1>3, <1>4, <1>5, <1>6 DEF TypeInv, TypeOK, EnvelopeBag, HasValue

LEMMA RestartType ==
    ASSUME TypeInv, NEW n \in Nodes, NEW disk \in Disks,
           RestartFrom(n, disk), EnvelopeBag(net')
    PROVE  TypeInv'
  <1>1. GoodInstance(Restored(n, disk))
    BY RestoredGood
  <1>2. inst' \in [Nodes -> Instances] /\ \A k \in Nodes : HasValue(inst'[k])
    BY <1>1 DEF RestartFrom, TypeInv, TypeOK, GoodInstance
  <1>3. /\ opened' \in [Nodes -> BOOLEAN]
        /\ sent' \subseteq Messages /\ crashes' \in Nat
    BY DEF RestartFrom, TypeInv, TypeOK
  <1> QED
    BY <1>2, <1>3 DEF TypeInv, TypeOK, EnvelopeBag, HasValue

\* What is in the bag, and the node it is for.
LEMMA ReceivedType ==
    ASSUME TypeInv, NEW e \in BagToSet(net)
    PROVE  /\ e.to \in Nodes /\ e.msg \in Messages
           /\ GoodInstance(inst[e.to])
           /\ GoodChain(Deliver(e.to, inst[e.to], e.msg))
  <1>1. e \in Envelopes
    BY DEF TypeInv, TypeOK
  <1>2. e.to \in Nodes /\ e.msg \in Messages
    BY <1>1 DEF Envelopes
  <1>3. GoodInstance(inst[e.to])
    BY <1>2 DEF TypeInv, TypeOK, GoodInstance
  <1> QED BY <1>2, <1>3, DeliverGood

LEMMA TornType ==
    ASSUME NEW before \in Disks, NEW after \in Disks
    PROVE  Torn(before, after) \in Disks
  BY DEF Torn, Disks

LEMMA ProposeType ==
    ASSUME TypeInv, NEW n \in Nodes, NEW c \in Commands, Propose(n, c)
    PROVE  TypeInv'
  <1> DEFINE fresh == FreshInstance(n, inst[n].disk)
             first == NewPrepare(n, fresh, c)
  <1>1. inst[n].disk \in Disks
    BY DEF TypeInv, TypeOK, Instances
  <1>2. fresh \in Instances
    BY <1>1, FreshInstanceGood DEF GoodInstance
  <1>3. GoodChain(SelfDeliver(n, first))
    BY <1>2, NewPrepareGood, SelfDeliverGood
  <1>4. Commit(n, SelfDeliver(n, first), EmptyBag)
    BY DEF Propose
  <1>5. IsABag(EmptyBag)
    BY SetToBagType DEF EmptyBag
  <1> HIDE DEF first
  <1> QED BY <1>3, <1>4, <1>5, CommitType

LEMMA ReceiveType ==
    ASSUME TypeInv, NEW e \in BagToSet(net), Receive(e)
    PROVE  TypeInv'
  <1>1. Commit(e.to, Deliver(e.to, inst[e.to], e.msg), SetToBag({e}))
    BY DEF Receive
  <1> QED BY <1>1, ReceivedType, SetToBagType, CommitType

LEMMA CrashType ==
    ASSUME TypeInv, NEW e \in BagToSet(net), CrashInSaveAccept(e)
    PROVE  TypeInv'
  <1> DEFINE before == inst[e.to].disk
             after == Deliver(e.to, inst[e.to], e.msg).inst.disk
  <1>1. e.to \in Nodes /\ GoodInstance(inst[e.to])
        /\ GoodInstance(Deliver(e.to, inst[e.to], e.msg).inst)
    BY ReceivedType DEF GoodChain, GoodResult
  <1>2. before \in Disks /\ after \in Disks
    BY <1>1 DEF GoodInstance, Instances
  <1>3. RestartFrom(e.to, Torn(before, after))
        /\ net' = net (-) SetToBag({e})
    BY DEF CrashInSaveAccept
  <1>4. EnvelopeBag(net')
    BY <1>3, SetToBagType, BagDifferenceType DEF TypeInv, TypeOK, EnvelopeBag
  <1> QED BY <1>1, <1>2, <1>3, <1>4, TornType, RestartType

LEMMA StepType == TypeInv /\ [Next]_vars => TypeInv'
  <1> SUFFICES ASSUME TypeInv, [Next]_vars PROVE TypeInv'
    OBVIOUS
  <1>1. ASSUME NEW n \in Nodes, NEW c \in Commands, Propose(n, c)
        PROVE  TypeInv'
    BY <1>1, ProposeType
  <1>2. ASSUME NEW e \in BagToSet(net), Receive(e)
        PROVE  TypeInv'
    BY <1>2, ReceiveType
  <1>3. ASSUME NEW n \in Nodes, Restart(n)
        PROVE  TypeInv'
    <2>1. inst[n].disk \in Disks
      BY DEF TypeInv, TypeOK, Instances
    <2>2. EnvelopeBag(net')
      BY <1>3 DEF Restart, TypeInv, TypeOK, EnvelopeBag
    <2> QED BY <1>3, <2>1, <2>2, RestartType DEF Restart
  <1>4. ASSUME NEW e \in BagToSet(net), CrashInSaveAccept(e)
        PROVE  TypeInv'
    BY <1>4, CrashType
  <1>5. CASE UNCHANGED vars
    BY <1>5 DEF vars, TypeInv, TypeOK, HasValue
  <1> QED BY <1>1, <1>2, <1>3, <1>4, <1>5 DEF Next

\* In every behaviour the state, the messages under way and the recorded
\* messages are of the types of the Rust structures: in particular no proposer
\* sends an Accept or a Learn without a command.
THEOREM TypeCorrect == Spec => []TypeOK
  <1>1. Spec => []TypeInv
    BY InitType, StepType, PTL DEF Spec
  <1>2. TypeInv => TypeOK
    BY DEF TypeInv
  <1> QED BY <1>1, <1>2, PTL

-----------------------------------------------------------------------------
(* Durability: the steps of Synod.                                         *)

\* An instance a node has not opened has nothing on disk.  Without this a
\* proposal in a fresh instance could replace an acceptor that had promised.
DurabilityInv ==
    /\ TypeInv
    /\ \A n \in Nodes : /\ Durable(inst[n])
                        /\ ~opened[n] => inst[n].disk.ballot = 0

InstanceKept(n) == Keeps(inst[n], inst'[n])

LEMMA InitDurable == Init => DurabilityInv
  BY InitType
  DEF Init, DurabilityInv, Durable, FreshInstance, FreshAcceptor, FreshDisk,
      NoProposal

LEMMA CommitKeeps ==
    ASSUME DurabilityInv, TypeInv', NEW n \in Nodes, NEW r, NEW received,
           ChainFrom(inst[n], r), Commit(n, r, received)
    PROVE  DurabilityInv' /\ \A k \in Nodes : InstanceKept(k)
  <1>1. inst \in [Nodes -> Instances]
    BY DEF DurabilityInv, TypeInv, TypeOK
  <1>2. inst' = [inst EXCEPT ![n] = r.inst]
    BY DEF Commit
  <1>3. opened' = [opened EXCEPT ![n] = TRUE] /\ opened \in [Nodes -> BOOLEAN]
    BY DEF Commit, DurabilityInv, TypeInv, TypeOK
  <1>4. \A k \in Nodes : Durable(inst'[k])
    BY <1>1, <1>2 DEF ChainFrom, DurabilityInv
  <1>5. \A k \in Nodes : ~opened'[k] => inst'[k].disk.ballot = 0
    BY <1>1, <1>2, <1>3 DEF DurabilityInv
  <1>6. \A k \in Nodes : InstanceKept(k)
    BY <1>1, <1>2, KeepsReflexive DEF InstanceKept, ChainFrom
  <1> QED BY <1>4, <1>5, <1>6 DEF DurabilityInv, Durable

LEMMA RestartKeeps ==
    ASSUME DurabilityInv, TypeInv', NEW n \in Nodes, NEW disk \in Disks,
           RestartFrom(n, disk),
           disk.ballot >= inst[n].disk.ballot,
           disk.accepted.ballot = inst[n].disk.accepted.ballot
    PROVE  DurabilityInv' /\ \A k \in Nodes : InstanceKept(k)
  <1>1. inst \in [Nodes -> Instances] /\ opened \in [Nodes -> BOOLEAN]
    BY DEF DurabilityInv, TypeInv, TypeOK
  <1>2. /\ inst' = [inst EXCEPT ![n] = Restored(n, disk)]
        /\ opened' = [opened EXCEPT ![n] = disk.ballot # 0]
    BY DEF RestartFrom
  <1>3. /\ Durable(Restored(n, disk)) /\ Keeps(inst[n], Restored(n, disk))
        /\ Restored(n, disk).disk = disk
    BY <1>1, RestoredKeeps DEF DurabilityInv
  <1>4. \A k \in Nodes : Durable(inst'[k])
    BY <1>1, <1>2, <1>3 DEF DurabilityInv
  <1>5. \A k \in Nodes : ~opened'[k] => inst'[k].disk.ballot = 0
    BY <1>1, <1>2, <1>3 DEF DurabilityInv
  <1>6. \A k \in Nodes : InstanceKept(k)
    BY <1>1, <1>2, <1>3, KeepsReflexive DEF InstanceKept
  <1> QED BY <1>4, <1>5, <1>6 DEF DurabilityInv, Durable

\* A proposal starts from a fresh acceptor, and the instance was not opened.
LEMMA ProposeKeeps ==
    ASSUME DurabilityInv, NEW n \in Nodes, NEW c \in Commands, Propose(n, c)
    PROVE  DurabilityInv' /\ \A k \in Nodes : InstanceKept(k)
  <1> DEFINE fresh == FreshInstance(n, inst[n].disk)
             first == NewPrepare(n, fresh, c)
  <1>1. inst[n] \in Instances /\ inst[n].disk \in Disks
    BY DEF DurabilityInv, TypeInv, TypeOK, Instances
  <1>2. inst[n].disk.ballot = 0 /\ Durable(inst[n])
    BY DEF Propose, DurabilityInv
  <1>3. fresh \in Instances /\ Durable(fresh) /\ Keeps(inst[n], fresh)
    <2>1. fresh.acceptor = FreshAcceptor /\ fresh.disk = inst[n].disk
      BY DEF FreshInstance
    <2>2. fresh \in Instances
      BY <1>1, FreshInstanceGood DEF GoodInstance
    <2> QED
      BY <1>1, <1>2, <2>1, <2>2, BallotTypes
      DEF Durable, Keeps, FreshAcceptor, NoProposal
  <1>4. GoodResult(first) /\ first.inst.acceptor = fresh.acceptor
        /\ first.inst.disk = fresh.disk
    BY <1>3, NewPrepareGood DEF NewPrepare, Instances
  <1> HIDE DEF first
  <1>5. Durable(first.inst) /\ Keeps(inst[n], first.inst)
    BY <1>3, <1>4 DEF Durable, Keeps
  <1>6. ChainFrom(inst[n], SelfDeliver(n, first))
    BY <1>1, <1>4, <1>5, SelfDeliverKeeps
  <1>7. Commit(n, SelfDeliver(n, first), EmptyBag)
    BY DEF Propose, first
  <1>8. TypeInv'
    BY ProposeType DEF DurabilityInv
  <1> QED BY <1>6, <1>7, <1>8, CommitKeeps

LEMMA ReceiveKeeps ==
    ASSUME DurabilityInv, NEW e \in BagToSet(net), Receive(e)
    PROVE  DurabilityInv' /\ \A k \in Nodes : InstanceKept(k)
  <1>1. /\ e.to \in Nodes /\ e.msg \in Messages
        /\ GoodInstance(inst[e.to]) /\ Durable(inst[e.to])
    BY ReceivedType DEF DurabilityInv
  <1>2. ChainFrom(inst[e.to], Deliver(e.to, inst[e.to], e.msg))
    BY <1>1, DeliverKeeps
  <1>3. Commit(e.to, Deliver(e.to, inst[e.to], e.msg), SetToBag({e}))
    BY DEF Receive
  <1>4. TypeInv'
    BY ReceiveType DEF DurabilityInv
  <1> QED BY <1>1, <1>2, <1>3, <1>4, CommitKeeps

\* The ballot of a half-saved acceptance counts as promised, and what had been
\* accepted before is still there.
LEMMA CrashKeeps ==
    ASSUME DurabilityInv, NEW e \in BagToSet(net), CrashInSaveAccept(e)
    PROVE  DurabilityInv' /\ \A k \in Nodes : InstanceKept(k)
  <1> DEFINE s == inst[e.to]
             t == Deliver(e.to, s, e.msg).inst
             disk == Torn(s.disk, t.disk)
  <1>1. /\ e.to \in Nodes /\ e.msg \in Messages
        /\ GoodInstance(s) /\ Durable(s)
    BY ReceivedType DEF DurabilityInv
  <1>2. ChainFrom(s, Deliver(e.to, s, e.msg))
    BY <1>1, DeliverKeeps
  <1> HIDE DEF t
  <1>3. GoodInstance(t) /\ Durable(t) /\ Keeps(s, t)
    BY <1>2 DEF ChainFrom, GoodChain, GoodResult, t
  <1>4. s \in Instances /\ t \in Instances /\ s.disk \in Disks /\ t.disk \in Disks
    BY <1>1, <1>3 DEF GoodInstance, Instances
  <1>5. disk \in Disks /\ disk.ballot = t.disk.ballot
        /\ disk.accepted = s.disk.accepted
    BY <1>4, TornType DEF Torn, Disks
  <1>6. disk.ballot >= s.disk.ballot
    BY <1>1, <1>3, <1>4, <1>5, BallotTypes DEF Durable, Keeps
  <1>7. RestartFrom(e.to, disk)
    BY DEF CrashInSaveAccept, t
  <1>8. TypeInv'
    BY CrashType DEF DurabilityInv
  <1> QED BY <1>1, <1>5, <1>6, <1>7, <1>8, RestartKeeps

LEMMA StepKeeps ==
    DurabilityInv /\ [Next]_vars =>
        DurabilityInv' /\ \A n \in Nodes : InstanceKept(n)
  <1> SUFFICES ASSUME DurabilityInv, [Next]_vars
               PROVE  DurabilityInv' /\ \A n \in Nodes : InstanceKept(n)
    OBVIOUS
  <1>1. ASSUME NEW n \in Nodes, NEW c \in Commands, Propose(n, c)
        PROVE  DurabilityInv' /\ \A k \in Nodes : InstanceKept(k)
    BY <1>1, ProposeKeeps
  <1>2. ASSUME NEW e \in BagToSet(net), Receive(e)
        PROVE  DurabilityInv' /\ \A k \in Nodes : InstanceKept(k)
    BY <1>2, ReceiveKeeps
  <1>3. ASSUME NEW n \in Nodes, Restart(n)
        PROVE  DurabilityInv' /\ \A k \in Nodes : InstanceKept(k)
    <2>1. inst[n] \in Instances /\ inst[n].disk \in Disks
      BY DEF DurabilityInv, TypeInv, TypeOK, Instances
    <2>2. inst[n].disk.ballot >= inst[n].disk.ballot
      BY <2>1, BallotTypes
    <2>3. RestartFrom(n, inst[n].disk)
      BY <1>3 DEF Restart
    <2>4. TypeInv'
      BY StepType DEF DurabilityInv
    <2> QED BY <2>1, <2>2, <2>3, <2>4, RestartKeeps
  <1>4. ASSUME NEW e \in BagToSet(net), CrashInSaveAccept(e)
        PROVE  DurabilityInv' /\ \A k \in Nodes : InstanceKept(k)
    BY <1>4, CrashKeeps
  <1>5. CASE UNCHANGED vars
    <2>1. inst' = inst /\ \A n \in Nodes : inst[n] \in Instances
      BY <1>5 DEF vars, DurabilityInv, TypeInv, TypeOK
    <2>2. \A n \in Nodes : InstanceKept(n)
      BY <2>1, KeepsReflexive DEF InstanceKept
    <2>3. TypeInv'
      BY StepType DEF DurabilityInv
    <2> QED BY <1>5, <2>2, <2>3 DEF vars, DurabilityInv, Durable
  <1> QED BY <1>1, <1>2, <1>3, <1>4, <1>5 DEF Next

\* No step, be it a restart from storage or a stop half-way through saving an
\* acceptance, lowers an acceptor's ballot or that of what it has accepted
\* (save_promise and save_accept before the answer, restore_acceptor).
THEOREM AcceptorsDurable == Spec => AcceptorNeverForgets
  <1>1. Spec => []DurabilityInv
    <2>1. DurabilityInv /\ [Next]_vars => DurabilityInv'
      BY StepKeeps
    <2> QED BY <2>1, InitDurable, PTL DEF Spec
  <1>2. DurabilityInv /\ [Next]_vars =>
          [\A n \in Nodes :
             /\ inst'[n].acceptor.max_ballot >= inst[n].acceptor.max_ballot
             /\ inst'[n].acceptor.max_accepted.ballot
                  >= inst[n].acceptor.max_accepted.ballot]_vars
    BY StepKeeps DEF InstanceKept, Keeps
  <1> QED BY <1>1, <1>2, PTL DEF Spec, AcceptorNeverForgets

-----------------------------------------------------------------------------
(* Ballots.  A node that restarts forgets its proposer's ballot.  What       *)
(* keeps it from using that ballot again is its own acceptor: whatever it    *)
(* asks for it asks itself first, and the answer is on disk before the       *)
(* request leaves.                                                           *)

BallotInv ==
    /\ DurabilityInv
    /\ \A n \in Nodes : Accounts(n, inst[n], sent)

\* Node n prepares a ballot only if nobody has.
BallotUnused(n) ==
    LET p == inst'[n].proposer
    IN  (p.state = "Proposal" /\ p.ballot # inst[n].proposer.ballot) =>
            \A m \in sent : m.type = "Prepare" => m.ballot # p.ballot

LEMMA RecordedSaid ==
    ASSUME NEW out
    PROVE  Record(out) \subseteq Spoken(out)
  BY DEF Record, Spoken

LEMMA AccountsLess ==
    ASSUME NEW n, NEW s, NEW said, NEW less, Accounts(n, s, said),
           Asked(n, less) \subseteq Asked(n, said)
    PROVE  Accounts(n, s, less)
  BY DEF Accounts

\* A ballot above all of its own requests is one that nobody has prepared.
LEMMA AboveOwnIsUnused ==
    ASSUME BallotInv, NEW n \in Nodes, Owner(inst'[n].proposer.ballot) = n,
           \A m \in Asked(n, sent) : m.ballot < inst'[n].proposer.ballot
    PROVE  BallotUnused(n)
  <1> SUFFICES ASSUME NEW m \in sent, m.type = "Prepare",
                      m.ballot = inst'[n].proposer.ballot
               PROVE  FALSE
    BY DEF BallotUnused
  <1>1. m.sender \in Nodes /\ m.ballot \in Nat
    BY DEF BallotInv, DurabilityInv, TypeInv, TypeOK, Messages
  <1>2. m \in Asked(m.sender, sent)
    BY DEF Asked
  <1>3. Owner(m.ballot) = m.sender
    BY <1>1, <1>2 DEF BallotInv, Accounts
  <1> QED BY <1>1, <1>2, <1>3

LEMMA CommitBallots ==
    ASSUME BallotInv, NEW n \in Nodes, NEW s \in Instances, NEW r,
           Speaks(n, s, sent, r), NEW received, Commit(n, r, received)
    PROVE  \A k \in Nodes : Accounts(k, inst'[k], sent')
  <1>1. /\ inst' = [inst EXCEPT ![n] = r.inst]
        /\ sent' = sent \cup Record(r.out)
    BY DEF Commit
  <1>2. inst \in [Nodes -> Instances]
    BY DEF BallotInv, DurabilityInv, TypeInv, TypeOK
  <1>3. sent' \subseteq sent \cup Spoken(r.out)
    BY <1>1, RecordedSaid
  <1>4. Accounts(n, inst'[n], sent')
    <2>1. Asked(n, sent') \subseteq Asked(n, sent \cup Spoken(r.out))
      BY <1>3 DEF Asked
    <2>2. Accounts(n, r.inst, sent \cup Spoken(r.out))
      BY DEF Speaks
    <2> QED BY <1>1, <1>2, <2>1, <2>2, AccountsLess
  <1>5. ASSUME NEW k \in Nodes, k # n
        PROVE  Accounts(k, inst'[k], sent')
    <2>1. Asked(k, sent') \subseteq Asked(k, sent)
      BY <1>3, <1>5 DEF Asked, Speaks
    <2>2. inst'[k] = inst[k] /\ Accounts(k, inst[k], sent)
      BY <1>1, <1>2, <1>5 DEF BallotInv
    <2> QED BY <2>1, <2>2, AccountsLess
  <1> QED BY <1>4, <1>5

LEMMA StutterUnused ==
    ASSUME NEW k, inst'[k] = inst[k]
    PROVE  BallotUnused(k)
  BY DEF BallotUnused

\* A proposal of an instance the node has not opened: nothing is on its disk,
\* so it has asked for nothing yet.
Proposal(n, c) == NewPrepare(n, FreshInstance(n, inst[n].disk), c)

LEMMA ProposeOpens ==
    ASSUME BallotInv, NEW n \in Nodes, NEW c \in Commands, ~opened[n]
    PROVE  LET first == Proposal(n, c)
           IN  /\ first.inst \in Instances
               /\ first.inst.acceptor = FreshAcceptor
               /\ first.inst.disk = inst[n].disk
               /\ inst[n].disk.ballot = 0
               /\ first.inst.proposer.ballot > 0
               /\ Speaks(n, first.inst, sent, Opening(first))
               /\ \A m \in Asked(n, sent) : m.ballot = 0
  <1> DEFINE fresh == FreshInstance(n, inst[n].disk)
             first == Proposal(n, c)
  <1>1. /\ inst \in [Nodes -> Instances] /\ inst[n] \in Instances
        /\ inst[n].disk \in Disks /\ sent \subseteq Messages
    BY DEF BallotInv, DurabilityInv, TypeInv, TypeOK, Instances
  <1>2. inst[n].disk.ballot = 0 /\ Durable(inst[n])
    BY DEF BallotInv, DurabilityInv
  <1>3. inst[n].acceptor.max_ballot = 0 /\ inst[n].acceptor.max_accepted.ballot = 0
    BY <1>1, <1>2, BallotTypes DEF Durable
  <1>4. \A m \in Asked(n, sent) : m.ballot = 0 /\ Owner(m.ballot) = n
    <2> SUFFICES ASSUME NEW m \in Asked(n, sent)
                 PROVE  m.ballot = 0 /\ Owner(m.ballot) = n
      OBVIOUS
    <2>1. m.ballot \in Nat
      BY <1>1, AskedBallots
    <2> QED BY <1>3, <2>1 DEF BallotInv, Accounts
  <1>5. fresh \in Instances /\ fresh.acceptor = FreshAcceptor
        /\ fresh.disk = inst[n].disk /\ fresh.proposer.ballot \in Nat
    <2>1. fresh \in Instances
      BY <1>1, FreshInstanceGood DEF GoodInstance
    <2> QED BY <2>1, InstanceBallots DEF FreshInstance
  <1>6. GoodResult(first) /\ first.inst \in Instances
        /\ first.inst.acceptor = FreshAcceptor
        /\ first.inst.disk = inst[n].disk
    <2>1. GoodResult(first)
      BY <1>5, NewPrepareGood DEF Proposal
    <2> QED BY <1>5, <2>1 DEF Proposal, NewPrepare, Instances, GoodResult, GoodInstance
  <1>7. /\ Owner(first.inst.proposer.ballot) = n
        /\ first.inst.proposer.ballot \in Nat
        /\ first.inst.proposer.ballot > 0
        /\ first.inst.proposer.state = "Proposal"
        /\ Pending(n, first.inst, first.resp, sent)
    <2>1. /\ Owner(first.inst.proposer.ballot) = n
          /\ first.inst.proposer.ballot \in Nat
          /\ first.inst.proposer.ballot > fresh.proposer.ballot
          /\ first.inst.proposer.state = "Proposal"
          /\ Pending(n, first.inst, first.resp, sent)
      BY <1>5, NewPrepareGoesOn DEF Proposal
    <2> HIDE DEF first, fresh
    <2> QED BY <1>5, <2>1
  <1> HIDE DEF first, fresh
  <1>8. Durable(first.inst)
    BY <1>1, <1>2, <1>6, <1>3 DEF Durable, FreshAcceptor, NoProposal
  <1>9. Accounts(n, first.inst, sent)
    <2>1. \A m, k \in Asked(n, sent) :
            (m.type = "Accept" /\ k.type = "Accept" /\ m.ballot = k.ballot) =>
                m = k
      BY DEF BallotInv, Accounts
    <2> QED BY <1>4, <1>6, <1>7, <2>1 DEF Accounts, FreshAcceptor
  <1>10. Speaks(n, first.inst, sent, Opening(first))
    BY <1>1, <1>6, <1>7, <1>8, <1>9, OpeningSpeaks, KeepsReflexive,
       AdvancesReflexive
  <1> QED BY <1>2, <1>4, <1>6, <1>7, <1>10 DEF first

LEMMA ProposeBallots ==
    ASSUME BallotInv, NEW n \in Nodes, NEW c \in Commands, Propose(n, c)
    PROVE  /\ \A k \in Nodes : Accounts(k, inst'[k], sent')
           /\ \A k \in Nodes : BallotUnused(k)
  <1> DEFINE first == Proposal(n, c)
             r == SelfDeliver(n, first)
  <1>1. inst \in [Nodes -> Instances] /\ sent \subseteq Messages
    BY DEF BallotInv, DurabilityInv, TypeInv, TypeOK
  <1>2. ~opened[n] /\ Commit(n, r, EmptyBag)
    BY DEF Propose, Proposal
  <1>3. /\ first.inst \in Instances
        /\ first.inst.proposer.ballot > 0
        /\ Speaks(n, first.inst, sent, Opening(first))
        /\ \A m \in Asked(n, sent) : m.ballot = 0
    BY <1>2, ProposeOpens
  <1>4. first.inst.proposer.ballot \in Nat
    BY <1>3, InstanceBallots
  <1>5. Speaks(n, first.inst, sent, r)
    BY <1>1, <1>3, SelfDeliverSpeaks
  <1> HIDE DEF first, r
  <1>6. \A k \in Nodes : Accounts(k, inst'[k], sent')
    BY <1>2, <1>3, <1>5, CommitBallots
  <1>7. inst' = [inst EXCEPT ![n] = r.inst]
    BY <1>2 DEF Commit
  <1>8. BallotUnused(n)
    <2>1. CASE r.inst.proposer.state # "Proposal"
      BY <1>1, <1>7, <2>1 DEF BallotUnused
    <2>2. CASE r.inst.proposer.state = "Proposal"
      <3>1. r.inst \in Instances /\ r.inst.proposer.ballot \in Nat
        BY <1>5, InstanceBallots
        DEF Speaks, ChainFrom, GoodChain, GoodResult, GoodInstance
      <3>2. r.inst.proposer.ballot > 0
        BY <1>3, <1>4, <1>5, <2>2, <3>1 DEF Speaks, Advances, Active
      <3>3. inst'[n] = r.inst /\ Owner(r.inst.proposer.ballot) = n
        BY <1>1, <1>5, <1>7 DEF Speaks, Accounts
      <3> QED BY <1>3, <3>1, <3>2, <3>3, AboveOwnIsUnused
    <2> QED BY <2>1, <2>2
  <1>9. \A k \in Nodes : BallotUnused(k)
    BY <1>1, <1>7, <1>8, StutterUnused
  <1> QED BY <1>6, <1>9

LEMMA ReceiveBallots ==
    ASSUME BallotInv, NEW e \in BagToSet(net), Receive(e)
    PROVE  /\ \A k \in Nodes : Accounts(k, inst'[k], sent')
           /\ \A k \in Nodes : BallotUnused(k)
  <1> DEFINE n == e.to
             s == inst[n]
             r == Deliver(n, s, e.msg)
  <1>1. /\ n \in Nodes /\ e.msg \in Messages
        /\ GoodInstance(s) /\ Durable(s) /\ s \in Instances
    BY ReceivedType DEF BallotInv, DurabilityInv, GoodInstance
  <1>2. inst \in [Nodes -> Instances] /\ sent \subseteq Messages
    BY DEF BallotInv, DurabilityInv, TypeInv, TypeOK
  <1>3. Speaks(n, s, sent, r)
    BY <1>1, <1>2, DeliverSpeaks DEF BallotInv
  <1>4. Commit(n, r, SetToBag({e}))
    BY DEF Receive
  <1> HIDE DEF r
  <1>5. \A k \in Nodes : Accounts(k, inst'[k], sent')
    BY <1>1, <1>3, <1>4, CommitBallots
  <1>6. inst' = [inst EXCEPT ![n] = r.inst]
    BY <1>4 DEF Commit
  <1>7. BallotUnused(n)
    <2> DEFINE t == r.inst
    <2>1. t \in Instances /\ t.proposer.ballot \in Nat /\ s.proposer.ballot \in Nat
      BY <1>1, <1>3, InstanceBallots
      DEF Speaks, ChainFrom, GoodChain, GoodResult, GoodInstance
    <2>2. inst'[n] = t /\ Owner(t.proposer.ballot) = n
      BY <1>1, <1>2, <1>3, <1>6 DEF Speaks, Accounts
    <2>3. Advances(s, t) /\ Accounts(n, s, sent)
      BY <1>1, <1>3 DEF Speaks, BallotInv
    <2>4. CASE t.proposer.state # "Proposal"
               \/ t.proposer.ballot = s.proposer.ballot
      BY <2>2, <2>4 DEF BallotUnused
    <2>5. CASE t.proposer.state = "Proposal"
               /\ t.proposer.ballot # s.proposer.ballot
      <3> HIDE DEF t, s
      <3>1. Active(s) /\ t.proposer.ballot > s.proposer.ballot
        BY <2>1, <2>3, <2>5 DEF Advances, Active
      <3>2. \A m \in Asked(n, sent) : m.ballot < t.proposer.ballot
        <4> SUFFICES ASSUME NEW m \in Asked(n, sent)
                     PROVE  m.ballot < t.proposer.ballot
          OBVIOUS
        <4>1. m.ballot \in Nat /\ m.ballot <= s.proposer.ballot
          BY <1>2, <2>3, <3>1, AskedBallots DEF Accounts
        <4> QED BY <2>1, <3>1, <4>1
      <3> QED BY <1>1, <2>2, <3>2, AboveOwnIsUnused
    <2> QED BY <2>4, <2>5
  <1>8. \A k \in Nodes : BallotUnused(k)
    BY <1>2, <1>6, <1>7, StutterUnused
  <1> QED BY <1>5, <1>8

\* A restarted proposer is inactive: what it asked for before, its acceptor
\* still holds, and that is all a new proposal needs.
LEMMA RestartBallots ==
    ASSUME BallotInv, NEW n \in Nodes, NEW disk \in Disks,
           RestartFrom(n, disk), \A k \in Nodes : InstanceKept(k)
    PROVE  /\ \A k \in Nodes : Accounts(k, inst'[k], sent')
           /\ \A k \in Nodes : BallotUnused(k)
  <1> DEFINE t == Restored(n, disk)
  <1>1. inst \in [Nodes -> Instances] /\ sent \subseteq Messages
    BY DEF BallotInv, DurabilityInv, TypeInv, TypeOK
  <1>2. inst' = [inst EXCEPT ![n] = t] /\ sent' = sent
    BY DEF RestartFrom
  <1>3. t.proposer = FreshProposer(n) /\ t \in Instances
    BY RestoredGood DEF Restored, FreshInstance, GoodInstance
  <1>4. /\ t.proposer.state = "Initial" /\ t.proposer.ballot = n
        /\ Owner(n) = n
    BY <1>3, FirstBallot DEF FreshProposer
  <1> HIDE DEF t
  <1>5. inst'[n] = t
    BY <1>1, <1>2
  <1>6. Accounts(n, t, sent)
    <2>1. inst[n] \in Instances /\ Accounts(n, inst[n], sent)
      BY <1>1 DEF BallotInv
    <2>2. Advances(inst[n], t)
      BY <1>4 DEF Advances, Active
    <2>3. t.acceptor.max_ballot >= inst[n].acceptor.max_ballot
      BY <1>5 DEF InstanceKept, Keeps
    <2> QED BY <1>1, <1>3, <1>4, <2>1, <2>2, <2>3, AccountsKept
  <1>7. \A k \in Nodes : Accounts(k, inst'[k], sent')
    BY <1>1, <1>2, <1>5, <1>6 DEF BallotInv
  <1>8. BallotUnused(n)
    BY <1>4, <1>5 DEF BallotUnused
  <1>9. \A k \in Nodes : BallotUnused(k)
    BY <1>1, <1>2, <1>8, StutterUnused
  <1> QED BY <1>7, <1>9

LEMMA InitBallots == Init => BallotInv
  <1> SUFFICES ASSUME Init PROVE BallotInv
    OBVIOUS
  <1>1. \A n \in Nodes : Asked(n, sent) = {}
    BY DEF Init, Asked
  <1>2. \A n \in Nodes : inst[n].proposer.ballot = n
    BY DEF Init, FreshInstance, FreshProposer
  <1> QED BY <1>1, <1>2, InitDurable, FirstBallot DEF BallotInv, Accounts

LEMMA StepBallots ==
    BallotInv /\ [Next]_vars => BallotInv' /\ \A n \in Nodes : BallotUnused(n)
  <1> SUFFICES ASSUME BallotInv, [Next]_vars
               PROVE  /\ \A k \in Nodes : Accounts(k, inst'[k], sent')
                      /\ \A k \in Nodes : BallotUnused(k)
    BY StepKeeps DEF BallotInv
  <1>1. \A k \in Nodes : InstanceKept(k)
    BY StepKeeps DEF BallotInv
  <1>2. ASSUME NEW n \in Nodes, NEW c \in Commands, Propose(n, c)
        PROVE  /\ \A k \in Nodes : Accounts(k, inst'[k], sent')
               /\ \A k \in Nodes : BallotUnused(k)
    BY <1>2, ProposeBallots
  <1>3. ASSUME NEW e \in BagToSet(net), Receive(e)
        PROVE  /\ \A k \in Nodes : Accounts(k, inst'[k], sent')
               /\ \A k \in Nodes : BallotUnused(k)
    BY <1>3, ReceiveBallots
  <1>4. ASSUME NEW n \in Nodes, Restart(n)
        PROVE  /\ \A k \in Nodes : Accounts(k, inst'[k], sent')
               /\ \A k \in Nodes : BallotUnused(k)
    <2>1. inst[n].disk \in Disks
      BY DEF BallotInv, DurabilityInv, TypeInv, TypeOK, Instances
    <2> QED BY <1>1, <1>4, <2>1, RestartBallots DEF Restart
  <1>5. ASSUME NEW e \in BagToSet(net), CrashInSaveAccept(e)
        PROVE  /\ \A k \in Nodes : Accounts(k, inst'[k], sent')
               /\ \A k \in Nodes : BallotUnused(k)
    <2> DEFINE before == inst[e.to].disk
               after == Deliver(e.to, inst[e.to], e.msg).inst.disk
    <2>1. e.to \in Nodes /\ before \in Disks /\ after \in Disks
      BY ReceivedType
      DEF BallotInv, DurabilityInv, GoodChain, GoodResult, GoodInstance,
          Instances
    <2>2. RestartFrom(e.to, Torn(before, after))
      BY <1>5 DEF CrashInSaveAccept
    <2> QED BY <1>1, <2>1, <2>2, TornType, RestartBallots
  <1>6. CASE UNCHANGED vars
    <2>1. inst' = inst /\ sent' = sent
      BY <1>6 DEF vars
    <2> QED BY <2>1, StutterUnused DEF BallotInv
  <1> QED BY <1>2, <1>3, <1>4, <1>5, <1>6 DEF Next

LEMMA BallotsAccountedFor == Spec => []BallotInv
  <1>1. BallotInv /\ [Next]_vars => BallotInv'
    BY StepBallots
  <1> QED BY <1>1, InitBallots, PTL DEF Spec

\* A4 of acceptor.rs, for every cluster: whatever proposers duel, retry after
\* nacks, stop and restart, two Accept requests of one ballot are the same
\* request, so a ballot never carries two commands.
THEOREM BallotsUnambiguous == Spec => []OneCommandPerBallot
  <1>1. BallotInv => OneCommandPerBallot
    <2> SUFFICES ASSUME BallotInv, NEW m \in sent, NEW k \in sent,
                        m.type = "Accept", k.type = "Accept",
                        m.ballot = k.ballot
                 PROVE  m = k
      BY DEF OneCommandPerBallot
    <2>1. m.sender \in Nodes /\ k.sender \in Nodes
      BY DEF BallotInv, DurabilityInv, TypeInv, TypeOK, Messages
    <2>2. m \in Asked(m.sender, sent) /\ k \in Asked(k.sender, sent)
      BY DEF Asked
    <2>3. Owner(m.ballot) = m.sender /\ Owner(k.ballot) = k.sender
      BY <2>1, <2>2 DEF BallotInv, Accounts
    <2> QED BY <2>1, <2>2, <2>3 DEF BallotInv, Accounts
  <1> QED BY <1>1, BallotsAccountedFor, PTL

\* new_prepare never returns to a ballot that was prepared before, by this node
\* or another, although a node forgets its proposer's ballot when it restarts
\* (MultiPaxosNode::propose, Proposer::new_prepare, restore_acceptor).
THEOREM BallotsFresh == Spec => BallotsNeverReused
  <1>1. BallotInv /\ [Next]_vars =>
          [\A n \in Nodes :
             LET p == inst'[n].proposer
             IN  (p.state = "Proposal" /\ p.ballot # inst[n].proposer.ballot) =>
                     \A m \in sent : m.type = "Prepare" => m.ballot # p.ballot]_vars
    BY StepBallots DEF BallotUnused
  <1> QED BY <1>1, BallotsAccountedFor, PTL DEF Spec, BallotsNeverReused

-----------------------------------------------------------------------------
(* Self-delivery.                                                           *)

\* The loop of self_deliver never keeps the algorithm's lock for ever: whatever
\* message is received next, the chain it sets off has ended after five rounds,
\* whatever the cluster's size and the ballots already seen.
THEOREM CascadeEnds == Spec => []CascadeDrains
  <1>1. Spec => []TypeInv
    BY InitType, StepType, PTL DEF Spec
  <1>2. TypeInv => CascadeDrains
    <2> SUFFICES ASSUME TypeInv, NEW e \in BagToSet(net)
                 PROVE  Deliver(e.to, inst[e.to], e.msg).resp = NoMessage
      BY DEF CascadeDrains
    <2>1. e.to \in Nodes /\ e.msg \in Messages /\ GoodInstance(inst[e.to])
      BY ReceivedType
    <2> QED BY <2>1, DeliverEnds
  <1> QED BY <1>1, <1>2, PTL
=============================================================================
