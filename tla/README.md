# A verification of SMR's Multi-Paxos

TLA+ modules of the replicated log of this repository: what one Paxos instance
does on every node, how a node runs many instances with a leader, what one
node's runtime applies, records and answers around stops and restarts, and how
the nodes are connected. TLC checks the modules on small instances; TLAPS proves
twenty-five theorems for every value of the constants. Source paths below are
relative to `src/`.

## The system

| part | state | operations | source |
|---|---|---|---|
| Acceptor | highest ballot, last acceptance | `handle_prepare`, `handle_accept` | `src/multipaxos/synod/acceptor.rs` |
| Proposer | Initial / Proposal / Accepting / Learning, ballot, counters, value | `new_prepare`, `new_accept`, `handle_promise`, `handle_ack_accept`, nacks | `synod/proposer.rs` |
| Learner | value, voters, votes by command, ballot | `handle_learn` | `synod/learner.rs` |
| PaxosInstance | the three above, per log entry | `handle_message`, `restore_acceptor` | `synod/mod.rs` |
| MultiPaxosNode | the instances, `next_instance_id`, leadership, waiting clients | `propose`, `handle_message`, `self_deliver`, `get_commit_id`, `with_storage` | `multipaxos/mod.rs` |
| PaxosStorage | two keys per instance | `save_promise`, `save_accept`, `load_*` | `multipaxos/storage.rs` |
| CommandLog | the applied commands, `last_applied` | `append`, `set_last_applied`, `replay` | `multipaxos/storage.rs` |
| SmrRuntime | the node behind a lock, the state machine, an outbox | `propose`, the background task | `lib.rs` |
| TcpChannel | a map of connections, one reader task each | `send` (broadcast), `receive` | `channel.rs` |

**How they interact.** A client calls `SmrRuntime::propose`, which locks the
node, calls `MultiPaxosNode::propose` and queues the messages that returns. The
background task takes one message at a time from the network: it locks the
node, calls `handle_message`, broadcasts the answers, applies what has been
learned in order, and answers the clients whose instances were applied. It also
takes messages from the outbox and broadcasts them. Whatever a node says is
delivered to the node itself at once (`self_deliver`), and what that sets off
too, before the lock is released. A node that follows a leader forwards its
clients' commands to all; the leader proposes them and tells all which instance
each forward id went to.

**What is hard in it.** Proposers that duel in one instance; messages that
arrive late, out of order or never; nacks that carry no ballot; a leader that
skips phase 1; two nodes that both believe they lead; instances learned out of
order; a stop between two writes to storage; clients that wait for an instance
number rather than for a command. `PROJECT.json` lists each of these at its
line, with the properties that watch it.

**What makes each part correct.**
- *Acceptor and storage*: neither a promise nor an acceptance is ever taken back.
- *Proposer*: never two commands under one ballot, never one ballot twice, and a
  value that may already be chosen is kept.
- *Learner*: learns only what a majority accepted.
- *One instance*: it is an implementation of consensus.
- *MultiPaxosNode*: a leader's ballot was won; no instance is opened twice; what
  is applied was chosen there.
- *Runtime*: the same log everywhere; a client is told what became of its own
  command, and can rely on it after a restart; no call hangs.
- *Command log*: it has no gap, and is replayed in the order in which it was applied.
- *TcpChannel*: a message arrives at most once; one connection joins two nodes,
  and comes back when it is lost.

## The modules

| module | models | extends |
|---|---|---|
| `Consensus` | what one instance promises: one chosen command, learned or not | |
| `PaxosInstance` | one instance on one node, as pure operators | |
| `Synod` | one instance on all nodes, with network, crashes and storage | `PaxosInstance` |
| `MCSynod` | the view of `Synod` for TLC | `Synod` |
| `MultiPaxos` | the whole node and the apply loop, many instances | `PaxosInstance` |
| `DurableLog` | what a node with storage promises: a log that only grows, one answer per entry | |
| `Runtime` | clients, lock, outbox, background task and command log of one node | |
| `Network` | what `Synod` and `MultiPaxos` assume: delivery at most once | |
| `TcpChannel` | connections, reader tasks, send and receive on all nodes | |
| `MCMultiPaxos` | the clients' calls and the view for TLC | `MultiPaxos` |
| `InstanceProofs` | lemmas about the handlers of `PaxosInstance`, chains of answers, quorums, bags | `PaxosInstance`, `TLAPS` |
| `NaturalLemmas` | least elements and induction on sets of naturals | `TLAPS` |
| `SynodProofs` | theorems about `Synod`: types, what acceptors keep, ballots, `self_deliver` ends | `Synod`, `InstanceProofs` |
| `SynodVotes` | lemmas about `Synod`: what promises, votes and counts mean | `SynodProofs` |
| `SynodSafety` | theorems about `Synod`: its safety, and that it implements `Consensus` | `SynodVotes` |
| `MultiPaxosProofs` | theorems about `MultiPaxos`: types, what acceptors keep, ballots, leadership, what is applied | `MultiPaxos`, `InstanceProofs`, `NaturalLemmas` |
| `RuntimeProofs` | theorems about `Runtime`: types, keys, log, answers, and that it implements `DurableLog` | `Runtime`, `NaturalLemmas` |
| `TcpProofs` | theorems about `TcpChannel`: types, connections, and that it implements `Network` | `TcpChannel`, `TLAPS` |

`Synod` refines `Consensus`, `Runtime` refines `DurableLog`, and `TcpChannel`
refines `Network`, which is what connects the layers: `Synod` and `MultiPaxos`
receive each envelope at most once and in any order, as `Network` says;
`Runtime` takes from the layer below that an instance, once learned, always
holds the same command.

### PaxosInstance

A record `[acceptor, proposer, learner, disk]`; the first three are the Rust
structs, `disk` is what the node has written under the instance's two keys. A
handler is an operator from a node, an instance and a message to `[inst, resp]`,
as the Rust methods are from `&mut self` and a message to `Option<MessageKind>`.
`Deliver` is `handle_message` followed by `self_deliver`, and returns all that
was said in `out`.

Points where the model had to choose:
- *Ballot 0* stands for an absent acceptance. `new_prepare` never gives a ballot
  below `N`, so no acceptance has it.
- *`best`* replaces the vector of proposals: `max_by_key` picks the last of the
  greatest, and so does `Higher` as promises come in. A field that the present
  state of the proposer does not have holds its initial value.
- *`self_deliver`* is a loop in the code; `SelfDeliver` unrolls five rounds.
  `CascadeDrains` says that no chain of answers is longer.
- *Storage* is written inside the handler, before the answer leaves. The code
  keeps the lock meanwhile, and sends after the whole chain. No chain saves more
  than once: a node's own promise or acknowledgement alone is never a quorum. So
  a stop before the save is loss of the message received, and one after it is
  loss of every message the chain says; `Restart` follows either. The one stop
  that can be told apart is between the two puts of `save_accept`: `Torn`.
- *Ballots* are naturals; the wrap of `u32` is not modelled.

### Synod

Variables: `inst` and `opened` (the entry of `paxos_instances`), `net` (a bag),
`sent` (history), `crashes`.
- `Propose`: `MultiPaxosNode::propose` without a leader ballot. It runs in an
  instance the node has not opened, because `next_instance_id` is past those.
- `Receive`: `handle_message` of one message, with all it sets off.
- `Restart`: a stop between two messages, then `with_storage`.
- `CrashInSaveAccept`: a stop between the two puts, then `with_storage`.

The network reorders freely. A message that is never received was lost, so loss
needs no action, and all safety runs cover it; nothing is received twice, since
a TCP connection does not repeat and the code does not retransmit. `Audience`
keeps from the bag the copies that no handler looks at: a `Promise` or
`AckAccept` is compared with the receiver's own ballot, which only the owner of
the ballot can have, and a nack is ignored by a proposer that never leaves
`Initial`. `MultiPaxos`, where receiving anything moves `next_instance_id`,
broadcasts everything.

### MultiPaxos

One variable per field of `MultiPaxosNode` (`forwarded_instances` is never read
by the code and is left out), the state machine's log `applied`, and histories.
- `Propose`: `propose`, either `Forward` to the known leader or `ProposeHere`,
  with the fast path of a leader in `FirstMessage`.
- `ReceivePaxos`: `handle_message` with its bookkeeping of leadership, then
  `ApplyLoop`, the `while let` of the background task.
- `ReceiveForward`, `DropForward`, `ReceiveForwardAck`: forwarding.
- `Restart`: `SmrRuntime::with_storage`. Here the state machine comes back as it
  was, by replay; how the log gets there is the subject of `Runtime`.

Each of these is one action because the code holds the algorithm's lock for all
of it: `background` from `handle_message` to the end of the apply loop,
`propose` until its messages are queued. What lies between (the outbox and the
sockets) is the bag. A client that gives up after its timeout changes nothing
in the node, so a node may have several calls outstanding.

### Runtime

One node, step by step. The other nodes are the environment: a message may have
any effect that `handle_message` can have here (`HearOf`, `ProposeForwarded`,
`MapForwarded`, `DropForwarded`), so what holds here holds with any peers. An
instance number stands for the command decided in it.

| state | code |
|---|---|
| `log`, `last_applied`, `acceptors` | the keys on disk; of the acceptors only how far `recover_all` finds them |
| `algorithm` | the tokio mutex: its holder, then its waiters in order |
| `next_instance_id`, `pending_senders`, `forwarded_senders`, `learned` | `MultiPaxosNode` |
| `call`, `calls` | the one `propose` under way, and how many there were |
| `task`, `sender`, `last_applied_command_id`, `state_machine` | the background task |
| `outbox` | the bounded channel between the two |
| `found`, `answered` | histories: the disk this life started from, and the instances whose clients were answered |

- A call is `Call` (waits for the lock), `ProposeHere`, `Forward` or
  `ProposeFails`, then one `Queue` per message with the lock still held, and ends
  by `Reply`, `Timeout`, `QueueFails` or a dropped sender (`ReturnIfDropped`).
- The background task is `TakeMessage` (waits for the lock), `HandleMessage`,
  and then per command `Commit` (`get_commit_id` and `append`), `Apply` or
  `ApplyFails`, `SetLastApplied`, `Reply`, until `CommitEnds` frees the lock; or
  `TakeOutbox` and `Send`, without it. `Panic` is the `unwrap` of `lib.rs:382`.
- `Crash` is possible between any two of these; `Recover` is `with_storage`,
  `RecoverFails` its `?` on `apply` in the replay.

Choices: `apply` is deterministic, so `refused`, the commands it returns an error
for, is drawn once. An append that stops halfway is either on disk or not.
`SmrRuntime` is used by `&mut self`, so one call is under way at a time, but what
a call that timed out has left in `pending_senders` stays. A timeout may come at
any time.

Behaviour that the model has and a reader may not expect:
- A stop between `append` and `set_last_applied` (`lib.rs:391-398`) leaves a
  command in the log that is not counted. The replay applies it, and the apply
  loop applies it again when the instance is learned again. `AppliedInOrder`
  allows this for that command only (in the log, and next after the
  `last_applied` that the life started from, which `found` remembers), once, and
  right after the replay; `Times(i) <= 1` would be violated, and so is
  `AppliedInOrder` by a loop that repeats a command without a stop.
- A command that `apply` refuses is in the log all the same. The next start
  replays it and stops at the `?` of `lib.rs:214`: the node never starts again.
- After a restart `next_instance_id` comes from the acceptors and may be below
  `last_applied`, so a client may be given an instance that was applied long ago;
  it gets its timeout. So does one whose `ForwardAck` comes after its instance
  was applied.
- A restarted node has learned nothing. It goes on applying only as far as the
  others still repeat their `Learn`s; nothing in the code lets it catch up.

### TcpChannel

All nodes. A connection is a record of its two ends, each with a writer (in the
map or dropped), a reader task, and the messages written and not yet read.
- `Start`: `TcpChannel::start`. `Connect`, `Refused`, `Retry`, `Greet`, `Enter`:
  the dialing task, where `Greet` and `Enter` are the two halves of `send_id`.
- `Identify`, `Abandon`: `handle_connection`, in any order among connections.
  `Inserted` is the map's `insert` in both: it drops the writer that was there.
- `Deliver`, `ReadFails`, `ReceiverDropped`: the three ways a turn of
  `start_reading` ends. `ReadFails` is the panic of `channel.rs:236`, which takes
  the dialing loop with it; only `ReceiverDropped` comes back to it.
- `Send`, `Write`, `SendEnds`, `Receive`: the background task's calls. `send`
  holds the map's lock for all its writes, and writes in any order.
- `Die`: the background task panics and its process goes on. `Stop`: the process
  ends and its sockets are closed.

Choices: a message is read whole or not at all; what was written to a peer that
has closed is lost, with or without an error. Peers that do not answer while
they run (a cut cable) are not modelled: the code has no timeout on a
connection, and would notice nothing.

Behaviour that the model has and a reader may not expect:
- A reader puts what it reads into a receiver of 100 messages, and waits when it
  is full. If nobody empties it (nodes that all write at once, or a node whose
  background task hangs), the sockets fill up and the peers' `write_all` waits,
  at `lib.rs:385` with the algorithm locked.
- When a node's background task has died, its end of a connection it had accepted
  keeps the writer and reads no more: the connection stays open, and the peer's
  writes wait once the sockets are full.
- `handle_connection` does not compare a connection's age with the one in the map.
  The task of a connection from the peer's former life may insert its writer last
  and drop the live one; the dialer's reader then panics as in `reconnect`. The
  properties hold in spite of this, and none of them excludes it.
- `channel.rs:10` has the highest node dial the lowest; the code
  (`channel.rs:158`) does not, and need not: every pair is already joined.

## What TLC checks

| run | instance | shows |
|---|---|---|
| `duel` | 3 nodes, 2 propose, ballots to 6 | `Agreement`, `ChosenProtected` (A5), `OneCommandPerBallot` (A4), `CountsAreAcceptors`, `CascadeDrains`, and that `Synod` implements `Consensus` |
| `crash` | the same, ballots to 4, 1 stop | `LearnedIsChosen`, `AcceptorNeverForgets`, `BallotsNeverReused` |
| `live` | 3 nodes, 1 proposes, fair | `EveryNodeLearns` |
| `rivals` | 3 nodes, 2 calls, 2 instances, ballots to 6 | `LeaderHasWon`, `OneCommandPerBallot`, `AppliedIsChosen` |
| `restart` | 3 nodes, 2 calls, 1 instance, 1 stop | `AcceptorNeverForgets` of the whole node |
| `node` | 1 node, 2 calls, 2 instances, 2 stops, 1 storage error, fair | `RecoverySkipsNothing`, `AnsweredSurvives`, `AppliedInOrder`, `KeysInOrder`, `CallsReturn`, and that `Runtime` implements `DurableLog` |
| `links` | 2 nodes, 3 connections, 2 messages, 2 stops, 1 panic, fair | `OneConnection`, `AllConnect`, `AllReceive`, and that `TcpChannel` implements `Network` |

**Bounds.** Node `n` of three has ballots `3k + n`, so `MaxBallot` 6 lets node 0
prepare (3), lose to node 1 (4), and prepare again over it (6): the smallest
duel in which a value must be carried over twice. 4 lets both prepare once,
which together with a crash already has each node learn from a state that half
of the votes were lost. Chains of answers to oneself are longest in a cluster of
two, where a node's own nack is enough for a retry; `CascadeDrains` is proved for
every size. `MaxCrashes` 1 is enough for a majority that no longer remembers, were
a promise not on disk. Two instances are enough for an instance learned out of
order, a leader's ballot used elsewhere, and a forwarded command. `rivals` has no
restart: that what is applied stays chosen around restarts is the theorem
`AppliedAreChosen` only.

In `node`, two instances and two stops let a command be logged and not counted,
and the life after that stop again in the same place; a second call meets what
the first has left behind. Four messages are what two calls queue at most, so
the outbox is never full, and `stuck` shows what happens when it is. Keys have
two digits to the base 3: two instances are within one digit, but `KeysInOrder`
ranges over all nine keys, where the padding matters. In `links`, links of
different pairs of nodes meet only in one node's map, send loop and receiver;
two nodes have all the races of one link. Three connections let a link be
replaced twice. Sockets and receivers of one message make writers and readers
wait.

**Views.** The views of `MCSynod` and `MCMultiPaxos` leave out of the state the
envelopes that can change nothing any more (a `Promise` for a ballot that its
owner has left, a nack to a node that may not retry within the bound, a `Learn`
to a learner that has learned and will not restart), and the nacks counted by a
proposer that the bound keeps from preparing again. Each such envelope's receipt
is a stutter up to other such envelopes, so states with one view have the same
futures. `duel` with ballots to 4 was also checked without a view (3.7 million
states). There is no symmetry: ballots are computed from node numbers.

**Deadlock.** The runs stop at their bounds, so deadlock is not checked.

**Fairness.** `FairSpec` asks that every node's background task goes on receiving
and that its client does propose: tokio runs a task that is ready, and TCP
delivers while a connection is up. The code does not guarantee that a connection
stays up, and does not retransmit, so liveness is claimed for a cluster without
failures only; and with one proposer, since the code has nothing against two
that refuse each other for ever.

In `Runtime`, a task that may run does run (weak fairness of each task's steps,
with the lock handed over in order, as tokio's mutex does), and the background
task does not pass over the outbox for ever (strong fairness of `TakeOutbox`:
`select!` picks at random among the branches that are ready). That a socket takes
what is written to it is weak fairness of `Send`. Nobody has to call, no message
has to arrive, and nothing has to fail. In `TcpChannel`, a process that is down
is started and every task of it runs; nobody has to send, stop or die. `AllConnect` and
`AllReceive` are claimed as long as nothing stops or dies, since `reconnect`
shows that they fail afterwards; `AllReceive` in addition only for what was sent
when all peers were in the map.

## Where code and documents disagree

Five runs expect a violation. Each states what the repository says of itself.
- `order`, `SameOrder`: a leader skips phase 1 in a new instance, under the ballot
  it won in another, although a different command may already be chosen there
  (so assumption A5 of `acceptor.rs` does not hold), and two nodes apply different
  commands at one place of the log ("the same commands are applied in the same
  order on every node", `README.md`). `FastPathSchedule` is a constraint that
  leads the search along one schedule; the run does not depend on it to be a
  behaviour of the model.
- `forward`, `AckReachesForwarder`: forward ids are unique on a node, not in the
  cluster, and a `ForwardAck` does not say whose id it acknowledges.
- `reply`, `RepliesMatch`: a client whose command lost its instance to another
  is answered with the other command's result, and its own is not proposed again.
- `stuck`, `CallsReturn`: `propose` waits for room in the outbox while it holds
  the algorithm's lock, and the background task, the only reader of the outbox,
  waits for that lock with a message in its hand. The proposal's timeout starts
  only after that, so the call never returns ("How long to wait for a proposal to
  commit before returning an error", `lib.rs:90`), nor does the node do anything
  else. In the code it takes 100 messages in the outbox.
- `reconnect`, `Restored`: the reader that finds its connection closed panics, and
  the loop that should connect again is part of the same task. A node that
  restarts is never dialed again by the nodes below it, as long as these run
  ("Continues retrying until the connection is restored", `channel.rs:18`).

`Synod`, where every proposal goes through phase 1, keeps `ChosenProtected` and
`Agreement`: the cause of `order` is the fast path and nothing below it.

## What is proved

The theorems hold for every value of the constants that the assumptions of the
modules allow. An invariant of a run is seldom inductive; what had to be added
to each, and why, is the subject of this section.

### Synod

From `NAssumption` (at least two nodes, which the assertion in
`PaxosInstance::new` enforces), `NoneAssumption` and the assumptions on the
bounds, for every `N`, `Commands`, `Proposers`, `MaxBallot` and `MaxCrashes`:

- `TypeCorrect`: `Spec => []TypeOK`. The type alone is not inductive: that a
  proposer puts a command, and not `None`, in its `Accept` and `Learn` needs
  `HasValue` (a proposer in Proposal or Accepting has a command). `TypeInv` adds
  it. A lemma for each handler says that it keeps a good instance good; `Echo`
  and `SelfDeliver` carry that through a chain of self-deliveries.
- `AcceptorsDurable`: `Spec => AcceptorNeverForgets`. The inductive invariant
  `DurabilityInv` says that the acceptor of a node and its disk agree on both
  ballots, that what is accepted is not above what is promised, and that an
  instance that is not open has nothing on disk. The last conjunct is what makes
  the `insert` of `propose` harmless, the second what makes a half-saved
  acceptance harmless.
- `BallotsUnambiguous`: `Spec => []OneCommandPerBallot`, and `BallotsFresh`:
  `Spec => BallotsNeverReused`. A proposer's ballot is not on disk, so a
  restarted node could prepare an old one again. What prevents it is its own
  acceptor: a node handles its request itself before the request is sent, and
  the acceptor's ballot is on disk by then. `BallotInv` says so: every ballot a
  node has asked for is its own (`Owner`), is not above its acceptor's ballot,
  and while the proposer is active not above the proposer's; in state Proposal
  it has not asked for acceptance at its present ballot. A request that is not
  self-delivered yet is no part of this, which is why a chain carries `Pending`
  along. `Advances` sums up what a handler may do to a proposer: go to a higher
  ballot, go on in its present one, or stop. A new proposal finds no disk state
  (`DurabilityInv`), hence no former request, and starts above zero.
- `CascadeEnds`: `Spec => []CascadeDrains`. `Ends0` to `Ends5` say of a chain of
  answers that it is over after so many rounds. A `Learn` to oneself is answered
  by nothing; an `AckAccept` by at most a `Learn`; a `Prepare` above the acceptor's
  ballot by a `Promise`, which leads no further, because a new round starts with
  no promises and one is not a majority of two or more nodes. A node's own nack
  can make it retry, and `RetryGoesAbove` says with a ballot above the one that
  refused it: its acceptor does not refuse again. The invariant is `TypeInv`.
- `CountsAreTrue`, `ChosenIsProtected`, `LearnersTrue` and `LearnersAgree`:
  `Spec => []CountsAreAcceptors`, `[]ChosenProtected`, `[]LearnedIsChosen` and
  `[]Agreement`, and `InstanceImplementsConsensus`: `Spec => ImplementsConsensus`.
  `SafetyInv` holds for all of them. A step of `Synod` is a whole chain of
  answers, so the invariant must hold between two of its links as well: its parts
  are operators of the instances `I`, the messages said `T` and the envelopes not
  yet received `F`, and the answer a node has yet to give itself counts as one
  more envelope. The parts are:
  - `VoteInv`: an acceptor's state follows from what it has said
    (`AcceptorVotes`); a `Promise` tells truly the last acceptance below its
    ballot (`PromiseTrue`); an `Accept` asks for a command that is safe at its
    ballot (`RequestTrue`). `SafeAt(I, T, b, c)` is Paxos's condition: for every
    ballot below `b` there is a quorum whose members have either accepted `c` in
    it or will never accept in it.
  - `CountInv`: a proposer's counters count messages of its present ballot which
    it has received, from distinct senders, and a learner's votes count learners
    that know of a decision. The senders are distinct because an acceptor answers
    a ballot once and an envelope is received once: `Heard` is said and not in `F`.
    The code's counters know no senders (`promises += 1`), so this is what the
    counting rests on, and what a network that repeats would break.
  - `NetInv`: the bag holds each envelope at most once.

  `PromisedVotes` and `QuorumSafe` are the step at which a quorum of promises makes
  the command of the highest one safe, `DecidedOnce` the one at which two quorums
  meet. The refinement maps `chosen` to the commands a quorum has accepted in one
  ballot and `learned` to the learners' values; that a learner changes its value
  only where the abstract `Learn` allows is `HandleLearns` and, for the chain,
  `SelfDeliverLearns`.

### MultiPaxos

From `NAssumption`, `NoneAssumption`, `RequestsAssumption` (the client calls of a
behaviour are finitely many; each uses a forward id at most once) and
`BoundsAssumption` (there is an instance to propose in), for every `N`,
`Commands`, `Requests`, `NumInstances`, `MaxBallot` and `MaxCrashes`. The lemmas
about handlers and chains are those of `InstanceProofs`, which `Synod` uses too.

- `TypesHold`: `Spec => []TypeOK`, which includes that a proposer that prepares or
  proposes has a command (`HasValue`) and that nobody applies more commands than
  there are instances. `TypeInv` adds that a node has used no more forward ids
  than calls were made, since a forward id indexes a function.
- `AcceptorsDurable`: `Spec => AcceptorNeverForgets`. `propose` inserts a fresh
  instance over whatever is in the map. `DurabilityInv` says why that overwrites
  nothing: from `next_instance_id` on, no acceptor has anything on disk
  (`BlankAhead`), and an acceptor in memory is what is on disk. A restart sets
  `next_instance_id` behind the last instance on disk (`PastPersistedFacts`), so
  both hold again.
- `OneCommand`: `Spec => []OneCommandPerBallot`. `BallotInv` is `Accounts`, the
  bookkeeping of ballots of `Synod`, for each instance by itself, and that the
  ballot of a leader is one of its own (`LeadsByItself`). The fast path skips the
  ballot order of the instance; what keeps its ballot from having been used there
  is that the instance is blank, and that a node asks nobody before itself: what
  it has asked for there is not above its acceptor's ballot, which is 0, and the
  ballot of a request is above 0.
- `LeadersHaveWon`: `Spec => []LeaderHasWon`, and `AppliedAreChosen`:
  `Spec => []AppliedIsChosen`. What a leader or a learner relies on is a count of
  acknowledgements that knows no senders. `Safe(I, T, F)` says of one instance of
  the log, on all nodes (`I`), with what was said in it (`T`) and what is on its
  way (`F`), the node's answer to itself included, that counted acknowledgements
  were sent by different acceptors and have arrived (`ProposerCounts`), that an
  acceptor acknowledges a request once (`MailTrue`), and that a `Learn` and a
  learner's value are decided. `AnswerSafe` is the one step in which a node
  changes its instance and answers; a proposal, every handler and a restart are
  uses of it, and `EchoSafe` repeats it along a chain. `NetInv` keeps an
  acknowledgement from being on its way twice. `WonSomewhere` and `AppliedDecided`
  then follow leadership and the apply loop: a win is a decision in the instance
  it happened in (`RoundDecides`), and decisions outlive everything
  (`MajorityStable`).

  Nothing in these two says that a chosen command is the only one. So they hold
  although `SameOrder` does not: in one instance two commands may be chosen, and
  each state machine applies one that was.

### Runtime

From `RuntimeAssumption`, for every number of instances, calls, stops and errors,
every capacity, every width of keys and whatever `apply` refuses:

- `NothingSkipped`: `Spec => []RecoverySkipsNothing`, and `AnswersDurable`:
  `Spec => []AnswersRecorded`, the part of `AnsweredSurvives` that is about the
  disk and the apply loop. Neither says where the loop stands, so neither is
  inductive. `Inv` adds that the log holds every instance the loop has passed, in
  this life or before (`LogInv`), that `last_applied` is never ahead of the loop
  but between `SetLastApplied` and `Reply` (`FollowInv`), and that an answered
  instance is below both (`AnswersInv`). A stop keeps the disk and puts the loop
  back to `last_applied`, where `LogInv` holds by the first conjunct.
- `KeysSorted`: `Spec => []KeysInOrder`, that padded keys sort as the numbers they
  stand for. `Power` is a recursive function, and the library's rule for defining
  one over the naturals takes an operator; `Tables` gets round it by building its
  finite approximations one from the other. The same way (well-founded inclusion
  of finite sets) the existence of the sequence that `Replay` chooses is proved:
  the logged instances in ascending order, each once.
- `TypesHold`: `Spec => []TypeOK`. `LockInv` says who may be in the mutex's queue
  when (its holder is in a step that needs it, and each task is in it at most
  once), `CallInv` how many messages a call has left to queue.
- `LoopInOrder`: `Spec => []AppliedInOrder`, and `AnswersSurvive`:
  `Spec => []AnsweredSurvives`. `LoopInv` says of the state machine that each entry
  follows its predecessor, but for refused ones (`InOrder`); that its last entry
  is the one the loop stands at (`ReachInv`, `BoundInv`); that the only command
  applied twice is the last of the replay, which was not recorded when this life
  began, and that nothing was applied between (`OnceInv`); that
  the log has at most one entry beyond those passed (`LeftoverInv`), which is why
  no more than one is repeated; and that what was answered has been applied
  (`AnswersApplied`).
- `NodeImplementsDurableLog`: `Spec => ImplementsDurableLog`, step by step from
  these.

### TcpChannel

From the assumptions on its constants, for every number of nodes, connections,
messages, stops and panics and every capacity of sockets and receivers:

- `TypesHold`: `Spec => []TypeOK`. `TypeInv` adds what ties the tasks to the
  connections they hold (`DialInv`, `TaskInv`) and the map to the connections
  entered in it (`EntryInv`).
- `ConnectionsAreSingle`: `Spec => []OneConnection`. A pair of nodes has many
  connections over time, and the acceptor's end of an old one may be open long
  after the dialer's end is closed. `ClosedInv` says that it is the dialer's end
  that orders them: while a task has yet to connect, all its former connections
  are closed at its end; once it has connected, all but the last are. With the
  lower node always dialing, two connections of one pair have the same dialer.
- `ChannelImplementsNetwork`: `Spec => ImplementsNetwork`. The mapping is the
  identity on `sent` and `received`; everything between is hidden. `MessageInv`
  follows a message there: it has one sender (`SentInv`), every place it is at was
  reached from that sender (`SourceInv`), on its way to a node it is at one place
  only, a pipe, the receiver or taken (`PlaceInv`), and the message being written
  is nowhere on its way to the nodes it has yet to be written to (`TodoInv`).
  Delivery at most once rests on that alone: the channel numbers nothing, so it
  must never write one message to a peer twice, also when the peer's connection
  is replaced while the send loop runs.

### Only model-checked

Liveness under fairness, which is out of the prover's reach: `EveryNodeLearns`,
`CallsReturn`, `AllConnect` and `AllReceive`. Every invariant, every action
property and every refinement that a passing run checks is a theorem. The five
claims that code and documents disagree on are refuted by TLC and not proved.

## Not modelled

- *Puts of the command log that fail*: `lib.rs:391` and `397` throw the results
  away, so a node with a full disk answers clients whose commands are in no log.
  `Runtime` lets these puts succeed.
- *A cancelled `propose`* (its future dropped while it queues messages), a
  listener that cannot bind, and a peer that is cut off without closing.
- *The width of ballots*: `u32`, and 2^32 retries are out of reach.
- `SharedMemoryChannel` (its own tests only), the wrappers of sled and RocksDB
  (their puts are on disk before they return, as the models assume), trace
  events, the parsing of the command line, and the examples.
- `SmrRuntime::new`, which has no storage at all, is covered as far as no node
  restarts.
- *Liveness of duelling proposers*, for which the code does nothing.

## Plan

1. Done: `PaxosInstance`, `Synod`, `Consensus`, `MultiPaxos`, `Runtime`,
   `DurableLog`, `TcpChannel`, `Network`, and the proofs of all of them.
2. `MultiPaxos` with a stable leader: liveness, and the abstract log it
   implements when only one node ever proposes.
3. Proofs about `MultiPaxos` without the fast path in an instance: agreement
   there, with the promises and the values of `SynodVotes` for each instance.
