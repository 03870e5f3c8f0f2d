-------------------------------- MODULE Runtime --------------------------------
(***************************************************************************)
(* SmrRuntime on one node: the clients' calls of propose, the background   *)
(* task, the lock on the algorithm that both take, the bounded outbox      *)
(* between them, the command log on disk, and restarts.                    *)
(*                                                                         *)
(* The other nodes are the environment.  A message from the network may    *)
(* have any effect handle_message can have here: an instance is learned or *)
(* only heard of, a forwarded call gets its instance, another node's       *)
(* command is proposed.  An instance stands for the command decided in it: *)
(* that this is always the same command is the business of Synod.          *)
(***************************************************************************)
EXTENDS Naturals, Sequences, FiniteSets

CONSTANTS
    NumInstances,       \* bound: instances 0 .. NumInstances - 1
    MaxCalls,           \* bound: how often a client calls propose
    MaxCrashes,         \* bound: how often the node stops
    MaxErrors,          \* bound: how often the acceptors' storage fails
    OutboxCapacity,     \* messages the outbox holds (100 in the code)
    KeyBase, KeyWidth,  \* keys of the log: 20 digits to the base 10 in the code
    Failing             \* instances whose command apply may refuse

Power[k \in Nat] == IF k = 0 THEN 1 ELSE KeyBase * Power[k - 1]

\* Every instance has a key of its own.
ASSUME RuntimeAssumption ==
    /\ NumInstances \in Nat /\ MaxCalls \in Nat
    /\ MaxCrashes \in Nat /\ MaxErrors \in Nat
    /\ OutboxCapacity \in Nat \ {0}
    /\ KeyBase \in Nat \ {0, 1} /\ KeyWidth \in Nat
    /\ NumInstances <= Power[KeyWidth]
    /\ Failing \subseteq Nat

VARIABLES
    log,                \* disk: the instances with a key log/...
    last_applied,       \* disk: meta/last_applied, 0 when absent
    acceptors,          \* disk: one past the last instance with an acceptor
    status,             \* of the process: up, down, or refused by with_storage
    refused,            \* the instances whose command apply does refuse
    algorithm,          \* the lock: who holds it, then who waits for it
    next_instance_id,
    learned,            \* the instances whose learner has a value
    pending_senders,    \* pending_senders[i]: the call that waits for i
    forwarded_senders,  \* the forwarded calls without an instance
    task,               \* where the background task is
    sender,             \* the call get_commit_id returned with the command
    last_applied_command_id,
    state_machine,      \* the instances applied since the process started
    outbox,             \* how many messages are in it
    call,               \* the call under way: where it is, what it has to queue
    calls,              \* how many calls were made; the last is under way
    answered,           \* history: the instances whose client got the output
    found,              \* history: the disk that the present life started from
    crashes, errors

disk == <<log, last_applied, acceptors>>
env == <<status, refused, found, crashes, errors>>
node == <<next_instance_id, learned, pending_senders, forwarded_senders>>
loop == <<sender, last_applied_command_id, state_machine>>
client == <<call, calls, answered>>
vars == <<disk, env, algorithm, node, task, loop, outbox, client>>

Ids == 0 .. NumInstances - 1
Calls == 1 .. MaxCalls
NoCall == 0     \* no sender, or one whose receiver is gone

Larger(a, b) == IF a > b THEN a ELSE b

Idle == [pc |-> "none", left |-> 0]

NewDisk == [log |-> {}, last_applied |-> 0]

-----------------------------------------------------------------------------
(* The command log.  scan_prefix returns the keys in byte order.            *)

Digit(i, k) == (i \div Power[KeyWidth - k]) % KeyBase

\* Mutant: log/{}: no zeros in front.
KeyUnpadded(i) ==
    LET zeros == {k \in 1 .. KeyWidth - 1 : \A j \in 1 .. k : Digit(i, j) = 0}
        skip  == Cardinality(zeros)
    IN  [k \in 1 .. KeyWidth - skip |-> Digit(i, k + skip)]

\* log/{:020}: the digits of i, padded with zeros to a fixed width.
Key(i) == [k \in 1 .. KeyWidth |-> Digit(i, k)]

BytesBefore(a, b) ==
    \E k \in 1 .. Len(b) :
        /\ \A j \in 1 .. k - 1 : j \in DOMAIN a /\ a[j] = b[j]
        /\ k \in DOMAIN a => a[k] < b[k]

KeyBefore(i, j) == BytesBefore(Key(i), Key(j))

Replay(ids) ==
    CHOOSE s \in [1 .. Cardinality(ids) -> ids] :
        \A p, q \in DOMAIN s : p < q => KeyBefore(s[p], s[q])

-----------------------------------------------------------------------------
Init ==
    /\ log = {} /\ last_applied = 0 /\ acceptors = 0
    /\ status = "up"
    /\ refused \in SUBSET Failing
    /\ algorithm = << >>
    /\ next_instance_id = 0
    /\ learned = {}
    /\ pending_senders = [i \in Ids |-> NoCall]
    /\ forwarded_senders = {}
    /\ task = "select"
    /\ sender = NoCall
    /\ last_applied_command_id = 0
    /\ state_machine = << >>
    /\ outbox = 0
    /\ call = Idle
    /\ calls = 0
    /\ answered = {}
    /\ found = NewDisk
    /\ crashes = 0 /\ errors = 0

-----------------------------------------------------------------------------
(* SmrRuntime::propose.  It needs the runtime for itself, so one call is    *)
(* under way at a time; what a call that gave up has left behind stays.     *)

Call ==
    /\ status = "up" /\ call.pc = "none" /\ calls < MaxCalls
    /\ calls' = calls + 1
    /\ call' = [pc |-> "lock", left |-> 0]
    /\ algorithm' = Append(algorithm, "propose")
    /\ UNCHANGED <<disk, env, node, task, loop, outbox, answered>>

Locked == call.pc = "lock" /\ Head(algorithm) = "propose"

\* Instance next_instance_id is opened, with c waiting for it; the answer of
\* the node's own acceptor is on disk before any message leaves.
Open(c) ==
    /\ next_instance_id \in Ids
    /\ pending_senders' = [pending_senders EXCEPT ![next_instance_id] = c]
    /\ next_instance_id' = next_instance_id + 1
    /\ acceptors' = Larger(acceptors, next_instance_id + 1)
    /\ UNCHANGED <<log, last_applied, learned, forwarded_senders>>

\* Two messages: the request, and the answer of the node's own acceptor.
ProposeHere ==
    /\ Locked
    /\ Open(calls)
    /\ call' = [pc |-> "queue", left |-> 2]
    /\ UNCHANGED <<env, algorithm, task, loop, outbox, calls, answered>>

Forward ==
    /\ Locked
    /\ forwarded_senders' = forwarded_senders \cup {calls}
    /\ call' = [pc |-> "queue", left |-> 1]
    /\ UNCHANGED <<disk, env, algorithm, next_instance_id, learned,
                   pending_senders, task, loop, outbox, calls, answered>>

\* The acceptors' storage fails, at the first put or after the ballot is on disk:
\* the call returns the error, and its instance stays open without a sender.
ProposeFails ==
    /\ Locked
    /\ next_instance_id \in Ids
    /\ errors < MaxErrors
    /\ errors' = errors + 1
    /\ next_instance_id' = next_instance_id + 1
    /\ acceptors' \in {acceptors, Larger(acceptors, next_instance_id + 1)}
    /\ algorithm' = Tail(algorithm)
    /\ call' = Idle
    /\ UNCHANGED <<log, last_applied, status, refused, found, crashes, learned,
                   pending_senders, forwarded_senders, task, loop, outbox,
                   calls, answered>>

\* outbox.send waits for room, with the algorithm locked.
Queue ==
    /\ call.pc = "queue"
    /\ task # "dead" /\ outbox < OutboxCapacity
    /\ outbox' = outbox + 1
    /\ IF call.left = 1
       THEN algorithm' = Tail(algorithm) /\ call' = [pc |-> "wait", left |-> 0]
       ELSE UNCHANGED algorithm /\ call' = [call EXCEPT !.left = @ - 1]
    /\ UNCHANGED <<disk, env, node, task, loop, calls, answered>>

\* outbox.send fails: the background task is gone.
QueueFails ==
    /\ call.pc = "queue"
    /\ task = "dead"
    /\ algorithm' = Tail(algorithm)
    /\ call' = Idle
    /\ UNCHANGED <<disk, env, node, task, loop, outbox, calls, answered>>

\* Mutant: the receiver is awaited without a timeout.
TimeoutNever == FALSE /\ UNCHANGED vars

\* The receiver is dropped; the sender stays where it is.
Timeout ==
    /\ call.pc = "wait"
    /\ call' = Idle
    /\ UNCHANGED <<disk, env, algorithm, node, task, loop, outbox, calls,
                   answered>>

-----------------------------------------------------------------------------
(* The background task.  select! takes a message from the network or from   *)
(* the outbox, whichever there is.                                          *)

TakeMessage ==
    /\ task = "select"
    /\ task' = "lock"
    /\ algorithm' = Append(algorithm, "background")
    /\ UNCHANGED <<disk, env, node, loop, outbox, client>>

\* A call whose sender is dropped returns with an error.
ReturnIfDropped ==
    call' = IF call.pc = "wait" /\ calls \notin forwarded_senders'
                 /\ \A i \in Ids : pending_senders'[i] # calls
            THEN Idle ELSE call

\* A message of instance i; the node's acceptor or learner may have changed.
HearOf(i) ==
    /\ next_instance_id' = Larger(next_instance_id, i + 1)
    /\ acceptors' \in {acceptors, Larger(acceptors, i + 1)}
    /\ learned' \in {learned, learned \cup {i}}
    /\ UNCHANGED <<log, last_applied, pending_senders, forwarded_senders, call>>

\* As leader: a command of another node, whose receiver is dropped at once.
ProposeForwarded == Open(NoCall) /\ ReturnIfDropped

\* ForwardAck: the sender of call c goes to instance i, applied or not.
MapForwarded(c, i) ==
    /\ forwarded_senders' = forwarded_senders \ {c}
    /\ pending_senders' = [pending_senders EXCEPT ![i] = c]
    /\ ReturnIfDropped
    /\ UNCHANGED <<disk, next_instance_id, learned>>

\* A forwarded command and no leader, or an acknowledgement for another node.
DropForwarded == UNCHANGED <<disk, node, call>>

\* The responses are written to the sockets before the loop goes on.
HandleMessage ==
    /\ task = "lock" /\ Head(algorithm) = "background"
    /\ task' = "commit"
    /\ \/ \E i \in Ids : HearOf(i)
       \/ ProposeForwarded
       \/ \E c \in forwarded_senders, i \in Ids : MapForwarded(c, i)
       \/ DropForwarded
    /\ UNCHANGED <<env, algorithm, loop, outbox, calls, answered>>

\* handle_message(msg).unwrap() when the acceptors' storage fails, on a message
\* of an instance or a forwarded command: the task is gone, and with it the
\* channel and the outbox's receiver; the process is not.
Panic ==
    /\ task = "lock" /\ Head(algorithm) = "background"
    /\ errors < MaxErrors
    /\ errors' = errors + 1
    /\ task' = "dead"
    /\ algorithm' = Tail(algorithm)
    /\ outbox' = 0
    /\ \E i \in Ids :
          /\ next_instance_id' = Larger(next_instance_id, i + 1)
          /\ acceptors' \in {acceptors, Larger(acceptors, i + 1)}
    /\ UNCHANGED <<log, last_applied, status, refused, found, crashes, learned,
                   pending_senders, forwarded_senders, loop, client>>

\* Mutant: the command is not appended to the log.
AppendNothing(i) == UNCHANGED log

\* Mutant: it is appended under the number of the next instance.
AppendUnderNext(i) == log' = log \cup {i + 1}

AppendLog(i) == log' = log \cup {i}

\* get_commit_id(last_applied) has a command, and the sender that goes with it;
\* the command is appended to the log.
Commit ==
    LET i == last_applied_command_id
    IN  /\ task = "commit"
        /\ i \in learned
        /\ task' = "apply"
        /\ sender' = pending_senders[i]
        /\ pending_senders' = [pending_senders EXCEPT ![i] = NoCall]
        /\ AppendLog(i)
        /\ UNCHANGED <<last_applied, acceptors, env, algorithm,
                       next_instance_id, learned, forwarded_senders,
                       last_applied_command_id, state_machine, outbox, client>>

\* Mutant: the lock is not released.
KeepLocked == algorithm

Release == Tail(algorithm)

\* The next instance is not learned: the task lets the lock go.
CommitEnds ==
    /\ task = "commit"
    /\ last_applied_command_id \notin learned
    /\ task' = "select"
    /\ algorithm' = Release
    /\ UNCHANGED <<disk, env, node, loop, outbox, client>>

Apply ==
    /\ task = "apply"
    /\ last_applied_command_id \notin refused
    /\ task' = "record"
    /\ state_machine' = Append(state_machine, last_applied_command_id)
    /\ UNCHANGED <<disk, env, algorithm, node, sender, last_applied_command_id,
                   outbox, client>>

\* apply returns an error: nothing is recorded, the sender is dropped, and the
\* loop goes on with the next instance.
ApplyFails ==
    /\ task = "apply"
    /\ last_applied_command_id \in refused
    /\ task' = "commit"
    /\ last_applied_command_id' = last_applied_command_id + 1
    /\ sender' = NoCall
    /\ call' = IF call.pc = "wait" /\ sender = calls THEN Idle ELSE call
    /\ UNCHANGED <<disk, env, algorithm, node, state_machine, outbox, calls,
                   answered>>

\* Mutant: set_last_applied is not called.
NotRecorded ==
    /\ task = "record"
    /\ task' = "reply"
    /\ UNCHANGED <<disk, env, algorithm, node, loop, outbox, client>>

SetLastApplied ==
    /\ task = "record"
    /\ task' = "reply"
    /\ last_applied' = last_applied_command_id + 1
    /\ UNCHANGED <<log, acceptors, env, algorithm, node, loop, outbox, client>>

\* The client gets the output if it is still waiting.
Reply ==
    /\ task = "reply"
    /\ task' = "commit"
    /\ IF call.pc = "wait" /\ sender = calls
       THEN /\ answered' = answered \cup {last_applied_command_id}
            /\ call' = Idle
       ELSE UNCHANGED <<answered, call>>
    /\ sender' = NoCall
    /\ last_applied_command_id' = last_applied_command_id + 1
    /\ UNCHANGED <<disk, env, algorithm, node, state_machine, outbox, calls>>

TakeOutbox ==
    /\ task = "select"
    /\ outbox > 0
    /\ outbox' = outbox - 1
    /\ task' = "send"
    /\ UNCHANGED <<disk, env, algorithm, node, loop, client>>

\* The message is written to the sockets, without the lock.
Send ==
    /\ task = "send"
    /\ task' = "select"
    /\ UNCHANGED <<disk, env, algorithm, node, loop, outbox, client>>

-----------------------------------------------------------------------------
(* A stop at any point, and with_storage.                                   *)

Crash ==
    /\ status = "up"
    /\ crashes < MaxCrashes
    /\ crashes' = crashes + 1
    /\ status' = "down"
    /\ task' = "dead" /\ algorithm' = << >> /\ outbox' = 0 /\ call' = Idle
    /\ learned' = {} /\ next_instance_id' = 0
    /\ pending_senders' = [i \in Ids |-> NoCall] /\ forwarded_senders' = {}
    /\ sender' = NoCall /\ last_applied_command_id' = 0
    /\ state_machine' = << >> /\ found' = NewDisk
    /\ UNCHANGED <<disk, refused, errors, calls, answered>>

\* Mutant: the loop starts at the first instance again.
ResumeAtZero == 0

\* Where the apply loop starts.
ResumeAt == last_applied

Recover ==
    /\ status = "down"
    /\ log \cap refused = {}
    /\ status' = "up"
    /\ task' = "select"
    /\ state_machine' = Replay(log)
    /\ found' = [log |-> log, last_applied |-> last_applied]
    /\ last_applied_command_id' = ResumeAt
    /\ next_instance_id' = acceptors
    /\ UNCHANGED <<disk, refused, crashes, errors, algorithm, learned,
                   pending_senders, forwarded_senders, sender, outbox, client>>

\* state_machine.apply(cmd)? in the replay: the node does not start.
RecoverFails ==
    /\ status = "down"
    /\ log \cap refused # {}
    /\ status' = "refused"
    /\ UNCHANGED <<disk, refused, found, crashes, errors, algorithm, node, task,
                   loop, outbox, client>>

-----------------------------------------------------------------------------
ClientStep ==
    Call \/ ProposeHere \/ Forward \/ ProposeFails \/ Queue \/ QueueFails
    \/ Timeout

CommitStep ==
    Commit \/ CommitEnds \/ Apply \/ ApplyFails \/ SetLastApplied \/ Reply

BackgroundStep ==
    TakeMessage \/ HandleMessage \/ Panic \/ CommitStep \/ TakeOutbox \/ Send

Next == ClientStep \/ BackgroundStep \/ Crash \/ Recover \/ RecoverFails

Spec == Init /\ [][Next]_vars

\* Tasks that are ready run; select! chooses at random among what is ready, so
\* it does not pass over the outbox for ever; no peer keeps a socket from being
\* written for ever.
FairSpec ==
    /\ Spec
    /\ WF_vars(ProposeHere \/ Forward)
    /\ WF_vars(Queue \/ QueueFails)
    /\ WF_vars(Timeout)
    /\ WF_vars(HandleMessage)
    /\ WF_vars(CommitStep)
    /\ SF_vars(TakeOutbox)
    /\ WF_vars(Send)

-----------------------------------------------------------------------------
TypeOK ==
    /\ log \subseteq Ids
    /\ last_applied \in 0 .. NumInstances
    /\ acceptors \in 0 .. NumInstances
    /\ status \in {"up", "down", "refused"}
    /\ refused \subseteq Failing
    /\ algorithm \in Seq({"propose", "background"}) /\ Len(algorithm) <= 2
    /\ next_instance_id \in 0 .. NumInstances
    /\ learned \subseteq Ids
    /\ pending_senders \in [Ids -> Calls \cup {NoCall}]
    /\ forwarded_senders \subseteq Calls
    /\ task \in {"select", "lock", "commit", "apply", "record", "reply", "send",
                 "dead"}
    /\ sender \in Calls \cup {NoCall}
    /\ last_applied_command_id \in 0 .. NumInstances
    /\ state_machine \in Seq(Ids)
    /\ outbox \in 0 .. OutboxCapacity
    /\ call \in [pc : {"none", "lock", "queue", "wait"}, left : 0 .. 2]
    /\ calls \in 0 .. MaxCalls
    /\ answered \subseteq Ids
    /\ found \in [log : SUBSET Ids, last_applied : 0 .. NumInstances]
    /\ crashes \in 0 .. MaxCrashes
    /\ errors \in 0 .. MaxErrors

\* Recovery skips no command: wherever the node stops among append, apply and
\* set_last_applied, the log on disk has no gap and reaches last_applied.
RecoverySkipsNothing ==
    /\ \A i \in log : 0 .. i \subseteq log
    /\ 0 .. last_applied - 1 \subseteq log

Times(i) == Cardinality({p \in DOMAIN state_machine : state_machine[p] = i})

\* What was answered is in the log, and no life of the node applies it again.
AnswersRecorded ==
    \A i \in answered :
        /\ i \in log
        /\ i < last_applied
        /\ status = "up" => i < last_applied_command_id

\* A client that was answered can rely on it: its command is recorded, and every
\* later life of the node starts with it applied.
AnsweredSurvives ==
    /\ AnswersRecorded
    /\ \A i \in answered : status = "up" => Times(i) > 0

\* In every life of the node the state machine applies the instances in order
\* and leaves out only what it refuses.  It repeats none but the command that the
\* life found in the log without finding it recorded in last_applied, the one a
\* stop came in between for, and this once, right after the replay: a loop that
\* runs on repeats nothing.
AppliedInOrder ==
    LET sm == state_machine
        replayed == Cardinality(found.log)
    IN  /\ \A p \in DOMAIN sm :
              LET before == IF p = 1 THEN 0 ELSE sm[p - 1]
                  next == IF p = 1 THEN 0 ELSE sm[p - 1] + 1
              IN  /\ sm[p] >= before
                  /\ next .. sm[p] - 1 \subseteq refused
        /\ \A p \in DOMAIN sm \ {1} :
              sm[p] = sm[p - 1] =>
                  /\ p = replayed + 1
                  /\ sm[p] = found.last_applied
                  /\ sm[p] \in found.log

DL == INSTANCE DurableLog WITH entries <- Replay(log), answers <- answered

\* The keys that are in the log or may still be put there are, in byte order, in
\* the order of their instances, so that scan_prefix gives replay the log in the
\* order in which it was applied.
KeysInOrder ==
    LET ids == log \cup (last_applied .. Power[KeyWidth] - 1)
    IN  \A i, j \in ids : KeyBefore(i, j) <=> i < j

\* On disk the node keeps what a durable log promises.
ImplementsDurableLog == DL!Spec

\* A call of propose comes to an end: an output, an error or a timeout.
CallsReturn == call.pc # "none" ~> call.pc = "none"
=============================================================================
