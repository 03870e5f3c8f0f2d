----------------------------- MODULE RuntimeProofs -----------------------------
(***************************************************************************)
(* Theorems about Runtime, for every number of instances, calls, stops and *)
(* errors, every capacity of the outbox and whatever apply refuses: what   *)
(* is on disk leaves no gap for a restart to fall into, and what a client  *)
(* was answered is recorded.                                               *)
(***************************************************************************)
EXTENDS Runtime, NaturalLemmas, SequenceTheorems

-----------------------------------------------------------------------------
(* The inductive invariant.  RecoverySkipsNothing says nothing of where the *)
(* apply loop stands; it is kept because the loop has appended every        *)
(* instance it has passed, in this life or a former one, and records only   *)
(* what it has appended.                                                    *)

CountersInv ==
    /\ last_applied \in Nat /\ last_applied_command_id \in Nat
    /\ log \subseteq Nat
    /\ status # "up" => task = "dead"

\* Past the append of the command.
Appended == task \in {"apply", "record", "reply"}

LogInv ==
    /\ RecoverySkipsNothing
    /\ 0 .. last_applied_command_id - 1 \subseteq log
    /\ Appended => last_applied_command_id \in log

\* last_applied follows the loop, and is one ahead only before the answer.
FollowInv ==
    status = "up" =>
        IF task = "reply" THEN last_applied = last_applied_command_id + 1
                          ELSE last_applied <= last_applied_command_id

AnswersInv ==
    \A i \in answered :
        /\ i \in Nat /\ i < last_applied
        /\ status = "up" => i < last_applied_command_id

Inv == CountersInv /\ LogInv /\ FollowInv /\ AnswersInv

\* What Inv is about; a step that leaves it alone keeps Inv.
watched == <<log, last_applied, status, last_applied_command_id, answered>>

-----------------------------------------------------------------------------
LEMMA InitInv == Init => Inv
  BY DEF Init, Inv, CountersInv, LogInv, FollowInv, AnswersInv, Appended,
         RecoverySkipsNothing

\* A step that moves only the task, to a place with nothing appended, from a
\* place where last_applied is not ahead.
LEMMA TaskMovesOn ==
    ASSUME Inv, UNCHANGED watched, ~Appended', task # "reply",
           status # "up" => task' = "dead"
    PROVE  Inv'
  BY DEF Inv, CountersInv, LogInv, FollowInv, AnswersInv, Appended,
         RecoverySkipsNothing, watched

LEMMA TaskStays ==
    ASSUME Inv, UNCHANGED watched, UNCHANGED task
    PROVE  Inv'
  BY DEF Inv, CountersInv, LogInv, FollowInv, AnswersInv, Appended,
         RecoverySkipsNothing, watched

LEMMA ClientKeeps == Inv /\ ClientStep => Inv'
  <1> SUFFICES ASSUME Inv, ClientStep PROVE Inv'
    OBVIOUS
  <1>1. UNCHANGED watched /\ UNCHANGED task
    BY DEF ClientStep, Call, ProposeHere, Open, Forward, ProposeFails, Queue,
           QueueFails, Timeout, watched, disk, env, node, loop, client
  <1> QED BY <1>1, TaskStays

LEMMA HandleMessageKeeps == Inv /\ HandleMessage => Inv'
  <1> SUFFICES ASSUME Inv, HandleMessage PROVE Inv'
    OBVIOUS
  <1>1. UNCHANGED <<log, last_applied>>
    BY DEF HandleMessage, HearOf, ProposeForwarded, Open, MapForwarded,
           DropForwarded, disk
  <1>2. UNCHANGED watched /\ task = "lock" /\ task' = "commit"
    BY <1>1 DEF HandleMessage, watched, env, loop
  <1>3. status = "up"
    BY <1>2 DEF Inv, CountersInv
  <1> QED BY <1>2, <1>3, TaskMovesOn DEF Appended

LEMMA CommitKeeps == Inv /\ Commit => Inv'
  <1> SUFFICES ASSUME Inv, Commit PROVE Inv'
    OBVIOUS
  <1> DEFINE i == last_applied_command_id
  <1>1. i \in Nat /\ 0 .. i - 1 \subseteq log /\ log \subseteq Nat
    BY DEF Inv, CountersInv, LogInv
  <1>2. /\ log' = log \cup {i}
        /\ task = "commit" /\ task' = "apply"
        /\ UNCHANGED <<last_applied, status, last_applied_command_id, answered>>
    BY DEF Commit, AppendLog, env, client
  <1>3. CountersInv' /\ FollowInv' /\ AnswersInv'
    BY <1>1, <1>2 DEF Inv, CountersInv, FollowInv, AnswersInv
  <1>4. LogInv'
    <2>1. \A j \in log' : 0 .. j \subseteq log'
      BY <1>1, <1>2 DEF Inv, LogInv, RecoverySkipsNothing
    <2> QED
      BY <1>1, <1>2, <2>1 DEF Inv, LogInv, RecoverySkipsNothing, Appended
  <1> QED BY <1>3, <1>4 DEF Inv

LEMMA ApplyKeeps == Inv /\ Apply => Inv'
  BY DEF Apply, Inv, CountersInv, LogInv, FollowInv, AnswersInv, Appended,
         RecoverySkipsNothing, disk, env, client

LEMMA ApplyFailsKeeps == Inv /\ ApplyFails => Inv'
  <1> SUFFICES ASSUME Inv, ApplyFails PROVE Inv'
    OBVIOUS
  <1>1. /\ task = "apply" /\ task' = "commit"
        /\ last_applied_command_id' = last_applied_command_id + 1
        /\ UNCHANGED <<log, last_applied, status, answered>>
    BY DEF ApplyFails, disk, env
  <1>2. CountersInv' /\ FollowInv' /\ AnswersInv'
    BY <1>1 DEF Inv, CountersInv, FollowInv, AnswersInv
  <1>3. LogInv'
    BY <1>1 DEF Inv, CountersInv, LogInv, Appended, RecoverySkipsNothing
  <1> QED BY <1>2, <1>3 DEF Inv

LEMMA SetLastAppliedKeeps == Inv /\ SetLastApplied => Inv'
  <1> SUFFICES ASSUME Inv, SetLastApplied PROVE Inv'
    OBVIOUS
  <1>1. /\ task = "record" /\ task' = "reply"
        /\ last_applied' = last_applied_command_id + 1
        /\ UNCHANGED <<log, last_applied_command_id, status, answered>>
    BY DEF SetLastApplied, env, loop, client
  <1>2. CountersInv' /\ FollowInv'
    BY <1>1 DEF Inv, CountersInv, FollowInv
  <1>3. AnswersInv'
    BY <1>1 DEF Inv, CountersInv, FollowInv, AnswersInv
  <1>4. LogInv'
    BY <1>1 DEF Inv, CountersInv, LogInv, Appended, RecoverySkipsNothing
  <1> QED BY <1>2, <1>3, <1>4 DEF Inv

LEMMA ReplyKeeps == Inv /\ Reply => Inv'
  <1> SUFFICES ASSUME Inv, Reply PROVE Inv'
    OBVIOUS
  <1> DEFINE i == last_applied_command_id
  <1>1. /\ task = "reply" /\ task' = "commit"
        /\ i' = i + 1
        /\ answered' \in {answered, answered \cup {i}}
        /\ UNCHANGED <<log, last_applied, status>>
    BY DEF Reply, disk, env
  <1>2. status = "up" /\ last_applied = i + 1 /\ i \in Nat
    BY <1>1 DEF Inv, CountersInv, FollowInv
  <1>3. CountersInv' /\ FollowInv'
    BY <1>1, <1>2 DEF Inv, CountersInv, FollowInv
  <1>4. AnswersInv'
    BY <1>1, <1>2 DEF Inv, CountersInv, AnswersInv
  <1>5. LogInv'
    BY <1>1, <1>2 DEF Inv, CountersInv, LogInv, Appended, RecoverySkipsNothing
  <1> QED BY <1>3, <1>4, <1>5 DEF Inv

LEMMA CrashKeeps == Inv /\ Crash => Inv'
  <1> SUFFICES ASSUME Inv, Crash PROVE Inv'
    OBVIOUS
  <1>1. /\ status' = "down" /\ task' = "dead"
        /\ last_applied_command_id' = 0
        /\ UNCHANGED <<log, last_applied, answered>>
    BY DEF Crash, disk
  <1> QED
    BY <1>1 DEF Inv, CountersInv, LogInv, FollowInv, AnswersInv, Appended,
                RecoverySkipsNothing

LEMMA RecoverKeeps == Inv /\ Recover => Inv'
  <1> SUFFICES ASSUME Inv, Recover PROVE Inv'
    OBVIOUS
  <1>1. /\ status' = "up" /\ task' = "select"
        /\ last_applied_command_id' = last_applied
        /\ UNCHANGED <<log, last_applied, answered>>
    BY DEF Recover, ResumeAt, disk, client
  <1> QED
    BY <1>1 DEF Inv, CountersInv, LogInv, FollowInv, AnswersInv, Appended,
                RecoverySkipsNothing

LEMMA StepInv == Inv /\ [Next]_vars => Inv'
  <1> SUFFICES ASSUME Inv, [Next]_vars PROVE Inv'
    OBVIOUS
  <1>1. CASE ClientStep
    BY <1>1, ClientKeeps
  <1>2. CASE TakeMessage \/ CommitEnds \/ TakeOutbox \/ Send
    <2>1. /\ UNCHANGED watched
          /\ task \in {"select", "commit", "send"}
          /\ task' \in {"lock", "select", "send"}
      BY <1>2 DEF TakeMessage, CommitEnds, TakeOutbox, Send, watched, disk, env,
                  loop, client
    <2>2. status = "up"
      BY <2>1 DEF Inv, CountersInv
    <2> QED BY <2>1, <2>2, TaskMovesOn DEF Appended
  <1>3. CASE HandleMessage
    BY <1>3, HandleMessageKeeps
  <1>4. CASE Panic
    <2>1. UNCHANGED watched /\ task = "lock" /\ task' = "dead"
      BY <1>4 DEF Panic, watched, disk, loop, client
    <2> QED BY <2>1, TaskMovesOn DEF Appended
  <1>5. CASE Commit
    BY <1>5, CommitKeeps
  <1>6. CASE Apply
    BY <1>6, ApplyKeeps
  <1>7. CASE ApplyFails
    BY <1>7, ApplyFailsKeeps
  <1>8. CASE SetLastApplied
    BY <1>8, SetLastAppliedKeeps
  <1>9. CASE Reply
    BY <1>9, ReplyKeeps
  <1>10. CASE Crash
    BY <1>10, CrashKeeps
  <1>11. CASE Recover
    BY <1>11, RecoverKeeps
  <1>12. CASE RecoverFails
    BY <1>12 DEF RecoverFails, Inv, CountersInv, LogInv, FollowInv, AnswersInv,
                 Appended, RecoverySkipsNothing, disk, loop, client
  <1>13. CASE UNCHANGED vars
    BY <1>13, TaskStays DEF vars, disk, env, loop, client, watched
  <1> QED
    BY <1>1, <1>2, <1>3, <1>4, <1>5, <1>6, <1>7, <1>8, <1>9, <1>10, <1>11,
       <1>12, <1>13
    DEF Next, BackgroundStep, CommitStep

\* Wherever the node stops among append, apply and set_last_applied, and however
\* often, the log on disk has no gap and reaches last_applied: a restart that
\* replays the log and goes on at last_applied skips no command.
THEOREM NothingSkipped == Spec => []RecoverySkipsNothing
  <1>1. Spec => []Inv
    BY InitInv, StepInv, PTL DEF Spec
  <1>2. Inv => RecoverySkipsNothing
    BY DEF Inv, LogInv
  <1> QED BY <1>1, <1>2, PTL

\* A command whose client got the output is in the log on disk, and lies behind
\* last_applied and behind the apply loop of every later life of the node, so
\* that none applies it again.
THEOREM AnswersDurable == Spec => []AnswersRecorded
  <1>1. Spec => []Inv
    BY InitInv, StepInv, PTL DEF Spec
  <1>2. Inv => AnswersRecorded
    BY DEF Inv, CountersInv, LogInv, AnswersInv, RecoverySkipsNothing,
           AnswersRecorded
  <1> QED BY <1>1, <1>2, PTL

-----------------------------------------------------------------------------
(* Power is a function by recursion: the tables of its first values exist,   *)
(* by induction, and agree.                                                  *)

Step(g, k) == IF k = 0 THEN 1 ELSE KeyBase * g[k - 1]

Tables(n) == {g \in [0 .. n -> Nat] : \A k \in 0 .. n : g[k] = Step(g, k)}

LEMMA TablesExist == \A n \in Nat : Tables(n) # {}
  <1> DEFINE S == {n \in Nat : Tables(n) # {}}
  <1>1. 0 \in S
    <2>1. [k \in 0 .. 0 |-> 1] \in Tables(0)
      BY DEF Tables, Step
    <2> QED BY <2>1
  <1>2. ASSUME NEW n \in Nat, n \in S
        PROVE  n + 1 \in S
    <2>1. PICK g \in Tables(n) : TRUE
      BY <1>2
    <2> DEFINE h == [k \in 0 .. n + 1 |-> IF k = n + 1 THEN KeyBase * g[n]
                                                       ELSE g[k]]
    <2>2. g \in [0 .. n -> Nat] /\ \A k \in 0 .. n : g[k] = Step(g, k)
      BY <2>1 DEF Tables
    <2>3. KeyBase * g[n] \in Nat
      BY <2>2, RuntimeAssumption
    <2>4. h \in [0 .. n + 1 -> Nat]
      BY <2>2, <2>3
    <2>5. ASSUME NEW k \in 0 .. n + 1
          PROVE  h[k] = Step(h, k)
      <3>1. CASE k = n + 1
        BY <3>1 DEF Step
      <3>2. CASE k # n + 1
        <4>1. k \in 0 .. n /\ h[k] = g[k] /\ (k # 0 => h[k - 1] = g[k - 1])
          BY <3>2
        <4> HIDE DEF h
        <4> QED BY <4>1, <2>2 DEF Step
      <3> QED BY <3>1, <3>2
    <2> HIDE DEF h
    <2>6. h \in Tables(n + 1)
      BY <2>4, <2>5 DEF Tables
    <2> QED BY <2>6
  <1> HIDE DEF S
  <1>3. Nat \subseteq S
    BY <1>1, <1>2, SetInduction
  <1> QED BY <1>3 DEF S

LEMMA TablesAgree ==
    ASSUME NEW n \in Nat, NEW m \in Nat, n <= m,
           NEW g \in Tables(n), NEW h \in Tables(m)
    PROVE  \A k \in 0 .. n : g[k] = h[k]
  <1> DEFINE T == {k \in 0 .. n : g[k] # h[k]}
  <1> SUFFICES ASSUME T # {} PROVE FALSE
    OBVIOUS
  <1>1. PICK k \in T : \A j \in T : k <= j
    <2>1. T \subseteq Nat
      OBVIOUS
    <2> HIDE DEF T
    <2> QED BY <2>1, LeastNatural
  <1>2. k # 0
    BY DEF Tables, Step
  <1>3. k - 1 \in 0 .. n /\ k - 1 \notin T
    BY <1>1, <1>2
  <1>4. g[k] = KeyBase * g[k - 1] /\ h[k] = KeyBase * h[k - 1]
    BY <1>2 DEF Tables, Step
  <1> QED BY <1>3, <1>4

LEMMA PowerStep ==
    /\ Power[0] = 1
    /\ \A n \in Nat : Power[n] \in Nat \ {0} /\ Power[n + 1] = KeyBase * Power[n]
  <1> DEFINE T(n) == CHOOSE g \in Tables(n) : TRUE
             P == [n \in Nat |-> T(n)[n]]
  <1>1. \A n \in Nat : T(n) \in Tables(n)
    BY TablesExist
  <1>2. ASSUME NEW n \in Nat
        PROVE  P[n] = Step(P, n)
    <2> DEFINE g == T(n)
               h == T(n - 1)
    <2>1. g \in Tables(n) /\ P[n] = g[n]
      BY <1>1
    <2> HIDE DEF g
    <2>2. g[n] = Step(g, n)
      BY <2>1 DEF Tables
    <2>3. CASE n = 0
      BY <2>1, <2>2, <2>3 DEF Step
    <2>4. CASE n # 0
      <3>1. n - 1 \in Nat /\ n - 1 <= n
        BY <2>4
      <3>2. h \in Tables(n - 1) /\ P[n - 1] = h[n - 1]
        BY <1>1, <3>1
      <3> HIDE DEF h, P
      <3>3. h[n - 1] = g[n - 1]
        BY <2>1, <3>1, <3>2, TablesAgree
      <3> QED BY <2>1, <2>2, <2>4, <3>2, <3>3 DEF Step
    <2> QED BY <2>3, <2>4
  <1>3. P = [n \in Nat |-> P[n]]
    OBVIOUS
  <1> HIDE DEF P
  <1>4. P = [n \in Nat |-> IF n = 0 THEN 1 ELSE KeyBase * P[n - 1]]
    BY <1>2, <1>3 DEF Step
  <1>5. Power = [n \in Nat |-> IF n = 0 THEN 1 ELSE KeyBase * Power[n - 1]]
    BY <1>4 DEF Power
  <1>6. \A n \in Nat : Power[n] = IF n = 0 THEN 1 ELSE KeyBase * Power[n - 1]
    BY <1>5
  <1> DEFINE S == {n \in Nat : Power[n] \in Nat \ {0}}
  <1>7. 0 \in S
    BY <1>6
  <1>8. ASSUME NEW n \in Nat, n \in S
        PROVE  n + 1 \in S
    <2>1. Power[n + 1] = KeyBase * Power[n]
      BY <1>6
    <2>2. Power[n + 1] \in Nat \ {0}
      BY <1>8, <2>1, RuntimeAssumption
    <2> QED BY <2>2
  <1> HIDE DEF S
  <1>9. Nat \subseteq S
    BY <1>7, <1>8, SetInduction
  <1> QED BY <1>6, <1>9 DEF S

-----------------------------------------------------------------------------
(* The order of the keys.                                                    *)

\* The first k digits of the key of i, as a number.
Prefix(i, k) == i \div Power[KeyWidth - k]

Keyed == 0 .. Power[KeyWidth] - 1

LEMMA DivDiv ==
    ASSUME NEW x \in Nat, NEW p \in Nat \ {0}, NEW c \in Nat \ {0}
    PROVE  x \div (c * p) = (x \div p) \div c
  OBVIOUS

LEMMA ModGrows ==
    ASSUME NEW x \in Nat, NEW y \in Nat, NEW c \in Nat \ {0},
           x < y, x \div c = y \div c
    PROVE  x % c < y % c
  <1>1. ASSUME NEW z \in Nat
        PROVE  z = (c * (z \div c)) + (z % c) /\ z \div c \in Nat /\ z % c \in Nat
    OBVIOUS
  <1> DEFINE q == x \div c
             r == c * q
  <1>2. x = r + (x % c) /\ y = r + (y % c) /\ x % c \in Nat /\ y % c \in Nat
    BY <1>1
  <1>3. r \in Nat
    BY <1>1
  <1> HIDE DEF r
  <1> QED BY <1>2, <1>3

LEMMA PrefixSteps ==
    ASSUME NEW i \in Keyed
    PROVE  /\ i \in Nat /\ Prefix(i, 0) = 0 /\ Prefix(i, KeyWidth) = i
           /\ \A k \in 1 .. KeyWidth :
                 /\ Prefix(i, k) \in Nat
                 /\ Prefix(i, k - 1) = Prefix(i, k) \div KeyBase
                 /\ Digit(i, k) = Prefix(i, k) % KeyBase
                 /\ Digit(i, k) \in Nat
  <1>1. KeyWidth \in Nat /\ KeyBase \in Nat \ {0, 1}
    BY RuntimeAssumption
  <1>2. Power[KeyWidth] \in Nat \ {0} /\ Power[0] = 1
    BY <1>1, PowerStep
  <1>3. i \in Nat /\ i < Power[KeyWidth]
    BY <1>2 DEF Keyed
  <1>4. Prefix(i, 0) = 0 /\ Prefix(i, KeyWidth) = i
    <2>1. KeyWidth - 0 = KeyWidth /\ KeyWidth - KeyWidth = 0
      BY <1>1
    <2>2. i \div Power[KeyWidth] = 0 /\ i \div 1 = i
      BY <1>2, <1>3
    <2> QED BY <1>2, <2>1, <2>2 DEF Prefix
  <1>5. ASSUME NEW k \in 1 .. KeyWidth
        PROVE  /\ Prefix(i, k) \in Nat
               /\ Prefix(i, k - 1) = Prefix(i, k) \div KeyBase
               /\ Digit(i, k) = Prefix(i, k) % KeyBase
               /\ Digit(i, k) \in Nat
    <2> DEFINE p == Power[KeyWidth - k]
    <2>1. KeyWidth - k \in Nat /\ KeyWidth - (k - 1) = (KeyWidth - k) + 1
      BY <1>1
    <2>2. p \in Nat \ {0} /\ Power[KeyWidth - (k - 1)] = KeyBase * p
      BY <2>1, PowerStep
    <2> HIDE DEF p
    <2>3. i \div (KeyBase * p) = (i \div p) \div KeyBase
      <3>1. i \in Nat /\ p \in Nat \ {0} /\ KeyBase \in Nat \ {0}
        BY <1>1, <1>3, <2>2
      <3> QED BY <3>1, DivDiv, Zenon
    <2>4. i \div p \in Nat /\ (i \div p) % KeyBase \in Nat
      BY <1>1, <1>3, <2>2
    <2> QED BY <2>2, <2>3, <2>4 DEF Prefix, Digit, p
  <1> QED BY <1>3, <1>4, <1>5

LEMMA PrefixMonotone ==
    ASSUME NEW i \in Keyed, NEW j \in Keyed, i < j, NEW k \in 1 .. KeyWidth
    PROVE  Prefix(i, k) <= Prefix(j, k)
  <1>1. i \in Nat /\ j \in Nat /\ KeyWidth - k \in Nat
    BY PrefixSteps, RuntimeAssumption
  <1> DEFINE p == Power[KeyWidth - k]
  <1>2. p \in Nat \ {0}
    BY <1>1, PowerStep
  <1> HIDE DEF p
  <1>3. i \div p <= j \div p
    BY <1>1, <1>2
  <1> QED BY <1>3 DEF Prefix, p

\* The first digit in which i and j differ is greater in j.
DiffersAt(i, j, k) ==
    /\ \A l \in 1 .. k - 1 : Digit(i, l) = Digit(j, l)
    /\ Digit(i, k) < Digit(j, k)

LEMMA DigitsDiffer ==
    ASSUME NEW i \in Keyed, NEW j \in Keyed, i < j
    PROVE  \E k \in 1 .. KeyWidth : DiffersAt(i, j, k)
  <1> DEFINE T == {k \in 0 .. KeyWidth : Prefix(i, k) # Prefix(j, k)}
  <1>1. KeyWidth \in Nat /\ KeyBase \in Nat \ {0, 1}
    BY RuntimeAssumption
  <1>2. /\ i \in Nat /\ j \in Nat
        /\ Prefix(i, 0) = Prefix(j, 0)
        /\ Prefix(i, KeyWidth) = i /\ Prefix(j, KeyWidth) = j
    BY PrefixSteps
  <1>3. KeyWidth \in T /\ 0 \notin T /\ T \subseteq Nat
    BY <1>1, <1>2
  <1>4. PICK k \in T : \A l \in T : k <= l
    <2> HIDE DEF T
    <2> QED BY <1>3, LeastNatural
  <1>5. k \in 1 .. KeyWidth
    BY <1>1, <1>3, <1>4
  <1>6. \A l \in 0 .. k - 1 : Prefix(i, l) = Prefix(j, l)
    BY <1>1, <1>4, <1>5
  <1>7. \A l \in 1 .. k - 1 : Digit(i, l) = Digit(j, l)
    <2>1. ASSUME NEW l \in 1 .. k - 1
          PROVE  Digit(i, l) = Digit(j, l)
      <3>1. l \in 1 .. KeyWidth /\ Prefix(i, l) = Prefix(j, l)
        BY <1>1, <1>5, <1>6
      <3>2. Digit(i, l) = Prefix(i, l) % KeyBase /\ Digit(j, l) = Prefix(j, l) % KeyBase
        BY <3>1, PrefixSteps
      <3> QED BY <3>1, <3>2
    <2> QED BY <2>1
  <1>8. Digit(i, k) < Digit(j, k)
    <2> DEFINE a == Prefix(i, k)
               b == Prefix(j, k)
    <2>1. /\ a \in Nat /\ Prefix(i, k - 1) = a \div KeyBase
          /\ Digit(i, k) = a % KeyBase
          /\ b \in Nat /\ Prefix(j, k - 1) = b \div KeyBase
          /\ Digit(j, k) = b % KeyBase
      BY <1>5, PrefixSteps
    <2>2. a < b
      <3>1. a <= b /\ a # b
        BY <1>4, <1>5, PrefixMonotone
      <3> HIDE DEF a, b
      <3> QED BY <2>1, <3>1
    <2>3. a \div KeyBase = b \div KeyBase
      <3>1. k - 1 \in 0 .. k - 1
        BY <1>5
      <3> QED BY <1>6, <2>1, <3>1
    <2> HIDE DEF a, b
    <2>4. a % KeyBase < b % KeyBase
      <3>1. KeyBase \in Nat \ {0} /\ a \in Nat /\ b \in Nat
        BY <1>1, <2>1
      <3> QED BY <2>2, <2>3, <3>1, ModGrows
    <2> QED BY <2>1, <2>4
  <1> QED BY <1>5, <1>7, <1>8 DEF DiffersAt

LEMMA KeyBeforeMeans ==
    ASSUME NEW i \in Keyed, NEW j \in Keyed
    PROVE  KeyBefore(i, j) <=> \E k \in 1 .. KeyWidth : DiffersAt(i, j, k)
  <1>1. KeyWidth \in Nat
    BY RuntimeAssumption
  <1>2. /\ DOMAIN Key(i) = 1 .. KeyWidth /\ Len(Key(j)) = KeyWidth
        /\ DOMAIN Key(j) = 1 .. KeyWidth
        /\ \A k \in 1 .. KeyWidth : /\ Key(i)[k] = Digit(i, k)
                                    /\ Key(j)[k] = Digit(j, k)
    BY <1>1 DEF Key
  <1>3. KeyBefore(i, j) <=>
          \E k \in 1 .. KeyWidth :
             /\ \A l \in 1 .. k - 1 : /\ l \in 1 .. KeyWidth
                                      /\ Key(i)[l] = Key(j)[l]
             /\ k \in 1 .. KeyWidth => Key(i)[k] < Key(j)[k]
    BY <1>2 DEF KeyBefore, BytesBefore
  <1>4. ASSUME NEW k \in 1 .. KeyWidth
        PROVE  (/\ \A l \in 1 .. k - 1 : /\ l \in 1 .. KeyWidth
                                         /\ Key(i)[l] = Key(j)[l]
                /\ k \in 1 .. KeyWidth => Key(i)[k] < Key(j)[k])
               <=> DiffersAt(i, j, k)
    <2>1. \A l \in 1 .. k - 1 : l \in 1 .. KeyWidth
      BY <1>1
    <2> QED BY <1>2, <2>1 DEF DiffersAt
  <1> QED BY <1>3, <1>4

LEMMA KeysOrdered ==
    ASSUME NEW i \in Keyed, NEW j \in Keyed
    PROVE  KeyBefore(i, j) <=> i < j
  <1>1. i \in Nat /\ j \in Nat /\ KeyWidth \in Nat
    BY PrefixSteps, RuntimeAssumption
  <1>2. ASSUME NEW k \in 1 .. KeyWidth, DiffersAt(i, j, k)
        PROVE  ~(j < i) /\ i # j
    <2>1. i # j
      <3>1. Digit(i, k) \in Nat
        BY PrefixSteps
      <3> QED BY <1>2, <3>1 DEF DiffersAt
    <2>2. ASSUME NEW l \in 1 .. KeyWidth, DiffersAt(j, i, l)
          PROVE  FALSE
      <3>1. /\ Digit(i, k) \in Nat /\ Digit(j, k) \in Nat
            /\ Digit(i, l) \in Nat /\ Digit(j, l) \in Nat
        BY PrefixSteps
      <3>2. CASE k < l
        <4>1. k \in 1 .. l - 1
          BY <1>1, <3>2
        <4> QED BY <1>2, <2>2, <3>1, <4>1 DEF DiffersAt
      <3>3. CASE l < k
        <4>1. l \in 1 .. k - 1
          BY <1>1, <3>3
        <4> QED BY <1>2, <2>2, <3>1, <4>1 DEF DiffersAt
      <3>4. CASE k = l
        BY <1>2, <2>2, <3>1, <3>4 DEF DiffersAt
      <3> QED BY <1>1, <3>2, <3>3, <3>4
    <2> QED BY <2>1, <2>2, DigitsDiffer
  <1> QED BY <1>1, <1>2, DigitsDiffer, KeyBeforeMeans

-----------------------------------------------------------------------------
(* The replay of a log without gaps.                                         *)

LEMMA IncreasingIsIdentity ==
    ASSUME NEW n \in Nat, NEW s \in [1 .. n -> 0 .. n - 1],
           \A p, q \in 1 .. n : p < q => s[p] < s[q]
    PROVE  \A p \in 1 .. n : s[p] = p - 1
  <1>1. ASSUME NEW p \in 1 .. n, s[p] < p - 1
        PROVE  FALSE
    <2> DEFINE T == {r \in 1 .. n : s[r] < r - 1}
    <2>1. T \subseteq Nat /\ p \in T
      BY <1>1
    <2>2. PICK r \in T : \A t \in T : r <= t
      <3> HIDE DEF T
      <3> QED BY <2>1, LeastNatural
    <2>3. r # 1 /\ r - 1 \in 1 .. n /\ r - 1 \notin T
      BY <2>2
    <2>4. s[r - 1] < s[r] /\ s[r - 1] >= r - 2
      BY <2>2, <2>3
    <2> QED BY <2>2, <2>3, <2>4
  <1>2. ASSUME NEW p \in 1 .. n, s[p] > p - 1
        PROVE  FALSE
    <2> DEFINE T == {t \in 0 .. n - 1 : s[n - t] > n - t - 1}
    <2>1. n - p \in T /\ T \subseteq Nat
      BY <1>2
    <2>2. PICK t \in T : \A u \in T : t <= u
      <3> HIDE DEF T
      <3> QED BY <2>1, LeastNatural
    <2>3. t # 0
      <3>1. s[n] \in 0 .. n - 1
        OBVIOUS
      <3> QED BY <3>1
    <2>6. t - 1 \in 0 .. n - 1 /\ t - 1 \notin T
      <3>1. t \in 0 .. n - 1
        BY <2>2
      <3>2. t - 1 \in 0 .. n - 1 /\ ~(t <= t - 1)
        BY <2>3, <3>1
      <3> HIDE DEF T
      <3> QED BY <2>2, <3>2
    <2>4. n - t \in 1 .. n /\ n - (t - 1) \in 1 .. n
      BY <2>2, <2>3
    <2>5. s[n - t] < s[n - (t - 1)] /\ s[n - (t - 1)] <= n - (t - 1) - 1
      BY <2>6, <2>4
    <2> QED BY <2>2, <2>4, <2>5
  <1>3. ASSUME NEW p \in 1 .. n
        PROVE  s[p] = p - 1
    <2>1. s[p] \in 0 .. n - 1
      OBVIOUS
    <2>2. s[p] \in Int /\ p \in Int
      BY <2>1
    <2> QED BY <1>1, <1>2, <2>2
  <1> QED BY <1>3

Counted(n) == [p \in 1 .. n |-> p - 1]

LEMMA ReplayCounts ==
    ASSUME NEW n \in Nat, n <= Power[KeyWidth]
    PROVE  Replay(0 .. n - 1) = Counted(n)
  <1> DEFINE ids == 0 .. n - 1
             Sorted(s) == \A p, q \in DOMAIN s : p < q => KeyBefore(s[p], s[q])
             r == Replay(ids)
  <1>1. Cardinality(ids) = n
    BY FS_Interval
  <1>2. Power[KeyWidth] \in Nat
    BY PowerStep, RuntimeAssumption
  <1>3. ids \subseteq Keyed
    BY <1>2 DEF Keyed
  <1>4. Counted(n) \in [1 .. n -> ids] /\ Sorted(Counted(n))
    <2>1. ASSUME NEW p \in 1 .. n, NEW q \in 1 .. n, p < q
          PROVE  KeyBefore(p - 1, q - 1)
      <3>1. p - 1 \in Keyed /\ q - 1 \in Keyed /\ p - 1 < q - 1
        BY <1>3, <2>1
      <3> QED BY <3>1, KeysOrdered
    <2> QED BY <2>1 DEF Counted
  <1>5. r = CHOOSE s \in [1 .. n -> ids] : Sorted(s)
    BY <1>1 DEF Replay
  <1>6. r \in [1 .. n -> ids] /\ Sorted(r)
    <2> HIDE DEF ids, Sorted, r
    <2> QED BY <1>4, <1>5
  <1> HIDE DEF r
  <1>7. ASSUME NEW p \in 1 .. n, NEW q \in 1 .. n, p < q
        PROVE  r[p] < r[q]
    <2>1. KeyBefore(r[p], r[q]) /\ r[p] \in Keyed /\ r[q] \in Keyed
      BY <1>3, <1>6, <1>7
    <2> QED BY <2>1, KeysOrdered
  <1>8. \A p \in 1 .. n : r[p] = p - 1
    BY <1>6, <1>7, IncreasingIsIdentity
  <1> QED BY <1>6, <1>8 DEF Counted, r

\* A finite log without gaps is counted through by its replay.
LEMMA LogCounts ==
    ASSUME NEW ids \in SUBSET Ids, \A i \in ids : 0 .. i \subseteq ids
    PROVE  \E n \in 0 .. NumInstances : ids = 0 .. n - 1 /\ Replay(ids) = Counted(n)
  <1>1. NumInstances \in Nat /\ Power[KeyWidth] \in Nat /\ NumInstances <= Power[KeyWidth]
    BY PowerStep, RuntimeAssumption
  <1>2. NumInstances \in Nat \ ids
    BY <1>1 DEF Ids
  <1>3. PICK n \in Nat \ ids : \A m \in Nat \ ids : n <= m
    BY <1>2, LeastNatural
  <1>4. \A i \in ids : i \in Nat /\ i < n
    BY <1>3 DEF Ids
  <1>5. ids \subseteq 0 .. n - 1 /\ 0 .. n - 1 \subseteq ids
    BY <1>3, <1>4
  <1>6. n \in 0 .. NumInstances /\ n <= Power[KeyWidth]
    BY <1>1, <1>2, <1>3
  <1> QED BY <1>5, <1>6, ReplayCounts

-----------------------------------------------------------------------------
(* The lock.  Its holder and its waiter are known from where the call and    *)
(* the background task are: this is what bounds the queue, and gives it a    *)
(* head and a tail wherever the actions take them.                           *)

Caller == call.pc \in {"lock", "queue"}
Worker == task \in {"lock", "commit", "apply", "record", "reply"}

CallerWaits == <<"background", "propose">>
WorkerWaits == <<"propose", "background">>

LockInv ==
    /\ ~Caller /\ ~Worker => algorithm = << >>
    /\ Caller /\ ~Worker => algorithm = <<"propose">>
    /\ ~Caller /\ Worker => algorithm = <<"background">>
    /\ Caller /\ Worker => algorithm \in {CallerWaits, WorkerWaits}
    /\ call.pc = "queue" => Head(algorithm) = "propose"
    /\ Worker /\ task # "lock" => Head(algorithm) = "background"

CallInv ==
    /\ call.pc # "none" => calls # 0
    /\ call.pc = "queue" => call.left # 0
    /\ Appended => last_applied_command_id \in Ids

TypeInv == TypeOK /\ LockInv /\ CallInv

LEMMA PairAppended ==
    ASSUME NEW x, NEW y
    PROVE  Append(<<x>>, y) = <<x, y>>
  <1> DEFINE S == {x, y}
             s == Append(<<x>>, y)
             t == <<x, y>>
  <1>1. s \in Seq(S) /\ t \in Seq(S) /\ Len(s) = 2 /\ Len(t) = 2
    OBVIOUS
  <1>2. \A i \in 1 .. Len(s) : s[i] = t[i]
    <2>1. s[1] = t[1] /\ s[2] = t[2]
      OBVIOUS
    <2> QED BY <1>1, <2>1
  <1> HIDE DEF s, t
  <1>3. s = t
    BY <1>1, <1>2, SeqEqual
  <1> QED BY <1>3 DEF s, t

LEMMA Queues ==
    /\ Append(<< >>, "propose") = <<"propose">>
    /\ Append(<< >>, "background") = <<"background">>
    /\ Append(<<"background">>, "propose") = CallerWaits
    /\ Append(<<"propose">>, "background") = WorkerWaits
    /\ Head(<<"propose">>) = "propose" /\ Tail(<<"propose">>) = << >>
    /\ Head(<<"background">>) = "background" /\ Tail(<<"background">>) = << >>
    /\ Head(CallerWaits) = "background" /\ Tail(CallerWaits) = <<"propose">>
    /\ Head(WorkerWaits) = "propose" /\ Tail(WorkerWaits) = <<"background">>
  BY PairAppended DEF CallerWaits, WorkerWaits

LEMMA LockTyped ==
    ASSUME LockInv
    PROVE  algorithm \in Seq({"propose", "background"}) /\ Len(algorithm) <= 2
  <1> DEFINE S == {"propose", "background"}
             Good(s) == s \in Seq(S) /\ Len(s) <= 2
  <1>1. Good(<< >>) /\ Good(<<"propose">>) /\ Good(<<"background">>)
    OBVIOUS
  <1>2. Good(CallerWaits) /\ Good(WorkerWaits)
    BY DEF CallerWaits, WorkerWaits
  <1>3. algorithm \in {<< >>, <<"propose">>, <<"background">>, CallerWaits,
                       WorkerWaits}
    BY DEF LockInv
  <1> HIDE DEF Good
  <1>4. Good(algorithm)
    BY <1>1, <1>2, <1>3
  <1> QED BY <1>4 DEF Good

LEMMA LockStays ==
    ASSUME LockInv, UNCHANGED algorithm, Caller' <=> Caller, Worker' <=> Worker,
           call'.pc = "queue" => Head(algorithm) = "propose",
           Worker' /\ task' # "lock" => Head(algorithm) = "background"
    PROVE  LockInv'
  BY DEF LockInv

LEMMA LockTaken ==
    ASSUME LockInv,
           \/ /\ algorithm' = Append(algorithm, "propose")
              /\ ~Caller /\ Caller' /\ call'.pc # "queue" /\ UNCHANGED task
           \/ /\ algorithm' = Append(algorithm, "background")
              /\ ~Worker /\ task' = "lock" /\ UNCHANGED call
    PROVE  LockInv'
  <1>1. CASE /\ algorithm' = Append(algorithm, "propose")
             /\ ~Caller /\ Caller' /\ call'.pc # "queue" /\ UNCHANGED task
    <2>1. CASE Worker
      <3>1. algorithm = <<"background">> /\ algorithm' = CallerWaits
        BY <1>1, <2>1, Queues DEF LockInv
      <3> QED BY <1>1, <2>1, <3>1, Queues DEF LockInv, Worker
    <2>2. CASE ~Worker
      <3>1. algorithm' = <<"propose">>
        BY <1>1, <2>2, Queues DEF LockInv
      <3> QED BY <1>1, <2>2, <3>1, Queues DEF LockInv, Worker
    <2> QED BY <2>1, <2>2
  <1>2. CASE /\ algorithm' = Append(algorithm, "background")
             /\ ~Worker /\ task' = "lock" /\ UNCHANGED call
    <2>1. Worker'
      BY <1>2 DEF Worker
    <2>2. CASE Caller
      <3>1. algorithm' = WorkerWaits
        BY <1>2, <2>2, Queues DEF LockInv
      <3> QED BY <1>2, <2>1, <2>2, <3>1, Queues DEF LockInv, Caller
    <2>3. CASE ~Caller
      <3>1. algorithm' = <<"background">>
        BY <1>2, <2>3, Queues DEF LockInv
      <3> QED BY <1>2, <2>1, <2>3, <3>1, Queues DEF LockInv, Caller
    <2> QED BY <2>2, <2>3
  <1> QED BY <1>1, <1>2

LEMMA LockReleased ==
    ASSUME LockInv, algorithm' = Tail(algorithm),
           \/ /\ Caller /\ Head(algorithm) = "propose"
              /\ ~Caller' /\ call'.pc # "queue" /\ UNCHANGED task
           \/ /\ Worker /\ Head(algorithm) = "background"
              /\ ~Worker' /\ UNCHANGED call
    PROVE  LockInv'
  <1>1. CASE /\ Caller /\ Head(algorithm) = "propose"
             /\ ~Caller' /\ call'.pc # "queue" /\ UNCHANGED task
    <2>1. CASE Worker
      <3>1. algorithm = WorkerWaits /\ algorithm' = <<"background">>
        BY <1>1, <2>1, Queues DEF LockInv
      <3> QED BY <1>1, <2>1, <3>1, Queues DEF LockInv, Worker
    <2>2. CASE ~Worker
      <3>1. algorithm' = << >>
        BY <1>1, <2>2, Queues DEF LockInv
      <3> QED BY <1>1, <2>2, <3>1 DEF LockInv, Worker
    <2> QED BY <2>1, <2>2
  <1>2. CASE /\ Worker /\ Head(algorithm) = "background"
             /\ ~Worker' /\ UNCHANGED call
    <2>1. CASE Caller
      <3>1. algorithm = CallerWaits /\ algorithm' = <<"propose">>
        BY <1>2, <2>1, Queues DEF LockInv
      <3> QED BY <1>2, <2>1, <3>1, Queues DEF LockInv, Caller
    <2>2. CASE ~Caller
      <3>1. algorithm' = << >>
        BY <1>2, <2>2, Queues DEF LockInv
      <3> QED BY <1>2, <2>2, <3>1 DEF LockInv, Caller
    <2> QED BY <2>1, <2>2
  <1> QED BY <1>1, <1>2

-----------------------------------------------------------------------------
(* Types.  TypeOK by groups of variables, so that a step is asked only about *)
(* the groups it writes.                                                     *)

DiskTyped ==
    /\ log \subseteq Ids
    /\ last_applied \in 0 .. NumInstances
    /\ acceptors \in 0 .. NumInstances

EnvTyped ==
    /\ status \in {"up", "down", "refused"}
    /\ refused \subseteq Failing
    /\ found \in [log : SUBSET Ids, last_applied : 0 .. NumInstances]
    /\ crashes \in 0 .. MaxCrashes
    /\ errors \in 0 .. MaxErrors

NodeTyped ==
    /\ next_instance_id \in 0 .. NumInstances
    /\ learned \subseteq Ids
    /\ pending_senders \in [Ids -> Calls \cup {NoCall}]
    /\ forwarded_senders \subseteq Calls

LoopTyped ==
    /\ sender \in Calls \cup {NoCall}
    /\ last_applied_command_id \in 0 .. NumInstances
    /\ state_machine \in Seq(Ids)

TaskTyped ==
    /\ task \in {"select", "lock", "commit", "apply", "record", "reply", "send",
                 "dead"}
    /\ outbox \in 0 .. OutboxCapacity

CallTypes == [pc : {"none", "lock", "queue", "wait"}, left : 0 .. 2]

ClientTyped ==
    /\ call \in CallTypes
    /\ calls \in 0 .. MaxCalls
    /\ answered \subseteq Ids

Typed ==
    DiskTyped /\ EnvTyped /\ NodeTyped /\ LoopTyped /\ TaskTyped /\ ClientTyped

LEMMA TypedMeans == LockInv => (TypeOK <=> Typed)
  BY LockTyped DEF TypeOK, Typed, DiskTyped, EnvTyped, NodeTyped, LoopTyped,
                   TaskTyped, CallTypes, ClientTyped

LEMMA Bounds ==
    /\ NumInstances \in Nat /\ MaxCalls \in Nat /\ MaxCrashes \in Nat
    /\ MaxErrors \in Nat /\ OutboxCapacity \in Nat \ {0}
    /\ Ids = 0 .. NumInstances - 1 /\ Calls = 1 .. MaxCalls /\ NoCall = 0
  BY RuntimeAssumption DEF Ids, Calls, NoCall

LEMMA InitTypes == Init => TypeInv
  <1> SUFFICES ASSUME Init PROVE TypeInv
    OBVIOUS
  <1>1. LockInv
    BY DEF Init, LockInv, Caller, Worker, Idle
  <1>2. Typed
    BY Bounds DEF Init, Typed, DiskTyped, EnvTyped, NodeTyped, LoopTyped,
                  TaskTyped, CallTypes, ClientTyped, Idle, NewDisk
  <1>3. CallInv
    BY DEF Init, CallInv, Idle, Appended
  <1> QED BY <1>1, <1>2, <1>3, TypedMeans DEF TypeInv

\* A call that returns leaves another value of its type.
LEMMA IdleTyped == Idle \in CallTypes /\ Idle.pc = "none"
  BY DEF Idle, CallTypes

LEMMA ReturnTyped ==
    ASSUME call \in CallTypes, ReturnIfDropped
    PROVE  /\ call' \in CallTypes
           /\ call' = call \/ (call.pc = "wait" /\ call'.pc = "none")
  BY IdleTyped DEF ReturnIfDropped

LEMMA LargerTyped ==
    ASSUME NEW a \in 0 .. NumInstances, NEW b \in 0 .. NumInstances
    PROVE  Larger(a, b) \in 0 .. NumInstances
  BY DEF Larger

LEMMA TypedNext == LockInv' /\ Typed' /\ CallInv' => TypeInv'
  <1>1. (LockInv => (TypeOK <=> Typed))'
    BY TypedMeans, PTL
  <1> QED BY <1>1 DEF TypeInv

\* The conditions that LockStays puts on the task, where the task stays.
LEMMA CallerMoves ==
    ASSUME TypeInv, UNCHANGED <<task, last_applied_command_id>>,
           Typed', LockInv', call'.pc # "none" => calls' # 0,
           call'.pc = "queue" => call'.left # 0
    PROVE  TypeInv'
  BY TypedNext DEF TypeInv, CallInv, Appended

LEMMA CallTypesKept == TypeInv /\ Call => TypeInv'
  <1> SUFFICES ASSUME TypeInv, Call PROVE TypeInv'
    OBVIOUS
  <1>1. LockInv /\ Typed /\ CallInv
    BY TypedMeans DEF TypeInv
  <1>2. /\ call.pc = "none" /\ calls < MaxCalls
        /\ calls' = calls + 1 /\ call' = [pc |-> "lock", left |-> 0]
        /\ algorithm' = Append(algorithm, "propose")
        /\ UNCHANGED <<disk, env, node, task, loop, outbox, answered>>
    BY DEF Call
  <1>3. LockInv'
    BY <1>1, <1>2, LockTaken DEF Caller
  <1>4. ClientTyped'
    BY <1>1, <1>2, Bounds DEF Typed, ClientTyped, CallTypes
  <1>5. Typed'
    BY <1>1, <1>2, <1>4 DEF Typed, DiskTyped, EnvTyped, NodeTyped, LoopTyped,
                            TaskTyped, disk, env, node, loop
  <1>6. calls' # 0
    BY <1>1, <1>2, Bounds DEF Typed, ClientTyped
  <1> QED BY <1>2, <1>3, <1>5, <1>6, CallerMoves DEF loop

\* A new instance is opened: what Open writes keeps its type.
LEMMA OpenTypes ==
    ASSUME Typed, NEW c \in Calls \cup {NoCall}, Open(c)
    PROVE  DiskTyped' /\ NodeTyped'
  <1>1. next_instance_id + 1 \in 0 .. NumInstances
    BY Bounds DEF Open
  <1>2. acceptors' \in 0 .. NumInstances
    BY <1>1, LargerTyped DEF Open, Typed, DiskTyped
  <1> QED BY <1>1, <1>2 DEF Open, Typed, DiskTyped, NodeTyped

LEMMA ProposeTypes ==
    TypeInv /\ (ProposeHere \/ Forward \/ ProposeFails) => TypeInv'
  <1> SUFFICES ASSUME TypeInv, ProposeHere \/ Forward \/ ProposeFails
               PROVE  TypeInv'
    OBVIOUS
  <1>1. LockInv /\ Typed /\ CallInv
    BY TypedMeans DEF TypeInv
  <1>2. /\ call.pc = "lock" /\ Head(algorithm) = "propose"
        /\ calls \in Calls
        /\ UNCHANGED <<loop, task, outbox, calls, answered>>
    BY <1>1, Bounds DEF ProposeHere, Forward, ProposeFails, Locked, CallInv,
                        Typed, ClientTyped
  <1>3. CASE ProposeHere \/ Forward
    <2>1. /\ \/ call' = [pc |-> "queue", left |-> 2]
             \/ call' = [pc |-> "queue", left |-> 1]
          /\ UNCHANGED <<env, algorithm>>
      BY <1>3 DEF ProposeHere, Forward
    <2>2. call'.pc = "queue" /\ call'.left # 0 /\ call' \in CallTypes
      BY <2>1 DEF CallTypes
    <2>3. LockInv'
      <3>1. Head(algorithm) = "background" <=> FALSE
        BY <1>2
      <3>2. (Caller' <=> Caller) /\ (Worker' <=> Worker)
        BY <1>2, <2>2 DEF Caller, Worker
      <3>3. Worker' /\ task' # "lock" => Head(algorithm) = "background"
        BY <1>1, <1>2 DEF LockInv, Worker
      <3> QED BY <1>1, <1>2, <2>1, <3>2, <3>3, LockStays
    <2>4. DiskTyped' /\ NodeTyped'
      <3>1. CASE ProposeHere
        BY <1>1, <1>2, <3>1, OpenTypes DEF ProposeHere
      <3>2. CASE Forward
        BY <1>1, <1>2, <3>2 DEF Forward, disk, Typed, DiskTyped, NodeTyped
      <3> QED BY <1>3, <3>1, <3>2
    <2>5. Typed'
      BY <1>1, <1>2, <2>1, <2>2, <2>4
      DEF Typed, EnvTyped, LoopTyped, TaskTyped, ClientTyped, env, loop
    <2>6. calls' # 0
      BY <1>2, Bounds
    <2> QED BY <1>2, <2>2, <2>3, <2>5, <2>6, CallerMoves DEF loop
  <1>4. CASE ProposeFails
    <2>1. /\ next_instance_id \in Ids /\ errors < MaxErrors
          /\ errors' = errors + 1 /\ next_instance_id' = next_instance_id + 1
          /\ acceptors' \in {acceptors, Larger(acceptors, next_instance_id + 1)}
          /\ algorithm' = Tail(algorithm) /\ call' = Idle
          /\ UNCHANGED <<log, last_applied, status, refused, found, crashes,
                         learned, pending_senders, forwarded_senders>>
      BY <1>4 DEF ProposeFails
    <2>4. /\ next_instance_id' \in 0 .. NumInstances
          /\ acceptors' \in 0 .. NumInstances
      <3>1. next_instance_id + 1 \in 0 .. NumInstances
        BY <2>1, Bounds
      <3> QED BY <1>1, <2>1, <3>1, LargerTyped DEF Typed, DiskTyped
    <2>2. LockInv'
      BY <1>1, <1>2, <2>1, LockReleased, IdleTyped DEF Caller
    <2>3. Typed'
      BY <1>1, <1>2, <2>1, <2>4, IdleTyped, Bounds
      DEF Typed, DiskTyped, EnvTyped, NodeTyped, LoopTyped, TaskTyped,
          ClientTyped, loop
    <2> QED BY <1>2, <2>1, <2>2, <2>3, CallerMoves, IdleTyped DEF loop
  <1> QED BY <1>3, <1>4

LEMMA QueueTypes == TypeInv /\ (Queue \/ QueueFails \/ Timeout) => TypeInv'
  <1> SUFFICES ASSUME TypeInv, Queue \/ QueueFails \/ Timeout
               PROVE  TypeInv'
    OBVIOUS
  <1>1. LockInv /\ Typed /\ CallInv
    BY TypedMeans DEF TypeInv
  <1>2. UNCHANGED <<disk, env, node, task, loop, calls, answered>>
    BY DEF Queue, QueueFails, Timeout
  <1>3. /\ call.pc # "none"
        /\ call.pc = "queue" => Head(algorithm) = "propose"
        /\ Worker /\ task # "lock" => Head(algorithm) = "background"
    BY <1>1 DEF Queue, QueueFails, Timeout, LockInv
  <1>4. call' \in CallTypes /\ outbox' \in 0 .. OutboxCapacity
    <2>1. CASE Queue
      <3>1. outbox' \in 0 .. OutboxCapacity
        BY <1>1, <2>1, Bounds DEF Queue, Typed, TaskTyped
      <3>2. CASE call.left = 1
        BY <2>1, <3>1, <3>2 DEF Queue, CallTypes
      <3>3. CASE call.left # 1
        <4>1. call.left - 1 \in 0 .. 2 /\ call \in CallTypes
          BY <1>1, <2>1, <3>3 DEF Queue, CallInv, Typed, ClientTyped, CallTypes
        <4>2. call' = [call EXCEPT !.left = call.left - 1]
          BY <2>1, <3>3 DEF Queue
        <4> QED BY <3>1, <4>1, <4>2 DEF CallTypes
      <3> QED BY <3>2, <3>3
    <2>2. CASE QueueFails \/ Timeout
      BY <1>1, <2>2, IdleTyped DEF QueueFails, Timeout, Typed, TaskTyped
    <2> QED BY <2>1, <2>2
  <1>5. /\ call'.pc # "none" => calls' # 0
        /\ call'.pc = "queue" => call'.left # 0
    <2>1. calls' # 0
      BY <1>1, <1>2, <1>3 DEF CallInv
    <2>2. call'.pc = "queue" => call'.left # 0
      <3>1. CASE Queue /\ call.left # 1
        <4>1. call.left \in 0 .. 2 /\ call.left # 0 /\ call.left # 1
          BY <1>1, <3>1 DEF Queue, CallInv, Typed, ClientTyped, CallTypes
        <4>2. call' = [call EXCEPT !.left = call.left - 1] /\ call \in CallTypes
          BY <1>1, <3>1 DEF Queue, Typed, ClientTyped
        <4> QED BY <4>1, <4>2 DEF CallTypes
      <3>2. CASE (Queue /\ call.left = 1) \/ QueueFails \/ Timeout
        BY <3>2, IdleTyped DEF Queue, QueueFails, Timeout
      <3> QED BY <3>1, <3>2
    <2> QED BY <2>1, <2>2
  <1>6. LockInv'
    <2>1. CASE Queue /\ call.left # 1
      <3>1. call \in CallTypes /\ call' = [call EXCEPT !.left = call.left - 1]
        BY <1>1, <2>1 DEF Queue, Typed, ClientTyped
      <3>2. call'.pc = "queue" /\ call.pc = "queue" /\ UNCHANGED algorithm
        BY <2>1, <3>1 DEF Queue, CallTypes
      <3>3. (Caller' <=> Caller) /\ (Worker' <=> Worker)
        BY <1>2, <3>2 DEF Caller, Worker
      <3>4. Worker' /\ task' # "lock" => Head(algorithm) = "background"
        BY <1>2, <1>3, <3>3
      <3> QED BY <1>1, <1>3, <3>2, <3>3, <3>4, LockStays
    <2>2. CASE (Queue /\ call.left = 1) \/ QueueFails
      <3>1. /\ algorithm' = Tail(algorithm) /\ call.pc = "queue"
            /\ call'.pc \in {"wait", "none"}
        BY <2>2, IdleTyped DEF Queue, QueueFails
      <3>2. Caller /\ ~Caller' /\ call'.pc # "queue" /\ UNCHANGED task
        BY <1>2, <3>1 DEF Caller
      <3> QED BY <1>1, <1>3, <3>1, <3>2, LockReleased
    <2>3. CASE Timeout
      <3>1. call.pc = "wait" /\ call'.pc = "none" /\ UNCHANGED algorithm
        BY <2>3, IdleTyped DEF Timeout
      <3>2. (Caller' <=> Caller) /\ (Worker' <=> Worker)
        BY <1>2, <3>1 DEF Caller, Worker
      <3>3. Worker' /\ task' # "lock" => Head(algorithm) = "background"
        BY <1>2, <1>3, <3>2
      <3> QED BY <1>1, <1>3, <3>1, <3>2, <3>3, LockStays
    <2> QED BY <2>1, <2>2, <2>3
  <1>7. Typed'
    BY <1>1, <1>2, <1>4
    DEF Typed, DiskTyped, EnvTyped, NodeTyped, LoopTyped, TaskTyped,
        ClientTyped, disk, env, node, loop
  <1> QED BY <1>2, <1>5, <1>6, <1>7, CallerMoves DEF loop

\* A step of the background task that holds the lock and keeps it, or has none
\* and takes none.
LEMMA WorkerMoves ==
    ASSUME LockInv, UNCHANGED algorithm, Worker' <=> Worker,
           Worker => Head(algorithm) = "background",
           \/ UNCHANGED call
           \/ call.pc = "wait" /\ call'.pc = "none"
    PROVE  LockInv'
  <1>1. call'.pc = "queue" => Head(algorithm) = "propose"
    BY DEF LockInv
  <1>2. Caller' <=> Caller
    BY DEF Caller
  <1> QED BY <1>1, <1>2, LockStays

LEMMA HandleTypes == TypeInv /\ HandleMessage => TypeInv'
  <1> SUFFICES ASSUME TypeInv, HandleMessage PROVE TypeInv'
    OBVIOUS
  <1>1. LockInv /\ Typed /\ CallInv
    BY TypedMeans DEF TypeInv
  <1>2. /\ task = "lock" /\ task' = "commit"
        /\ Head(algorithm) = "background"
        /\ UNCHANGED <<env, algorithm, loop, outbox, calls, answered>>
    BY DEF HandleMessage
  <1> DEFINE CallOK == /\ call' \in CallTypes
                       /\ call' = call \/ (call.pc = "wait" /\ call'.pc = "none")
  <1>3. call \in CallTypes /\ NoCall \in Calls \cup {NoCall}
    BY <1>1 DEF Typed, ClientTyped
  <1>4. DiskTyped' /\ NodeTyped' /\ CallOK
    <2>1. ASSUME NEW i \in Ids, HearOf(i)
          PROVE  DiskTyped' /\ NodeTyped' /\ CallOK
      <3>1. i + 1 \in 0 .. NumInstances
        BY Bounds
      <3>2. /\ Larger(next_instance_id, i + 1) \in 0 .. NumInstances
            /\ Larger(acceptors, i + 1) \in 0 .. NumInstances
        BY <1>1, <3>1, LargerTyped DEF Typed, DiskTyped, NodeTyped
      <3> QED BY <1>1, <1>3, <2>1, <3>2 DEF HearOf, Typed, DiskTyped, NodeTyped
    <2>2. CASE ProposeForwarded
      <3>1. CallOK
        BY <1>3, <2>2, ReturnTyped DEF ProposeForwarded
      <3> QED BY <1>1, <1>3, <2>2, <3>1, OpenTypes DEF ProposeForwarded
    <2>3. ASSUME NEW c \in forwarded_senders, NEW i \in Ids, MapForwarded(c, i)
          PROVE  DiskTyped' /\ NodeTyped' /\ CallOK
      <3>1. CallOK
        BY <1>3, <2>3, ReturnTyped DEF MapForwarded
      <3>2. c \in Calls \cup {NoCall}
        BY <1>1 DEF Typed, NodeTyped
      <3> QED
        BY <1>1, <2>3, <3>1, <3>2 DEF MapForwarded, Typed, DiskTyped, NodeTyped,
                                     disk
    <2>4. CASE DropForwarded
      BY <1>1, <1>3, <2>4 DEF DropForwarded, Typed, DiskTyped, NodeTyped, disk, node
    <2> QED BY <2>1, <2>2, <2>3, <2>4 DEF HandleMessage
  <1>5. LockInv'
    <2>1. (Worker' <=> Worker) /\ (call' = call \/ (call.pc = "wait" /\ call'.pc = "none"))
      BY <1>2, <1>4 DEF Worker
    <2> QED BY <1>1, <1>2, <2>1, WorkerMoves
  <1>6. Typed'
    <2>1. TaskTyped' /\ EnvTyped' /\ LoopTyped'
      BY <1>1, <1>2 DEF Typed, TaskTyped, EnvTyped, LoopTyped, env, loop
    <2>2. ClientTyped'
      BY <1>1, <1>2, <1>4 DEF Typed, ClientTyped
    <2> QED BY <1>4, <2>1, <2>2 DEF Typed
  <1>7. CallInv'
    BY <1>1, <1>2, <1>4 DEF CallInv, Appended
  <1> QED BY <1>5, <1>6, <1>7, TypedNext

LEMMA PanicTypes == TypeInv /\ Panic => TypeInv'
  <1> SUFFICES ASSUME TypeInv, Panic PROVE TypeInv'
    OBVIOUS
  <1>1. LockInv /\ Typed /\ CallInv
    BY TypedMeans DEF TypeInv
  <1>2. /\ task = "lock" /\ Head(algorithm) = "background"
        /\ errors < MaxErrors /\ errors' = errors + 1
        /\ task' = "dead" /\ algorithm' = Tail(algorithm) /\ outbox' = 0
        /\ UNCHANGED <<log, last_applied, status, refused, found, crashes,
                       learned, pending_senders, forwarded_senders, loop, client>>
    BY DEF Panic
  <1>3. PICK i \in Ids :
          /\ next_instance_id' = Larger(next_instance_id, i + 1)
          /\ acceptors' \in {acceptors, Larger(acceptors, i + 1)}
    BY DEF Panic
  <1>4. /\ next_instance_id' \in 0 .. NumInstances
        /\ acceptors' \in 0 .. NumInstances
    <2>1. i + 1 \in 0 .. NumInstances
      BY Bounds
    <2> QED BY <1>1, <1>3, <2>1, LargerTyped DEF Typed, DiskTyped, NodeTyped
  <1>5. LockInv'
    <2>1. Worker /\ ~Worker' /\ UNCHANGED call
      BY <1>2 DEF Worker, client
    <2> QED BY <1>1, <1>2, <2>1, LockReleased
  <1>6. Typed'
    <2>1. DiskTyped' /\ NodeTyped' /\ EnvTyped'
      BY <1>1, <1>2, <1>4, Bounds DEF Typed, DiskTyped, NodeTyped, EnvTyped
    <2>2. TaskTyped' /\ LoopTyped' /\ ClientTyped'
      BY <1>1, <1>2, Bounds DEF Typed, TaskTyped, LoopTyped, ClientTyped, loop,
                                client
    <2> QED BY <2>1, <2>2 DEF Typed
  <1>7. CallInv'
    BY <1>1, <1>2 DEF CallInv, Appended, client
  <1> QED BY <1>5, <1>6, <1>7, TypedNext

LEMMA CommitTypes == TypeInv /\ (Commit \/ Apply) => TypeInv'
  <1> SUFFICES ASSUME TypeInv, Commit \/ Apply PROVE TypeInv'
    OBVIOUS
  <1>1. LockInv /\ Typed /\ CallInv
    BY TypedMeans DEF TypeInv
  <1> DEFINE i == last_applied_command_id
  <1>2. /\ task \in {"commit", "apply"} /\ task' \in {"apply", "record"}
        /\ i \in Ids
        /\ UNCHANGED <<last_applied, acceptors, env, algorithm,
                       next_instance_id, learned, forwarded_senders,
                       last_applied_command_id, outbox, client>>
    <2>1. CASE Commit
      BY <1>1, <2>1 DEF Commit, Typed, NodeTyped
    <2>2. CASE Apply
      BY <1>1, <2>2 DEF Apply, CallInv, Appended, disk, node
    <2> QED BY <2>1, <2>2
  <1>3. /\ log' \subseteq Ids /\ sender' \in Calls \cup {NoCall}
        /\ pending_senders' \in [Ids -> Calls \cup {NoCall}]
        /\ state_machine' \in Seq(Ids)
    <2>1. CASE Commit
      BY <1>1, <1>2, <2>1
      DEF Commit, AppendLog, Typed, DiskTyped, NodeTyped, LoopTyped
    <2>2. CASE Apply
      BY <1>1, <1>2, <2>2 DEF Apply, disk, node, Typed, DiskTyped, NodeTyped,
                              LoopTyped
    <2> QED BY <2>1, <2>2
  <1>4. LockInv'
    <2>1. Worker /\ Worker' /\ task # "lock" /\ UNCHANGED call
      BY <1>2 DEF Worker, client
    <2> QED BY <1>1, <1>2, <2>1, WorkerMoves DEF LockInv
  <1>5. Typed'
    <2>1. DiskTyped' /\ NodeTyped' /\ EnvTyped'
      BY <1>1, <1>2, <1>3 DEF Typed, DiskTyped, NodeTyped, EnvTyped, env
    <2>2. TaskTyped' /\ LoopTyped' /\ ClientTyped'
      BY <1>1, <1>2, <1>3 DEF Typed, TaskTyped, LoopTyped, ClientTyped, client
    <2> QED BY <2>1, <2>2 DEF Typed
  <1>6. CallInv'
    BY <1>1, <1>2 DEF CallInv, client
  <1> QED BY <1>4, <1>5, <1>6, TypedNext

LEMMA PassTypes == TypeInv /\ (ApplyFails \/ SetLastApplied \/ Reply) => TypeInv'
  <1> SUFFICES ASSUME TypeInv, ApplyFails \/ SetLastApplied \/ Reply
               PROVE  TypeInv'
    OBVIOUS
  <1>1. LockInv /\ Typed /\ CallInv
    BY TypedMeans DEF TypeInv
  <1> DEFINE i == last_applied_command_id
  <1>2. /\ task \in {"apply", "record", "reply"}
        /\ task' \in {"commit", "reply"}
        /\ UNCHANGED <<log, acceptors, env, algorithm, node, state_machine,
                       outbox, calls>>
    BY DEF ApplyFails, SetLastApplied, Reply, disk, loop, client
  <1>3. i \in Ids /\ i + 1 \in 0 .. NumInstances
    <2>1. i \in Ids
      BY <1>1, <1>2 DEF CallInv, Appended
    <2> QED BY <2>1, Bounds
  <1>4. /\ i' \in 0 .. NumInstances /\ sender' \in Calls \cup {NoCall}
        /\ last_applied' \in 0 .. NumInstances
        /\ task' = "reply" => i' \in Ids
    BY <1>1, <1>3 DEF ApplyFails, SetLastApplied, Reply, Typed, LoopTyped,
                      DiskTyped, disk, loop
  <1>5. /\ call' \in CallTypes
        /\ call' = call \/ (call.pc = "wait" /\ call'.pc = "none")
        /\ answered' \subseteq Ids
    BY <1>1, <1>3, IdleTyped DEF ApplyFails, SetLastApplied, Reply, Typed,
                                 ClientTyped, client
  <1>6. LockInv'
    <2>1. Worker /\ Worker' /\ task # "lock"
      BY <1>2 DEF Worker
    <2> QED BY <1>1, <1>2, <1>5, <2>1, WorkerMoves DEF LockInv
  <1>7. Typed'
    <2>1. DiskTyped' /\ NodeTyped' /\ EnvTyped'
      BY <1>1, <1>2, <1>4 DEF Typed, DiskTyped, NodeTyped, EnvTyped, env, node
    <2>2. TaskTyped' /\ LoopTyped' /\ ClientTyped'
      BY <1>1, <1>2, <1>4, <1>5 DEF Typed, TaskTyped, LoopTyped, ClientTyped
    <2> QED BY <2>1, <2>2 DEF Typed
  <1>8. CallInv'
    BY <1>1, <1>2, <1>4, <1>5 DEF CallInv, Appended
  <1> QED BY <1>6, <1>7, <1>8, TypedNext

LEMMA SelectTypes ==
    TypeInv /\ (TakeMessage \/ CommitEnds \/ TakeOutbox \/ Send) => TypeInv'
  <1> SUFFICES ASSUME TypeInv, TakeMessage \/ CommitEnds \/ TakeOutbox \/ Send
               PROVE  TypeInv'
    OBVIOUS
  <1>1. LockInv /\ Typed /\ CallInv
    BY TypedMeans DEF TypeInv
  <1>2. UNCHANGED <<disk, env, node, loop, client>>
    BY DEF TakeMessage, CommitEnds, TakeOutbox, Send
  <1>3. TaskTyped' /\ ~Appended'
    BY <1>1, Bounds DEF TakeMessage, CommitEnds, TakeOutbox, Send, Typed,
                        TaskTyped, Appended
  <1>4. LockInv'
    <2>1. CASE TakeMessage
      <3>1. /\ algorithm' = Append(algorithm, "background")
            /\ ~Worker /\ task' = "lock" /\ UNCHANGED call
        BY <1>2, <2>1 DEF TakeMessage, Worker, client
      <3> QED BY <1>1, <3>1, LockTaken
    <2>2. CASE CommitEnds
      <3>1. /\ algorithm' = Tail(algorithm) /\ Worker /\ task # "lock"
            /\ ~Worker' /\ UNCHANGED call
        BY <1>2, <2>2 DEF CommitEnds, Release, Worker, client
      <3>2. Head(algorithm) = "background"
        BY <1>1, <3>1 DEF LockInv
      <3> QED BY <1>1, <3>1, <3>2, LockReleased
    <2>3. CASE TakeOutbox \/ Send
      <3>1. UNCHANGED algorithm /\ ~Worker /\ ~Worker' /\ UNCHANGED call
        BY <1>2, <2>3 DEF TakeOutbox, Send, Worker, client
      <3> QED BY <1>1, <3>1, WorkerMoves
    <2> QED BY <2>1, <2>2, <2>3
  <1>5. Typed'
    BY <1>1, <1>2, <1>3 DEF Typed, DiskTyped, NodeTyped, EnvTyped, LoopTyped,
                            ClientTyped, disk, env, node, loop, client
  <1>6. CallInv'
    BY <1>1, <1>2, <1>3 DEF CallInv, client
  <1> QED BY <1>4, <1>5, <1>6, TypedNext

LEMMA CrashTypes == TypeInv /\ Crash => TypeInv'
  <1> SUFFICES ASSUME TypeInv, Crash PROVE TypeInv'
    OBVIOUS
  <1>1. LockInv /\ Typed /\ CallInv
    BY TypedMeans DEF TypeInv
  <1>2. LockInv' /\ CallInv'
    BY IdleTyped DEF Crash, LockInv, CallInv, Caller, Worker, Appended
  <1>3. DiskTyped' /\ EnvTyped' /\ NodeTyped'
    BY <1>1, Bounds DEF Crash, Typed, DiskTyped, EnvTyped, NodeTyped, NewDisk,
                        disk
  <1>4. LoopTyped' /\ TaskTyped' /\ ClientTyped'
    BY <1>1, Bounds, IdleTyped DEF Crash, Typed, LoopTyped, TaskTyped,
                                   ClientTyped
  <1> QED BY <1>2, <1>3, <1>4, TypedNext DEF Typed

\* The replayed log is a state of the state machine.
LEMMA ReplayTyped ==
    ASSUME RecoverySkipsNothing, log \subseteq Ids
    PROVE  Replay(log) \in Seq(Ids)
  <1>1. PICK n \in 0 .. NumInstances : log = 0 .. n - 1 /\ Replay(log) = Counted(n)
    BY LogCounts DEF RecoverySkipsNothing
  <1>2. \A p \in 1 .. n : p - 1 \in Ids
    BY <1>1, Bounds
  <1>3. n \in Nat
    BY <1>1, Bounds
  <1>4. Counted(n) \in [1 .. n -> Ids]
    BY <1>2 DEF Counted
  <1> QED BY <1>1, <1>3, <1>4

LEMMA RecoverTypes ==
    TypeInv /\ Inv /\ (Recover \/ RecoverFails) => TypeInv'
  <1> SUFFICES ASSUME TypeInv, Inv, Recover \/ RecoverFails PROVE TypeInv'
    OBVIOUS
  <1>1. LockInv /\ Typed /\ CallInv
    BY TypedMeans DEF TypeInv
  <1>2. /\ task = "dead" /\ task' \in {"select", "dead"}
        /\ status' \in {"up", "refused"}
        /\ UNCHANGED <<disk, refused, crashes, errors, algorithm, learned,
                       pending_senders, forwarded_senders, sender, outbox,
                       client>>
    BY DEF Recover, RecoverFails, Inv, CountersInv, node, loop
  <1>3. /\ state_machine' \in Seq(Ids)
        /\ last_applied_command_id' \in 0 .. NumInstances
        /\ next_instance_id' \in 0 .. NumInstances
        /\ found' \in [log : SUBSET Ids, last_applied : 0 .. NumInstances]
    BY <1>1, ReplayTyped DEF Recover, RecoverFails, ResumeAt, Inv, LogInv, node,
                             loop, Typed, DiskTyped, EnvTyped, NodeTyped,
                             LoopTyped
  <1>4. LockInv'
    <2>1. ~Worker /\ ~Worker' /\ UNCHANGED call
      BY <1>2 DEF Worker, client
    <2> QED BY <1>1, <1>2, <2>1, WorkerMoves
  <1>5. Typed'
    <2>1. DiskTyped' /\ EnvTyped' /\ NodeTyped'
      BY <1>1, <1>2, <1>3 DEF Typed, DiskTyped, EnvTyped, NodeTyped, disk
    <2>2. LoopTyped' /\ TaskTyped' /\ ClientTyped'
      BY <1>1, <1>2, <1>3 DEF Typed, LoopTyped, TaskTyped, ClientTyped, client
    <2> QED BY <2>1, <2>2 DEF Typed
  <1>6. CallInv'
    BY <1>1, <1>2 DEF CallInv, Appended, client
  <1> QED BY <1>4, <1>5, <1>6, TypedNext

LEMMA StutterTypes == TypeInv /\ UNCHANGED vars => TypeInv'
  <1> SUFFICES ASSUME TypeInv, UNCHANGED vars PROVE TypeInv'
    OBVIOUS
  <1>1. LockInv' /\ CallInv'
    BY DEF TypeInv, LockInv, CallInv, Caller, Worker, Appended, vars, loop, client
  <1>2. Typed'
    BY TypedMeans DEF TypeInv, Typed, DiskTyped, EnvTyped, NodeTyped, LoopTyped,
                      TaskTyped, ClientTyped, vars, disk, env, node, loop, client
  <1> QED BY <1>1, <1>2, TypedNext

LEMMA StepTypes == TypeInv /\ Inv /\ [Next]_vars => TypeInv'
  BY CallTypesKept, ProposeTypes, QueueTypes, HandleTypes, PanicTypes,
     CommitTypes, PassTypes, SelectTypes, CrashTypes, RecoverTypes, StutterTypes
  DEF Next, ClientStep, BackgroundStep, CommitStep

\* Every variable keeps its type: among them, never more than two tasks are in
\* line for the algorithm, a node replays and resumes only what it can hold, and
\* the outbox never holds more than its capacity.
THEOREM TypesHold == Spec => []TypeOK
  <1>1. Spec => []Inv
    BY InitInv, StepInv, PTL DEF Spec
  <1>2. Spec => []TypeInv
    BY <1>1, InitTypes, StepTypes, PTL DEF Spec
  <1>3. TypeInv => TypeOK
    BY DEF TypeInv
  <1> QED BY <1>2, <1>3, PTL

\* The keys that are in the log or may come to be there are in byte order in the
\* order of their instances, for every width of the key and every base: replay
\* reads the log in the order in which it was applied.
THEOREM KeysSorted == Spec => []KeysInOrder
  <1>1. TypeOK => KeysInOrder
    <2> SUFFICES ASSUME TypeOK PROVE KeysInOrder
      OBVIOUS
    <2>1. log \subseteq Ids /\ last_applied \in Nat
      BY Bounds DEF TypeOK
    <2>2. /\ NumInstances \in Nat /\ NumInstances <= Power[KeyWidth]
          /\ Power[KeyWidth] \in Nat
      BY PowerStep, RuntimeAssumption
    <2> DEFINE P == Power[KeyWidth]
    <2>3. log \cup (last_applied .. P - 1) \subseteq 0 .. P - 1
      <3> HIDE DEF P
      <3>1. Ids \subseteq 0 .. P - 1 /\ last_applied .. P - 1 \subseteq 0 .. P - 1
        BY <2>1, <2>2 DEF Ids, P
      <3> QED BY <2>1, <3>1
    <2> QED BY <2>3, KeysOrdered DEF KeysInOrder, Keyed
  <1> QED BY <1>1, TypesHold, PTL

-----------------------------------------------------------------------------
(* What the apply loop has done in this life of the node.  A stop loses the  *)
(* state machine; the replay of the log makes it again, and may bring back   *)
(* one command more than was recorded, the one that was under way.           *)

\* The command is applied and the loop has not gone on.
Applied == task \in {"record", "reply"}

\* In the log, x is the only command that is neither recorded nor refused.
\* While the node is up that is the command the loop stands at, and the log ends
\* there.
OnlyExtra(x) ==
    /\ status = "up" => x = last_applied_command_id
    /\ \A i \in log : /\ i < last_applied \/ i \in refused \/ i = x
                      /\ status = "up" => i <= x

LeftoverInv == \E x \in Nat : OnlyExtra(x)

Follows(s, p, gone) ==
    LET before == IF p = 1 THEN 0 ELSE s[p - 1]
        next == IF p = 1 THEN 0 ELSE s[p - 1] + 1
    IN  /\ s[p] >= before
        /\ next .. s[p] - 1 \subseteq gone

InOrder == \A p \in DOMAIN state_machine : Follows(state_machine, p, refused)

\* The instance after the last one applied.
Top == IF state_machine = << >> THEN 0 ELSE state_machine[Len(state_machine)] + 1

ReachInv ==
    IF Applied THEN Top = last_applied_command_id + 1
    ELSE /\ Top <= last_applied_command_id + 1
         /\ status = "up" => Top .. last_applied_command_id - 1 \subseteq refused

BoundInv == \A p \in DOMAIN state_machine : state_machine[p] <= last_applied_command_id

\* The loop stands at a command that this life has applied already.
Again == status = "up" /\ ~Applied /\ Top = last_applied_command_id + 1

\* What was replayed is the log that this life found, n commands long.  One of
\* them is repeated, the one after the recorded ones, and nothing after it; the
\* loop stands at a command it has applied before that only.
RepeatsAfter(n) ==
    /\ found.log = 0 .. n - 1
    /\ \A p \in DOMAIN state_machine \ {1} :
          state_machine[p] = state_machine[p - 1] =>
              /\ p = n + 1
              /\ state_machine[p] = found.last_applied
              /\ state_machine[p] \in found.log
    /\ Again => /\ Len(state_machine) = n
                /\ last_applied_command_id = found.last_applied
                /\ last_applied_command_id \in found.log

OnceInv == \E n \in Nat : RepeatsAfter(n)

AnswersApplied ==
    status = "up" =>
        \A i \in answered : \E p \in DOMAIN state_machine : state_machine[p] = i

LoopInv ==
    LeftoverInv /\ InOrder /\ ReachInv /\ BoundInv /\ OnceInv /\ AnswersApplied

followed ==
    <<log, last_applied, status, refused, found, last_applied_command_id,
      state_machine, answered>>

LEMMA LoopStays ==
    ASSUME LoopInv, UNCHANGED followed, Applied' <=> Applied
    PROVE  LoopInv'
  <1>1. UNCHANGED Top
    BY DEF followed, Top
  <1>2. LeftoverInv' /\ ReachInv' /\ AnswersApplied'
    BY <1>1 DEF LoopInv, LeftoverInv, OnlyExtra, ReachInv, AnswersApplied, followed
  <1>3. InOrder' /\ BoundInv'
    BY DEF LoopInv, InOrder, Follows, BoundInv, followed
  <1>4. OnceInv'
    BY <1>1 DEF LoopInv, OnceInv, RepeatsAfter, Again, followed
  <1> QED BY <1>2, <1>3, <1>4 DEF LoopInv

LEMMA InitLoop == Init => LoopInv
  <1> SUFFICES ASSUME Init PROVE LoopInv
    OBVIOUS
  <1>1. /\ log = {} /\ state_machine = << >> /\ answered = {}
        /\ last_applied_command_id = 0 /\ task = "select" /\ status = "up"
        /\ last_applied = 0 /\ found.log = {}
    BY DEF Init, NewDisk
  <1>2. LeftoverInv /\ InOrder /\ ReachInv /\ BoundInv
    BY <1>1 DEF LeftoverInv, OnlyExtra, InOrder, ReachInv, BoundInv, Applied, Top
  <1>3. OnceInv /\ AnswersApplied
    <2>1. RepeatsAfter(0)
      BY <1>1 DEF RepeatsAfter, Again, Top
    <2> QED BY <1>1, <2>1 DEF OnceInv, AnswersApplied
  <1> QED BY <1>2, <1>3 DEF LoopInv

LEMMA LoopTypes ==
    ASSUME TypeOK
    PROVE  /\ last_applied \in Nat /\ last_applied_command_id \in Nat
           /\ log \subseteq Nat
           /\ Len(state_machine) \in Nat
           /\ DOMAIN state_machine = 1 .. Len(state_machine)
           /\ \A p \in DOMAIN state_machine : state_machine[p] \in Nat
           /\ state_machine = << >> <=> Len(state_machine) = 0
           /\ Top \in Nat
  <1>1. /\ state_machine \in Seq(Ids) /\ Ids \subseteq Nat
        /\ last_applied \in Nat /\ last_applied_command_id \in Nat
        /\ log \subseteq Ids
    BY Bounds DEF TypeOK
  <1>2. /\ Len(state_machine) \in Nat
        /\ DOMAIN state_machine = 1 .. Len(state_machine)
        /\ \A p \in DOMAIN state_machine : state_machine[p] \in Ids
        /\ state_machine = << >> <=> Len(state_machine) = 0
    BY <1>1
  <1>3. Top \in Nat
    <2>1. CASE state_machine = << >>
      BY <2>1 DEF Top
    <2>2. CASE state_machine # << >>
      <3>1. Len(state_machine) \in DOMAIN state_machine
        BY <1>2, <2>2
      <3>2. state_machine[Len(state_machine)] \in Nat
        BY <1>1, <1>2, <3>1
      <3> QED BY <2>2, <3>2 DEF Top
    <2> QED BY <2>1, <2>2
  <1> QED BY <1>1, <1>2, <1>3

\* The steps that write only the log or only last_applied.
LEMMA RecordLoop ==
    ASSUME TypeOK, Inv, LoopInv, Commit \/ SetLastApplied
    PROVE  LoopInv'
  <1> DEFINE i == last_applied_command_id
  <1>0. last_applied \in Nat /\ i \in Nat /\ log \subseteq Nat
    BY LoopTypes
  <1>1. /\ UNCHANGED <<status, refused, found, last_applied_command_id,
                       state_machine, answered>>
        /\ Applied' <=> Applied
        /\ \/ log' = log \cup {i} /\ last_applied' = last_applied
           \/ log' = log /\ last_applied' = i + 1
    BY DEF Commit, AppendLog, SetLastApplied, Applied, env, loop, client
  <1>2. status = "up"
    BY DEF Inv, CountersInv, Commit, SetLastApplied
  <1>3. PICK x \in Nat : OnlyExtra(x)
    BY DEF LoopInv, LeftoverInv
  <1>4. OnlyExtra(x)'
    <2>1. ASSUME NEW j \in log'
          PROVE  (j < last_applied' \/ j \in refused \/ j = x) /\ j <= x
      <3>1. x = i /\ i \in Nat
        BY <1>0, <1>2, <1>3 DEF OnlyExtra
      <3>2. CASE j \in log
        <4>1. (j < last_applied \/ j \in refused \/ j = x) /\ j <= x /\ j \in Nat
          BY <1>0, <1>2, <1>3, <3>2 DEF OnlyExtra
        <4> QED BY <1>0, <1>1, <3>1, <4>1
      <3>3. CASE j = i
        BY <3>1, <3>3
      <3> QED BY <1>1, <2>1, <3>2, <3>3
    <2> QED BY <1>1, <1>2, <1>3, <2>1 DEF OnlyExtra
  <1>5. LeftoverInv'
    BY <1>4 DEF LeftoverInv
  <1>6. UNCHANGED Top
    BY <1>1 DEF Top
  <1>7. InOrder' /\ BoundInv' /\ ReachInv' /\ AnswersApplied'
    BY <1>1, <1>6 DEF LoopInv, InOrder, Follows, BoundInv, ReachInv, AnswersApplied
  <1>8. OnceInv'
    BY <1>1, <1>6 DEF LoopInv, OnceInv, RepeatsAfter, Again
  <1> QED BY <1>5, <1>7, <1>8 DEF LoopInv

\* The loop goes on: after apply has refused the command, or the client has its
\* answer.
LEMMA PassLoop ==
    ASSUME TypeOK, Inv, LoopInv, ApplyFails \/ Reply
    PROVE  LoopInv'
  <1> DEFINE i == last_applied_command_id
  <1>0. /\ last_applied \in Nat /\ i \in Nat /\ log \subseteq Nat /\ Top \in Nat
        /\ DOMAIN state_machine = 1 .. Len(state_machine)
        /\ Len(state_machine) \in Nat
        /\ \A p \in DOMAIN state_machine : state_machine[p] \in Nat
        /\ state_machine = << >> <=> Len(state_machine) = 0
    BY LoopTypes
  <1>1. /\ UNCHANGED <<log, last_applied, status, refused, found, state_machine>>
        /\ i' = i + 1 /\ ~Applied'
        /\ answered' \in {answered, answered \cup {i}}
        /\ \/ ~Applied /\ i \in refused /\ answered' = answered
           \/ task = "reply"
    BY DEF ApplyFails, Reply, Applied, disk, env
  <1>2. status = "up"
    BY DEF Inv, CountersInv, ApplyFails, Reply
  <1>3. OnlyExtra(i)
    BY <1>2 DEF LoopInv, LeftoverInv, OnlyExtra
  <1>4. LeftoverInv'
    <2>1. task = "reply" => last_applied = i + 1
      BY <1>2 DEF Inv, FollowInv
    <2>2. ASSUME NEW j \in log'
          PROVE  (j < last_applied' \/ j \in refused') /\ j <= i + 1
      BY <1>0, <1>1, <1>2, <1>3, <2>1, <2>2 DEF OnlyExtra
    <2>3. PICK y \in Nat : y = i + 1
      BY <1>0
    <2>4. OnlyExtra(y)'
      BY <1>1, <2>2, <2>3 DEF OnlyExtra
    <2> QED BY <2>4 DEF LeftoverInv
  <1>5. BoundInv' /\ \A p \in DOMAIN state_machine' : state_machine'[p] < i + 1
    BY <1>0, <1>1 DEF LoopInv, BoundInv
  <1>6. OnceInv'
    <2>1. Top <= i + 1
      BY <1>0 DEF LoopInv, ReachInv
    <2>2. UNCHANGED Top
      BY <1>1 DEF Top
    <2>3. ~Again'
      BY <1>0, <1>1, <2>1, <2>2 DEF Again
    <2> QED BY <1>1, <2>3 DEF LoopInv, OnceInv, RepeatsAfter
  <1>7. InOrder'
    BY <1>1 DEF LoopInv, InOrder, Follows
  <1>8. ReachInv'
    <2>1. Top' = Top
      BY <1>1 DEF Top
    <2>2. CASE task = "reply"
      <3>1. Top = i + 1
        BY <2>2 DEF LoopInv, ReachInv, Applied
      <3>2. Top' <= i' + 1 /\ Top' .. i' - 1 \subseteq refused'
        BY <1>0, <1>1, <2>1, <3>1
      <3> QED BY <1>1, <3>2 DEF ReachInv
    <2>3. CASE ~Applied /\ i \in refused
      <3>1. Top <= i + 1 /\ Top .. i - 1 \subseteq refused
        BY <1>2, <2>3 DEF LoopInv, ReachInv
      <3>2. Top' <= i' + 1 /\ Top' .. i' - 1 \subseteq refused'
        BY <1>0, <1>1, <2>1, <2>3, <3>1
      <3> QED BY <1>1, <3>2 DEF ReachInv
    <2> QED BY <1>1, <2>2, <2>3
  <1>9. AnswersApplied'
    <2>1. \A j \in answered : \E p \in DOMAIN state_machine : state_machine[p] = j
      BY <1>2 DEF LoopInv, AnswersApplied
    <2>2. CASE answered' = answered
      BY <1>1, <2>1, <2>2 DEF AnswersApplied
    <2>3. CASE task = "reply"
      <3>1. Top = i + 1
        BY <2>3 DEF LoopInv, ReachInv, Applied
      <3>2. state_machine # << >>
        BY <1>0, <3>1 DEF Top
      <3>3. Len(state_machine) \in DOMAIN state_machine
        BY <1>0, <3>2
      <3>4. state_machine[Len(state_machine)] = i
        BY <1>0, <3>1, <3>2, <3>3 DEF Top
      <3> QED BY <1>1, <2>1, <3>3, <3>4 DEF AnswersApplied
    <2> QED BY <1>1, <2>2, <2>3
  <1> QED BY <1>4, <1>5, <1>6, <1>7, <1>8, <1>9 DEF LoopInv

\* The command is appended to what was applied.
LEMMA ApplyLoop ==
    ASSUME TypeInv, Inv, LoopInv, Apply
    PROVE  LoopInv'
  <1> DEFINE i == last_applied_command_id
             n == Len(state_machine)
             sm == state_machine
             s == state_machine'
  <1>0. /\ i \in Nat /\ Top \in Nat /\ n \in Nat /\ DOMAIN sm = 1 .. n
        /\ \A p \in DOMAIN sm : sm[p] \in Nat
        /\ sm = << >> <=> n = 0
    BY LoopTypes DEF TypeInv
  <1>1. /\ task = "apply" /\ task' = "record" /\ s = Append(sm, i)
        /\ UNCHANGED <<log, last_applied, status, refused, found,
                       last_applied_command_id, answered>>
    BY DEF Apply, disk, env, client
  <1>2. status = "up" /\ ~Applied /\ Applied'
    BY <1>1 DEF Inv, CountersInv, Applied
  <1>3. /\ Len(s) = n + 1 /\ DOMAIN s = 1 .. n + 1 /\ s # << >>
        /\ \A p \in 1 .. n : s[p] = sm[p]
        /\ s[n + 1] = i
    <2>1. sm \in Seq(Ids) /\ i \in Ids
      BY <1>1 DEF TypeInv, TypeOK, CallInv, Appended
    <2> QED BY <1>1, <2>1
  <1>4. LeftoverInv'
    BY <1>1 DEF LoopInv, LeftoverInv, OnlyExtra
  <1>5. BoundInv'
    <2>1. \A p \in 1 .. n : sm[p] <= i
      BY <1>0 DEF LoopInv, BoundInv
    <2>2. ASSUME NEW p \in DOMAIN s
          PROVE  s[p] <= i
      <3>1. p \in 1 .. n \/ p = n + 1
        BY <1>0, <1>3
      <3> HIDE DEF s, sm, n, i
      <3> QED BY <1>0, <1>3, <2>1, <3>1
    <2> QED BY <1>1, <2>2 DEF BoundInv
  <1>6. ReachInv'
    <2>1. Top' = i + 1
      BY <1>3 DEF Top
    <2> QED BY <1>1, <1>2, <2>1 DEF ReachInv
  <1>7. InOrder'
    <2>1. ASSUME NEW p \in 1 .. n
          PROVE  Follows(s, p, refused)
      <3>1. Follows(sm, p, refused)
        BY <1>0 DEF LoopInv, InOrder
      <3>2. s[p] = sm[p] /\ (p # 1 => s[p - 1] = sm[p - 1])
        <4>1. p # 1 => p - 1 \in 1 .. n
          BY <1>0
        <4> QED BY <1>3, <4>1
      <3> HIDE DEF s, sm, n, i
      <3> QED BY <3>1, <3>2 DEF Follows
    <2>2. Follows(s, n + 1, refused)
      <3>1. Top <= i + 1 /\ Top .. i - 1 \subseteq refused
        BY <1>2 DEF LoopInv, ReachInv
      <3>2. CASE n = 0
        <4>1. Top = 0 /\ n + 1 = 1
          BY <1>0, <3>2 DEF Top
        <4> HIDE DEF s, sm, n, i
        <4> QED BY <1>0, <1>3, <3>1, <4>1 DEF Follows
      <3>3. CASE n # 0
        <4>1. Top = sm[n] + 1 /\ n + 1 # 1 /\ n + 1 - 1 = n /\ n \in 1 .. n
          BY <1>0, <3>3 DEF Top
        <4>2. sm[n] \in Nat /\ s[n] = sm[n]
          BY <1>0, <1>3, <4>1
        <4>3. i >= sm[n] /\ sm[n] + 1 .. i - 1 \subseteq refused
          <5> HIDE DEF s, sm, n, i
          <5> QED BY <1>0, <3>1, <4>1, <4>2
        <4> HIDE DEF s, sm, n, i
        <4> QED BY <1>3, <4>1, <4>2, <4>3 DEF Follows
      <3> QED BY <3>2, <3>3
    <2>3. ASSUME NEW p \in DOMAIN s
          PROVE  Follows(s, p, refused')
      <3>1. p \in 1 .. n \/ p = n + 1
        BY <1>0, <1>3
      <3>2. Follows(s, p, refused)
        <4> HIDE DEF s, n
        <4> QED BY <2>1, <2>2, <3>1
      <3> QED BY <1>1, <3>2
    <2> QED BY <2>3 DEF InOrder
  <1>8. OnceInv'
    <2>1. PICK m \in Nat : RepeatsAfter(m)
      BY DEF LoopInv, OnceInv
    <2>2. \A p \in (1 .. n) \ {1} :
             sm[p] = sm[p - 1] => /\ p = m + 1 /\ sm[p] = found.last_applied
                                  /\ sm[p] \in found.log
      BY <1>0, <2>1 DEF RepeatsAfter
    <2>3. ASSUME NEW p \in (1 .. n + 1) \ {1}, s[p] = s[p - 1]
          PROVE  p = m + 1 /\ s[p] = found.last_applied /\ s[p] \in found.log
      <3>1. CASE p \in 1 .. n
        <4>1. p - 1 \in 1 .. n
          BY <1>0, <3>1
        <4>2. s[p] = sm[p] /\ s[p - 1] = sm[p - 1]
          BY <1>3, <3>1, <4>1
        <4> HIDE DEF s, sm, n, i
        <4> QED BY <2>2, <2>3, <3>1, <4>2
      <3>2. CASE p = n + 1
        <4>1. p - 1 = n /\ n \in 1 .. n /\ n # 0
          BY <1>0, <3>2
        <4>2. sm[n] = i
          BY <1>3, <2>3, <3>2, <4>1
        <4>3. Top = i + 1
          BY <1>0, <4>1, <4>2 DEF Top
        <4>4. Again
          BY <1>2, <4>3 DEF Again
        <4> QED BY <1>3, <2>1, <3>2, <4>4 DEF RepeatsAfter
      <3>3. p \in 1 .. n \/ p = n + 1
        BY <1>0
      <3> QED BY <3>1, <3>2, <3>3
    <2>4. RepeatsAfter(m)'
      BY <1>1, <1>2, <1>3, <2>1, <2>3 DEF RepeatsAfter, Again
    <2> QED BY <2>4 DEF OnceInv
  <1>9. AnswersApplied'
    <2>1. ASSUME NEW j \in answered
          PROVE  \E p \in DOMAIN s : s[p] = j
      <3>1. PICK p \in 1 .. n : sm[p] = j
        BY <1>0, <1>2 DEF LoopInv, AnswersApplied
      <3>2. p \in 1 .. n + 1 /\ s[p] = j
        BY <1>0, <1>3, <3>1
      <3> QED BY <1>3, <3>2
    <2> QED BY <1>1, <2>1 DEF AnswersApplied
  <1> QED BY <1>4, <1>5, <1>6, <1>7, <1>8, <1>9 DEF LoopInv

LEMMA CrashLoop ==
    ASSUME LoopInv, Crash
    PROVE  LoopInv'
  <1>1. /\ status' = "down" /\ state_machine' = << >>
        /\ last_applied_command_id' = 0 /\ task' = "dead"
        /\ found'.log = {}
        /\ UNCHANGED <<log, last_applied, refused>>
    BY DEF Crash, NewDisk, disk
  <1>2. LeftoverInv' /\ AnswersApplied'
    BY <1>1 DEF LoopInv, LeftoverInv, OnlyExtra, AnswersApplied
  <1>3. InOrder' /\ BoundInv' /\ ReachInv'
    BY <1>1 DEF InOrder, BoundInv, ReachInv, Applied, Top
  <1>4. OnceInv'
    <2>1. RepeatsAfter(0)'
      BY <1>1 DEF RepeatsAfter, Again
    <2> QED BY <2>1 DEF OnceInv
  <1> QED BY <1>2, <1>3, <1>4 DEF LoopInv

\* The replay applies what was recorded and at most one command more.
LEMMA RecoverLoop ==
    ASSUME TypeOK, Inv, LoopInv, Recover
    PROVE  LoopInv'
  <1> DEFINE i == last_applied
             s == state_machine'
  <1>1. /\ status = "down" /\ log \cap refused = {}
        /\ status' = "up" /\ task' = "select"
        /\ s = Replay(log) /\ last_applied_command_id' = i
        /\ found'.log = log /\ found'.last_applied = i
        /\ UNCHANGED <<log, last_applied, refused, answered>>
    BY DEF Recover, ResumeAt, disk, client
  <1>2. PICK n \in 0 .. NumInstances : log = 0 .. n - 1 /\ s = Counted(n)
    BY <1>1, LogCounts DEF TypeOK, Inv, LogInv, RecoverySkipsNothing
  <1>3. i \in Nat /\ n \in Nat /\ 0 .. i - 1 \subseteq log
    BY <1>2, LoopTypes, Bounds DEF Inv, LogInv, RecoverySkipsNothing
  <1>4. n = i \/ n = i + 1
    <2>1. i <= n
      <3>1. CASE i = 0
        BY <1>3, <3>1
      <3>2. CASE i # 0
        <4>1. i - 1 \in 0 .. n - 1
          BY <1>2, <1>3, <3>2
        <4> QED BY <1>3, <4>1
      <3> QED BY <3>1, <3>2
    <2>2. PICK x \in Nat : OnlyExtra(x)
      BY DEF LoopInv, LeftoverInv
    <2>3. \A j \in log : j < i \/ j = x
      BY <1>1, <2>2 DEF OnlyExtra
    <2>4. ASSUME n > i + 1
          PROVE  FALSE
      <3>1. i \in log /\ i + 1 \in log
        BY <1>2, <1>3, <2>4
      <3> QED BY <1>3, <2>3, <3>1
    <2> QED BY <1>3, <2>1, <2>4
  <1>5. /\ DOMAIN s = 1 .. n /\ Len(s) = n
        /\ \A p \in 1 .. n : s[p] = p - 1
        /\ s = << >> <=> n = 0
    <2>1. DOMAIN s = 1 .. n /\ \A p \in 1 .. n : s[p] = p - 1
      BY <1>2 DEF Counted
    <2>2. Len(s) = n /\ (s = << >> <=> n = 0)
      <3>1. s \in [1 .. n -> Nat]
        BY <1>2, <1>3 DEF Counted
      <3>2. s \in Seq(Nat) /\ Len(s) = n
        BY <1>3, <3>1
      <3> QED BY <3>2, EmptySeq
    <2> QED BY <2>1, <2>2
  <1> HIDE DEF s
  <1>6. LeftoverInv'
    <2>1. \A j \in log : (j < i \/ j = i) /\ j <= i
      BY <1>2, <1>3, <1>4
    <2>2. PICK x \in Nat : x = i
      BY <1>3
    <2>3. OnlyExtra(x)'
      BY <1>1, <2>1, <2>2 DEF OnlyExtra
    <2> QED BY <2>3 DEF LeftoverInv
  <1>7. BoundInv'
    <2>1. \A p \in 1 .. n : s[p] <= i
      BY <1>3, <1>4, <1>5
    <2> QED BY <1>1, <1>5, <2>1 DEF BoundInv, s
  <1>8. Top' = n
    <2>1. CASE n = 0
      BY <1>5, <2>1 DEF Top, s
    <2>2. CASE n # 0
      <3>1. s[n] = n - 1
        BY <1>3, <1>5, <2>2
      <3>2. s[n] + 1 = n
        BY <1>3, <3>1
      <3> QED BY <1>5, <2>2, <3>2 DEF Top, s
    <2> QED BY <2>1, <2>2
  <1>9. ReachInv'
    <2>1. n <= i + 1 /\ n .. i - 1 = {}
      BY <1>3, <1>4
    <2> QED BY <1>1, <1>8, <2>1 DEF ReachInv, Applied
  <1>10. InOrder'
    <2>1. ASSUME NEW p \in 1 .. n
          PROVE  Follows(s, p, refused')
      <3>1. CASE p = 1
        BY <1>3, <1>5, <3>1 DEF Follows
      <3>2. CASE p # 1
        <4>1. s[p] = p - 1 /\ s[p - 1] = p - 2
          BY <1>3, <1>5, <3>2
        <4>2. s[p] >= s[p - 1] /\ s[p - 1] + 1 .. s[p] - 1 = {}
          BY <1>3, <4>1
        <4> QED BY <3>2, <4>2 DEF Follows
      <3> QED BY <3>1, <3>2
    <2> QED BY <1>5, <2>1 DEF InOrder, s
  <1>11. OnceInv'
    <2>1. \A p \in (1 .. n) \ {1} : s[p] # s[p - 1]
      BY <1>3, <1>5
    <2>2. ASSUME Again'
          PROVE  Len(s) = n /\ i = found'.last_applied /\ i \in found'.log
      <3>1. n = i + 1
        BY <1>1, <1>8, <2>2 DEF Again
      <3> QED BY <1>1, <1>2, <1>3, <1>5, <3>1
    <2>3. RepeatsAfter(n)'
      BY <1>1, <1>2, <1>5, <2>1, <2>2 DEF RepeatsAfter, s
    <2> QED BY <1>3, <2>3 DEF OnceInv
  <1>12. AnswersApplied'
    <2>1. ASSUME NEW j \in answered
          PROVE  \E p \in 1 .. n : s[p] = j
      <3>1. j \in 0 .. i - 1
        BY <1>3 DEF Inv, AnswersInv
      <3>2. j + 1 \in 1 .. n
        BY <1>3, <1>4, <3>1
      <3>3. s[j + 1] = j
        BY <1>3, <1>5, <3>1, <3>2
      <3> QED BY <3>2, <3>3
    <2> QED BY <1>1, <1>5, <2>1 DEF AnswersApplied, s
  <1> QED BY <1>6, <1>7, <1>9, <1>10, <1>11, <1>12 DEF LoopInv

LEMMA RefusedLoop ==
    ASSUME Inv, LoopInv, RecoverFails
    PROVE  LoopInv'
  <1>1. /\ status = "down" /\ status' = "refused"
        /\ UNCHANGED <<log, last_applied, refused, found, last_applied_command_id,
                       state_machine, answered, task>>
    BY DEF RecoverFails, disk, loop, client
  <1>2. UNCHANGED Top
    BY <1>1 DEF Top
  <1>3. LeftoverInv' /\ ReachInv' /\ AnswersApplied'
    BY <1>1, <1>2 DEF LoopInv, LeftoverInv, OnlyExtra, ReachInv, Applied,
                      AnswersApplied
  <1>4. InOrder' /\ BoundInv' /\ OnceInv'
    BY <1>1 DEF LoopInv, InOrder, BoundInv, OnceInv, RepeatsAfter, Again
  <1> QED BY <1>3, <1>4 DEF LoopInv

LEMMA StepLoop == TypeInv /\ Inv /\ LoopInv /\ [Next]_vars => LoopInv'
  <1> SUFFICES ASSUME TypeInv, Inv, LoopInv, [Next]_vars PROVE LoopInv'
    OBVIOUS
  <1>0. TypeOK
    BY DEF TypeInv
  <1>1. CASE ClientStep \/ UNCHANGED vars
    <2>1. UNCHANGED followed /\ UNCHANGED task
      BY <1>1 DEF ClientStep, Call, ProposeHere, Open, Forward, ProposeFails,
                  Queue, QueueFails, Timeout, followed, vars, disk, env, node,
                  loop, client
    <2> QED BY <2>1, LoopStays DEF Applied
  <1>2. CASE TakeMessage \/ CommitEnds \/ TakeOutbox \/ Send
    <2>1. UNCHANGED followed /\ ~Applied /\ ~Applied'
      BY <1>2 DEF TakeMessage, CommitEnds, TakeOutbox, Send, Applied, followed,
                  disk, env, loop, client
    <2> QED BY <2>1, LoopStays
  <1>3. CASE HandleMessage \/ Panic
    <2>1. CASE HandleMessage
      <3>1. UNCHANGED <<log, last_applied>>
        BY <2>1 DEF HandleMessage, HearOf, ProposeForwarded, Open, MapForwarded,
                    DropForwarded, disk
      <3>2. UNCHANGED followed /\ ~Applied /\ ~Applied'
        BY <2>1, <3>1 DEF HandleMessage, Applied, followed, env, loop
      <3> QED BY <3>2, LoopStays
    <2>2. CASE Panic
      <3>1. UNCHANGED followed /\ ~Applied /\ ~Applied'
        BY <2>2 DEF Panic, Applied, followed, loop, client
      <3> QED BY <3>1, LoopStays
    <2> QED BY <1>3, <2>1, <2>2
  <1>4. CASE Commit \/ SetLastApplied
    BY <1>0, <1>4, RecordLoop
  <1>5. CASE Apply
    BY <1>5, ApplyLoop
  <1>6. CASE ApplyFails \/ Reply
    BY <1>0, <1>6, PassLoop
  <1>7. CASE Crash
    BY <1>7, CrashLoop
  <1>8. CASE Recover
    BY <1>0, <1>8, RecoverLoop
  <1>9. CASE RecoverFails
    BY <1>9, RefusedLoop
  <1> QED
    BY <1>1, <1>2, <1>3, <1>4, <1>5, <1>6, <1>7, <1>8, <1>9
    DEF Next, BackgroundStep, CommitStep

LEMMA AllHold == Spec => [](TypeInv /\ Inv /\ LoopInv)
  BY InitTypes, InitInv, InitLoop, StepTypes, StepInv, StepLoop, PTL DEF Spec

-----------------------------------------------------------------------------
(* What the loop promises.                                                   *)

LEMMA TimesSet ==
    ASSUME TypeOK, NEW i
    PROVE  LET at == {p \in DOMAIN state_machine : state_machine[p] = i}
           IN  /\ IsFiniteSet(at) /\ Times(i) = Cardinality(at)
               /\ Times(i) \in Nat /\ (Times(i) = 0 <=> at = {})
  <1> DEFINE n == Len(state_machine)
             at == {p \in DOMAIN state_machine : state_machine[p] = i}
  <1>1. n \in Nat /\ at \subseteq 1 .. n
    BY LoopTypes
  <1>2. IsFiniteSet(at)
    BY <1>1, FS_Interval, FS_Subset
  <1>3. Cardinality(at) \in Nat /\ (Cardinality(at) = 0 <=> at = {})
    <2> HIDE DEF at
    <2> QED BY <1>2, FS_CardinalityType, FS_EmptySet
  <1> QED BY <1>2, <1>3 DEF Times

\* What was answered is recorded, and applied in every later life of the node
\* before it serves again: that the client relies on its output is justified
\* wherever the node stops, and however often.
THEOREM AnswersSurvive == Spec => []AnsweredSurvives
  <1>1. TypeInv /\ Inv /\ LoopInv => AnsweredSurvives
    <2> SUFFICES ASSUME TypeInv, Inv, LoopInv PROVE AnsweredSurvives
      OBVIOUS
    <2>1. AnswersRecorded
      BY DEF Inv, CountersInv, LogInv, AnswersInv, RecoverySkipsNothing,
             AnswersRecorded
    <2>2. ASSUME NEW i \in answered, status = "up"
          PROVE  Times(i) > 0
      <3>1. PICK p \in DOMAIN state_machine : state_machine[p] = i
        BY <2>2 DEF LoopInv, AnswersApplied
      <3>2. Times(i) \in Nat /\ Times(i) # 0
        BY <3>1, TimesSet DEF TypeInv
      <3> QED BY <3>2
    <2> QED BY <2>1, <2>2 DEF AnsweredSurvives
  <1> QED BY <1>1, AllHold, PTL

\* In every life of the node the state machine applies the instances in order
\* and leaves out only what it refuses.  A life repeats no command but the one it
\* found in the log and not recorded in last_applied, which a stop had come in
\* between for, and this once, right after the replay.
THEOREM LoopInOrder == Spec => []AppliedInOrder
  <1>1. LoopInv => AppliedInOrder
    <2> SUFFICES ASSUME LoopInv PROVE AppliedInOrder
      OBVIOUS
    <2>1. PICK n \in Nat : RepeatsAfter(n)
      BY DEF LoopInv, OnceInv
    <2>2. Cardinality(found.log) = n
      <3>1. found.log = 0 .. n - 1
        BY <2>1 DEF RepeatsAfter
      <3> QED BY <3>1, FS_Interval
    <2>3. \A p \in DOMAIN state_machine : Follows(state_machine, p, refused)
      BY DEF LoopInv, InOrder
    <2> QED BY <2>1, <2>2, <2>3 DEF AppliedInOrder, RepeatsAfter, Follows
  <1> QED BY <1>1, AllHold, PTL

-----------------------------------------------------------------------------
(* The node implements DurableLog: its entries are what a restart would      *)
(* replay now.                                                               *)

LEMMA CountedGrows ==
    ASSUME NEW n \in Nat
    PROVE  /\ Len(Counted(n)) = n
           /\ Append(Counted(n), n) = Counted(n + 1)
  <1>1. Counted(n) \in [1 .. n -> Nat] /\ Counted(n + 1) \in [1 .. n + 1 -> Nat]
    BY DEF Counted
  <1>2. /\ Counted(n) \in Seq(Nat) /\ Len(Counted(n)) = n
        /\ Counted(n + 1) \in Seq(Nat) /\ Len(Counted(n + 1)) = n + 1
    BY <1>1
  <1> DEFINE s == Append(Counted(n), n)
  <1>3. /\ s \in Seq(Nat) /\ Len(s) = n + 1 /\ s[n + 1] = n
        /\ \A p \in 1 .. n : s[p] = Counted(n)[p]
    BY <1>2
  <1> HIDE DEF s
  <1>4. ASSUME NEW p \in 1 .. n + 1
        PROVE  s[p] = Counted(n + 1)[p]
    BY <1>3 DEF Counted
  <1>5. s = Counted(n + 1)
    BY <1>2, <1>3, <1>4, SeqEqual
  <1> QED BY <1>2, <1>5 DEF s

LEMMA InitMaps == Init => DL!Init
  <1> SUFFICES ASSUME Init PROVE DL!Init
    OBVIOUS
  <1>1. log = {} /\ answered = {}
    BY DEF Init
  <1>2. Replay(0 .. 0 - 1) = Counted(0)
    BY ReplayCounts, PowerStep, RuntimeAssumption
  <1>3. 0 .. 0 - 1 = {} /\ Counted(0) = << >>
    BY DEF Counted
  <1>4. Replay(log) = << >>
    BY <1>1, <1>2, <1>3
  <1> QED BY <1>1, <1>4 DEF DL!Init

\* The log that Commit leaves is the one it found, or has one instance more.
LEMMA CommitMaps ==
    ASSUME TypeOK, Inv, TypeOK', Inv', Commit
    PROVE  \/ log' = log
           \/ Replay(log') = Append(Replay(log), Len(Replay(log)))
  <1> DEFINE i == last_applied_command_id
  <1>1. log' = log \cup {i} /\ i \in Nat /\ 0 .. i - 1 \subseteq log
    BY LoopTypes DEF Commit, AppendLog, Inv, LogInv
  <1>2. PICK n \in 0 .. NumInstances : log = 0 .. n - 1 /\ Replay(log) = Counted(n)
    BY LogCounts DEF TypeOK, Inv, LogInv, RecoverySkipsNothing
  <1>3. PICK m \in 0 .. NumInstances : log' = 0 .. m - 1 /\ Replay(log') = Counted(m)
    BY LogCounts DEF TypeOK, Inv, LogInv, RecoverySkipsNothing
  <1>4. n \in Nat /\ m \in Nat
    BY Bounds
  <1>5. CASE i \in log
    BY <1>1, <1>5
  <1>6. CASE i \notin log
    <2>1. i = n
      <3>1. i >= n
        BY <1>1, <1>2, <1>4, <1>6
      <3>2. i # 0 => i - 1 \in 0 .. n - 1
        BY <1>1, <1>2
      <3> QED BY <1>1, <1>4, <3>1, <3>2
    <2>2. m = n + 1
      <3>1. 0 .. m - 1 = (0 .. n - 1) \cup {n}
        BY <1>1, <1>2, <1>3, <2>1
      <3>2. n \in 0 .. m - 1
        BY <3>1
      <3>3. m # 0
        BY <1>4, <3>2
      <3>4. m - 1 \in 0 .. m - 1
        BY <1>4, <3>3
      <3>5. m - 1 \in 0 .. n - 1 \/ m - 1 = n
        BY <3>1, <3>4
      <3>6. n <= m - 1 /\ m - 1 <= n
        BY <1>4, <3>2, <3>5
      <3> QED BY <1>4, <3>6
    <2> QED BY <1>2, <1>3, <1>4, <2>2, CountedGrows
  <1> QED BY <1>5, <1>6

LEMMA ReplyMaps ==
    ASSUME TypeOK, Inv, Reply
    PROVE  \/ answered' = answered
           \/ \E i \in 0 .. Len(Replay(log)) - 1 :
                 i \notin answered /\ answered' = answered \cup {i}
  <1> DEFINE i == last_applied_command_id
  <1>1. answered' \in {answered, answered \cup {i}} /\ task = "reply"
    BY DEF Reply
  <1>2. i \in log /\ i \in Nat /\ i \notin answered
    BY <1>1, LoopTypes DEF Inv, LogInv, AnswersInv, CountersInv, Appended
  <1>3. PICK n \in 0 .. NumInstances : log = 0 .. n - 1 /\ Replay(log) = Counted(n)
    BY LogCounts DEF TypeOK, Inv, LogInv, RecoverySkipsNothing
  <1>4. Len(Replay(log)) = n
    BY <1>3, Bounds, CountedGrows
  <1> QED BY <1>1, <1>2, <1>3, <1>4

LEMMA StepMaps ==
    ASSUME TypeOK, Inv, TypeOK', Inv', [Next]_vars
    PROVE  [DL!Next]_(DL!vars)
  <1>1. CASE UNCHANGED <<log, answered>>
    BY <1>1 DEF DL!vars
  <1>2. CASE Commit
    <2>1. UNCHANGED answered
      BY <1>2 DEF Commit, client
    <2>2. CASE log' = log
      BY <2>1, <2>2, <1>1
    <2>3. CASE Replay(log') = Append(Replay(log), Len(Replay(log)))
      BY <2>1, <2>3 DEF DL!Next, DL!Record
    <2> QED BY <1>2, <2>2, <2>3, CommitMaps
  <1>3. CASE Reply
    <2>1. UNCHANGED log
      BY <1>3 DEF Reply, disk
    <2>2. CASE answered' = answered
      BY <2>1, <2>2, <1>1
    <2>3. ASSUME NEW i \in 0 .. Len(Replay(log)) - 1,
                 i \notin answered, answered' = answered \cup {i}
          PROVE  [DL!Next]_(DL!vars)
      <3>1. UNCHANGED Replay(log)
        BY <2>1
      <3>2. DL!Answer(i)
        BY <2>3, <3>1 DEF DL!Answer
      <3> QED BY <3>2 DEF DL!Next
    <2> QED BY <1>3, <2>2, <2>3, ReplyMaps
  <1>4. CASE ClientStep
    <2>1. UNCHANGED <<log, answered>>
      BY <1>4 DEF ClientStep, Call, ProposeHere, Open, Forward, ProposeFails,
                  Queue, QueueFails, Timeout, disk
    <2> QED BY <1>1, <2>1
  <1>5. CASE HandleMessage
    <2>1. UNCHANGED <<log, answered>>
      BY <1>5 DEF HandleMessage, HearOf, ProposeForwarded, Open, MapForwarded,
                  DropForwarded, disk
    <2> QED BY <1>1, <2>1
  <1>6. CASE TakeMessage \/ Panic \/ CommitEnds \/ Apply \/ ApplyFails
               \/ SetLastApplied \/ TakeOutbox \/ Send \/ Crash \/ Recover
               \/ RecoverFails \/ UNCHANGED vars
    <2>1. UNCHANGED <<log, answered>>
      BY <1>6 DEF TakeMessage, Panic, CommitEnds, Apply, ApplyFails,
                  SetLastApplied, TakeOutbox, Send, Crash, Recover,
                  RecoverFails, vars, disk, client
    <2> QED BY <1>1, <2>1
  <1> QED BY <1>2, <1>3, <1>4, <1>5, <1>6 DEF Next, BackgroundStep, CommitStep

\* The node's disk and its answers are a durable log, whatever the number of its
\* instances, calls, stops and errors: every step records the next instance,
\* answers a recorded one for the first time, or is not seen, stops and restarts
\* among them.
THEOREM NodeImplementsDurableLog == Spec => ImplementsDurableLog
  <1>1. TypeInv => TypeOK
    BY DEF TypeInv
  <1>2. Spec => [](TypeOK /\ Inv)
    BY <1>1, AllHold, PTL
  <1> QED BY <1>2, InitMaps, StepMaps, PTL DEF Spec, ImplementsDurableLog, DL!Spec
=============================================================================
