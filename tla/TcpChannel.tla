------------------------------ MODULE TcpChannel ------------------------------
(***************************************************************************)
(* TcpChannel on every node: who dials whom, the greeting with the node's  *)
(* id, the map of connections that send writes to, one reader task per     *)
(* connection that feeds the receiver, and what becomes of all this when a *)
(* process stops or its background task dies.                              *)
(*                                                                         *)
(* A connection has two ends, the dialer's and the acceptor's.  Each has a *)
(* writer, in the map or dropped, and a reader task.  An end whose writer  *)
(* is dropped and whose reader is gone is closed.                          *)
(***************************************************************************)
EXTENDS Naturals, Sequences, FiniteSets

CONSTANTS
    N,              \* the nodes are 0 .. N - 1
    MaxConns,       \* bound: how many connections are ever made
    MaxSends,       \* bound: how many messages are ever sent
    MaxStops,       \* bound: how often a process stops
    MaxDeaths,      \* bound: how often a background task dies
    InboxCapacity,  \* messages the receiver holds (100 in the code)
    PipeCapacity    \* messages the sockets hold in one direction

ASSUME ChannelAssumption ==
    /\ N \in Nat \ {0, 1}
    /\ MaxConns \in Nat /\ MaxSends \in Nat
    /\ MaxStops \in Nat /\ MaxDeaths \in Nat
    /\ InboxCapacity \in Nat \ {0} /\ PipeCapacity \in Nat \ {0}

VARIABLES
    up,         \* up[n]: the process runs
    dial,       \* dial[n][p]: the task of n that keeps a connection to p
    conns,      \* every connection ever made
    entries,    \* entries[n][p]: the connection in the map of n, or NoConn
    task,       \* task[n]: the background task: idle, sending or dead
    todo,       \* todo[n]: the peers send has still to write to
    inbox,      \* inbox[n]: the receiver
    sent,       \* history: sent[n], the messages n has sent
    received,   \* history: received[n], what the background task has taken
    stops, deaths

vars == <<up, dial, conns, entries, task, todo, inbox, sent, received, stops,
          deaths>>

Nodes == 0 .. N - 1
Messages == 1 .. MaxSends
Ends == {"dialer", "acceptor"}
NoConn == 0

Other(e) == IF e = "dialer" THEN "acceptor" ELSE "dialer"

Host(c, e) == IF e = "dialer" THEN conns[c].dialer ELSE conns[c].acceptor

EndOf(c, n) == IF conns[c].dialer = n THEN "dialer" ELSE "acceptor"

Closed(c, e) == conns[c].writer[e] = "dropped" /\ conns[c].reader[e] = "gone"

Unlocked(n) == task[n] # "sending"

Latest(n, p) ==
    CHOOSE c \in DOMAIN conns :
        /\ conns[c].dialer = n /\ conns[c].acceptor = p
        /\ \A d \in c + 1 .. Len(conns) :
              conns[d].dialer # n \/ conns[d].acceptor # p

-----------------------------------------------------------------------------
Init ==
    /\ up = [n \in Nodes |-> FALSE]
    /\ dial = [n \in Nodes |-> [p \in Nodes |-> "off"]]
    /\ conns = << >>
    /\ entries = [n \in Nodes |-> [p \in Nodes |-> NoConn]]
    /\ task = [n \in Nodes |-> "dead"]
    /\ todo = [n \in Nodes |-> {}]
    /\ inbox = [n \in Nodes |-> << >>]
    /\ sent = [n \in Nodes |-> {}]
    /\ received = [n \in Nodes |-> << >>]
    /\ stops = 0 /\ deaths = 0

\* Mutant: every node dials every other.
AllTargets(n) == Nodes \ {n}

\* A node dials the nodes above it, and accepts from all.
Targets(n) == {p \in Nodes : p > n}

\* start: the listener is bound and the dialing tasks are spawned.
Start(n) ==
    /\ ~up[n]
    /\ up' = [up EXCEPT ![n] = TRUE]
    /\ dial' = [dial EXCEPT ![n] =
                  [p \in Nodes |-> IF p \in Targets(n) THEN "connecting"
                                   ELSE "off"]]
    /\ task' = [task EXCEPT ![n] = "idle"]
    /\ UNCHANGED <<conns, entries, todo, inbox, sent, received, stops, deaths>>

-----------------------------------------------------------------------------
(* The dialing task.                                                        *)

NewConn(n, p) ==
    [dialer |-> n, acceptor |-> p, greeted |-> FALSE,
     writer |-> [e \in Ends |-> "open"],
     reader |-> [e \in Ends |-> "none"],
     pipe |-> [e \in Ends |-> << >>]]

Connect(n, p) ==
    /\ dial[n][p] = "connecting"
    /\ up[p]
    /\ Len(conns) < MaxConns
    /\ conns' = Append(conns, NewConn(n, p))
    /\ dial' = [dial EXCEPT ![n][p] = "greeting"]
    /\ UNCHANGED <<up, entries, task, todo, inbox, sent, received, stops, deaths>>

\* Mutant: a refused connection ends the task.
AfterRefusalEnded == "ended"

AfterRefusal == "waiting"

Refused(n, p) ==
    /\ dial[n][p] = "connecting"
    /\ ~up[p]
    /\ dial' = [dial EXCEPT ![n][p] = AfterRefusal]
    /\ UNCHANGED <<up, conns, entries, task, todo, inbox, sent, received, stops,
                   deaths>>

\* The random wait is over.
Retry(n, p) ==
    /\ dial[n][p] = "waiting"
    /\ dial' = [dial EXCEPT ![n][p] = "connecting"]
    /\ UNCHANGED <<up, conns, entries, task, todo, inbox, sent, received, stops,
                   deaths>>

\* send_id writes the id; writing it may fail when the other end is closed.
Greet(n, p) ==
    LET c == Latest(n, p)
    IN  /\ dial[n][p] = "greeting"
        /\ \/ /\ conns' = [conns EXCEPT ![c].greeted = TRUE]
              /\ dial' = [dial EXCEPT ![n][p] = "entering"]
           \/ /\ Closed(c, "acceptor")
              /\ conns' = [conns EXCEPT ![c].writer["dialer"] = "dropped",
                                        ![c].reader["dialer"] = "on"]
              /\ dial' = [dial EXCEPT ![n][p] = "reading"]
        /\ UNCHANGED <<up, entries, task, todo, inbox, sent, received, stops,
                       deaths>>

\* insert: the writer that was in the map for the peer is dropped.
Inserted(known, n, p) ==
    LET old == entries[n][p]
    IN  IF old = NoConn THEN known
        ELSE [known EXCEPT ![old].writer[EndOf(old, n)] = "dropped"]

\* The writer goes in the map; with it there or not, the task goes on to read.
Enter(n, p) ==
    LET c == Latest(n, p)
    IN  /\ dial[n][p] = "entering"
        /\ Unlocked(n)
        /\ dial' = [dial EXCEPT ![n][p] = "reading"]
        /\ entries' = [entries EXCEPT ![n][p] = c]
        /\ conns' = Inserted([conns EXCEPT ![c].reader["dialer"] = "on"], n, p)
        /\ UNCHANGED <<up, task, todo, inbox, sent, received, stops, deaths>>

-----------------------------------------------------------------------------
(* handle_connection, a task of its own for every connection accepted: in   *)
(* any order, however the connections were made.                            *)

\* The writer goes in the map.
Identify(c) ==
    LET n == conns[c].acceptor
        p == conns[c].dialer
    IN  /\ conns[c].reader["acceptor"] = "none"
        /\ conns[c].greeted
        /\ Unlocked(n)
        /\ entries' = [entries EXCEPT ![n][p] = c]
        /\ conns' = Inserted([conns EXCEPT ![c].reader["acceptor"] = "on"], n, p)
        /\ UNCHANGED <<up, dial, task, todo, inbox, sent, received, stops, deaths>>

\* The id cannot be read: the connection is dropped.
Abandon(c) ==
    /\ conns[c].reader["acceptor"] = "none"
    /\ conns[c].writer["dialer"] = "dropped"
    /\ conns' = [conns EXCEPT ![c].writer["acceptor"] = "dropped",
                              ![c].reader["acceptor"] = "gone"]
    /\ UNCHANGED <<up, dial, entries, task, todo, inbox, sent, received, stops,
                   deaths>>

-----------------------------------------------------------------------------
(* start_reading, at end e of connection c.                                 *)

\* Mutant: the message stays in the stream.
LeaveInPipe(s) == s

TakeFromPipe(s) == Tail(s)

\* Mutant: the receiver has no limit.
DeliverUnbounded(c, e) ==
    LET n == Host(c, e)
        pipe == conns[c].pipe[Other(e)]
    IN  /\ conns[c].reader[e] = "on"
        /\ pipe # << >>
        /\ task[n] # "dead"
        /\ inbox' = [inbox EXCEPT ![n] = Append(@, Head(pipe))]
        /\ conns' = [conns EXCEPT ![c].pipe[Other(e)] = TakeFromPipe(@)]
        /\ UNCHANGED <<up, dial, entries, task, todo, sent, received, stops, deaths>>

Deliver(c, e) ==
    LET n == Host(c, e)
        pipe == conns[c].pipe[Other(e)]
    IN  /\ conns[c].reader[e] = "on"
        /\ pipe # << >>
        /\ task[n] # "dead"
        /\ Len(inbox[n]) < InboxCapacity
        /\ inbox' = [inbox EXCEPT ![n] = Append(@, Head(pipe))]
        /\ conns' = [conns EXCEPT ![c].pipe[Other(e)] = TakeFromPipe(@)]
        /\ UNCHANGED <<up, dial, entries, task, todo, sent, received, stops, deaths>>

\* The stream has ended, with what is left in it when the other end is closed
\* (a reset): the expect panics, and with it ends the whole task, at the
\* dialer's end the loop that would connect again.  The writer stays in the map.
ReadFails(c, e) ==
    LET n == Host(c, e)
        o == Other(e)
    IN  /\ conns[c].reader[e] = "on"
        /\ conns[c].writer[o] = "dropped"
        /\ conns[c].pipe[o] = << >> \/ Closed(c, o)
        /\ conns' = [conns EXCEPT ![c].reader[e] = "gone"]
        /\ dial' = IF e = "dialer"
                   THEN [dial EXCEPT ![n][Host(c, o)] = "ended"]
                   ELSE dial
        /\ UNCHANGED <<up, entries, task, todo, inbox, sent, received, stops,
                       deaths>>

\* The receiver is gone with the background task: the loop ends without a
\* panic.  The dialer takes its writer out of the map and connects again; the
\* acceptor's stays there, with nobody reading.
ReceiverDropped(c, e) ==
    LET n == Host(c, e)
        p == Host(c, Other(e))
    IN  /\ conns[c].reader[e] = "on"
        /\ conns[c].pipe[Other(e)] # << >>
        /\ up[n] /\ task[n] = "dead"
        /\ IF e = "dialer"
           THEN /\ conns' = [conns EXCEPT ![c].reader[e] = "gone",
                                          ![c].writer[e] = "dropped"]
                /\ entries' = [entries EXCEPT ![n][p] = NoConn]
                /\ dial' = [dial EXCEPT ![n][p] = "waiting"]
           ELSE /\ conns' = [conns EXCEPT ![c].reader[e] = "gone"]
                /\ UNCHANGED <<entries, dial>>
        /\ UNCHANGED <<up, task, todo, inbox, sent, received, stops, deaths>>

-----------------------------------------------------------------------------
(* send and receive, called by the background task.                         *)

\* send locks the map; it will write to every connection in it.
Send(n, m) ==
    /\ task[n] = "idle"
    /\ \A k \in Nodes : m \notin sent[k]
    /\ \A l \in 1 .. m - 1 : \E k \in Nodes : l \in sent[k]
    /\ sent' = [sent EXCEPT ![n] = @ \cup {m}]
    /\ task' = [task EXCEPT ![n] = "sending"]
    /\ todo' = [todo EXCEPT ![n] = {p \in Nodes : entries[n][p] # NoConn}]
    /\ UNCHANGED <<up, dial, conns, entries, inbox, received, stops, deaths>>

\* The message being sent: the last one.
Sending(n) == CHOOSE m \in sent[n] : \A l \in sent[n] : l <= m

\* Mutant: the message is dropped for a peer whose socket has no room.
WriteIfRoom(n, p) ==
    LET c == entries[n][p]
        e == EndOf(c, n)
        room == Len(conns[c].pipe[e]) < PipeCapacity
    IN  /\ p \in todo[n]
        /\ todo' = [todo EXCEPT ![n] = @ \ {p}]
        /\ conns' = IF Closed(c, Other(e)) \/ ~room THEN conns
                    ELSE [conns EXCEPT ![c].pipe[e] = Append(@, Sending(n))]
        /\ UNCHANGED <<up, dial, entries, task, inbox, sent, received, stops,
                       deaths>>

\* write_all waits until the socket takes the message.  When the other end is
\* closed it fails, or the message is lost on its way.
Write(n, p) ==
    LET c == entries[n][p]
        e == EndOf(c, n)
    IN  /\ p \in todo[n]
        /\ todo' = [todo EXCEPT ![n] = @ \ {p}]
        /\ IF Closed(c, Other(e))
           THEN UNCHANGED conns
           ELSE /\ Len(conns[c].pipe[e]) < PipeCapacity
                /\ conns' = [conns EXCEPT ![c].pipe[e] = Append(@, Sending(n))]
        /\ UNCHANGED <<up, dial, entries, task, inbox, sent, received, stops,
                       deaths>>

SendEnds(n) ==
    /\ task[n] = "sending"
    /\ todo[n] = {}
    /\ task' = [task EXCEPT ![n] = "idle"]
    /\ UNCHANGED <<up, dial, conns, entries, todo, inbox, sent, received, stops,
                   deaths>>

Receive(n) ==
    /\ task[n] = "idle"
    /\ inbox[n] # << >>
    /\ received' = [received EXCEPT ![n] = Append(@, Head(inbox[n]))]
    /\ inbox' = [inbox EXCEPT ![n] = Tail(@)]
    /\ UNCHANGED <<up, dial, conns, entries, task, todo, sent, stops, deaths>>

-----------------------------------------------------------------------------
\* The background task panics; listener, dialing tasks and sockets stay.
Die(n) ==
    /\ task[n] = "idle"
    /\ deaths < MaxDeaths
    /\ deaths' = deaths + 1
    /\ task' = [task EXCEPT ![n] = "dead"]
    /\ inbox' = [inbox EXCEPT ![n] = << >>]
    /\ UNCHANGED <<up, dial, conns, entries, todo, sent, received, stops>>

\* The process stops, and every end of a connection it has is closed.
Stop(n) ==
    /\ up[n]
    /\ stops < MaxStops
    /\ stops' = stops + 1
    /\ up' = [up EXCEPT ![n] = FALSE]
    /\ dial' = [dial EXCEPT ![n] = [p \in Nodes |-> "off"]]
    /\ conns' = [c \in DOMAIN conns |->
                   IF n \notin {Host(c, e) : e \in Ends} THEN conns[c]
                   ELSE [conns[c] EXCEPT !.writer[EndOf(c, n)] = "dropped",
                                         !.reader[EndOf(c, n)] = "gone"]]
    /\ entries' = [entries EXCEPT ![n] = [p \in Nodes |-> NoConn]]
    /\ task' = [task EXCEPT ![n] = "dead"]
    /\ todo' = [todo EXCEPT ![n] = {}]
    /\ inbox' = [inbox EXCEPT ![n] = << >>]
    /\ UNCHANGED <<sent, received, deaths>>

Dialing(n, p) ==
    Connect(n, p) \/ Refused(n, p) \/ Retry(n, p) \/ Greet(n, p) \/ Enter(n, p)

Accepting(c) == Identify(c) \/ Abandon(c)

Reading(c, e) == Deliver(c, e) \/ ReadFails(c, e) \/ ReceiverDropped(c, e)

Background(n) == SendEnds(n) \/ Receive(n) \/ \E p \in Nodes : Write(n, p)

Next ==
    \/ \E n \in Nodes : Start(n) \/ Stop(n) \/ Die(n) \/ Background(n)
    \/ \E n, p \in Nodes : Dialing(n, p)
    \/ \E c \in DOMAIN conns : Accepting(c) \/ \E e \in Ends : Reading(c, e)
    \/ \E n \in Nodes, m \in Messages : Send(n, m)

Spec == Init /\ [][Next]_vars

\* Every process is started, again after a stop, and its tasks run when they
\* are ready.  Nobody has to send, stop or die.
FairSpec ==
    /\ Spec
    /\ \A n \in Nodes : WF_vars(Start(n)) /\ WF_vars(Background(n))
    /\ \A n, p \in Nodes : WF_vars(Dialing(n, p))
    /\ \A c \in 1 .. MaxConns :
          /\ WF_vars(c \in DOMAIN conns /\ Accepting(c))
          /\ \A e \in Ends : WF_vars(c \in DOMAIN conns /\ Reading(c, e))

-----------------------------------------------------------------------------
Conn ==
    [dialer : Nodes, acceptor : Nodes, greeted : BOOLEAN,
     writer : [Ends -> {"open", "dropped"}],
     reader : [Ends -> {"none", "on", "gone"}],
     pipe : [Ends -> Seq(Messages)]]

TypeOK ==
    /\ up \in [Nodes -> BOOLEAN]
    /\ dial \in [Nodes -> [Nodes -> {"off", "connecting", "greeting", "entering",
                                     "reading", "waiting", "ended"}]]
    /\ conns \in Seq(Conn)
    /\ entries \in [Nodes -> [Nodes -> 0 .. MaxConns]]
    /\ task \in [Nodes -> {"idle", "sending", "dead"}]
    /\ todo \in [Nodes -> SUBSET Nodes]
    /\ inbox \in [Nodes -> Seq(Messages)]
    /\ \A n \in Nodes : Len(inbox[n]) <= InboxCapacity
    /\ sent \in [Nodes -> SUBSET Messages]
    /\ received \in [Nodes -> Seq(Messages)]
    /\ stops \in 0 .. MaxStops /\ deaths \in 0 .. MaxDeaths

\* Two nodes never keep two connections: whoever stops, dies and connects
\* again, a new one is made only when an end of the former one is closed.
OneConnection ==
    \A c, d \in DOMAIN conns :
        ({Host(c, e) : e \in Ends} = {Host(d, e) : e \in Ends} /\ c # d) =>
            \E e \in Ends : Closed(c, e) \/ Closed(d, e)

NW == INSTANCE Network

\* The channel keeps what Synod and MultiPaxos assume of it, across stops: a
\* message reaches each other node at most once, and nobody who did not.
ImplementsNetwork == NW!Spec

Trouble == stops > 0 \/ deaths > 0

\* n can write to p, and p reads it.
Linked(n, p) ==
    LET c == entries[n][p]
    IN  /\ c # NoConn
        /\ conns[c].reader[Other(EndOf(c, n))] = "on"

AllLinked == \A n \in Nodes : \A p \in Nodes \ {n} : Linked(n, p)

\* In whatever order the nodes start, all are connected in the end and remain
\* so, if no process stops and no background task dies.
AllConnect == <>[](Trouble \/ AllLinked)

\* What is sent to all reaches all, if the sockets and receivers have room for
\* what is under way.
AllReceive ==
    \A n \in Nodes, m \in Messages :
        (m \in sent[n] /\ Sending(n) = m /\ todo[n] = Nodes \ {n}) ~>
            (Trouble \/ \A p \in Nodes \ {n} :
                            \E i \in DOMAIN received[p] : received[p][i] = m)

-----------------------------------------------------------------------------
(* A claim of the repository's documents that the code does not meet.        *)

\* channel.rs, "If a connection fails or closes, waits for a random timeout and
\* retries.  Continues retrying until the connection is restored": two nodes
\* that run from some time on, with their background tasks, are connected.
Restored ==
    \A n, p \in Nodes :
        n < p => (<>[](task[n] # "dead" /\ task[p] # "dead") =>
                      <>[](Linked(n, p) /\ Linked(p, n)))
=============================================================================
