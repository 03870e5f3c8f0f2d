------------------------------- MODULE TcpProofs -------------------------------
(***************************************************************************)
(* Theorems about TcpChannel, for every number of nodes, connections,      *)
(* messages, stops and deaths and every capacity of sockets and receivers: *)
(* its types, that two nodes keep one connection, and that a message       *)
(* reaches a node at most once.                                            *)
(***************************************************************************)
EXTENDS TcpChannel, Integers, FiniteSetTheorems, SequenceTheorems,
        WellFoundedInduction, TLAPS

-----------------------------------------------------------------------------
(* The inductive invariant.                                                 *)

Between(c, n, p) == conns[c].dialer = n /\ conns[c].acceptor = p

\* A connection is dialed from below, by the one task of n for p.
DialInv ==
    /\ Len(conns) <= MaxConns
    /\ \A c \in DOMAIN conns : conns[c].dialer < conns[c].acceptor
    /\ \A n, p \in Nodes : dial[n][p] # "off" => n < p /\ up[n]
    /\ \A n, p \in Nodes : dial[n][p] \in {"greeting", "entering"} =>
          \E c \in DOMAIN conns : Between(c, n, p)

EntryInv ==
    \A n, p \in Nodes : entries[n][p] # NoConn =>
        /\ entries[n][p] \in DOMAIN conns
        /\ Between(entries[n][p], n, p) \/ Between(entries[n][p], p, n)

TaskInv ==
    \A n \in Nodes :
        /\ ~up[n] => task[n] = "dead"
        /\ task[n] # "sending" => todo[n] = {}
        /\ \A p \in todo[n] : entries[n][p] # NoConn
        /\ todo[n] # {} => sent[n] # {}

TypeInv == TypeOK /\ DialInv /\ EntryInv /\ TaskInv

\* While a task has yet to connect, and once it has connected again, every
\* former connection is closed at its end.
ClosedInv ==
    /\ \A n, p \in Nodes : dial[n][p] \in {"off", "connecting", "waiting"} =>
          \A c \in DOMAIN conns : Between(c, n, p) => Closed(c, "dialer")
    /\ \A c, d \in DOMAIN conns :
          c < d /\ Between(c, conns[d].dialer, conns[d].acceptor) =>
              Closed(c, "dialer")

Elements(s) == {s[i] : i \in DOMAIN s}

Distinct(s) == \A i, j \in DOMAIN s : s[i] = s[j] => i = j

Pipe(c, e) == conns[c].pipe[e]

\* Every message has one sender, and they are sent in their order.
SentInv ==
    /\ \A n, k \in Nodes : n # k => sent[n] \cap sent[k] = {}
    /\ \A n \in Nodes : \A m \in sent[n] : \A l \in 1 .. m - 1 :
          \E k \in Nodes : l \in sent[k]

\* What is at n, or on its way to n, another node has sent.
NodeSources ==
    \A n \in Nodes : \A m \in Elements(received[n]) \cup Elements(inbox[n]) :
        \E k \in Nodes \ {n} : m \in sent[k]

PipeSources ==
    \A c \in DOMAIN conns, e \in Ends :
        Elements(Pipe(c, e)) \subseteq sent[Host(c, e)]

SourceInv == NodeSources /\ PipeSources

\* It is there once: in what the node has taken or holds,
NodePlaces ==
    \A n \in Nodes :
        /\ Distinct(received[n]) /\ Distinct(inbox[n])
        /\ Elements(received[n]) \cap Elements(inbox[n]) = {}

\* or in a pipe to it,
PipePlaces ==
    \A c \in DOMAIN conns, e \in Ends :
        /\ Distinct(Pipe(c, e))
        /\ Elements(Pipe(c, e)) \cap Elements(received[Host(c, Other(e))]) = {}
        /\ Elements(Pipe(c, e)) \cap Elements(inbox[Host(c, Other(e))]) = {}

\* and in no other pipe.
PipesApart ==
    \A c, d \in DOMAIN conns, e, f \in Ends :
        (c # d \/ e # f) /\ Host(c, Other(e)) = Host(d, Other(f)) =>
            Elements(Pipe(c, e)) \cap Elements(Pipe(d, f)) = {}

PlaceInv == NodePlaces /\ PipePlaces /\ PipesApart

\* The message being sent is not yet there, nor on its way.
TodoInv ==
    \A n \in Nodes : \A p \in todo[n] :
        /\ Sending(n) \notin Elements(received[p]) \cup Elements(inbox[p])
        /\ \A c \in DOMAIN conns, e \in Ends :
              Host(c, Other(e)) = p => Sending(n) \notin Elements(Pipe(c, e))

MessageInv == SentInv /\ SourceInv /\ PlaceInv /\ TodoInv

-----------------------------------------------------------------------------
(* What a step does to the connections.                                      *)

\* No connection is made, none changes hands.
IdsKept ==
    /\ conns' \in Seq(Conn) /\ Len(conns') = Len(conns)
    /\ DOMAIN conns' = DOMAIN conns
    /\ \A d \in DOMAIN conns : /\ conns'[d].dialer = conns[d].dialer
                               /\ conns'[d].acceptor = conns[d].acceptor

PipesKept == IdsKept /\ \A d \in DOMAIN conns : conns'[d].pipe = conns[d].pipe

\* Only connection c is changed.
OnlyConn(c) == \A d \in DOMAIN conns \ {c} : conns'[d] = conns[d]

\* Only end e of c is changed, and not what is in its pipe.
OnlyEnd(c, e) ==
    /\ PipesKept /\ OnlyConn(c)
    /\ \A f \in Ends \ {e} : /\ conns'[c].writer[f] = conns[c].writer[f]
                             /\ conns'[c].reader[f] = conns[c].reader[f]

LEMMA ConnTypes ==
    ASSUME conns \in Seq(Conn), NEW c \in DOMAIN conns
    PROVE  /\ conns[c] \in Conn /\ c \in Nat /\ c \in 1 .. Len(conns)
           /\ conns[c].dialer \in Nodes /\ conns[c].acceptor \in Nodes
           /\ conns[c].writer \in [Ends -> {"open", "dropped"}]
           /\ conns[c].reader \in [Ends -> {"none", "on", "gone"}]
           /\ conns[c].pipe \in [Ends -> Seq(Messages)]
           /\ \A e \in Ends : Host(c, e) \in Nodes /\ Pipe(c, e) \in Seq(Messages)
  <1>1. conns[c] \in Conn /\ c \in Nat /\ c \in 1 .. Len(conns)
    OBVIOUS
  <1> QED BY <1>1 DEF Conn, Host, Pipe

LEMMA EndsMean ==
    /\ \A e \in Ends : Other(e) \in Ends /\ Other(e) # e /\ Other(Other(e)) = e
    /\ Ends = {"dialer", "acceptor"}
    /\ \A c, n : EndOf(c, n) \in Ends
    /\ \A e, f \in Ends : f # e => f = Other(e)
  BY DEF Ends, Other, EndOf

LEMMA ReplaceConn ==
    ASSUME conns \in Seq(Conn), NEW c \in DOMAIN conns, NEW r \in Conn,
           r.dialer = conns[c].dialer, r.acceptor = conns[c].acceptor,
           conns' = [conns EXCEPT ![c] = r]
    PROVE  /\ IdsKept /\ OnlyConn(c) /\ conns'[c] = r
           /\ r.pipe = conns[c].pipe => PipesKept
  <1>1. conns' \in Seq(Conn) /\ Len(conns') = Len(conns)
    BY ExceptSeq
  <1>2. DOMAIN conns' = DOMAIN conns /\ conns'[c] = r /\ OnlyConn(c)
    BY DEF OnlyConn
  <1> QED BY <1>1, <1>2 DEF IdsKept, PipesKept, OnlyConn

\* A writer and a reader of end e change.
LEMMA ChangeEnd ==
    ASSUME conns \in Seq(Conn), NEW c \in DOMAIN conns, NEW e \in Ends,
           NEW w \in {"open", "dropped"}, NEW x \in {"none", "on", "gone"},
           conns' = [conns EXCEPT ![c].writer[e] = w, ![c].reader[e] = x]
    PROVE  /\ OnlyEnd(c, e)
           /\ conns'[c].writer[e] = w /\ conns'[c].reader[e] = x
  <1> DEFINE r == [conns[c] EXCEPT !.writer[e] = w, !.reader[e] = x]
  <1>1. conns' = [conns EXCEPT ![c] = r]
    OBVIOUS
  <1>2. conns[c] \in Conn
    BY ConnTypes
  <1>3. /\ r \in Conn /\ r.dialer = conns[c].dialer
        /\ r.acceptor = conns[c].acceptor /\ r.pipe = conns[c].pipe
        /\ r.writer = [conns[c].writer EXCEPT ![e] = w]
        /\ r.reader = [conns[c].reader EXCEPT ![e] = x]
    BY <1>2 DEF Conn
  <1>4. /\ r.writer[e] = w /\ r.reader[e] = x
        /\ \A f \in Ends \ {e} : /\ r.writer[f] = conns[c].writer[f]
                                 /\ r.reader[f] = conns[c].reader[f]
    BY <1>2, <1>3 DEF Conn
  <1> HIDE DEF r
  <1>5. PipesKept /\ OnlyConn(c) /\ conns'[c] = r
    BY <1>1, <1>3, ReplaceConn
  <1> QED BY <1>4, <1>5 DEF OnlyEnd

LEMMA ChangeReader ==
    ASSUME conns \in Seq(Conn), NEW c \in DOMAIN conns, NEW e \in Ends,
           NEW x \in {"none", "on", "gone"},
           conns' = [conns EXCEPT ![c].reader[e] = x]
    PROVE  /\ OnlyEnd(c, e)
           /\ conns'[c].writer[e] = conns[c].writer[e] /\ conns'[c].reader[e] = x
  <1> DEFINE r == [conns[c] EXCEPT !.reader[e] = x]
  <1>1. conns' = [conns EXCEPT ![c] = r]
    OBVIOUS
  <1>2. conns[c] \in Conn
    BY ConnTypes
  <1>3. /\ r \in Conn /\ r.dialer = conns[c].dialer
        /\ r.acceptor = conns[c].acceptor /\ r.pipe = conns[c].pipe
        /\ r.writer = conns[c].writer
        /\ r.reader = [conns[c].reader EXCEPT ![e] = x]
    BY <1>2 DEF Conn
  <1>4. /\ r.reader[e] = x
        /\ \A f \in Ends \ {e} : r.reader[f] = conns[c].reader[f]
    BY <1>2, <1>3 DEF Conn
  <1> HIDE DEF r
  <1>5. PipesKept /\ OnlyConn(c) /\ conns'[c] = r
    BY <1>1, <1>3, ReplaceConn
  <1> QED BY <1>3, <1>4, <1>5 DEF OnlyEnd

\* Only what is in the pipe from end e of c is changed.
OnlyPipe(c, e, s) ==
    /\ IdsKept /\ OnlyConn(c)
    /\ conns'[c].writer = conns[c].writer /\ conns'[c].reader = conns[c].reader
    /\ conns'[c].pipe[e] = s
    /\ \A f \in Ends \ {e} : conns'[c].pipe[f] = conns[c].pipe[f]

LEMMA ChangePipe ==
    ASSUME conns \in Seq(Conn), NEW c \in DOMAIN conns, NEW e \in Ends,
           NEW s \in Seq(Messages),
           conns' = [conns EXCEPT ![c].pipe[e] = s]
    PROVE  OnlyPipe(c, e, s)
  <1> DEFINE r == [conns[c] EXCEPT !.pipe[e] = s]
  <1>1. conns' = [conns EXCEPT ![c] = r]
    OBVIOUS
  <1>2. conns[c] \in Conn
    BY ConnTypes
  <1>3. /\ r \in Conn /\ r.dialer = conns[c].dialer
        /\ r.acceptor = conns[c].acceptor
        /\ r.writer = conns[c].writer /\ r.reader = conns[c].reader
        /\ r.pipe = [conns[c].pipe EXCEPT ![e] = s]
    BY <1>2 DEF Conn
  <1>4. /\ r.pipe[e] = s
        /\ \A f \in Ends \ {e} : r.pipe[f] = conns[c].pipe[f]
    BY <1>2, <1>3 DEF Conn
  <1> HIDE DEF r
  <1>5. IdsKept /\ OnlyConn(c) /\ conns'[c] = r
    BY <1>1, <1>3, ReplaceConn
  <1> QED BY <1>3, <1>4, <1>5 DEF OnlyPipe

-----------------------------------------------------------------------------
(* The two choices of the model: the last connection made, the last message  *)
(* sent.                                                                     *)

LEMMA Largest ==
    ASSUME NEW K \in Nat, NEW T, T \subseteq 1 .. K, T # {}
    PROVE  \E m \in T : \A n \in T : n <= m
  <1> DEFINE Above == {n + 1 .. K : n \in T}
             R == StrictSubsetOrdering(Nat)
  <1>1. IsWellFoundedOn(R, FiniteSubsetsOf(Nat))
    BY FS_StrictSubsetOrderingWellFounded
  <1>2. Above \subseteq FiniteSubsetsOf(Nat) /\ Above # {}
    <2>1. ASSUME NEW n \in T
          PROVE  n + 1 .. K \in FiniteSubsetsOf(Nat)
      <3>1. n \in Nat /\ n + 1 .. K \subseteq Nat
        OBVIOUS
      <3>2. IsFiniteSet(n + 1 .. K)
        BY <3>1, FS_Interval
      <3> QED BY <3>1, <3>2 DEF FiniteSubsetsOf
    <2> QED BY <2>1
  <1> HIDE DEF Above, R
  <1>3. PICK M \in Above : \A X \in Above : <<X, M>> \notin R
    BY <1>1, <1>2, WFMin
  <1>4. PICK m \in T : M = m + 1 .. K
    BY DEF Above
  <1>5. ASSUME NEW n \in T, m < n
        PROVE  FALSE
    <2>1. n + 1 .. K \in Above
      BY DEF Above
    <2>2. /\ n + 1 .. K \subseteq m + 1 .. K
          /\ n \in m + 1 .. K /\ n \notin n + 1 .. K
          /\ n + 1 .. K \subseteq Nat /\ m + 1 .. K \subseteq Nat
      BY <1>5
    <2>3. <<n + 1 .. K, m + 1 .. K>> \in R
      BY <2>2 DEF R, StrictSubsetOrdering
    <2> QED BY <1>3, <1>4, <2>1, <2>3
  <1> QED BY <1>5

LEMMA Bounds ==
    /\ N \in Nat /\ Nodes = 0 .. N - 1 /\ Messages = 1 .. MaxSends /\ NoConn = 0
    /\ MaxConns \in Nat /\ MaxSends \in Nat /\ MaxStops \in Nat /\ MaxDeaths \in Nat
    /\ InboxCapacity \in Nat \ {0} /\ PipeCapacity \in Nat \ {0}
  BY ChannelAssumption DEF Nodes, Messages, NoConn

LEMMA LatestIs ==
    ASSUME conns \in Seq(Conn), NEW n, NEW p,
           \E c \in DOMAIN conns : Between(c, n, p)
    PROVE  /\ Latest(n, p) \in DOMAIN conns /\ Between(Latest(n, p), n, p)
           /\ \A d \in DOMAIN conns : Between(d, n, p) => d <= Latest(n, p)
  <1> DEFINE T == {c \in DOMAIN conns : Between(c, n, p)}
             Last(c) == /\ conns[c].dialer = n /\ conns[c].acceptor = p
                        /\ \A d \in c + 1 .. Len(conns) :
                              conns[d].dialer # n \/ conns[d].acceptor # p
  <1>1. T \subseteq 1 .. Len(conns) /\ T # {} /\ Len(conns) \in Nat
    OBVIOUS
  <1>2. PICK c \in T : \A d \in T : d <= c
    <2> HIDE DEF T
    <2> QED BY <1>1, Largest
  <1>3. c \in DOMAIN conns /\ Last(c)
    <2>1. c \in DOMAIN conns /\ Between(c, n, p) /\ c \in Nat
      BY <1>1
    <2>2. ASSUME NEW d \in c + 1 .. Len(conns), Between(d, n, p)
          PROVE  FALSE
      <3>1. d \in DOMAIN conns /\ d > c /\ d \in Nat
        BY <2>1, <2>2
      <3> QED BY <1>2, <2>1, <2>2, <3>1
    <2> QED BY <2>1, <2>2 DEF Between
  <1>4. Latest(n, p) = CHOOSE d \in DOMAIN conns : Last(d)
    BY DEF Latest
  <1> HIDE DEF Last
  <1>5. Latest(n, p) \in DOMAIN conns /\ Last(Latest(n, p))
    BY <1>3, <1>4
  <1>6. ASSUME NEW d \in DOMAIN conns, Between(d, n, p), d > Latest(n, p)
        PROVE  FALSE
    <2>1. d \in Latest(n, p) + 1 .. Len(conns)
      BY <1>1, <1>5, <1>6
    <2> QED BY <1>5, <1>6, <2>1 DEF Last, Between
  <1>7. \A d \in DOMAIN conns : d \in Nat
    OBVIOUS
  <1> QED BY <1>5, <1>6, <1>7 DEF Last, Between

LEMMA SendingIs ==
    ASSUME TypeOK, NEW n \in Nodes, sent[n] # {}
    PROVE  /\ Sending(n) \in sent[n] /\ Sending(n) \in Messages
           /\ \A l \in sent[n] : l <= Sending(n)
  <1>1. sent[n] \subseteq 1 .. MaxSends /\ MaxSends \in Nat
    BY Bounds DEF TypeOK
  <1>2. \E m \in sent[n] : \A l \in sent[n] : l <= m
    BY <1>1, Largest
  <1> QED BY <1>1, <1>2, Bounds DEF Sending

-----------------------------------------------------------------------------
(* Types.  TypeOK by groups, so that a step is asked only about what it      *)
(* writes.                                                                   *)

ProcessTyped ==
    /\ up \in [Nodes -> BOOLEAN]
    /\ task \in [Nodes -> {"idle", "sending", "dead"}]
    /\ stops \in 0 .. MaxStops /\ deaths \in 0 .. MaxDeaths

DialStates == {"off", "connecting", "greeting", "entering", "reading", "waiting",
               "ended"}

DialTyped ==
    dial \in [Nodes -> [Nodes -> DialStates]]

EntriesTyped ==
    /\ entries \in [Nodes -> [Nodes -> 0 .. MaxConns]]
    /\ todo \in [Nodes -> SUBSET Nodes]

QueuesTyped ==
    /\ inbox \in [Nodes -> Seq(Messages)]
    /\ \A n \in Nodes : Len(inbox[n]) <= InboxCapacity
    /\ sent \in [Nodes -> SUBSET Messages]
    /\ received \in [Nodes -> Seq(Messages)]

Typed ==
    /\ ProcessTyped /\ DialTyped /\ EntriesTyped /\ QueuesTyped
    /\ conns \in Seq(Conn)

LEMMA TypedMeans == TypeOK <=> Typed
  BY DEF TypeOK, Typed, ProcessTyped, DialTyped, DialStates, EntriesTyped,
         QueuesTyped

LEMMA InitTypes == Init => TypeInv
  <1> SUFFICES ASSUME Init PROVE TypeInv
    OBVIOUS
  <1>1. Typed
    BY Bounds, EmptySeq DEF Init, Typed, ProcessTyped, DialTyped, DialStates,
                            EntriesTyped, QueuesTyped
  <1>2. DialInv /\ EntryInv /\ TaskInv
    BY Bounds DEF Init, DialInv, EntryInv, TaskInv
  <1> QED BY <1>1, <1>2, TypedMeans DEF TypeInv

LEMMA TypedNext ==
    Typed' /\ DialInv' /\ EntryInv' /\ TaskInv' => TypeInv'
  <1>1. (TypeOK <=> Typed)'
    BY TypedMeans, PTL
  <1> QED BY <1>1 DEF TypeInv

LEMMA SameConns == conns \in Seq(Conn) /\ UNCHANGED conns => PipesKept
  BY DEF PipesKept, IdsKept

\* Who dials whom, where only the state of one dialing task changes.
LEMMA DialMoves ==
    ASSUME TypeInv, IdsKept, UNCHANGED up,
           NEW n \in Nodes, NEW p \in Nodes, NEW s \in DialStates,
           dial' = [dial EXCEPT ![n][p] = s], dial[n][p] # "off",
           s \in {"greeting", "entering"} =>
               dial[n][p] \in {"greeting", "entering"}
    PROVE  DialInv' /\ DialTyped'
  <1>1. DialTyped /\ DialInv
    BY TypedMeans DEF TypeInv, Typed
  <1>2. DialTyped'
    BY <1>1 DEF DialTyped
  <1>3. ASSUME NEW k \in Nodes, NEW q \in Nodes
        PROVE  dial'[k][q] = IF k = n /\ q = p THEN s ELSE dial[k][q]
    BY <1>1 DEF DialTyped
  <1>4. \A c \in DOMAIN conns, k, q \in Nodes : Between(c, k, q)' <=> Between(c, k, q)
    BY DEF IdsKept, Between
  <1>5. \A k, q \in Nodes : dial'[k][q] # "off" => k < q /\ up'[k]
    BY <1>1, <1>3 DEF DialInv
  <1>6. ASSUME NEW k \in Nodes, NEW q \in Nodes, dial'[k][q] \in {"greeting", "entering"}
        PROVE  \E c \in DOMAIN conns' : Between(c, k, q)'
    <2>1. dial[k][q] \in {"greeting", "entering"}
      BY <1>3, <1>6
    <2>2. PICK c \in DOMAIN conns : Between(c, k, q)
      BY <1>1, <2>1 DEF DialInv
    <2> QED BY <1>4, <2>2 DEF IdsKept
  <1> QED BY <1>1, <1>2, <1>5, <1>6 DEF DialInv, IdsKept

LEMMA DialSame ==
    ASSUME DialInv, IdsKept, UNCHANGED <<up, dial>>
    PROVE  DialInv'
  <1>1. \A c \in DOMAIN conns, k, q \in Nodes : Between(c, k, q)' <=> Between(c, k, q)
    BY DEF IdsKept, Between
  <1> QED BY <1>1 DEF DialInv, IdsKept

LEMMA EntrySame ==
    ASSUME EntryInv, IdsKept, UNCHANGED entries
    PROVE  EntryInv'
  BY DEF EntryInv, IdsKept, Between

\* An entry of the map is written, or taken out.
LEMMA EntryMoves ==
    ASSUME TypeInv, IdsKept, NEW n \in Nodes, NEW p \in Nodes, NEW c,
           entries' = [entries EXCEPT ![n][p] = c],
           c # NoConn => /\ c \in DOMAIN conns
                         /\ Between(c, n, p) \/ Between(c, p, n)
    PROVE  /\ EntryInv' /\ entries' \in [Nodes -> [Nodes -> 0 .. MaxConns]]
           /\ \A k, q \in Nodes :
                 entries'[k][q] = IF k = n /\ q = p THEN c ELSE entries[k][q]
  <1>1. entries \in [Nodes -> [Nodes -> 0 .. MaxConns]] /\ EntryInv /\ DialInv
    BY TypedMeans DEF TypeInv, Typed, EntriesTyped
  <1>2. c \in 0 .. MaxConns
    <2>1. conns \in Seq(Conn) /\ Len(conns) <= MaxConns
      BY <1>1 DEF TypeInv, TypeOK, DialInv
    <2> QED BY <2>1, Bounds, ConnTypes
  <1>3. ASSUME NEW k \in Nodes, NEW q \in Nodes
        PROVE  entries'[k][q] = IF k = n /\ q = p THEN c ELSE entries[k][q]
    BY <1>1
  <1>4. entries' \in [Nodes -> [Nodes -> 0 .. MaxConns]]
    BY <1>1, <1>2
  <1>5. ASSUME NEW k \in Nodes, NEW q \in Nodes, entries'[k][q] # NoConn
        PROVE  /\ entries'[k][q] \in DOMAIN conns
               /\ \/ Between(entries'[k][q], k, q)
                  \/ Between(entries'[k][q], q, k)
    BY <1>1, <1>3, <1>5 DEF EntryInv
  <1>6. EntryInv'
    BY <1>5 DEF EntryInv, IdsKept, Between
  <1> QED BY <1>3, <1>4, <1>6

LEMMA StartTypes ==
    ASSUME TypeInv, NEW n \in Nodes, Start(n)
    PROVE  TypeInv'
  <1>1. Typed /\ DialInv /\ EntryInv /\ TaskInv
    BY TypedMeans DEF TypeInv
  <1>2. /\ ~up[n] /\ up' = [up EXCEPT ![n] = TRUE]
        /\ dial' = [dial EXCEPT ![n] =
                      [p \in Nodes |-> IF p \in Targets(n) THEN "connecting"
                                       ELSE "off"]]
        /\ task' = [task EXCEPT ![n] = "idle"]
        /\ UNCHANGED <<conns, entries, todo, inbox, sent, received, stops, deaths>>
    BY DEF Start
  <1>3. PipesKept
    BY <1>1, <1>2, SameConns DEF Typed
  <1>4. Typed'
    BY <1>1, <1>2 DEF Typed, ProcessTyped, DialTyped, DialStates, EntriesTyped,
                      QueuesTyped
  <1>5. TaskInv'
    BY <1>1, <1>2 DEF TaskInv, Typed, ProcessTyped
  <1>6. EntryInv'
    BY <1>1, <1>2, <1>3, EntrySame DEF PipesKept
  <1>7. DialInv'
    <2>1. ASSUME NEW k \in Nodes, NEW q \in Nodes
          PROVE  /\ dial'[k][q] # "off" => k < q /\ up'[k]
                 /\ dial'[k][q] \in {"greeting", "entering"} =>
                       \E c \in DOMAIN conns : Between(c, k, q)
      <3>1. CASE k = n
        BY <1>1, <1>2, <3>1 DEF Typed, DialTyped, ProcessTyped, Targets
      <3>2. CASE k # n
        BY <1>1, <1>2, <3>2 DEF Typed, DialTyped, ProcessTyped, DialInv
      <3> QED BY <3>1, <3>2
    <2> QED BY <1>1, <1>2, <2>1 DEF DialInv, Between
  <1> QED BY <1>4, <1>5, <1>6, <1>7, TypedNext

\* The connections after one was made.
LEMMA NewConnIs ==
    ASSUME TypeInv, NEW n \in Nodes, NEW p \in Nodes, Connect(n, p)
    PROVE  /\ conns' \in Seq(Conn) /\ Len(conns') = Len(conns) + 1
           /\ Len(conns) \in Nat /\ DOMAIN conns = 1 .. Len(conns)
           /\ DOMAIN conns' = 1 .. Len(conns) + 1
           /\ \A c \in DOMAIN conns : conns'[c] = conns[c]
           /\ conns'[Len(conns) + 1] = NewConn(n, p)
           /\ n < p
  <1>1. conns \in Seq(Conn) /\ DialInv
    BY TypedMeans DEF TypeInv, Typed
  <1>2. NewConn(n, p) \in Conn
    BY EmptySeq DEF NewConn, Conn
  <1>3. conns' = Append(conns, NewConn(n, p)) /\ n < p
    BY <1>1 DEF Connect, DialInv
  <1> HIDE DEF NewConn
  <1> QED BY <1>1, <1>2, <1>3, AppendProperties, LenProperties

LEMMA ConnectTypes ==
    ASSUME TypeInv, NEW n \in Nodes, NEW p \in Nodes, Connect(n, p)
    PROVE  TypeInv'
  <1>1. Typed /\ DialInv /\ EntryInv /\ TaskInv
    BY TypedMeans DEF TypeInv
  <1>2. /\ conns' \in Seq(Conn) /\ Len(conns') = Len(conns) + 1
        /\ Len(conns) \in Nat /\ DOMAIN conns = 1 .. Len(conns)
        /\ DOMAIN conns' = 1 .. Len(conns) + 1
        /\ \A c \in DOMAIN conns : conns'[c] = conns[c]
        /\ conns'[Len(conns) + 1] = NewConn(n, p)
        /\ n < p
    BY NewConnIs
  <1>3. /\ dial[n][p] = "connecting" /\ Len(conns) < MaxConns
        /\ dial' = [dial EXCEPT ![n][p] = "greeting"]
        /\ UNCHANGED <<up, entries, task, todo, inbox, sent, received, stops,
                       deaths>>
    BY DEF Connect
  <1>4. Typed'
    BY <1>1, <1>2, <1>3 DEF Typed, ProcessTyped, DialTyped, DialStates,
                            EntriesTyped, QueuesTyped
  <1>5. TaskInv'
    BY <1>1, <1>3 DEF TaskInv
  <1>6. \A c \in DOMAIN conns, k, q \in Nodes :
           /\ c \in DOMAIN conns'
           /\ Between(c, k, q)' <=> Between(c, k, q)
    BY <1>2 DEF Between
  <1>7. EntryInv'
    BY <1>1, <1>3, <1>6 DEF EntryInv
  <1>8. DialInv'
    <2>1. Len(conns') <= MaxConns
      BY <1>2, <1>3, Bounds
    <2>2. ASSUME NEW c \in DOMAIN conns'
          PROVE  conns'[c].dialer < conns'[c].acceptor
      <3>1. CASE c \in DOMAIN conns
        BY <1>1, <1>2, <3>1 DEF DialInv
      <3>2. CASE c = Len(conns) + 1
        BY <1>2, <3>2 DEF NewConn
      <3> QED BY <1>2, <3>1, <3>2
    <2>3. ASSUME NEW k \in Nodes, NEW q \in Nodes
          PROVE  /\ dial'[k][q] # "off" => k < q /\ up'[k]
                 /\ dial'[k][q] \in {"greeting", "entering"} =>
                       \E c \in DOMAIN conns' : Between(c, k, q)'
      <3>1. CASE k = n /\ q = p
        <4>1. PICK c \in DOMAIN conns' : c = Len(conns) + 1
          BY <1>2
        <4>2. Between(c, n, p)'
          BY <1>2, <4>1 DEF Between, NewConn
        <4>3. n < p /\ up[n]
          BY <1>1, <1>3 DEF DialInv
        <4> QED BY <1>3, <3>1, <4>1, <4>2, <4>3
      <3>2. CASE ~(k = n /\ q = p)
        <4>1. dial'[k][q] = dial[k][q]
          BY <1>1, <1>3, <3>2 DEF Typed, DialTyped
        <4> QED BY <1>1, <1>3, <1>6, <4>1 DEF DialInv
      <3> QED BY <3>1, <3>2
    <2> QED BY <2>1, <2>2, <2>3 DEF DialInv
  <1> QED BY <1>4, <1>5, <1>7, <1>8, TypedNext

\* A dialing task refused, or done with waiting.
LEMMA WaitTypes ==
    ASSUME TypeInv, NEW n \in Nodes, NEW p \in Nodes,
           Refused(n, p) \/ Retry(n, p)
    PROVE  TypeInv'
  <1>1. Typed /\ DialInv /\ EntryInv /\ TaskInv
    BY TypedMeans DEF TypeInv
  <1>2. PICK s \in {"waiting", "connecting"} : dial' = [dial EXCEPT ![n][p] = s]
    BY DEF Refused, Retry, AfterRefusal
  <1>3. /\ dial[n][p] # "off"
        /\ UNCHANGED <<up, conns, entries, task, todo, inbox, sent, received,
                       stops, deaths>>
    BY DEF Refused, Retry
  <1>4. PipesKept
    BY <1>1, <1>3, SameConns DEF Typed
  <1>5. DialInv' /\ DialTyped'
    BY <1>2, <1>3, <1>4, DialMoves DEF PipesKept, DialStates
  <1>6. Typed'
    BY <1>1, <1>3, <1>5 DEF Typed, ProcessTyped, EntriesTyped, QueuesTyped
  <1>7. TaskInv'
    BY <1>1, <1>3 DEF TaskInv
  <1>8. EntryInv'
    BY <1>1, <1>3, <1>4, EntrySame DEF PipesKept
  <1> QED BY <1>5, <1>6, <1>7, <1>8, TypedNext

\* No end of a dialer opens again.
KeepsClosed ==
    \A d \in DOMAIN conns : Closed(d, "dialer") => Closed(d, "dialer")'

\* A writer goes in the map and its end is read; the writer it replaces is
\* dropped.
LEMMA InsertedIs ==
    ASSUME TypeInv, NEW c \in DOMAIN conns, NEW e \in Ends,
           NEW n \in Nodes, NEW p \in Nodes,
           conns' = Inserted([conns EXCEPT ![c].reader[e] = "on"], n, p)
    PROVE  /\ PipesKept
           /\ \A d \in DOMAIN conns :
                 (d # c \/ e # "dialer") /\ Closed(d, "dialer") =>
                     Closed(d, "dialer")'
  <1> DEFINE old == entries[n][p]
             r == [conns[c] EXCEPT !.reader[e] = "on"]
             known == [conns EXCEPT ![c] = r]
             x == EndOf(old, n)
             s == [known[old] EXCEPT !.writer[x] = "dropped"]
  <1>1. conns \in Seq(Conn) /\ EntryInv /\ conns[c] \in Conn
    BY TypedMeans, ConnTypes DEF TypeInv, Typed
  <1>2. /\ r \in Conn /\ r.dialer = conns[c].dialer
        /\ r.acceptor = conns[c].acceptor /\ r.pipe = conns[c].pipe
        /\ r.writer = conns[c].writer
        /\ e # "dialer" => r.reader["dialer"] = conns[c].reader["dialer"]
    BY <1>1 DEF Conn, Ends
  <1>3. conns' = IF old = NoConn THEN known ELSE [known EXCEPT ![old] = s]
    BY DEF Inserted
  <1> HIDE DEF r, s
  <1>4. /\ known \in Seq(Conn) /\ Len(known) = Len(conns)
        /\ DOMAIN known = DOMAIN conns
    BY <1>1, <1>2, ExceptSeq, LenProperties
  <1>5. ASSUME NEW d \in DOMAIN conns
        PROVE  /\ known[d] \in Conn
               /\ known[d].dialer = conns[d].dialer
               /\ known[d].acceptor = conns[d].acceptor
               /\ known[d].pipe = conns[d].pipe
               /\ known[d].writer = conns[d].writer
               /\ (d # c \/ e # "dialer") =>
                     known[d].reader["dialer"] = conns[d].reader["dialer"]
    <2>1. known[d] = IF d = c THEN r ELSE conns[d]
      OBVIOUS
    <2> HIDE DEF known
    <2> QED BY <1>1, <1>2, <2>1, ConnTypes
  <1> HIDE DEF known
  <1>6. CASE old = NoConn
    BY <1>3, <1>4, <1>5, <1>6 DEF PipesKept, IdsKept, Closed
  <1>7. CASE old # NoConn
    <2>1. old \in DOMAIN conns /\ x \in Ends
      BY <1>1, <1>7, EndsMean DEF EntryInv
    <2>2. /\ s \in Conn /\ s.dialer = known[old].dialer
          /\ s.acceptor = known[old].acceptor /\ s.pipe = known[old].pipe
          /\ s.reader = known[old].reader
          /\ known[old].writer["dialer"] = "dropped" => s.writer["dialer"] = "dropped"
      <3> DEFINE t == known[old]
      <3>1. t \in Conn
        BY <1>5, <2>1
      <3>2. s = [t EXCEPT !.writer[x] = "dropped"]
        BY DEF s
      <3> HIDE DEF t, x
      <3>3. /\ s \in Conn /\ s.dialer = t.dialer
            /\ s.acceptor = t.acceptor /\ s.pipe = t.pipe
            /\ s.reader = t.reader
            /\ s.writer = [t.writer EXCEPT ![x] = "dropped"]
        BY <2>1, <3>1, <3>2 DEF Conn
      <3>4. t.writer["dialer"] = "dropped" => s.writer["dialer"] = "dropped"
        BY <3>1, <3>3 DEF Conn
      <3> QED BY <3>3, <3>4 DEF t
    <2>3. conns' = [known EXCEPT ![old] = s]
      BY <1>3, <1>7
    <2>4. /\ conns' \in Seq(Conn) /\ Len(conns') = Len(known)
          /\ DOMAIN conns' = DOMAIN known
      <3> DEFINE t == [known EXCEPT ![old] = s]
      <3> HIDE DEF old
      <3>1. t \in Seq(Conn) /\ Len(t) = Len(known)
        BY <1>4, <2>1, <2>2, ExceptSeq, LenProperties
      <3>2. DOMAIN t = DOMAIN known
        OBVIOUS
      <3> QED BY <2>3, <3>1, <3>2
    <2>5. ASSUME NEW d \in DOMAIN conns
          PROVE  /\ conns'[d].dialer = conns[d].dialer
                 /\ conns'[d].acceptor = conns[d].acceptor
                 /\ conns'[d].pipe = conns[d].pipe
                 /\ (d # c \/ e # "dialer") /\ Closed(d, "dialer") =>
                       /\ conns'[d].writer["dialer"] = "dropped"
                       /\ conns'[d].reader["dialer"] = "gone"
      <3>1. conns'[d] = IF d = old THEN s ELSE known[d]
        BY <1>4, <2>3
      <3> QED BY <1>5, <2>2, <3>1 DEF Closed
    <2> QED BY <1>4, <2>4, <2>5 DEF PipesKept, IdsKept, Closed
  <1> QED BY <1>6, <1>7

LEMMA GreetIs ==
    ASSUME TypeInv, NEW n \in Nodes, NEW p \in Nodes,
           Greet(n, p) \/ Enter(n, p)
    PROVE  LET c == Latest(n, p)
           IN  /\ c \in DOMAIN conns /\ Between(c, n, p)
               /\ \A d \in DOMAIN conns : Between(d, n, p) => d <= c
               /\ PipesKept
               /\ \A d \in DOMAIN conns \ {c} :
                     Closed(d, "dialer") => Closed(d, "dialer")'
  <1> DEFINE c == Latest(n, p)
  <1>1. conns \in Seq(Conn) /\ DialInv
    BY TypedMeans DEF TypeInv, Typed
  <1>2. /\ c \in DOMAIN conns /\ Between(c, n, p)
        /\ \A d \in DOMAIN conns : Between(d, n, p) => d <= c
    BY <1>1, LatestIs DEF Greet, Enter, DialInv
  <1>3. \/ conns' = [conns EXCEPT ![c].greeted = TRUE]
        \/ conns' = [conns EXCEPT ![c].writer["dialer"] = "dropped",
                                  ![c].reader["dialer"] = "on"]
        \/ conns' = Inserted([conns EXCEPT ![c].reader["dialer"] = "on"], n, p)
    BY DEF Greet, Enter
  <1> HIDE DEF c
  <1>4. CASE conns' = [conns EXCEPT ![c].greeted = TRUE]
    <2> DEFINE r == [conns[c] EXCEPT !.greeted = TRUE]
    <2>1. conns' = [conns EXCEPT ![c] = r]
      BY <1>4
    <2>2. conns[c] \in Conn
      BY <1>1, <1>2, ConnTypes
    <2>3. /\ r \in Conn /\ r.dialer = conns[c].dialer
          /\ r.acceptor = conns[c].acceptor /\ r.pipe = conns[c].pipe
      BY <2>2 DEF Conn
    <2> HIDE DEF r
    <2> QED
      BY <1>1, <1>2, <2>1, <2>3, ReplaceConn DEF c, OnlyConn, Closed
  <1>5. CASE conns' = [conns EXCEPT ![c].writer["dialer"] = "dropped",
                                    ![c].reader["dialer"] = "on"]
    BY <1>1, <1>2, <1>5, ChangeEnd, EndsMean DEF OnlyEnd, OnlyConn, Closed, c
  <1>6. CASE conns' = Inserted([conns EXCEPT ![c].reader["dialer"] = "on"], n, p)
    BY <1>2, <1>6, InsertedIs, EndsMean DEF c
  <1> QED BY <1>3, <1>4, <1>5, <1>6

LEMMA IdentifyIs ==
    ASSUME TypeInv, NEW c \in DOMAIN conns, Identify(c)
    PROVE  PipesKept /\ KeepsClosed
  <1>1. conns[c].acceptor \in Nodes /\ conns[c].dialer \in Nodes
    BY TypedMeans, ConnTypes DEF TypeInv, Typed
  <1>2. conns' = Inserted([conns EXCEPT ![c].reader["acceptor"] = "on"],
                          conns[c].acceptor, conns[c].dialer)
    BY DEF Identify
  <1> QED BY <1>1, <1>2, InsertedIs, EndsMean DEF KeepsClosed

\* The steps of a reader task, and the connection that is abandoned.
LEMMA ReaderIs ==
    ASSUME TypeInv, NEW c \in DOMAIN conns, NEW e \in Ends,
           Abandon(c) \/ ReadFails(c, e) \/ ReceiverDropped(c, e)
    PROVE  /\ PipesKept /\ KeepsClosed
           /\ ReceiverDropped(c, e) /\ e = "dialer" => Closed(c, "dialer")'
  <1>1. conns \in Seq(Conn) /\ "acceptor" \in Ends /\ "dialer" \in Ends
    BY TypedMeans, EndsMean DEF TypeInv, Typed
  <1>2. PICK f \in Ends, w \in {"open", "dropped"} :
          /\ OnlyEnd(c, f)
          /\ conns'[c].reader[f] = "gone" /\ conns'[c].writer[f] = w
          /\ f = "dialer" => w = "dropped" \/ w = conns[c].writer[f]
          /\ ReceiverDropped(c, e) /\ e = "dialer" => f = e /\ w = "dropped"
    <2>1. CASE ReceiverDropped(c, e)
      <3>1. CASE e = "dialer"
        <4>1. conns' = [conns EXCEPT ![c].reader[e] = "gone",
                                     ![c].writer[e] = "dropped"]
          BY <2>1, <3>1 DEF ReceiverDropped
        <4>2. conns' = [conns EXCEPT ![c].writer[e] = "dropped",
                                     ![c].reader[e] = "gone"]
          <5>1. conns[c] \in Conn
            BY <1>1, ConnTypes
          <5> QED BY <4>1, <5>1 DEF Conn
        <4> QED BY <1>1, <3>1, <4>2, ChangeEnd
      <3>2. CASE e # "dialer"
        <4>1. conns' = [conns EXCEPT ![c].reader[e] = "gone"]
          BY <2>1, <3>2 DEF ReceiverDropped
        <4>2. conns[c].writer[e] \in {"open", "dropped"}
          BY <1>1, ConnTypes
        <4>3. /\ OnlyEnd(c, e) /\ conns'[c].reader[e] = "gone"
              /\ conns'[c].writer[e] = conns[c].writer[e]
          BY <1>1, <4>1, ChangeReader
        <4> QED BY <3>2, <4>2, <4>3
      <3> QED BY <3>1, <3>2
    <2>2. CASE ~ReceiverDropped(c, e) /\ ReadFails(c, e)
      <3>1. conns' = [conns EXCEPT ![c].reader[e] = "gone"]
        BY <2>2 DEF ReadFails
      <3>2. conns[c].writer[e] \in {"open", "dropped"}
        BY <1>1, ConnTypes
      <3>3. /\ OnlyEnd(c, e) /\ conns'[c].reader[e] = "gone"
            /\ conns'[c].writer[e] = conns[c].writer[e]
        BY <1>1, <3>1, ChangeReader
      <3> QED BY <2>2, <3>2, <3>3
    <2>3. CASE ~ReceiverDropped(c, e) /\ Abandon(c)
      <3>1. conns' = [conns EXCEPT ![c].writer["acceptor"] = "dropped",
                                   ![c].reader["acceptor"] = "gone"]
        BY <2>3 DEF Abandon
      <3> QED BY <1>1, <2>3, <3>1, ChangeEnd
    <2> QED BY <2>1, <2>2, <2>3
  <1>3. ASSUME NEW d \in DOMAIN conns, Closed(d, "dialer")
        PROVE  Closed(d, "dialer")'
    <2>1. CASE d = c /\ f = "dialer"
      BY <1>2, <1>3, <2>1 DEF Closed
    <2>2. CASE d = c /\ f # "dialer"
      BY <1>1, <1>2, <1>3, <2>2 DEF Closed, OnlyEnd
    <2>3. CASE d # c
      BY <1>2, <1>3, <2>3 DEF Closed, OnlyEnd, OnlyConn
    <2> QED BY <2>1, <2>2, <2>3
  <1> QED BY <1>2, <1>3 DEF KeepsClosed, OnlyEnd, Closed

LEMMA DeliverIs ==
    ASSUME TypeInv, NEW c \in DOMAIN conns, NEW e \in Ends, Deliver(c, e)
    PROVE  LET n == Host(c, e)
               o == Other(e)
               m == Head(Pipe(c, o))
           IN  /\ n \in Nodes /\ o \in Ends /\ m \in Messages
               /\ Pipe(c, o) \in Seq(Messages) /\ Pipe(c, o) # << >>
               /\ OnlyPipe(c, o, Tail(Pipe(c, o)))
               /\ Len(inbox[n]) < InboxCapacity /\ inbox[n] \in Seq(Messages)
               /\ inbox' = [inbox EXCEPT ![n] = Append(inbox[n], m)]
               /\ UNCHANGED <<up, dial, entries, task, todo, sent, received,
                              stops, deaths>>
  <1> DEFINE n == Host(c, e)
             o == Other(e)
             s == Pipe(c, o)
  <1>1. conns \in Seq(Conn) /\ inbox \in [Nodes -> Seq(Messages)]
    BY TypedMeans DEF TypeInv, Typed, QueuesTyped
  <1>2. n \in Nodes /\ o \in Ends /\ s \in Seq(Messages)
    BY <1>1, ConnTypes, EndsMean
  <1>3. s # << >> /\ conns' = [conns EXCEPT ![c].pipe[o] = Tail(s)]
    BY DEF Deliver, TakeFromPipe, Pipe
  <1>4. Head(s) \in Messages /\ Tail(s) \in Seq(Messages)
    BY <1>2, <1>3, HeadTailProperties
  <1>5. OnlyPipe(c, o, Tail(s))
    <2> HIDE DEF o, s
    <2> QED BY <1>1, <1>2, <1>3, <1>4, ChangePipe
  <1>6. /\ Len(inbox[n]) < InboxCapacity
        /\ inbox' = [inbox EXCEPT ![n] = Append(inbox[n], Head(s))]
        /\ UNCHANGED <<up, dial, entries, task, todo, sent, received,
                       stops, deaths>>
    BY DEF Deliver, Pipe
  <1> QED BY <1>1, <1>2, <1>3, <1>4, <1>5, <1>6

LEMMA WriteIs ==
    ASSUME TypeInv, NEW n \in Nodes, NEW p \in Nodes, Write(n, p)
    PROVE  LET c == entries[n][p]
               e == EndOf(c, n)
               m == Sending(n)
           IN  /\ p \in todo[n] /\ todo' = [todo EXCEPT ![n] = todo[n] \ {p}]
               /\ c \in DOMAIN conns /\ e \in Ends
               /\ Host(c, e) = n /\ Host(c, Other(e)) = p
               /\ m \in sent[n] /\ m \in Messages
               /\ Pipe(c, e) \in Seq(Messages)
               /\ UNCHANGED conns \/ OnlyPipe(c, e, Append(Pipe(c, e), m))
               /\ UNCHANGED <<up, dial, entries, task, inbox, sent, received,
                              stops, deaths>>
  <1> DEFINE c == entries[n][p]
             e == EndOf(c, n)
             m == Sending(n)
  <1>1. conns \in Seq(Conn) /\ EntryInv /\ DialInv /\ TaskInv /\ TypeOK
    BY TypedMeans DEF TypeInv, Typed
  <1>2. /\ p \in todo[n] /\ todo' = [todo EXCEPT ![n] = todo[n] \ {p}]
        /\ UNCHANGED <<up, dial, entries, task, inbox, sent, received, stops,
                       deaths>>
        /\ \/ UNCHANGED conns
           \/ conns' = [conns EXCEPT ![c].pipe[e] = Append(Pipe(c, e), m)]
    BY DEF Write, Pipe
  <1>3. c \in DOMAIN conns /\ (Between(c, n, p) \/ Between(c, p, n))
    BY <1>1, <1>2 DEF TaskInv, EntryInv
  <1>4. e \in Ends /\ Host(c, e) = n /\ Host(c, Other(e)) = p
    <2> HIDE DEF c
    <2>1. conns[c].dialer # conns[c].acceptor
      <3>1. conns[c].dialer < conns[c].acceptor
        BY <1>1, <1>3 DEF DialInv
      <3>2. conns[c].dialer \in Nat /\ conns[c].acceptor \in Nat
        BY <1>1, <1>3, ConnTypes, Bounds
      <3> QED BY <3>1, <3>2
    <2> QED BY <1>3, <2>1 DEF Between, EndOf, Host, Other, Ends
  <1>5. m \in sent[n] /\ m \in Messages
    BY <1>1, <1>2, SendingIs DEF TaskInv
  <1>6. Pipe(c, e) \in Seq(Messages)
    BY <1>1, <1>3, <1>4, ConnTypes
  <1>7. UNCHANGED conns \/ OnlyPipe(c, e, Append(Pipe(c, e), m))
    <2> HIDE DEF c, e, m
    <2>1. Append(Pipe(c, e), m) \in Seq(Messages)
      BY <1>5, <1>6, AppendProperties
    <2> QED BY <1>1, <1>2, <1>3, <1>4, <2>1, ChangePipe
  <1> QED BY <1>2, <1>3, <1>4, <1>5, <1>6, <1>7

\* A change of one pipe closes nothing and opens nothing.
LEMMA PipeCloses ==
    ASSUME NEW c \in DOMAIN conns, NEW e \in Ends, NEW s, OnlyPipe(c, e, s)
    PROVE  IdsKept /\ KeepsClosed
  <1>1. ASSUME NEW d \in DOMAIN conns, Closed(d, "dialer")
        PROVE  Closed(d, "dialer")'
    BY <1>1 DEF OnlyPipe, OnlyConn, Closed
  <1> QED BY <1>1 DEF OnlyPipe, KeepsClosed

LEMMA StopIs ==
    ASSUME TypeInv, NEW n \in Nodes, Stop(n)
    PROVE  /\ PipesKept /\ KeepsClosed
           /\ \A d \in DOMAIN conns :
                 conns[d].dialer = n => Closed(d, "dialer")'
  <1> DEFINE x(d) == EndOf(d, n)
             gone(d) == [conns[d] EXCEPT !.writer[x(d)] = "dropped",
                                         !.reader[x(d)] = "gone"]
  <1>1. conns \in Seq(Conn)
    BY TypedMeans DEF TypeInv, Typed
  <1>2. conns' = [d \in DOMAIN conns |->
                    IF n \notin {Host(d, e) : e \in Ends} THEN conns[d]
                    ELSE gone(d)]
    BY DEF Stop
  <1>3. ASSUME NEW d \in DOMAIN conns
        PROVE  /\ gone(d) \in Conn
               /\ gone(d).dialer = conns[d].dialer
               /\ gone(d).acceptor = conns[d].acceptor
               /\ gone(d).pipe = conns[d].pipe
               /\ x(d) = "dialer" => /\ gone(d).writer["dialer"] = "dropped"
                                     /\ gone(d).reader["dialer"] = "gone"
               /\ Closed(d, "dialer") => /\ gone(d).writer["dialer"] = "dropped"
                                         /\ gone(d).reader["dialer"] = "gone"
    <2> DEFINE y == x(d)
               r == gone(d)
    <2>1. conns[d] \in Conn /\ y \in Ends
      BY <1>1, ConnTypes, EndsMean
    <2>2. r = [conns[d] EXCEPT !.writer[y] = "dropped", !.reader[y] = "gone"]
      OBVIOUS
    <2> HIDE DEF y, r
    <2>3. /\ r \in Conn /\ r.dialer = conns[d].dialer
          /\ r.acceptor = conns[d].acceptor /\ r.pipe = conns[d].pipe
          /\ r.writer = [conns[d].writer EXCEPT ![y] = "dropped"]
          /\ r.reader = [conns[d].reader EXCEPT ![y] = "gone"]
      BY <2>1, <2>2 DEF Conn
    <2>4. /\ conns[d].writer \in [Ends -> {"open", "dropped"}]
          /\ conns[d].reader \in [Ends -> {"none", "on", "gone"}]
          /\ "dialer" \in Ends
      BY <1>1, ConnTypes, EndsMean
    <2>5. /\ y = "dialer" => r.writer["dialer"] = "dropped" /\ r.reader["dialer"] = "gone"
          /\ Closed(d, "dialer") => /\ r.writer["dialer"] = "dropped"
                                    /\ r.reader["dialer"] = "gone"
      BY <2>1, <2>3, <2>4 DEF Closed
    <2> QED BY <2>3, <2>5 DEF r, y
  <1> HIDE DEF gone
  <1>4. ASSUME NEW d \in DOMAIN conns
        PROVE  /\ conns'[d] \in Conn
               /\ conns'[d].dialer = conns[d].dialer
               /\ conns'[d].acceptor = conns[d].acceptor
               /\ conns'[d].pipe = conns[d].pipe
               /\ Closed(d, "dialer") => /\ conns'[d].writer["dialer"] = "dropped"
                                         /\ conns'[d].reader["dialer"] = "gone"
    <2>1. conns'[d] = conns[d] \/ conns'[d] = gone(d)
      BY <1>2
    <2>2. conns[d] \in Conn
      BY <1>1, ConnTypes
    <2> QED BY <1>3, <2>1, <2>2 DEF Closed
  <1>5. ASSUME NEW d \in DOMAIN conns, conns[d].dialer = n
        PROVE  /\ conns'[d].writer["dialer"] = "dropped"
               /\ conns'[d].reader["dialer"] = "gone"
    <2>1. n \in {Host(d, e) : e \in Ends} /\ x(d) = "dialer"
      BY <1>5, EndsMean DEF Host, EndOf
    <2> QED BY <1>2, <1>3, <2>1
  <1>6. /\ conns' \in Seq(Conn) /\ Len(conns') = Len(conns)
        /\ DOMAIN conns' = DOMAIN conns
    <2>1. DOMAIN conns = 1 .. Len(conns) /\ Len(conns) \in Nat
      BY <1>1
    <2>2. conns' \in [1 .. Len(conns) -> Conn]
      BY <1>2, <1>4, <2>1
    <2> QED BY <2>1, <2>2
  <1> QED BY <1>4, <1>5, <1>6 DEF PipesKept, IdsKept, KeepsClosed, Closed

\* An entry of the map is written; with the lock taken no one else writes it.
LEMMA EntryWritten ==
    ASSUME TypeInv, IdsKept, UNCHANGED <<up, task, todo, sent>>,
           NEW n \in Nodes, NEW p \in Nodes, NEW c \in DOMAIN conns,
           Between(c, n, p) \/ Between(c, p, n),
           entries' = [entries EXCEPT ![n][p] = c]
    PROVE  EntryInv' /\ EntriesTyped' /\ TaskInv'
  <1>1. Typed /\ TaskInv
    BY TypedMeans DEF TypeInv
  <1>2. c # NoConn
    BY <1>1, Bounds, ConnTypes DEF Typed
  <1>3. /\ EntryInv' /\ entries' \in [Nodes -> [Nodes -> 0 .. MaxConns]]
        /\ \A k, q \in Nodes :
              entries'[k][q] = IF k = n /\ q = p THEN c ELSE entries[k][q]
    BY EntryMoves
  <1>4. EntriesTyped'
    BY <1>1, <1>3 DEF Typed, EntriesTyped
  <1>5. ASSUME NEW k \in Nodes, NEW q \in todo[k]
        PROVE  entries'[k][q] # NoConn
    <2>1. q \in Nodes /\ entries[k][q] # NoConn
      BY <1>1 DEF Typed, EntriesTyped, TaskInv
    <2> QED BY <1>2, <1>3, <2>1
  <1>6. TaskInv'
    BY <1>1, <1>5 DEF TaskInv
  <1> QED BY <1>3, <1>4, <1>6

LEMMA GreetTypes ==
    ASSUME TypeInv, NEW n \in Nodes, NEW p \in Nodes,
           Greet(n, p) \/ Enter(n, p)
    PROVE  TypeInv'
  <1> DEFINE c == Latest(n, p)
  <1>1. Typed /\ DialInv /\ EntryInv /\ TaskInv
    BY TypedMeans DEF TypeInv
  <1>2. c \in DOMAIN conns /\ Between(c, n, p) /\ PipesKept /\ IdsKept
    BY GreetIs DEF PipesKept
  <1>3. PICK s \in {"entering", "reading"} :
          /\ dial' = [dial EXCEPT ![n][p] = s]
          /\ s = "entering" => dial[n][p] = "greeting"
          /\ dial[n][p] # "off"
          /\ \/ UNCHANGED entries
             \/ Unlocked(n) /\ entries' = [entries EXCEPT ![n][p] = c]
          /\ UNCHANGED <<up, task, todo, inbox, sent, received, stops, deaths>>
    BY DEF Greet, Enter
  <1>4. DialInv' /\ DialTyped'
    BY <1>2, <1>3, DialMoves DEF DialStates
  <1>5. EntryInv' /\ EntriesTyped' /\ TaskInv'
    <2>1. CASE UNCHANGED entries
      BY <1>1, <1>2, <1>3, <2>1, EntrySame DEF Typed, EntriesTyped, TaskInv
    <2>2. CASE entries' = [entries EXCEPT ![n][p] = c]
      <3> HIDE DEF c
      <3> QED BY <1>2, <1>3, <2>2, EntryWritten
    <2> QED BY <1>3, <2>1, <2>2
  <1>6. Typed'
    BY <1>1, <1>2, <1>3, <1>4, <1>5
    DEF Typed, ProcessTyped, QueuesTyped, PipesKept, IdsKept
  <1> QED BY <1>4, <1>5, <1>6, TypedNext

LEMMA AcceptTypes ==
    ASSUME TypeInv, NEW c \in DOMAIN conns, Accepting(c)
    PROVE  TypeInv'
  <1>1. Typed /\ DialInv /\ EntryInv /\ TaskInv
    BY TypedMeans DEF TypeInv
  <1>2. PipesKept /\ IdsKept
    BY IdentifyIs, ReaderIs, EndsMean DEF Accepting, PipesKept
  <1>3. UNCHANGED <<up, dial, task, todo, inbox, sent, received, stops, deaths>>
    BY DEF Accepting, Identify, Abandon
  <1>4. DialInv'
    BY <1>1, <1>2, <1>3, DialSame
  <1>5. EntryInv' /\ EntriesTyped' /\ TaskInv'
    <2>1. CASE Identify(c)
      <3> DEFINE n == conns[c].acceptor
                 p == conns[c].dialer
      <3>1. n \in Nodes /\ p \in Nodes /\ Between(c, p, n)
        BY <1>1, ConnTypes DEF Typed, Between
      <3>2. entries' = [entries EXCEPT ![n][p] = c]
        BY <2>1 DEF Identify
      <3> HIDE DEF n, p
      <3> QED BY <1>2, <1>3, <3>1, <3>2, EntryWritten
    <2>2. CASE Abandon(c)
      <3>1. UNCHANGED entries
        BY <2>2 DEF Abandon
      <3> QED BY <1>1, <1>2, <1>3, <3>1, EntrySame DEF Typed, EntriesTyped, TaskInv
    <2> QED BY <2>1, <2>2 DEF Accepting
  <1>6. Typed'
    BY <1>1, <1>2, <1>3, <1>5
    DEF Typed, ProcessTyped, QueuesTyped, DialTyped, PipesKept, IdsKept
  <1> QED BY <1>4, <1>5, <1>6, TypedNext

\* A reader task ends.
LEMMA ReaderTypes ==
    ASSUME TypeInv, ClosedInv, NEW c \in DOMAIN conns, NEW e \in Ends,
           ReadFails(c, e) \/ ReceiverDropped(c, e)
    PROVE  TypeInv'
  <1> DEFINE n == Host(c, e)
             p == Host(c, Other(e))
  <1>1. Typed /\ DialInv /\ EntryInv /\ TaskInv
    BY TypedMeans DEF TypeInv
  <1>2. PipesKept /\ IdsKept /\ n \in Nodes /\ p \in Nodes
    BY <1>1, ReaderIs, ConnTypes, EndsMean DEF PipesKept, Typed
  <1>3. /\ UNCHANGED <<up, task, todo, inbox, sent, received, stops, deaths>>
        /\ conns[c].reader[e] = "on"
        /\ \/ UNCHANGED dial
           \/ /\ e = "dialer"
              /\ \E s \in {"ended", "waiting"} : dial' = [dial EXCEPT ![n][p] = s]
        /\ \/ UNCHANGED entries
           \/ task[n] = "dead" /\ entries' = [entries EXCEPT ![n][p] = NoConn]
    BY DEF ReadFails, ReceiverDropped
  <1>4. e = "dialer" => dial[n][p] # "off"
    BY <1>1, <1>2, <1>3 DEF ClosedInv, Closed, Between, Host, Other, n, p
  <1> HIDE DEF n, p
  <1>5. DialInv' /\ DialTyped'
    <2>1. CASE UNCHANGED dial
      BY <1>1, <1>2, <1>3, <2>1, DialSame DEF Typed, DialTyped
    <2>2. ASSUME NEW s \in {"ended", "waiting"}, dial' = [dial EXCEPT ![n][p] = s],
                 e = "dialer"
          PROVE  DialInv' /\ DialTyped'
      BY <1>2, <1>3, <1>4, <2>2, DialMoves DEF DialStates
    <2> QED BY <1>3, <2>1, <2>2
  <1>6. EntryInv' /\ EntriesTyped' /\ TaskInv'
    <2>1. CASE UNCHANGED entries
      BY <1>1, <1>2, <1>3, <2>1, EntrySame DEF Typed, EntriesTyped, TaskInv
    <2>2. CASE task[n] = "dead" /\ entries' = [entries EXCEPT ![n][p] = NoConn]
      <3>1. /\ EntryInv' /\ entries' \in [Nodes -> [Nodes -> 0 .. MaxConns]]
            /\ \A k, q \in Nodes :
                  entries'[k][q] = IF k = n /\ q = p THEN NoConn ELSE entries[k][q]
        BY <1>2, <2>2, EntryMoves
      <3>2. EntriesTyped'
        BY <1>1, <1>3, <3>1 DEF Typed, EntriesTyped
      <3>3. todo[n] = {}
        BY <1>1, <1>2, <2>2 DEF TaskInv
      <3>4. ASSUME NEW k \in Nodes, NEW q \in todo[k]
            PROVE  entries'[k][q] # NoConn
        <4>1. q \in Nodes /\ entries[k][q] # NoConn /\ k # n
          BY <1>1, <3>3 DEF Typed, EntriesTyped, TaskInv
        <4> QED BY <3>1, <4>1
      <3>5. TaskInv'
        BY <1>1, <1>3, <3>4 DEF TaskInv
      <3> QED BY <3>1, <3>2, <3>5
    <2> QED BY <1>3, <2>1, <2>2
  <1>7. Typed'
    BY <1>1, <1>2, <1>3, <1>5, <1>6
    DEF Typed, ProcessTyped, QueuesTyped, PipesKept, IdsKept
  <1> QED BY <1>5, <1>6, <1>7, TypedNext

\* A message goes from a pipe to the receiver, or from the map's writers to a
\* pipe.
LEMMA MoveTypes ==
    ASSUME TypeInv,
           \/ \E c \in DOMAIN conns, e \in Ends : Deliver(c, e)
           \/ \E n, p \in Nodes : Write(n, p)
    PROVE  TypeInv'
  <1>1. Typed /\ DialInv /\ EntryInv /\ TaskInv
    BY TypedMeans DEF TypeInv
  <1>2. ASSUME NEW c \in DOMAIN conns, NEW e \in Ends, Deliver(c, e)
        PROVE  TypeInv'
    <2> DEFINE n == Host(c, e)
               m == Head(Pipe(c, Other(e)))
    <2>1. /\ n \in Nodes /\ m \in Messages /\ IdsKept
          /\ Len(inbox[n]) < InboxCapacity /\ inbox[n] \in Seq(Messages)
          /\ inbox' = [inbox EXCEPT ![n] = Append(inbox[n], m)]
          /\ UNCHANGED <<up, dial, entries, task, todo, sent, received, stops,
                         deaths>>
      BY <1>2, DeliverIs DEF OnlyPipe
    <2> HIDE DEF n, m
    <2>2. /\ Append(inbox[n], m) \in Seq(Messages)
          /\ Len(Append(inbox[n], m)) <= InboxCapacity
      BY <2>1, Bounds, AppendProperties, LenProperties
    <2>3. QueuesTyped'
      BY <1>1, <2>1, <2>2 DEF Typed, QueuesTyped
    <2>4. Typed'
      BY <1>1, <2>1, <2>3 DEF Typed, ProcessTyped, DialTyped, EntriesTyped, IdsKept
    <2>5. TaskInv'
      BY <1>1, <2>1 DEF TaskInv
    <2> QED BY <1>1, <2>1, <2>4, <2>5, DialSame, EntrySame, TypedNext
  <1>3. ASSUME NEW n \in Nodes, NEW p \in Nodes, Write(n, p)
        PROVE  TypeInv'
    <2>1. /\ p \in todo[n] /\ todo' = [todo EXCEPT ![n] = todo[n] \ {p}]
          /\ IdsKept
          /\ UNCHANGED <<up, dial, entries, task, inbox, sent, received, stops,
                         deaths>>
      BY <1>1, <1>3, WriteIs, SameConns DEF Typed, OnlyPipe, PipesKept
    <2>2. Typed'
      BY <1>1, <2>1 DEF Typed, ProcessTyped, DialTyped, EntriesTyped, QueuesTyped,
                        IdsKept
    <2>3. TaskInv'
      <3>1. \A k \in Nodes : todo'[k] \subseteq todo[k]
        BY <1>1, <2>1 DEF Typed, EntriesTyped
      <3>2. \A k \in Nodes : todo[k] = {} => todo'[k] = {}
        BY <3>1
      <3> QED BY <1>1, <2>1, <3>1, <3>2 DEF TaskInv
    <2> QED BY <1>1, <2>1, <2>2, <2>3, DialSame, EntrySame, TypedNext
  <1> QED BY <1>2, <1>3

\* The background task: what it does leaves the connections alone.
LEMMA BackgroundTypes ==
    ASSUME TypeInv, NEW n \in Nodes,
           \/ SendEnds(n) \/ Receive(n) \/ Die(n)
           \/ \E m \in Messages : Send(n, m)
    PROVE  TypeInv'
  <1>1. Typed /\ DialInv /\ EntryInv /\ TaskInv
    BY TypedMeans DEF TypeInv
  <1>2. /\ UNCHANGED <<up, dial, conns, entries, stops>>
        /\ task[n] # "dead"
    BY DEF SendEnds, Receive, Die, Send
  <1>3. PipesKept /\ IdsKept
    BY <1>1, <1>2, SameConns DEF Typed, PipesKept
  <1>4. up[n]
    BY <1>1, <1>2 DEF TaskInv
  <1>5. ProcessTyped' /\ EntriesTyped' /\ TaskInv'
    <2>1. CASE SendEnds(n)
      BY <1>1, <1>2, <1>4, <2>1
      DEF SendEnds, Typed, ProcessTyped, EntriesTyped, TaskInv
    <2>2. CASE Receive(n)
      BY <1>1, <1>2, <2>2 DEF Receive, Typed, ProcessTyped, EntriesTyped, TaskInv
    <2>3. CASE Die(n)
      <3>1. ProcessTyped'
        BY <1>1, <1>2, <2>3, Bounds DEF Die, Typed, ProcessTyped
      <3>2. EntriesTyped' /\ UNCHANGED <<todo, sent>>
        BY <1>1, <1>2, <2>3 DEF Die, Typed, EntriesTyped
      <3>3. \A k \in Nodes : task'[k] = IF k = n THEN "dead" ELSE task[k]
        BY <1>1, <2>3 DEF Die, Typed, ProcessTyped
      <3>4. todo[n] = {}
        BY <1>1, <2>3 DEF Die, TaskInv
      <3>5. TaskInv'
        BY <1>1, <1>2, <3>2, <3>3, <3>4 DEF TaskInv
      <3> QED BY <3>1, <3>2, <3>5
    <2>4. ASSUME NEW m \in Messages, Send(n, m)
          PROVE  ProcessTyped' /\ EntriesTyped' /\ TaskInv'
      <3>1. ProcessTyped' /\ EntriesTyped'
        BY <1>1, <1>2, <2>4 DEF Send, Typed, ProcessTyped, EntriesTyped
      <3>2. ASSUME NEW k \in Nodes
            PROVE  /\ task'[k] = IF k = n THEN "sending" ELSE task[k]
                   /\ k # n => todo'[k] = todo[k] /\ sent'[k] = sent[k]
                   /\ \A q \in todo'[n] : entries[n][q] # NoConn
                   /\ sent'[n] # {}
        BY <1>1, <2>4 DEF Send, Typed, ProcessTyped, EntriesTyped, QueuesTyped
      <3>3. TaskInv'
        BY <1>1, <1>2, <1>4, <3>2 DEF TaskInv
      <3> QED BY <3>1, <3>3
    <2> QED BY <2>1, <2>2, <2>3, <2>4
  <1>6. QueuesTyped'
    <2>1. CASE SendEnds(n)
      BY <1>1, <2>1 DEF SendEnds, Typed, QueuesTyped
    <2>2. CASE Receive(n)
      <3> DEFINE s == inbox[n]
                 t == Tail(s)
                 r == Append(received[n], Head(s))
      <3>1. s \in Seq(Messages) /\ s # << >> /\ received[n] \in Seq(Messages)
        BY <1>1, <2>2 DEF Receive, Typed, QueuesTyped
      <3>2. /\ t \in Seq(Messages) /\ r \in Seq(Messages)
            /\ Len(t) <= Len(s) /\ Len(s) \in Nat /\ Len(t) \in Nat
        <4> HIDE DEF s
        <4> QED BY <3>1, HeadTailProperties, AppendProperties, LenProperties
      <3>3. /\ inbox' = [inbox EXCEPT ![n] = t]
            /\ received' = [received EXCEPT ![n] = r]
            /\ UNCHANGED sent
        BY <2>2 DEF Receive
      <3>4. Len(t) <= InboxCapacity
        <4>1. Len(s) <= InboxCapacity
          BY <1>1 DEF Typed, QueuesTyped
        <4> HIDE DEF s, t
        <4> QED BY <3>2, <4>1, Bounds
      <3> HIDE DEF s, t, r
      <3> QED BY <1>1, <3>2, <3>3, <3>4 DEF Typed, QueuesTyped
    <2>3. CASE Die(n)
      BY <1>1, <2>3, Bounds, EmptySeq DEF Die, Typed, QueuesTyped
    <2>4. ASSUME NEW m \in Messages, Send(n, m)
          PROVE  QueuesTyped'
      BY <1>1, <2>4 DEF Send, Typed, QueuesTyped
    <2> QED BY <2>1, <2>2, <2>3, <2>4
  <1>7. Typed'
    BY <1>1, <1>2, <1>3, <1>5, <1>6 DEF Typed, DialTyped, IdsKept
  <1> QED BY <1>1, <1>2, <1>3, <1>5, <1>7, DialSame, EntrySame, TypedNext

LEMMA StopTypes ==
    ASSUME TypeInv, NEW n \in Nodes, Stop(n)
    PROVE  TypeInv'
  <1>1. Typed /\ DialInv /\ EntryInv /\ TaskInv
    BY TypedMeans DEF TypeInv
  <1>2. PipesKept /\ IdsKept
    BY StopIs DEF PipesKept
  <1>3. /\ up' = [up EXCEPT ![n] = FALSE]
        /\ dial' = [dial EXCEPT ![n] = [p \in Nodes |-> "off"]]
        /\ entries' = [entries EXCEPT ![n] = [p \in Nodes |-> NoConn]]
        /\ task' = [task EXCEPT ![n] = "dead"]
        /\ todo' = [todo EXCEPT ![n] = {}]
        /\ inbox' = [inbox EXCEPT ![n] = << >>]
        /\ UNCHANGED <<sent, received, deaths>>
        /\ stops < MaxStops /\ stops' = stops + 1
    BY DEF Stop
  <1>4. ProcessTyped' /\ DialTyped' /\ EntriesTyped' /\ QueuesTyped'
    BY <1>1, <1>3, Bounds, EmptySeq
    DEF Typed, ProcessTyped, DialTyped, DialStates, EntriesTyped, QueuesTyped
  <1>5. TaskInv'
    BY <1>1, <1>3 DEF Typed, ProcessTyped, EntriesTyped, QueuesTyped, TaskInv
  <1>6. \A c \in DOMAIN conns, k, q \in Nodes : Between(c, k, q)' <=> Between(c, k, q)
    BY <1>2 DEF IdsKept, Between
  <1>7. ASSUME NEW k \in Nodes, NEW q \in Nodes
        PROVE  /\ dial'[k][q] = IF k = n THEN "off" ELSE dial[k][q]
               /\ entries'[k][q] = IF k = n THEN NoConn ELSE entries[k][q]
               /\ up'[k] = IF k = n THEN FALSE ELSE up[k]
    BY <1>1, <1>3 DEF Typed, ProcessTyped, DialTyped, EntriesTyped
  <1>8. DialInv'
    <2>1. ASSUME NEW k \in Nodes, NEW q \in Nodes, dial'[k][q] # "off"
          PROVE  k < q /\ up'[k]
      <3>1. k # n /\ dial[k][q] # "off"
        BY <1>7, <2>1
      <3> QED BY <1>1, <1>7, <3>1 DEF DialInv
    <2>2. ASSUME NEW k \in Nodes, NEW q \in Nodes,
                 dial'[k][q] \in {"greeting", "entering"}
          PROVE  \E c \in DOMAIN conns' : Between(c, k, q)'
      <3>1. dial[k][q] \in {"greeting", "entering"}
        BY <1>7, <2>2
      <3>2. PICK c \in DOMAIN conns : Between(c, k, q)
        BY <1>1, <3>1 DEF DialInv
      <3> QED BY <1>2, <1>6, <3>2 DEF IdsKept
    <2> QED BY <1>1, <1>2, <2>1, <2>2 DEF DialInv, IdsKept
  <1>9. EntryInv'
    BY <1>1, <1>2, <1>6, <1>7 DEF EntryInv, IdsKept
  <1> QED BY <1>2, <1>4, <1>5, <1>8, <1>9, TypedNext DEF Typed, IdsKept

\* The steps of Next, in the order of the proofs below.
LEMMA StepCases ==
    ASSUME Next
    PROVE  \/ \E n \in Nodes : Start(n) \/ Stop(n)
           \/ \E n \in Nodes : \/ SendEnds(n) \/ Receive(n) \/ Die(n)
                               \/ \E m \in Messages : Send(n, m)
           \/ \E n, p \in Nodes : Connect(n, p)
           \/ \E n, p \in Nodes : Refused(n, p) \/ Retry(n, p)
           \/ \E n, p \in Nodes : Greet(n, p) \/ Enter(n, p)
           \/ \E c \in DOMAIN conns : Accepting(c)
           \/ \E c \in DOMAIN conns, e \in Ends :
                 ReadFails(c, e) \/ ReceiverDropped(c, e)
           \/ \E c \in DOMAIN conns, e \in Ends : Deliver(c, e)
           \/ \E n, p \in Nodes : Write(n, p)
  BY DEF Next, Background, Dialing, Reading

LEMMA StepTypes ==
    ASSUME TypeInv, ClosedInv, Next
    PROVE  TypeInv'
  BY StepCases, StartTypes, StopTypes, BackgroundTypes, ConnectTypes, WaitTypes,
     GreetTypes, AcceptTypes, ReaderTypes, MoveTypes

-----------------------------------------------------------------------------
(* One connection.                                                           *)

Unconnected == {"off", "connecting", "waiting"}

\* No end opens, and a task is to connect only where all is closed.
LEMMA StaysClosed ==
    ASSUME TypeInv, ClosedInv, IdsKept, KeepsClosed,
           \A n, p \in Nodes : dial'[n][p] \in Unconnected =>
              \/ dial[n][p] \in Unconnected
              \/ \A c \in DOMAIN conns : Between(c, n, p) => Closed(c, "dialer")'
    PROVE  ClosedInv'
  <1>1. \A c \in DOMAIN conns : \A k, q : Between(c, k, q)' <=> Between(c, k, q)
    BY DEF IdsKept, Between
  <1>2. ASSUME NEW n \in Nodes, NEW p \in Nodes, dial'[n][p] \in Unconnected,
               NEW c \in DOMAIN conns, Between(c, n, p)
        PROVE  Closed(c, "dialer")'
    BY <1>2 DEF ClosedInv, KeepsClosed, Unconnected
  <1>3. ASSUME NEW c \in DOMAIN conns, NEW d \in DOMAIN conns, c < d,
               Between(c, conns[d].dialer, conns[d].acceptor)
        PROVE  Closed(c, "dialer")'
    BY <1>3 DEF ClosedInv, KeepsClosed
  <1>4. ASSUME NEW c \in DOMAIN conns', NEW d \in DOMAIN conns', c < d,
               Between(c, conns[d].dialer, conns[d].acceptor)'
        PROVE  Closed(c, "dialer")'
    BY <1>3, <1>4 DEF IdsKept, Between
  <1>5. \A n, p \in Nodes : dial'[n][p] \in {"off", "connecting", "waiting"} =>
           \A c \in DOMAIN conns' : Between(c, n, p)' => Closed(c, "dialer")'
    BY <1>1, <1>2 DEF Unconnected, IdsKept
  <1> QED BY <1>4, <1>5 DEF ClosedInv

LEMMA ConnectCloses ==
    ASSUME TypeInv, ClosedInv, NEW n \in Nodes, NEW p \in Nodes, Connect(n, p)
    PROVE  ClosedInv'
  <1>1. /\ Len(conns) \in Nat /\ DOMAIN conns = 1 .. Len(conns)
        /\ DOMAIN conns' = 1 .. Len(conns) + 1
        /\ \A c \in DOMAIN conns : conns'[c] = conns[c]
        /\ conns'[Len(conns) + 1] = NewConn(n, p)
    BY NewConnIs
  <1>2. DialTyped
    BY TypedMeans DEF TypeInv, Typed
  <1>3. /\ dial[n][p] = "connecting"
        /\ \A k, q \in Nodes :
              dial'[k][q] = IF k = n /\ q = p THEN "greeting" ELSE dial[k][q]
    BY <1>2 DEF Connect, DialTyped
  <1>4. \A c \in DOMAIN conns : \A k, q :
           /\ Between(c, k, q)' <=> Between(c, k, q)
           /\ Closed(c, "dialer")' <=> Closed(c, "dialer")
    BY <1>1 DEF Between, Closed
  <1>5. ASSUME NEW k \in Nodes, NEW q \in Nodes,
               dial'[k][q] \in {"off", "connecting", "waiting"},
               NEW c \in DOMAIN conns', Between(c, k, q)'
        PROVE  Closed(c, "dialer")'
    <2>1. ~(k = n /\ q = p)
      BY <1>3, <1>5
    <2>2. CASE c \in DOMAIN conns
      BY <1>3, <1>4, <1>5, <2>1, <2>2 DEF ClosedInv
    <2>3. CASE c = Len(conns) + 1
      BY <1>1, <1>5, <2>1, <2>3 DEF Between, NewConn
    <2> QED BY <1>1, <2>2, <2>3
  <1>6. ASSUME NEW c \in DOMAIN conns', NEW d \in DOMAIN conns', c < d,
               Between(c, conns[d].dialer, conns[d].acceptor)'
        PROVE  Closed(c, "dialer")'
    <2>1. c \in DOMAIN conns
      BY <1>1, <1>6
    <2>2. CASE d \in DOMAIN conns
      <3>1. Between(c, conns[d].dialer, conns[d].acceptor)
        BY <1>1, <1>6, <2>1, <2>2 DEF Between
      <3> QED BY <1>4, <1>6, <2>1, <2>2, <3>1 DEF ClosedInv
    <2>3. CASE d = Len(conns) + 1
      <3>1. Between(c, n, p)
        BY <1>1, <1>6, <2>1, <2>3 DEF Between, NewConn
      <3> QED BY <1>3, <1>4, <2>1, <3>1 DEF ClosedInv
    <2> QED BY <1>1, <2>2, <2>3
  <1> QED BY <1>5, <1>6 DEF ClosedInv

LEMMA GreetCloses ==
    ASSUME TypeInv, ClosedInv, NEW n \in Nodes, NEW p \in Nodes,
           Greet(n, p) \/ Enter(n, p)
    PROVE  ClosedInv'
  <1>1. PICK c \in DOMAIN conns :
          /\ Between(c, n, p)
          /\ \A d \in DOMAIN conns : Between(d, n, p) => d <= c
          /\ PipesKept
          /\ \A d \in DOMAIN conns \ {c} :
                Closed(d, "dialer") => Closed(d, "dialer")'
    BY GreetIs
  <1>2. DialTyped
    BY TypedMeans DEF TypeInv, Typed
  <1>3. \A k, q \in Nodes :
           dial'[k][q] \in {"off", "connecting", "waiting"} =>
               dial'[k][q] = dial[k][q] /\ ~(k = n /\ q = p)
    BY <1>2 DEF Greet, Enter, DialTyped
  <1>4. /\ \A d \in DOMAIN conns : \A k, q : Between(d, k, q)' <=> Between(d, k, q)
        /\ \A d \in DOMAIN conns \ {c} : Closed(d, "dialer") => Closed(d, "dialer")'
    BY <1>1 DEF PipesKept, IdsKept, Between
  <1>5. ASSUME NEW k \in Nodes, NEW q \in Nodes,
               dial'[k][q] \in {"off", "connecting", "waiting"},
               NEW d \in DOMAIN conns', Between(d, k, q)'
        PROVE  Closed(d, "dialer")'
    <2>1. d \in DOMAIN conns /\ Between(d, k, q) /\ d # c
      BY <1>1, <1>3, <1>4, <1>5 DEF PipesKept, IdsKept, Between
    <2> QED BY <1>3, <1>4, <1>5, <2>1 DEF ClosedInv
  <1>6. ASSUME NEW d \in DOMAIN conns', NEW f \in DOMAIN conns', d < f,
               Between(d, conns[f].dialer, conns[f].acceptor)'
        PROVE  Closed(d, "dialer")'
    <2>1. /\ d \in DOMAIN conns /\ f \in DOMAIN conns
          /\ Between(d, conns[f].dialer, conns[f].acceptor)
      BY <1>1, <1>6 DEF PipesKept, IdsKept, Between
    <2>2. d # c
      <3>1. d \in Nat /\ f \in Nat
        BY <2>1, ConnTypes DEF TypeInv, TypeOK
      <3> QED BY <1>1, <1>6, <2>1, <3>1 DEF Between
    <2> QED BY <1>4, <1>6, <2>1, <2>2 DEF ClosedInv
  <1> QED BY <1>5, <1>6 DEF ClosedInv

\* The task that connects again left its last connection closed, and those
\* before it were.
LEMMA ReaderCloses ==
    ASSUME TypeInv, ClosedInv, NEW c \in DOMAIN conns, NEW e \in Ends,
           ReadFails(c, e) \/ ReceiverDropped(c, e)
    PROVE  ClosedInv'
  <1> DEFINE n == Host(c, e)
             p == Host(c, Other(e))
  <1>1. PipesKept /\ KeepsClosed /\ IdsKept
    BY ReaderIs DEF PipesKept
  <1>2. n \in Nodes /\ p \in Nodes /\ DialTyped /\ conns \in Seq(Conn)
    BY TypedMeans, ConnTypes, EndsMean DEF TypeInv, Typed
  <1>3. CASE ~(ReceiverDropped(c, e) /\ e = "dialer")
    <2>1. UNCHANGED dial \/ dial' = [dial EXCEPT ![n][p] = "ended"]
      BY <1>3 DEF ReadFails, ReceiverDropped
    <2>2. \A k, q \in Nodes : dial'[k][q] \in Unconnected =>
             dial[k][q] \in Unconnected
      <3> HIDE DEF n, p
      <3> QED BY <1>2, <2>1 DEF DialTyped, Unconnected
    <2> QED BY <1>1, <2>2, StaysClosed
  <1>4. CASE ReceiverDropped(c, e) /\ e = "dialer"
    <2>1. /\ dial' = [dial EXCEPT ![n][p] = "waiting"]
          /\ conns[c].reader["dialer"] = "on"
          /\ Between(c, n, p)
          /\ Closed(c, "dialer")'
      BY <1>4, ReaderIs DEF ReceiverDropped, Between, Host, Other
    <2>2. ASSUME NEW d \in DOMAIN conns, Between(d, n, p)
          PROVE  Closed(d, "dialer")'
      <3>1. d \in Nat /\ c \in Nat
        BY <1>2, ConnTypes
      <3>2. CASE d = c
        BY <2>1, <3>2
      <3>3. CASE d < c
        BY <1>1, <2>1, <2>2, <3>3 DEF ClosedInv, KeepsClosed, Between
      <3>4. CASE c < d
        BY <2>1, <2>2, <3>4 DEF ClosedInv, Closed, Between
      <3> QED BY <3>1, <3>2, <3>3, <3>4
    <2>3. ASSUME NEW k \in Nodes, NEW q \in Nodes, dial'[k][q] \in Unconnected
          PROVE  \/ dial[k][q] \in Unconnected
                 \/ \A d \in DOMAIN conns : Between(d, k, q) => Closed(d, "dialer")'
      <3>1. CASE k = n /\ q = p
        BY <2>2, <3>1
      <3>2. CASE ~(k = n /\ q = p)
        <4> HIDE DEF n, p
        <4> QED BY <1>2, <2>1, <2>3, <3>2 DEF DialTyped
      <3> QED BY <3>1, <3>2
    <2> HIDE DEF n, p
    <2> QED BY <1>1, <2>3, StaysClosed
  <1> QED BY <1>3, <1>4

LEMMA StopCloses ==
    ASSUME TypeInv, ClosedInv, NEW n \in Nodes, Start(n) \/ Stop(n)
    PROVE  ClosedInv'
  <1>1. DialTyped /\ conns \in Seq(Conn) /\ DialInv /\ up \in [Nodes -> BOOLEAN]
    BY TypedMeans DEF TypeInv, Typed, ProcessTyped
  <1>2. CASE Start(n)
    <2>1. UNCHANGED conns /\ ~up[n]
      BY <1>2 DEF Start
    <2>2. PipesKept /\ IdsKept /\ KeepsClosed
      BY <1>1, <2>1, SameConns DEF PipesKept, KeepsClosed, Closed
    <2>3. \A k, q \in Nodes : k # n => dial'[k][q] = dial[k][q]
      BY <1>1, <1>2 DEF Start, DialTyped
    <2>4. \A q \in Nodes : dial[n][q] = "off"
      BY <1>1, <2>1 DEF DialInv
    <2> QED BY <2>2, <2>3, <2>4, StaysClosed DEF Unconnected
  <1>3. CASE Stop(n)
    <2>1. /\ PipesKept /\ KeepsClosed /\ IdsKept
          /\ \A d \in DOMAIN conns : conns[d].dialer = n => Closed(d, "dialer")'
      BY <1>3, StopIs DEF PipesKept
    <2>2. \A k, q \in Nodes : k # n => dial'[k][q] = dial[k][q]
      BY <1>1, <1>3 DEF Stop, DialTyped
    <2> QED BY <2>1, <2>2, StaysClosed DEF Between
  <1> QED BY <1>2, <1>3

LEMMA OthersClose ==
    ASSUME TypeInv, ClosedInv,
           \/ \E n \in Nodes : \/ SendEnds(n) \/ Receive(n) \/ Die(n)
                               \/ \E m \in Messages : Send(n, m)
           \/ \E n, p \in Nodes : Refused(n, p) \/ Retry(n, p)
           \/ \E c \in DOMAIN conns : Accepting(c)
           \/ \E c \in DOMAIN conns, e \in Ends : Deliver(c, e)
           \/ \E n, p \in Nodes : Write(n, p)
    PROVE  ClosedInv'
  <1>1. DialTyped /\ conns \in Seq(Conn)
    BY TypedMeans DEF TypeInv, Typed
  <1>2. UNCHANGED conns => PipesKept /\ IdsKept /\ KeepsClosed
    BY <1>1, SameConns DEF PipesKept, KeepsClosed, Closed
  <1>3. ASSUME NEW n \in Nodes,
               \/ SendEnds(n) \/ Receive(n) \/ Die(n)
               \/ \E m \in Messages : Send(n, m)
        PROVE  UNCHANGED <<conns, dial>>
    BY <1>3 DEF SendEnds, Receive, Die, Send
  <1>4. ASSUME NEW n \in Nodes, NEW p \in Nodes, Refused(n, p) \/ Retry(n, p)
        PROVE  ClosedInv'
    <2>1. UNCHANGED conns
      BY <1>4 DEF Refused, Retry
    <2>2. PICK s \in Unconnected : /\ dial[n][p] \in Unconnected
                                   /\ dial' = [dial EXCEPT ![n][p] = s]
      BY <1>4 DEF Refused, Retry, AfterRefusal, Unconnected
    <2>3. ASSUME NEW k \in Nodes, NEW q \in Nodes
          PROVE  dial'[k][q] = IF k = n /\ q = p THEN s ELSE dial[k][q]
      BY <1>1, <2>2 DEF DialTyped
    <2>4. \A k, q \in Nodes : dial'[k][q] \in Unconnected =>
             dial[k][q] \in Unconnected
      BY <2>2, <2>3
    <2> QED BY <1>2, <2>1, <2>4, StaysClosed
  <1>5. ASSUME NEW c \in DOMAIN conns, Accepting(c)
        PROVE  IdsKept /\ KeepsClosed /\ UNCHANGED dial
    BY <1>5, IdentifyIs, ReaderIs, EndsMean
    DEF Accepting, PipesKept, Identify, Abandon
  <1>6. ASSUME NEW c \in DOMAIN conns, NEW e \in Ends, Deliver(c, e)
        PROVE  IdsKept /\ KeepsClosed /\ UNCHANGED dial
    BY <1>6, DeliverIs, PipeCloses
  <1>7. ASSUME NEW n \in Nodes, NEW p \in Nodes, Write(n, p)
        PROVE  IdsKept /\ KeepsClosed /\ UNCHANGED dial
    BY <1>2, <1>7, WriteIs, PipeCloses
  <1> QED BY <1>2, <1>3, <1>4, <1>5, <1>6, <1>7, StaysClosed

LinkInv == TypeInv /\ ClosedInv

LEMMA InitLinks == Init => LinkInv
  <1>1. Init => ClosedInv
    BY DEF Init, ClosedInv
  <1> QED BY <1>1, InitTypes DEF LinkInv

LEMMA SameLinks == LinkInv /\ UNCHANGED vars => LinkInv'
  <1> SUFFICES ASSUME LinkInv, UNCHANGED vars PROVE LinkInv'
    OBVIOUS
  <1>1. TypeOK'
    BY DEF LinkInv, TypeInv, TypeOK, vars
  <1>2. DialInv' /\ EntryInv'
    BY DEF LinkInv, TypeInv, DialInv, EntryInv, Between, vars
  <1>3. TaskInv'
    BY DEF LinkInv, TypeInv, TaskInv, vars
  <1>4. ClosedInv'
    BY DEF LinkInv, ClosedInv, Between, Closed, vars
  <1> QED BY <1>1, <1>2, <1>3, <1>4 DEF LinkInv, TypeInv

LEMMA StepLinks == LinkInv /\ [Next]_vars => LinkInv'
  <1>1. ASSUME LinkInv, Next
        PROVE  LinkInv'
    <2>1. TypeInv'
      BY <1>1, StepTypes DEF LinkInv
    <2>2. ClosedInv'
      BY <1>1, StepCases, StopCloses, OthersClose, ConnectCloses, GreetCloses,
         ReaderCloses DEF LinkInv
    <2> QED BY <2>1, <2>2 DEF LinkInv
  <1> QED BY <1>1, SameLinks

LEMMA LinksHold == Spec => []LinkInv
  BY InitLinks, StepLinks, PTL DEF Spec

\* Whatever is started, stopped and connected, in whatever order, the channel
\* keeps to its types; above all the receiver holds no more than its capacity.
THEOREM TypesHold == Spec => []TypeOK
  <1>1. LinkInv => TypeOK
    BY DEF LinkInv, TypeInv
  <1> QED BY <1>1, LinksHold, PTL

\* Two nodes never keep two connections, however often handle_connection, the
\* dialing tasks and whole processes end and begin again.
THEOREM ConnectionsAreSingle == Spec => []OneConnection
  <1>1. LinkInv => OneConnection
    <2> SUFFICES ASSUME LinkInv, NEW c \in DOMAIN conns, NEW d \in DOMAIN conns,
                        {Host(c, e) : e \in Ends} = {Host(d, e) : e \in Ends},
                        c # d
                 PROVE  \E e \in Ends : Closed(c, e) \/ Closed(d, e)
      BY DEF OneConnection
    <2>1. conns \in Seq(Conn) /\ DialInv /\ ClosedInv
      BY DEF LinkInv, TypeInv, TypeOK
    <2>2. /\ conns[c].dialer \in Nat /\ conns[c].acceptor \in Nat
          /\ conns[d].dialer \in Nat /\ conns[d].acceptor \in Nat
          /\ conns[c].dialer < conns[c].acceptor
          /\ conns[d].dialer < conns[d].acceptor
          /\ c \in Nat /\ d \in Nat
      BY <2>1, ConnTypes, Bounds DEF DialInv
    <2>3. /\ {Host(c, e) : e \in Ends} = {conns[c].dialer, conns[c].acceptor}
          /\ {Host(d, e) : e \in Ends} = {conns[d].dialer, conns[d].acceptor}
      BY DEF Host, Ends
    <2>4. conns[c].dialer = conns[d].dialer /\ conns[c].acceptor = conns[d].acceptor
      BY <2>2, <2>3
    <2>5. Closed(c, "dialer") \/ Closed(d, "dialer")
      <3>1. CASE c < d
        BY <2>1, <2>4, <3>1 DEF ClosedInv, Between
      <3>2. CASE d < c
        BY <2>1, <2>4, <3>2 DEF ClosedInv, Between
      <3> QED BY <2>2, <3>1, <3>2
    <2> QED BY <2>5, EndsMean
  <1> QED BY <1>1, LinksHold, PTL

-----------------------------------------------------------------------------
(* Where the messages are.                                                   *)

LEMMA EmptyPlace == Elements(<< >>) = {} /\ Distinct(<< >>)
  BY DEF Elements, Distinct

LEMMA LastPlace ==
    ASSUME NEW S, NEW s \in Seq(S), NEW x \in S
    PROVE  /\ Elements(Append(s, x)) = Elements(s) \cup {x}
           /\ Distinct(s) /\ x \notin Elements(s) => Distinct(Append(s, x))
  <1> DEFINE t == Append(s, x)
  <1>1. /\ Len(s) \in Nat /\ DOMAIN s = 1 .. Len(s)
        /\ DOMAIN t = 1 .. Len(s) + 1 /\ t[Len(s) + 1] = x
        /\ \A i \in 1 .. Len(s) : t[i] = s[i]
    BY AppendProperties, LenProperties
  <1> HIDE DEF t
  <1>2. Elements(t) = Elements(s) \cup {x}
    BY <1>1 DEF Elements
  <1>3. ASSUME Distinct(s), x \notin Elements(s), NEW i \in DOMAIN t,
               NEW j \in DOMAIN t, t[i] = t[j]
        PROVE  i = j
    BY <1>1, <1>3 DEF Distinct, Elements
  <1>4. Distinct(s) /\ x \notin Elements(s) => Distinct(t)
    BY <1>3 DEF Distinct
  <1> QED BY <1>2, <1>4 DEF t

LEMMA FirstPlace ==
    ASSUME NEW S, NEW s \in Seq(S), s # << >>
    PROVE  /\ Elements(s) = Elements(Tail(s)) \cup {Head(s)}
           /\ Distinct(s) => /\ Distinct(Tail(s))
                             /\ Head(s) \notin Elements(Tail(s))
  <1> DEFINE t == Tail(s)
             x == Head(s)
  <1>1. /\ Len(s) \in Nat /\ DOMAIN s = 1 .. Len(s) /\ Len(s) > 0
        /\ DOMAIN t = 1 .. Len(s) - 1 /\ x = s[1]
        /\ \A i \in 1 .. Len(s) - 1 : t[i] = s[i + 1]
    BY HeadTailProperties, LenProperties, EmptySeq
  <1> HIDE DEF t, x
  <1>2. Elements(s) = Elements(t) \cup {x}
    <2>1. ASSUME NEW i \in DOMAIN s, i # 1
          PROVE  i - 1 \in DOMAIN t /\ t[i - 1] = s[i]
      BY <1>1, <2>1
    <2>2. \A i \in DOMAIN t : i + 1 \in DOMAIN s /\ t[i] = s[i + 1]
      BY <1>1
    <2>3. 1 \in DOMAIN s
      BY <1>1
    <2> QED BY <1>1, <2>1, <2>2, <2>3 DEF Elements
  <1>3. ASSUME Distinct(s)
        PROVE  Distinct(t) /\ x \notin Elements(t)
    <2>1. \A i \in DOMAIN t :
             i + 1 \in DOMAIN s /\ t[i] = s[i + 1] /\ i \in Nat /\ i + 1 # 1
      BY <1>1
    <2>2. 1 \in DOMAIN s
      BY <1>1
    <2>3. Distinct(t)
      <3>1. ASSUME NEW i \in DOMAIN t, NEW j \in DOMAIN t, t[i] = t[j]
            PROVE  i = j
        <4>1. i + 1 = j + 1
          BY <1>3, <2>1, <3>1 DEF Distinct
        <4> QED BY <2>1, <4>1
      <3> QED BY <3>1 DEF Distinct
    <2>4. x \notin Elements(t)
      BY <1>1, <1>3, <2>1, <2>2 DEF Distinct, Elements
    <2> QED BY <2>3, <2>4
  <1> QED BY <1>2, <1>3 DEF t, x

\* The two ends of a connection are at two nodes.
LEMMA HostsDiffer ==
    ASSUME LinkInv, NEW c \in DOMAIN conns, NEW e \in Ends
    PROVE  /\ Host(c, e) \in Nodes /\ Host(c, Other(e)) \in Nodes
           /\ Host(c, e) # Host(c, Other(e))
  <1>1. conns \in Seq(Conn) /\ DialInv
    BY DEF LinkInv, TypeInv, TypeOK
  <1>2. /\ conns[c].dialer \in Nat /\ conns[c].acceptor \in Nat
        /\ conns[c].dialer < conns[c].acceptor
    BY <1>1, ConnTypes, Bounds DEF DialInv
  <1>3. conns[c].dialer # conns[c].acceptor
    BY <1>2
  <1> QED BY <1>1, <1>3, ConnTypes, EndsMean DEF Host, Other

LEMMA PipesSame ==
    ASSUME PipesKept
    PROVE  /\ DOMAIN conns' = DOMAIN conns
           /\ \A c \in DOMAIN conns, e \in Ends :
                 Pipe(c, e)' = Pipe(c, e) /\ Host(c, e)' = Host(c, e)
  BY DEF PipesKept, IdsKept, Pipe, Host

\* Nothing moves; a receiver may be emptied, and a send given up.
LEMMA NothingMoves ==
    ASSUME LinkInv, MessageInv, PipesKept, UNCHANGED <<sent, received>>,
           \A n \in Nodes : inbox'[n] = inbox[n] \/ inbox'[n] = << >>,
           \A n \in Nodes : todo'[n] \subseteq todo[n]
    PROVE  MessageInv'
  <1>1. /\ DOMAIN conns' = DOMAIN conns
        /\ \A c \in DOMAIN conns, e \in Ends :
              /\ Pipe(c, e)' = Pipe(c, e) /\ Host(c, e)' = Host(c, e)
              /\ Host(c, Other(e))' = Host(c, Other(e))
              /\ Host(c, Other(e)) \in Nodes
    BY PipesSame, EndsMean, HostsDiffer
  <1>2. \A n \in Nodes :
           /\ Elements(inbox'[n]) \subseteq Elements(inbox[n])
           /\ Distinct(inbox'[n])
    BY EmptyPlace DEF MessageInv, PlaceInv, NodePlaces
  <1>3. \A n : Sending(n)' = Sending(n)
    BY DEF Sending
  <1>4. SentInv'
    BY DEF MessageInv, SentInv
  <1>5. SourceInv'
    BY <1>1, <1>2 DEF MessageInv, SourceInv, NodeSources, PipeSources
  <1>6. PlaceInv'
    <2>1. NodePlaces'
      BY <1>2 DEF MessageInv, PlaceInv, NodePlaces
    <2>2. PipePlaces'
      BY <1>1, <1>2 DEF MessageInv, PlaceInv, PipePlaces
    <2>3. PipesApart'
      BY <1>1 DEF MessageInv, PlaceInv, PipesApart
    <2> QED BY <2>1, <2>2, <2>3 DEF PlaceInv
  <1>7. TodoInv'
    <2>1. ASSUME NEW n \in Nodes, NEW p \in todo'[n]
          PROVE  /\ Sending(n) \notin Elements(received[p]) \cup Elements(inbox'[p])
                 /\ \A c \in DOMAIN conns, e \in Ends :
                       Host(c, Other(e)) = p => Sending(n) \notin Elements(Pipe(c, e))
      <3>1. p \in todo[n] /\ p \in Nodes
        BY <2>1 DEF LinkInv, TypeInv, TypeOK
      <3> QED BY <1>2, <3>1 DEF MessageInv, TodoInv
    <2> QED BY <1>1, <1>3, <2>1 DEF TodoInv
  <1> QED BY <1>4, <1>5, <1>6, <1>7 DEF MessageInv

\* A new connection has nothing under way.
LEMMA ConnectMessages ==
    ASSUME LinkInv, MessageInv, NEW n \in Nodes, NEW p \in Nodes, Connect(n, p)
    PROVE  MessageInv'
  <1> DEFINE new == Len(conns) + 1
  <1>1. /\ DOMAIN conns' = DOMAIN conns \cup {new}
        /\ \A c \in DOMAIN conns : conns'[c] = conns[c] /\ c # new
        /\ conns'[new] = NewConn(n, p)
    <2>1. /\ Len(conns) \in Nat /\ DOMAIN conns = 1 .. Len(conns)
          /\ DOMAIN conns' = 1 .. Len(conns) + 1
          /\ \A c \in DOMAIN conns : conns'[c] = conns[c]
          /\ conns'[new] = NewConn(n, p)
      BY NewConnIs DEF LinkInv
    <2> QED BY <2>1
  <1> HIDE DEF new
  <1>2. UNCHANGED <<sent, received, inbox, todo>>
    BY DEF Connect
  <1>3. /\ \A c \in DOMAIN conns, e \in Ends :
              /\ Pipe(c, e)' = Pipe(c, e) /\ Host(c, e)' = Host(c, e)
              /\ Host(c, Other(e))' = Host(c, Other(e))
        /\ \A c \in DOMAIN conns' \ DOMAIN conns, e \in Ends :
              Elements(Pipe(c, e)') = {} /\ Distinct(Pipe(c, e)')
    <2>1. \A c \in DOMAIN conns, e \in Ends :
              /\ Pipe(c, e)' = Pipe(c, e) /\ Host(c, e)' = Host(c, e)
              /\ Host(c, Other(e))' = Host(c, Other(e))
      BY <1>1 DEF Pipe, Host
    <2>2. ASSUME NEW c \in DOMAIN conns' \ DOMAIN conns, NEW e \in Ends
          PROVE  Pipe(c, e)' = << >>
      BY <1>1 DEF Pipe, NewConn
    <2> QED BY <2>1, <2>2, EmptyPlace
  <1>4. \A c \in DOMAIN conns' :
           \/ c \in DOMAIN conns
           \/ \A e \in Ends : Elements(Pipe(c, e)') = {} /\ Distinct(Pipe(c, e)')
    BY <1>3
  <1>5. DOMAIN conns \subseteq DOMAIN conns'
    BY <1>1
  <1>6. \A k : Sending(k)' = Sending(k)
    BY <1>2 DEF Sending
  <1>7. SentInv'
    BY <1>2 DEF MessageInv, SentInv
  <1>8. SourceInv'
    BY <1>2, <1>3, <1>4 DEF MessageInv, SourceInv, NodeSources, PipeSources
  <1>9. NodePlaces'
    BY <1>2 DEF MessageInv, PlaceInv, NodePlaces
  <1>10. PipePlaces'
    BY <1>2, <1>3, <1>4 DEF MessageInv, PlaceInv, PipePlaces
  <1>11. PipesApart'
    BY <1>2, <1>3, <1>4 DEF MessageInv, PlaceInv, PipesApart
  <1>12. TodoInv'
    BY <1>2, <1>3, <1>4, <1>6 DEF MessageInv, TodoInv
  <1> QED BY <1>7, <1>8, <1>9, <1>10, <1>11, <1>12 DEF MessageInv, PlaceInv

\* What a change of one pipe leaves alone.
LEMMA OtherPipes ==
    ASSUME NEW c \in DOMAIN conns, NEW o \in Ends, NEW s, OnlyPipe(c, o, s)
    PROVE  /\ DOMAIN conns' = DOMAIN conns
           /\ Pipe(c, o)' = s
           /\ \A d \in DOMAIN conns, f \in Ends :
                 /\ d # c \/ f # o => Pipe(d, f)' = Pipe(d, f)
                 /\ Host(d, f)' = Host(d, f)
                 /\ Host(d, Other(f))' = Host(d, Other(f))
  BY EndsMean DEF OnlyPipe, OnlyConn, IdsKept, Pipe, Host

\* From the pipe to the receiver.
LEMMA DeliverMessages ==
    ASSUME LinkInv, MessageInv, NEW c \in DOMAIN conns, NEW e \in Ends,
           Deliver(c, e)
    PROVE  MessageInv'
  <1> DEFINE n == Host(c, e)
             o == Other(e)
             m == Head(Pipe(c, o))
             t == Tail(Pipe(c, o))
  <1>1. /\ n \in Nodes /\ o \in Ends /\ m \in Messages
        /\ Pipe(c, o) \in Seq(Messages) /\ Pipe(c, o) # << >>
        /\ OnlyPipe(c, o, t)
        /\ inbox[n] \in Seq(Messages)
        /\ inbox' = [inbox EXCEPT ![n] = Append(inbox[n], m)]
        /\ UNCHANGED <<todo, sent, received>>
    BY DeliverIs DEF LinkInv
  <1>2. /\ Elements(Pipe(c, o)) = Elements(t) \cup {m}
        /\ Distinct(t) /\ m \notin Elements(t)
    BY <1>1, FirstPlace DEF MessageInv, PlaceInv, PipePlaces
  <1>3. Host(c, Other(o)) = n /\ Host(c, o) \in Nodes \ {n}
    BY EndsMean, HostsDiffer
  <1>4. inbox \in [Nodes -> Seq(Messages)] /\ todo \in [Nodes -> SUBSET Nodes]
    BY DEF LinkInv, TypeInv, TypeOK
  <1> HIDE DEF n, o, m, t
  <1>5. /\ DOMAIN conns' = DOMAIN conns
        /\ Pipe(c, o)' = t
        /\ \A d \in DOMAIN conns, f \in Ends :
              /\ d # c \/ f # o => Pipe(d, f)' = Pipe(d, f)
              /\ Host(d, f)' = Host(d, f)
              /\ Host(d, Other(f))' = Host(d, Other(f))
    BY <1>1, OtherPipes
  <1>6. \A d \in DOMAIN conns, f \in Ends :
           /\ Elements(Pipe(d, f)') \subseteq Elements(Pipe(d, f))
           /\ Distinct(Pipe(d, f)')
           /\ Host(d, Other(f)) = n => m \notin Elements(Pipe(d, f)')
           /\ Host(d, Other(f)) \in Nodes
    <2>1. ASSUME NEW d \in DOMAIN conns, NEW f \in Ends
          PROVE  /\ Elements(Pipe(d, f)') \subseteq Elements(Pipe(d, f))
                 /\ Distinct(Pipe(d, f)')
                 /\ Host(d, Other(f)) = n => m \notin Elements(Pipe(d, f)')
      <3>1. CASE d = c /\ f = o
        BY <1>2, <1>5, <3>1
      <3>2. CASE ~(d = c /\ f = o)
        <4>1. Pipe(d, f)' = Pipe(d, f) /\ Distinct(Pipe(d, f))
          BY <1>5, <3>2 DEF MessageInv, PlaceInv, PipePlaces
        <4>2. Host(d, Other(f)) = n =>
                 Elements(Pipe(d, f)) \cap Elements(Pipe(c, o)) = {}
          BY <1>1, <1>3, <3>2 DEF MessageInv, PlaceInv, PipesApart
        <4> QED BY <1>2, <4>1, <4>2
      <3> QED BY <3>1, <3>2
    <2> QED BY <2>1, HostsDiffer
  <1>7. m \notin Elements(received[n]) /\ m \notin Elements(inbox[n])
        /\ m \in sent[Host(c, o)]
    BY <1>1, <1>2, <1>3 DEF MessageInv, PlaceInv, PipePlaces, SourceInv, PipeSources
  <1>8. /\ Elements(inbox'[n]) = Elements(inbox[n]) \cup {m}
        /\ Distinct(inbox'[n])
        /\ \A k \in Nodes \ {n} : inbox'[k] = inbox[k]
    <2>1. inbox'[n] = Append(inbox[n], m)
      BY <1>1, <1>4
    <2>2. Distinct(inbox[n])
      BY <1>1 DEF MessageInv, PlaceInv, NodePlaces
    <2> QED BY <1>1, <1>4, <1>7, <2>1, <2>2, LastPlace
  <1>9. \A k : Sending(k)' = Sending(k)
    BY <1>1 DEF Sending
  <1>10. SentInv'
    BY <1>1 DEF MessageInv, SentInv
  <1>11. SourceInv'
    <2>1. ASSUME NEW k \in Nodes,
                 NEW l \in Elements(received[k]) \cup Elements(inbox'[k])
          PROVE  \E q \in Nodes \ {k} : l \in sent[q]
      <3>1. CASE k = n /\ l = m
        BY <1>3, <1>7, <3>1
      <3>2. CASE ~(k = n /\ l = m)
        BY <1>8, <2>1, <3>2 DEF MessageInv, SourceInv, NodeSources
      <3> QED BY <3>1, <3>2
    <2>2. \A d \in DOMAIN conns, f \in Ends :
             Elements(Pipe(d, f)') \subseteq sent[Host(d, f)]
      BY <1>6 DEF MessageInv, SourceInv, PipeSources
    <2>3. NodeSources'
      BY <1>1, <2>1 DEF NodeSources
    <2>4. PipeSources'
      BY <1>1, <1>5, <2>2 DEF PipeSources
    <2> QED BY <2>3, <2>4 DEF SourceInv
  <1>12. NodePlaces'
    BY <1>1, <1>7, <1>8 DEF MessageInv, PlaceInv, NodePlaces
  <1>13. PipePlaces'
    <2>1. ASSUME NEW d \in DOMAIN conns, NEW f \in Ends
          PROVE  /\ Elements(Pipe(d, f)') \cap Elements(received[Host(d, Other(f))]) = {}
                 /\ Elements(Pipe(d, f)') \cap Elements(inbox'[Host(d, Other(f))]) = {}
      <3>1. /\ Elements(Pipe(d, f)) \cap Elements(received[Host(d, Other(f))]) = {}
            /\ Elements(Pipe(d, f)) \cap Elements(inbox[Host(d, Other(f))]) = {}
        BY DEF MessageInv, PlaceInv, PipePlaces
      <3>2. CASE Host(d, Other(f)) = n
        BY <1>6, <1>8, <3>1, <3>2
      <3>3. CASE Host(d, Other(f)) # n
        BY <1>6, <1>8, <3>1, <3>3
      <3> QED BY <3>2, <3>3
    <2> QED BY <1>1, <1>5, <1>6, <2>1 DEF PipePlaces
  <1>14. PipesApart'
    BY <1>5, <1>6 DEF MessageInv, PlaceInv, PipesApart
  <1>15. TodoInv'
    <2>1. ASSUME NEW k \in Nodes, NEW q \in todo[k]
          PROVE  /\ Sending(k) \notin Elements(received[q]) \cup Elements(inbox'[q])
                 /\ \A d \in DOMAIN conns, f \in Ends :
                       Host(d, Other(f)) = q => Sending(k) \notin Elements(Pipe(d, f)')
      <3>1. q \in Nodes
        BY <1>4
      <3>2. /\ Sending(k) \notin Elements(received[q]) \cup Elements(inbox[q])
            /\ \A d \in DOMAIN conns, f \in Ends :
                  Host(d, Other(f)) = q => Sending(k) \notin Elements(Pipe(d, f))
        BY DEF MessageInv, TodoInv
      <3>3. q = n => Sending(k) # m
        BY <1>1, <1>2, <1>3, <3>2
      <3> QED BY <1>6, <1>8, <3>1, <3>2, <3>3
    <2> QED BY <1>1, <1>5, <1>9, <2>1 DEF TodoInv
  <1> QED BY <1>10, <1>11, <1>12, <1>13, <1>14, <1>15 DEF MessageInv, PlaceInv

\* From the one who sends to the pipe: m is at p nowhere else.
LEMMA WriteMessages ==
    ASSUME LinkInv, MessageInv, NEW n \in Nodes, NEW p \in Nodes, Write(n, p)
    PROVE  MessageInv'
  <1>1. PICK c \in DOMAIN conns, e \in Ends, m \in Messages :
          /\ p \in todo[n] /\ todo' = [todo EXCEPT ![n] = todo[n] \ {p}]
          /\ Host(c, e) = n /\ Host(c, Other(e)) = p
          /\ m = Sending(n) /\ m \in sent[n]
          /\ Pipe(c, e) \in Seq(Messages)
          /\ UNCHANGED conns \/ OnlyPipe(c, e, Append(Pipe(c, e), m))
          /\ UNCHANGED <<inbox, sent, received>>
    BY WriteIs DEF LinkInv
  <1> DEFINE t == Append(Pipe(c, e), m)
  <1>2. todo \in [Nodes -> SUBSET Nodes] /\ conns \in Seq(Conn) /\ TypeOK /\ TaskInv
    BY DEF LinkInv, TypeInv, TypeOK
  <1>3. \A k : Sending(k)' = Sending(k)
    BY <1>1 DEF Sending
  <1>4. m \notin Elements(received[p]) \cup Elements(inbox[p])
        /\ \A d \in DOMAIN conns, f \in Ends :
              Host(d, Other(f)) = p => m \notin Elements(Pipe(d, f))
    BY <1>1 DEF MessageInv, TodoInv
  <1>5. CASE UNCHANGED conns
    <2>1. \A k \in Nodes : todo'[k] \subseteq todo[k]
      BY <1>1, <1>2
    <2> QED BY <1>1, <1>2, <1>5, <2>1, SameConns, NothingMoves
  <1>6. CASE OnlyPipe(c, e, t)
    <2>1. /\ DOMAIN conns' = DOMAIN conns
          /\ Pipe(c, e)' = t
          /\ \A d \in DOMAIN conns, f \in Ends :
                /\ d # c \/ f # e => Pipe(d, f)' = Pipe(d, f)
                /\ Host(d, f)' = Host(d, f)
                /\ Host(d, Other(f))' = Host(d, Other(f))
      BY <1>1, <1>6, OtherPipes
    <2>2. Elements(t) = Elements(Pipe(c, e)) \cup {m} /\ Distinct(t)
      BY <1>1, <1>4, LastPlace DEF MessageInv, PlaceInv, PipePlaces
    <2> HIDE DEF t
    <2>3. \A d \in DOMAIN conns, f \in Ends :
             /\ (d = c /\ f = e) \/ Pipe(d, f)' = Pipe(d, f)
             /\ Elements(Pipe(d, f)') \subseteq Elements(Pipe(d, f)) \cup {m}
             /\ m \in Elements(Pipe(d, f)') /\ Host(d, Other(f)) = p =>
                   d = c /\ f = e
             /\ Host(d, Other(f)) # p => Pipe(d, f)' = Pipe(d, f)
             /\ Distinct(Pipe(d, f)')
      <3>1. ASSUME NEW d \in DOMAIN conns, NEW f \in Ends
            PROVE  /\ (d = c /\ f = e) \/ Pipe(d, f)' = Pipe(d, f)
                   /\ Elements(Pipe(d, f)') \subseteq Elements(Pipe(d, f)) \cup {m}
                   /\ m \in Elements(Pipe(d, f)') /\ Host(d, Other(f)) = p =>
                         d = c /\ f = e
                   /\ Host(d, Other(f)) # p => Pipe(d, f)' = Pipe(d, f)
                   /\ Distinct(Pipe(d, f)')
        <4>1. CASE d = c /\ f = e
          BY <1>1, <2>1, <2>2, <4>1
        <4>2. CASE ~(d = c /\ f = e)
          <5>1. Pipe(d, f)' = Pipe(d, f) /\ Distinct(Pipe(d, f))
            BY <2>1, <4>2 DEF MessageInv, PlaceInv, PipePlaces
          <5> QED BY <1>4, <5>1
        <4> QED BY <4>1, <4>2
      <3> QED BY <3>1
    <2>4. SentInv'
      BY <1>1 DEF MessageInv, SentInv
    <2>5. SourceInv'
      <3>1. ASSUME NEW d \in DOMAIN conns, NEW f \in Ends
            PROVE  Elements(Pipe(d, f)') \subseteq sent[Host(d, f)]
        <4>1. Elements(Pipe(d, f)) \subseteq sent[Host(d, f)]
          BY DEF MessageInv, SourceInv, PipeSources
        <4>2. CASE d = c /\ f = e
          BY <1>1, <2>3, <4>1, <4>2
        <4>3. CASE ~(d = c /\ f = e)
          BY <2>3, <4>1, <4>3
        <4> QED BY <4>2, <4>3
      <3>2. PipeSources'
        BY <1>1, <2>1, <3>1 DEF PipeSources
      <3>3. NodeSources'
        BY <1>1 DEF MessageInv, SourceInv, NodeSources
      <3> QED BY <3>2, <3>3 DEF SourceInv
    <2>6. NodePlaces'
      BY <1>1 DEF MessageInv, PlaceInv, NodePlaces
    <2>7. PipePlaces'
      <3>1. ASSUME NEW d \in DOMAIN conns, NEW f \in Ends
            PROVE  /\ Elements(Pipe(d, f)') \cap Elements(received[Host(d, Other(f))]) = {}
                   /\ Elements(Pipe(d, f)') \cap Elements(inbox[Host(d, Other(f))]) = {}
        <4>1. /\ Elements(Pipe(d, f)) \cap Elements(received[Host(d, Other(f))]) = {}
              /\ Elements(Pipe(d, f)) \cap Elements(inbox[Host(d, Other(f))]) = {}
          BY DEF MessageInv, PlaceInv, PipePlaces
        <4>2. CASE Host(d, Other(f)) = p
          BY <1>4, <2>3, <4>1, <4>2
        <4>3. CASE Host(d, Other(f)) # p
          BY <2>3, <4>1, <4>3
        <4> QED BY <4>2, <4>3
      <3> QED BY <1>1, <2>1, <2>3, <3>1 DEF PipePlaces
    <2>8. PipesApart'
      <3>1. ASSUME NEW d \in DOMAIN conns, NEW b \in DOMAIN conns,
                   NEW f \in Ends, NEW g \in Ends, d # b \/ f # g,
                   Host(d, Other(f)) = Host(b, Other(g))
            PROVE  Elements(Pipe(d, f)') \cap Elements(Pipe(b, g)') = {}
        <4>1. Elements(Pipe(d, f)) \cap Elements(Pipe(b, g)) = {}
          BY <3>1 DEF MessageInv, PlaceInv, PipesApart
        <4>2. CASE Host(d, Other(f)) = p
          <5>1. m \notin Elements(Pipe(d, f)') \cap Elements(Pipe(b, g)')
            BY <2>3, <3>1, <4>2
          <5> QED BY <2>3, <4>1, <5>1
        <4>3. CASE Host(d, Other(f)) # p
          BY <2>3, <3>1, <4>1, <4>3
        <4> QED BY <4>2, <4>3
      <3> QED BY <2>1, <3>1 DEF PipesApart
    <2>9. TodoInv'
      <3>1. ASSUME NEW k \in Nodes, NEW q \in todo'[k]
            PROVE  /\ Sending(k) \notin Elements(received[q]) \cup Elements(inbox[q])
                   /\ \A d \in DOMAIN conns, f \in Ends :
                         Host(d, Other(f)) = q =>
                             Sending(k) \notin Elements(Pipe(d, f)')
        <4>1. q \in todo[k] /\ ~(k = n /\ q = p)
          BY <1>1, <1>2, <3>1
        <4>2. /\ Sending(k) \notin Elements(received[q]) \cup Elements(inbox[q])
              /\ \A d \in DOMAIN conns, f \in Ends :
                    Host(d, Other(f)) = q => Sending(k) \notin Elements(Pipe(d, f))
          BY <4>1 DEF MessageInv, TodoInv
        <4>3. CASE q = p
          <5>1. k # n /\ sent[k] # {}
            BY <1>2, <4>1, <4>3 DEF TaskInv
          <5>2. Sending(k) \in sent[k]
            BY <1>2, <5>1, SendingIs
          <5>3. Sending(k) # m
            BY <1>1, <5>1, <5>2 DEF MessageInv, SentInv
          <5> QED BY <2>3, <4>2, <5>3
        <4>4. CASE q # p
          BY <2>3, <4>2, <4>4
        <4> QED BY <4>3, <4>4
      <3> QED BY <1>1, <1>3, <2>1, <3>1 DEF TodoInv
    <2> QED BY <2>4, <2>5, <2>6, <2>7, <2>8, <2>9 DEF MessageInv, PlaceInv
  <1> QED BY <1>1, <1>5, <1>6

\* m is new, and greater than what was sent before.
LEMMA SendMessages ==
    ASSUME LinkInv, MessageInv, TypeOK', NEW n \in Nodes, NEW m \in Messages,
           Send(n, m)
    PROVE  MessageInv'
  <1>1. /\ \A k \in Nodes : m \notin sent[k]
        /\ \A l \in 1 .. m - 1 : \E k \in Nodes : l \in sent[k]
        /\ UNCHANGED <<conns, inbox, received>>
        /\ \A k \in Nodes : sent'[k] = IF k = n THEN sent[n] \cup {m} ELSE sent[k]
        /\ \A k \in Nodes \ {n} : todo'[k] = todo[k]
        /\ todo'[n] \subseteq Nodes
    BY DEF Send, LinkInv, TypeInv, TypeOK
  <1>2. todo \in [Nodes -> SUBSET Nodes] /\ sent \in [Nodes -> SUBSET Messages]
    BY DEF LinkInv, TypeInv, TypeOK
  <1>3. SentInv'
    <2>1. ASSUME NEW j \in Nodes, NEW k \in Nodes, j # k
          PROVE  sent'[j] \cap sent'[k] = {}
      BY <1>1, <2>1 DEF MessageInv, SentInv
    <2>2. ASSUME NEW k \in Nodes, NEW x \in sent'[k], NEW l \in 1 .. x - 1
          PROVE  \E j \in Nodes : l \in sent'[j]
      <3>1. \E j \in Nodes : l \in sent[j]
        <4>1. CASE x = m
          BY <1>1, <4>1
        <4>2. CASE x # m
          BY <1>1, <4>2 DEF MessageInv, SentInv
        <4> QED BY <4>1, <4>2
      <3> QED BY <1>1, <3>1
    <2> QED BY <2>1, <2>2 DEF SentInv
  <1>4. \A k \in Nodes : sent[k] \subseteq sent'[k]
    BY <1>1
  <1>5. NodeSources'
    <2>1. ASSUME NEW k \in Nodes, NEW l \in Elements(received[k]) \cup Elements(inbox[k])
          PROVE  \E j \in Nodes \ {k} : l \in sent'[j]
      BY <1>4 DEF MessageInv, SourceInv, NodeSources
    <2> QED BY <1>1, <2>1 DEF NodeSources
  <1>6. PipeSources'
    <2>1. ASSUME NEW c \in DOMAIN conns, NEW e \in Ends
          PROVE  Elements(Pipe(c, e)) \subseteq sent'[Host(c, e)]
      BY <1>4, HostsDiffer DEF MessageInv, SourceInv, PipeSources
    <2> QED BY <1>1, <2>1 DEF PipeSources, Pipe, Host
  <1>7. PlaceInv'
    <2>1. NodePlaces'
      BY <1>1 DEF MessageInv, PlaceInv, NodePlaces
    <2>2. PipePlaces'
      BY <1>1 DEF MessageInv, PlaceInv, PipePlaces, Pipe, Host
    <2>3. PipesApart'
      BY <1>1 DEF MessageInv, PlaceInv, PipesApart, Pipe, Host
    <2> QED BY <2>1, <2>2, <2>3 DEF PlaceInv
  <1>8. TodoInv'
    <2>1. Sending(n)' = m
      <3>1. ASSUME NEW l \in sent[n], l > m
            PROVE  FALSE
        <4>1. l \in Nat /\ m \in Nat /\ 1 <= m
          BY <1>2, Bounds
        <4>2. m \in 1 .. l - 1
          BY <3>1, <4>1
        <4> QED BY <1>1, <4>2 DEF MessageInv, SentInv
      <3>2. \A l \in sent'[n] : l <= m /\ l \in Nat
        BY <1>1, <1>2, <3>1, Bounds
      <3>3. m \in sent'[n] /\ m \in Nat
        BY <1>1, Bounds
      <3>4. (TypeOK /\ sent[n] # {} =>
                /\ Sending(n) \in sent[n] /\ Sending(n) \in Messages
                /\ \A l \in sent[n] : l <= Sending(n))'
        BY SendingIs, PTL
      <3>5. Sending(n)' \in sent'[n] /\ m <= Sending(n)'
        BY <3>3, <3>4
      <3> QED BY <3>2, <3>3, <3>5
    <2>2. ASSUME NEW k \in Nodes \ {n}
          PROVE  Sending(k)' = Sending(k)
      <3>1. sent'[k] = sent[k]
        BY <1>1
      <3> QED BY <3>1 DEF Sending
    <2>3. \A p \in Nodes :
             /\ m \notin Elements(received[p]) \cup Elements(inbox[p])
             /\ \A c \in DOMAIN conns, e \in Ends : m \notin Elements(Pipe(c, e))
      BY <1>1, HostsDiffer DEF MessageInv, SourceInv, NodeSources, PipeSources
    <2>4. ASSUME NEW k \in Nodes, NEW p \in todo'[k]
          PROVE  /\ Sending(k)' \notin Elements(received[p]) \cup Elements(inbox[p])
                 /\ \A c \in DOMAIN conns, e \in Ends :
                       Host(c, Other(e)) = p => Sending(k)' \notin Elements(Pipe(c, e))
      <3>1. CASE k = n
        BY <1>1, <2>1, <2>3, <3>1
      <3>2. CASE k # n
        BY <1>1, <2>2, <3>2 DEF MessageInv, TodoInv
      <3> QED BY <3>1, <3>2
    <2> QED BY <1>1, <2>4 DEF TodoInv, Pipe, Host
  <1> QED BY <1>3, <1>5, <1>6, <1>7, <1>8 DEF MessageInv, SourceInv

\* From the receiver to the background task.
LEMMA ReceiveMessages ==
    ASSUME LinkInv, MessageInv, NEW n \in Nodes, Receive(n)
    PROVE  MessageInv'
  <1> DEFINE x == Head(inbox[n])
  <1>1. /\ inbox[n] \in Seq(Messages) /\ inbox[n] # << >> /\ x \in Messages
        /\ received[n] \in Seq(Messages)
        /\ received' = [received EXCEPT ![n] = Append(received[n], x)]
        /\ inbox' = [inbox EXCEPT ![n] = Tail(inbox[n])]
        /\ UNCHANGED <<conns, sent, todo>>
    BY HeadTailProperties DEF Receive, LinkInv, TypeInv, TypeOK
  <1>2. /\ Elements(inbox[n]) = Elements(Tail(inbox[n])) \cup {x}
        /\ Distinct(Tail(inbox[n])) /\ x \notin Elements(Tail(inbox[n]))
    BY <1>1, FirstPlace DEF MessageInv, PlaceInv, NodePlaces
  <1>3. /\ Elements(Append(received[n], x)) = Elements(received[n]) \cup {x}
        /\ Distinct(Append(received[n], x))
    <2>1. Distinct(received[n]) /\ x \notin Elements(received[n])
      BY <1>2 DEF MessageInv, PlaceInv, NodePlaces
    <2> HIDE DEF x
    <2> QED BY <1>1, <2>1, LastPlace
  <1> HIDE DEF x
  <1>4. ASSUME NEW k \in Nodes
        PROVE  /\ Elements(received'[k]) \cup Elements(inbox'[k]) =
                     Elements(received[k]) \cup Elements(inbox[k])
               /\ Distinct(received'[k]) /\ Distinct(inbox'[k])
               /\ Elements(received'[k]) \cap Elements(inbox'[k]) = {}
    <2>1. CASE k = n
      <3>1. received'[n] = Append(received[n], x) /\ inbox'[n] = Tail(inbox[n])
        BY <1>1 DEF LinkInv, TypeInv, TypeOK
      <3>2. Elements(received[n]) \cap Elements(inbox[n]) = {}
        BY DEF MessageInv, PlaceInv, NodePlaces
      <3> QED BY <1>2, <1>3, <2>1, <3>1, <3>2
    <2>2. CASE k # n
      <3>1. received'[k] = received[k] /\ inbox'[k] = inbox[k]
        BY <1>1, <2>2 DEF LinkInv, TypeInv, TypeOK
      <3> QED BY <3>1 DEF MessageInv, PlaceInv, NodePlaces
    <2> QED BY <2>1, <2>2
  <1>5. \A k : Sending(k)' = Sending(k)
    BY <1>1 DEF Sending
  <1>6. /\ DOMAIN conns' = DOMAIN conns
        /\ \A c \in DOMAIN conns, e \in Ends :
              /\ Pipe(c, e)' = Pipe(c, e) /\ Host(c, e)' = Host(c, e)
              /\ Host(c, Other(e))' = Host(c, Other(e))
              /\ Host(c, Other(e)) \in Nodes
    BY <1>1, HostsDiffer DEF Pipe, Host
  <1>7. SentInv'
    BY <1>1 DEF MessageInv, SentInv
  <1>8. NodeSources'
    BY <1>1, <1>4 DEF MessageInv, SourceInv, NodeSources
  <1>9. PipeSources'
    BY <1>1, <1>6 DEF MessageInv, SourceInv, PipeSources
  <1>10. NodePlaces'
    BY <1>4 DEF NodePlaces
  <1>11. PipePlaces'
    <2>1. ASSUME NEW c \in DOMAIN conns, NEW e \in Ends
          PROVE  /\ Elements(Pipe(c, e)) \cap Elements(received'[Host(c, Other(e))]) = {}
                 /\ Elements(Pipe(c, e)) \cap Elements(inbox'[Host(c, Other(e))]) = {}
      <3>1. /\ Elements(Pipe(c, e)) \cap Elements(received[Host(c, Other(e))]) = {}
            /\ Elements(Pipe(c, e)) \cap Elements(inbox[Host(c, Other(e))]) = {}
        BY DEF MessageInv, PlaceInv, PipePlaces
      <3> QED BY <1>4, <1>6, <3>1
    <2>2. \A c \in DOMAIN conns, e \in Ends : Distinct(Pipe(c, e))
      BY DEF MessageInv, PlaceInv, PipePlaces
    <2> QED BY <1>6, <2>1, <2>2 DEF PipePlaces
  <1>12. PipesApart'
    BY <1>6 DEF MessageInv, PlaceInv, PipesApart
  <1>13. TodoInv'
    <2>1. ASSUME NEW k \in Nodes, NEW p \in todo[k]
          PROVE  /\ Sending(k) \notin Elements(received'[p]) \cup Elements(inbox'[p])
                 /\ \A c \in DOMAIN conns, e \in Ends :
                       Host(c, Other(e)) = p => Sending(k) \notin Elements(Pipe(c, e))
      <3>1. p \in Nodes
        BY DEF LinkInv, TypeInv, TypeOK
      <3> QED BY <1>4, <3>1 DEF MessageInv, TodoInv
    <2> QED BY <1>1, <1>5, <1>6, <2>1 DEF TodoInv
  <1> QED BY <1>7, <1>8, <1>9, <1>10, <1>11, <1>12, <1>13
          DEF MessageInv, SourceInv, PlaceInv

LEMMA InitMessages == Init => MessageInv
  <1> SUFFICES ASSUME Init PROVE MessageInv
    OBVIOUS
  <1>1. /\ \A n \in Nodes : /\ received[n] = << >> /\ inbox[n] = << >>
                            /\ sent[n] = {} /\ todo[n] = {}
        /\ DOMAIN conns = {}
    BY DEF Init
  <1> QED BY <1>1, EmptyPlace
          DEF MessageInv, SentInv, SourceInv, NodeSources, PipeSources, PlaceInv,
              NodePlaces, PipePlaces, PipesApart, TodoInv

LEMMA StepMessages ==
    ASSUME LinkInv, TypeOK', MessageInv, Next
    PROVE  MessageInv'
  <1>1. /\ inbox \in [Nodes -> Seq(Messages)] /\ todo \in [Nodes -> SUBSET Nodes]
        /\ conns \in Seq(Conn) /\ TypeInv
    BY DEF LinkInv, TypeInv, TypeOK
  <1> DEFINE Quiet == /\ PipesKept /\ UNCHANGED <<sent, received>>
                      /\ \A n \in Nodes : inbox'[n] = inbox[n] \/ inbox'[n] = << >>
                      /\ \A n \in Nodes : todo'[n] \subseteq todo[n]
  <1>2. Quiet => MessageInv'
    BY NothingMoves
  <1>3. PipesKept /\ UNCHANGED <<sent, received, inbox, todo>> => Quiet
    OBVIOUS
  <1>4. ASSUME NEW n \in Nodes, Start(n) \/ Stop(n)
        PROVE  Quiet
    <2>1. CASE Start(n)
      BY <1>1, <1>3, <2>1, SameConns DEF Start
    <2>2. CASE Stop(n)
      <3>1. PipesKept
        BY <1>1, <2>2, StopIs
      <3> QED BY <1>1, <2>2, <3>1 DEF Stop
    <2> QED BY <1>4, <2>1, <2>2
  <1>5. ASSUME NEW n \in Nodes, SendEnds(n) \/ Die(n)
        PROVE  Quiet
    <2>1. PipesKept /\ UNCHANGED <<sent, received, todo>>
      BY <1>1, <1>5, SameConns DEF SendEnds, Die
    <2>2. \A k \in Nodes : inbox'[k] = inbox[k] \/ inbox'[k] = << >>
      BY <1>1, <1>5 DEF SendEnds, Die
    <2> QED BY <2>1, <2>2
  <1>6. ASSUME NEW n \in Nodes, NEW p \in Nodes,
               \/ Refused(n, p) \/ Retry(n, p) \/ Greet(n, p) \/ Enter(n, p)
        PROVE  Quiet
    <2>1. PipesKept
      BY <1>1, <1>6, SameConns, GreetIs DEF Refused, Retry
    <2> QED BY <1>3, <1>6, <2>1 DEF Refused, Retry, Greet, Enter
  <1>7. ASSUME NEW c \in DOMAIN conns, Accepting(c)
        PROVE  Quiet
    <2>1. PipesKept
      BY <1>1, <1>7, IdentifyIs, ReaderIs, EndsMean DEF Accepting
    <2> QED BY <1>3, <1>7, <2>1 DEF Accepting, Identify, Abandon
  <1>8. ASSUME NEW c \in DOMAIN conns, NEW e \in Ends,
               ReadFails(c, e) \/ ReceiverDropped(c, e)
        PROVE  Quiet
    <2>1. PipesKept
      BY <1>1, <1>8, ReaderIs
    <2> QED BY <1>3, <1>8, <2>1 DEF ReadFails, ReceiverDropped
  <1> HIDE DEF Quiet
  <1> QED BY <1>2, <1>4, <1>5, <1>6, <1>7, <1>8, StepCases, ConnectMessages,
             DeliverMessages, WriteMessages, SendMessages, ReceiveMessages

LEMMA SameMessages == MessageInv /\ UNCHANGED vars => MessageInv'
  <1> SUFFICES ASSUME MessageInv, UNCHANGED vars PROVE MessageInv'
    OBVIOUS
  <1>1. SentInv' /\ NodeSources' /\ PipeSources'
    BY DEF MessageInv, SentInv, SourceInv, NodeSources, PipeSources, Pipe, Host, vars
  <1>2. PlaceInv'
    <2>1. NodePlaces'
      BY DEF MessageInv, PlaceInv, NodePlaces, vars
    <2>2. PipePlaces'
      BY DEF MessageInv, PlaceInv, PipePlaces, Pipe, Host, vars
    <2>3. PipesApart'
      BY DEF MessageInv, PlaceInv, PipesApart, Pipe, Host, vars
    <2> QED BY <2>1, <2>2, <2>3 DEF PlaceInv
  <1>3. TodoInv'
    BY DEF MessageInv, TodoInv, Sending, Pipe, Host, vars
  <1> QED BY <1>1, <1>2, <1>3 DEF MessageInv, SourceInv

LEMMA MessagesHold == Spec => [](LinkInv /\ MessageInv)
  <1>1. Init => LinkInv /\ MessageInv
    BY InitLinks, InitMessages
  <1>2. LinkInv /\ MessageInv /\ [Next]_vars => (LinkInv /\ MessageInv)'
    <2> SUFFICES ASSUME LinkInv, MessageInv, [Next]_vars
                 PROVE  LinkInv' /\ MessageInv'
      OBVIOUS
    <2>1. LinkInv' /\ TypeOK'
      BY StepLinks DEF LinkInv, TypeInv
    <2>2. MessageInv'
      BY <2>1, StepMessages, SameMessages
    <2> QED BY <2>1, <2>2
  <1> QED BY <1>1, <1>2, PTL DEF Spec

-----------------------------------------------------------------------------
(* The network.                                                              *)

LEMMA StepMaps ==
    ASSUME LinkInv, MessageInv, [Next]_vars
    PROVE  [NW!Next]_(NW!vars)
  <1>1. ASSUME NEW n \in Nodes, NEW m \in Messages, Send(n, m)
        PROVE  NW!Next
    BY <1>1 DEF Send, NW!Next, NW!Send
  <1>2. ASSUME NEW n \in Nodes, Receive(n)
        PROVE  NW!Next
    <2> DEFINE m == Head(inbox[n])
    <2>1. /\ inbox[n] \in Seq(Messages) /\ inbox[n] # << >> /\ m \in Messages
          /\ received' = [received EXCEPT ![n] = Append(@, m)]
          /\ UNCHANGED sent
      BY <1>2, HeadTailProperties DEF Receive, LinkInv, TypeInv, TypeOK
    <2>2. m \in Elements(inbox[n])
      BY <2>1, FirstPlace
    <2> HIDE DEF m
    <2>3. \E k \in Nodes \ {n} : m \in sent[k]
      BY <2>2 DEF MessageInv, SourceInv, NodeSources
    <2>4. \A i \in DOMAIN received[n] : received[n][i] # m
      BY <2>2 DEF MessageInv, PlaceInv, NodePlaces, Elements
    <2> QED BY <2>1, <2>3, <2>4 DEF NW!Next, NW!Receive
  <1>3. ASSUME NEW n \in Nodes,
               \/ Start(n) \/ Stop(n) \/ SendEnds(n) \/ Die(n)
               \/ \E p \in Nodes : Dialing(n, p) \/ Write(n, p)
        PROVE  UNCHANGED NW!vars
    BY <1>3 DEF Start, Stop, SendEnds, Die, Dialing, Connect, Refused, Retry,
                Greet, Enter, Write, NW!vars
  <1>4. ASSUME NEW c \in DOMAIN conns,
               Accepting(c) \/ \E e \in Ends : Reading(c, e)
        PROVE  UNCHANGED NW!vars
    BY <1>4 DEF Accepting, Identify, Abandon, Reading, Deliver, ReadFails,
                ReceiverDropped, NW!vars
  <1>5. CASE UNCHANGED vars
    BY <1>5 DEF vars, NW!vars
  <1> QED BY <1>1, <1>2, <1>3, <1>4, <1>5 DEF Next, Background

\* To the nodes above it the channel is the network that Synod and MultiPaxos
\* assume: whatever connections break and are made again while a send is under
\* way, receive returns a message at most once, and only what another node has
\* sent.
THEOREM ChannelImplementsNetwork == Spec => ImplementsNetwork
  <1>1. Init => NW!Init
    BY DEF Init, NW!Init
  <1>2. LinkInv /\ MessageInv /\ [Next]_vars => [NW!Next]_(NW!vars)
    BY StepMaps
  <1> QED BY <1>1, <1>2, MessagesHold, PTL DEF Spec, ImplementsNetwork, NW!Spec
=============================================================================
