------------------------------ MODULE DurableLog ------------------------------
(***************************************************************************)
(* What a node with storage promises its clients: a log on disk that grows *)
(* by the instances in their order and never changes otherwise, and        *)
(* answers that are given for recorded instances only, one each.  Stops    *)
(* and restarts are not visible at this level.                             *)
(***************************************************************************)
EXTENDS Naturals, Sequences

VARIABLES
    entries,    \* the instances a restart would apply, in this order
    answers     \* the instances whose client has been answered

vars == <<entries, answers>>

Init == entries = << >> /\ answers = {}

\* The instance after the last recorded one is recorded.
Record == entries' = Append(entries, Len(entries)) /\ UNCHANGED answers

Answer(i) ==
    /\ i \in 0 .. Len(entries) - 1
    /\ i \notin answers
    /\ answers' = answers \cup {i}
    /\ UNCHANGED entries

Next == Record \/ \E i \in 0 .. Len(entries) - 1 : Answer(i)

Spec == Init /\ [][Next]_vars
=============================================================================
