------------------------------ MODULE AppendLog ------------------------------
(***************************************************************************)
(* What a server promises of the issues, pull requests and incidents it    *)
(* keeps: a numbered item, once there, stays; its head never changes; its  *)
(* events are only ever appended to.                                       *)
(***************************************************************************)
EXTENDS Naturals, Sequences

CONSTANTS Number, None

VARIABLE log

\* t begins with s.
Begins(s, t) ==
    /\ Len(s) <= Len(t)
    /\ \A i \in 1..Len(s) : t[i] = s[i]

Empty == [n \in Number |-> None]

Init == log = Empty

\* Any number of items appear and any number of logs grow.
Grow ==
    \A n \in Number : log[n] # None =>
        /\ log'[n] # None
        /\ log'[n].head = log[n].head
        /\ Begins(log[n].events, log'[n].events)

Spec == Init /\ [][Grow]_log

=============================================================================
