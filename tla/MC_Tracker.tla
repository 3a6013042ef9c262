----------------------------- MODULE MC_Tracker -----------------------------
EXTENDS Tracker, TLC

CONSTANTS a, b

Clones == Permutations({a, b})

OneNumber == 1..1

\* Clocks behave alike for the three kinds.
AllKinds == [kind : Kind, steady : {TRUE}] \cup [kind : {"issue"}, steady : {FALSE}]

=============================================================================
