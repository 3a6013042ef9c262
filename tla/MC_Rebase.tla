------------------------------ MODULE MC_Rebase ------------------------------
(* A branch with the changes x and y, and upstream with u, on a common base. *)
EXTENDS Rebase

CONSTANTS b, x, y, u

Topic == <<b, x, y>>
Targets == {<<b, u>>, <<b, x, y, u>>}
Target == {<<b, u>>}
=============================================================================
