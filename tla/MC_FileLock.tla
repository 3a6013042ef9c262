---------------------------- MODULE MC_FileLock ----------------------------
(* Three actors: two workers of the server and a command, or three commands. *)
EXTENDS FileLock, TLC

CONSTANTS a1, a2, a3, p1, p2, p3

ServerAndCommand == (a1 :> p1) @@ (a2 :> p1) @@ (a3 :> p2)
ThreeCommands == (a1 :> p1) @@ (a2 :> p2) @@ (a3 :> p3)

\* Nothing goes wrong, processes are killed, everything goes wrong.
AllFaults == {{}, {"crash"}, Fault}
=============================================================================
