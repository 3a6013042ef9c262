----------------------------- MODULE MC_Server ------------------------------
(***************************************************************************)
(* Two parts of the server, each on an instance of its own: the process    *)
(* with its listeners and connections (Serve) and the response cache       *)
(* (Next).  One run checks both: part says which of them moves, and the    *)
(* other stays in an initial state.                                        *)
(***************************************************************************)
EXTENDS ResponseCache, Serve, TLC

\* Responses of two repositories, in a small cache without a limit on the
\* bytes and in one that four bodies of the largest accepted size fill, with
\* room for a fifth entry.
CONSTANTS k1, k2, k3, k4, k5

TwoRepositories == {{k1, k2}, {k3, k4, k5}}

TwoCaches == {[entries |-> 2, bytes |-> 0], [entries |-> 5, bytes |-> 8]}

\* A server with TLS, h2 and an ACL, and one with plain HTTP and one token.
CONSTANTS s1, s2, rw, ro, one, r1

Row(t, p, w) == [token |-> t, pattern |-> p, write |-> w]

Plain == [listen |-> {"main", "h2"}, allow_multiprocess |-> FALSE, tls |-> TRUE,
          plain_admin |-> FALSE, acl |-> {}, auth_token |-> NoToken]

TwoConfigs ==
    (s1 :> [Plain EXCEPT !.acl = {Row(rw, "*", TRUE), Row(ro, "*", FALSE), Row(one, r1, TRUE)}]) @@
    (s2 :> [Plain EXCEPT !.auth_token = rw, !.listen = {"main"}, !.tls = FALSE])

Asks(h, r, t) == [handler |-> h, repo |-> r, token |-> t]

ThreeRequests ==
    {Asks("AdminShutdown", "none", ro), Asks("AdminShutdown", "none", rw), Asks("RefsUpdate", r1, one)}

OnePermit == [l \in {"main", "h3"} |-> 1]

VARIABLE part

MCInit ==
    /\ part \in {"cache", "serve"}
    /\ Init /\ (part # "cache" => limits = CHOOSE l \in Limits : TRUE)
    /\ ServeInit

MCNext ==
    \/ part = "cache" /\ Next /\ UNCHANGED <<part, serveVars>>
    \/ part = "serve" /\ ServeNext /\ UNCHANGED <<part, vars>>

\* The fairness of Spec and ServeSpec.
MCFairness ==
    /\ WF_vars(part = "cache" /\ Next)
    /\ WF_serveVars(part = "serve" /\ ServeProgress)

MCSpec == MCInit /\ [][MCNext]_<<part, vars, serveVars>> /\ MCFairness
=============================================================================
