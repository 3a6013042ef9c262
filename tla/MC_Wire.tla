------------------------------ MODULE MC_Wire -------------------------------
(***************************************************************************)
(* What a request meets on its way, each part on an instance of its own:   *)
(* the client that sends it (HttpClient), the rate limiter (RateLimit),    *)
(* the handler of pushes (WireRefs) and the audit log (Audit).  One run    *)
(* checks them all: part says which of them moves, and the others stay in  *)
(* an initial state.                                                       *)
(***************************************************************************)
EXTENDS MC_WireRefs, RateLimit, HttpClient, Audit

\* One address and one token, each with room for one request.  The address
\* gets a request back every tick; the token's bucket is not full again when
\* it is swept.
CONSTANTS ip1, tok

OneRequest == (ip1 :> 1) @@ (tok :> 1)
Refills == (ip1 :> 1000) @@ (tok :> 100)

\* Answers with every framing; one body is larger than the client takes.
SomeAnswers ==
    [framing : {"length"}, close : {FALSE}, size : {1, 2}]
    \cup [framing : {"chunked"}, close : {FALSE}, size : {1}]
    \cup [framing : {"none"}, close : BOOLEAN, size : {1}]

VARIABLE part

MCInit ==
    /\ part \in {"refs", "limit", "http", "audit"}
    /\ Init /\ (part # "refs" => setup \in Issues)
    /\ RateInit /\ HttpInit /\ AuditInit

MCNext ==
    \/ part = "refs" /\ Next /\ UNCHANGED <<part, limitVars, httpVars, auditVars>>
    \/ part = "limit" /\ RateNext /\ UNCHANGED <<part, vars, httpVars, auditVars>>
    \/ part = "http" /\ HttpNext /\ UNCHANGED <<part, vars, limitVars, auditVars>>
    \/ part = "audit" /\ AuditNext /\ UNCHANGED <<part, vars, limitVars, httpVars>>

MCSpec == MCInit /\ [][MCNext]_<<part, vars, limitVars, httpVars, auditVars>>
=============================================================================
