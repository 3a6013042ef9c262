----------------------------- MODULE HttpClient -----------------------------
(***************************************************************************)
(* The plain-HTTP client behind clone, fetch and push (net/http.rs): one   *)
(* cached keep-alive connection, one retry when a cached connection does   *)
(* not take the request, and the framing of responses.  The server and the *)
(* network are external: a server answers a request that it has in full,   *)
(* closes a connection when it likes, and may die in an answer.            *)
(***************************************************************************)
EXTENDS Integers, Sequences, FiniteSets, SequencesExt

CONSTANTS
    Caller,                     \* the threads that share the client
    NoLink,                     \* no connection
    Answers,                    \* the heads of answers: their framing, whether
                                \* they say close, and the chunks of the body
    MAX_RESPONSE_BODY_BYTES,
    MaxRequests

ASSUME HttpAssumption ==
    /\ MaxRequests \in Nat
    /\ Answers \subseteq [framing : {"length", "chunked", "none"}, close : BOOLEAN, size : Nat]
    /\ MAX_RESPONSE_BODY_BYTES \in Nat
    /\ NoLink \notin Nat

\* Requests are numbered as they are made.  A request opens one connection at
\* most, which has its number.
Number == 1 .. MaxRequests

VARIABLES
    pool,       \* the cached connection
    calls,      \* the running call of each caller
    links,      \* the connections: which ends are open, what is under way
    requests,   \* requests made so far
    handled     \* history: how often the server has handled each request

httpVars == <<pool, calls, links, requests, handled>>

NoCall == [step |-> "idle", req |-> 0, link |-> NoLink, got |-> <<>>]
Unopened == [client |-> FALSE, server |-> FALSE, sent |-> <<>>, answer |-> <<>>]

HttpInit ==
    /\ pool = NoLink
    /\ calls = [t \in Caller |-> NoCall]
    /\ links = [n \in Number |-> Unopened]
    /\ requests = 0
    /\ handled = [r \in Number |-> 0]

\* An answer on the wire: a head and a token for each chunk of the body; a
\* chunked body has an end.
AnswerTo(r, head) ==
    <<[tok |-> "head", to |-> r, says |-> head]>>
    \o [i \in 1 .. head.size |-> [tok |-> "chunk", to |-> r]]
    \o IF head.framing = "chunked" THEN <<[tok |-> "end", to |-> r]>> ELSE <<>>

\* request: the cached connection is taken out of the pool, if there is one.
request(t) ==
    /\ calls[t].step = "idle" /\ requests < MaxRequests
    /\ requests' = requests + 1
    /\ calls' = [calls EXCEPT ![t] = [step |-> IF pool = NoLink THEN "open" ELSE "recycled",
                                      req |-> requests + 1, link |-> pool, got |-> <<>>]]
    /\ pool' = NoLink
    /\ UNCHANGED <<links, handled>>

\* The client closes a connection.  What the server has of it, it may still
\* read.
Dropped(n) == [links EXCEPT ![n].client = FALSE, ![n].answer = <<>>]

\* The call returns an error, and its connection is dropped.
EndInError(t) ==
    /\ links' = IF calls[t].link = NoLink THEN links ELSE Dropped(calls[t].link)
    /\ calls' = [calls EXCEPT ![t] = NoCall]
    /\ UNCHANGED <<pool, requests, handled>>

open_conn(t) ==
    /\ calls[t].step = "open"
    /\ links' = [links EXCEPT ![calls[t].req].client = TRUE, ![calls[t].req].server = TRUE]
    /\ calls' = [calls EXCEPT ![t].step = "fresh", ![t].link = calls[t].req]
    /\ UNCHANGED <<pool, requests, handled>>

OpenFails(t) == calls[t].step = "open" /\ EndInError(t)

\* The whole request gets into the socket; a server that has closed its end
\* will never read it.
try_write(t) ==
    /\ calls[t].step \in {"recycled", "fresh"}
    /\ links' = [links EXCEPT ![calls[t].link].sent = IF links[calls[t].link].server THEN Append(@, calls[t].req) ELSE @]
    /\ calls' = [calls EXCEPT ![t].step = "head"]
    /\ UNCHANGED <<pool, requests, handled>>

WriteFreshFails(t) == calls[t].step = "fresh" /\ EndInError(t)

Retry(t) ==
    /\ links' = Dropped(calls[t].link)
    /\ calls' = [calls EXCEPT ![t].step = "open", ![t].link = NoLink]
    /\ UNCHANGED <<pool, requests, handled>>

\* "The ONLY transparent retry case": the request did not get out in full.
WriteRecycledFails(t) == calls[t].step = "recycled" /\ Retry(t)

Incoming(t) == links[calls[t].link].answer

\* The next token of the response is read.
ReadToken(t) ==
    /\ links' = [links EXCEPT ![calls[t].link].answer = Tail(@)]
    /\ calls' = [calls EXCEPT ![t].step = "body", ![t].got = Append(@, Head(Incoming(t)))]
    /\ UNCHANGED <<pool, requests, handled>>

read_until_crlf_crlf(t) ==
    /\ calls[t].step = "head"
    /\ Incoming(t) # <<>> /\ Head(Incoming(t)).tok = "head"
    /\ ReadToken(t)

\* Mutant: a recycled connection is also given up for a fresh one when the
\* response does not come.
HeadFails_Retried(t) == calls[t].step = "head" /\ IF calls[t].link # calls[t].req THEN Retry(t) ELSE EndInError(t)

\* The connection was closed, there is a timeout, or what came is no head.
HeadFails(t) == calls[t].step = "head" /\ EndInError(t)

HeadOf(t) == Head(calls[t].got).says
BodyLength(t) == Cardinality({i \in DOMAIN calls[t].got : calls[t].got[i].tok = "chunk"})

\* The end of a chunked body, of one with a length, and of one that lasts
\* until the connection is closed.  Without framing on a connection that is
\* to stay open there is none.
BodyComplete(t) ==
    \/ HeadOf(t).framing = "chunked" /\ Last(calls[t].got).tok = "end"
    \/ HeadOf(t).framing = "length" /\ BodyLength(t) = HeadOf(t).size
    \/ /\ HeadOf(t).framing = "none" /\ HeadOf(t).close
       /\ Incoming(t) = <<>> /\ ~links[calls[t].link].server

\* A body that is larger than the client takes.
TooLargeBody(t) ==
    \/ HeadOf(t).framing = "length" /\ HeadOf(t).size > MAX_RESPONSE_BODY_BYTES
    \/ BodyLength(t) > MAX_RESPONSE_BODY_BYTES

ReadBody(t) ==
    /\ calls[t].step = "body"
    /\ ~BodyComplete(t) /\ ~TooLargeBody(t)
    /\ HeadOf(t).framing = "none" => HeadOf(t).close
    /\ Incoming(t) # <<>>
    /\ ReadToken(t)

\* No framing, too large a body, a connection closed too early, or a timeout.
BodyFails(t) == calls[t].step = "body" /\ (~BodyComplete(t) \/ TooLargeBody(t)) /\ EndInError(t)

\* The response is complete.  Unless the server said close, the connection
\* goes into the pool, in the place of one that another call has put there.
Keep(t) ==
    LET n == calls[t].link
    IN  /\ calls[t].step = "body" /\ BodyComplete(t) /\ ~TooLargeBody(t)
        /\ IF HeadOf(t).close
           THEN links' = Dropped(n) /\ UNCHANGED pool
           ELSE links' = (IF pool = NoLink THEN links ELSE Dropped(pool)) /\ pool' = n
        /\ calls' = [calls EXCEPT ![t] = NoCall]
        /\ UNCHANGED <<requests, handled>>

(***************************************************************************)
(* The server and the network                                              *)
(***************************************************************************)

\* The server handles a request and sends the first tokens of its answer; it
\* closes the connection when that is not all, or when it said so.
Answer(n, head) ==
    LET r == Head(links[n].sent)
        answer == AnswerTo(r, head)
    IN  /\ links[n].server /\ links[n].sent # <<>>
        /\ handled' = [handled EXCEPT ![r] = @ + 1]
        /\ \E tokens \in 0 .. Len(answer) :
              LET open == tokens = Len(answer) /\ ~head.close
              IN  links' = [links EXCEPT ![n].server = open,
                                         ![n].sent = IF open THEN Tail(@) ELSE <<>>,
                                         ![n].answer = IF links[n].client THEN @ \o SubSeq(answer, 1, tokens) ELSE @]
        /\ UNCHANGED <<pool, calls, requests>>

\* An idle timeout, a shutdown, or a crash with requests not yet read.
ServerCloses(n) ==
    /\ links[n].server
    /\ links' = [links EXCEPT ![n].server = FALSE, ![n].sent = <<>>]
    /\ UNCHANGED <<pool, calls, requests, handled>>

Call(t) ==
    \/ request(t) \/ open_conn(t) \/ OpenFails(t)
    \/ try_write(t) \/ WriteFreshFails(t) \/ WriteRecycledFails(t)
    \/ read_until_crlf_crlf(t) \/ HeadFails(t) \/ ReadBody(t) \/ BodyFails(t) \/ Keep(t)

HttpNext ==
    \/ \E t \in Caller : Call(t)
    \/ \E n \in Number : ServerCloses(n)
    \/ \E n \in Number, head \in Answers : Answer(n, head)

HttpSpec == HttpInit /\ [][HttpNext]_httpVars

(***************************************************************************)
(* Properties                                                              *)
(***************************************************************************)

\* A request is handled at most once ("to keep POSTs at-most-once",
\* http.rs:258), whatever connection was closed when; and a call returns only
\* an answer to its own request, and all of it.  A body without framing, which
\* the end of the connection ends, may lack its last chunks.
OwnAnswerOnce ==
    /\ \A r \in Number : handled[r] <= 1
    /\ \A t \in Caller : calls[t].step = "body" =>
          /\ \A i \in DOMAIN calls[t].got : calls[t].got[i].to = calls[t].req
          /\ BodyComplete(t) /\ ~TooLargeBody(t) =>
                LET whole == AnswerTo(calls[t].req, HeadOf(t))
                IN  IF HeadOf(t).framing = "none" THEN IsPrefix(calls[t].got, whole) ELSE calls[t].got = whole
=============================================================================
