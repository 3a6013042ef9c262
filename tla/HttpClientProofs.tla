-------------------------- MODULE HttpClientProofs --------------------------
(* Proofs about HttpClient, for any callers, requests and answers.         *)
EXTENDS HttpClient, SequenceTheorems, FiniteSetTheorems, TLAPS

Token == [tok : {"head"}, to : Number, says : Answers] \cup [tok : {"chunk", "end"}, to : Number]

CallRecord ==
    [step : {"idle", "open", "recycled", "fresh", "head", "body"}, req : Number \cup {0},
     link : Number \cup {NoLink}, got : Seq(Token)]

LinkRecord == [client : BOOLEAN, server : BOOLEAN, sent : Seq(Number), answer : Seq(Token)]

\* The types of the client's and of the server's ends.
HttpTypeOK ==
    /\ pool \in Number \cup {NoLink}
    /\ calls \in [Caller -> CallRecord]
    /\ links \in [Number -> LinkRecord]
    /\ requests \in Number \cup {0}
    /\ handled \in [Number -> Nat]

\* A call has its own request, and its own connection, from the pool or opened
\* by itself, which the client has not closed; the pool has another one.
OwnCall(t) ==
    /\ calls[t].step = "idle" => calls[t] = NoCall
    /\ calls[t].step # "idle" => calls[t].req \in 1 .. requests
    /\ calls[t].step = "open" => calls[t].link = NoLink
    /\ calls[t].step \in {"recycled", "fresh", "head", "body"} =>
          calls[t].link \in Number /\ links[calls[t].link].client
    /\ calls[t].link # NoLink => calls[t].link # pool

Apart(t, u) ==
    /\ calls[t].step # "idle" => calls[t].req # calls[u].req
    /\ calls[t].link # NoLink => calls[t].link # calls[u].link

OwnInv ==
    /\ \A t \in Caller : OwnCall(t)
    /\ \A t, u \in Caller : t # u => Apart(t, u)
    /\ pool # NoLink => links[pool].client

\* A request is on its way on one connection at most, and is then not yet
\* handled; it is on none, and was not handled, before its call has written it.
Unsent(r) == handled[r] = 0 /\ \A n \in Number : links[n].sent # <<r>>

Alone(n) ==
    \/ links[n].sent = <<>>
    \/ \E r \in Number :
          /\ links[n].sent = <<r>> /\ handled[r] = 0
          /\ \A m \in Number \ {n} : links[m].sent # <<r>>

SentInv ==
    /\ \A r \in Number : handled[r] <= 1
    /\ \A n \in Number : Alone(n)
    /\ \A r \in Number : r > requests => Unsent(r) /\ links[r] = Unopened
    /\ \A t \in Caller :
          /\ calls[t].step \in {"open", "recycled", "fresh"} => Unsent(calls[t].req)
          /\ calls[t].step \in {"open", "recycled"} => links[calls[t].req] = Unopened

\* What a call has read, got, and what it has still to read, left, are the
\* first tokens of an answer to its request, and all of it while the server
\* keeps the connection open.
PartOf(whole, got, left, open) ==
    \E m \in Len(got) .. Len(whole) :
        /\ got = SubSeq(whole, 1, Len(got))
        /\ left = SubSeq(whole, Len(got) + 1, m)
        /\ open => m = Len(whole)

Underway(r, got, link) == \E head \in Answers : PartOf(AnswerTo(r, head), got, link.answer, link.server)

\* A connection carries nothing but the request of the call that has it, and
\* then the answer to it; one in the pool carries nothing.
Quiet(link) == link.sent = <<>> /\ link.answer = <<>>

WireCall(t) ==
    LET link == links[calls[t].link]
    IN  /\ calls[t].step # "body" => calls[t].got = <<>>
        /\ calls[t].step \in {"recycled", "fresh"} => Quiet(link)
        /\ calls[t].step = "head" =>
              \/ link.sent = <<calls[t].req>> /\ link.answer = <<>>
              \/ Quiet(link) /\ ~link.server
              \/ link.sent = <<>> /\ Underway(calls[t].req, <<>>, link)
        /\ calls[t].step = "body" =>
              link.sent = <<>> /\ calls[t].got # <<>> /\ Underway(calls[t].req, calls[t].got, link)

WireInv ==
    /\ pool # NoLink => Quiet(links[pool])
    /\ \A t \in Caller : WireCall(t)

HttpInv == HttpTypeOK /\ OwnInv /\ SentInv /\ WireInv

(***************************************************************************)
(* Answers and what is read of them                                        *)
(***************************************************************************)

\* A sequence with an element in front of it, and with one behind it.
LEMMA ConsShape ==
    ASSUME NEW S, NEW x \in S, NEW n \in Nat, NEW body \in Seq(S), Len(body) = n
    PROVE  LET front == <<x>> \o body
           IN  /\ front \in Seq(S) /\ Len(front) = 1 + n /\ front[1] = x
               /\ \A i \in 2 .. n + 1 : front[i] = body[i - 1]
OBVIOUS

\* What appending one element to a sequence gives.
LEMMA SnocShape ==
    ASSUME NEW S, NEW front \in Seq(S), NEW x \in S
    PROVE  LET all == front \o <<x>>
           IN  /\ all \in Seq(S) /\ Len(all) = Len(front) + 1
               /\ \A i \in 1 .. Len(front) : all[i] = front[i]
               /\ all[Len(front) + 1] = x
OBVIOUS

\* An answer on the wire is its head, its chunks and, if it is chunked, an
\* end; every token belongs to the request.
LEMMA WholeShape ==
    ASSUME NEW r \in Number, NEW head \in Answers
    PROVE  LET whole == AnswerTo(r, head)
           IN  /\ whole \in Seq(Token)
               /\ Len(whole) = head.size + IF head.framing = "chunked" THEN 2 ELSE 1
               /\ whole[1] = [tok |-> "head", to |-> r, says |-> head]
               /\ \A i \in 2 .. head.size + 1 : whole[i] = [tok |-> "chunk", to |-> r]
               /\ head.framing = "chunked" => whole[head.size + 2] = [tok |-> "end", to |-> r]
<1> DEFINE first == [tok |-> "head", to |-> r, says |-> head]
           chunk == [tok |-> "chunk", to |-> r]
           end == [tok |-> "end", to |-> r]
           n == head.size
           body == [i \in 1 .. n |-> chunk]
           front == <<first>> \o body
           whole == AnswerTo(r, head)
<1>1. n \in Nat /\ first \in Token /\ chunk \in Token /\ end \in Token
  BY HttpAssumption DEF Token
<1>2. /\ head.framing = "chunked" => whole = front \o <<end>>
      /\ head.framing # "chunked" => whole = front \o <<>>
  BY Zenon DEF AnswerTo
<1> HIDE DEF n, first, chunk, end, whole
<1>3. body \in Seq(Token) /\ Len(body) = n /\ \A i \in 1 .. n : body[i] = chunk
  BY <1>1
<1> HIDE DEF body
<1>4. front \in Seq(Token) /\ Len(front) = n + 1 /\ front[1] = first
      /\ \A i \in 2 .. n + 1 : front[i] = body[i - 1]
  BY <1>1, <1>3, ConsShape
<1> HIDE DEF front
<1>5. \A i \in 2 .. n + 1 : front[i] = chunk
  BY <1>1, <1>3, <1>4
<1>6. CASE head.framing = "chunked"
  <2>1. /\ whole \in Seq(Token) /\ Len(whole) = Len(front) + 1
        /\ \A i \in 1 .. Len(front) : whole[i] = front[i]
        /\ whole[Len(front) + 1] = end
    <3>1. whole = front \o <<end>>
      BY <1>2, <1>6
    <3>2. front \in Seq(Token) /\ end \in Token
      BY <1>1, <1>4
    <3> QED BY <3>1, <3>2, SnocShape
  <2>2. /\ whole \in Seq(Token) /\ Len(whole) = n + 2 /\ whole[1] = first
        /\ \A i \in 2 .. n + 1 : whole[i] = chunk
        /\ whole[n + 2] = end
    <3>1. Len(front) + 1 = n + 2 /\ \A i \in 1 .. n + 1 : whole[i] = front[i]
      BY <1>1, <1>4, <2>1
    <3>2. whole[1] = first /\ \A i \in 2 .. n + 1 : whole[i] = chunk
      BY <1>1, <1>4, <1>5, <3>1
    <3> QED BY <2>1, <3>1, <3>2
  <2> QED BY <1>6, <2>2 DEF n, first, chunk, end, whole
<1>7. CASE head.framing # "chunked"
  <2>1. whole = front
    BY <1>2, <1>4, <1>7
  <2>2. whole \in Seq(Token) /\ Len(whole) = n + 1 /\ whole[1] = first /\ \A i \in 2 .. n + 1 : whole[i] = chunk
    BY <1>4, <1>5, <2>1
  <2> QED BY <1>7, <2>2 DEF n, first, chunk, whole
<1> QED BY <1>6, <1>7

\* Reading one token of what is left.
LEMMA ReadOne ==
    ASSUME NEW S, NEW whole \in Seq(S), NEW k \in Nat, NEW m \in k + 1 .. Len(whole)
    PROVE  /\ SubSeq(whole, k + 1, m) # <<>>
           /\ Head(SubSeq(whole, k + 1, m)) = whole[k + 1]
           /\ Tail(SubSeq(whole, k + 1, m)) = SubSeq(whole, k + 2, m)
           /\ Append(SubSeq(whole, 1, k), whole[k + 1]) = SubSeq(whole, 1, k + 1)
<1>1. k + 1 \in 1 .. Len(whole) /\ m \in k + 1 .. Len(whole) /\ Len(whole) \in Nat
  OBVIOUS
<1>2. Head(SubSeq(whole, k + 1, m)) = whole[k + 1] /\ Tail(SubSeq(whole, k + 1, m)) = SubSeq(whole, k + 2, m)
  BY <1>1, HeadTailOfSubSeq
<1>3. SubSeq(whole, k + 1, m) # <<>>
  BY <1>1
<1>4. Append(SubSeq(whole, 1, k), whole[k + 1]) = SubSeq(whole, 1, k + 1)
  BY <1>1
<1> QED BY <1>2, <1>3, <1>4

(***************************************************************************)
(* The steps                                                               *)
(***************************************************************************)

\* A call that does not step keeps what it has, when its connection is left
\* alone.
LEMMA OthersKeep ==
    ASSUME HttpInv, NEW u \in Caller, calls'[u] = calls[u],
           requests' \in Nat, requests <= requests',
           calls[u].link # NoLink => calls[u].link # pool' /\ links'[calls[u].link] = links[calls[u].link]
    PROVE  OwnCall(u)' /\ WireCall(u)'
<1>1. calls[u] \in CallRecord /\ requests \in Nat
  BY DEF HttpInv, HttpTypeOK, Number
<1>2. OwnCall(u) /\ WireCall(u)
  BY DEF HttpInv, OwnInv, WireInv
<1>3. calls[u].step \in {"recycled", "fresh", "head", "body"} =>
         calls[u].link # NoLink /\ links'[calls[u].link] = links[calls[u].link]
  BY <1>2, HttpAssumption DEF OwnCall, Number
<1>4. calls[u].step # "idle" => calls[u].req \in 1 .. requests'
  BY <1>1, <1>2 DEF OwnCall
<1>5. OwnCall(u)'
  BY <1>2, <1>3, <1>4 DEF OwnCall
<1>6. WireCall(u)'
  BY <1>2, <1>3 DEF WireCall
<1> QED BY <1>5, <1>6

\* A step that leaves what was sent and what was handled as it is.
LEMMA SameSent ==
    ASSUME HttpInv, handled' = handled, requests' \in Nat, requests <= requests',
           \A n \in Number : links'[n].sent = links[n].sent,
           \A n \in Number : n > requests' /\ links[n] = Unopened => links'[n] = Unopened,
           \A t \in Caller : calls'[t].step \in {"open", "recycled", "fresh"} => Unsent(calls'[t].req),
           \A t \in Caller : calls'[t].step \in {"open", "recycled"} => links'[calls'[t].req] = Unopened
    PROVE  SentInv'
<1>1. SentInv /\ requests \in Nat
  BY DEF HttpInv, HttpTypeOK, Number
<1>2. \A r : Unsent(r) => Unsent(r)'
  BY DEF Unsent
<1>3. \A n \in Number : Alone(n)'
  BY <1>1 DEF SentInv, Alone
<1>4. \A r \in Number : r > requests' => Unsent(r)' /\ (links[r] = Unopened)'
  BY <1>1, <1>2 DEF SentInv, Number
<1> QED BY <1>1, <1>2, <1>3, <1>4 DEF SentInv

\* A connection that the client has is not unopened.
LEMMA Opened ==
    ASSUME HttpInv, NEW n \in Number, links[n].client
    PROVE  links[n] # Unopened /\ n <= requests
BY DEF HttpInv, SentInv, Unopened, HttpTypeOK, Number

\* What is left of a connection that the client closes.
LEMMA DroppedShape ==
    ASSUME HttpTypeOK, NEW n \in Number
    PROVE  /\ Dropped(n) \in [Number -> LinkRecord]
           /\ \A m \in Number : m # n => Dropped(n)[m] = links[m]
           /\ \A m \in Number : Dropped(n)[m].sent = links[m].sent
<1> DEFINE shut == [client |-> FALSE, server |-> links[n].server, sent |-> links[n].sent, answer |-> <<>>]
<1>1. links \in [Number -> LinkRecord] /\ links[n] \in LinkRecord
  BY DEF HttpTypeOK
<1>2. shut \in LinkRecord
  BY <1>1 DEF LinkRecord
<1>3. links[n] = [client |-> links[n].client, server |-> links[n].server, sent |-> links[n].sent,
                  answer |-> links[n].answer]
  BY <1>1 DEF LinkRecord
<1>4. Dropped(n)[n] = shut
  BY <1>1, <1>3, Zenon DEF Dropped
<1>5. \A m \in Number : m # n => Dropped(n)[m] = links[m]
  BY <1>1 DEF Dropped
<1>6. Dropped(n) \in [Number -> LinkRecord]
  <2>1. Dropped(n) = [m \in Number |-> Dropped(n)[m]]
    BY <1>1, Zenon DEF Dropped
  <2> QED BY <1>1, <1>2, <1>4, <1>5, <2>1, Zenon
<1> QED BY <1>4, <1>5, <1>6

\* Two calls that do not step stay apart, and so does one from another that
\* has its request and its connection for itself.
LEMMA ApartKeep ==
    ASSUME HttpInv, NEW t \in Caller, \A u \in Caller \ {t} : calls'[u] = calls[u],
           \A u \in Caller \ {t} :
              /\ calls'[t].step # "idle" => calls'[t].req # calls[u].req
              /\ calls[u].step # "idle" => calls[u].req # calls'[t].req
              /\ calls'[t].link # NoLink => calls'[t].link # calls[u].link
    PROVE  \A u, v \in Caller : u # v => Apart(u, v)'
<1> SUFFICES ASSUME NEW u \in Caller, NEW v \in Caller, u # v
             PROVE  Apart(u, v)'
  OBVIOUS
<1>1. Apart(u, v)
  BY DEF HttpInv, OwnInv
<1>2. CASE u = t
  BY <1>2 DEF Apart
<1>3. CASE v = t
  BY <1>3 DEF Apart
<1>4. CASE u # t /\ v # t
  BY <1>1, <1>4 DEF Apart
<1> QED BY <1>2, <1>3, <1>4

\* HttpClient::request: a new call, with the pooled connection if there is one, keeps the invariant.
LEMMA RequestKeeps ==
    ASSUME HttpInv, NEW t \in Caller, request(t)
    PROVE  HttpInv'
<1> DEFINE r == requests + 1
           new == [step |-> IF pool = NoLink THEN "open" ELSE "recycled", req |-> r, link |-> pool, got |-> <<>>]
<1>1. /\ HttpTypeOK /\ requests' = r /\ r \in Number /\ requests \in Nat /\ r > requests
      /\ calls' = [calls EXCEPT ![t] = new] /\ pool' = NoLink /\ links' = links /\ handled' = handled
  BY HttpAssumption DEF request, HttpInv, HttpTypeOK, Number
<1> HIDE DEF r
<1>2. new \in CallRecord /\ calls'[t] = new /\ \A u \in Caller \ {t} : calls'[u] = calls[u]
  BY <1>1 DEF HttpTypeOK, CallRecord
<1>3. HttpTypeOK'
  BY <1>1, <1>2 DEF HttpTypeOK
<1>4. \A u \in Caller \ {t} : OwnCall(u)' /\ WireCall(u)'
  <2> SUFFICES ASSUME NEW u \in Caller \ {t} PROVE OwnCall(u)' /\ WireCall(u)'
    OBVIOUS
  <2> QED BY <1>1, <1>2, OthersKeep DEF Number
<1>5. Unsent(r) /\ links[r] = Unopened
  BY <1>1 DEF HttpInv, SentInv
<1>6. OwnCall(t)'
  BY <1>1, <1>2 DEF OwnCall, HttpInv, OwnInv, HttpTypeOK, Number
<1>7. WireCall(t)'
  BY <1>1, <1>2 DEF WireCall, HttpInv, WireInv
<1>8. \A u, v \in Caller : u # v => Apart(u, v)'
  <2>1. \A u \in Caller \ {t} : calls[u].req # r /\ (pool # NoLink => pool # calls[u].link)
    BY <1>1 DEF HttpInv, OwnInv, OwnCall, NoCall
  <2> QED BY <1>2, <2>1, ApartKeep
<1>9. SentInv'
  <2>1. \A u \in Caller : calls'[u].step \in {"open", "recycled", "fresh"} => Unsent(calls'[u].req)
    BY <1>2, <1>5 DEF HttpInv, SentInv
  <2>2. \A u \in Caller : calls'[u].step \in {"open", "recycled"} => links'[calls'[u].req] = Unopened
    BY <1>1, <1>2, <1>5 DEF HttpInv, SentInv
  <2> QED BY <1>1, <2>1, <2>2, SameSent DEF Number
<1> QED BY <1>1, <1>2, <1>3, <1>4, <1>6, <1>7, <1>8, <1>9 DEF HttpInv, OwnInv, WireInv

\* A call is its four fields.
LEMMA CallShape ==
    ASSUME NEW c \in CallRecord
    PROVE  c = [step |-> c.step, req |-> c.req, link |-> c.link, got |-> c.got]
BY DEF CallRecord

\* A connection is its four fields.
LEMMA LinkShape ==
    ASSUME NEW n \in LinkRecord
    PROVE  n = [client |-> n.client, server |-> n.server, sent |-> n.sent, answer |-> n.answer]
BY DEF LinkRecord

\* No two of the calls and the pool have the same connection, and the client
\* has not closed any of theirs.
LEMMA OthersLinks ==
    ASSUME HttpInv, NEW t \in Caller, NEW u \in Caller \ {t}
    PROVE  /\ calls[u].link # NoLink => calls[u].link \in Number /\ calls[u].link # pool /\ links[calls[u].link].client
           /\ calls[t].link # NoLink => calls[t].link # calls[u].link
           /\ calls[u].step # "idle" => calls[u].req # calls[t].req
           /\ calls[t].step # "idle" => calls[t].req # calls[u].req
<1>1. calls[u] \in CallRecord /\ OwnCall(u) /\ Apart(u, t) /\ Apart(t, u)
  BY DEF HttpInv, HttpTypeOK, OwnInv
<1>2. calls[u].link # NoLink => calls[u].step \in {"recycled", "fresh", "head", "body"}
  BY <1>1 DEF CallRecord, OwnCall, NoCall
<1> QED BY <1>1, <1>2 DEF OwnCall, Apart

\* A call that is under way has a request number that was given out.
LEMMA OwnRequest ==
    ASSUME HttpInv, NEW t \in Caller, calls[t].step # "idle"
    PROVE  calls[t].req \in 1 .. requests /\ calls[t].req \in Number
<1>1. calls[t].req \in 1 .. requests /\ requests \in Number \cup {0}
  BY DEF HttpInv, OwnInv, OwnCall, HttpTypeOK
<1> QED BY <1>1, HttpAssumption DEF Number

\* open_conn: a connection for a request has the request's number, so it is a new one.
LEMMA OpenKeeps ==
    ASSUME HttpInv, NEW t \in Caller, open_conn(t)
    PROVE  HttpInv'
<1> DEFINE r == calls[t].req
           link == [client |-> TRUE, server |-> TRUE, sent |-> <<>>, answer |-> <<>>]
           new == [step |-> "fresh", req |-> r, link |-> r, got |-> <<>>]
<1>1. /\ HttpTypeOK /\ requests \in Nat /\ requests' = requests /\ pool' = pool /\ handled' = handled
      /\ calls[t] \in CallRecord /\ calls[t].step = "open" /\ OwnCall(t) /\ WireCall(t)
  BY DEF open_conn, HttpInv, HttpTypeOK, Number, OwnInv, WireInv
<1>2. r \in 1 .. requests /\ r \in Number
  BY <1>1, OwnRequest
<1>3. links[r] = Unopened /\ Unsent(r) /\ calls[t].got = <<>> /\ calls[t].link = NoLink
  BY <1>1 DEF OwnCall, WireCall, HttpInv, SentInv
<1>4. links'[r] = link /\ \A n \in Number \ {r} : links'[n] = links[n]
  <2>1. links' = [links EXCEPT ![r].client = TRUE, ![r].server = TRUE] /\ links \in [Number -> LinkRecord]
    BY <1>1 DEF open_conn, HttpTypeOK
  <2>2. links[r] = [client |-> FALSE, server |-> FALSE, sent |-> <<>>, answer |-> <<>>]
    BY <1>3 DEF Unopened
  <2> HIDE DEF r
  <2> QED BY <1>2, <2>1, <2>2
<1>5. calls'[t] = new /\ \A u \in Caller \ {t} : calls'[u] = calls[u]
  <2>1. calls' = [calls EXCEPT ![t].step = "fresh", ![t].link = r] /\ calls \in [Caller -> CallRecord]
    BY <1>1 DEF open_conn, HttpTypeOK
  <2>2. calls'[t] = [calls[t] EXCEPT !.step = "fresh", !.link = r]
    BY <2>1
  <2>3. calls'[t] \in CallRecord
    BY <1>1, <1>2, <2>2, Zenon DEF CallRecord
  <2>4. /\ calls'[t].step = "fresh" /\ calls'[t].link = r
        /\ calls'[t].req = r /\ calls'[t].got = calls[t].got
    BY <1>1, <2>2 DEF CallRecord
  <2>5. calls'[t] = new
    BY <1>3, <2>3, <2>4, CallShape
  <2> QED BY <2>1, <2>5
<1>6. HttpTypeOK'
  <2>1. link \in LinkRecord /\ new \in CallRecord
    BY <1>2 DEF CallRecord, LinkRecord
  <2>2. links' = [n \in Number |-> links'[n]] /\ calls' = [u \in Caller |-> calls'[u]]
    BY <1>1, Zenon DEF open_conn, HttpTypeOK
  <2> HIDE DEF r, link, new
  <2>3. links' \in [Number -> LinkRecord] /\ calls' \in [Caller -> CallRecord]
    BY <1>1, <1>4, <1>5, <2>1, <2>2 DEF HttpTypeOK
  <2> QED BY <1>1, <2>3 DEF HttpTypeOK
<1> HIDE DEF r
<1>7. r # pool /\ \A u \in Caller \ {t} : calls[u].link # r
  <2>1. ~links[r].client
    BY <1>3 DEF Unopened
  <2>2. r # pool
    BY <1>2, <2>1, HttpAssumption DEF HttpInv, OwnInv, Number
  <2>3. \A u \in Caller \ {t} : calls[u].link # r
    BY <1>2, <2>1, OthersLinks, HttpAssumption DEF Number
  <2> QED BY <2>2, <2>3
<1>8. \A u \in Caller \ {t} : OwnCall(u)' /\ WireCall(u)'
  <2> SUFFICES ASSUME NEW u \in Caller \ {t} PROVE OwnCall(u)' /\ WireCall(u)'
    OBVIOUS
  <2>1. calls[u].link # NoLink => calls[u].link # pool' /\ links'[calls[u].link] = links[calls[u].link]
    BY <1>1, <1>4, <1>7, OthersLinks
  <2> QED BY <1>1, <1>5, <2>1, OthersKeep
<1>9. OwnCall(t)'
  BY <1>1, <1>2, <1>4, <1>5, <1>7 DEF OwnCall
<1>10. WireCall(t)'
  BY <1>4, <1>5 DEF WireCall, Quiet
<1>11. \A u, v \in Caller : u # v => Apart(u, v)'
  <2>1. \A u \in Caller \ {t} : /\ r # calls[u].link /\ r # calls[u].req
    BY <1>1, <1>7, OthersLinks DEF r
  <2> QED BY <1>5, <2>1, ApartKeep
<1>12. SentInv'
  <2>1. \A u \in Caller : calls'[u].step \in {"open", "recycled", "fresh"} => Unsent(calls'[u].req)
    BY <1>3, <1>5 DEF HttpInv, SentInv
  <2>2. \A u \in Caller : calls'[u].step \in {"open", "recycled"} => links'[calls'[u].req] = Unopened
    <3> SUFFICES ASSUME NEW u \in Caller, calls'[u].step \in {"open", "recycled"}
                 PROVE  links'[calls'[u].req] = Unopened
      OBVIOUS
    <3>1. u # t /\ calls'[u] = calls[u]
      BY <1>5
    <3>2. calls[u].step # "idle"
      BY <3>1
    <3>3. calls[u].req # r
      BY <1>1, <3>1, OthersLinks DEF r
    <3>4. calls[u].req \in Number
      BY <3>2, OwnRequest
    <3> QED BY <1>4, <3>1, <3>3, <3>4 DEF HttpInv, SentInv
  <2>3. \A n \in Number : links'[n].sent = links[n].sent
    BY <1>3, <1>4 DEF Unopened
  <2>4. \A n \in Number : n > requests' /\ links[n] = Unopened => links'[n] = Unopened
    BY <1>1, <1>2, <1>4 DEF Number
  <2> QED BY <1>1, <2>1, <2>2, <2>3, <2>4, SameSent
<1>13. pool' # NoLink => links'[pool'] = links[pool]
  BY <1>1, <1>4, <1>7, Zenon DEF HttpTypeOK
<1> QED BY <1>1, <1>5, <1>6, <1>8, <1>9, <1>10, <1>11, <1>12, <1>13 DEF HttpInv, OwnInv, WireInv

\* The connection of a call is open at the client's end and is not the pooled one.
LEMMA OwnLink ==
    ASSUME HttpInv, NEW t \in Caller, calls[t].link # NoLink
    PROVE  calls[t].link \in Number /\ links[calls[t].link].client /\ calls[t].link # pool
<1>1. calls[t] \in CallRecord /\ OwnCall(t)
  BY DEF HttpInv, HttpTypeOK, OwnInv
<1>2. calls[t].step \in {"recycled", "fresh", "head", "body"}
  BY <1>1 DEF CallRecord, OwnCall, NoCall
<1> QED BY <1>1, <1>2 DEF OwnCall

\* A step of a call that changes no connection but its own, which it keeps or
\* gives up.
LEMMA OwnLinkStep ==
    ASSUME HttpInv, NEW t \in Caller, requests' = requests, pool' = pool,
           \A u \in Caller \ {t} : calls'[u] = calls[u],
           \A n \in Number : n # calls[t].link => links'[n] = links[n],
           (calls'[t].step = "idle" /\ calls'[t].req = 0) \/ (calls[t].step # "idle" /\ calls'[t].req = calls[t].req),
           calls'[t].link \in {calls[t].link, NoLink},
           OwnCall(t)', WireCall(t)'
    PROVE  OwnInv' /\ WireInv'
<1>1. requests \in Nat /\ HttpTypeOK
  BY DEF HttpInv, HttpTypeOK, Number
<1>2. \A u \in Caller \ {t} : OwnCall(u)' /\ WireCall(u)'
  <2> SUFFICES ASSUME NEW u \in Caller \ {t} PROVE OwnCall(u)' /\ WireCall(u)'
    OBVIOUS
  <2>1. calls[u].link # NoLink => calls[u].link # pool' /\ links'[calls[u].link] = links[calls[u].link]
    BY OthersLinks
  <2> QED BY <1>1, <2>1, OthersKeep
<1>3. \A u, v \in Caller : u # v => Apart(u, v)'
  <2> SUFFICES ASSUME NEW u \in Caller \ {t}
               PROVE  /\ calls'[t].step # "idle" => calls'[t].req # calls[u].req
                      /\ calls[u].step # "idle" => calls[u].req # calls'[t].req
                      /\ calls'[t].link # NoLink => calls'[t].link # calls[u].link
    BY ApartKeep
  <2>1. calls[u].step # "idle" => calls[u].req # 0
    BY OwnRequest, HttpAssumption DEF Number
  <2> QED BY <2>1, OthersLinks
<1>4. pool # NoLink => links'[pool] = links[pool]
  BY <1>1, OwnLink DEF HttpTypeOK
<1> QED BY <1>2, <1>3, <1>4 DEF HttpInv, OwnInv, WireInv

\* A call that closes its connection, and ends or opens another one.
LEMMA UnopenedStays ==
    ASSUME HttpInv, NEW n \in Number, links[n].client, NEW m \in Number, links[m] = Unopened
    PROVE  Dropped(n)[m] = Unopened
BY Opened, DroppedShape DEF HttpInv

\* A call that ends in an error drops its connection and keeps the invariant.
LEMMA ErrorKeeps ==
    ASSUME HttpInv, NEW t \in Caller, EndInError(t)
    PROVE  HttpInv'
<1>1. /\ HttpTypeOK /\ requests \in Nat /\ requests' = requests /\ pool' = pool /\ handled' = handled
      /\ calls' = [calls EXCEPT ![t] = NoCall] /\ links' = IF calls[t].link = NoLink THEN links ELSE Dropped(calls[t].link)
  BY DEF EndInError, HttpInv, HttpTypeOK, Number
<1>2. calls'[t] = NoCall /\ (\A u \in Caller \ {t} : calls'[u] = calls[u]) /\ NoCall \in CallRecord
  BY <1>1 DEF HttpTypeOK, NoCall, CallRecord
<1>3. /\ links' \in [Number -> LinkRecord]
      /\ \A n \in Number : links'[n].sent = links[n].sent
      /\ \A n \in Number : n # calls[t].link => links'[n] = links[n]
  BY <1>1, OwnLink, DroppedShape, Zenon DEF HttpTypeOK
<1>4. HttpTypeOK'
  BY <1>1, <1>2, <1>3 DEF HttpTypeOK
<1>5. OwnCall(t)' /\ WireCall(t)'
  BY <1>2 DEF OwnCall, WireCall, NoCall
<1>6. OwnInv' /\ WireInv'
  BY <1>1, <1>2, <1>3, <1>5, OwnLinkStep DEF NoCall
<1>7. \A n \in Number : links[n] = Unopened => links'[n] = Unopened
  BY <1>1, OwnLink, UnopenedStays
<1>8. \A u \in Caller : calls'[u].step \in {"open", "recycled", "fresh"} =>
         calls'[u] = calls[u] /\ Unsent(calls[u].req) /\ calls[u].req \in Number
  <2> SUFFICES ASSUME NEW u \in Caller, calls'[u].step \in {"open", "recycled", "fresh"}
               PROVE  calls'[u] = calls[u] /\ Unsent(calls[u].req) /\ calls[u].req \in Number
    OBVIOUS
  <2>1. calls'[u] = calls[u] /\ calls[u].step # "idle"
    BY <1>2 DEF NoCall
  <2> QED BY <2>1, OwnRequest DEF HttpInv, SentInv
<1>9. \A u \in Caller : calls'[u].step \in {"open", "recycled"} => links'[calls'[u].req] = Unopened
  BY <1>7, <1>8 DEF HttpInv, SentInv
<1>10. SentInv'
  BY <1>1, <1>3, <1>7, <1>8, <1>9, SameSent
<1> QED BY <1>4, <1>6, <1>10 DEF HttpInv

\* A failed write on a pooled connection: the connection is dropped before the one retry.
LEMMA RetryKeeps ==
    ASSUME HttpInv, NEW t \in Caller, WriteRecycledFails(t)
    PROVE  HttpInv'
<1> DEFINE r == calls[t].req
           new == [step |-> "open", req |-> r, link |-> NoLink, got |-> <<>>]
<1>1. /\ HttpTypeOK /\ requests \in Nat /\ requests' = requests /\ pool' = pool /\ handled' = handled
      /\ calls[t] \in CallRecord /\ calls[t].step = "recycled" /\ links' = Dropped(calls[t].link)
      /\ OwnCall(t) /\ WireCall(t)
  BY DEF WriteRecycledFails, Retry, HttpInv, HttpTypeOK, Number, OwnInv, WireInv
<1>2. calls[t].link \in Number /\ links[calls[t].link].client /\ calls[t].got = <<>>
  BY <1>1 DEF OwnCall, WireCall
<1>3. r \in 1 .. requests /\ r \in Number /\ Unsent(r) /\ links[r] = Unopened
  BY <1>1, OwnRequest DEF HttpInv, SentInv
<1>4. calls'[t] = new /\ \A u \in Caller \ {t} : calls'[u] = calls[u]
  <2>1. calls' = [calls EXCEPT ![t].step = "open", ![t].link = NoLink] /\ calls \in [Caller -> CallRecord]
    BY <1>1 DEF WriteRecycledFails, Retry, HttpTypeOK
  <2>2. calls'[t] = [calls[t] EXCEPT !.step = "open", !.link = NoLink]
    BY <2>1
  <2>3. calls'[t] \in CallRecord
    BY <1>1, <2>2, Zenon DEF CallRecord
  <2>4. /\ calls'[t].step = "open" /\ calls'[t].link = NoLink
        /\ calls'[t].req = r /\ calls'[t].got = calls[t].got
    BY <1>1, <2>2 DEF CallRecord
  <2>5. calls'[t] = new
    BY <1>2, <2>3, <2>4, CallShape
  <2> QED BY <2>1, <2>5
<1>5. /\ links' \in [Number -> LinkRecord]
      /\ \A n \in Number : links'[n].sent = links[n].sent
      /\ \A n \in Number : n # calls[t].link => links'[n] = links[n]
      /\ \A n \in Number : links[n] = Unopened => links'[n] = Unopened
  BY <1>1, <1>2, DroppedShape, UnopenedStays
<1>6. HttpTypeOK'
  <2>1. new \in CallRecord
    BY <1>3 DEF CallRecord
  <2>2. calls' = [u \in Caller |-> calls'[u]]
    BY <1>1, Zenon DEF WriteRecycledFails, Retry, HttpTypeOK
  <2> HIDE DEF new
  <2>3. calls' \in [Caller -> CallRecord]
    BY <1>1, <1>4, <2>1, <2>2 DEF HttpTypeOK
  <2> QED BY <1>1, <1>5, <2>3 DEF HttpTypeOK
<1>7. OwnCall(t)' /\ WireCall(t)'
  BY <1>1, <1>3, <1>4 DEF OwnCall, WireCall
<1>8. OwnInv' /\ WireInv'
  BY <1>1, <1>4, <1>5, <1>7, OwnLinkStep
<1>9. \A u \in Caller : calls'[u].step \in {"open", "recycled", "fresh"} => Unsent(calls'[u].req)
  BY <1>3, <1>4 DEF HttpInv, SentInv
<1>10. \A u \in Caller : calls'[u].step \in {"open", "recycled"} => links'[calls'[u].req] = Unopened
  <2> SUFFICES ASSUME NEW u \in Caller, calls'[u].step \in {"open", "recycled"}
               PROVE  links'[calls'[u].req] = Unopened
    OBVIOUS
  <2>1. CASE u = t
    BY <1>3, <1>4, <1>5, <2>1
  <2>2. CASE u # t
    <3>1. calls'[u] = calls[u] /\ calls[u].step # "idle" /\ links[calls[u].req] = Unopened
      BY <1>4, <2>2 DEF HttpInv, SentInv
    <3> QED BY <1>5, <3>1, OwnRequest
  <2> QED BY <2>1, <2>2
<1>11. SentInv'
  BY <1>1, <1>5, <1>9, <1>10, SameSent
<1> QED BY <1>6, <1>8, <1>11 DEF HttpInv

\* A call writes its request, which nobody has sent before.
LEMMA WriteKeeps ==
    ASSUME HttpInv, NEW t \in Caller, try_write(t)
    PROVE  HttpInv'
<1> DEFINE r == calls[t].req
           n == calls[t].link
           queue == IF links[n].server THEN <<r>> ELSE <<>>
<1>1. /\ HttpTypeOK /\ requests \in Nat /\ requests' = requests /\ pool' = pool /\ handled' = handled
      /\ calls[t] \in CallRecord /\ calls[t].step \in {"recycled", "fresh"} /\ OwnCall(t) /\ WireCall(t)
  BY DEF try_write, HttpInv, HttpTypeOK, Number, OwnInv, WireInv
<1>2. n \in Number /\ links[n] \in LinkRecord /\ links[n].client /\ Quiet(links[n]) /\ calls[t].got = <<>> /\ n # pool
  BY <1>1, HttpAssumption DEF OwnCall, WireCall, HttpTypeOK, Number
<1>3. r \in 1 .. requests /\ r \in Number /\ Unsent(r)
  BY <1>1, OwnRequest DEF HttpInv, SentInv
<1>4. /\ links'[n].client /\ links'[n].server = links[n].server /\ links'[n].sent = queue /\ links'[n].answer = <<>>
      /\ links'[n] \in LinkRecord /\ \A m \in Number \ {n} : links'[m] = links[m]
  <2>1. /\ links' = [links EXCEPT ![n].sent = IF links[n].server THEN Append(@, r) ELSE @]
        /\ links \in [Number -> LinkRecord]
    BY <1>1 DEF try_write, HttpTypeOK
  <2>2. links'[n] = [links[n] EXCEPT !.sent = queue]
    <3>1. links[n].sent = <<>> /\ Append(<<>>, r) = <<r>>
      BY <1>2 DEF Quiet
    <3> QED BY <1>2, <2>1, <3>1
  <2>3. queue \in Seq(Number)
    BY <1>3
  <2> HIDE DEF queue
  <2>4. links'[n] \in LinkRecord
    BY <1>2, <2>2, <2>3 DEF LinkRecord
  <2>5. /\ links'[n].client = TRUE /\ links'[n].server = links[n].server
        /\ links'[n].sent = queue /\ links'[n].answer = <<>>
    BY <1>2, <2>2 DEF LinkRecord, Quiet
  <2> QED BY <2>1, <2>4, <2>5
<1>5. /\ calls'[t].step = "head" /\ calls'[t].req = r /\ calls'[t].link = n /\ calls'[t].got = <<>>
      /\ calls'[t] \in CallRecord /\ \A u \in Caller \ {t} : calls'[u] = calls[u]
  <2>1. calls' = [calls EXCEPT ![t].step = "head"] /\ calls \in [Caller -> CallRecord]
    BY <1>1 DEF try_write, HttpTypeOK
  <2>2. calls'[t] = [calls[t] EXCEPT !.step = "head"]
    BY <2>1
  <2>3. calls'[t] \in CallRecord
    BY <1>1, <2>2 DEF CallRecord
  <2>4. calls'[t].step = "head" /\ calls'[t].req = r /\ calls'[t].link = n /\ calls'[t].got = <<>>
    BY <1>1, <1>2, <2>2 DEF CallRecord
  <2> QED BY <2>1, <2>3, <2>4
<1>6. queue = IF links[n].server THEN <<r>> ELSE <<>>
  OBVIOUS
<1> HIDE DEF r, n, queue
<1>7. HttpTypeOK'
  <2>1. links' = [m \in Number |-> links'[m]] /\ calls' = [u \in Caller |-> calls'[u]]
    BY <1>1, Zenon DEF try_write, HttpTypeOK
  <2>2. links' \in [Number -> LinkRecord] /\ calls' \in [Caller -> CallRecord]
    BY <1>1, <1>4, <1>5, <2>1 DEF HttpTypeOK
  <2> QED BY <1>1, <2>2 DEF HttpTypeOK
<1>8. OwnCall(t)'
  BY <1>1, <1>2, <1>3, <1>4, <1>5 DEF OwnCall
<1>9. WireCall(t)'
  BY <1>4, <1>5, <1>6 DEF WireCall, Quiet
<1>10. OwnInv' /\ WireInv'
  <2>1. /\ calls[t].step # "idle" /\ calls'[t].req = calls[t].req /\ calls'[t].link = calls[t].link
        /\ \A m \in Number : m # calls[t].link => links'[m] = links[m]
    BY <1>1, <1>4, <1>5 DEF r, n
  <2> QED BY <1>1, <1>5, <1>8, <1>9, <2>1, OwnLinkStep
<1>s. links'[n].sent \in {<<>>, <<r>>} /\ \A m \in Number \ {n} : links'[m].sent = links[m].sent
  BY <1>4, <1>6
<1>11. \A s \in Number : s # r /\ Unsent(s) => Unsent(s)'
  <2> SUFFICES ASSUME NEW s \in Number, s # r, Unsent(s) PROVE Unsent(s)'
    OBVIOUS
  <2>1. <<s>> # <<r>> /\ <<s>> # <<>>
    OBVIOUS
  <2> QED BY <1>1, <1>s, <2>1 DEF Unsent
<1>12. \A m \in Number : Alone(m)'
  <2> SUFFICES ASSUME NEW m \in Number PROVE Alone(m)'
    OBVIOUS
  <2>1. Alone(m)
    BY DEF HttpInv, SentInv
  <2>2. CASE m = n
    BY <1>1, <1>3, <1>s, <2>2 DEF Alone, Unsent
  <2>3. CASE m # n /\ links[m].sent # <<>>
    <3>1. PICK s \in Number : links[m].sent = <<s>> /\ handled[s] = 0 /\ \A o \in Number \ {m} : links[o].sent # <<s>>
      BY <2>1, <2>3 DEF Alone
    <3>2. s # r
      BY <1>3, <3>1 DEF Unsent
    <3>3. links'[m].sent = <<s>> /\ \A o \in Number \ {m} : links'[o].sent # <<s>>
      <4>1. <<s>> # <<r>> /\ <<s>> # <<>>
        BY <3>2
      <4> QED BY <1>s, <2>3, <3>1, <4>1
    <3> QED BY <1>1, <3>1, <3>3 DEF Alone
  <2>4. CASE m # n /\ links[m].sent = <<>>
    BY <1>4, <2>4 DEF Alone
  <2> QED BY <2>2, <2>3, <2>4
<1>13. \A s \in Number : s > requests => Unsent(s)' /\ (links[s] = Unopened)'
  <2> SUFFICES ASSUME NEW s \in Number, s > requests PROVE Unsent(s)' /\ links'[s] = Unopened
    OBVIOUS
  <2>1. Unsent(s) /\ links[s] = Unopened
    BY DEF HttpInv, SentInv
  <2>2. s # r
    BY <1>1, <1>3 DEF Number
  <2>3. s # n
    BY <1>2, <2>1, Opened
  <2> QED BY <1>4, <1>11, <2>1, <2>2, <2>3
<1>14. \A u \in Caller :
          /\ calls'[u].step \in {"open", "recycled", "fresh"} => Unsent(calls[u].req)'
          /\ calls'[u].step \in {"open", "recycled"} => links'[calls'[u].req] = Unopened
  <2> SUFFICES ASSUME NEW u \in Caller, calls'[u].step \in {"open", "recycled", "fresh"}
               PROVE  /\ Unsent(calls[u].req)'
                      /\ calls'[u].step \in {"open", "recycled"} => links'[calls'[u].req] = Unopened
    OBVIOUS
  <2>1. u # t /\ calls'[u] = calls[u] /\ calls[u].step # "idle"
    BY <1>5
  <2>2. calls[u].req \in Number /\ calls[u].req # r
    BY <2>1, OwnRequest, OthersLinks DEF r
  <2>3. Unsent(calls[u].req) /\ (calls[u].step \in {"open", "recycled"} => links[calls[u].req] = Unopened)
    BY <2>1 DEF HttpInv, SentInv
  <2>4. calls[u].step \in {"open", "recycled"} => calls[u].req # n
    BY <1>2, <2>3, Opened
  <2>5. \A s \in Number : s = calls[u].req => Unsent(s)'
    BY <1>11, <2>2, <2>3
  <2>6. Unsent(calls[u].req)'
    BY <2>1, <2>2, <2>5
  <2> QED BY <1>4, <2>1, <2>2, <2>3, <2>4, <2>6
<1>15. SentInv'
  BY <1>1, <1>12, <1>13, <1>14 DEF SentInv, HttpInv
<1> QED BY <1>7, <1>10, <1>15 DEF HttpInv

\* What is read of an answer stays a part of it.
LEMMA PartRead ==
    ASSUME NEW whole \in Seq(Token), NEW got \in Seq(Token), NEW left \in Seq(Token), NEW open,
           PartOf(whole, got, left, open), left # <<>>
    PROVE  PartOf(whole, Append(got, Head(left)), Tail(left), open)
<1> DEFINE k == Len(got)
           more == Append(got, Head(left))
<1>1. PICK m \in k .. Len(whole) : got = SubSeq(whole, 1, k) /\ left = SubSeq(whole, k + 1, m) /\ (open => m = Len(whole))
  BY DEF PartOf
<1>2. k \in Nat /\ Len(whole) \in Nat /\ m \in Nat
  BY <1>1
<1>3. m # k
  <2> HIDE DEF k
  <2>1. m = k => SubSeq(whole, k + 1, m) = <<>>
    BY <1>2, SubSeqEmpty
  <2> QED BY <1>1, <2>1
<1>4. m \in k + 1 .. Len(whole)
  <2> HIDE DEF k
  <2> QED BY <1>1, <1>2, <1>3
<1>5. Head(left) = whole[k + 1] /\ Tail(left) = SubSeq(whole, k + 2, m) /\ more = SubSeq(whole, 1, k + 1)
  <2>1. /\ Head(SubSeq(whole, k + 1, m)) = whole[k + 1]
        /\ Tail(SubSeq(whole, k + 1, m)) = SubSeq(whole, k + 2, m)
        /\ Append(SubSeq(whole, 1, k), whole[k + 1]) = SubSeq(whole, 1, k + 1)
    BY <1>2, <1>4, ReadOne
  <2> QED BY <1>1, <2>1
<1>6. Len(more) = k + 1
  <2>1. Head(left) \in Token
    BY <1>1
  <2> QED BY <2>1
<1> HIDE DEF more, k
<1>7. m \in Len(more) .. Len(whole) /\ Len(more) + 1 = k + 2
  BY <1>2, <1>4, <1>6
<1>8. more = SubSeq(whole, 1, Len(more)) /\ Tail(left) = SubSeq(whole, Len(more) + 1, m)
  BY <1>5, <1>6, <1>7, Zenon
<1>9. PartOf(whole, more, Tail(left), open)
  BY <1>1, <1>7, <1>8, Zenon DEF PartOf
<1> QED BY <1>9 DEF more

\* read_response: taking the next piece of the answer keeps the invariant.
LEMMA ReadKeeps ==
    ASSUME HttpInv, NEW t \in Caller, calls[t].step \in {"head", "body"}, Incoming(t) # <<>>, ReadToken(t)
    PROVE  HttpInv'
<1> DEFINE r == calls[t].req
           n == calls[t].link
           left == links[n].answer
           more == Append(calls[t].got, Head(left))
<1>1. /\ HttpTypeOK /\ requests \in Nat /\ requests' = requests /\ pool' = pool /\ handled' = handled
      /\ calls[t] \in CallRecord /\ OwnCall(t) /\ WireCall(t) /\ left # <<>>
  BY DEF ReadToken, Incoming, HttpInv, HttpTypeOK, Number, OwnInv, WireInv
<1>2. n \in Number /\ links[n] \in LinkRecord /\ links[n].client /\ n # pool
  BY <1>1, HttpAssumption DEF OwnCall, HttpTypeOK, Number
<1>3. r \in 1 .. requests /\ r \in Number
  BY <1>1, OwnRequest
<1>4. links[n].sent = <<>> /\ Underway(r, calls[t].got, links[n])
  BY <1>1 DEF WireCall, Quiet
<1>5. left \in Seq(Token) /\ Tail(left) \in Seq(Token) /\ Head(left) \in Token /\ more \in Seq(Token) /\ more # <<>>
  <2>1. left \in Seq(Token) /\ calls[t].got \in Seq(Token)
    BY <1>1, <1>2 DEF LinkRecord, CallRecord
  <2> HIDE DEF left
  <2> QED BY <1>1, <2>1
<1>6. PICK head \in Answers : PartOf(AnswerTo(r, head), calls[t].got, left, links[n].server)
  BY <1>4 DEF Underway
<1>7. PartOf(AnswerTo(r, head), more, Tail(left), links[n].server)
  <2>1. AnswerTo(r, head) \in Seq(Token) /\ calls[t].got \in Seq(Token)
    BY <1>1, <1>3, WholeShape, Zenon DEF CallRecord
  <2> HIDE DEF left, n, r
  <2> QED BY <1>1, <1>5, <1>6, <2>1, PartRead
<1>8. /\ links'[n].client /\ links'[n].server = links[n].server /\ links'[n].sent = <<>> /\ links'[n].answer = Tail(left)
      /\ links'[n] \in LinkRecord /\ \A m \in Number \ {n} : links'[m] = links[m]
  <2>1. links' = [links EXCEPT ![n].answer = Tail(@)] /\ links \in [Number -> LinkRecord]
    BY <1>1 DEF ReadToken, HttpTypeOK
  <2>2. links'[n] = [links[n] EXCEPT !.answer = Tail(left)]
    BY <1>2, <2>1, Zenon
  <2>3. Tail(left) \in Seq(Token) /\ links[n].client = TRUE /\ links[n].sent = <<>>
    BY <1>2, <1>4, <1>5 DEF LinkRecord
  <2> DEFINE rest == Tail(left)
  <2> HIDE DEF rest, n
  <2>4. links'[n] \in LinkRecord
    BY <1>2, <2>2, <2>3, Zenon DEF LinkRecord, rest
  <2>5. /\ links'[n].client = TRUE /\ links'[n].server = links[n].server
        /\ links'[n].sent = <<>> /\ links'[n].answer = rest
    BY <1>2, <2>2, <2>3 DEF LinkRecord, rest
  <2> QED BY <2>1, <2>4, <2>5 DEF rest
<1>9. /\ calls'[t].step = "body" /\ calls'[t].req = r /\ calls'[t].link = n /\ calls'[t].got = more
      /\ calls'[t] \in CallRecord /\ \A u \in Caller \ {t} : calls'[u] = calls[u]
  <2>1. calls' = [calls EXCEPT ![t].step = "body", ![t].got = more] /\ calls \in [Caller -> CallRecord]
    BY <1>1 DEF ReadToken, Incoming, HttpTypeOK
  <2> HIDE DEF more
  <2>2. calls'[t] = [calls[t] EXCEPT !.step = "body", !.got = more]
    BY <2>1
  <2>3. calls'[t] \in CallRecord
    BY <1>1, <1>5, <2>2, Zenon DEF CallRecord
  <2>4. calls'[t].step = "body" /\ calls'[t].link = n /\ calls'[t].req = r /\ calls'[t].got = more
    BY <1>1, <2>2 DEF CallRecord
  <2> QED BY <2>1, <2>3, <2>4
<1> HIDE DEF more, n, r, left
<1>10. HttpTypeOK'
  <2>1. links' = [m \in Number |-> links'[m]] /\ calls' = [u \in Caller |-> calls'[u]]
    BY <1>1, Zenon DEF ReadToken, HttpTypeOK
  <2>2. links' \in [Number -> LinkRecord] /\ calls' \in [Caller -> CallRecord]
    BY <1>1, <1>8, <1>9, <2>1, Zenon DEF HttpTypeOK
  <2> QED BY <1>1, <2>2 DEF HttpTypeOK
<1>11. OwnCall(t)'
  BY <1>1, <1>2, <1>3, <1>8, <1>9 DEF OwnCall
<1>12. WireCall(t)'
  <2>1. Underway(r, more, links'[n])
    BY <1>7, <1>8 DEF Underway
  <2> QED BY <1>5, <1>8, <1>9, <2>1 DEF WireCall
<1>13. OwnInv' /\ WireInv'
  <2>1. /\ calls[t].step # "idle" /\ calls'[t].req = calls[t].req /\ calls'[t].link = calls[t].link
        /\ \A m \in Number : m # calls[t].link => links'[m] = links[m]
    BY <1>8, <1>9 DEF r, n
  <2> QED BY <1>1, <1>9, <1>11, <1>12, <2>1, OwnLinkStep
<1>14. SentInv'
  <2>1. \A m \in Number : links'[m].sent = links[m].sent
    BY <1>4, <1>8
  <2>2. \A m \in Number : links[m] = Unopened => links'[m] = Unopened
    BY <1>2, <1>8, Opened
  <2>3. \A u \in Caller : calls'[u].step \in {"open", "recycled", "fresh"} =>
           u # t /\ calls'[u] = calls[u] /\ Unsent(calls[u].req) /\ calls[u].req \in Number
    <3> SUFFICES ASSUME NEW u \in Caller, calls'[u].step \in {"open", "recycled", "fresh"}
                 PROVE  u # t /\ calls'[u] = calls[u] /\ Unsent(calls[u].req) /\ calls[u].req \in Number
      OBVIOUS
    <3>1. u # t /\ calls'[u] = calls[u] /\ calls[u].step # "idle"
      BY <1>9
    <3> QED BY <3>1, OwnRequest DEF HttpInv, SentInv
  <2>4. \A u \in Caller : calls'[u].step \in {"open", "recycled"} => links'[calls'[u].req] = Unopened
    BY <2>2, <2>3 DEF HttpInv, SentInv
  <2>5. \A u \in Caller : calls'[u].step \in {"open", "recycled", "fresh"} => Unsent(calls'[u].req)
    BY <2>3
  <2> QED BY <1>1, <2>1, <2>2, <2>4, <2>5, SameSent
<1> QED BY <1>10, <1>13, <1>14 DEF HttpInv

(***************************************************************************)
(* Complete responses                                                      *)
(***************************************************************************)

Chunks(got) == {i \in DOMAIN got : got[i].tok = "chunk"}

\* The tokens of an answer that were read, all of them when there is an end or
\* when the length is reached.
LEMMA ReadShape ==
    ASSUME NEW r \in Number, NEW head \in Answers, NEW got \in Seq(Token), got # <<>>,
           Len(got) <= Len(AnswerTo(r, head)), got = SubSeq(AnswerTo(r, head), 1, Len(got))
    PROVE  /\ \A i \in 1 .. Len(got) : got[i] = AnswerTo(r, head)[i] /\ got[i].to = r
           /\ Head(got).says = head
           /\ head.framing = "chunked" /\ Last(got).tok = "end" => Len(got) = Len(AnswerTo(r, head))
           /\ head.framing = "length" /\ Cardinality(Chunks(got)) = head.size => Len(got) = Len(AnswerTo(r, head))
<1> DEFINE whole == AnswerTo(r, head)
           k == Len(got)
<1>1. /\ whole \in Seq(Token)
      /\ Len(whole) = head.size + IF head.framing = "chunked" THEN 2 ELSE 1
      /\ whole[1] = [tok |-> "head", to |-> r, says |-> head]
      /\ \A i \in 2 .. head.size + 1 : whole[i] = [tok |-> "chunk", to |-> r]
      /\ head.framing = "chunked" => whole[head.size + 2] = [tok |-> "end", to |-> r]
  BY WholeShape
<1>2. head.size \in Nat /\ head.framing \in {"length", "chunked", "none"}
  BY HttpAssumption
<1>3. k \in Nat /\ k >= 1 /\ k <= Len(whole) /\ got = SubSeq(whole, 1, k) /\ DOMAIN got = 1 .. k
  BY EmptySeq
<1> HIDE DEF whole
<1>4. \A i \in 1 .. k : got[i] = whole[i]
  <2> HIDE DEF k
  <2>1. \A i \in 1 .. k : SubSeq(whole, 1, k)[i] = whole[i]
    BY <1>1, <1>3
  <2> QED BY <1>3, <2>1
<1> HIDE DEF k
<1>5. \A i \in 1 .. k : i = 1 \/ i \in 2 .. head.size + 1 \/ (head.framing = "chunked" /\ i = head.size + 2)
  BY <1>1, <1>2, <1>3
<1>6. \A i \in 1 .. k : /\ got[i].to = r
                        /\ got[i].tok = "head" <=> i = 1
                        /\ got[i].tok = "end" <=> head.framing = "chunked" /\ i = head.size + 2
                        /\ got[i].tok = "chunk" <=> i \in 2 .. head.size + 1
  BY <1>1, <1>2, <1>4, <1>5
<1>7. Head(got).says = head
  BY <1>1, <1>3, <1>4
<1>8. head.framing = "chunked" /\ Last(got).tok = "end" => k = Len(whole)
  <2>1. Last(got) = got[k]
    BY DEF Last, k
  <2> QED BY <1>1, <1>2, <1>3, <1>6, <2>1
<1>9. ASSUME head.framing = "length", Cardinality(Chunks(got)) = head.size
      PROVE  k = Len(whole)
  <2>1. k <= head.size + 1 /\ Len(whole) = head.size + 1
    BY <1>1, <1>2, <1>3, <1>9
  <2>2. Chunks(got) = 2 .. k
    <3>1. \A i \in 1 .. k : got[i].tok = "chunk" <=> i \in 2 .. k
      <4> SUFFICES ASSUME NEW i \in 1 .. k PROVE got[i].tok = "chunk" <=> i \in 2 .. k
        OBVIOUS
      <4>1. got[i].tok = "chunk" <=> i \in 2 .. head.size + 1
        BY <1>6
      <4>2. i \in 2 .. head.size + 1 <=> i \in 2 .. k
        BY <1>2, <1>3, <2>1
      <4> QED BY <4>1, <4>2
    <3> QED BY <1>3, <3>1 DEF Chunks
  <2>3. Cardinality(2 .. k) = k - 1
    BY <1>3, FS_Interval
  <2>4. head.size = k - 1
    BY <1>9, <2>2, <2>3
  <2> QED BY <1>2, <1>3, <2>1, <2>4
<1> QED BY <1>4, <1>6, <1>7, <1>8, <1>9 DEF k, whole

\* The response of a call, as far as it is read.
LEMMA BodyShape ==
    ASSUME HttpInv, NEW t \in Caller, calls[t].step = "body"
    PROVE  LET whole == AnswerTo(calls[t].req, HeadOf(t))
           IN  /\ HeadOf(t) \in Answers
               /\ \A i \in DOMAIN calls[t].got : calls[t].got[i].to = calls[t].req
               /\ IsPrefix(calls[t].got, whole)
               /\ BodyComplete(t) /\ HeadOf(t).framing # "none" => calls[t].got = whole /\ Incoming(t) = <<>>
<1> DEFINE r == calls[t].req
           got == calls[t].got
           n == calls[t].link
<1>1. r \in Number /\ got \in Seq(Token) /\ WireCall(t)
  BY OwnRequest DEF HttpInv, HttpTypeOK, CallRecord, WireInv
<1>2. got # <<>> /\ Underway(r, got, links[n])
  BY <1>1 DEF WireCall
<1>3. PICK head \in Answers : PartOf(AnswerTo(r, head), got, links[n].answer, links[n].server)
  BY <1>2 DEF Underway
<1> DEFINE whole == AnswerTo(r, head)
<1>4. PICK m \in Len(got) .. Len(whole) : got = SubSeq(whole, 1, Len(got)) /\ links[n].answer = SubSeq(whole, Len(got) + 1, m)
  BY <1>3, Zenon DEF PartOf
<1>5. whole \in Seq(Token) /\ Len(got) <= Len(whole)
  <2>1. whole \in Seq(Token)
    BY <1>1, WholeShape, Zenon
  <2> HIDE DEF whole, got
  <2> QED BY <1>1, <1>4, <2>1
<1>6. /\ \A i \in 1 .. Len(got) : got[i] = whole[i] /\ got[i].to = r
      /\ Head(got).says = head
      /\ head.framing = "chunked" /\ Last(got).tok = "end" => Len(got) = Len(whole)
      /\ head.framing = "length" /\ Cardinality(Chunks(got)) = head.size => Len(got) = Len(whole)
  <2>1. got # <<>> /\ Len(got) <= Len(AnswerTo(r, head)) /\ got = SubSeq(AnswerTo(r, head), 1, Len(got))
    BY <1>2, <1>4, <1>5
  <2> HIDE DEF got, r
  <2> QED BY <1>1, <2>1, ReadShape
<1>7. HeadOf(t) = head
  BY <1>6 DEF HeadOf
<1>8. BodyComplete(t) /\ head.framing # "none" => Len(got) = Len(whole)
  BY <1>6, <1>7 DEF BodyComplete, BodyLength, Chunks
<1> HIDE DEF got, whole
<1>9. Len(got) = Len(whole) => got = whole /\ links[n].answer = <<>>
  <2> SUFFICES ASSUME Len(got) = Len(whole) PROVE got = whole /\ links[n].answer = <<>>
    OBVIOUS
  <2>1. got = whole
    BY <1>4, <1>5, SubSeqFull
  <2>2. Len(got) \in Nat /\ m \in Int /\ m < Len(got) + 1
    BY <1>1, <1>4, <1>5
  <2>3. SubSeq(whole, Len(got) + 1, m) = <<>>
    BY <2>2, SubSeqEmpty
  <2> QED BY <1>4, <2>1, <2>3
<1>10. IsPrefix(got, whole)
  <2>1. SubSeq(got, 1, Len(got)) = got
    BY <1>1, SubSeqFull
  <2> QED BY <1>4, <1>5, <2>1 DEF IsPrefix
<1>11. DOMAIN got = 1 .. Len(got)
  BY <1>1
<1>12. \A i \in DOMAIN got : got[i].to = r
  BY <1>6, <1>11
<1>13. Incoming(t) = links[n].answer
  BY DEF Incoming
<1> QED BY <1>7, <1>8, <1>9, <1>10, <1>12, <1>13 DEF got, whole

\* A connection that goes into the pool carries nothing any more.
LEMMA KeepKeeps ==
    ASSUME HttpInv, NEW t \in Caller, Keep(t)
    PROVE  HttpInv'
<1> DEFINE n == calls[t].link
<1>1. /\ HttpTypeOK /\ requests \in Nat /\ requests' = requests /\ handled' = handled
      /\ calls[t] \in CallRecord /\ OwnCall(t) /\ WireCall(t) /\ calls[t].step = "body" /\ BodyComplete(t)
      /\ calls' = [calls EXCEPT ![t] = NoCall]
  BY DEF Keep, HttpInv, HttpTypeOK, Number, OwnInv, WireInv
<1>2. n \in Number /\ n # NoLink /\ links[n].client /\ n # pool /\ links[n].sent = <<>>
  <2>1. links[n].sent = <<>>
    BY <1>1 DEF WireCall
  <2>2. n \in Number /\ links[n].client /\ (n # NoLink => n # pool)
    BY <1>1 DEF OwnCall
  <2> QED BY <2>1, <2>2, HttpAssumption DEF Number
<1>3. CASE HeadOf(t).close
  <2>1. EndInError(t)
    BY <1>1, <1>2, <1>3 DEF Keep, EndInError
  <2> QED BY <2>1, ErrorKeeps
<1>4. CASE ~HeadOf(t).close
  <2>1. pool' = n /\ links' = IF pool = NoLink THEN links ELSE Dropped(pool)
    BY <1>4 DEF Keep
  <2>2. links[n].answer = <<>>
    <3>1. HeadOf(t).framing # "none"
      BY <1>1, <1>4 DEF BodyComplete
    <3> QED BY <1>1, <3>1, BodyShape DEF Incoming
  <2> HIDE DEF n
  <2>3. calls'[t] = NoCall /\ (\A u \in Caller \ {t} : calls'[u] = calls[u]) /\ NoCall \in CallRecord
    BY <1>1 DEF HttpTypeOK, NoCall, CallRecord
  <2>4. /\ links' \in [Number -> LinkRecord]
        /\ \A m \in Number : links'[m].sent = links[m].sent
        /\ \A m \in Number : m # pool => links'[m] = links[m]
        /\ \A m \in Number : links[m] = Unopened => links'[m] = Unopened
    <3>1. pool # NoLink => pool \in Number /\ links[pool].client
      BY DEF HttpInv, HttpTypeOK, OwnInv
    <3> QED BY <1>1, <2>1, <3>1, DroppedShape, UnopenedStays DEF HttpTypeOK
  <2>5. HttpTypeOK'
    BY <1>1, <1>2, <2>1, <2>3, <2>4 DEF HttpTypeOK
  <2>6. \A u \in Caller \ {t} : OwnCall(u)' /\ WireCall(u)'
    <3> SUFFICES ASSUME NEW u \in Caller \ {t} PROVE OwnCall(u)' /\ WireCall(u)'
      OBVIOUS
    <3>1. calls[u].link # NoLink => calls[u].link # pool' /\ links'[calls[u].link] = links[calls[u].link]
      BY <1>2, <2>1, <2>4, OthersLinks DEF n
    <3> QED BY <1>1, <2>3, <3>1, OthersKeep
  <2>7. OwnCall(t)' /\ WireCall(t)'
    BY <2>3 DEF OwnCall, WireCall, NoCall
  <2>8. \A u, v \in Caller : u # v => Apart(u, v)'
    <3>1. \A u \in Caller \ {t} : calls[u].step # "idle" => calls[u].req # 0
      BY OwnRequest, HttpAssumption DEF Number
    <3> QED BY <2>3, <3>1, ApartKeep DEF NoCall
  <2>9. links'[pool'].client /\ Quiet(links'[pool'])
    BY <1>2, <2>1, <2>2, <2>4 DEF Quiet
  <2>10. \A u \in Caller : calls'[u].step \in {"open", "recycled", "fresh"} =>
            calls'[u] = calls[u] /\ Unsent(calls[u].req) /\ calls[u].req \in Number
    <3> SUFFICES ASSUME NEW u \in Caller, calls'[u].step \in {"open", "recycled", "fresh"}
                 PROVE  calls'[u] = calls[u] /\ Unsent(calls[u].req) /\ calls[u].req \in Number
      OBVIOUS
    <3>1. calls'[u] = calls[u] /\ calls[u].step # "idle"
      BY <2>3 DEF NoCall
    <3> QED BY <3>1, OwnRequest DEF HttpInv, SentInv
  <2>11. \A u \in Caller : calls'[u].step \in {"open", "recycled"} => links'[calls'[u].req] = Unopened
    BY <2>4, <2>10 DEF HttpInv, SentInv
  <2>12. SentInv'
    BY <1>1, <2>4, <2>10, <2>11, SameSent
  <2> QED BY <2>5, <2>6, <2>7, <2>8, <2>9, <2>12 DEF HttpInv, OwnInv, WireInv
<1> QED BY <1>3, <1>4

(***************************************************************************)
(* The steps of the server                                                 *)
(***************************************************************************)

\* A connection that is quiet, or that has been given up, is left alone.
LEMMA ServerLeaves ==
    ASSUME HttpInv, NEW n \in Number, links[n].server, UNCHANGED <<pool, calls, requests>>,
           links' \in [Number -> LinkRecord],
           \A m \in Number \ {n} : links'[m] = links[m],
           links'[n].client = links[n].client,
           handled' \in [Number -> Nat], SentInv',
           pool = n => Quiet(links'[n]),
           \A t \in Caller : calls[t].link = n => WireCall(t)'
    PROVE  HttpInv'
<1>1. HttpTypeOK /\ requests \in Nat
  BY DEF HttpInv, HttpTypeOK, Number
<1>2. HttpTypeOK'
  BY <1>1 DEF HttpTypeOK
<1>3. \A m \in Number : links'[m].client = links[m].client
  OBVIOUS
<1>4. OwnInv'
  BY <1>1, <1>3, Zenon DEF HttpInv, OwnInv, OwnCall, Apart, HttpTypeOK
<1>5. \A t \in Caller : WireCall(t)'
  <2> SUFFICES ASSUME NEW t \in Caller, calls[t].link # n PROVE WireCall(t)'
    OBVIOUS
  <2>1. calls[t].link # NoLink => calls[t].link # pool' /\ links'[calls[t].link] = links[calls[t].link]
    BY OwnLink
  <2> QED BY <1>1, <2>1, OthersKeep
<1>6. pool # NoLink => Quiet(links'[pool])
  BY <1>1 DEF HttpInv, WireInv, HttpTypeOK
<1> QED BY <1>2, <1>4, <1>5, <1>6 DEF HttpInv, WireInv

\* The server takes the request from a connection, and handles it or not.
LEMMA SentCleared ==
    ASSUME HttpInv, NEW n \in Number, links[n].server, UNCHANGED <<calls, requests>>,
           \A m \in Number \ {n} : links'[m] = links[m], links'[n].sent = <<>>,
           \/ handled' = handled
           \/ \E r \in Number : links[n].sent = <<r>> /\ handled' = [handled EXCEPT ![r] = @ + 1]
    PROVE  SentInv'
<1>1. handled \in [Number -> Nat] /\ SentInv
  BY DEF HttpInv, HttpTypeOK
<1>2. links[n] # Unopened
  BY DEF Unopened
<1>3. \A s \in Number : handled'[s] = handled[s] \/ (links[n].sent = <<s>> /\ handled'[s] = handled[s] + 1)
  BY <1>1
<1>4. \A s \in Number : links[n].sent = <<s>> => handled[s] = 0
  <2> SUFFICES ASSUME NEW s \in Number, links[n].sent = <<s>> PROVE handled[s] = 0
    OBVIOUS
  <2>1. PICK q \in Number : links[n].sent = <<q>> /\ handled[q] = 0
    BY <1>1 DEF SentInv, Alone
  <2>2. q = s
    BY <2>1
  <2> QED BY <2>1, <2>2
<1>5. \A s \in Number : handled'[s] <= 1
  <2> SUFFICES ASSUME NEW s \in Number PROVE handled'[s] <= 1
    OBVIOUS
  <2>1. handled[s] <= 1 /\ handled[s] \in Nat
    BY <1>1 DEF SentInv
  <2> QED BY <1>3, <1>4, <2>1
<1>6. \A s \in Number : Unsent(s) => Unsent(s)'
  BY <1>3 DEF Unsent
<1>7. \A m \in Number : Alone(m)'
  <2> SUFFICES ASSUME NEW m \in Number, m # n, links[m].sent # <<>> PROVE Alone(m)'
    BY DEF Alone
  <2>1. PICK s \in Number : links[m].sent = <<s>> /\ handled[s] = 0 /\ \A o \in Number \ {m} : links[o].sent # <<s>>
    BY <1>1 DEF SentInv, Alone
  <2>2. handled'[s] = 0
    BY <1>3, <2>1
  <2>3. links'[m].sent = <<s>> /\ \A o \in Number \ {m} : links'[o].sent # <<s>>
    BY <2>1, Zenon
  <2> QED BY <2>2, <2>3 DEF Alone
<1>8. \A s \in Number : s > requests => Unsent(s)' /\ links'[s] = Unopened
  BY <1>1, <1>2, <1>6 DEF SentInv
<1>9. \A t \in Caller :
         /\ calls[t].step \in {"open", "recycled", "fresh"} => Unsent(calls[t].req)'
         /\ calls[t].step \in {"open", "recycled"} => links'[calls[t].req] = Unopened
  <2> SUFFICES ASSUME NEW t \in Caller, calls[t].step \in {"open", "recycled", "fresh"}
               PROVE  /\ Unsent(calls[t].req)'
                      /\ calls[t].step \in {"open", "recycled"} => links'[calls[t].req] = Unopened
    OBVIOUS
  <2>1. calls[t].req \in Number /\ Unsent(calls[t].req)
    BY <1>1, OwnRequest DEF SentInv
  <2>2. \A s \in Number : s = calls[t].req => Unsent(s)'
    BY <1>6, <2>1
  <2>3. Unsent(calls[t].req)'
    BY <2>1, <2>2
  <2> QED BY <1>1, <1>2, <2>1, <2>3 DEF SentInv
<1> QED BY <1>5, <1>7, <1>8, <1>9 DEF SentInv

\* A server that closes a connection forgets what it had not read, and keeps the invariant.
LEMMA CloseKeeps ==
    ASSUME HttpInv, NEW n \in Number, ServerCloses(n)
    PROVE  HttpInv'
<1>1. /\ HttpTypeOK /\ links[n].server /\ UNCHANGED <<pool, calls, requests, handled>>
      /\ links' = [links EXCEPT ![n].server = FALSE, ![n].sent = <<>>] /\ links \in [Number -> LinkRecord]
  BY DEF ServerCloses, HttpInv, HttpTypeOK
<1>2. links'[n] = [links[n] EXCEPT !.server = FALSE, !.sent = <<>>] /\ \A m \in Number \ {n} : links'[m] = links[m]
  BY <1>1
<1>3. /\ links'[n].client = links[n].client /\ ~links'[n].server
      /\ links'[n].sent = <<>> /\ links'[n].answer = links[n].answer
  BY <1>1, <1>2 DEF LinkRecord
<1>4. links' \in [Number -> LinkRecord]
  <2>1. links'[n] \in LinkRecord
    <3>1. links[n] \in LinkRecord /\ <<>> \in Seq(Number)
      BY <1>1
    <3>2. links'[n] = [links[n] EXCEPT !.server = FALSE, !.sent = <<>>]
      BY <1>2
    <3> QED BY <3>1, <3>2, Zenon DEF LinkRecord
  <2>2. links' = [m \in Number |-> links'[m]]
    BY <1>1, Zenon
  <2> QED BY <1>1, <1>2, <2>1, <2>2
<1>5. SentInv'
  BY <1>1, <1>2, <1>3, SentCleared
<1>6. pool = n => Quiet(links'[n])
  BY <1>3, HttpAssumption DEF HttpInv, WireInv, Quiet, Number
<1>7. \A t \in Caller : calls[t].link = n => WireCall(t)'
  <2> SUFFICES ASSUME NEW t \in Caller, calls[t].link = n PROVE WireCall(t)'
    OBVIOUS
  <2>1. WireCall(t)
    BY DEF HttpInv, WireInv
  <2>2. \A r, got : Underway(r, got, links[n]) => Underway(r, got, links'[n])
    BY <1>1, <1>3 DEF Underway, PartOf
  <2> QED BY <1>1, <1>3, <2>1, <2>2 DEF WireCall, Quiet
<1> QED BY <1>1, <1>2, <1>3, <1>4, <1>5, <1>6, <1>7, ServerLeaves DEF HttpTypeOK

\* A server that handles the first request of a connection keeps the invariant.
LEMMA AnswerKeeps ==
    ASSUME HttpInv, NEW n \in Number, NEW head \in Answers, Answer(n, head)
    PROVE  HttpInv'
<1> DEFINE r == Head(links[n].sent)
           whole == AnswerTo(r, head)
<1>1. /\ HttpTypeOK /\ links[n].server /\ links[n].sent # <<>> /\ UNCHANGED <<pool, calls, requests>>
      /\ links \in [Number -> LinkRecord] /\ handled \in [Number -> Nat] /\ handled' = [handled EXCEPT ![r] = @ + 1]
  BY DEF Answer, HttpInv, HttpTypeOK
<1>2. r \in Number /\ links[n].sent = <<r>>
  <2>1. PICK q \in Number : links[n].sent = <<q>>
    BY <1>1 DEF HttpInv, SentInv, Alone
  <2> QED BY <2>1
<1>3. PICK tokens \in 0 .. Len(whole) :
         LET open == tokens = Len(whole) /\ ~head.close
         IN  links' = [links EXCEPT ![n].server = open,
                                    ![n].sent = IF open THEN Tail(@) ELSE <<>>,
                                    ![n].answer = IF links[n].client THEN @ \o SubSeq(whole, 1, tokens) ELSE @]
  BY Zenon DEF Answer
<1> DEFINE open == tokens = Len(whole) /\ ~head.close
           part == SubSeq(whole, 1, tokens)
           answer == IF links[n].client THEN links[n].answer \o part ELSE links[n].answer
<1>4. whole \in Seq(Token) /\ part \in Seq(Token)
  <2>1. whole \in Seq(Token)
    BY <1>2, WholeShape, Zenon
  <2> HIDE DEF whole
  <2> QED BY <2>1
<1>5. links' = [links EXCEPT ![n].server = open, ![n].sent = <<>>, ![n].answer = answer]
  <2>1. Tail(links[n].sent) = <<>>
    <3> HIDE DEF r
    <3> QED BY <1>2
  <2> HIDE DEF whole
  <2> QED BY <1>1, <1>3, <2>1, Zenon
<1> HIDE DEF r, whole, part
<1>6. answer \in Seq(Token) /\ open \in BOOLEAN
  BY <1>1, <1>4 DEF LinkRecord
<1> HIDE DEF answer, open
<1>7. /\ links'[n] = [links[n] EXCEPT !.server = open, !.sent = <<>>, !.answer = answer]
      /\ \A m \in Number \ {n} : links'[m] = links[m]
  BY <1>1, <1>5
<1>8. /\ links'[n].client = links[n].client /\ links'[n].server = open
      /\ links'[n].sent = <<>> /\ links'[n].answer = answer
  BY <1>1, <1>7 DEF LinkRecord
<1>9. links' \in [Number -> LinkRecord]
  <2>1. links'[n] \in LinkRecord
    <3>1. links[n] \in LinkRecord /\ <<>> \in Seq(Number)
      BY <1>1
    <3>2. links'[n] = [links[n] EXCEPT !.server = open, !.sent = <<>>, !.answer = answer]
      BY <1>7
    <3> QED BY <1>6, <3>1, <3>2, Zenon DEF LinkRecord
  <2>2. links' = [m \in Number |-> links'[m]]
    BY <1>1, <1>5, Zenon
  <2> QED BY <1>1, <1>7, <2>1, <2>2, Zenon
<1>10. SentInv'
  BY <1>1, <1>2, <1>7, <1>8, SentCleared, Zenon
<1>11. pool # n
  BY <1>1, HttpAssumption DEF HttpInv, WireInv, Quiet, Number
<1>12. \A t \in Caller : calls[t].link = n => WireCall(t)'
  <2> SUFFICES ASSUME NEW t \in Caller, calls[t].link = n PROVE WireCall(t)'
    OBVIOUS
  <2>1. calls[t] \in CallRecord /\ OwnCall(t) /\ WireCall(t) /\ n # NoLink
    BY HttpAssumption DEF HttpInv, HttpTypeOK, OwnInv, WireInv, Number
  <2>2. calls[t].step = "head"
    <3>1. calls[t].step \in {"recycled", "fresh", "head", "body"}
      BY <2>1 DEF CallRecord, OwnCall, NoCall
    <3>2. calls[t].step \notin {"recycled", "fresh", "body"}
      BY <1>1, <2>1 DEF WireCall, Quiet
    <3> QED BY <3>1, <3>2
  <2>3. links[n].sent = <<calls[t].req>> /\ links[n].answer = <<>> /\ calls[t].got = <<>> /\ links[n].client
    BY <1>1, <2>1, <2>2 DEF WireCall, Quiet, OwnCall
  <2>4. calls[t].req = r /\ answer = part
    <3>1. <<>> \o part = part
      BY <1>4
    <3> QED BY <1>2, <2>3, <3>1 DEF answer
  <2>5. PartOf(whole, <<>>, part, open)
    <3>1. Len(<<>>) = 0 /\ SubSeq(whole, 1, 0) = <<>> /\ tokens \in 0 .. Len(whole)
      BY <1>3, <1>4, SubSeqEmpty
    <3>2. part = SubSeq(whole, 0 + 1, tokens)
      BY DEF part
    <3> QED BY <3>1, <3>2 DEF PartOf, open
  <2>6. Underway(calls[t].req, <<>>, links'[n])
    BY <1>8, <2>4, <2>5 DEF Underway, whole
  <2> QED BY <1>1, <1>8, <2>2, <2>3, <2>6 DEF WireCall
<1>13. handled' \in [Number -> Nat]
  BY <1>1, <1>2
<1> QED BY <1>1, <1>7, <1>8, <1>9, <1>10, <1>11, <1>12, <1>13, ServerLeaves, Zenon

(***************************************************************************)
(* The theorems                                                            *)
(***************************************************************************)

\* For any number of threads and requests and any answers of the server, of
\* whatever framing: calls share no request and no connection, a request is on
\* one connection at most, and a connection carries the request of the call
\* that has it and the answer to it, and nothing when it is in the pool.
THEOREM HttpInvariant == HttpSpec => []HttpInv
<1>1. HttpInit => HttpInv
  <2> SUFFICES ASSUME HttpInit PROVE HttpInv
    OBVIOUS
  <2>1. HttpTypeOK
    BY HttpAssumption DEF HttpInit, HttpTypeOK, NoCall, Unopened, CallRecord, LinkRecord, Number
  <2>2. OwnInv
    BY DEF HttpInit, OwnInv, OwnCall, Apart, NoCall
  <2>3. SentInv
    <3>1. \A n \in Number : handled[n] = 0 /\ links[n] = Unopened /\ links[n].sent = <<>>
      <4> SUFFICES ASSUME NEW n \in Number PROVE handled[n] = 0 /\ links[n] = Unopened /\ links[n].sent = <<>>
        OBVIOUS
      <4>1. handled[n] = 0 /\ links[n] = Unopened
        BY DEF HttpInit
      <4> QED BY <4>1 DEF Unopened
    <3>2. \A n \in Number : Unsent(n) /\ Alone(n)
      <4>1. \A n, m \in Number : links[m].sent # <<n>>
        BY <3>1
      <4> QED BY <3>1, <4>1 DEF Unsent, Alone
    <3>3. \A t \in Caller : calls[t].step = "idle"
      BY DEF HttpInit, NoCall
    <3> QED BY <3>1, <3>2, <3>3 DEF SentInv
  <2>4. WireInv
    BY DEF HttpInit, WireInv, WireCall, NoCall
  <2> QED BY <2>1, <2>2, <2>3, <2>4 DEF HttpInv
<1>2. HttpInv /\ [HttpNext]_httpVars => HttpInv'
  <2> SUFFICES ASSUME HttpInv, [HttpNext]_httpVars PROVE HttpInv'
    OBVIOUS
  <2>1. ASSUME NEW t \in Caller, Call(t) PROVE HttpInv'
    <3>1. CASE request(t)
      BY <3>1, RequestKeeps
    <3>2. CASE open_conn(t)
      BY <3>2, OpenKeeps
    <3>3. CASE OpenFails(t) \/ WriteFreshFails(t) \/ HeadFails(t) \/ BodyFails(t)
      BY <3>3, ErrorKeeps DEF OpenFails, WriteFreshFails, HeadFails, BodyFails
    <3>4. CASE try_write(t)
      BY <3>4, WriteKeeps
    <3>5. CASE WriteRecycledFails(t)
      BY <3>5, RetryKeeps
    <3>6. CASE read_until_crlf_crlf(t) \/ ReadBody(t)
      BY <3>6, ReadKeeps DEF read_until_crlf_crlf, ReadBody
    <3>7. CASE Keep(t)
      BY <3>7, KeepKeeps
    <3> QED BY <2>1, <3>1, <3>2, <3>3, <3>4, <3>5, <3>6, <3>7 DEF Call
  <2>2. ASSUME NEW n \in Number, ServerCloses(n) PROVE HttpInv'
    BY <2>2, CloseKeeps
  <2>3. ASSUME NEW n \in Number, NEW head \in Answers, Answer(n, head) PROVE HttpInv'
    BY <2>3, AnswerKeeps
  <2>4. CASE UNCHANGED httpVars
    <3>1. HttpTypeOK' /\ OwnInv'
      BY <2>4 DEF httpVars, HttpInv, HttpTypeOK, OwnInv, OwnCall, Apart
    <3>2. SentInv'
      BY <2>4 DEF httpVars, HttpInv, SentInv, Unsent, Alone
    <3>3. WireInv'
      BY <2>4, Zenon DEF httpVars, HttpInv, WireInv, WireCall
    <3> QED BY <3>1, <3>2, <3>3 DEF HttpInv
  <2> QED BY <2>1, <2>2, <2>3, <2>4 DEF HttpNext
<1> QED BY <1>1, <1>2, PTL DEF HttpSpec

\* No request is handled twice, in spite of the retry on a fresh connection,
\* and a call that returns has read an answer to its own request, all of it if
\* it is framed.
THEOREM OwnAnswers == HttpSpec => []OwnAnswerOnce
<1>1. HttpInv => OwnAnswerOnce
  <2> SUFFICES ASSUME HttpInv PROVE OwnAnswerOnce
    OBVIOUS
  <2>1. \A r \in Number : handled[r] <= 1
    BY DEF HttpInv, SentInv
  <2> QED BY <2>1, BodyShape DEF OwnAnswerOnce
<1> QED BY <1>1, HttpInvariant, PTL
=============================================================================
