------------------------------- MODULE Tracker -------------------------------
(***************************************************************************)
(* Issues (and discussions), pull requests and incidents.  Each is a blob  *)
(* with a head, a state and a list of events, named by a ref with its      *)
(* number.  Every clone and the server keep such refs; commands rewrite    *)
(* the clone's, gyt push offers all of them to the server, gyt fetch       *)
(* mirrors the server's over the clone's.                                  *)
(*                                                                         *)
(* The three kinds share this life cycle and differ in their states; kind  *)
(* says which one a behaviour is about.  What an event carries besides its *)
(* effect on the state (a comment, labels, assignees, a severity, a field, *)
(* the result of a CI run) is left out: such an event is a note.  A        *)
(* command runs under the clone's refs.lock (see FileLock), so it is one   *)
(* step; pr merge, pr ci-run, push and fetch are several.                  *)
(***************************************************************************)
EXTENDS Naturals, Sequences

CONSTANTS Clone,       \* the repositories that work with the server
          Number,      \* the numbers an item may get, 1 the first
          Setups,      \* the values of kind and steady to consider
          MaxEvents,   \* EVENTS_MAX
          MaxTs,       \* TS_MAX
          MaxCommands, \* bounds the commands that write an item
          MaxSyncs,    \* bounds the pushes and fetches
          None

VARIABLES kind,      \* issue, pr or incident; never changes
          steady,    \* clocks only move forward; never changes
          server,    \* refs/<kind>s/<n> of the server
          items,     \* refs/<kind>s/<n> of each clone
          next,      \* meta/<kind>s_next of each clone
          job,       \* a pr merge or pr ci-run between its two reads
          sent,      \* what a push has read and not yet delivered
          fetched,   \* what a fetch has been told and not yet mirrored
          clock,     \* the clock of each clone
          commands,  \* commands so far
          syncs      \* pushes and fetches so far

vars == <<kind, steady, server, items, next, job, sent, fetched, clock, commands, syncs>>

setup == <<kind, steady>>

wire == <<sent, fetched>>

Kind == {"issue", "pr", "incident"}

ASSUME TrackerAssumption ==
    /\ Number \subseteq Nat
    /\ Setups \subseteq [kind : Kind, steady : BOOLEAN]
    /\ MaxEvents \in Nat /\ MaxTs \in Nat /\ MaxCommands \in Nat /\ MaxSyncs \in Nat

States ==
    [issue |-> {"open", "closed"},
     pr |-> {"open", "closed", "merged"},
     incident |-> {"detected", "investigating", "mitigated", "resolved"}]

State == {"open", "closed", "merged",
          "detected", "investigating", "mitigated", "resolved"}

\* What an event does: note leaves the state alone, any other op is named
\* for the state it leads to.
Op == State \cup {"note"}

Ts == 0..MaxTs

\* number, author, title and (for a pr) the two branches never change: the
\* clone that made the item and when stand for them.
Origin == [by : Clone, ts : Ts]

Event == [op : Op, by : Clone, ts : Ts]

Item == [head : Origin, state : State, events : Seq(Event)]

Refs == [Number -> Item \cup {None}]

NoRefs == [n \in Number |-> None]

Job == [op : {"merge", "ci_run"}, n : Number]

ASSUME NoneAssumption == None \notin Item \cup Job \cup Refs

\* Every item there is, in a ref or on its way between two repositories.
Copies ==
    ({server} \cup {items[c] : c \in Clone} \cup {sent[c] : c \in Clone}
        \cup {fetched[c] : c \in Clone}) \ {None}

Everywhere == {r[n] : r \in Copies, n \in Number} \ {None}

TypeOK ==
    /\ [kind |-> kind, steady |-> steady] \in Setups
    /\ server \in Refs
    /\ items \in [Clone -> Refs]
    /\ next \in [Clone -> Nat]
    /\ job \in [Clone -> Job \cup {None}]
    /\ sent \in [Clone -> Refs \cup {None}]
    /\ fetched \in [Clone -> Refs \cup {None}]
    /\ \A x \in Everywhere : x.state \in States[kind]
    /\ clock \in [Clone -> Ts]
    /\ commands \in 0..MaxCommands /\ syncs \in 0..MaxSyncs

Init ==
    /\ \E s \in Setups : kind = s.kind /\ steady = s.steady
    /\ server = NoRefs
    /\ items = [c \in Clone |-> NoRefs]
    /\ next = [c \in Clone |-> 1]
    /\ job = [c \in Clone |-> None]
    /\ sent = [c \in Clone |-> None]
    /\ fetched = [c \in Clone |-> None]
    /\ clock = [c \in Clone |-> 0]
    /\ commands = 0 /\ syncs = 0

(***************************************************************************)
(* Commands                                                                *)
(***************************************************************************)

\* A fetch holds refs.lock until it has mirrored what it was told.
Lock(c) ==
    /\ fetched[c] = None
    /\ commands < MaxCommands
    /\ commands' = commands + 1

FirstState == IF kind = "incident" THEN "detected" ELSE "open"

NewEvent(c, op) == [op |-> op, by |-> c, ts |-> clock[c]]

Fresh(c) ==
    [head |-> [by |-> c, ts |-> clock[c]], state |-> FirstState,
     events |-> <<NewEvent(c, FirstState)>>]

Updated(c, x, state, op) ==
    [x EXCEPT !.state = state, !.events = Append(@, NewEvent(c, op))]

\* next_number_locked takes the clone's own counter, and write_locked puts
\* the blob there whatever the ref held.  When validate refuses the item, or
\* the process is killed, the number is used up.
New(c) ==
    /\ Lock(c)
    /\ next[c] \in Number
    /\ next' = [next EXCEPT ![c] = @ + 1]
    /\ \/ items' = [items EXCEPT ![c][next[c]] = Fresh(c)]
       \/ UNCHANGED items
    /\ UNCHANGED <<setup, server, job, wire, clock, syncs>>

NewIssue(c) == kind = "issue" /\ New(c)

NewPr(c) == kind = "pr" /\ New(c)

NewIncident(c) == kind = "incident" /\ New(c)

\* write_locked: validate refuses an item with too many events.
Write(c, n, state, op) ==
    /\ Len(items[c][n].events) < MaxEvents
    /\ items' = [items EXCEPT ![c][n] = Updated(c, @, state, op)]

\* A command that reads an item in a state of S and appends an event.
Record(c, n, S, state, op) ==
    /\ Lock(c)
    /\ items[c][n] # None
    /\ items[c][n].state \in S
    /\ Write(c, n, state, op)
    /\ UNCHANGED <<setup, server, next, job, wire, clock, syncs>>

\* comment, in whatever state the item is.
Note(c, n) == \E s \in State : Record(c, n, {s}, s, "note")

\* label and assign; for an incident also severity and field set.
NoteIssue(c, n) == kind = "issue" /\ Note(c, n)

NotePr(c, n) == kind = "pr" /\ Note(c, n)

NoteIncident(c, n) == kind = "incident" /\ Note(c, n)

CloseIssue(c, n) == kind = "issue" /\ Record(c, n, State \ {"closed"}, "closed", "closed")

ReopenIssue(c, n) == kind = "issue" /\ Record(c, n, State \ {"open"}, "open", "open")

\* Mutant: close does not look for merged.
ClosePr_Merged(c, n) == kind = "pr" /\ Record(c, n, State \ {"closed"}, "closed", "closed")

ClosePr(c, n) == kind = "pr" /\ Record(c, n, State \ {"closed", "merged"}, "closed", "closed")

ReopenPr(c, n) == kind = "pr" /\ Record(c, n, State \ {"open", "merged"}, "open", "open")

is_allowed_transition(old, new) ==
    new \in CASE old = "detected" -> {"investigating", "mitigated", "resolved"}
              [] old = "investigating" -> {"detected", "mitigated", "resolved"}
              [] old = "mitigated" -> {"investigating", "resolved"}
              [] old = "resolved" -> {"investigating"}

Transition(c, n, target) ==
    /\ kind = "incident"
    /\ Record(c, n, {s \in States.incident \ {target} : is_allowed_transition(s, target)},
              target, target)

Investigate(c, n) == Transition(c, n, "investigating")

Mitigate(c, n) == Transition(c, n, "mitigated")

Resolve(c, n) == Transition(c, n, "resolved")

ReopenIncident(c, n) == Transition(c, n, "investigating")

(***************************************************************************)
(* pr merge and pr ci-run: the item is read, the branches are merged or    *)
(* the scripts run without the lock, the item is read again and written    *)
(***************************************************************************)

Begin(c, n, S, op) ==
    /\ kind = "pr"
    /\ job[c] = None
    /\ items[c][n] # None
    /\ items[c][n].state \in S
    /\ job' = [job EXCEPT ![c] = [op |-> op, n |-> n]]
    /\ UNCHANGED <<setup, server, items, next, wire, clock, commands, syncs>>

BeginMerge(c, n) == Begin(c, n, {"open"}, "merge")

BeginCiRun(c, n) == Begin(c, n, State \ {"closed"}, "ci_run")

\* The item is read once more, and written whatever state it is in now.
Finish(c, op, state, event) ==
    /\ job[c] # None
    /\ job[c].op = op
    /\ Lock(c)
    /\ items[c][job[c].n] # None
    /\ Write(c, job[c].n, state, event)
    /\ job' = [job EXCEPT ![c] = None]
    /\ UNCHANGED <<setup, server, next, wire, clock, syncs>>

\* Mutant: the event is recorded, the state only of a pr that is still open.
FinishMerge_IfOpen(c) ==
    \E s \in State :
        /\ job[c] # None /\ items[c][job[c].n].state = s
        /\ Finish(c, "merge", IF s = "open" THEN "merged" ELSE s, "merged")

FinishMerge(c) == Finish(c, "merge", "merged", "merged")

FinishCiRun(c) ==
    \E s \in State :
        /\ job[c] # None /\ items[c][job[c].n].state = s
        /\ Finish(c, "ci_run", s, "note")

\* The merge conflicts, the CI slot is refused, or the process is killed.
DropJob(c) ==
    /\ job[c] # None
    /\ job' = [job EXCEPT ![c] = None]
    /\ UNCHANGED <<setup, server, items, next, wire, clock, commands, syncs>>

(***************************************************************************)
(* gyt push, which takes no lock, and the server's gate                    *)
(***************************************************************************)

Ordered(events) == \A i \in 1..Len(events) - 1 : events[i].ts <= events[i + 1].ts

Begins(s, t) ==
    /\ Len(s) <= Len(t)
    /\ \A i \in 1..Len(s) : t[i] = s[i]

\* Mutant: only an open pull request becomes merged.
PrStateAllowed_OpenOnly(old, new) ==
    /\ old.state = "merged" => new.state = "merged"
    /\ old.state = "closed" => new.state # "merged"

\* Nothing leaves merged, and merged needs a new merge event.
PrStateAllowed(old, new) ==
    /\ old.state = "merged" => new.state = "merged"
    /\ old.state # "merged" /\ new.state = "merged" =>
         \E i \in Len(old.events) + 1..Len(new.events) : new.events[i].op = "merged"

IncidentStateAllowed(old, new) ==
    old.state # new.state => is_allowed_transition(old.state, new.state)

\* The state of an issue may change freely.
StateAllowed(old, new) ==
    /\ kind = "pr" => PrStateAllowed(old, new)
    /\ kind = "incident" => IncidentStateAllowed(old, new)

\* Mutants: events are only counted; their times are not compared.
validate_extends_Count(old, new) ==
    /\ new.head = old.head
    /\ Len(old.events) <= Len(new.events)
    /\ Ordered(new.events)
    /\ StateAllowed(old, new)

validate_extends_NoTs(old, new) ==
    /\ new.head = old.head
    /\ Begins(old.events, new.events)
    /\ StateAllowed(old, new)

validate_extends(old, new) ==
    /\ new.head = old.head
    /\ Begins(old.events, new.events)
    /\ Ordered(new.events)
    /\ StateAllowed(old, new)

\* enforce_metadata_monotonic: a ref the server has not is taken as it is.
Extends(n, item) == server[n] # None => validate_extends(server[n], item)

\* evaluate_with_mode: one refused update refuses them all.
Accepts(refs) == \A n \in Number : refs[n] # None => Extends(n, refs[n])

Sync == syncs < MaxSyncs /\ syncs' = syncs + 1

\* The listing reads one ref after the other; what is said below of several
\* numbers is said of each of them.
PushSend(c) ==
    /\ sent[c] = None
    /\ Sync
    /\ sent' = [sent EXCEPT ![c] = items[c]]
    /\ UNCHANGED <<setup, server, items, next, job, fetched, clock, commands>>

\* The clone does nothing with the answer.  Writes of the server that fail
\* half-way are in WireRefs.
PushDeliver(c) ==
    /\ sent[c] # None
    /\ server' = IF Accepts(sent[c])
                 THEN [n \in Number |-> IF sent[c][n] # None THEN sent[c][n] ELSE server[n]]
                 ELSE server
    /\ sent' = [sent EXCEPT ![c] = None]
    /\ UNCHANGED <<setup, items, next, job, fetched, clock, commands, syncs>>

PushLost(c) ==
    /\ sent[c] # None
    /\ sent' = [sent EXCEPT ![c] = None]
    /\ UNCHANGED <<setup, server, items, next, job, fetched, clock, commands, syncs>>

(***************************************************************************)
(* gyt fetch, under the clone's refs.lock                                  *)
(***************************************************************************)

FetchList(c) ==
    /\ fetched[c] = None
    /\ Sync
    /\ fetched' = [fetched EXCEPT ![c] = server]
    /\ UNCHANGED <<setup, server, items, next, job, sent, clock, commands>>

\* The listed refs are written over the clone's, all of them or, when an
\* object or a write fails or the process is killed, some.
FetchMirror(c, S) ==
    /\ fetched[c] # None
    /\ items' = [items EXCEPT ![c] =
           [n \in Number |-> IF n \in S /\ fetched[c][n] # None THEN fetched[c][n] ELSE @[n]]]
    /\ fetched' = [fetched EXCEPT ![c] = None]
    /\ UNCHANGED <<setup, server, next, job, sent, clock, commands, syncs>>

(***************************************************************************)
(* Clocks                                                                  *)
(***************************************************************************)

Tick(c) ==
    /\ clock[c] < MaxTs
    /\ clock' = [clock EXCEPT ![c] = @ + 1]
    /\ UNCHANGED <<setup, server, items, next, job, wire, commands, syncs>>

SetBack(c) ==
    /\ ~steady
    /\ clock[c] > 0
    /\ clock' = [clock EXCEPT ![c] = @ - 1]
    /\ UNCHANGED <<setup, server, items, next, job, wire, commands, syncs>>

Command(c) ==
    \/ NewIssue(c) \/ NewPr(c) \/ NewIncident(c)
    \/ FinishMerge(c) \/ FinishCiRun(c)
    \/ \E n \in Number :
          \/ NoteIssue(c, n) \/ NotePr(c, n) \/ NoteIncident(c, n)
          \/ CloseIssue(c, n) \/ ReopenIssue(c, n)
          \/ ClosePr(c, n) \/ ReopenPr(c, n)
          \/ Investigate(c, n) \/ Mitigate(c, n) \/ Resolve(c, n) \/ ReopenIncident(c, n)

BeginJob(c) == \E n \in Number : BeginMerge(c, n) \/ BeginCiRun(c, n)

Next ==
    \E c \in Clone :
        \/ Command(c)
        \/ BeginJob(c) \/ DropJob(c)
        \/ PushSend(c) \/ PushDeliver(c) \/ PushLost(c)
        \/ FetchList(c)
        \/ \E S \in SUBSET Number : FetchMirror(c, S)
        \/ Tick(c) \/ SetBack(c)

Spec == Init /\ [][Next]_vars

(***************************************************************************)
(* Properties                                                              *)
(***************************************************************************)

Log == INSTANCE AppendLog WITH log <- server

\* The server's items are append-only logs, whatever clones that diverged
\* push in whatever order (validate_extends).
LogSpec == Log!Spec

\* Item x shows the state that its last event other than a note led to.
Follows(x) ==
    \E i \in 1..Len(x.events) :
        /\ x.events[i].op = x.state
        /\ \A j \in i + 1..Len(x.events) : x.events[j].op = "note"

\* The state an item shows is the one its log leads to, in every repository
\* and under way, whichever commands ran between the two reads of a merge.
StateFollowsLog == \A x \in Everywhere : Follows(x)

\* After a merge nothing closes or reopens item x.
Final(x) ==
    \A i, j \in 1..Len(x.events) :
        i < j /\ x.events[i].op = "merged" => x.events[j].op \in {"merged", "note"}

\* A pull request that was merged is never closed or reopened afterwards,
\* whatever cmd_merge overtook and whatever was fetched.
MergedIsFinal == \A x \in Everywhere : Final(x)

\* As long as no clock is set back, the times along every log of the server
\* are in order, however far apart the clones' clocks are.
ServerOrdered ==
    steady => \A n \in Number : server[n] # None => Ordered(server[n].events)

\* The clock of c is not behind the events it would append to.
NotBehind(c) ==
    \A n \in Number : server[n] # None => server[n].events[Len(server[n].events)].ts <= clock[c]

\* The rules of the commands are not laxer than those of the server: what a
\* clone that had everything does to an item it may push, also when a pr
\* merge overtakes a close, as long as no clock is set back, its own is not
\* behind, no fetch is under way and no new item takes a number in use.
OneCommandPushes ==
    [][\A c \in Clone :
          /\ steady /\ items[c] = server /\ fetched[c] = None /\ NotBehind(c)
          /\ server' = server /\ next'[c] = next[c]
          => Accepts(items[c])']_vars

\* README.md:38: numbers are allocated so that issues and discussions "get
\* globally unique numbers in the repo": a new item never takes the number
\* of one that the repository has.
NumbersUnique ==
    [][\A c \in Clone : next'[c] # next[c] => items[c][next[c]] = None]_vars

=============================================================================
