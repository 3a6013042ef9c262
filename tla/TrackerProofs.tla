---------------------------- MODULE TrackerProofs ----------------------------
(***************************************************************************)
(* Theorems about Tracker.                                                 *)
(***************************************************************************)
EXTENDS Tracker, TLAPS

(* What a step may put into a repository or on the wire                    *)

\* A command leaves the state and adds a note, or adds the event that leads
\* to the new state; it never takes an item out of merged and keeps to the
\* table of transitions.
Legit(x, state, op) ==
    /\ state \in States[kind]
    /\ \/ op = "note" /\ state = x.state
       \/ op = state /\ (x.state = "merged" => state = "merged")
    /\ kind = "incident" /\ state # x.state => is_allowed_transition(x.state, state)

\* y is what a command of clone c on number n may make of the item there.
Changed(y, c, n) ==
    /\ items[c][n] # None
    /\ \E state \in State, op \in Op :
          Legit(items[c][n], state, op) /\ y = Updated(c, items[c][n], state, op)

\* y is what a command of clone c may leave at number n.
Outcome(y, c, n) == y = Fresh(c) \/ Changed(y, c, n)

\* Types of the parts without the bounds.
Shape ==
    /\ kind \in Kind
    /\ server \in Refs
    /\ items \in [Clone -> Refs]
    /\ next \in [Clone -> Nat]
    /\ sent \in [Clone -> Refs \cup {None}]
    /\ fetched \in [Clone -> Refs \cup {None}]
    /\ clock \in [Clone -> Ts]
    /\ job \in [Clone -> Job \cup {None}]
    /\ \A c \in Clone : job[c] # None => kind = "pr"
    /\ \A x \in Everywhere : x.state \in States[kind]

\* A log with one more event.
LEMMA AppendFacts ==
    ASSUME NEW s \in Seq(Event), NEW e
    PROVE  /\ Len(s) \in Nat /\ Len(Append(s, e)) = Len(s) + 1
           /\ Append(s, e)[Len(s) + 1] = e
           /\ \A i \in 1..Len(s) : Append(s, e)[i] = s[i]
  OBVIOUS

\* The items of a clone are among those of Everywhere.
LEMMA ItemIsSomewhere ==
    ASSUME Shape, NEW c \in Clone, NEW n \in Number, items[c][n] # None
    PROVE  items[c][n] \in Everywhere /\ items[c][n] \in Item
<1>1. items[c] \in Refs /\ items[c] # None
  BY NoneAssumption DEF Shape
<1>2. items[c] \in Copies
  BY <1>1 DEF Copies
<1> QED
  BY <1>1, <1>2 DEF Everywhere, Refs

\* A command changes at most one item of its clone, to an outcome.
LEMMA CommandStep ==
    ASSUME Shape, NEW c \in Clone, Command(c)
    PROVE  /\ UNCHANGED <<kind, steady, server, sent, fetched, clock>>
           /\ \/ items' = items
              \/ \E n \in Number :
                   /\ Outcome(items'[c][n], c, n)
                   /\ items' = [items EXCEPT ![c][n] = items'[c][n]]
                   /\ next'[c] = next[c] => Changed(items'[c][n], c, n)
<1> DEFINE Change ==
             \E n \in Number :
                /\ Outcome(items'[c][n], c, n)
                /\ items' = [items EXCEPT ![c][n] = items'[c][n]]
                /\ next'[c] = next[c] => Changed(items'[c][n], c, n)
           Goal == /\ UNCHANGED <<kind, steady, server, sent, fetched, clock>>
                   /\ items' = items \/ Change
<1>0. items \in [Clone -> Refs] /\ items[c] \in [Number -> Item \cup {None}]
  BY DEF Shape, Refs
<1>1. ASSUME NEW n \in Number, NEW y, Outcome(y, c, n), items' = [items EXCEPT ![c][n] = y],
             next'[c] = next[c] => Changed(y, c, n)
      PROVE  Change
  <2>1. items'[c][n] = y
    BY <1>0, <1>1
  <2> QED
    BY <1>1, <2>1
<1>2. ASSUME NEW n \in Number, NEW state \in State, NEW op \in Op, items[c][n] # None,
             Legit(items[c][n], state, op), Write(c, n, state, op)
      PROVE  Change
  <2>1. items' = [items EXCEPT ![c][n] = Updated(c, items[c][n], state, op)]
    BY <1>0, <1>2 DEF Write
  <2>2. Changed(Updated(c, items[c][n], state, op), c, n)
    BY <1>2 DEF Changed
  <2> QED
    BY <1>1, <2>1, <2>2 DEF Outcome
<1>3. ASSUME New(c) PROVE Goal
  <2>1. next'[c] # next[c]
    BY <1>3 DEF New, Shape
  <2>2. items' = items \/ items' = [items EXCEPT ![c][next[c]] = Fresh(c)]
    BY <1>3 DEF New
  <2>3. next[c] \in Number /\ Outcome(Fresh(c), c, next[c])
    BY <1>3 DEF New, Outcome
  <2>4. items' = items \/ Change
    BY <1>1, <2>1, <2>2, <2>3
  <2>5. UNCHANGED <<setup, server, wire, clock>>
    BY <1>3 DEF New
  <2> QED
    BY <2>4, <2>5 DEF wire, setup
<1> HIDE DEF Change
<1>4. ASSUME NEW n \in Number, items[c][n] # None
      PROVE  items[c][n].state \in States[kind] /\ items[c][n].state \in State /\ kind \in Kind
  BY <1>4, ItemIsSomewhere DEF Shape, Item
<1>5. ASSUME NEW n \in Number, NEW S, NEW state \in State, NEW op \in Op, Record(c, n, S, state, op),
             items[c][n].state \in S => Legit(items[c][n], state, op)
      PROVE  Goal
  <2>1. items[c][n] # None /\ Legit(items[c][n], state, op) /\ Write(c, n, state, op)
    BY <1>5 DEF Record
  <2>2. UNCHANGED <<setup, server, wire, clock>>
    BY <1>5 DEF Record
  <2> QED
    BY <1>2, <2>1, <2>2 DEF wire, setup
<1>6. ASSUME NEW n \in Number, Note(c, n) PROVE Goal
  <2>1. PICK s \in State : Record(c, n, {s}, s, "note")
    BY <1>6 DEF Note
  <2>2. items[c][n].state \in {s} => Legit(items[c][n], s, "note")
    BY <1>4, <2>1 DEF Legit, Record
  <2>3. "note" \in Op
    BY DEF Op
  <2> QED
    BY <1>5, <2>1, <2>2, <2>3
<1>7. ASSUME NEW n \in Number, CloseIssue(c, n) \/ ClosePr(c, n) PROVE Goal
  <2>1. PICK S \in {State \ {"closed"}, State \ {"closed", "merged"}} :
           /\ kind \in {"issue", "pr"} /\ Record(c, n, S, "closed", "closed")
           /\ items[c][n].state # "merged"
    BY <1>4, <1>7 DEF CloseIssue, ClosePr, Record, States
  <2>2. Legit(items[c][n], "closed", "closed") /\ "closed" \in Op \cap State
    BY <2>1 DEF Legit, Op, State, States
  <2> QED
    BY <1>5, <2>1, <2>2
<1>8. ASSUME NEW n \in Number, ReopenIssue(c, n) \/ ReopenPr(c, n) PROVE Goal
  <2>1. PICK S \in {State \ {"open"}, State \ {"open", "merged"}} :
           /\ kind \in {"issue", "pr"} /\ Record(c, n, S, "open", "open")
           /\ items[c][n].state # "merged"
    BY <1>4, <1>8 DEF ReopenIssue, ReopenPr, Record, States
  <2>2. Legit(items[c][n], "open", "open") /\ "open" \in Op \cap State
    BY <2>1 DEF Legit, Op, State, States
  <2> QED
    BY <1>5, <2>1, <2>2
<1>9. ASSUME NEW n \in Number, NEW t \in {"investigating", "mitigated", "resolved"},
             Transition(c, n, t)
      PROVE  Goal
  <2> DEFINE S == {s \in States.incident \ {t} : is_allowed_transition(s, t)}
  <2>1. kind = "incident" /\ Record(c, n, S, t, t)
    BY <1>9 DEF Transition
  <2>2. items[c][n].state \in S => Legit(items[c][n], t, t)
    BY <2>1 DEF Legit, States
  <2>3. t \in Op \cap State
    BY DEF Op, State
  <2> HIDE DEF S
  <2> QED
    BY <1>5, <2>1, <2>2, <2>3
<1>10. ASSUME FinishMerge(c) \/ FinishCiRun(c) PROVE Goal
  <2>1. PICK op \in {"merge", "ci_run"}, state \in State, event \in {"merged", "note"} :
          /\ Finish(c, op, state, event)
          /\ \/ state = "merged" /\ event = "merged"
             \/ state = items[c][job[c].n].state /\ event = "note"
    BY <1>10 DEF FinishMerge, FinishCiRun, State
  <2> DEFINE n == job[c].n
  <2>2. n \in Number /\ kind = "pr" /\ items[c][n] # None
    BY <2>1 DEF Finish, Shape, Job
  <2>3. Write(c, n, state, event) /\ UNCHANGED <<setup, server, wire, clock>>
    BY <2>1 DEF Finish
  <2>4. event \in Op
    BY DEF Op, State
  <2>5. Legit(items[c][n], state, event)
    BY <1>4, <2>1, <2>2 DEF Legit, States
  <2> HIDE DEF n
  <2>6. Change
    BY <1>2, <2>2, <2>3, <2>4, <2>5
  <2> QED
    BY <2>3, <2>6 DEF wire, setup
<1>11. ASSUME NewIssue(c) \/ NewPr(c) \/ NewIncident(c) PROVE New(c)
  BY <1>11 DEF NewIssue, NewPr, NewIncident
<1>12. ASSUME NEW n \in Number, Investigate(c, n) \/ Mitigate(c, n) \/ Resolve(c, n) \/ ReopenIncident(c, n)
       PROVE  Goal
  BY <1>9, <1>12 DEF Investigate, Mitigate, Resolve, ReopenIncident
<1>13. Goal
  BY <1>3, <1>6, <1>7, <1>8, <1>10, <1>11, <1>12 DEF Command, NoteIssue, NotePr, NoteIncident
<1> QED
  BY <1>13 DEF Change

\* Every item after a step was there before or is an outcome of a command:
\* push and fetch only copy.
LEMMA Sources ==
    ASSUME Shape, [Next]_vars, NEW x \in Everywhere'
    PROVE  x \in Everywhere \/ \E c \in Clone, n \in Number : Outcome(x, c, n)
<1> DEFINE Old(y) == \/ y = None
                     \/ y \in Everywhere
                     \/ \E c \in Clone, n \in Number : Outcome(y, c, n)
           OldRefs(r) == r = None \/ \A n \in Number : Old(r[n])
           Goal == /\ OldRefs(server')
                   /\ \A c \in Clone : /\ OldRefs(items'[c])
                                       /\ OldRefs(sent'[c])
                                       /\ OldRefs(fetched'[c])
<1>1. SUFFICES Goal
  <2>1. x # None /\ \E r \in Copies', n \in Number : x = r[n]
    BY DEF Everywhere
  <2>2. PICK r \in Copies', n \in Number : x = r[n]
    BY <2>1
  <2>3. r # None /\ (r = server' \/ \E c \in Clone : r = items'[c] \/ r = sent'[c] \/ r = fetched'[c])
    BY <2>2 DEF Copies
  <2>4. OldRefs(r)
    BY <1>1, <2>3
  <2> QED
    BY <2>1, <2>2, <2>3, <2>4
<1>2. ASSUME NEW r \in Copies PROVE OldRefs(r)
  BY <1>2 DEF Everywhere
<1>3. /\ OldRefs(server)
      /\ \A c \in Clone : OldRefs(items[c]) /\ OldRefs(sent[c]) /\ OldRefs(fetched[c])
  <2>1. \A r : r = None \/ r \in Copies => OldRefs(r)
    BY <1>2
  <2>2. /\ server = None \/ server \in Copies
        /\ \A c \in Clone : /\ items[c] = None \/ items[c] \in Copies
                            /\ sent[c] = None \/ sent[c] \in Copies
                            /\ fetched[c] = None \/ fetched[c] \in Copies
    BY DEF Copies
  <2> HIDE DEF OldRefs
  <2> QED
    BY <2>1, <2>2
<1>4. /\ server \in Refs /\ items \in [Clone -> Refs]
      /\ sent \in [Clone -> Refs \cup {None}] /\ fetched \in [Clone -> Refs \cup {None}]
      /\ None \notin Refs
  BY NoneAssumption DEF Shape
<1>5. ASSUME UNCHANGED <<server, items, sent, fetched>> PROVE Goal
  <2> HIDE DEF OldRefs
  <2> QED
    BY <1>3, <1>5
<1>6. ASSUME NEW c \in Clone, Command(c) PROVE Goal
  <2>1. UNCHANGED <<server, sent, fetched>>
    BY <1>6, CommandStep
  <2>2. CASE items' = items
    BY <1>5, <2>1, <2>2
  <2>3. ASSUME NEW n \in Number, Outcome(items'[c][n], c, n),
               items' = [items EXCEPT ![c][n] = items'[c][n]]
        PROVE  \A d \in Clone : OldRefs(items'[d])
    <3>1. \A d \in Clone : d # c => items'[d] = items[d]
      BY <1>4, <2>3
    <3>2. \A m \in Number : m # n => items'[c][m] = items[c][m]
      BY <1>4, <2>3 DEF Refs
    <3>3. OldRefs(items'[c])
      BY <1>3, <1>4, <2>3, <3>2
    <3> HIDE DEF OldRefs
    <3> QED
      BY <1>3, <3>1, <3>3
  <2> HIDE DEF OldRefs
  <2> QED
    BY <1>3, <1>6, <2>1, <2>2, <2>3, CommandStep
<1>7. ASSUME NEW c \in Clone, PushSend(c) PROVE Goal
  <2>1. UNCHANGED <<server, items, fetched>> /\ sent' = [sent EXCEPT ![c] = items[c]]
    BY <1>7 DEF PushSend
  <2>2. \A d \in Clone : sent'[d] \in {sent[d], items[d]}
    BY <1>4, <2>1
  <2> HIDE DEF OldRefs
  <2> QED
    BY <1>3, <2>1, <2>2
<1>8. ASSUME NEW c \in Clone, PushDeliver(c) \/ PushLost(c) PROVE Goal
  <2>1. UNCHANGED <<items, fetched>> /\ sent' = [sent EXCEPT ![c] = None] /\ sent[c] # None
    BY <1>8 DEF PushDeliver, PushLost, wire
  <2>2. \A d \in Clone : sent'[d] \in {sent[d], None}
    BY <1>4, <2>1
  <2>3. server' = server \/ \A n \in Number : server'[n] \in {server[n], sent[c][n]}
    BY <1>8 DEF PushDeliver, PushLost
  <2>4. OldRefs(server')
    BY <1>3, <1>4, <2>1, <2>3
  <2>5. OldRefs(None)
    OBVIOUS
  <2> HIDE DEF OldRefs
  <2> QED
    BY <1>3, <2>1, <2>2, <2>4, <2>5
<1>9. ASSUME NEW c \in Clone, FetchList(c) PROVE Goal
  <2>1. UNCHANGED <<server, items, sent>> /\ fetched' = [fetched EXCEPT ![c] = server]
    BY <1>9 DEF FetchList
  <2>2. \A d \in Clone : fetched'[d] \in {fetched[d], server}
    BY <1>4, <2>1
  <2> HIDE DEF OldRefs
  <2> QED
    BY <1>3, <2>1, <2>2
<1>10. ASSUME NEW c \in Clone, NEW S \in SUBSET Number, FetchMirror(c, S) PROVE Goal
  <2>1. UNCHANGED <<server, sent>> /\ fetched' = [fetched EXCEPT ![c] = None] /\ fetched[c] # None
    BY <1>10 DEF FetchMirror
  <2>2. \A d \in Clone : fetched'[d] \in {fetched[d], None}
    BY <1>4, <2>1
  <2>3. \A d \in Clone : items'[d] = items[d] \/ \A n \in Number : items'[d][n] \in {items[d][n], fetched[c][n]}
    BY <1>4, <1>10 DEF FetchMirror
  <2>4. \A d \in Clone : OldRefs(items'[d])
    BY <1>3, <1>4, <2>1, <2>3
  <2>5. OldRefs(None)
    OBVIOUS
  <2> HIDE DEF OldRefs
  <2> QED
    BY <1>3, <2>1, <2>2, <2>4, <2>5
<1>11. ASSUME NEW c \in Clone,
              DropJob(c) \/ Tick(c) \/ SetBack(c) \/ BeginJob(c)
       PROVE  UNCHANGED <<server, items, sent, fetched>>
  BY <1>11 DEF DropJob, Tick, SetBack, BeginJob, BeginMerge, BeginCiRun, Begin, wire
<1>12. ASSUME UNCHANGED vars PROVE UNCHANGED <<server, items, sent, fetched>>
  BY <1>12 DEF vars
<1> HIDE DEF Goal
<1> QED
  BY <1>5, <1>6, <1>7, <1>8, <1>9, <1>10, <1>11, <1>12 DEF Next

\* What a command writes is an item in a state of its kind.
LEMMA OutcomeType ==
    ASSUME Shape, NEW c \in Clone, NEW n \in Number, NEW y, Outcome(y, c, n)
    PROVE  y \in Item /\ y.state \in States[kind]
<1>1. clock[c] \in Ts /\ kind \in Kind
  BY DEF Shape
<1>2. CASE y = Fresh(c)
  <2>1. FirstState \in States[kind] /\ FirstState \in State
    BY <1>1 DEF FirstState, States, State, Kind
  <2>2. NewEvent(c, FirstState) \in Event
    BY <1>1, <2>1 DEF NewEvent, Event, Op
  <2>3. [by |-> c, ts |-> clock[c]] \in Origin
    BY <1>1 DEF Origin
  <2> QED
    BY <1>2, <2>1, <2>2, <2>3 DEF Fresh, Item
<1>3. ASSUME NEW state \in State, NEW op \in Op, items[c][n] # None,
             Legit(items[c][n], state, op), y = Updated(c, items[c][n], state, op)
      PROVE  y \in Item /\ y.state \in States[kind]
  <2>1. items[c][n] \in Item
    BY <1>3, ItemIsSomewhere
  <2>2. NewEvent(c, op) \in Event
    BY <1>1 DEF NewEvent, Event
  <2>3. Append(items[c][n].events, NewEvent(c, op)) \in Seq(Event)
    BY <2>1, <2>2 DEF Item
  <2> QED
    BY <1>3, <2>1, <2>3 DEF Updated, Item, Legit
<1> QED
  BY <1>2, <1>3 DEF Outcome, Changed

\* Only a pull request has jobs.
JobKind == \A c \in Clone : job[c] # None => kind = "pr"

\* The type invariant gives the part of it that the lemmas above rest on.
LEMMA ShapeFromType == ASSUME TypeOK, JobKind PROVE Shape
  BY TrackerAssumption DEF TypeOK, JobKind, Shape

\* kind and steady, the choices made in Init, never change.
LEMMA SetupFixed == ASSUME Shape, [Next]_vars PROVE UNCHANGED <<kind, steady>>
<1>1. ASSUME NEW c \in Clone, Command(c) PROVE UNCHANGED <<kind, steady>>
  BY <1>1, CommandStep
<1> QED
  BY <1>1 DEF Next, BeginJob, BeginMerge, BeginCiRun, Begin, DropJob, PushSend, PushDeliver, PushLost,
              FetchList, FetchMirror, Tick, SetBack, setup, vars

\* Every step keeps the types.
LEMMA TypeStep == ASSUME TypeOK, JobKind, [Next]_vars PROVE TypeOK' /\ JobKind'
<1>1. Shape
  BY ShapeFromType
<1>2. UNCHANGED <<kind, steady>>
  BY <1>1, SetupFixed
<1>3. \A x \in Everywhere' : x.state \in States[kind]
  BY <1>1, Sources, OutcomeType DEF Shape
<1>4. /\ server \in Refs /\ items \in [Clone -> Refs] /\ next \in [Clone -> Nat]
      /\ job \in [Clone -> Job \cup {None}]
      /\ sent \in [Clone -> Refs \cup {None}] /\ fetched \in [Clone -> Refs \cup {None}]
      /\ clock \in [Clone -> Ts] /\ commands \in 0..MaxCommands /\ syncs \in 0..MaxSyncs
  BY DEF TypeOK
<1> DEFINE Parts == /\ server' \in Refs /\ items' \in [Clone -> Refs] /\ next' \in [Clone -> Nat]
                    /\ job' \in [Clone -> Job \cup {None}]
                    /\ \A c \in Clone : job'[c] # None => kind = "pr"
                    /\ sent' \in [Clone -> Refs \cup {None}] /\ fetched' \in [Clone -> Refs \cup {None}]
                    /\ clock' \in [Clone -> Ts]
                    /\ commands' \in 0..MaxCommands /\ syncs' \in 0..MaxSyncs
<1>5. SUFFICES Parts
  BY <1>2, <1>3 DEF TypeOK, JobKind
<1>6. ASSUME NEW c \in Clone, Command(c) PROVE Parts
  <2>1. UNCHANGED <<server, sent, fetched, clock>>
    BY <1>1, <1>6, CommandStep
  <2>2. items' \in [Clone -> Refs]
    <3>1. ASSUME NEW n \in Number, Outcome(items'[c][n], c, n),
                 items' = [items EXCEPT ![c][n] = items'[c][n]]
          PROVE  items' \in [Clone -> Refs]
      <4>1. items'[c][n] \in Item
        BY <1>1, <3>1, OutcomeType
      <4>2. [items[c] EXCEPT ![n] = items'[c][n]] \in Refs
        BY <1>4, <4>1 DEF Refs
      <4> QED
        BY <1>4, <3>1, <4>2
    <3> QED
      BY <1>1, <1>4, <1>6, <3>1, CommandStep
  <2>3. /\ Lock(c) /\ UNCHANGED syncs
        /\ next' = next \/ next' = [next EXCEPT ![c] = @ + 1]
        /\ job' = job \/ job' = [job EXCEPT ![c] = None]
    BY <1>6 DEF Command, NewIssue, NewPr, NewIncident, New, NoteIssue, NotePr, NoteIncident, Note, CloseIssue, ReopenIssue, ClosePr, ReopenPr,
                Investigate, Mitigate, Resolve, ReopenIncident, Transition, Record, FinishMerge, FinishCiRun, Finish
  <2>4. commands' \in 0..MaxCommands
    BY <1>4, <2>3, TrackerAssumption DEF Lock
  <2>5. next' \in [Clone -> Nat]
    BY <1>4, <2>3
  <2>6. \A d \in Clone : job'[d] \in {job[d], None}
    BY <1>4, <2>3
  <2>7. job' \in [Clone -> Job \cup {None}]
    BY <1>4, <2>3
  <2> QED
    BY <1>4, <2>1, <2>2, <2>3, <2>4, <2>5, <2>6, <2>7 DEF JobKind
<1>7. ASSUME NEW c \in Clone, BeginJob(c) PROVE Parts
  <2>1. PICK n \in Number, op \in {"merge", "ci_run"}, S \in {{"open"}, State \ {"closed"}} : Begin(c, n, S, op)
    BY <1>7 DEF BeginJob, BeginMerge, BeginCiRun
  <2>2. [op |-> op, n |-> n] \in Job
    BY DEF Job
  <2> QED
    BY <1>4, <2>1, <2>2 DEF Begin, JobKind, wire
<1>8. ASSUME NEW c \in Clone, DropJob(c) PROVE Parts
  BY <1>4, <1>8 DEF DropJob, JobKind, wire
<1>9. ASSUME NEW c \in Clone, PushSend(c) PROVE Parts
  BY <1>4, <1>9, TrackerAssumption DEF PushSend, Sync, JobKind
<1>10. ASSUME NEW c \in Clone, PushDeliver(c) \/ PushLost(c) PROVE Parts
  <2>1. server' \in Refs
    <3>1. sent[c] # None
      BY <1>10 DEF PushDeliver, PushLost
    <3>2. sent[c] \in [Number -> Item \cup {None}] /\ server \in [Number -> Item \cup {None}]
      BY <1>4, <3>1 DEF Refs
    <3> QED
      BY <1>10, <3>2 DEF PushDeliver, PushLost, Refs
  <2>2. sent' \in [Clone -> Refs \cup {None}]
    BY <1>4, <1>10 DEF PushDeliver, PushLost
  <2>3. UNCHANGED <<items, next, job, fetched, clock, commands, syncs>>
    BY <1>10 DEF PushDeliver, PushLost
  <2> QED
    BY <1>4, <2>1, <2>2, <2>3 DEF JobKind
<1>11. ASSUME NEW c \in Clone, FetchList(c) PROVE Parts
  BY <1>4, <1>11, TrackerAssumption DEF FetchList, Sync, JobKind
<1>12. ASSUME NEW c \in Clone, NEW S \in SUBSET Number, FetchMirror(c, S) PROVE Parts
  <2> DEFINE new == [n \in Number |-> IF n \in S /\ fetched[c][n] # None THEN fetched[c][n] ELSE items[c][n]]
  <2>1. new \in Refs
    <3>1. fetched[c] \in [Number -> Item \cup {None}] /\ items[c] \in [Number -> Item \cup {None}]
      BY <1>4, <1>12 DEF FetchMirror, Refs
    <3> QED
      BY <3>1 DEF Refs
  <2>2. items' = [items EXCEPT ![c] = new]
    BY <1>4, <1>12 DEF FetchMirror
  <2>3. items' \in [Clone -> Refs]
    BY <1>4, <2>1, <2>2
  <2> QED
    BY <1>4, <1>12, <2>3 DEF FetchMirror, JobKind
<1>13. ASSUME NEW c \in Clone, Tick(c) \/ SetBack(c) PROVE Parts
  <2>1. clock' \in [Clone -> Ts]
    BY <1>4, <1>13, TrackerAssumption DEF Tick, SetBack, Ts
  <2> QED
    BY <1>4, <1>13, <2>1 DEF Tick, SetBack, JobKind, wire
<1>14. CASE UNCHANGED vars
  BY <1>4, <1>14 DEF vars, JobKind
<1> HIDE DEF Parts
<1> QED
  BY <1>6, <1>7, <1>8, <1>9, <1>10, <1>11, <1>12, <1>13, <1>14 DEF Next

\* Every reachable state is well-typed: what commands, pushes and fetches
\* leave in a ref is an item in a state of its kind.
THEOREM TypeCorrect == Spec => [](TypeOK /\ JobKind)
<1>1. Init => TypeOK /\ JobKind
  <2> SUFFICES ASSUME Init PROVE TypeOK /\ JobKind
    OBVIOUS
  <2>1. NoRefs \in Refs
    BY DEF NoRefs, Refs
  <2>2. Everywhere = {}
    BY DEF Init, Everywhere, Copies, NoRefs
  <2>3. [kind |-> kind, steady |-> steady] \in Setups
    BY TrackerAssumption DEF Init
  <2> QED
    BY <2>1, <2>2, <2>3, TrackerAssumption DEF Init, TypeOK, JobKind, Ts
<1> QED
  BY <1>1, TypeStep, PTL DEF Spec

-----------------------------------------------------------------------------
(* The state of an item and its log                                        *)

\* An outcome of a command on an item that agrees with its log agrees with
\* its own.
LEMMA OutcomeAgrees ==
    ASSUME Shape, NEW c \in Clone, NEW n \in Number, NEW y, Outcome(y, c, n),
           items[c][n] # None => Follows(items[c][n]) /\ Final(items[c][n])
    PROVE  Follows(y) /\ Final(y)
<1>1. CASE y = Fresh(c)
  <2>1. y.events = <<NewEvent(c, FirstState)>> /\ y.state = FirstState
    BY <1>1 DEF Fresh
  <2>2. Len(y.events) = 1 /\ y.events[1].op = FirstState
    BY <2>1 DEF NewEvent
  <2> QED
    BY <2>1, <2>2 DEF Follows, Final
<1>2. ASSUME NEW state \in State, NEW op \in Op, items[c][n] # None,
             Legit(items[c][n], state, op), y = Updated(c, items[c][n], state, op)
      PROVE  Follows(y) /\ Final(y)
  <2> DEFINE x == items[c][n]
             L == Len(x.events)
  <2>1. x \in Item /\ x.state \in States[kind] /\ Follows(x) /\ Final(x)
    BY <1>2, ItemIsSomewhere DEF Shape
  <2>2. x.events \in Seq(Event) /\ L \in Nat
    BY <2>1 DEF Item
  <2>3. y.state = state /\ y.events = Append(x.events, NewEvent(c, op))
    BY <1>2, <2>1 DEF Updated, Item
  <2>4. /\ Len(y.events) = L + 1
        /\ \A i \in 1..L : y.events[i] = x.events[i]
        /\ y.events[L + 1].op = op
    <3>1. NewEvent(c, op).op = op
      BY DEF NewEvent
    <3> HIDE DEF x
    <3>2. /\ Len(y.events) = Len(x.events) + 1
          /\ y.events[Len(x.events) + 1] = NewEvent(c, op)
          /\ \A i \in 1..Len(x.events) : y.events[i] = x.events[i]
      BY <2>2, <2>3, AppendFacts
    <3> QED
      BY <3>1, <3>2
  <2>5. state # "note" /\ x.state # "note"
    BY <1>2, <2>1 DEF Legit, States, Kind, Shape
  <2>6. PICK k \in 1..L : x.events[k].op = x.state /\ \A j \in k + 1..L : x.events[j].op = "note"
    BY <2>1 DEF Follows
  <2> HIDE DEF x, L
  <2>7. Follows(y)
    <3>1. CASE op = "note"
      <4>1. state = x.state
        BY <1>2, <2>5, <3>1 DEF Legit, x
      <4>2. k \in 1..Len(y.events) /\ y.events[k].op = y.state
        BY <2>2, <2>3, <2>4, <2>6, <4>1
      <4>3. \A j \in k + 1..Len(y.events) : y.events[j].op = "note"
        BY <2>2, <2>4, <2>6, <3>1
      <4> QED
        BY <4>2, <4>3 DEF Follows
    <3>2. CASE op # "note"
      <4>1. op = state
        BY <1>2, <3>2 DEF Legit, x
      <4>2. L + 1 \in 1..Len(y.events) /\ y.events[L + 1].op = y.state
        BY <2>2, <2>3, <2>4, <4>1
      <4>3. \A j \in (L + 1) + 1..Len(y.events) : y.events[j].op = "note"
        BY <2>2, <2>4
      <4> QED
        BY <4>2, <4>3 DEF Follows
    <3> QED
      BY <3>1, <3>2
  <2>8. ASSUME NEW i \in 1..L, x.events[i].op = "merged" PROVE op \in {"merged", "note"}
    <3>1. i <= k
      BY <2>2, <2>6, <2>8
    <3>2. x.state = "merged"
      BY <2>1, <2>2, <2>5, <2>6, <2>8, <3>1 DEF Final, L
    <3> QED
      BY <1>2, <3>2 DEF Legit, x
  <2>9. Final(y)
    <3> SUFFICES ASSUME NEW i \in 1..L + 1, NEW j \in 1..L + 1, i < j, y.events[i].op = "merged"
                 PROVE  y.events[j].op \in {"merged", "note"}
      BY <2>4 DEF Final
    <3>1. i \in 1..L /\ x.events[i].op = "merged"
      BY <2>2, <2>4
    <3>2. CASE j = L + 1
      BY <2>4, <2>8, <3>1, <3>2
    <3>3. CASE j \in 1..L
      BY <2>1, <2>4, <3>1, <3>3 DEF Final, L
    <3> QED
      BY <2>2, <3>2, <3>3
  <2> QED
    BY <2>7, <2>9
<1> QED
  BY <1>1, <1>2 DEF Outcome, Changed

\* In every repository and on every wire an item shows the state its log
\* leads to, and nothing follows a merge but notes and merges: the second
\* read of pr merge and ci-run, and fetches in between, included.
THEOREM ItemsAgree == Spec => [](StateFollowsLog /\ MergedIsFinal)
<1>1. Init => StateFollowsLog /\ MergedIsFinal
  <2>1. Init => Everywhere = {}
    BY DEF Init, Everywhere, Copies, NoRefs
  <2> QED
    BY <2>1 DEF StateFollowsLog, MergedIsFinal
<1>2. ASSUME TypeOK, JobKind, StateFollowsLog, MergedIsFinal, [Next]_vars
      PROVE  StateFollowsLog' /\ MergedIsFinal'
  <2>1. Shape
    BY <1>2, ShapeFromType
  <2>2. \A c \in Clone, n \in Number : items[c][n] # None => Follows(items[c][n]) /\ Final(items[c][n])
    BY <1>2, <2>1, ItemIsSomewhere DEF StateFollowsLog, MergedIsFinal
  <2>3. ASSUME NEW x \in Everywhere' PROVE Follows(x) /\ Final(x)
    BY <1>2, <2>1, <2>2, <2>3, Sources, OutcomeAgrees DEF StateFollowsLog, MergedIsFinal
  <2> QED
    BY <2>3 DEF StateFollowsLog, MergedIsFinal
<1> QED
  BY <1>1, <1>2, TypeCorrect, PTL DEF Spec

\* A merged pull request is never closed or reopened, in any repository and
\* on any wire: cmd_merge, cmd_close and cmd_reopen on clones that lag behind
\* each other included.
THEOREM MergeIsFinal == Spec => []MergedIsFinal
BY ItemsAgree, PTL

-----------------------------------------------------------------------------
(* The server's logs                                                       *)

\* The server implements AppendLog: whichever clones push what and when, no
\* item disappears, no head changes and no event is lost.
THEOREM ServerIsAppendLog == Spec => LogSpec
<1>1. Init => Log!Init
  BY DEF Init, Log!Init, NoRefs, Log!Empty
<1>2. ASSUME TypeOK, JobKind, [Next]_vars PROVE [Log!Grow]_server
  <2>1. ASSUME NEW c \in Clone, PushDeliver(c) PROVE [Log!Grow]_server
    <3>1. CASE ~Accepts(sent[c])
      BY <2>1, <3>1 DEF PushDeliver
    <3>2. CASE Accepts(sent[c])
      <4> SUFFICES ASSUME NEW n \in Number, server[n] # None
                   PROVE  /\ server'[n] # None
                          /\ server'[n].head = server[n].head
                          /\ Log!Begins(server[n].events, server'[n].events)
        BY DEF Log!Grow
      <4>1. server'[n] = IF sent[c][n] # None THEN sent[c][n] ELSE server[n]
        BY <2>1, <3>2 DEF PushDeliver
      <4>2. CASE sent[c][n] # None
        BY <3>2, <4>1, <4>2 DEF Accepts, Extends, validate_extends, Begins, Log!Begins
      <4>3. CASE sent[c][n] = None
        <5>1. server'[n] = server[n] /\ server[n] \in Item
          BY <1>2, <4>1, <4>3 DEF TypeOK, Refs
        <5>2. Len(server[n].events) \in Nat
          BY <5>1 DEF Item
        <5> QED
          BY <5>1, <5>2 DEF Log!Begins
      <4> QED
        BY <4>2, <4>3
    <3> QED
      BY <3>1, <3>2
  <2>2. ASSUME NEW c \in Clone, Command(c) PROVE server' = server
    BY <1>2, <2>2, ShapeFromType, CommandStep
  <2>3. CASE UNCHANGED server
    BY <2>3
  <2> QED
    BY <1>2, <2>1, <2>2, <2>3 DEF Next, BeginJob, BeginMerge, BeginCiRun, Begin, DropJob, PushSend, PushLost, FetchList, FetchMirror,
                Tick, SetBack, vars
<1> QED
  BY <1>1, <1>2, TypeCorrect, PTL DEF Spec, LogSpec, Log!Spec

\* Item x was made by one clone, whose clock moved forward and is at t now.
Own(t, x) ==
    /\ Ordered(x.events)
    /\ \A i \in 1..Len(x.events) : x.events[i].ts <= t

\* What the server does not have has never left its clone: a fetch brings
\* only what the server has, and the server keeps what it has.  So an item
\* that the server takes without a check is ordered.
Unseen(c, n) ==
    server[n] = None =>
        /\ fetched[c] # None => fetched[c][n] = None
        /\ items[c][n] # None => Own(clock[c], items[c][n])
        /\ sent[c] # None /\ sent[c][n] # None => Own(clock[c], sent[c][n])

OrderInv ==
    /\ \A n \in Number : server[n] # None => Ordered(server[n].events)
    /\ \A c \in Clone, n \in Number : Unseen(c, n)

\* Appending an event that is no older than the last keeps a log ordered.
LEMMA AppendOrdered ==
    ASSUME NEW s \in Seq(Event), NEW e, Ordered(s), Len(s) > 0 => s[Len(s)].ts <= e.ts
    PROVE  Ordered(Append(s, e))
<1> DEFINE L == Len(s)
           t == Append(s, e)
<1>1. L \in Nat /\ Len(t) = L + 1 /\ t[L + 1] = e /\ \A i \in 1..L : t[i] = s[i]
  BY AppendFacts
<1>2. \A i \in 1..L - 1 : s[i].ts <= s[i + 1].ts
  BY DEF Ordered
<1>3. L > 0 => s[L].ts <= e.ts
  OBVIOUS
<1> HIDE DEF L, t
<1>4. ASSUME NEW i \in 1..L PROVE t[i].ts <= t[i + 1].ts
  <2>1. CASE i = L
    BY <1>1, <1>3, <2>1
  <2>2. CASE i # L
    <3>1. i \in 1..L - 1 /\ i + 1 \in 1..L
      BY <1>1, <2>2
    <3> QED
      BY <1>1, <1>2, <3>1
  <2> QED
    BY <2>1, <2>2
<1>5. Ordered(t)
  BY <1>1, <1>4 DEF Ordered
<1> QED
  BY <1>5 DEF t

\* A command keeps Own.
LEMMA OutcomeOwn ==
    ASSUME Shape, NEW c \in Clone, NEW n \in Number, NEW y, Outcome(y, c, n),
           items[c][n] # None => Own(clock[c], items[c][n])
    PROVE  Own(clock[c], y)
<1>0. clock[c] \in Nat
  BY TrackerAssumption DEF Shape, Ts
<1>1. CASE y = Fresh(c)
  <2>1. y.events = <<NewEvent(c, FirstState)>>
    BY <1>1 DEF Fresh
  <2>2. Len(y.events) = 1 /\ y.events[1].ts = clock[c]
    BY <2>1 DEF NewEvent
  <2> QED
    BY <1>0, <2>2 DEF Own, Ordered
<1>2. ASSUME NEW state \in State, NEW op \in Op, items[c][n] # None,
             y = Updated(c, items[c][n], state, op)
      PROVE  Own(clock[c], y)
  <2> DEFINE x == items[c][n]
             L == Len(x.events)
  <2>1. x \in Item /\ Own(clock[c], x)
    BY <1>2, ItemIsSomewhere
  <2>2. x.events \in Seq(Event) /\ L \in Nat
    BY <2>1 DEF Item
  <2>3. y.events = Append(x.events, NewEvent(c, op))
    BY <1>2, <2>1 DEF Updated, Item
  <2>4. /\ Len(y.events) = L + 1
        /\ \A i \in 1..L : y.events[i] = x.events[i]
        /\ y.events[L + 1].ts = clock[c]
    BY <2>2, <2>3, AppendFacts DEF NewEvent
  <2>5. \A i \in 1..L : x.events[i].ts <= clock[c]
    BY <2>1 DEF Own
  <2> HIDE DEF x, L
  <2>6. \A i \in 1..Len(y.events) : y.events[i].ts <= clock[c]
    BY <1>0, <2>2, <2>4, <2>5
  <2>8. Ordered(y.events)
    <3>1. NewEvent(c, op).ts = clock[c]
      BY DEF NewEvent
    <3>2. L > 0 => x.events[L].ts <= clock[c]
      BY <2>2, <2>5
    <3> QED
      BY <2>1, <2>2, <2>3, <3>1, <3>2, AppendOrdered DEF Own, L
  <2> QED
    BY <2>6, <2>8 DEF Own
<1> QED
  BY <1>1, <1>2 DEF Outcome, Changed

\* Every step keeps OrderInv as long as clocks move forward.
LEMMA OrderStep ==
    ASSUME TypeOK, JobKind, steady, OrderInv, [Next]_vars PROVE OrderInv'
<1>1. /\ server \in [Number -> Item \cup {None}]
      /\ items \in [Clone -> Refs] /\ \A c \in Clone : items[c] \in [Number -> Item \cup {None}]
      /\ sent \in [Clone -> Refs \cup {None}] /\ fetched \in [Clone -> Refs \cup {None}]
      /\ clock \in [Clone -> Ts]
  BY DEF TypeOK, Refs
<1>2. Shape
  BY ShapeFromType
<1>3. ASSUME NEW c \in Clone, Command(c) PROVE OrderInv'
  <2>1. UNCHANGED <<server, sent, fetched, clock>>
    BY <1>2, <1>3, CommandStep
  <2>2. ASSUME NEW d \in Clone, NEW m \in Number, server[m] = None, items'[d][m] # None
        PROVE  Own(clock[d], items'[d][m])
    <3>1. items[d][m] # None => Own(clock[d], items[d][m])
      BY <2>2 DEF OrderInv, Unseen
    <3>2. CASE items' = items
      BY <2>2, <3>1, <3>2
    <3>3. ASSUME NEW n \in Number, Outcome(items'[c][n], c, n),
                 items' = [items EXCEPT ![c][n] = items'[c][n]]
          PROVE  Own(clock[d], items'[d][m])
      <4>1. CASE d = c /\ m = n
        BY <1>2, <3>1, <3>3, <4>1, OutcomeOwn
      <4>2. CASE ~(d = c /\ m = n)
        <5>1. items'[d][m] = items[d][m]
          BY <1>1, <3>3, <4>2
        <5> QED
          BY <2>2, <3>1, <5>1
      <4> QED
        BY <4>1, <4>2
    <3> QED
      BY <1>2, <1>3, <3>2, <3>3, CommandStep
  <2>9. ASSUME NEW d \in Clone, NEW n \in Number PROVE Unseen(d, n)'
    <3>1. Unseen(d, n)
      BY DEF OrderInv
    <3> QED
      BY <2>1, <2>2, <3>1 DEF Unseen
  <2> QED
    BY <2>1, <2>9 DEF OrderInv
<1>4. ASSUME NEW c \in Clone, PushSend(c) PROVE OrderInv'
  <2>1. UNCHANGED <<server, items, fetched, clock>> /\ sent' = [sent EXCEPT ![c] = items[c]]
    BY <1>4 DEF PushSend
  <2>2. \A d \in Clone : sent'[d] = IF d = c THEN items[d] ELSE sent[d]
    BY <1>1, <2>1
  <2>9. ASSUME NEW d \in Clone, NEW n \in Number PROVE Unseen(d, n)'
    <3>1. Unseen(d, n)
      BY DEF OrderInv
    <3> QED
      BY <2>1, <2>2, <3>1 DEF Unseen
  <2> QED
    BY <2>1, <2>9 DEF OrderInv
<1>5. ASSUME NEW c \in Clone, PushDeliver(c) PROVE OrderInv'
  <2>1. UNCHANGED <<items, fetched, clock>> /\ sent[c] # None
    BY <1>5 DEF PushDeliver
  <2>2. \A d \in Clone : sent'[d] = IF d = c THEN None ELSE sent[d]
    BY <1>1, <1>5 DEF PushDeliver
  <2>3. ASSUME NEW n \in Number, server'[n] # None PROVE Ordered(server'[n].events)
    <3>1. CASE server'[n] = server[n]
      BY <2>3, <3>1 DEF OrderInv
    <3>2. CASE server'[n] # server[n]
      <4>1. Accepts(sent[c]) /\ server'[n] = sent[c][n] /\ sent[c][n] # None
        BY <1>5, <3>2 DEF PushDeliver
      <4>2. CASE server[n] = None
        BY <2>1, <4>1, <4>2 DEF OrderInv, Unseen, Own
      <4>3. CASE server[n] # None
        BY <4>1, <4>3 DEF Accepts, Extends, validate_extends
      <4> QED
        BY <4>2, <4>3
    <3> QED
      BY <3>1, <3>2
  <2>4. \A n \in Number : server'[n] = None => server[n] = None
    BY <1>1, <1>5 DEF PushDeliver
  <2> QED
    BY <2>1, <2>2, <2>3, <2>4 DEF OrderInv, Unseen
<1>6. ASSUME NEW c \in Clone, PushLost(c) PROVE OrderInv'
  <2>1. UNCHANGED <<server, items, fetched, clock>>
    BY <1>6 DEF PushLost
  <2>2. \A d \in Clone : sent'[d] = IF d = c THEN None ELSE sent[d]
    BY <1>1, <1>6 DEF PushLost
  <2>9. ASSUME NEW d \in Clone, NEW n \in Number PROVE Unseen(d, n)'
    <3>1. Unseen(d, n)
      BY DEF OrderInv
    <3> QED
      BY <2>1, <2>2, <3>1 DEF Unseen
  <2> QED
    BY <2>1, <2>9 DEF OrderInv
<1>7. ASSUME NEW c \in Clone, FetchList(c) PROVE OrderInv'
  <2>1. UNCHANGED <<server, items, sent, clock>> /\ fetched' = [fetched EXCEPT ![c] = server]
    BY <1>7 DEF FetchList
  <2>2. \A d \in Clone : fetched'[d] = IF d = c THEN server ELSE fetched[d]
    BY <1>1, <2>1
  <2>9. ASSUME NEW d \in Clone, NEW n \in Number PROVE Unseen(d, n)'
    <3>1. Unseen(d, n)
      BY DEF OrderInv
    <3> QED
      BY <2>1, <2>2, <3>1 DEF Unseen
  <2> QED
    BY <2>1, <2>9 DEF OrderInv
<1>8. ASSUME NEW c \in Clone, NEW S \in SUBSET Number, FetchMirror(c, S) PROVE OrderInv'
  <2>1. UNCHANGED <<server, sent, clock>> /\ fetched[c] # None
    BY <1>8 DEF FetchMirror
  <2>2. \A d \in Clone : fetched'[d] = IF d = c THEN None ELSE fetched[d]
    BY <1>1, <1>8 DEF FetchMirror
  <2>3. \A d \in Clone, n \in Number :
           items'[d][n] = IF d = c /\ n \in S /\ fetched[c][n] # None THEN fetched[c][n] ELSE items[d][n]
    BY <1>1, <1>8 DEF FetchMirror
  <2>9. ASSUME NEW d \in Clone, NEW n \in Number PROVE Unseen(d, n)'
    <3>1. Unseen(d, n)
      BY DEF OrderInv
    <3> QED
      BY <2>1, <2>2, <2>3, <3>1 DEF Unseen
  <2> QED
    BY <2>1, <2>9 DEF OrderInv
<1>9. ASSUME NEW c \in Clone, Tick(c) PROVE OrderInv'
  <2>1. UNCHANGED <<server, items, sent, fetched>>
    BY <1>9 DEF Tick, wire
  <2>2. \A d \in Clone : clock[d] \in Nat /\ clock'[d] \in Nat /\ clock[d] <= clock'[d]
    BY <1>1, <1>9, TrackerAssumption DEF Tick, Ts
  <2>3. ASSUME NEW d \in Clone, NEW x \in Item, Own(clock[d], x) PROVE Own(clock'[d], x)
    <3>0. \A i \in 1..Len(x.events) : x.events[i] \in Event
      <4>1. x.events \in Seq(Event)
        BY DEF Item
      <4> QED
        BY <4>1
    <3>1. \A e \in Event : e.ts \in Nat
      BY TrackerAssumption DEF Event, Ts
    <3>2. ASSUME NEW i \in 1..Len(x.events) PROVE x.events[i].ts <= clock'[d]
      <4>1. x.events[i].ts <= clock[d] /\ x.events[i].ts \in Nat
        BY <2>3, <3>0, <3>1, <3>2 DEF Own
      <4> QED
        BY <2>2, <4>1
    <3> QED
      BY <2>3, <3>2 DEF Own
  <2>4. \A d \in Clone, n \in Number : /\ items[d][n] # None => items[d][n] \in Item
                                       /\ sent[d] # None /\ sent[d][n] # None => sent[d][n] \in Item
    BY <1>1 DEF Refs
  <2> QED
    BY <2>1, <2>3, <2>4 DEF OrderInv, Unseen
<1>10. ASSUME NEW c \in Clone,
              DropJob(c) \/ BeginJob(c)
       PROVE  UNCHANGED <<server, items, sent, fetched, clock>>
  BY <1>10 DEF DropJob, BeginJob, BeginMerge, BeginCiRun, Begin, wire
<1>11. ASSUME UNCHANGED <<server, items, sent, fetched, clock>> PROVE OrderInv'
  BY <1>11 DEF OrderInv, Unseen
<1>12. ASSUME NEW c \in Clone, SetBack(c) PROVE FALSE
  BY <1>12 DEF SetBack
<1>13. ASSUME UNCHANGED vars PROVE UNCHANGED <<server, items, sent, fetched, clock>>
  BY <1>13 DEF vars
<1> QED
  BY <1>3, <1>4, <1>5, <1>6, <1>7, <1>8, <1>9, <1>10, <1>11, <1>12, <1>13 DEF Next

\* As long as no clock is set back the events of every item of the server are
\* in the order of their times, whatever the clocks of the clones show.
THEOREM ServerIsOrdered == Spec => []ServerOrdered
<1>1. Init => (steady => OrderInv)
  BY DEF Init, OrderInv, Unseen, NoRefs
<1>2. ASSUME TypeOK, JobKind, steady => OrderInv, [Next]_vars PROVE (steady => OrderInv)'
  <2>1. steady' = steady
    BY <1>2, ShapeFromType, SetupFixed
  <2> QED
    BY <1>2, <2>1, OrderStep
<1>3. (steady => OrderInv) => ServerOrdered
  BY DEF OrderInv, ServerOrdered
<1> QED
  BY <1>1, <1>2, <1>3, TypeCorrect, PTL DEF Spec

\* An item extends itself when it is ordered.
LEMMA ExtendsItself ==
    ASSUME kind \in Kind, NEW x \in Item, Ordered(x.events) PROVE validate_extends(x, x)
<1>1. Len(x.events) \in Nat
  BY DEF Item
<1>2. Begins(x.events, x.events)
  BY <1>1 DEF Begins
<1>3. StateAllowed(x, x)
  BY DEF StateAllowed, PrStateAllowed, IncidentStateAllowed, Kind
<1> QED
  BY <1>2, <1>3 DEF validate_extends

\* What one command makes of an ordered item the server takes for an
\* extension of it, provided the clone's clock is not behind.
LEMMA ChangeExtends ==
    ASSUME Shape, NEW c \in Clone, NEW n \in Number, NEW y, Changed(y, c, n),
           Ordered(items[c][n].events),
           items[c][n].events[Len(items[c][n].events)].ts <= clock[c]
    PROVE  validate_extends(items[c][n], y)
<1> DEFINE x == items[c][n]
           L == Len(x.events)
<1>1. PICK state \in State, op \in Op : Legit(x, state, op) /\ y = Updated(c, x, state, op)
  BY DEF Changed
<1>2. x \in Item /\ kind \in Kind /\ x.state \in States[kind]
  BY ItemIsSomewhere DEF Changed, Shape
<1>3. x.events \in Seq(Event) /\ L \in Nat
  BY <1>2 DEF Item
<1>4. y.head = x.head /\ y.state = state /\ y.events = Append(x.events, NewEvent(c, op))
  BY <1>1, <1>2 DEF Updated, Item
<1>5. NewEvent(c, op).ts = clock[c] /\ NewEvent(c, op).op = op
  BY DEF NewEvent
<1>6. Ordered(y.events)
  BY <1>3, <1>4, <1>5, AppendOrdered
<1> HIDE DEF x, L
<1>7. /\ Len(y.events) = L + 1
      /\ \A i \in 1..L : y.events[i] = x.events[i]
      /\ y.events[L + 1] = NewEvent(c, op)
  BY <1>3, <1>4, AppendFacts DEF L
<1>8. Begins(x.events, y.events)
  BY <1>3, <1>7 DEF Begins, L
<1>9. StateAllowed(x, y)
  <2>1. CASE kind = "issue"
    BY <2>1 DEF StateAllowed
  <2>2. CASE kind = "pr"
    <3>1. x.state = "merged" => y.state = "merged"
      BY <1>1, <1>4 DEF Legit
    <3>2. x.state # "merged" /\ y.state = "merged" => op = "merged"
      <4>1. y.state = state /\ (state = x.state \/ op = state)
        BY <1>1, <1>4 DEF Legit
      <4> QED
        BY <4>1
    <3>3. L + 1 \in L + 1..Len(y.events)
      BY <1>3, <1>7
    <3>4. PrStateAllowed(x, y)
      BY <1>5, <1>7, <3>1, <3>2, <3>3 DEF PrStateAllowed, L
    <3> QED
      BY <2>2, <3>4 DEF StateAllowed
  <2>3. CASE kind = "incident"
    BY <1>1, <1>4, <2>3 DEF StateAllowed, IncidentStateAllowed, Legit
  <2> QED
    BY <1>2, <2>1, <2>2, <2>3 DEF Kind
<1> QED
  BY <1>4, <1>6, <1>8, <1>9 DEF validate_extends, x

\* A clone that has what the server has can push whatever one command makes
\* of it: the commands are no laxer than the server's validate_extends.
THEOREM OneCommandIsPushable == Spec => OneCommandPushes
<1> DEFINE Push(c) ==
             /\ steady /\ items[c] = server /\ fetched[c] = None /\ NotBehind(c)
             /\ server' = server /\ next'[c] = next[c]
             => Accepts(items[c])'
<1>1. ASSUME TypeOK, JobKind, ServerOrdered, [Next]_vars, NEW c \in Clone, steady, items[c] = server,
             fetched[c] = None, NotBehind(c), server' = server, next'[c] = next[c]
      PROVE  Accepts(items[c])'
  <2>1. Shape
    BY <1>1, ShapeFromType
  <2>2. kind' = kind /\ kind \in Kind
    BY <1>1, <2>1, SetupFixed DEF Shape
  <2>3. ASSUME NEW n \in Number, items'[c][n] # None, server[n] # None
        PROVE  validate_extends(server[n], items'[c][n])
    <3>1. server[n] \in Item /\ Ordered(server[n].events)
      BY <1>1, <2>1, <2>3 DEF ServerOrdered, Shape, Refs
    <3>2. CASE items'[c][n] = items[c][n]
      BY <1>1, <2>2, <3>1, <3>2, ExtendsItself
    <3>3. CASE Changed(items'[c][n], c, n)
      <4>1. Ordered(items[c][n].events) /\ items[c][n].events[Len(items[c][n].events)].ts <= clock[c]
        BY <1>1, <2>3, <3>1 DEF NotBehind
      <4> QED
        BY <1>1, <2>1, <3>3, <4>1, ChangeExtends
    <3>4. ASSUME NEW d \in Clone, Command(d)
          PROVE  items'[c][n] = items[c][n] \/ Changed(items'[c][n], c, n)
      <4>1. CASE items' = items
        BY <4>1
      <4>2. ASSUME NEW m \in Number, items' = [items EXCEPT ![d][m] = items'[d][m]],
                   next'[d] = next[d] => Changed(items'[d][m], d, m)
            PROVE  items'[c][n] = items[c][n] \/ Changed(items'[c][n], c, n)
        <5>1. CASE d = c /\ m = n
          BY <1>1, <4>2, <5>1
        <5>2. CASE ~(d = c /\ m = n)
          <6>1. items \in [Clone -> Refs] /\ items[d] \in [Number -> Item \cup {None}]
            BY <2>1 DEF Shape, Refs
          <6> QED
            BY <4>2, <5>2, <6>1
        <5> QED
          BY <5>1, <5>2
      <4> QED
        BY <2>1, <3>4, <4>1, <4>2, CommandStep
    <3>5. ASSUME NEW d \in Clone, NEW S \in SUBSET Number, FetchMirror(d, S)
          PROVE  items'[c] = items[c]
      BY <1>1, <2>1, <3>5 DEF FetchMirror, Shape
    <3>6. ASSUME NEW d \in Clone,
                 \/ DropJob(d) \/ Tick(d) \/ SetBack(d) \/ FetchList(d)
                 \/ PushSend(d) \/ PushDeliver(d) \/ PushLost(d)
                 \/ BeginJob(d)
          PROVE  items' = items
      BY <3>6 DEF DropJob, Tick, SetBack, FetchList, PushSend, PushDeliver, PushLost, BeginJob, BeginMerge, BeginCiRun, Begin
    <3>7. CASE UNCHANGED vars
      BY <3>2, <3>7 DEF vars
    <3> QED
      BY <1>1, <3>2, <3>3, <3>4, <3>5, <3>6, <3>7 DEF Next
  <2> QED
    BY <1>1, <2>2, <2>3 DEF Accepts, Extends, validate_extends, StateAllowed
<1>2. TypeOK /\ JobKind /\ ServerOrdered /\ [Next]_vars => [\A c \in Clone : Push(c)]_vars
  BY <1>1
<1> QED
  BY <1>2, TypeCorrect, ServerIsOrdered, PTL DEF Spec, OneCommandPushes

=============================================================================
