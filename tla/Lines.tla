------------------------------- MODULE Lines --------------------------------
(***************************************************************************)
(* The line algorithms: the Myers diff, the hunks that gyt diff prints,    *)
(* gyt blame, and merge_lines, the three-way merge of one file behind gyt  *)
(* merge, cherry-pick and rebase.  A file is a sequence of lines and       *)
(* whether it ends with a newline (blame does not look at that).  The diff *)
(* is a function and is evaluated as one; merge and blame are loops whose  *)
(* steps are actions.                                                      *)
(***************************************************************************)
EXTENDS Integers, Sequences, SequencesExt, FiniteSets, FiniteSetsExt

CONSTANTS
    Line,
    Diffs,          \* the pairs of files to compare
    Merges,         \* the triples of files to merge: [base, ours, theirs]
    Blames,         \* the versions of a file, newest first; Gone where it is not
    Gone,
    Unread,         \* a version whose blob cannot be read
    Context,        \* the unchanged lines around a change
    MAX_DIFF_LINES,
    MaxOut          \* what the model keeps of the output of a merge

ASSUME LinesAssumption ==
    /\ Context \in Nat
    /\ MAX_DIFF_LINES \in Nat
    /\ MaxOut \in Nat

VARIABLES
    input,      \* the files
    pc,
    edits,      \* what each side did to the base
    at,         \* the line of the base the loop is at, from 0
    out,        \* the lines and the conflicts written so far
    clean

linesVars == <<input, pc, edits, at, out, clean>>

Op(tag, l) == [op |-> tag, line |-> l]
ChangesOf(ops) == SelectSeq(ops, LAMBDA o : o.op # "=")
AllOf(tag, ls) == [j \in 1 .. Len(ls) |-> Op(tag, ls[j])]

(***************************************************************************)
(* diff.rs: the greedy search over edit paths and its backtrack            *)
(***************************************************************************)

\* The end of the run of equal lines that begins at (x, y).
RECURSIVE Snake(_, _, _, _)
Snake(a, b, x, y) ==
    IF x < Len(a) /\ y < Len(b) /\ a[x + 1] = b[y + 1] THEN Snake(a, b, x + 1, y + 1) ELSE x

\* Whether diagonal k is reached at distance d by an insertion.
Down(v, k, d) == k = -d \/ (k # d /\ v[k - 1] < v[k + 1])

\* The furthest x on the diagonals k, k + 2, ... of round d; the search is over
\* when both files are used up.
RECURSIVE Round(_, _, _, _, _)
Round(a, b, v, k, d) ==
    IF k > d THEN [v |-> v, found |-> FALSE]
    ELSE LET from == IF Down(v, k, d) THEN v[k + 1] ELSE v[k - 1] + 1
             x == Snake(a, b, from, from - k)
             w == [v EXCEPT ![k] = x]
         IN  IF x >= Len(a) /\ x - k >= Len(b) THEN [v |-> w, found |-> TRUE]
             ELSE Round(a, b, w, k + 2, d)

RECURSIVE Trace(_, _, _, _)
Trace(a, b, v, d) ==
    LET round == Round(a, b, v, -d, d)
    IN  <<round.v>> \o IF round.found THEN <<>> ELSE Trace(a, b, round.v, d + 1)

\* The edit script that ends at (x, y) and leaves it at distance d.
RECURSIVE Backtrack(_, _, _, _, _, _)
Backtrack(a, b, trace, x, y, d) ==
    LET k == x - y
        v == trace[d + 1]
        down == Down(v, k, d)
        prev_k == IF down THEN k + 1 ELSE k - 1
        prev_x == v[prev_k]
        prev_y == prev_x - prev_k
        equal == Min({x - prev_x, y - prev_y})
        snake == AllOf("=", SubSeq(a, x - equal + 1, x))
    IN  IF d = 0 THEN snake
        ELSE Backtrack(a, b, trace, prev_x, prev_y, d - 1)
             \o <<IF x - equal = prev_x THEN Op("+", b[prev_y + 1]) ELSE Op("-", a[prev_x + 1])>>
             \o snake

myers(a, b) ==
    IF a = <<>> THEN AllOf("+", b)
    ELSE IF b = <<>> THEN AllOf("-", a)
    ELSE IF Len(a) + Len(b) > MAX_DIFF_LINES THEN AllOf("-", a) \o AllOf("+", b)
    ELSE LET max == Len(a) + Len(b)
             trace == Trace(a, b, [k \in -max .. max |-> 0], 0)
         IN  Backtrack(a, b, trace, Len(a), Len(b), Len(trace) - 1)

(***************************************************************************)
(* diff.rs: the hunks                                                      *)
(***************************************************************************)

Equal(ops, j) == ops[j].op = "="
InA(ops) == Len(SelectSeq(ops, LAMBDA o : o.op # "+"))
InB(ops) == Len(SelectSeq(ops, LAMBDA o : o.op # "-"))

\* The first op from j on that is a change; Len(ops) + 1 without one.
RunEnd(ops, j) == Min({q \in j .. Len(ops) : ~Equal(ops, q)} \cup {Len(ops) + 1})

\* Mutant: a run that both contexts cover is left out of the hunk.
Absorbed_Shorter(ops, j) == RunEnd(ops, j) - j <= Context

\* The run of equal lines at j is short enough to stay inside a hunk.
Absorbed(ops, j) == RunEnd(ops, j) - j <= 2 * Context

\* The last change of the hunk whose changes go on at j.
RECURSIVE LastChange(_, _, _)
LastChange(ops, j, last) ==
    IF j > Len(ops) THEN last
    ELSE IF ~Equal(ops, j) THEN LastChange(ops, j + 1, j)
    ELSE IF RunEnd(ops, j) <= Len(ops) /\ Absorbed(ops, j) THEN LastChange(ops, RunEnd(ops, j), last)
    ELSE last

Hunk(ops, first, last) ==
    LET before == SubSeq(ops, 1, first - 1)
        own == SubSeq(ops, first, last)
    IN  [a_start |-> InA(before) + 1, a_len |-> InA(own),
         b_start |-> InB(before) + 1, b_len |-> InB(own), ops |-> own]

RECURSIVE HunksFrom(_, _)
HunksFrom(ops, from) ==
    LET i == RunEnd(ops, from)
        lead == Max({n \in 0 .. Context : n < i /\ \A q \in i - n .. i - 1 : Equal(ops, q)})
        last == LastChange(ops, i, i)
        trail == Max({n \in 0 .. Context :
                        last + n <= Len(ops) /\ \A q \in last + 1 .. last + n : Equal(ops, q)})
    IN  IF i > Len(ops) THEN <<>>
        ELSE <<Hunk(ops, i - lead, last + trail)>> \o HunksFrom(ops, last + trail + 1)

group_hunks(ops) == HunksFrom(ops, 1)

\* A file whose last line only gained or lost its newline: that line becomes
\* a deletion and an insertion.
LiftLast(ops) ==
    SubSeq(ops, 1, Len(ops) - 1) \o <<Op("-", Last(ops).line), Op("+", Last(ops).line)>>

\* Whether line p of a file is followed by a newline.
Newline(file, p) == p < Len(file.lines) \/ file.nl

\* A hunk as it is printed: "\ No newline at end of file" follows a line that
\* is the last of its file, of either file when both have it, and has none.
Printed(h, a, b) ==
    LET a_pos(j) == h.a_start + InA(SubSeq(h.ops, 1, j - 1))
        b_pos(j) == h.b_start + InB(SubSeq(h.ops, 1, j - 1))
        marked(j) == \/ h.ops[j].op # "+" /\ ~Newline(a, a_pos(j))
                     \/ h.ops[j].op # "-" /\ ~Newline(b, b_pos(j))
    IN  [h EXCEPT !.ops = [j \in DOMAIN h.ops |-> [op |-> h.ops[j].op, line |-> h.ops[j].line, eof |-> marked(j)]]]

\* What gyt diff shows of two files: nothing, or the hunks.
render_unified(a, b) ==
    LET ops == myers(a.lines, b.lines)
        hunks == IF ChangesOf(ops) # <<>> THEN group_hunks(ops)
                 ELSE IF a.nl # b.nl THEN group_hunks(LiftLast(ops))
                 ELSE <<>>
    IN  [j \in DOMAIN hunks |-> Printed(hunks[j], a, b)]

count_changes(a, b) ==
    LET changed == ChangesOf(myers(a.lines, b.lines))
    IN  [ins |-> InB(changed), del |-> InA(changed)]

(***************************************************************************)
(* merge3.rs: merge_lines                                                  *)
(***************************************************************************)

NoEdit == [del |-> 0, ins |-> <<>>]

\* The edits in an edit script, by the line of the base they begin at: every
\* run of deletions and insertions between two equal lines is one.
walk_edits(ops, n) ==
    [p \in 0 .. n |->
        LET starts == {j \in 1 .. Len(ops) : /\ ~Equal(ops, j)
                                             /\ j = 1 \/ Equal(ops, j - 1)
                                             /\ InA(SubSeq(ops, 1, j - 1)) = p}
            run(j) == SubSeq(ops, j, Min({q \in j .. Len(ops) : Equal(ops, q)} \cup {Len(ops) + 1}) - 1)
            inserted(j) == SelectSeq(run(j), LAMBDA o : o.op = "+")
        IN  IF starts = {} THEN NoEdit
            ELSE LET j == Min(starts)
                 IN  [del |-> InA(run(j)), ins |-> [q \in 1 .. Len(inserted(j)) |-> inserted(j)[q].line]]]

Text(ls) == [j \in 1 .. Len(ls) |-> [kind |-> "line", line |-> ls[j]]]
Conflict(o, t) == <<[kind |-> "conflict", ours |-> o, theirs |-> t]>>

Emit(chunk) == out' = IF Len(out) < MaxOut THEN out \o chunk ELSE out

Base == input.base.lines
Ours == edits.ours[at]
Theirs == edits.theirs[at]

NothingDone ==
    /\ edits = [ours |-> <<>>, theirs |-> <<>>]
    /\ at = 0
    /\ out = <<>>
    /\ clean = TRUE

\* Blame looks at the commits from version at + 1 of the file on; out has for
\* each line of the first version the commit it is attributed to, 0 while it
\* has none, and edits the lines of the first version that those of the
\* present one stand for (cur_to_orig).
BlameBegin ==
    /\ edits = [j \in DOMAIN input[1] |-> j]
    /\ at = 0
    /\ out = [j \in DOMAIN input[1] |-> 0]
    /\ clean = TRUE

LinesInit ==
    \/ input \in Merges /\ pc = "merge" /\ NothingDone
    \/ input \in Diffs /\ pc = "diff" /\ NothingDone
    \/ input \in Blames /\ pc = "blame" /\ BlameBegin

\* Two sides that agree, or a side that left the base alone.
FastPath ==
    LET o == input.ours
        t == input.theirs
        b == input.base
    IN  /\ pc = "merge"
        /\ o = t \/ b = o \/ b = t
        /\ out' = Text(IF o = t THEN o.lines ELSE IF b = o THEN t.lines ELSE o.lines)
        /\ pc' = "done"
        /\ UNCHANGED <<input, edits, at, clean>>

WalkEdits ==
    /\ pc = "merge"
    /\ Cardinality({input.base, input.ours, input.theirs}) = 3
    /\ edits' = [ours |-> walk_edits(myers(Base, input.ours.lines), Len(Base)),
                 theirs |-> walk_edits(myers(Base, input.theirs.lines), Len(Base))]
    /\ pc' = "loop"
    /\ UNCHANGED <<input, at, out, clean>>

AtRegion == pc = "loop" /\ at < Len(Base)

NeitherChanged ==
    /\ AtRegion
    /\ Ours = NoEdit /\ Theirs = NoEdit
    /\ Emit(Text(<<Base[at + 1]>>))
    /\ at' = at + 1
    /\ UNCHANGED <<input, pc, edits, clean>>

\* Only one side changed the region, or both did the same.
TakeRegion ==
    /\ AtRegion
    /\ ~(Ours = NoEdit /\ Theirs = NoEdit)
    /\ Theirs = NoEdit \/ Ours = NoEdit \/ Ours = Theirs
    /\ Emit(Text(IF Ours = NoEdit THEN Theirs.ins ELSE Ours.ins))
    /\ at' = at + Max({Ours.del, Theirs.del})
    /\ UNCHANGED <<input, pc, edits, clean>>

\* Mutant: the sides are taken for equal when they delete the same lines.
ConflictRegion_Deletes ==
    /\ AtRegion
    /\ Ours # NoEdit /\ Theirs # NoEdit /\ Ours # Theirs
    /\ IF Ours.del = Theirs.del
       THEN Emit(Text(Ours.ins)) /\ UNCHANGED clean
       ELSE Emit(Conflict(Ours.ins, Theirs.ins)) /\ clean' = FALSE
    /\ at' = at + Max({Ours.del, Theirs.del})
    /\ UNCHANGED <<input, pc, edits>>

ConflictRegion ==
    /\ AtRegion
    /\ Ours # NoEdit /\ Theirs # NoEdit /\ Ours # Theirs
    /\ Emit(Conflict(Ours.ins, Theirs.ins))
    /\ clean' = FALSE
    /\ at' = at + Max({Ours.del, Theirs.del})
    /\ UNCHANGED <<input, pc, edits>>

\* What the sides appended after the last line of the base.
Appended ==
    LET o == edits.ours[Len(Base)].ins
        t == edits.theirs[Len(Base)].ins
    IN  /\ pc = "loop" /\ at >= Len(Base)
        /\ IF o # <<>> /\ t # <<>> /\ o # t
           THEN Emit(Conflict(o, t)) /\ clean' = FALSE
           ELSE Emit(Text(IF o = <<>> THEN t ELSE o)) /\ UNCHANGED clean
        /\ pc' = "done"
        /\ UNCHANGED <<input, edits, at>>

\* gyt diff and gyt diff --stat of two files.
ShowDiff ==
    /\ pc = "diff"
    /\ out' = render_unified(input.a, input.b)
    /\ pc' = "shown"
    /\ UNCHANGED <<input, edits, at, clean>>

\* The line of the present version that op j is about.
InCurrent(ops, j) == InB(SubSeq(ops, 1, j))

\* The ops about a line that cur_to_orig has a line of the first version for.
Traced(ops, tag) == {j \in DOMAIN ops : ops[j].op = tag /\ InCurrent(ops, j) \in DOMAIN edits}

\* Mutant: an inserted line is taken for a line of the first version.
Attributed_Present(ops) ==
    LET mine == {InCurrent(ops, j) : j \in Traced(ops, "+")}
    IN  [l \in DOMAIN out |-> IF out[l] = 0 /\ l \in mine THEN at + 1 ELSE out[l]]

\* Inserted lines are attributed to the present commit.
Attributed(ops) ==
    LET mine == {edits[InCurrent(ops, j)] : j \in Traced(ops, "+")}
    IN  [l \in DOMAIN out |-> IF out[l] = 0 /\ l \in mine THEN at + 1 ELSE out[l]]

\* Lines that stay are carried over to the parent's version.  The lines that
\* only the parent has get no place in the new map.
Carried(ops) ==
    LET kept == SetToSortSeq(Traced(ops, "="), <)
    IN  [i \in DOMAIN kept |-> edits[InCurrent(ops, kept[i])]]

\* Whatever has no commit yet is attributed to the present one.
Rest(attribution) == [l \in DOMAIN attribution |-> IF attribution[l] = 0 THEN at + 1 ELSE attribution[l]]

\* What the walk takes for a version: an older one that cannot be read is empty.
Version(j) == IF input[j] = Unread THEN <<>> ELSE input[j]

\* One commit of the first-parent chain.
BlameCommit ==
    LET ops == myers(Version(at + 2), Version(at + 1))
    IN  /\ pc = "blame"
        /\ at + 1 < Len(input) /\ input[at + 2] # Gone
        /\ out' = Attributed(ops)
        /\ edits' = Carried(ops)
        /\ at' = at + 1
        /\ UNCHANGED <<input, pc, clean>>

\* A root, or a parent without the file: the present commit brought the rest.
BlameFirst ==
    /\ pc = "blame"
    /\ at + 1 < Len(input) => input[at + 2] = Gone
    /\ out' = Rest(out)
    /\ pc' = "blamed"
    /\ UNCHANGED <<input, edits, at, clean>>

LinesNext ==
    \/ FastPath \/ WalkEdits \/ NeitherChanged \/ TakeRegion \/ ConflictRegion \/ Appended
    \/ ShowDiff \/ BlameCommit \/ BlameFirst

LinesSpec == LinesInit /\ [][LinesNext]_linesVars

(***************************************************************************)
(* Properties                                                              *)
(***************************************************************************)

\* The length of a longest common subsequence, by the textbook recursion.
RECURSIVE Common(_, _)
Common(a, b) ==
    IF a = <<>> \/ b = <<>> THEN 0
    ELSE IF Head(a) = Head(b) THEN 1 + Common(Tail(a), Tail(b))
    ELSE Max({Common(a, Tail(b)), Common(Tail(a), b)})

\* The lines of a file, each with whether a newline follows it.
WithNewlines(file) == [p \in DOMAIN file.lines |-> [line |-> file.lines[p], nl |-> Newline(file, p)]]

\* One side of a printed hunk, in the same form: "+" is left out of the old one
\* and "-" of the new one.
HunkSide(h, but) ==
    LET kept == SelectSeq(h.ops, LAMBDA o : o.op # but)
    IN  [j \in DOMAIN kept |-> [line |-> kept[j].line, nl |-> ~kept[j].eof]]
JustLines(side) == [j \in DOMAIN side |-> side[j].line]

\* The line that a header names: in the unified format an empty range has the
\* number of the line before it.
Place(start, len) == IF len = 0 THEN start + 1 ELSE start
OldPlace(h) == Place(h.a_start, h.a_len)
NewPlace(h) == Place(h.b_start, h.b_len)

\* What patch(1) makes of a file when it replaces the lines that each hunk names.
RECURSIVE Patched(_, _, _)
Patched(file, hunks, from) ==
    IF hunks = <<>> THEN SubSeq(file, from, Len(file))
    ELSE LET h == Head(hunks)
         IN  SubSeq(file, from, OldPlace(h) - 1) \o HunkSide(h, "-")
             \o Patched(file, Tail(hunks), OldPlace(h) + h.a_len)

\* A line that the script keeps is followed by a newline in one file only:
\* it is printed once, with a marker or without, and so wrongly for one of
\* the files (diff.rs:414-420), or it is in no hunk.
NewlineUnsaid(a, b) ==
    LET ops == myers(a.lines, b.lines)
    IN  /\ ChangesOf(ops) # <<>>
        /\ \E j \in DOMAIN ops :
            /\ Equal(ops, j)
            /\ Newline(a, InA(SubSeq(ops, 1, j))) # Newline(b, InB(SubSeq(ops, 1, j)))

\* The diff that gyt diff prints is empty only for identical files.  Its
\* hunks do not overlap, quote both files at the lines their headers name,
\* and turn the lines of the old file into those of the new one; the script
\* they come from is as short as one can be.  The markers of a missing last
\* newline are part of that, both in what is quoted and in what results,
\* exactly when no kept line gains or loses its newline.  The header of a
\* file without lines says line 1 where the format has 0, so that then the
\* hunk has to be the whole of the other file.
DiffExact ==
    pc = "shown" =>
        LET a == input.a
            b == input.b
            changed == count_changes(a, b)
            small == Len(a.lines) + Len(b.lines) <= MAX_DIFF_LINES
            quoted(h) == HunkSide(h, "+") = SubSeq(WithNewlines(a), OldPlace(h), OldPlace(h) + h.a_len - 1)
            becomes(h) == HunkSide(h, "-") = SubSeq(WithNewlines(b), NewPlace(h), NewPlace(h) + h.b_len - 1)
        IN  /\ out = <<>> => a = b
            /\ a = b /\ small => out = <<>>
            /\ \A j \in 2 .. Len(out) : OldPlace(out[j - 1]) + out[j - 1].a_len < OldPlace(out[j])
            /\ IF a.lines = <<>> \/ b.lines = <<>>
               THEN out # <<>> => Len(out) = 1 /\ HunkSide(out[1], "+") = WithNewlines(a) /\ HunkSide(out[1], "-") = WithNewlines(b)
               ELSE /\ JustLines(Patched(WithNewlines(a), out, 1)) = b.lines
                    /\ \A j \in DOMAIN out : JustLines(HunkSide(out[j], "+"))
                            = SubSeq(a.lines, OldPlace(out[j]), OldPlace(out[j]) + out[j].a_len - 1)
                    /\ NewlineUnsaid(a, b) <=>
                            ~(/\ Patched(WithNewlines(a), out, 1) = WithNewlines(b)
                              /\ \A j \in DOMAIN out : quoted(out[j]) /\ becomes(out[j]))
            /\ small => changed.ins + changed.del = Len(a.lines) + Len(b.lines) - 2 * Common(a.lines, b.lines)

\* The base with the edits of both sides, line by line.
Replaces(e, p, q) == p <= q /\ q < p + e[p].del
Applied ==
    LET e == edits.ours
        f == edits.theirs
        gone(q) == \E p \in 0 .. q : Replaces(e, p, q) \/ Replaces(f, p, q)
        piece(q) == (IF e[q] = f[q] THEN e[q].ins ELSE e[q].ins \o f[q].ins)
                    \o (IF q = Len(Base) \/ gone(q) THEN <<>> ELSE <<Base[q + 1]>>)
    IN  FlattenSeq([q \in 1 .. Len(Base) + 1 |-> piece(q - 1)])

\* No edit begins inside lines that the other side replaced.
Aligned ==
    \A p, q \in 0 .. Len(Base) :
        p < q => ~(Replaces(edits.ours, p, q) /\ edits.theirs[q] # NoEdit)
              /\ ~(Replaces(edits.theirs, p, q) /\ edits.ours[q] # NoEdit)

Compared == Cardinality({input.base, input.ours, input.theirs}) = 3

\* When no edit of one side begins inside a region of the other, a merge that
\* ends reports a conflict exactly where both changed the same lines in
\* different ways; a clean one has the edits of both sides and nothing else.
MergeExact ==
    pc = "done" /\ Compared /\ Aligned =>
        LET differ(p) == edits.ours[p] # NoEdit /\ edits.theirs[p] # NoEdit /\ edits.ours[p] # edits.theirs[p]
        IN  /\ clean <=> ~\E p \in 0 .. Len(Base) : differ(p)
            /\ clean => out = Text(Applied)

\* The versions up to where the file appeared.
Lifetime == LET gone == {j \in DOMAIN input : input[j] = Gone}
            IN  SubSeq(input, 1, Min(gone \cup {Len(input) + 1}) - 1)

\* The commits of the file's life only inserted lines, and all can be read.
OnlyGrew ==
    /\ Unread \notin Range(Lifetime)
    /\ \A j \in 2 .. Len(Lifetime) : Common(Lifetime[j], Lifetime[j - 1]) = Len(Lifetime[j])

\* "Lines that are *inserted* by that commit are attributed to it; lines that
\* survived from the parent continue to be attributed to whatever the parent
\* walk decides" (blame.rs:5-7).  When commits only insert lines, and the
\* files are small enough for a real diff, the lines that gyt blame gives to
\* commit j and older ones are the file as it was in j, line by line; and no
\* line of any file goes to a commit before the one that brought the file.
BlameExact ==
    pc = "blamed" =>
        /\ \A l \in DOMAIN out : out[l] \in 1 .. Len(Lifetime)
        /\ OnlyGrew /\ 2 * Len(input[1]) <= MAX_DIFF_LINES =>
              \A j \in 1 .. Len(Lifetime) :
                  LET older == SetToSortSeq({l \in DOMAIN out : out[l] >= j}, <)
                  IN  [i \in DOMAIN older |-> input[1][older[i]]] = Lifetime[j]
=============================================================================
