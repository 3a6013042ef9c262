------------------------------- MODULE Audit --------------------------------
(***************************************************************************)
(* The audit log of the server (net/refs_policy.rs): one line for every    *)
(* ref that a push updates, in audit.log, and the older lines in           *)
(* audit.log.1 .. audit.log.KEEP.  The server appends while it holds       *)
(* refs.lock, so one append runs at a time; a kill may come between any    *)
(* two of its file operations.                                             *)
(***************************************************************************)
EXTENDS Integers, Sequences, SequencesExt

CONSTANTS
    AUDIT_LOG_MAX_BYTES,    \* in lines
    AUDIT_LOG_KEEP,
    NoAudit,                \* a slot without a file
    MaxLines

ASSUME AuditAssumption ==
    /\ AUDIT_LOG_MAX_BYTES \in Nat \ {0}
    /\ AUDIT_LOG_KEEP \in Nat \ {0}
    /\ MaxLines \in Nat

VARIABLES
    slots,      \* the files: slot 0 is audit.log, slot n audit.log.n
    audit,      \* the step of the running append_audit and its loop count
    lines,      \* history: the lines written so far
    harm        \* history: the worst that happened to a rotation

auditVars == <<slots, audit, lines, harm>>

At(s, n) == [step |-> s, n |-> n]

AuditInit ==
    /\ slots = [n \in 0 .. AUDIT_LOG_KEEP |-> NoAudit]
    /\ audit = At("idle", 0)
    /\ lines = 0
    /\ harm = "none"

TooLarge == slots[0] # NoAudit /\ Len(slots[0]) >= AUDIT_LOG_MAX_BYTES

\* A ref was updated.  Without audit-rotate.lock (it may be left over from a
\* killed server) there is no rotation this time.
append_audit(locked) ==
    /\ audit.step = "idle" /\ lines < MaxLines
    /\ audit' = At(IF locked /\ TooLarge THEN "drop" ELSE "write", 0)
    /\ UNCHANGED <<slots, lines, harm>>

\* "Drop the oldest, then shift each generation down by one."
DropOldest ==
    /\ audit.step = "drop"
    /\ slots' = [slots EXCEPT ![AUDIT_LOG_KEEP] = NoAudit]
    /\ audit' = At("shift", 1)
    /\ UNCHANGED <<lines, harm>>

\* Mutant: the slots are shifted from the newest on.
SlotAt_Ascending(i) == i

\* The slot that turn i of the loop moves.
SlotAt(i) == AUDIT_LOG_KEEP - i

Rename(from, to) == slots' = [slots EXCEPT ![to] = slots[from], ![from] = NoAudit]

\* rename's result is ignored, in the loop and after it.
RenameFails == UNCHANGED slots /\ harm' = "failed"

Shift ==
    LET n == SlotAt(audit.n)
    IN  /\ audit.step = "shift" /\ audit.n < AUDIT_LOG_KEEP
        /\ IF slots[n] = NoAudit THEN UNCHANGED <<slots, harm>>
           ELSE \/ Rename(n, n + 1) /\ UNCHANGED harm
                \/ RenameFails
        /\ audit' = At("shift", audit.n + 1)
        /\ UNCHANGED lines

RotateActive ==
    /\ audit.step = "shift" /\ audit.n = AUDIT_LOG_KEEP
    /\ \/ Rename(0, 1) /\ UNCHANGED harm
       \/ RenameFails
    /\ audit' = At("write", 0)
    /\ UNCHANGED lines

\* The line is written, or the write fails and only a warning is left of it.
WriteLine ==
    /\ audit.step = "write"
    /\ \/ /\ slots' = [slots EXCEPT ![0] = Append(IF @ = NoAudit THEN <<>> ELSE @, lines + 1)]
          /\ lines' = lines + 1
       \/ UNCHANGED <<slots, lines>>
    /\ audit' = At("idle", 0)
    /\ UNCHANGED harm

KillAudit ==
    /\ audit.step # "idle"
    /\ harm' = IF audit.step # "write" /\ harm = "none" THEN "killed" ELSE harm
    /\ audit' = At("idle", 0)
    /\ UNCHANGED <<slots, lines>>

AuditNext ==
    \/ \E locked \in BOOLEAN : append_audit(locked)
    \/ DropOldest \/ Shift \/ RotateActive \/ WriteLine \/ KillAudit

AuditSpec == AuditInit /\ [][AuditNext]_auditVars

(***************************************************************************)
(* Properties                                                              *)
(***************************************************************************)

\* What the files hold, from the oldest slot to audit.log.
Held ==
    LET content(n) == IF slots[n] = NoAudit THEN <<>> ELSE slots[n]
    IN  FlattenSeq([i \in 1 .. AUDIT_LOG_KEEP + 1 |-> content(AUDIT_LOG_KEEP + 1 - i)])

\* Read from the oldest file to the newest, the log is in order and has no
\* line twice.  Unless a rename failed it is the last lines written, without a
\* gap, wherever a rotation was killed: "the oldest entries simply fall off"
\* (refs_policy.rs:770).  And unless a rotation was killed either, it goes
\* back as far as KEEP full generations ("Number of rotated generations to
\* keep", refs_policy.rs:745), also in the middle of a rotation.
AuditSuffix ==
    /\ \A i, j \in 1 .. Len(Held) : i < j => Held[i] < Held[j]
    /\ harm # "failed" => \A i \in 1 .. Len(Held) : Held[i] = lines - Len(Held) + i
    /\ harm = "none" => Len(Held) = lines \/ Len(Held) >= AUDIT_LOG_KEEP * AUDIT_LOG_MAX_BYTES
=============================================================================
