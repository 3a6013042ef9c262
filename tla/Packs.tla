------------------------------- MODULE Packs --------------------------------
(***************************************************************************)
(* Pack files: gyt gc --pack moves loose objects into packs, gyt gc sweeps *)
(* packs that have no index, and store::read and store::exists look an     *)
(* object up meanwhile, without a lock.                                    *)
(*                                                                         *)
(* The objects are those that a ref reaches: gc's prune (see GcPush)       *)
(* leaves them alone.  An id is a number, and ids are ordered.  A pack is  *)
(* named by the hash of its content: by its set of entries.                *)
(***************************************************************************)
EXTENDS Integers, Sequences, FiniteSets

LOCAL INSTANCE SequencesExt
LOCAL INSTANCE Functions

CONSTANTS
    PackId,       \* the ids of the objects
    BodyLen,      \* the length of each object on disk
    PackTargets,  \* values of GYT_PACK_TARGET_BYTES
    Reader,       \* callers of store::read and store::exists
    PackGrace,    \* gc_grace_secs, in clock units
    MaxTime,      \* bound on the clock
    MaxPackRuns,  \* bound on the runs of gc
    MaxReads      \* bound on the calls of each reader

ASSUME PackAssumption ==
    /\ PackId \subseteq Nat /\ IsFiniteSet(PackId)
    /\ BodyLen \in [PackId -> Nat \ {0}]
    /\ PackTargets \cup {PackGrace, MaxTime, MaxPackRuns, MaxReads} \subseteq Nat

VARIABLES
    looseFiles,   \* the loose objects
    packFiles,    \* the .pack files and their mtimes
    idxFiles,     \* the .idx files
    packTime,     \* the clock
    packer,       \* the running gyt gc
    reader        \* the running calls

packVars == <<looseFiles, packFiles, idxFiles, packTime, packer, reader>>

NoPacker(n) == [pc |-> "idle", batches |-> <<>>, files |-> {}, count |-> n]
NoRead(n) == [pc |-> "idle", id |-> 0, via |-> "loose", name |-> {}, offset |-> 0,
              stored |-> FALSE, count |-> n]

PacksInit ==
    /\ looseFiles = {}
    /\ packFiles = <<>>
    /\ idxFiles = {}
    /\ packTime = 0
    /\ packer = NoPacker(0)
    /\ reader = [r \in Reader |-> NoRead(0)]

(***************************************************************************)
(* The layout of a pack                                                    *)
(***************************************************************************)

HeaderLen == 12
EntryHeaderLen == 37    \* kind, hash, body_len

Sorted(name) == SetToSortSeq(name, <)

\* The offset of entry i: what was in the body when it was appended.
OffsetOf(q, i) ==
    HeaderLen + (i - 1) * EntryHeaderLen + SumFunctionOnSet(BodyLen, {q[j] : j \in 1..(i - 1)})

\* The table of the .idx, ascending by id.
IdxTable(name) ==
    LET q == Sorted(name) IN [i \in 1..Len(q) |-> [id |-> q[i], offset |-> OffsetOf(q, i)]]

\* The entry that starts at a place of the .pack, if one does.
EntryAt(name, offset) ==
    LET q == Sorted(name) IN {q[i] : i \in {j \in 1..Len(q) : OffsetOf(q, j) = offset}}

\* The binary search of lookup_in_idx, over the entries lo .. hi - 1.
RECURSIVE Search(_, _, _, _)
Search(table, id, lo, hi) ==
    IF lo >= hi THEN {}
    ELSE LET mid == (lo + hi) \div 2
             e == table[mid + 1]
         IN  CASE e.id < id -> Search(table, id, mid + 1, hi)
               [] e.id > id -> Search(table, id, lo, mid)
               [] OTHER -> {e.offset}

lookup_in_idx(name, id) == Search(IdxTable(name), id, 0, Cardinality(name))

(***************************************************************************)
(* gyt gc --pack, and the sweep of gyt gc                                  *)
(***************************************************************************)

\* The loose objects in the order of their ids, in batches of at most
\* target bytes; a target of 0 means one batch.
RECURSIVE Batches(_, _, _)
Batches(q, current, target) ==
    IF q = <<>> THEN IF current = {} THEN <<>> ELSE <<current>>
    ELSE IF target > 0 /\ current # {} /\ SumFunctionOnSet(BodyLen, current) + BodyLen[Head(q)] > target
         THEN <<current>> \o Batches(Tail(q), {Head(q)}, target)
         ELSE Batches(Tail(q), current \cup {Head(q)}, target)

\* Mutant: a .pack goes by its age alone.
Orphan_ByAge(name) == packTime - packFiles[name] >= PackGrace

\* A .pack without an .idx goes once it is as old as the grace period.
Orphan(name) == name \notin idxFiles /\ packTime - packFiles[name] >= PackGrace

\* The end of gc's prune.
Sweep ==
    /\ packer.pc = "idle"
    /\ packer.count < MaxPackRuns
    /\ LET kept == {n \in DOMAIN packFiles : ~Orphan(n)}
       IN  packFiles' = [n \in kept |-> packFiles[n]]
    /\ packer' = [packer EXCEPT !.pc = "swept", !.count = @ + 1]
    /\ UNCHANGED <<looseFiles, idxFiles, packTime, reader>>

\* gyt gc without --pack ends here.
EndUnpacked ==
    /\ packer.pc = "swept"
    /\ packer' = NoPacker(packer.count)
    /\ UNCHANGED <<looseFiles, packFiles, idxFiles, packTime, reader>>

\* pack_loose_objects lists the loose files there are and forms the batches.
PackBegin(target) ==
    /\ packer.pc = "swept"
    /\ packer' = IF looseFiles = {} THEN NoPacker(packer.count)
                 ELSE [packer EXCEPT !.pc = "pack",
                                     !.batches = Batches(Sorted(looseFiles), {}, target)]
    /\ UNCHANGED <<looseFiles, packFiles, idxFiles, packTime, reader>>

\* write_pack writes the .pack file, under the name of its content ...
write_pack ==
    /\ packer.pc = "pack"
    /\ LET name == Head(packer.batches)
       IN  packFiles' = [n \in DOMAIN packFiles \cup {name} |->
                            IF n = name THEN packTime ELSE packFiles[n]]
    /\ packer' = [packer EXCEPT !.pc = "idx"]
    /\ UNCHANGED <<looseFiles, idxFiles, packTime, reader>>

\* ... then the .idx.
write_idx ==
    /\ packer.pc = "idx"
    /\ idxFiles' = idxFiles \cup {Head(packer.batches)}
    /\ packer' = [packer EXCEPT !.pc = "unlink", !.files = Head(packer.batches)]
    /\ UNCHANGED <<looseFiles, packFiles, packTime, reader>>

\* The loose files of the batch go, one after the other.
Unlink(o) ==
    /\ packer.pc = "unlink"
    /\ o \in packer.files
    /\ looseFiles' = looseFiles \ {o}
    /\ packer' = IF packer.files # {o} THEN [packer EXCEPT !.files = @ \ {o}]
                 ELSE IF Len(packer.batches) = 1 THEN NoPacker(packer.count)
                 ELSE [packer EXCEPT !.pc = "pack", !.files = {}, !.batches = Tail(@)]
    /\ UNCHANGED <<packFiles, idxFiles, packTime, reader>>

KillPacker ==
    /\ packer.pc # "idle"
    /\ packer' = NoPacker(packer.count)
    /\ UNCHANGED <<looseFiles, packFiles, idxFiles, packTime, reader>>


(***************************************************************************)
(* The object store                                                        *)
(***************************************************************************)

Stored(o) == o \in looseFiles \/ \E n \in idxFiles : o \in n

\* write_bytes looks for the loose file alone: a packed object is written
\* again.
StoreLoose(o) ==
    /\ o \notin looseFiles
    /\ looseFiles' = looseFiles \cup {o}
    /\ UNCHANGED <<packFiles, idxFiles, packTime, packer, reader>>

PackTick ==
    /\ packTime < MaxTime
    /\ packTime' = packTime + 1
    /\ UNCHANGED <<looseFiles, packFiles, idxFiles, packer, reader>>

SetReader(r, v) ==
    /\ reader' = [reader EXCEPT ![r] = v]
    /\ UNCHANGED <<looseFiles, packFiles, idxFiles, packTime, packer>>

\* store::read and store::exists ask first whether there is a loose file.
ReadBegin(r, o) ==
    /\ reader[r].pc \in {"idle", "found", "absent", "error"}
    /\ reader[r].count < MaxReads
    /\ SetReader(r, [NoRead(reader[r].count + 1) EXCEPT
                        !.pc = IF o \in looseFiles THEN "open" ELSE "packs",
                        !.id = o, !.stored = Stored(o)])

\* exists is content with that; read opens the file, which may have gone.
ReadLoose(r) ==
    /\ reader[r].pc = "open"
    /\ SetReader(r, [reader[r] EXCEPT
                        !.pc = IF reader[r].id \in looseFiles THEN "found" ELSE "error"])

\* read_from_packs and id_in_packs: the .idx files there are, in any order,
\* until one has the id.
ReadPacks(r) ==
    /\ reader[r].pc = "packs"
    /\ LET o == reader[r].id
           hits == {n \in idxFiles : lookup_in_idx(n, o) # {}}
       IN  \/ /\ hits = {}
              /\ SetReader(r, [reader[r] EXCEPT !.pc = "absent", !.via = "pack"])
           \/ \E n \in hits :
                SetReader(r, [reader[r] EXCEPT !.pc = "entry", !.via = "pack", !.name = n,
                                 !.offset = CHOOSE x \in lookup_in_idx(n, o) : TRUE])

\* The entry at the offset must carry the id.
read_entry_at(r) ==
    /\ reader[r].pc = "entry"
    /\ LET c == reader[r]
           ok == c.name \in DOMAIN packFiles /\ EntryAt(c.name, c.offset) = {c.id}
       IN  SetReader(r, [c EXCEPT !.pc = IF ok THEN "found" ELSE "error"])

PacksNext ==
    \/ \E t \in PackTargets : PackBegin(t)
    \/ Sweep \/ EndUnpacked \/ write_pack \/ write_idx \/ KillPacker \/ PackTick
    \/ \E o \in PackId : Unlink(o) \/ StoreLoose(o)
    \/ \E r \in Reader :
          \/ \E o \in PackId : ReadBegin(r, o)
          \/ ReadLoose(r) \/ ReadPacks(r) \/ read_entry_at(r)

PacksSpec == PacksInit /\ [][PacksNext]_packVars

(***************************************************************************)
(* Properties                                                              *)
(***************************************************************************)

\* A reader that runs beside gc --pack and the sweep (store.rs:73-95,
\* pack.rs:136-158) finds what was stored when it began: an object is in an
\* indexed pack before its loose file goes, killed or not, and a pack that
\* an index names is never swept.  The one exception is the loose file that
\* goes between path.exists() and read_all, which is an I/O error and not
\* "not found".
ReadFinds ==
    \A r \in Reader :
        reader[r].stored =>
            /\ reader[r].pc # "absent"
            /\ reader[r].pc = "error" => reader[r].via = "loose"
=============================================================================
