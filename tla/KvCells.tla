------------------------------- MODULE KvCells -------------------------------
(***************************************************************************)
(* The cells of the engine's KV caches as values, and the operations of    *)
(* llama.cpp on them: a cell holds one position and the set of sequences   *)
(* tagged on it; a cache is its cells, the head hint the search for room   *)
(* starts from, the count of used cells, and the per-sequence index that   *)
(* spares a removal the scan over every cell.  A context owns two caches:  *)
(* "self" for the full-attention layers and "swa" for the sliding-window   *)
(* layers (size 0 on a model without them).                                *)
(*                                                                         *)
(* The tag epoch of llama-kv-index.h is one counter for the process; only  *)
(* whether an index has accounted for its present value is ever read, so   *)
(* the model keeps that one bit per cache ("synced") and clears it on the  *)
(* other cache whenever the tags of one are edited.  Recurrent state rows, *)
(* the bytes of K and V and their pending rotations are left out.          *)
(*                                                                         *)
(* A definition named X_Slip... is X with a plausible coding slip; nothing *)
(* but the mutation checks uses it.                                        *)
(***************************************************************************)
EXTENDS Integers, FiniteSets, FiniteSetsExt, Sequences

CONSTANTS
    Seqs,       \* sequence ids: one per server slot
    MaxPos,     \* bound: highest position a cell can hold
    Window,     \* n_swa: a query at p reads the positions above p - Window
    Guard,      \* positions kept beyond the window for a later rewind
    IndexOn     \* the lever PXA_KV_SEQ_RM_INDEX

ASSUME BoundsAssumption ==
    /\ MaxPos \in Nat /\ Window \in Nat \ {0} /\ Guard \in Nat
    /\ IndexOn \in BOOLEAN

Positions == 0..MaxPos
End == MaxPos + 1                       \* "to the end" in a range [p0, End)

Hole == [pos |-> -1, seqs |-> {}]
Cell == [pos : Positions \cup {-1}, seqs : SUBSET Seqs]

\* The caches of n cells.
Cache(n) ==
    [size : {n}, cells : [0..(n - 1) -> Cell], head : 0..n, used : Int,
     index : SUBSET (Seqs \X Positions \X (0..(n - 1))),
     valid : BOOLEAN, synced : BOOLEAN]

Rows(c) == 0..(c.size - 1)
Tagged(c, s) == {i \in Rows(c) : s \in c.cells[i].seqs}
PositionsOf(c, s) == {c.cells[i].pos : i \in Tagged(c, s)} \ {-1}
PosMax(c, s) == Max(PositionsOf(c, s) \cup {-1})
OneRowEach(c, s) ==
    \A i, j \in Tagged(c, s) : c.cells[i].pos = c.cells[j].pos => i = j
Tags(c) == [i \in Rows(c) |-> c.cells[i].seqs]

\* An index entry: this sequence has a cell for this position in this row.
Exact(c) == {e \in Seqs \X Positions \X Rows(c) :
                /\ c.cells[e[3]].pos = e[2]
                /\ e[1] \in c.cells[e[3]].seqs}
Entries(c, rows) == {e \in Exact(c) : e[3] \in rows}

InSync(c) == c.valid /\ c.synced
Invalidated(c) == [c EXCEPT !.index = {}, !.valid = FALSE, !.synced = FALSE]
Rebuilt(c) == [c EXCEPT !.index = Exact(c), !.valid = TRUE, !.synced = TRUE]
Noted(c, d, entries) ==      \* d's index after a mirrored edit that adds entries
    [d EXCEPT !.index = IF c.valid THEN @ \cup entries ELSE @]
Struck(c, d, entries) ==     \* ... that removes entries
    [d EXCEPT !.index = IF c.valid THEN @ \ entries ELSE @]

Cleared(c) ==
    [c EXCEPT !.cells = [i \in Rows(c) |-> Hole], !.head = 0, !.used = 0,
              !.index = {}, !.valid = TRUE, !.synced = TRUE]
Fresh(n) ==
    [size |-> n, cells |-> [i \in 0..(n - 1) |-> Hole], head |-> 0, used |-> 0,
     index |-> {}, valid |-> FALSE, synced |-> FALSE]

-----------------------------------------------------------------------------
(* Emptying and untagging rows                                             *)

Occupied(c, rows) == Cardinality({i \in rows : c.cells[i].pos >= 0})
LowerHead(c, freed) ==
    IF freed # {} /\ Min(freed) < c.head THEN Min(freed) ELSE c.head

\* The rows become holes; used follows, head does not.
Emptied(c, rows) ==
    [c EXCEPT !.cells = [i \in Rows(c) |-> IF i \in rows THEN Hole ELSE @[i]],
              !.used = @ - Occupied(c, rows)]

\* A cell that sequence s leaves; nobody is left on a hole.
Without(cell, s) ==
    IF cell.seqs \subseteq {s} THEN Hole ELSE [pos |-> cell.pos, seqs |-> cell.seqs \ {s}]

Untagged_SlipCountsRows(c, s, rows) ==
    LET freed == {i \in rows : c.cells[i].seqs \subseteq {s}}
    IN  [c EXCEPT
           !.cells = [i \in Rows(c) |-> IF i \in rows THEN Without(@[i], s) ELSE @[i]],
           !.used = @ - Occupied(c, rows),
           !.head = LowerHead(c, freed)]
Untagged_SlipForEveryone(c, s, rows) ==
    [Emptied(c, rows) EXCEPT !.head = LowerHead(c, rows)]

\* Sequence s leaves the rows; the lowest row that is freed is the next hint.
Untagged(c, s, rows) ==
    LET freed == {i \in rows : c.cells[i].seqs \subseteq {s}}
    IN  [c EXCEPT
           !.cells = [i \in Rows(c) |-> IF i \in rows THEN Without(@[i], s) ELSE @[i]],
           !.used = @ - Occupied(c, freed),
           !.head = LowerHead(c, freed)]

InRange(c, s, p0, p1) ==
    {i \in Tagged(c, s) : c.cells[i].pos >= p0 /\ c.cells[i].pos < p1}

\* llama_kv_cache_seq_rm_scan, and the indexed removal that stands in for it.
RmScan(c, s, p0, p1) == Untagged(c, s, InRange(c, s, p0, p1))
RmIndexed(c, s, p0, p1) ==
    LET d == IF InSync(c) THEN c ELSE Rebuilt(c)
        hits == {e \in d.index : e[1] = s /\ e[2] >= p0 /\ e[2] < p1}
        rows == {e[3] : e \in {h \in hits : /\ d.cells[h[3]].pos = h[2]
                                            /\ s \in d.cells[h[3]].seqs}}
    IN  [Untagged(d, s, rows) EXCEPT !.index = @ \ hits]
SeqRm(c, s, p0, p1) ==
    IF IndexOn THEN RmIndexed(c, s, p0, p1)
    ELSE Invalidated(RmScan(c, s, p0, p1))

-----------------------------------------------------------------------------
(* The bulk edits: each drops the index instead of mirroring               *)

SeqCp(c, src, dst, p0, p1) ==
    [Invalidated(c) EXCEPT
       !.cells = [i \in Rows(c) |->
           IF i \in InRange(c, src, p0, p1)
           THEN [pos |-> @[i].pos, seqs |-> @[i].seqs \cup {dst}] ELSE @[i]],
       !.head = 0]

\* The destination's own cells of the prefix go, the source's get its tag.
SharePrefix(c, src, dst, p1) ==
    SeqCp(Untagged(c, dst, InRange(c, dst, 0, p1)), src, dst, 0, p1)
Shared(c, src, p1) == Cardinality(InRange(c, src, 0, p1))

SeqKeep(c, s) ==
    LET gone == Rows(c) \ Tagged(c, s)
        d == Emptied(c, gone)
    IN  [Invalidated(d) EXCEPT
           !.cells = [i \in Rows(c) |->
               IF i \in gone THEN Hole ELSE [pos |-> @[i].pos, seqs |-> {s}]],
           !.head = LowerHead(c, gone)]

SeqAdd_SlipLostStay(c, s, p0, p1, delta) ==
    LET moved == InRange(c, s, p0, p1)
    IN  [Invalidated(c) EXCEPT
           !.cells = [i \in Rows(c) |->
               IF i \in moved THEN [pos |-> @[i].pos + delta, seqs |-> @[i].seqs] ELSE @[i]]]

\* Positions move for every sequence tagged on a row, not only for s.
SeqAdd(c, s, p0, p1, delta) ==
    IF p0 = p1 THEN Invalidated(c) ELSE
    LET moved == InRange(c, s, p0, p1)
        lost == {i \in moved : c.cells[i].pos + delta < 0}
        d == Emptied(c, lost)
    IN  [Invalidated(d) EXCEPT
           !.cells = [i \in Rows(c) |->
               IF i \in moved \ lost
               THEN [pos |-> @[i].pos + delta, seqs |-> @[i].seqs] ELSE @[i]],
           !.head = IF lost = {} THEN 0 ELSE Min(lost)]

SeqDiv(c, s, p0, p1, n) ==
    [Invalidated(c) EXCEPT
       !.cells = [i \in Rows(c) |->
           IF i \in InRange(c, s, p0, p1)
           THEN [pos |-> @[i].pos \div n, seqs |-> @[i].seqs] ELSE @[i]]]

-----------------------------------------------------------------------------
(* Placing a ubatch: a sequence of tokens [seq, pos]                       *)

Fits(c, h, n) == \A i \in h..(h + n - 1) : c.cells[i].pos < 0
Starts(c, n) == {h \in Rows(c) : h + n <= c.size /\ Fits(c, h, n)}

\* The search goes on from head and wraps once.  (PXA_KV_ALIGN_BAND, off by
\* default, would move it to a multiple of its band first.)
Room(c, n) == Starts(c, n) # {}
Start(c, n) ==
    LET ahead == {h \in Starts(c, n) : h >= c.head}
    IN  Min(IF ahead # {} THEN ahead ELSE Starts(c, n))

Placed_SlipFirstRowNoted(c, batch) ==
    LET n == Len(batch)
        h == Start(c, n)
        rows == h..(h + n - 1)
        d == [c EXCEPT
                !.cells = [i \in Rows(c) |->
                    IF i \in rows THEN [pos |-> batch[i - h + 1].pos,
                                        seqs |-> {batch[i - h + 1].seq}]
                    ELSE @[i]],
                !.used = @ + n, !.head = h]
    IN  Noted(c, d, Entries(d, {h}))

Placed(c, batch) ==
    LET n == Len(batch)
        h == Start(c, n)
        rows == h..(h + n - 1)
        d == [c EXCEPT
                !.cells = [i \in Rows(c) |->
                    IF i \in rows THEN [pos |-> batch[i - h + 1].pos,
                                        seqs |-> {batch[i - h + 1].seq}]
                    ELSE @[i]],
                !.used = @ + n, !.head = h]
    IN  Noted(c, d, Entries(d, rows))

InBatch(batch, s) == {batch[k].pos : k \in {j \in DOMAIN batch : batch[j].seq = s}}
Reference_SlipNewest(c, batch, s) ==
    IF InBatch(batch, s) # {} THEN Max(InBatch(batch, s)) ELSE PosMax(c, s)

\* The earliest position sequence s can still ask for.
Reference(c, batch, s) ==
    IF InBatch(batch, s) # {} THEN Min(InBatch(batch, s)) ELSE PosMax(c, s)
Dead(c, batch, guard) ==
    {i \in Rows(c) : /\ c.cells[i].pos >= 0 /\ c.cells[i].seqs # {}
                     /\ \A s \in c.cells[i].seqs :
                          Reference(c, batch, s) - c.cells[i].pos >= Window + guard}
Evicted_SlipNotMirrored(c, batch, guard) ==
    LET dead == Dead(c, batch, guard)
    IN  [Emptied(c, dead) EXCEPT !.head = LowerHead(c, dead)]
Evicted(c, batch, guard) ==
    LET dead == Dead(c, batch, guard)
    IN  Struck(c, [Emptied(c, dead) EXCEPT !.head = LowerHead(c, dead)],
               Entries(c, dead))

\* llama_kv_swa_release_slot: the rows of the last placement are holes again.
Released(c, n) ==
    LET rows == Rows(c) \cap (c.head..(c.head + n - 1))
    IN  Struck(c, Emptied(c, rows), Entries(c, rows))

\* A defragmentation moves cells from beyond the used count into holes below
\* it; which cell fills which hole is left open, as is where a pass stops.
Defragged(c) ==
    LET holes == {i \in Rows(c) : i < c.used /\ c.cells[i].seqs = {}}
        tail == {i \in Rows(c) : i >= c.used /\ c.cells[i].seqs # {}}
    IN  {[Invalidated(c) EXCEPT
            !.cells = [i \in Rows(c) |->
                CASE \E t \in DOMAIN to : to[t] = i -> @[CHOOSE t \in DOMAIN to : to[t] = i]
                  [] i \in DOMAIN to -> Hole
                  [] OTHER -> @[i]],
            !.head = c.used] :
         to \in {f \in UNION {[ts -> holes] : ts \in (SUBSET tail) \ {{}}} :
                   \A t, u \in DOMAIN f : f[t] = f[u] => t = u}}
=============================================================================
