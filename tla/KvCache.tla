------------------------------- MODULE KvCache -------------------------------
(***************************************************************************)
(* The KV caches of one context under any sequence of calls to the entry   *)
(* points of the library, whatever the client's discipline: this is where  *)
(* the bookkeeping kept beside the cells (the used count the allocator and *)
(* the defragmentation rely on, and the sequence index removals are served *)
(* from) is shown to follow the cells.                                     *)
(***************************************************************************)
EXTENDS KvContext

CONSTANTS
    SelfSize,           \* cells of the main cache
    SwaSizes,           \* of the sliding cache (0: the model has none)
    MaxUbatch,          \* bound: tokens of one ubatch
    Divisors            \* what positions are divided by (self-extend)

ASSUME SizeAssumption ==
    /\ SelfSize \in Nat \ {0} /\ SwaSizes \subseteq Nat /\ MaxUbatch \in Nat \ {0}
    /\ Divisors \subseteq Nat \ {0}

VARIABLE kv

TypeOK == kv.self \in Cache(SelfSize) /\ \E n \in SwaSizes : kv.swa \in Cache(n)

Init == kv \in {[self |-> Fresh(SelfSize), swa |-> Fresh(n)] : n \in SwaSizes}

Ubatch == UNION {[1..n -> [seq : Seqs, pos : Positions]] : n \in 1..MaxUbatch}

Clear == kv' = CtxClear(kv)
Remove(s, p0, p1) == kv' = CtxSeqRm(kv, s, p0, p1)
Copy(src, dst, p0, p1) == src # dst /\ kv' = CtxSeqCp(kv, src, dst, p0, p1)
Share(src, dst, p1) ==
    src # dst /\ p1 > 0 /\ kv' = CtxSharePrefix(kv, src, dst, p1)
Keep(s) == kv' = CtxSeqKeep(kv, s)
Add(s, p0, p1, delta) ==
    /\ delta # 0
    /\ \A c \in {kv.self, kv.swa} : \A i \in InRange(c, s, p0, p1) :
          c.cells[i].pos + delta <= MaxPos          \* bound
    /\ kv' = CtxSeqAdd(kv, s, p0, p1, delta)
Divide(s, p0, p1, n) == n # 1 /\ p0 # p1 /\ kv' = CtxSeqDiv(kv, s, p0, p1, n)
Defrag == kv' \in Compacted(kv)

\* Where a refused search leaves the head is left open.
Searched(c) == {[c EXCEPT !.head = h] : h \in 0..c.size}
Hinted(batch) == [self |-> HeadHint(kv.self, Len(batch)), swa |-> kv.swa]

Place(batch) ==
    /\ SwaRoom(Hinted(batch), batch) /\ Room(kv.self, Len(batch))
    /\ kv' = SelfPlaced(SwaPlaced(Hinted(batch), batch), batch)
SwaRefuses(batch) ==
    /\ ~SwaRoom(Hinted(batch), batch)
    /\ LET r == Retired(Hinted(batch), batch)
       IN  \E c \in Searched(r.swa) : kv' = [self |-> r.self, swa |-> c]
SelfRefuses(batch) ==
    /\ SwaRoom(Hinted(batch), batch) /\ ~Room(kv.self, Len(batch))
    /\ LET g == GivenBack(SwaPlaced(Hinted(batch), batch), Len(batch))
       IN  \E c \in Searched(g.self) : kv' = [self |-> c, swa |-> g.swa]

Next ==
    \/ Clear \/ Defrag
    \/ \E s \in Seqs : Keep(s)
    \/ \E s \in Seqs, p0, p1 \in 0..End : Remove(s, p0, p1)
    \/ \E src, dst \in Seqs, p0, p1 \in 0..End : Copy(src, dst, p0, p1)
    \/ \E src, dst \in Seqs, p1 \in 0..End : Share(src, dst, p1)
    \/ \E s \in Seqs, p0, p1 \in 0..End, delta \in -MaxPos..MaxPos :
          Add(s, p0, p1, delta)
    \/ \E s \in Seqs, p0, p1 \in 0..End, n \in Divisors : Divide(s, p0, p1, n)
    \/ \E batch \in Ubatch :
          Place(batch) \/ SwaRefuses(batch) \/ SelfRefuses(batch)

Spec == Init /\ [][Next]_kv

-----------------------------------------------------------------------------
(* What the bookkeeping promises                                           *)

\* used counts the rows in use, a row is in use exactly when a sequence is
\* tagged on it: the allocator admits on used, and the defragmentation
\* asserts that it finds as many cells to move as used says (llama.cpp:13736).
UsedIsCount ==
    \A c \in {kv.self, kv.swa} :
        /\ c.used = Cardinality({i \in Rows(c) : c.cells[i].pos >= 0})
        /\ \A i \in Rows(c) : c.cells[i].pos >= 0 <=> c.cells[i].seqs # {}

\* A kept index lists the cells exactly, whatever sequence of placements,
\* evictions, removals and bulk edits of the two caches led here: every site
\* mirrors its edit or drops the index, and the epoch, there to catch one that
\* does neither, never has to (llama-kv-index.h:72-86, PXA_KV_INDEX_CHECK).
IndexExact == \A c \in {kv.self, kv.swa} : c.valid => c.index = Exact(c)

\* The indexed removal and the scan it replaces do the same to the cells, the
\* count and the head, for every removal that could be asked for now
\* (llama-kv-index.h:328, "Semantics are exactly the scan's").
RemovalsAgree ==
    \A c \in {kv.self, kv.swa}, s \in Seqs, p0, p1 \in 0..End :
        LET a == RmIndexed(c, s, p0, p1)
            b == RmScan(c, s, p0, p1)
        IN  a.cells = b.cells /\ a.used = b.used /\ a.head = b.head
=============================================================================
