------------------------------ MODULE KvContext ------------------------------
(***************************************************************************)
(* The KV entry points of a llama context as functions of the pair of its  *)
(* caches, kv = [self, swa].  Each one edits "self" and then, on a model   *)
(* with a sliding cache, "swa"; a removal also checks that the sliding     *)
(* cache still covers the window, and wipes the sequence when it does not. *)
(***************************************************************************)
EXTENDS KvCells

SwaActive(kv) == kv.swa.size > 0

\* One cache takes a new value; if its tags changed, the epoch moved and the
\* other cache's index is no longer in sync.
Stale(c) == [c EXCEPT !.synced = FALSE]
WithSelf(kv, c) ==
    [self |-> c, swa |-> IF Tags(c) = Tags(kv.self) THEN kv.swa ELSE Stale(kv.swa)]
WithSwa(kv, c) ==
    [self |-> IF Tags(c) = Tags(kv.swa) THEN kv.self ELSE Stale(kv.self), swa |-> c]
Both(kv, c, d) ==       \* ... and both at once
    [self |-> IF Tags(d) = Tags(kv.swa) THEN c ELSE Stale(c),
     swa |-> IF Tags(c) = Tags(kv.self) THEN d ELSE Stale(d)]

CtxClear(kv) == [self |-> IF SwaActive(kv) THEN Stale(Cleared(kv.self))
                          ELSE Cleared(kv.self),
                 swa |-> Cleared(kv.swa)]

\* Does the sliding cache still hold every position its window can read?
CoverageOk(kv, s) ==
    \/ ~SwaActive(kv)
    \/ LET top == PosMax(kv.swa, s)
       IN  IF top < 0 THEN PosMax(kv.self, s) < 0
           ELSE Max({0, top - Window + 1})..top \subseteq PositionsOf(kv.swa, s)

AtZeroIfEmpty(c) == IF c.used = 0 THEN [c EXCEPT !.head = 0] ELSE c
Trimmed(kv, s, p0, p1) ==
    LET a == WithSelf(kv, SeqRm(kv.self, s, p0, p1))
    IN  IF SwaActive(kv) THEN WithSwa(a, AtZeroIfEmpty(SeqRm(a.swa, s, p0, p1)))
        ELSE a
Wiped(kv, s) ==
    LET a == WithSwa(kv, SeqRm(kv.swa, s, 0, End))
    IN  WithSelf(a, SeqRm(a.self, s, 0, End))

\* llama_kv_cache_seq_rm: a removal that uncovers the window is refused, and
\* the refusal leaves the sequence with nothing.  (A negative id, every sequence
\* at once, is left out: the server never passes one.)
Refused(kv, s, p0, p1) == ~CoverageOk(Trimmed(kv, s, p0, p1), s)
CtxSeqRm(kv, s, p0, p1) ==
    LET t == Trimmed(kv, s, p0, p1)
    IN  IF CoverageOk(t, s) THEN t ELSE Wiped(t, s)

CtxSeqCp(kv, src, dst, p0, p1) ==
    Both(kv, SeqCp(kv.self, src, dst, p0, p1), SeqCp(kv.swa, src, dst, p0, p1))
CtxSharePrefix(kv, src, dst, p1) ==
    Both(kv, SharePrefix(kv.self, src, dst, p1), SharePrefix(kv.swa, src, dst, p1))
CtxSeqKeep(kv, s) == Both(kv, SeqKeep(kv.self, s), SeqKeep(kv.swa, s))
CtxSeqAdd(kv, s, p0, p1, delta) ==
    Both(kv, SeqAdd(kv.self, s, p0, p1, delta), SeqAdd(kv.swa, s, p0, p1, delta))
CtxSeqDiv(kv, s, p0, p1, n) ==
    Both(kv, SeqDiv(kv.self, s, p0, p1, n), SeqDiv(kv.swa, s, p0, p1, n))

-----------------------------------------------------------------------------
(* One ubatch of llama_decode                                              *)

\* Enough unused cells before the head: search from the beginning.
HeadHint(c, n) == IF c.head > c.used + 2 * n THEN [c EXCEPT !.head = 0] ELSE c
Advanced(c, n) == [c EXCEPT !.head = IF @ + n >= c.size THEN 0 ELSE @ + n]

\* What the window can no longer reach is retired before the sliding cache is
\* searched; if there is no room, the guard band is given up as well.
Retired(kv, batch) ==
    LET a == WithSwa(kv, Evicted(kv.swa, batch, Guard))
    IN  IF ~SwaActive(kv) THEN kv
        ELSE IF Room(a.swa, Len(batch)) THEN a
        ELSE WithSwa(a, Evicted(a.swa, batch, 0))
SwaRoom(kv, batch) == SwaActive(kv) => Room(Retired(kv, batch).swa, Len(batch))
SwaPlaced(kv, batch) ==
    LET r == Retired(kv, batch)
    IN  IF SwaActive(kv) THEN WithSwa(r, Placed(r.swa, batch)) ELSE r
SelfPlaced(kv, batch) ==
    WithSelf(kv, Advanced(Placed(kv.self, batch), Len(batch)))

GivenBack_SlipKept(kv, n) == kv

\* The sliding cache takes its rows first; they are given back when the main
\* cache has no room.
GivenBack(kv, n) == IF SwaActive(kv) THEN WithSwa(kv, Released(kv.swa, n)) ELSE kv
Compacted(kv) ==
    LET ds == Defragged(kv.self)
    IN  IF ds = {} THEN {kv} ELSE {WithSelf(kv, d) : d \in ds}
=============================================================================
