----------------------------- MODULE KvCacheProofs -----------------------------
(***************************************************************************)
(* For every number of sequences, positions and cells: the used count and  *)
(* the sequence index of both caches follow the cells through any sequence *)
(* of library calls, so that the indexed removal does what the scan does.  *)
(* The three invariants TypeOK, UsedIsCount and IndexExact are inductive   *)
(* together, cache by cache: each edit of KvCells leaves a cache "good".   *)
(***************************************************************************)
EXTENDS KvCache, KvLemmas

-----------------------------------------------------------------------------
(* The invariant                                                           *)

IInv == \E n \in SwaSizes : PairGood(kv, SelfSize, n)

LEMMA InitGood == Init => IInv
<1>. SUFFICES ASSUME Init PROVE IInv
  OBVIOUS
<1>1. PICK n \in SwaSizes : kv = [self |-> Fresh(SelfSize), swa |-> Fresh(n)]
  BY Zenon DEF Init
<1>2. kv.self = Fresh(SelfSize) /\ kv.swa = Fresh(n) /\ n \in Nat /\ SelfSize \in Nat
  BY <1>1, SizeAssumption
<1>3. PairGood(kv, SelfSize, n)
  BY <1>2, FreshGood DEF PairGood
<1>. QED
  BY <1>3 DEF IInv

LEMMA ClearStep ==
    ASSUME NEW n \in SwaSizes, PairGood(kv, SelfSize, n), Clear
    PROVE  PairGood(kv', SelfSize, n)
<1>1. SelfSize \in Nat /\ n \in Nat /\ kv.self \in Cache(SelfSize) /\ kv.swa \in Cache(n)
  BY SizeAssumption DEF PairGood, Good, Sound
<1>2. Good(SelfSize, Cleared(kv.self)) /\ Good(n, Cleared(kv.swa))
  BY <1>1, ClearedGood
<1>3. Good(SelfSize, Stale(Cleared(kv.self)))
  BY <1>1, <1>2, StaleGood
<1>. QED
  BY <1>2, <1>3 DEF Clear, CtxClear, PairGood

LEMMA DefragStep ==
    ASSUME NEW n \in SwaSizes, PairGood(kv, SelfSize, n), Defrag
    PROVE  PairGood(kv', SelfSize, n)
<1>1. SelfSize \in Nat /\ n \in Nat /\ Good(SelfSize, kv.self) /\ Good(n, kv.swa)
  BY SizeAssumption DEF PairGood
<1>2. kv' = kv \/ \E d \in Defragged(kv.self) : kv' = WithSelf(kv, d)
  BY Zenon DEF Defrag, Compacted
<1>3. \A d \in Defragged(kv.self) : PairGood(WithSelf(kv, d), SelfSize, n)
  BY <1>1, DefragGood, WithSelfGood DEF Good
<1>. QED
  BY <1>2, <1>3

LEMMA BulkStep ==
    ASSUME NEW n \in SwaSizes, PairGood(kv, SelfSize, n),
           NEW s \in Seqs, NEW dst \in Seqs, NEW p0 \in 0..End, NEW p1 \in 0..End
    PROVE  /\ Keep(s) => PairGood(kv', SelfSize, n)
           /\ Remove(s, p0, p1) => PairGood(kv', SelfSize, n)
           /\ Copy(s, dst, p0, p1) => PairGood(kv', SelfSize, n)
           /\ Share(s, dst, p1) => PairGood(kv', SelfSize, n)
<1>1. /\ SelfSize \in Nat /\ n \in Nat /\ p1 \in Int
      /\ Sound(SelfSize, kv.self) /\ Sound(n, kv.swa)
  BY SizeAssumption, BoundsAssumption DEF PairGood, Good, End
<1>2. Keep(s) => PairGood(kv', SelfSize, n)
  BY <1>1, KeepGood, BothGood DEF Keep, CtxSeqKeep
<1>3. Remove(s, p0, p1) => PairGood(kv', SelfSize, n)
  BY <1>1, CtxSeqRmGood DEF Remove
<1>4. Copy(s, dst, p0, p1) => PairGood(kv', SelfSize, n)
  BY <1>1, CpGood, BothGood DEF Copy, CtxSeqCp
<1>5. Share(s, dst, p1) => PairGood(kv', SelfSize, n)
  BY <1>1, ShareGood, BothGood DEF Share, CtxSharePrefix
<1>. QED
  BY <1>2, <1>3, <1>4, <1>5

LEMMA ShiftStep ==
    ASSUME NEW n \in SwaSizes, PairGood(kv, SelfSize, n),
           NEW s \in Seqs, NEW p0 \in 0..End, NEW p1 \in 0..End
    PROVE  /\ \A delta \in -MaxPos..MaxPos : Add(s, p0, p1, delta) => PairGood(kv', SelfSize, n)
           /\ \A k \in Divisors : Divide(s, p0, p1, k) => PairGood(kv', SelfSize, n)
<1>1. /\ SelfSize \in Nat /\ n \in Nat /\ p1 \in Int
      /\ Sound(SelfSize, kv.self) /\ Sound(n, kv.swa)
  BY SizeAssumption, BoundsAssumption DEF PairGood, Good, End
<1>2. ASSUME NEW delta \in -MaxPos..MaxPos, Add(s, p0, p1, delta)
      PROVE  PairGood(kv', SelfSize, n)
  <2>1. delta \in Int
    BY BoundsAssumption
  <2>2. /\ \A i \in InRange(kv.self, s, p0, p1) : kv.self.cells[i].pos + delta =< MaxPos
        /\ \A i \in InRange(kv.swa, s, p0, p1) : kv.swa.cells[i].pos + delta =< MaxPos
    BY <1>2, Zenon DEF Add
  <2>3. Good(SelfSize, SeqAdd(kv.self, s, p0, p1, delta))
        /\ Good(n, SeqAdd(kv.swa, s, p0, p1, delta))
    BY <1>1, <2>1, <2>2, AddGood
  <2>. QED
    BY <1>1, <1>2, <2>3, BothGood DEF Add, CtxSeqAdd
<1>3. ASSUME NEW k \in Divisors, Divide(s, p0, p1, k)
      PROVE  PairGood(kv', SelfSize, n)
  <2>1. k \in Nat \ {0}
    BY SizeAssumption
  <2>2. Good(SelfSize, SeqDiv(kv.self, s, p0, p1, k)) /\ Good(n, SeqDiv(kv.swa, s, p0, p1, k))
    BY <1>1, <2>1, DivGood
  <2>. QED
    BY <1>1, <1>3, <2>2, BothGood DEF Divide, CtxSeqDiv
<1>. QED
  BY <1>2, <1>3

LEMMA UbatchIsBatch ==
    ASSUME NEW batch \in Ubatch
    PROVE  IsBatch(batch)
<1>1. PICK k \in 1..MaxUbatch : batch \in [1..k -> Token]
  BY DEF Ubatch, Token
<1>2. k \in Nat \ {0}
  BY SizeAssumption
<1>3. batch \in Seq(Token) /\ Len(batch) = k
  BY <1>1, <1>2
<1>. QED
  BY <1>2, <1>3 DEF IsBatch

\* One ubatch: placed, or refused by either cache.
LEMMA UbatchStep ==
    ASSUME NEW n \in SwaSizes, PairGood(kv, SelfSize, n), NEW batch \in Ubatch
    PROVE  /\ Place(batch) => PairGood(kv', SelfSize, n)
           /\ SwaRefuses(batch) => PairGood(kv', SelfSize, n)
           /\ SelfRefuses(batch) => PairGood(kv', SelfSize, n)
<1> DEFINE k == Len(batch)
<1> DEFINE hinted == Hinted(batch)
<1> DEFINE placed == SwaPlaced(hinted, batch)
<1>1. SelfSize \in Nat /\ n \in Nat /\ k \in Nat
  BY SizeAssumption, UbatchIsBatch, BatchIs
<1>2. PairGood(hinted, SelfSize, n) /\ SameRows(kv.self, hinted.self)
  BY <1>1, HintGood DEF PairGood, Hinted
<1>3. SwaRoom(hinted, batch) => PairGood(placed, SelfSize, n) /\ SameRows(kv.self, placed.self)
  <2>. HIDE DEF hinted
  <2>. QED
    BY <1>1, <1>2, UbatchIsBatch, SwaPlacedGood DEF SameRows
<1>4. ASSUME NEW c, NEW m \in Nat, Good(m, c), NEW d \in Searched(c)
      PROVE  Good(m, d)
  <2>1. c.size = m
    BY <1>4, Fields DEF Good, Sound
  <2>2. PICK h \in 0..m : d = [c EXCEPT !.head = h]
    BY <2>1, Zenon DEF Searched
  <2>. QED
    BY <1>4, <2>2, HeadGood, Zenon
<1>5. ASSUME Place(batch)
      PROVE  PairGood(kv', SelfSize, n)
  <2>1. SwaRoom(hinted, batch) /\ Room(kv.self, k) /\ kv' = SelfPlaced(placed, batch)
    BY <1>5 DEF Place
  <2>. HIDE DEF hinted, placed
  <2>2. PairGood(placed, SelfSize, n) /\ Room(placed.self, k)
    BY <1>3, <2>1, RoomKept
  <2>3. Good(SelfSize, Advanced(Placed(placed.self, batch), k))
    BY <1>1, <2>2, UbatchIsBatch, PlacedGood, AdvancedGood DEF PairGood
  <2>. QED
    BY <1>1, <2>1, <2>2, <2>3, WithSelfGood DEF PairGood, SelfPlaced
<1>6. ASSUME SwaRefuses(batch)
      PROVE  PairGood(kv', SelfSize, n)
  <2> DEFINE r == Retired(hinted, batch)
  <2>1. PICK c \in Searched(r.swa) : kv' = [self |-> r.self, swa |-> c]
    BY <1>6, Zenon DEF SwaRefuses
  <2>. HIDE DEF hinted
  <2>2. PairGood(r, SelfSize, n)
    BY <1>1, <1>2, RetiredGood
  <2>. HIDE DEF r
  <2>3. Good(n, c)
    BY <1>1, <1>4, <2>2 DEF PairGood
  <2>. QED
    BY <2>1, <2>2, <2>3 DEF PairGood
<1>7. ASSUME SelfRefuses(batch)
      PROVE  PairGood(kv', SelfSize, n)
  <2> DEFINE g == GivenBack(placed, k)
  <2>1. PICK c \in Searched(g.self) : kv' = [self |-> c, swa |-> g.swa]
    BY <1>7, Zenon DEF SelfRefuses
  <2>2. SwaRoom(hinted, batch)
    BY <1>7 DEF SelfRefuses
  <2>. HIDE DEF hinted, placed
  <2>3. PairGood(placed, SelfSize, n)
    BY <1>3, <2>2
  <2>4. PairGood(g, SelfSize, n)
    BY <1>1, <2>3, ReleasedGood, WithSwaGood DEF PairGood, GivenBack
  <2>. HIDE DEF g
  <2>5. Good(SelfSize, c)
    BY <1>1, <1>4, <2>4 DEF PairGood
  <2>. QED
    BY <2>1, <2>4, <2>5 DEF PairGood
<1>. QED
  BY <1>5, <1>6, <1>7

LEMMA StepGood == IInv /\ [Next]_kv => IInv'
<1>. SUFFICES ASSUME NEW n \in SwaSizes, PairGood(kv, SelfSize, n), [Next]_kv
              PROVE  PairGood(kv', SelfSize, n)
  BY Zenon DEF IInv
<1>1. CASE UNCHANGED kv
  BY <1>1
<1>2. CASE Clear
  BY <1>2, ClearStep
<1>3. CASE Defrag
  BY <1>3, DefragStep
<1>4. ASSUME NEW s \in Seqs, Keep(s)
      PROVE  PairGood(kv', SelfSize, n)
  <2>1. 0 \in 0..End
    BY BoundsAssumption DEF End
  <2>. QED
    BY <1>4, <2>1, BulkStep
<1>5. ASSUME NEW s \in Seqs, NEW p0 \in 0..End, NEW p1 \in 0..End, Remove(s, p0, p1)
      PROVE  PairGood(kv', SelfSize, n)
  BY <1>5, BulkStep
<1>6. ASSUME NEW src \in Seqs, NEW dst \in Seqs, NEW p0 \in 0..End, NEW p1 \in 0..End,
             Copy(src, dst, p0, p1)
      PROVE  PairGood(kv', SelfSize, n)
  BY <1>6, BulkStep
<1>7. ASSUME NEW src \in Seqs, NEW dst \in Seqs, NEW p1 \in 0..End, Share(src, dst, p1)
      PROVE  PairGood(kv', SelfSize, n)
  BY <1>7, BulkStep
<1>8. ASSUME NEW s \in Seqs, NEW p0 \in 0..End, NEW p1 \in 0..End,
             NEW delta \in -MaxPos..MaxPos, Add(s, p0, p1, delta)
      PROVE  PairGood(kv', SelfSize, n)
  BY <1>8, ShiftStep
<1>9. ASSUME NEW s \in Seqs, NEW p0 \in 0..End, NEW p1 \in 0..End,
             NEW k \in Divisors, Divide(s, p0, p1, k)
      PROVE  PairGood(kv', SelfSize, n)
  BY <1>9, ShiftStep
<1>10. ASSUME NEW batch \in Ubatch, Place(batch) \/ SwaRefuses(batch) \/ SelfRefuses(batch)
       PROVE  PairGood(kv', SelfSize, n)
  BY <1>10, UbatchStep
<1>. QED
  BY <1>1, <1>2, <1>3, <1>4, <1>5, <1>6, <1>7, <1>8, <1>9, <1>10, Zenon DEF Next

LEMMA Invariance == Spec => []IInv
  BY InitGood, StepGood, PTL DEF Spec

-----------------------------------------------------------------------------
(* What the invariant says                                                 *)

\* Whatever is called, cells, head hint and index stay inside the caches.
THEOREM TypeCorrect == Spec => []TypeOK
<1>1. IInv => TypeOK
  BY Zenon DEF IInv, PairGood, Good, Sound, TypeOK
<1>. QED
  BY <1>1, Invariance, PTL

\* The used count of either cache is the number of its cells in use, and a
\* cell is in use exactly while a sequence is tagged on it, however many
\* sequences, cells and positions there are (llama.cpp:13736 asserts it).
THEOREM UsedStaysTheCount == Spec => []UsedIsCount
<1>1. IInv => UsedIsCount
  BY Zenon DEF IInv, PairGood, Good, Sound, Counted, Used, UsedIsCount
<1>. QED
  BY <1>1, Invariance, PTL

\* No sequence of library calls leaves a kept index that differs from the
\* cells: every site of llama.cpp mirrors its edit or drops the index.
THEOREM IndexStaysExact == Spec => []IndexExact
<1>1. IInv => IndexExact
  BY Zenon DEF IInv, PairGood, Good, Indexed, IndexExact
<1>. QED
  BY <1>1, Invariance, PTL

\* The removal served from the index does what the scan it replaces does,
\* in every reachable state and for every range (llama-kv-index.h:328).
THEOREM IndexedRemovalIsTheScan == Spec => []RemovalsAgree
<1>1. ASSUME NEW n \in SwaSizes, PairGood(kv, SelfSize, n)
      PROVE  RemovalsAgree
  <2>. SUFFICES ASSUME NEW c \in {kv.self, kv.swa}, NEW s \in Seqs,
                       NEW p0 \in 0..End, NEW p1 \in 0..End
                PROVE  LET a == RmIndexed(c, s, p0, p1)
                           b == RmScan(c, s, p0, p1)
                       IN  a.cells = b.cells /\ a.used = b.used /\ a.head = b.head
    BY Zenon DEF RemovalsAgree
  <2>1. \E m \in Nat : Good(m, c)
    BY <1>1, SizeAssumption DEF PairGood
  <2>2. p1 \in Int
    BY BoundsAssumption DEF End
  <2>. QED
    BY <2>1, <2>2, RmIndexedIs
<1>2. IInv => RemovalsAgree
  BY <1>1 DEF IInv
<1>. QED
  BY <1>2, Invariance, PTL
=============================================================================
