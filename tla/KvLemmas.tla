------------------------------- MODULE KvLemmas -------------------------------
(***************************************************************************)
(* What the edits of KvCells and the entry points of KvContext do to a     *)
(* cache, for every number of sequences, positions and cells.  A "good"    *)
(* cache is of its type, its used count is the number of its cells in use, *)
(* and its index, if kept, lists the cells: each edit leaves it good.      *)
(***************************************************************************)
EXTENDS KvContext, FiniteSetTheorems, WellFoundedInduction, TLAPS

Used(c) == {i \in Rows(c) : c.cells[i].pos >= 0}
Counted(c) ==
    /\ c.used = Cardinality(Used(c))
    /\ \A i \in Rows(c) : c.cells[i].pos >= 0 <=> c.cells[i].seqs # {}
Sound(n, c) == c \in Cache(n) /\ Counted(c)
Indexed(c) == c.valid => c.index = Exact(c)
Good(n, c) == Sound(n, c) /\ Indexed(c)

\* Two caches that differ in their cells (and count and head) at most.
SameIndex(c, d) == d.index = c.index /\ d.valid = c.valid /\ d.synced = c.synced

-----------------------------------------------------------------------------
(* Numbers                                                                 *)

\* A set of naturals that is not empty has its minimum.
LEMMA LeastOf ==
    ASSUME NEW S \in SUBSET Nat, S # {}
    PROVE  Min(S) \in S /\ \A x \in S : Min(S) <= x
<1>1. PICK m \in S : \A k \in S : <<k, m>> \notin OpToRel(<, Nat)
  BY WFMin, NatLessThanWellFounded, Zenon
<1>2. \A k \in S : ~(k < m)
  BY <1>1, Zenon DEF OpToRel
<1>3. \A k \in S : m =< k
  BY <1>2
<1> QED
  BY <1>3, Zenon DEF Min

\* A set of integers between -1 and a bound has its maximum.
LEMMA GreatestOf ==
    ASSUME NEW b \in Int, NEW S \in SUBSET (-1..b), S # {}
    PROVE  Max(S) \in S /\ \A x \in S : x <= Max(S)
<1> DEFINE T == {b - x : x \in S}
<1>1. T \in SUBSET Nat /\ T # {}
  <2>1. \A x \in S : b - x \in Nat
    OBVIOUS
  <2> QED
    BY <2>1
<1>2. Min(T) \in T /\ \A y \in T : Min(T) <= y
  BY <1>1, LeastOf
<1>3. PICK g \in S : Min(T) = b - g
  BY <1>2
<1>4. \A x \in S : g >= x
  BY <1>2, <1>3
<1> HIDE DEF T
<1>5. \A x \in S : Max(S) >= x /\ Max(S) \in S
  BY <1>3, <1>4, Zenon DEF Max
<1> QED
  BY <1>3, <1>5

LEMMA LesserOf ==
    ASSUME NEW a \in Nat, NEW b \in Nat
    PROVE  Min({a, b}) = IF a <= b THEN a ELSE b
<1>1. Min({a, b}) \in {a, b} /\ \A x \in {a, b} : Min({a, b}) <= x
  BY LeastOf
<1> QED
  BY <1>1

LEMMA GreaterOfZero ==
    ASSUME NEW a \in Int
    PROVE  Max({0, a}) = IF a >= 0 THEN a ELSE 0
<1>1. ASSUME a >= 0 PROVE Max({0, a}) = a
  <2>1. Max({0, a}) \in {0, a} /\ \A x \in {0, a} : x <= Max({0, a})
    BY <1>1, GreatestOf
  <2> QED
    BY <1>1, <2>1
<1>2. ASSUME ~(a >= 0) PROVE Max({0, a}) = 0
  <2>1. \E x \in {0, a} : \A y \in {0, a} : x >= y
    BY <1>2
  <2>2. Max({0, a}) \in {0, a} /\ \A y \in {0, a} : Max({0, a}) >= y
    BY <2>1, Zenon DEF Max
  <2> QED
    BY <1>2, <2>2
<1> QED
  BY <1>1, <1>2

LEMMA MinIn ==
    ASSUME NEW S \in SUBSET Nat, S # {}
    PROVE  Min(S) \in S
  BY LeastOf

\* Rows of a cache of n cells can be counted.
LEMMA RowsFinite ==
    ASSUME NEW n \in Nat, NEW S \in SUBSET (0..(n - 1))
    PROVE  IsFiniteSet(S) /\ Cardinality(S) \in 0..n
<1>1. IsFiniteSet(0..(n - 1)) /\ Cardinality(0..(n - 1)) = n
  BY FS_Interval
<1>2. IsFiniteSet(S) /\ Cardinality(S) =< Cardinality(0..(n - 1))
  BY <1>1, FS_Subset
<1>3. Cardinality(S) \in Nat
  BY <1>2, FS_CardinalityType
<1>. QED
  BY <1>1, <1>2, <1>3

-----------------------------------------------------------------------------
(* The fields of a cache of n cells                                        *)

LEMMA Fields ==
    ASSUME NEW n \in Nat, NEW c \in Cache(n)
    PROVE  /\ c.size = n /\ Rows(c) = 0..(n - 1)
           /\ c.cells \in [0..(n - 1) -> Cell] /\ c.head \in 0..n /\ c.used \in Int
           /\ c.index \in SUBSET (Seqs \X Positions \X (0..(n - 1)))
           /\ c.valid \in BOOLEAN /\ c.synced \in BOOLEAN
  BY DEF Cache, Rows

\* A sound cache has at most n used cells.
LEMMA UsedBound ==
    ASSUME NEW n \in Nat, NEW c, Sound(n, c)
    PROVE  c.used \in 0..n
<1>1. Rows(c) = 0..(n - 1)
  BY Fields DEF Sound
<1>2. Used(c) \in SUBSET (0..(n - 1))
  BY <1>1 DEF Used
<1>. QED
  BY <1>2, RowsFinite DEF Sound, Counted

-----------------------------------------------------------------------------
(* Emptying and untagging rows                                             *)

LEMMA EmptiedSound ==
    ASSUME NEW n \in Nat, NEW c, Sound(n, c), NEW rows \in SUBSET (0..(n - 1)),
           NEW d, d = Emptied(c, rows)
    PROVE  /\ Sound(n, d) /\ SameIndex(c, d) /\ d.size = n /\ d.head = c.head
           /\ \A i \in 0..(n - 1) : d.cells[i] = IF i \in rows THEN Hole ELSE c.cells[i]
<1> DEFINE f == [i \in 0..(n - 1) |-> IF i \in rows THEN Hole ELSE c.cells[i]]
<1> DEFINE u == c.used - Occupied(c, rows)
<1>1. c \in Cache(n) /\ Counted(c) /\ c.size = n /\ Rows(c) = 0..(n - 1)
      /\ c.cells \in [0..(n - 1) -> Cell] /\ c.used \in 0..n
  BY Fields, UsedBound DEF Sound
<1>2. d = [c EXCEPT !.cells = f, !.used = u]
  BY <1>1 DEF Emptied
<1>3. f \in [0..(n - 1) -> Cell]
  BY <1>1 DEF Hole, Cell
<1>4. /\ Used(c) \in SUBSET (0..(n - 1)) /\ Occupied(c, rows) = Cardinality(Used(c) \cap rows)
  <2>1. {i \in rows : c.cells[i].pos >= 0} = Used(c) \cap rows
    BY <1>1 DEF Used
  <2>. QED
    BY <1>1, <2>1 DEF Used, Occupied
<1>5. u = Cardinality(Used(c) \ rows) /\ u \in Int
  <2>1. IsFiniteSet(Used(c)) /\ Cardinality(Used(c) \ rows) \in 0..n
        /\ Cardinality(Used(c) \cap rows) \in 0..n
    BY <1>4, RowsFinite
  <2>2. Cardinality(Used(c) \ rows) = Cardinality(Used(c)) - Cardinality(Used(c) \cap rows)
    BY <2>1, FS_Difference
  <2>. QED
    BY <1>1, <1>4, <2>1, <2>2 DEF Counted
<1>6. d \in Cache(n)
  <2>. HIDE DEF f, u
  <2>. QED
    BY <1>1, <1>2, <1>3, <1>5, Zenon DEF Cache
<1>7. d.size = n /\ d.cells = f /\ d.used = u /\ d.head = c.head /\ SameIndex(c, d)
  <2>. HIDE DEF f, u
  <2>. QED
    BY <1>1, <1>2, Zenon DEF Cache, SameIndex
<1>8. Used(d) = Used(c) \ rows
  BY <1>1, <1>7 DEF Used, Rows, Hole
<1>9. \A i \in Rows(d) : d.cells[i].pos >= 0 <=> d.cells[i].seqs # {}
  BY <1>1, <1>7 DEF Rows, Hole, Counted
<1>. QED
  BY <1>5, <1>6, <1>7, <1>8, <1>9 DEF Sound, Counted

\* The head hint stays inside the cache.
LEMMA LowerHeadIn ==
    ASSUME NEW n \in Nat, NEW c \in Cache(n), NEW freed \in SUBSET (0..(n - 1))
    PROVE  LowerHead(c, freed) \in 0..n
<1>1. c.head \in 0..n
  BY Fields
<1>2. CASE freed = {}
  BY <1>1, <1>2 DEF LowerHead
<1>3. CASE freed # {}
  <2>1. Min(freed) \in freed
    BY <1>3, MinIn
  <2>2. \A x \in freed : x \in 0..n
    OBVIOUS
  <2>3. Min(freed) \in 0..n
    BY <2>1, <2>2, Zenon
  <2>. QED
    BY <1>1, <2>3 DEF LowerHead
<1>. QED
  BY <1>2, <1>3

\* What is left of a cell that a sequence leaves.
LEMMA WithoutIs ==
    ASSUME NEW x \in Cell, NEW s \in Seqs
    PROVE  /\ Without(x, s) \in Cell
           /\ Without(x, s).seqs = x.seqs \ {s}
           /\ x.seqs \subseteq {s} => Without(x, s).pos = -1
           /\ ~(x.seqs \subseteq {s}) => Without(x, s).pos = x.pos
  BY DEF Without, Hole, Cell

LEMMA UntaggedSound ==
    ASSUME NEW n \in Nat, NEW c, Sound(n, c), NEW rows \in SUBSET (0..(n - 1)),
           NEW s \in Seqs, NEW d, d = Untagged(c, s, rows)
    PROVE  /\ Sound(n, d) /\ SameIndex(c, d) /\ d.size = n
           /\ \A i \in 0..(n - 1) :
                 d.cells[i] = IF i \in rows THEN Without(c.cells[i], s) ELSE c.cells[i]
<1> DEFINE freed == {i \in rows : c.cells[i].seqs \subseteq {s}}
<1> DEFINE f == [i \in 0..(n - 1) |-> IF i \in rows THEN Without(c.cells[i], s)
                                      ELSE c.cells[i]]
<1> DEFINE u == c.used - Occupied(c, freed)
<1> DEFINE h == LowerHead(c, freed)
<1>1. c \in Cache(n) /\ Counted(c) /\ c.size = n /\ Rows(c) = 0..(n - 1)
      /\ c.cells \in [0..(n - 1) -> Cell] /\ c.used \in 0..n
  BY Fields, UsedBound DEF Sound
<1>2. d = [c EXCEPT !.cells = f, !.used = u, !.head = h]
  BY <1>1 DEF Untagged
<1>3. \A i \in 0..(n - 1) : c.cells[i] \in Cell
  BY <1>1
<1>4. f \in [0..(n - 1) -> Cell]
  BY <1>3, WithoutIs
<1>5. \A i \in 0..(n - 1) :
         /\ f[i].pos >= 0 <=> c.cells[i].pos >= 0 /\ i \notin freed
         /\ f[i].pos >= 0 <=> f[i].seqs # {}
  <2> TAKE i \in 0..(n - 1)
  <2>1. c.cells[i].pos >= 0 <=> c.cells[i].seqs # {}
    BY <1>1 DEF Counted
  <2>2. CASE i \notin rows
    BY <2>1, <2>2
  <2>3. CASE i \in rows
    <3> DEFINE x == c.cells[i]
    <3>1. f[i] = Without(x, s) /\ (i \in freed <=> x.seqs \subseteq {s})
      BY <2>3
    <3>2. x \in Cell
      BY <1>3
    <3> HIDE DEF x, f, freed
    <3>3. CASE x.seqs \subseteq {s}
      <4>1. f[i].pos = -1 /\ f[i].seqs = {}
        BY <3>1, <3>2, <3>3, WithoutIs
      <4>. QED
        BY <3>1, <3>3, <4>1
    <3>4. CASE ~(x.seqs \subseteq {s})
      <4>1. f[i].pos = x.pos /\ f[i].seqs = x.seqs \ {s}
        BY <3>1, <3>2, <3>4, WithoutIs
      <4>. QED
        BY <2>1, <3>1, <3>4, <4>1 DEF x
    <3>. QED
      BY <3>3, <3>4
  <2>. QED
    BY <2>2, <2>3
<1>6. Used(c) \in SUBSET (0..(n - 1)) /\ Occupied(c, freed) = Cardinality(Used(c) \cap freed)
  <2>1. {i \in freed : c.cells[i].pos >= 0} = Used(c) \cap freed
    BY <1>1 DEF Used
  <2>. QED
    BY <1>1, <2>1 DEF Used, Occupied
<1>7. u = Cardinality(Used(c) \ freed) /\ u \in Int
  <2>1. IsFiniteSet(Used(c)) /\ Cardinality(Used(c) \ freed) \in 0..n
        /\ Cardinality(Used(c) \cap freed) \in 0..n
    BY <1>6, RowsFinite
  <2>2. Cardinality(Used(c) \ freed) = Cardinality(Used(c)) - Cardinality(Used(c) \cap freed)
    BY <2>1, FS_Difference
  <2>. QED
    BY <1>1, <1>6, <2>1, <2>2 DEF Counted
<1>8. h \in 0..n
  BY <1>1, LowerHeadIn
<1>9. /\ d \in Cache(n) /\ d.size = n /\ d.cells = f /\ d.used = u /\ SameIndex(c, d)
  <2>. HIDE DEF f, u, h
  <2>1. d \in Cache(n)
    BY <1>1, <1>2, <1>4, <1>7, <1>8, Zenon DEF Cache
  <2>2. d.size = n /\ d.cells = f /\ d.used = u /\ SameIndex(c, d)
    BY <1>1, <1>2, Zenon DEF Cache, SameIndex
  <2>. QED
    BY <2>1, <2>2
<1>10. Used(d) = Used(c) \ freed
  <2>1. Used(d) = {i \in 0..(n - 1) : f[i].pos >= 0}
    BY <1>9, Zenon DEF Used, Rows
  <2>. QED
    BY <1>1, <1>5, <2>1 DEF Used
<1>11. \A i \in Rows(d) : d.cells[i].pos >= 0 <=> d.cells[i].seqs # {}
  BY <1>5, <1>9, Zenon DEF Rows
<1>. QED
  BY <1>7, <1>9, <1>10, <1>11 DEF Sound, Counted

-----------------------------------------------------------------------------
(* The bulk edits                                                          *)

\* An invalidated index says nothing; the rest of the cache stays.
LEMMA InvalidatedIs ==
    ASSUME NEW n \in Nat, NEW c \in Cache(n)
    PROVE  /\ Invalidated(c) \in Cache(n) /\ Invalidated(c).size = n
           /\ Invalidated(c).cells = c.cells /\ Invalidated(c).used = c.used
           /\ Invalidated(c).head = c.head /\ ~Invalidated(c).valid
<1>1. Invalidated(c) \in Cache(n)
  BY Zenon DEF Cache, Invalidated
<1>2. /\ Invalidated(c).size = c.size
      /\ Invalidated(c).cells = c.cells /\ Invalidated(c).used = c.used
      /\ Invalidated(c).head = c.head /\ ~Invalidated(c).valid
  BY Zenon DEF Cache, Invalidated
<1>. QED
  BY <1>1, <1>2, Fields, Zenon

LEMMA InvalidatedGood ==
    ASSUME NEW n \in Nat, NEW c, Sound(n, c)
    PROVE  Good(n, Invalidated(c))
<1>1. c \in Cache(n) /\ Counted(c) /\ c.size = n
  BY Fields DEF Sound
<1>2. /\ Invalidated(c) \in Cache(n) /\ Invalidated(c).size = c.size
      /\ Invalidated(c).cells = c.cells /\ Invalidated(c).used = c.used
      /\ ~Invalidated(c).valid
  BY <1>1, InvalidatedIs
<1>3. Counted(Invalidated(c))
  BY <1>1, <1>2, Zenon DEF Counted, Used, Rows
<1>. QED
  BY <1>2, <1>3 DEF Good, Sound, Indexed

\* An edit that drops the index, and uses the rows that were in use.
LEMMA RecelledGood ==
    ASSUME NEW n \in Nat, NEW c, Sound(n, c), NEW d \in Cache(n), d.used = c.used, ~d.valid,
           \A i \in 0..(n - 1) : /\ d.cells[i].pos >= 0 <=> c.cells[i].pos >= 0
                                 /\ d.cells[i].pos >= 0 <=> d.cells[i].seqs # {}
    PROVE  Good(n, d)
<1>1. c \in Cache(n) /\ Counted(c) /\ Rows(c) = 0..(n - 1) /\ Rows(d) = 0..(n - 1)
  BY Fields DEF Sound
<1>2. Used(d) = Used(c)
  BY <1>1 DEF Used
<1>. QED
  BY <1>1, <1>2 DEF Good, Sound, Counted, Indexed

LEMMA InRangeRows ==
    ASSUME NEW n \in Nat, NEW c \in Cache(n), NEW s \in Seqs, NEW p0 \in 0..End, NEW p1 \in Int
    PROVE  /\ InRange(c, s, p0, p1) \in SUBSET (0..(n - 1))
           /\ \A i \in InRange(c, s, p0, p1) :
                 /\ s \in c.cells[i].seqs /\ c.cells[i] \in Cell
                 /\ c.cells[i].pos \in p0..(p1 - 1) /\ c.cells[i].pos \in Positions
<1>1. Rows(c) = 0..(n - 1) /\ c.cells \in [0..(n - 1) -> Cell]
  BY Fields
<1>2. \A i \in InRange(c, s, p0, p1) :
         /\ i \in 0..(n - 1) /\ s \in c.cells[i].seqs
         /\ c.cells[i].pos >= p0 /\ c.cells[i].pos < p1
  BY <1>1 DEF InRange, Tagged
<1>3. \A i \in 0..(n - 1) : c.cells[i] \in Cell /\ c.cells[i].pos \in Positions \cup {-1}
  BY <1>1 DEF Cell
<1>4. p0 \in Nat /\ Positions \subseteq Int
  BY BoundsAssumption DEF Positions, End
<1>. QED
  BY <1>2, <1>3, <1>4 DEF Positions

LEMMA CpGood ==
    ASSUME NEW n \in Nat, NEW c, Sound(n, c), NEW src \in Seqs, NEW dst \in Seqs,
           NEW p0 \in 0..End, NEW p1 \in Int
    PROVE  Good(n, SeqCp(c, src, dst, p0, p1))
<1> DEFINE R == InRange(c, src, p0, p1)
<1> DEFINE e == Invalidated(c)
<1> DEFINE f == [i \in Rows(c) |->
                   IF i \in R THEN [pos |-> e.cells[i].pos, seqs |-> e.cells[i].seqs \cup {dst}]
                   ELSE e.cells[i]]
<1> DEFINE d == SeqCp(c, src, dst, p0, p1)
<1>1. /\ c \in Cache(n) /\ Counted(c) /\ c.size = n /\ Rows(c) = 0..(n - 1)
      /\ \A i \in 0..(n - 1) : c.cells[i] \in Cell
  BY Fields DEF Sound
<1>2. e \in Cache(n) /\ e.cells = c.cells /\ e.used = c.used /\ ~e.valid
  BY <1>1, InvalidatedIs
<1>3. d = [e EXCEPT !.cells = f, !.head = 0]
  BY Zenon DEF SeqCp
<1>4. R \in SUBSET (0..(n - 1)) /\ \A i \in R : src \in c.cells[i].seqs
  BY <1>1, InRangeRows
<1>. HIDE DEF R, e, d
<1>5. f \in [0..(n - 1) -> Cell]
  BY <1>1, <1>2 DEF Cell
<1>6. \A i \in 0..(n - 1) : /\ f[i].pos >= 0 <=> c.cells[i].pos >= 0
                            /\ f[i].pos >= 0 <=> f[i].seqs # {}
  BY <1>1, <1>2, <1>4 DEF Counted
<1>. HIDE DEF f
<1>7. 0 \in 0..n
  OBVIOUS
<1>8. d \in Cache(n)
  BY <1>2, <1>3, <1>5, <1>7, Zenon DEF Cache
<1>9. d.cells = f /\ d.used = e.used /\ d.valid = e.valid
  BY <1>2, <1>3, Zenon DEF Cache
<1>. QED
  <2>1. Good(n, d)
    BY <1>2, <1>6, <1>8, <1>9, RecelledGood
  <2>. QED
    BY <2>1 DEF d

LEMMA ShareGood ==
    ASSUME NEW n \in Nat, NEW c, Sound(n, c), NEW src \in Seqs, NEW dst \in Seqs,
           NEW p1 \in 0..End
    PROVE  Good(n, SharePrefix(c, src, dst, p1))
<1>1. 0 \in 0..End /\ p1 \in Int /\ c \in Cache(n)
  BY BoundsAssumption DEF End, Sound
<1>2. InRange(c, dst, 0, p1) \in SUBSET (0..(n - 1))
  BY <1>1, InRangeRows
<1>3. Sound(n, Untagged(c, dst, InRange(c, dst, 0, p1)))
  BY <1>2, UntaggedSound
<1>. QED
  BY <1>1, <1>3, CpGood DEF SharePrefix

LEMMA KeepGood ==
    ASSUME NEW n \in Nat, NEW c, Sound(n, c), NEW s \in Seqs
    PROVE  Good(n, SeqKeep(c, s))
<1> DEFINE R == Rows(c) \ Tagged(c, s)
<1> DEFINE b == Emptied(c, R)
<1> DEFINE e == Invalidated(b)
<1> DEFINE f == [i \in Rows(c) |-> IF i \in R THEN Hole
                                   ELSE [pos |-> e.cells[i].pos, seqs |-> {s}]]
<1> DEFINE h == LowerHead(c, R)
<1> DEFINE d == SeqKeep(c, s)
<1>1. /\ c \in Cache(n) /\ Counted(c) /\ c.size = n /\ Rows(c) = 0..(n - 1)
      /\ \A i \in 0..(n - 1) : c.cells[i] \in Cell
  BY Fields DEF Sound
<1>2. /\ R \in SUBSET (0..(n - 1))
      /\ \A i \in 0..(n - 1) : i \notin R => s \in c.cells[i].seqs
  BY <1>1 DEF Tagged
<1>3. /\ Sound(n, b) /\ b \in Cache(n)
      /\ \A i \in 0..(n - 1) : b.cells[i] = IF i \in R THEN Hole ELSE c.cells[i]
  <2>. HIDE DEF R
  <2>. QED
    BY <1>2, EmptiedSound DEF Sound
<1>4. d = [e EXCEPT !.cells = f, !.head = h]
  BY Zenon DEF SeqKeep
<1>5. h \in 0..n
  BY <1>1, <1>2, LowerHeadIn
<1>. HIDE DEF R, b
<1>6. e \in Cache(n) /\ e.cells = b.cells /\ e.used = b.used /\ ~e.valid
  BY <1>3, InvalidatedIs
<1>. HIDE DEF e, d, h
<1>7. f \in [0..(n - 1) -> Cell]
  BY <1>1, <1>3, <1>6 DEF Cell, Hole
<1>8. \A i \in 0..(n - 1) : /\ f[i].pos >= 0 <=> b.cells[i].pos >= 0
                            /\ f[i].pos >= 0 <=> f[i].seqs # {}
  BY <1>1, <1>2, <1>3, <1>6 DEF Counted, Hole
<1>. HIDE DEF f
<1>9. d \in Cache(n)
  BY <1>4, <1>5, <1>6, <1>7, Zenon DEF Cache
<1>10. d.cells = f /\ d.used = e.used /\ d.valid = e.valid
  BY <1>4, <1>6, Zenon DEF Cache
<1>. QED
  <2>1. Good(n, d)
    BY <1>3, <1>6, <1>8, <1>9, <1>10, RecelledGood
  <2>. QED
    BY <2>1 DEF d

\* A shift: the bound is the room above the highest position that moves.
LEMMA AddGood ==
    ASSUME NEW n \in Nat, NEW c, Sound(n, c), NEW s \in Seqs,
           NEW p0 \in 0..End, NEW p1 \in Int, NEW delta \in Int,
           \A i \in InRange(c, s, p0, p1) : c.cells[i].pos + delta =< MaxPos
    PROVE  Good(n, SeqAdd(c, s, p0, p1, delta))
<1> DEFINE M == InRange(c, s, p0, p1)
<1> DEFINE R == {i \in M : c.cells[i].pos + delta < 0}
<1> DEFINE b == Emptied(c, R)
<1> DEFINE e == Invalidated(b)
<1> DEFINE f == [i \in Rows(c) |->
                   IF i \in M \ R
                   THEN [pos |-> e.cells[i].pos + delta, seqs |-> e.cells[i].seqs]
                   ELSE e.cells[i]]
<1> DEFINE h == IF R = {} THEN 0 ELSE Min(R)
<1> DEFINE d == SeqAdd(c, s, p0, p1, delta)
<1>1. /\ c \in Cache(n) /\ Counted(c) /\ c.size = n /\ Rows(c) = 0..(n - 1)
      /\ \A i \in 0..(n - 1) : c.cells[i] \in Cell
  BY Fields DEF Sound
<1>2. CASE p0 = p1
  BY <1>2, InvalidatedGood DEF SeqAdd
<1>3. CASE p0 # p1
  <2>1. /\ M \in SUBSET (0..(n - 1))
        /\ \A i \in M : s \in c.cells[i].seqs /\ c.cells[i].pos \in Positions
    BY <1>1, InRangeRows
  <2>2. R \in SUBSET (0..(n - 1))
    BY <2>1
  <2>3. /\ Sound(n, b) /\ b \in Cache(n)
        /\ \A i \in 0..(n - 1) : b.cells[i] = IF i \in R THEN Hole ELSE c.cells[i]
    <3>. HIDE DEF R
    <3>. QED
      BY <2>2, EmptiedSound DEF Sound
  <2>4. d = [e EXCEPT !.cells = f, !.head = h]
    BY <1>3, Zenon DEF SeqAdd
  <2>5. h \in 0..n
    <3>1. CASE R = {}
      BY <3>1
    <3>2. CASE R # {}
      <4>1. Min(R) \in R
        BY <2>2, <3>2, MinIn
      <4>2. \A x \in R : x \in 0..n
        BY <2>2
      <4>. HIDE DEF R
      <4>. QED
        BY <3>2, <4>1, <4>2
    <3>. QED
      BY <3>1, <3>2
  <2>6. \A i \in M \ R : c.cells[i].pos + delta \in Positions
    BY <2>1, BoundsAssumption DEF Positions
  <2>. HIDE DEF M, R, b
  <2>7. e \in Cache(n) /\ e.cells = b.cells /\ e.used = b.used /\ ~e.valid
    BY <2>3, InvalidatedIs
  <2>. HIDE DEF e, d, h
  <2>8. \A i \in M \ R : /\ f[i] \in Cell /\ f[i].seqs = c.cells[i].seqs
                         /\ f[i].pos \in Positions
    BY <1>1, <2>1, <2>3, <2>6, <2>7 DEF Cell
  <2>9. \A i \in 0..(n - 1) : i \notin M \ R => f[i] = b.cells[i]
    BY <1>1, <2>7
  <2>10. \A i \in 0..(n - 1) : b.cells[i] \in Cell
    <3>1. b.cells \in [0..(n - 1) -> Cell]
      BY <2>3, Fields, Zenon
    <3>. QED
      BY <3>1
  <2>11. f \in [0..(n - 1) -> Cell]
    <3>1. ASSUME NEW i \in 0..(n - 1) PROVE f[i] \in Cell
      <4>. HIDE DEF f
      <4>1. CASE i \in M \ R
        BY <2>8, <4>1
      <4>2. CASE i \notin M \ R
        BY <2>9, <2>10, <4>2
      <4>. QED
        BY <4>1, <4>2
    <3>2. f = [i \in 0..(n - 1) |-> f[i]]
      BY <1>1
    <3>. HIDE DEF f
    <3>. QED
      BY <3>1, <3>2
  <2>. HIDE DEF f
  <2>12. \A i \in 0..(n - 1) : /\ f[i].pos >= 0 <=> b.cells[i].pos >= 0
                               /\ f[i].pos >= 0 <=> f[i].seqs # {}
    <3>1. \A i \in 0..(n - 1) : b.cells[i].pos >= 0 <=> b.cells[i].seqs # {}
      BY <2>3, Fields DEF Sound, Counted
    <3>2. \A i \in M \ R : b.cells[i].pos >= 0 /\ b.cells[i].seqs # {} /\ b.cells[i] = c.cells[i]
      BY <2>1, <2>3, <3>1, BoundsAssumption DEF Positions
    <3>3. \A i \in M \ R : f[i].pos >= 0
      BY <2>8, BoundsAssumption DEF Positions
    <3>. QED
      BY <2>8, <2>9, <3>1, <3>2, <3>3
  <2>13. d \in Cache(n)
    BY <2>4, <2>5, <2>7, <2>11, Zenon DEF Cache
  <2>14. d.cells = f /\ d.used = e.used /\ d.valid = e.valid
    BY <2>4, <2>7, Zenon DEF Cache
  <2>15. Good(n, d)
    BY <2>3, <2>7, <2>12, <2>13, <2>14, RecelledGood
  <2>. QED
    BY <2>15 DEF d
<1>. QED
  BY <1>2, <1>3

LEMMA QuotientIn ==
    ASSUME NEW p \in Nat, NEW k \in Nat \ {0}
    PROVE  p \div k \in 0..p
  BY SMTT(30)

LEMMA DivGood ==
    ASSUME NEW n \in Nat, NEW c, Sound(n, c), NEW s \in Seqs,
           NEW p0 \in 0..End, NEW p1 \in Int, NEW k \in Nat \ {0}
    PROVE  Good(n, SeqDiv(c, s, p0, p1, k))
<1> DEFINE R == InRange(c, s, p0, p1)
<1> DEFINE e == Invalidated(c)
<1> DEFINE f == [i \in Rows(c) |->
                   IF i \in R THEN [pos |-> e.cells[i].pos \div k, seqs |-> e.cells[i].seqs]
                   ELSE e.cells[i]]
<1> DEFINE d == SeqDiv(c, s, p0, p1, k)
<1>1. /\ c \in Cache(n) /\ Counted(c) /\ c.size = n /\ Rows(c) = 0..(n - 1)
      /\ \A i \in 0..(n - 1) : c.cells[i] \in Cell
  BY Fields DEF Sound
<1>2. e \in Cache(n) /\ e.cells = c.cells /\ e.used = c.used /\ ~e.valid
  BY <1>1, InvalidatedIs
<1>3. d = [e EXCEPT !.cells = f]
  BY Zenon DEF SeqDiv
<1>4. /\ R \in SUBSET (0..(n - 1))
      /\ \A i \in R : s \in c.cells[i].seqs /\ c.cells[i].pos \in Positions
  BY <1>1, InRangeRows
<1>5. \A i \in R : c.cells[i].pos \div k \in Positions
  <2>1. \A p \in Positions : p \in Nat /\ 0..p \subseteq Positions
    BY BoundsAssumption DEF Positions
  <2>. QED
    BY <1>4, <2>1, QuotientIn
<1>. HIDE DEF R, e, d
<1>6. \A i \in R : /\ f[i] \in Cell /\ f[i].seqs = c.cells[i].seqs
                   /\ f[i].pos \in Positions
  BY <1>1, <1>2, <1>4, <1>5 DEF Cell
<1>7. \A i \in (0..(n - 1)) \ R : f[i] = c.cells[i]
  BY <1>1, <1>2
<1>9. f \in [0..(n - 1) -> Cell]
  BY <1>1, <1>4, <1>6, <1>7
<1>. HIDE DEF f
<1>10. \A i \in 0..(n - 1) : /\ f[i].pos >= 0 <=> c.cells[i].pos >= 0
                             /\ f[i].pos >= 0 <=> f[i].seqs # {}
  <2>1. \A p \in Positions : p >= 0
    BY BoundsAssumption DEF Positions
  <2>2. \A i \in 0..(n - 1) : c.cells[i].pos >= 0 <=> c.cells[i].seqs # {}
    BY <1>1 DEF Counted
  <2>. QED
    BY <1>4, <1>6, <1>7, <2>1, <2>2
<1>11. d \in Cache(n)
  BY <1>2, <1>3, <1>9, Zenon DEF Cache
<1>12. d.cells = f /\ d.used = e.used /\ d.valid = e.valid
  BY <1>2, <1>3, Zenon DEF Cache
<1>. QED
  <2>1. Good(n, d)
    BY <1>2, <1>10, <1>11, <1>12, RecelledGood
  <2>. QED
    BY <2>1 DEF d

-----------------------------------------------------------------------------
(* The index                                                               *)

LEMMA ExactIn ==
    ASSUME NEW n \in Nat, NEW c \in Cache(n)
    PROVE  Exact(c) \in SUBSET (Seqs \X Positions \X (0..(n - 1)))
<1>1. Rows(c) = 0..(n - 1)
  BY Fields
<1>. QED
  BY <1>1 DEF Exact

\* What an entry says of the cells.
LEMMA ExactIff ==
    ASSUME NEW n \in Nat, NEW c \in Cache(n), NEW s, NEW p, NEW i
    PROVE  <<s, p, i>> \in Exact(c) <=>
              /\ s \in Seqs /\ p \in Positions /\ i \in 0..(n - 1)
              /\ c.cells[i].pos = p /\ s \in c.cells[i].seqs
<1>1. Rows(c) = 0..(n - 1)
  BY Fields
<1>. QED
  BY <1>1 DEF Exact

\* Two sets of entries with the same triples are equal.
LEMMA EntriesEqual ==
    ASSUME NEW n \in Nat, NEW A \in SUBSET (Seqs \X Positions \X (0..(n - 1))),
           NEW B \in SUBSET (Seqs \X Positions \X (0..(n - 1))),
           \A s \in Seqs, p \in Positions, i \in 0..(n - 1) :
              <<s, p, i>> \in A <=> <<s, p, i>> \in B
    PROVE  A = B
<1>1. \A e \in Seqs \X Positions \X (0..(n - 1)) :
         \E s \in Seqs, p \in Positions, i \in 0..(n - 1) : e = <<s, p, i>>
  OBVIOUS
<1>. QED
  BY <1>1

\* Caches with the same cells and count.
LEMMA SameCells ==
    ASSUME NEW n \in Nat, NEW c, Sound(n, c), NEW d \in Cache(n),
           d.cells = c.cells, d.used = c.used
    PROVE  Sound(n, d) /\ Exact(d) = Exact(c)
<1>1. c \in Cache(n) /\ Counted(c) /\ d.size = c.size
  BY Fields DEF Sound
<1>2. Counted(d)
  BY <1>1, Zenon DEF Counted, Used, Rows
<1>3. Exact(d) = Exact(c)
  BY <1>1, Zenon DEF Exact, Rows
<1>. QED
  BY <1>2, <1>3 DEF Sound

LEMMA RebuiltIs ==
    ASSUME NEW n \in Nat, NEW c, Sound(n, c)
    PROVE  /\ Good(n, Rebuilt(c)) /\ Rebuilt(c).valid /\ Rebuilt(c).index = Exact(Rebuilt(c))
           /\ Rebuilt(c).cells = c.cells /\ Rebuilt(c).used = c.used
           /\ Rebuilt(c).head = c.head
<1>1. c \in Cache(n) /\ Exact(c) \in SUBSET (Seqs \X Positions \X (0..(n - 1)))
  BY ExactIn DEF Sound
<1>2. Rebuilt(c) \in Cache(n)
  BY <1>1, Zenon DEF Cache, Rebuilt
<1>3. /\ Rebuilt(c).cells = c.cells /\ Rebuilt(c).used = c.used /\ Rebuilt(c).head = c.head
      /\ Rebuilt(c).valid /\ Rebuilt(c).index = Exact(c)
  BY <1>1, Zenon DEF Cache, Rebuilt
<1>4. Sound(n, Rebuilt(c)) /\ Exact(Rebuilt(c)) = Exact(c)
  BY <1>2, <1>3, SameCells
<1>. QED
  BY <1>3, <1>4 DEF Good, Indexed

\* Untagging reads the cells, the count and the head only.
LEMMA UntaggedAlike ==
    ASSUME NEW n \in Nat, NEW c \in Cache(n), NEW d \in Cache(n), NEW s, NEW rows,
           d.cells = c.cells, d.used = c.used, d.head = c.head
    PROVE  LET a == Untagged(c, s, rows)
               b == Untagged(d, s, rows)
           IN  a.cells = b.cells /\ a.used = b.used /\ a.head = b.head
<1> DEFINE freed == {i \in rows : c.cells[i].seqs \subseteq {s}}
<1> DEFINE f == [i \in Rows(c) |-> IF i \in rows THEN Without(c.cells[i], s) ELSE c.cells[i]]
<1> DEFINE u == c.used - Occupied(c, freed)
<1> DEFINE h == LowerHead(c, freed)
<1>1. Untagged(c, s, rows) = [c EXCEPT !.cells = f, !.used = u, !.head = h]
  BY Zenon DEF Untagged
<1>2. Rows(d) = Rows(c)
  BY Fields
<1>3. Untagged(d, s, rows) = [d EXCEPT !.cells = f, !.used = u, !.head = h]
  BY <1>2, Zenon DEF Untagged, Occupied, LowerHead
<1>. HIDE DEF f, u, h
<1>4. /\ Untagged(c, s, rows).cells = f /\ Untagged(c, s, rows).used = u
      /\ Untagged(c, s, rows).head = h
  BY <1>1, Zenon DEF Cache
<1>5. /\ Untagged(d, s, rows).cells = f /\ Untagged(d, s, rows).used = u
      /\ Untagged(d, s, rows).head = h
  BY <1>3, Zenon DEF Cache
<1>. QED
  BY <1>4, <1>5

\* The indexed removal: it leaves the cells, the count and the head that the
\* scan leaves, and an exact index.
LEMMA RmIndexedIs ==
    ASSUME NEW n \in Nat, NEW c, Good(n, c), NEW s \in Seqs,
           NEW p0 \in 0..End, NEW p1 \in Int
    PROVE  LET a == RmIndexed(c, s, p0, p1)
               b == RmScan(c, s, p0, p1)
           IN  Good(n, a) /\ a.cells = b.cells /\ a.used = b.used /\ a.head = b.head
<1> DEFINE d == IF InSync(c) THEN c ELSE Rebuilt(c)
<1> DEFINE hits == {e \in d.index : e[1] = s /\ e[2] >= p0 /\ e[2] < p1}
<1> DEFINE rows == {e[3] : e \in {h \in hits : /\ d.cells[h[3]].pos = h[2]
                                               /\ s \in d.cells[h[3]].seqs}}
<1> DEFINE u == Untagged(d, s, rows)
<1> DEFINE r == [u EXCEPT !.index = u.index \ hits]
<1>1. RmIndexed(c, s, p0, p1) = r
  BY Zenon DEF RmIndexed
<1>2. Sound(n, c) /\ c \in Cache(n) /\ Indexed(c)
  BY DEF Good, Sound
<1>3. /\ Sound(n, d) /\ d \in Cache(n) /\ d.index = Exact(d)
      /\ d.cells = c.cells /\ d.used = c.used /\ d.head = c.head
  <2>1. CASE InSync(c)
    BY <1>2, <2>1 DEF InSync, Indexed
  <2>2. CASE ~InSync(c)
    BY <1>2, <2>2, RebuiltIs DEF Good, Sound
  <2>. QED
    BY <2>1, <2>2
<1>4. /\ d.size = n /\ c.size = n /\ Rows(d) = 0..(n - 1)
      /\ \A i \in 0..(n - 1) : d.cells[i] \in Cell
      /\ \A i \in 0..(n - 1) : d.cells[i].pos >= 0 <=> d.cells[i].seqs # {}
  BY <1>2, <1>3, Fields DEF Sound, Counted
<1>. HIDE DEF d
<1>5. \A t \in Seqs, p \in Positions, i \in 0..(n - 1) :
         <<t, p, i>> \in hits <=>
            /\ t = s /\ p >= p0 /\ p < p1
            /\ d.cells[i].pos = p /\ s \in d.cells[i].seqs
  <2>. TAKE t \in Seqs, p \in Positions, i \in 0..(n - 1)
  <2>1. <<t, p, i>> \in hits <=> <<t, p, i>> \in d.index /\ t = s /\ p >= p0 /\ p < p1
    OBVIOUS
  <2>2. <<t, p, i>> \in Exact(d) <=> d.cells[i].pos = p /\ t \in d.cells[i].seqs
    BY <1>3, ExactIff
  <2>. HIDE DEF hits
  <2>. QED
    BY <1>3, <2>1, <2>2
<1>6. hits \in SUBSET (Seqs \X Positions \X (0..(n - 1)))
  BY <1>3, ExactIn
<1>7. \A i \in 0..(n - 1) : d.cells[i].pos >= 0 => d.cells[i].pos \in Positions
  BY <1>4, BoundsAssumption DEF Cell, Positions
<1>8. InRange(c, s, p0, p1) = InRange(d, s, p0, p1)
  BY <1>3, <1>4, Zenon DEF InRange, Tagged, Rows
<1>9. \A i : i \in InRange(d, s, p0, p1) <=>
                /\ i \in 0..(n - 1) /\ s \in d.cells[i].seqs
                /\ d.cells[i].pos >= p0 /\ d.cells[i].pos < p1
  BY <1>4 DEF InRange, Tagged
<1>10. rows \in SUBSET (0..(n - 1)) /\ rows = InRange(d, s, p0, p1)
  <2>1. \A e \in hits : /\ e = <<s, e[2], e[3]>> /\ e[2] \in Positions /\ e[3] \in 0..(n - 1)
                        /\ e[2] >= p0 /\ e[2] < p1
                        /\ d.cells[e[3]].pos = e[2] /\ s \in d.cells[e[3]].seqs
    <3>1. \A e \in hits : /\ e = <<e[1], e[2], e[3]>> /\ e[1] = s
                          /\ e[2] \in Positions /\ e[3] \in 0..(n - 1)
      <4>1. \A e \in hits : e[1] = s
        OBVIOUS
      <4>. HIDE DEF hits
      <4>. QED
        BY <1>6, <4>1
    <3>. HIDE DEF hits
    <3>. QED
      BY <1>5, <3>1
  <2>2. \A i \in 0..(n - 1) : i \in InRange(d, s, p0, p1) =>
           <<s, d.cells[i].pos, i>> \in hits
    <3>1. \A i \in 0..(n - 1) : i \in InRange(d, s, p0, p1) => d.cells[i].pos \in Positions
      <4>1. \A i \in 0..(n - 1) : d.cells[i].pos \in Int
        BY <1>4, BoundsAssumption DEF Cell, Positions
      <4>2. p0 \in Nat
        BY BoundsAssumption DEF End
      <4>. QED
        BY <1>7, <1>9, <4>1, <4>2
    <3>. HIDE DEF hits
    <3>. QED
      BY <1>5, <1>9, <3>1
  <2>. HIDE DEF hits
  <2>3. rows \subseteq InRange(d, s, p0, p1)
    BY <1>9, <2>1
  <2>4. \A i \in InRange(d, s, p0, p1) : i \in rows
    <3>. TAKE i \in InRange(d, s, p0, p1)
    <3>1. <<s, d.cells[i].pos, i>> \in hits
      BY <1>9, <2>2
    <3>2. <<s, d.cells[i].pos, i>>[3] = i /\ <<s, d.cells[i].pos, i>>[2] = d.cells[i].pos
      OBVIOUS
    <3>. QED
      BY <1>9, <3>1, <3>2
  <2>. HIDE DEF rows
  <2>. QED
    BY <1>9, <2>3, <2>4
<1>. HIDE DEF rows
<1>11. /\ Sound(n, u) /\ u \in Cache(n) /\ SameIndex(d, u)
       /\ \A i \in 0..(n - 1) :
             u.cells[i] = IF i \in rows THEN Without(d.cells[i], s) ELSE d.cells[i]
  BY <1>3, <1>10, UntaggedSound DEF Sound
<1>12. u.cells = RmScan(c, s, p0, p1).cells /\ u.used = RmScan(c, s, p0, p1).used
       /\ u.head = RmScan(c, s, p0, p1).head
  BY <1>2, <1>3, <1>8, <1>10, UntaggedAlike DEF RmScan
<1>. HIDE DEF u, hits
<1>13. Exact(u) = Exact(d) \ hits
  <2>1. /\ Exact(u) \in SUBSET (Seqs \X Positions \X (0..(n - 1)))
        /\ Exact(d) \ hits \in SUBSET (Seqs \X Positions \X (0..(n - 1)))
    BY <1>3, <1>11, ExactIn
  <2>2. ASSUME NEW t \in Seqs, NEW p \in Positions, NEW i \in 0..(n - 1)
        PROVE  <<t, p, i>> \in Exact(u) <=> <<t, p, i>> \in Exact(d) \ hits
    <3>1. <<t, p, i>> \in Exact(u) <=> u.cells[i].pos = p /\ t \in u.cells[i].seqs
      BY <1>11, ExactIff
    <3>2. <<t, p, i>> \in Exact(d) <=> d.cells[i].pos = p /\ t \in d.cells[i].seqs
      BY <1>3, ExactIff
    <3>3. <<t, p, i>> \in hits <=> /\ t = s /\ p >= p0 /\ p < p1
                                   /\ d.cells[i].pos = p /\ s \in d.cells[i].seqs
      BY <1>5
    <3>4. p # -1
      BY BoundsAssumption DEF Positions
    <3>5. CASE i \in rows
      <4>1. u.cells[i].seqs = d.cells[i].seqs \ {s}
        BY <1>4, <1>11, <3>5, WithoutIs
      <4>2. u.cells[i].pos = d.cells[i].pos \/ u.cells[i].seqs = {}
        BY <1>4, <1>11, <3>5, <4>1, WithoutIs
      <4>3. s \in d.cells[i].seqs /\ d.cells[i].pos >= p0 /\ d.cells[i].pos < p1
        BY <1>9, <1>10, <3>5
      <4>. QED
        BY <3>1, <3>2, <3>3, <4>1, <4>2, <4>3
    <3>6. CASE i \notin rows
      <4>1. u.cells[i] = d.cells[i]
        BY <1>11, <3>6
      <4>2. <<t, p, i>> \notin hits
        BY <1>9, <1>10, <3>3, <3>6
      <4>. QED
        BY <3>1, <3>2, <4>1, <4>2
    <3>. QED
      BY <3>5, <3>6
  <2>. QED
    BY <2>1, <2>2, EntriesEqual
<1>14. r \in Cache(n)
  <2>1. u.index \ hits \in SUBSET (Seqs \X Positions \X (0..(n - 1)))
    BY <1>11, Fields
  <2>. QED
    BY <1>11, <2>1, Zenon DEF Cache
<1>15. /\ r.cells = u.cells /\ r.used = u.used /\ r.head = u.head
       /\ r.index = u.index \ hits
  BY <1>11, Zenon DEF Cache
<1>. HIDE DEF r
<1>16. Good(n, r)
  <2>1. Sound(n, r) /\ Exact(r) = Exact(u)
    BY <1>11, <1>14, <1>15, SameCells
  <2>2. u.index = Exact(d)
    BY <1>3, <1>11 DEF SameIndex
  <2>. QED
    BY <1>13, <1>15, <2>1, <2>2 DEF Good, Indexed
<1>. QED
  BY <1>1, <1>12, <1>15, <1>16

LEMMA RmGood ==
    ASSUME NEW n \in Nat, NEW c, Good(n, c), NEW s \in Seqs,
           NEW p0 \in 0..End, NEW p1 \in Int
    PROVE  Good(n, SeqRm(c, s, p0, p1))
<1>1. Sound(n, c) /\ c \in Cache(n)
  BY DEF Good, Sound
<1>2. InRange(c, s, p0, p1) \in SUBSET (0..(n - 1))
  BY <1>1, InRangeRows
<1>3. Sound(n, RmScan(c, s, p0, p1))
  BY <1>1, <1>2, UntaggedSound DEF RmScan
<1>4. Good(n, Invalidated(RmScan(c, s, p0, p1)))
  BY <1>3, InvalidatedGood
<1>5. Good(n, RmIndexed(c, s, p0, p1))
  BY RmIndexedIs
<1>. QED
  BY <1>4, <1>5 DEF SeqRm

-----------------------------------------------------------------------------
(* Placing, retiring and giving back rows                                  *)

LEMMA ClearedGood ==
    ASSUME NEW n \in Nat, NEW c \in Cache(n)
    PROVE  Good(n, Cleared(c))
<1> DEFINE f == [i \in Rows(c) |-> Hole]
<1> DEFINE d == [c EXCEPT !.cells = f, !.head = 0, !.used = 0,
                          !.index = {}, !.valid = TRUE, !.synced = TRUE]
<1>1. Cleared(c) = d
  BY Zenon DEF Cleared
<1>2. Rows(c) = 0..(n - 1)
  BY Fields
<1>3. f \in [0..(n - 1) -> Cell] /\ \A i \in 0..(n - 1) : f[i].pos = -1 /\ f[i].seqs = {}
  BY <1>2 DEF Hole, Cell
<1>4. 0 \in 0..n /\ 0 \in Int
  OBVIOUS
<1>. HIDE DEF f
<1>5. d \in Cache(n)
  BY <1>3, <1>4, Zenon DEF Cache
<1>6. d.cells = f /\ d.used = 0 /\ d.index = {}
  BY Zenon DEF Cache
<1>. HIDE DEF d
<1>7. Rows(d) = 0..(n - 1)
  BY <1>5, Fields
<1>8. Used(d) = {}
  BY <1>3, <1>6, <1>7 DEF Used
<1>9. Exact(d) = {}
  BY <1>3, <1>6, <1>7 DEF Exact
<1>10. \A i \in Rows(d) : d.cells[i].pos >= 0 <=> d.cells[i].seqs # {}
  BY <1>3, <1>6, <1>7
<1>. QED
  BY <1>1, <1>5, <1>6, <1>8, <1>9, <1>10, FS_EmptySet
     DEF Good, Sound, Counted, Indexed

LEMMA FreshGood ==
    ASSUME NEW n \in Nat
    PROVE  Good(n, Fresh(n))
<1> DEFINE d == Fresh(n)
<1>1. /\ d \in Cache(n) /\ d.used = 0 /\ ~d.valid /\ Rows(d) = 0..(n - 1)
      /\ \A i \in 0..(n - 1) : d.cells[i].pos = -1 /\ d.cells[i].seqs = {}
  BY DEF Fresh, Cache, Rows, Hole, Cell
<1>. HIDE DEF d
<1>2. Used(d) = {}
  BY <1>1 DEF Used
<1>3. \A i \in Rows(d) : d.cells[i].pos >= 0 <=> d.cells[i].seqs # {}
  BY <1>1
<1>4. Good(n, d)
  BY <1>1, <1>2, <1>3, FS_EmptySet DEF Good, Sound, Counted, Indexed
<1>. QED
  BY <1>4 DEF d

\* The head hint may be anywhere in the cache.
LEMMA HeadGood ==
    ASSUME NEW n \in Nat, NEW c, Good(n, c), NEW h \in 0..n
    PROVE  Good(n, [c EXCEPT !.head = h])
<1> DEFINE d == [c EXCEPT !.head = h]
<1>1. Sound(n, c) /\ Indexed(c) /\ c \in Cache(n)
  BY DEF Good, Sound
<1>2. d \in Cache(n)
  BY <1>1, Zenon DEF Cache
<1>3. d.cells = c.cells /\ d.used = c.used /\ d.index = c.index /\ d.valid = c.valid
  BY <1>1, Zenon DEF Cache
<1>. HIDE DEF d
<1>4. Good(n, d)
  BY <1>1, <1>2, <1>3, SameCells DEF Good, Indexed
<1>. QED
  BY <1>4 DEF d

LEMMA StaleGood ==
    ASSUME NEW n \in Nat, NEW c, Good(n, c)
    PROVE  Good(n, Stale(c))
<1> DEFINE d == Stale(c)
<1>1. Sound(n, c) /\ Indexed(c) /\ c \in Cache(n)
  BY DEF Good, Sound
<1>2. d \in Cache(n)
  BY <1>1, Zenon DEF Cache, Stale
<1>3. d.cells = c.cells /\ d.used = c.used /\ d.index = c.index /\ d.valid = c.valid
  BY <1>1, Zenon DEF Cache, Stale
<1>. HIDE DEF d
<1>4. Good(n, d)
  BY <1>1, <1>2, <1>3, SameCells DEF Good, Indexed
<1>. QED
  BY <1>4 DEF d

\* Rows that are emptied with their entries struck.
LEMMA StruckGood ==
    ASSUME NEW n \in Nat, NEW c, Good(n, c), NEW rows \in SUBSET (0..(n - 1)), NEW h \in 0..n
    PROVE  /\ Good(n, Struck(c, [Emptied(c, rows) EXCEPT !.head = h], Entries(c, rows)))
           /\ Good(n, Struck(c, Emptied(c, rows), Entries(c, rows)))
<1>1. Sound(n, c) /\ Indexed(c) /\ c \in Cache(n)
  BY DEF Good, Sound
<1> DEFINE b == Emptied(c, rows)
<1>2. /\ Sound(n, b) /\ b \in Cache(n) /\ SameIndex(c, b)
      /\ \A i \in 0..(n - 1) : b.cells[i] = IF i \in rows THEN Hole ELSE c.cells[i]
  BY <1>1, EmptiedSound DEF Sound
<1>. HIDE DEF b
<1>3. /\ Exact(b) \in SUBSET (Seqs \X Positions \X (0..(n - 1)))
      /\ Exact(c) \in SUBSET (Seqs \X Positions \X (0..(n - 1)))
  BY <1>1, <1>2, ExactIn
<1>4. Exact(b) = Exact(c) \ Entries(c, rows)
  <2>1. ASSUME NEW t \in Seqs, NEW p \in Positions, NEW i \in 0..(n - 1)
        PROVE  <<t, p, i>> \in Exact(b) <=> <<t, p, i>> \in Exact(c) \ Entries(c, rows)
    <3>1. <<t, p, i>> \in Exact(b) <=> b.cells[i].pos = p /\ t \in b.cells[i].seqs
      BY <1>2, ExactIff
    <3>2. <<t, p, i>> \in Exact(c) <=> c.cells[i].pos = p /\ t \in c.cells[i].seqs
      BY <1>1, ExactIff
    <3>3. <<t, p, i>> \in Entries(c, rows) <=> <<t, p, i>> \in Exact(c) /\ i \in rows
      BY DEF Entries
    <3>. QED
      BY <1>2, <3>1, <3>2, <3>3 DEF Hole
  <2>2. Exact(c) \ Entries(c, rows) \in SUBSET (Seqs \X Positions \X (0..(n - 1)))
    BY <1>3
  <2>. QED
    BY <1>3, <2>1, <2>2, EntriesEqual
<1>5. ASSUME NEW e, Sound(n, e), Exact(e) = Exact(b), e.index = c.index, e.valid = c.valid
      PROVE  Good(n, Struck(c, e, Entries(c, rows)))
  <2> DEFINE x == IF c.valid THEN e.index \ Entries(c, rows) ELSE e.index
  <2> DEFINE r == [e EXCEPT !.index = x]
  <2>1. Struck(c, e, Entries(c, rows)) = r
    BY Zenon DEF Struck
  <2>2. e \in Cache(n)
    BY <1>5 DEF Sound
  <2>3. x \in SUBSET (Seqs \X Positions \X (0..(n - 1)))
    BY <2>2, Fields
  <2>4. c.valid => x = Exact(e)
    BY <1>1, <1>4, <1>5 DEF Indexed
  <2>. HIDE DEF x
  <2>5. r \in Cache(n)
    BY <2>2, <2>3, Zenon DEF Cache
  <2>6. r.cells = e.cells /\ r.used = e.used /\ r.index = x /\ r.valid = e.valid
    BY <2>2, Zenon DEF Cache
  <2>. HIDE DEF r
  <2>7. Sound(n, r) /\ Exact(r) = Exact(e)
    BY <1>5, <2>5, <2>6, SameCells
  <2>. QED
    BY <1>5, <2>1, <2>4, <2>6, <2>7 DEF Good, Indexed
<1>6. Good(n, Struck(c, b, Entries(c, rows)))
  BY <1>2, <1>5 DEF SameIndex
<1>7. Good(n, Struck(c, [b EXCEPT !.head = h], Entries(c, rows)))
  <2> DEFINE e == [b EXCEPT !.head = h]
  <2>1. e \in Cache(n)
    BY <1>2, Zenon DEF Cache
  <2>2. e.cells = b.cells /\ e.used = b.used /\ e.index = b.index /\ e.valid = b.valid
    BY <1>2, Zenon DEF Cache
  <2>. HIDE DEF e
  <2>3. Sound(n, e) /\ Exact(e) = Exact(b)
    BY <1>2, <2>1, <2>2, SameCells
  <2>4. Good(n, Struck(c, e, Entries(c, rows)))
    BY <1>2, <1>5, <2>2, <2>3 DEF SameIndex
  <2>. QED
    BY <2>4 DEF e
<1>. QED
  BY <1>6, <1>7, Zenon DEF b

LEMMA EvictedGood ==
    ASSUME NEW n \in Nat, NEW c, Good(n, c), NEW batch, NEW guard
    PROVE  Good(n, Evicted(c, batch, guard))
<1> DEFINE dead == Dead(c, batch, guard)
<1>1. c \in Cache(n)
  BY DEF Good, Sound
<1>2. dead \in SUBSET (0..(n - 1))
  BY <1>1, Fields DEF Dead
<1>3. LowerHead(c, dead) \in 0..n
  <2>. HIDE DEF dead
  <2>. QED
    BY <1>1, <1>2, LowerHeadIn
<1>. QED
  BY <1>2, <1>3, StruckGood, Zenon DEF Evicted

LEMMA ReleasedGood ==
    ASSUME NEW n \in Nat, NEW c, Good(n, c), NEW k
    PROVE  Good(n, Released(c, k))
<1> DEFINE rows == Rows(c) \cap (c.head..(c.head + k - 1))
<1>1. c \in Cache(n)
  BY DEF Good, Sound
<1>2. rows \in SUBSET (0..(n - 1)) /\ 0 \in 0..n
  BY <1>1, Fields
<1>. QED
  BY <1>2, StruckGood, Zenon DEF Released

\* A ubatch is a sequence of tokens.
Token == [seq : Seqs, pos : Positions]
IsBatch(batch) == batch \in Seq(Token) /\ Len(batch) > 0

LEMMA BatchIs ==
    ASSUME NEW batch, IsBatch(batch)
    PROVE  /\ Len(batch) \in Nat \ {0}
           /\ \A j \in 1..Len(batch) : batch[j].seq \in Seqs /\ batch[j].pos \in Positions
<1>1. Len(batch) \in Nat \ {0} /\ \A j \in 1..Len(batch) : batch[j] \in Token
  BY DEF IsBatch
<1>. QED
  BY <1>1 DEF Token

\* The search finds rows that are free.
LEMMA StartIs ==
    ASSUME NEW n \in Nat, NEW c \in Cache(n), NEW k \in Nat \ {0}, Room(c, k)
    PROVE  /\ Start(c, k) \in 0..n /\ Start(c, k) + k =< n
           /\ \A i \in Start(c, k)..(Start(c, k) + k - 1) : c.cells[i].pos < 0
<1> DEFINE ahead == {h \in Starts(c, k) : h >= c.head}
<1>1. Rows(c) = 0..(n - 1) /\ c.size = n
  BY Fields
<1>2. /\ Starts(c, k) \in SUBSET Nat /\ Starts(c, k) # {}
      /\ \A h \in Starts(c, k) : h \in 0..n /\ h + k =< n /\ Fits(c, h, k)
  BY <1>1 DEF Starts, Room
<1>3. Start(c, k) \in Starts(c, k)
  <2>1. ahead \in SUBSET Nat /\ ahead \subseteq Starts(c, k)
    BY <1>2
  <2>2. ahead # {} => Min(ahead) \in ahead
    BY <2>1, MinIn
  <2>3. Min(Starts(c, k)) \in Starts(c, k)
    BY <1>2, MinIn
  <2>4. Start(c, k) = IF ahead # {} THEN Min(ahead) ELSE Min(Starts(c, k))
    BY Zenon DEF Start
  <2>. HIDE DEF ahead
  <2>. QED
    BY <2>1, <2>2, <2>3, <2>4
<1>. QED
  BY <1>2, <1>3 DEF Fits

LEMMA PlacedGood ==
    ASSUME NEW n \in Nat, NEW c, Good(n, c), NEW batch, IsBatch(batch), Room(c, Len(batch))
    PROVE  Good(n, Placed(c, batch))
<1> DEFINE k == Len(batch)
<1> DEFINE h == Start(c, k)
<1> DEFINE rows == h..(h + k - 1)
<1> DEFINE f == [i \in Rows(c) |->
                   IF i \in rows THEN [pos |-> batch[i - h + 1].pos,
                                       seqs |-> {batch[i - h + 1].seq}]
                   ELSE c.cells[i]]
<1> DEFINE u == c.used + k
<1> DEFINE d == [c EXCEPT !.cells = f, !.used = u, !.head = h]
<1> DEFINE x == IF c.valid THEN d.index \cup Entries(d, rows) ELSE d.index
<1> DEFINE r == [d EXCEPT !.index = x]
<1>1. Placed(c, batch) = r
  BY Zenon DEF Placed, Noted
<1>2. /\ Sound(n, c) /\ Indexed(c) /\ c \in Cache(n) /\ c.size = n /\ Rows(c) = 0..(n - 1)
      /\ \A i \in 0..(n - 1) : c.cells[i] \in Cell
      /\ \A i \in 0..(n - 1) : c.cells[i].pos >= 0 <=> c.cells[i].seqs # {}
      /\ c.used = Cardinality(Used(c)) /\ c.used \in Int
  BY Fields DEF Good, Sound, Counted
<1>3. /\ k \in Nat \ {0}
      /\ \A j \in 1..k : batch[j].seq \in Seqs /\ batch[j].pos \in Positions
  BY BatchIs
<1>4. /\ h \in 0..n /\ h + k =< n
      /\ \A i \in rows : c.cells[i].pos < 0
  BY <1>2, <1>3, StartIs
<1>5. \A p \in Positions : p >= 0 /\ p # -1 /\ p \in Int
  BY BoundsAssumption DEF Positions
<1>. HIDE DEF k, h
<1>6. /\ rows \in SUBSET (0..(n - 1)) /\ Cardinality(rows) = k
      /\ \A i \in rows : i - h + 1 \in 1..k
  <2>1. h \in Int /\ h + k - 1 \in Int
    BY <1>3, <1>4
  <2>2. Cardinality(rows) = IF h > h + k - 1 THEN 0 ELSE (h + k - 1) - h + 1
    BY <2>1, FS_Interval, Zenon
  <2>. QED
    BY <1>3, <1>4, <2>2
<1>. HIDE DEF rows
<1>7. \A i \in rows : f[i] \in Cell /\ f[i].pos >= 0 /\ f[i].seqs # {}
  BY <1>2, <1>3, <1>5, <1>6 DEF Cell
<1>8. \A i \in (0..(n - 1)) \ rows : f[i] = c.cells[i]
  BY <1>2
<1>9. f \in [0..(n - 1) -> Cell]
  BY <1>2, <1>6, <1>7, <1>8
<1>10. u \in Int
  BY <1>2, <1>3
<1>. HIDE DEF f, u
<1>11. d \in Cache(n)
  BY <1>2, <1>4, <1>9, <1>10, Zenon DEF Cache
<1>12. d.cells = f /\ d.used = u /\ d.index = c.index /\ d.valid = c.valid
  BY <1>2, Zenon DEF Cache
<1>. HIDE DEF d
<1>13. Rows(d) = 0..(n - 1)
  BY <1>11, Fields
<1>14. Used(d) = Used(c) \cup rows /\ Used(c) \cap rows = {} /\ Used(c) \subseteq 0..(n - 1)
  <2>1. \A i \in 0..(n - 1) : i \in Used(d) <=> i \in rows \/ c.cells[i].pos >= 0
    <3>1. \A i \in 0..(n - 1) : i \in Used(d) <=> f[i].pos >= 0
      BY <1>12, <1>13 DEF Used
    <3>. QED
      BY <1>7, <1>8, <3>1
  <2>2. Used(d) \subseteq 0..(n - 1)
    BY <1>13 DEF Used
  <2>3. Used(c) = {i \in 0..(n - 1) : c.cells[i].pos >= 0}
    BY <1>2 DEF Used
  <2>4. \A i \in rows : ~(c.cells[i].pos >= 0)
    <3>1. \A i \in rows : c.cells[i].pos \in Int
      BY <1>2, <1>5, <1>6 DEF Cell
    <3>. QED
      BY <1>4, <3>1
  <2>. QED
    BY <1>6, <2>1, <2>2, <2>3, <2>4
<1>15. d.used = Cardinality(Used(d))
  <2>1. IsFiniteSet(Used(c)) /\ IsFiniteSet(rows)
    BY <1>6, <1>14, RowsFinite
  <2>2. Cardinality(Used(d)) = Cardinality(Used(c)) + Cardinality(rows) - Cardinality({})
    BY <1>14, <2>1, FS_Union
  <2>3. Cardinality({}) = 0
    BY FS_EmptySet
  <2>. QED
    BY <1>2, <1>3, <1>6, <1>12, <2>2, <2>3 DEF u
<1>16. \A i \in Rows(d) : d.cells[i].pos >= 0 <=> d.cells[i].seqs # {}
  BY <1>2, <1>7, <1>8, <1>12, <1>13
<1>17. Sound(n, d)
  BY <1>11, <1>15, <1>16 DEF Sound, Counted
<1>18. c.valid => x = Exact(d)
  <2>. SUFFICES ASSUME c.valid PROVE x = Exact(d)
    OBVIOUS
  <2>1. x = Exact(c) \cup Entries(d, rows)
    BY <1>2, <1>12 DEF Indexed
  <2>2. /\ Exact(d) \in SUBSET (Seqs \X Positions \X (0..(n - 1)))
        /\ Exact(c) \in SUBSET (Seqs \X Positions \X (0..(n - 1)))
    BY <1>2, <1>11, ExactIn
  <2>3. Entries(d, rows) \subseteq Exact(d)
    BY DEF Entries
  <2>4. ASSUME NEW t \in Seqs, NEW p \in Positions, NEW i \in 0..(n - 1)
        PROVE  <<t, p, i>> \in Exact(c) \cup Entries(d, rows) <=> <<t, p, i>> \in Exact(d)
    <3>1. <<t, p, i>> \in Exact(d) <=> d.cells[i].pos = p /\ t \in d.cells[i].seqs
      BY <1>11, ExactIff
    <3>2. <<t, p, i>> \in Exact(c) <=> c.cells[i].pos = p /\ t \in c.cells[i].seqs
      BY <1>2, ExactIff
    <3>3. <<t, p, i>> \in Entries(d, rows) <=> <<t, p, i>> \in Exact(d) /\ i \in rows
      BY DEF Entries
    <3>4. CASE i \in rows
      BY <1>4, <1>5, <3>2, <3>3, <3>4
    <3>5. CASE i \notin rows
      BY <1>8, <1>12, <3>1, <3>2, <3>3, <3>5
    <3>. QED
      BY <3>4, <3>5
  <2>5. Exact(c) \cup Entries(d, rows) \in SUBSET (Seqs \X Positions \X (0..(n - 1)))
    BY <2>2, <2>3
  <2>. QED
    BY <2>1, <2>2, <2>4, <2>5, EntriesEqual
<1>19. x \in SUBSET (Seqs \X Positions \X (0..(n - 1)))
  BY <1>11, <1>18, Fields, ExactIn DEF Entries
<1>. HIDE DEF x
<1>20. r \in Cache(n)
  BY <1>11, <1>19, Zenon DEF Cache
<1>21. r.cells = d.cells /\ r.used = d.used /\ r.index = x /\ r.valid = d.valid
  BY <1>11, Zenon DEF Cache
<1>. HIDE DEF r
<1>22. Sound(n, r) /\ Exact(r) = Exact(d)
  BY <1>17, <1>20, <1>21, SameCells
<1>. QED
  BY <1>1, <1>12, <1>18, <1>21, <1>22 DEF Good, Indexed

\* What a defragmentation does: every row of "from" moves into a free row.
Moves(n, c, d, to) ==
    LET from == DOMAIN to
    IN  /\ from \in SUBSET (0..(n - 1))
        /\ \A t \in from : /\ to[t] \in (0..(n - 1)) \ from /\ c.cells[to[t]].seqs = {}
                           /\ c.cells[t].seqs # {}
                           /\ d.cells[to[t]] = c.cells[t] /\ d.cells[t] = Hole
        /\ \A t, u \in from : to[t] = to[u] => t = u
        /\ \A i \in (0..(n - 1)) \ from :
              (\A t \in from : to[t] # i) => d.cells[i] = c.cells[i]

LEMMA DefragMoves ==
    ASSUME NEW n \in Nat, NEW c, Sound(n, c), NEW d \in Defragged(c)
    PROVE  /\ d \in Cache(n) /\ d.used = c.used /\ ~d.valid
           /\ \E to : Moves(n, c, d, to)
<1> DEFINE holes == {i \in Rows(c) : i < c.used /\ c.cells[i].seqs = {}}
           tail == {i \in Rows(c) : i >= c.used /\ c.cells[i].seqs # {}}
           e == Invalidated(c)
           F == {g \in UNION {[ts -> holes] : ts \in (SUBSET tail) \ {{}}} :
                    \A t, u \in DOMAIN g : g[t] = g[u] => t = u}
<1>1. PICK to \in F :
         d = [e EXCEPT
                !.cells = [i \in Rows(c) |->
                    CASE \E t \in DOMAIN to : to[t] = i ->
                            e.cells[CHOOSE t \in DOMAIN to : to[t] = i]
                      [] i \in DOMAIN to -> Hole
                      [] OTHER -> e.cells[i]],
                !.head = c.used]
  BY Zenon DEF Defragged
<1> DEFINE from == DOMAIN to
           Hit(i) == \E t \in from : to[t] = i
           Source(i) == CHOOSE t \in from : to[t] = i
           f == [i \in Rows(c) |->
                   CASE Hit(i) -> e.cells[Source(i)]
                     [] i \in from -> Hole
                     [] OTHER -> e.cells[i]]
<1>2. /\ c \in Cache(n) /\ Rows(c) = 0..(n - 1)
      /\ \A i \in 0..(n - 1) : c.cells[i] \in Cell
      /\ c.used \in 0..n
  BY Fields, UsedBound DEF Sound
<1>3. e \in Cache(n) /\ e.cells = c.cells /\ e.used = c.used /\ ~e.valid
  BY <1>2, InvalidatedIs
<1>. HIDE DEF e
<1>4. /\ from \in SUBSET tail /\ to \in [from -> holes]
      /\ \A t, u \in from : to[t] = to[u] => t = u
  OBVIOUS
<1>5. /\ from \in SUBSET (0..(n - 1))
      /\ \A t \in from : /\ to[t] \in (0..(n - 1)) \ from /\ c.cells[to[t]].seqs = {}
                         /\ c.cells[t].seqs # {}
  BY <1>2, <1>4
<1>6. d = [e EXCEPT !.cells = f, !.head = c.used]
  BY <1>1
<1>. HIDE DEF F, holes, tail
<1>7. ASSUME NEW t \in from
      PROVE  f[to[t]] = c.cells[t]
  <2>1. to[t] \in Rows(c)
    BY <1>2, <1>5
  <2>2. Source(to[t]) = t
    BY <1>4
  <2>3. Hit(to[t])
    OBVIOUS
  <2>4. f[to[t]] = e.cells[Source(to[t])]
    <3> DEFINE i == to[t]
    <3>1. i \in Rows(c) /\ Hit(i) /\ i \notin from
      BY <1>5, <2>1, <2>3
    <3> HIDE DEF i, from, Hit, Source
    <3>2. f[i] = e.cells[Source(i)]
      BY <3>1
    <3> QED
      BY <3>2 DEF i
  <2>. QED
    BY <1>3, <2>2, <2>4
<1>8. \A i \in from : f[i] = Hole
  BY <1>2, <1>5
<1>9. \A i \in (0..(n - 1)) \ from : (\A t \in from : to[t] # i) => f[i] = c.cells[i]
  BY <1>2, <1>3
<1>. HIDE DEF f, from
<1>10. \A i \in 0..(n - 1) : f[i] \in Cell
  <2>1. Hole \in Cell
    BY DEF Hole, Cell
  <2> TAKE i \in 0..(n - 1)
  <2>2. CASE \E t \in from : to[t] = i
    BY <1>2, <1>5, <1>7, <2>2
  <2>3. CASE \A t \in from : to[t] # i
    BY <1>2, <1>8, <1>9, <2>1, <2>3
  <2>. QED
    BY <2>2, <2>3
<1>11. f \in [0..(n - 1) -> Cell]
  BY <1>2, <1>10 DEF f
<1>12. d \in Cache(n)
  BY <1>2, <1>3, <1>6, <1>11, Zenon DEF Cache
<1>13. d.cells = f /\ d.used = c.used /\ ~d.valid
  BY <1>3, <1>6, Zenon DEF Cache
<1>14. Moves(n, c, d, to)
  BY <1>4, <1>5, <1>7, <1>8, <1>9, <1>13 DEF Moves, from
<1>. QED
  BY <1>12, <1>13, <1>14

\* The rows in use change places, so that there are as many of them.
LEMMA DefragGood ==
    ASSUME NEW n \in Nat, NEW c, Sound(n, c), NEW d \in Defragged(c)
    PROVE  Good(n, d)
<1>1. d \in Cache(n) /\ d.used = c.used /\ ~d.valid
  BY DefragMoves
<1>2. PICK to : Moves(n, c, d, to)
  BY DefragMoves
<1> DEFINE from == DOMAIN to
           H == {to[t] : t \in from}
<1>3. /\ c \in Cache(n) /\ Rows(c) = 0..(n - 1) /\ Rows(d) = 0..(n - 1)
      /\ \A i \in 0..(n - 1) : c.cells[i] \in Cell
      /\ \A i \in 0..(n - 1) : c.cells[i].pos >= 0 <=> c.cells[i].seqs # {}
      /\ c.used = Cardinality(Used(c))
  BY <1>1, Fields DEF Sound, Counted
<1>4. /\ from \in SUBSET (0..(n - 1))
      /\ \A t \in from : /\ to[t] \in (0..(n - 1)) \ from /\ c.cells[to[t]].seqs = {}
                         /\ c.cells[t].seqs # {}
                         /\ d.cells[to[t]] = c.cells[t] /\ d.cells[t] = Hole
      /\ \A t, u \in from : to[t] = to[u] => t = u
      /\ \A i \in (0..(n - 1)) \ from :
            (\A t \in from : to[t] # i) => d.cells[i] = c.cells[i]
  BY <1>2 DEF Moves
<1>5. /\ H \in SUBSET (0..(n - 1)) /\ H \cap from = {}
      /\ \A i \in H : \E t \in from : i = to[t]
      /\ \A t \in from : to[t] \in H
      /\ \A i \in (0..(n - 1)) \ (from \cup H) : d.cells[i] = c.cells[i]
  BY <1>4
<1>. HIDE DEF H, from
<1>6. \A i \in H : d.cells[i].pos >= 0 /\ d.cells[i].seqs # {} /\ ~(c.cells[i].pos >= 0)
  BY <1>3, <1>4, <1>5
<1>7. \A i \in from : ~(d.cells[i].pos >= 0) /\ d.cells[i].seqs = {} /\ c.cells[i].pos >= 0
  BY <1>3, <1>4 DEF Hole
<1>8. \A i \in 0..(n - 1) : d.cells[i].pos >= 0 <=> d.cells[i].seqs # {}
  BY <1>3, <1>5, <1>6, <1>7
<1>9. /\ Used(c) \in SUBSET (0..(n - 1)) /\ from \subseteq Used(c) /\ H \cap Used(c) = {}
      /\ Used(d) \in SUBSET (0..(n - 1))
  BY <1>3, <1>4, <1>5, <1>6, <1>7 DEF Used
<1>10. Used(d) = (Used(c) \ from) \cup H
  <2>1. \A i \in 0..(n - 1) : i \in Used(d) <=> i \in (Used(c) \ from) \cup H
    BY <1>3, <1>5, <1>6, <1>7 DEF Used
  <2>. QED
    BY <1>5, <1>9, <2>1
<1>11. Cardinality(H) = Cardinality(from) /\ IsFiniteSet(H) /\ IsFiniteSet(from)
       /\ Cardinality(from) \in Nat
  <2>1. IsFiniteSet(H) /\ IsFiniteSet(from) /\ Cardinality(from) \in Nat
    BY <1>4, <1>5, RowsFinite
  <2>2. \E g \in [from -> H] : /\ \A t, u \in from : g[t] = g[u] => t = u
                               /\ \A i \in H : \E t \in from : g[t] = i
    <3> DEFINE g == [t \in from |-> to[t]]
    <3>1. g \in [from -> H] /\ \A t \in from : g[t] = to[t]
      BY <1>5
    <3> HIDE DEF g
    <3>2. \A t, u \in from : g[t] = g[u] => t = u
      BY <1>4, <3>1
    <3>3. \A i \in H : \E t \in from : g[t] = i
      BY <1>5, <3>1
    <3>. QED
      BY <3>1, <3>2, <3>3
  <2>3. PICK g \in [from -> H] : /\ \A t, u \in from : g[t] = g[u] => t = u
                                 /\ \A i \in H : \E t \in from : g[t] = i
    BY <2>2
  <2>4. g \in Injection(from, H) /\ g \in Surjection(from, H)
    BY <2>3 DEF Injection, Surjection, IsInjective
  <2>. QED
    BY <2>1, <2>4, FS_Injection
<1>12. Cardinality(Used(d)) = Cardinality(Used(c))
  <2>1. IsFiniteSet(Used(c)) /\ IsFiniteSet(Used(c) \ from) /\ Cardinality(Used(c)) \in Nat
    BY <1>9, RowsFinite
  <2>2. Used(c) \cap from = from /\ (Used(c) \ from) \cap H = {}
    BY <1>9
  <2>3. Cardinality(Used(c) \ from) = Cardinality(Used(c)) - Cardinality(from)
    BY <2>1, <2>2, FS_Difference
  <2>4. Cardinality(Used(d))
          = Cardinality(Used(c) \ from) + Cardinality(H) - Cardinality({})
    BY <1>10, <1>11, <2>1, <2>2, FS_Union
  <2>5. Cardinality({}) = 0
    BY FS_EmptySet
  <2>. QED
    BY <1>11, <2>1, <2>3, <2>4, <2>5
<1>. QED
  BY <1>1, <1>3, <1>8, <1>12 DEF Good, Sound, Counted, Indexed

-----------------------------------------------------------------------------
(* The pair of caches of a context                                         *)

PairGood(k, m, n) == Good(m, k.self) /\ Good(n, k.swa)

\* The cells of b are those of a.
SameRows(a, b) == b.cells = a.cells /\ b.size = a.size

LEMMA StaleKeeps ==
    ASSUME NEW n \in Nat, NEW c, Good(n, c)
    PROVE  SameRows(c, Stale(c))
<1>1. c \in Cache(n)
  BY DEF Good, Sound
<1>. QED
  BY <1>1, Zenon DEF SameRows, Cache, Stale

LEMMA RoomKept ==
    ASSUME NEW a, NEW b, SameRows(a, b), NEW k, Room(a, k)
    PROVE  Room(b, k)
  BY Zenon DEF SameRows, Room, Starts, Fits, Rows

LEMMA WithSelfGood ==
    ASSUME NEW m \in Nat, NEW n \in Nat, NEW k, Good(n, k.swa), NEW c, Good(m, c)
    PROVE  PairGood(WithSelf(k, c), m, n)
<1>1. Good(n, Stale(k.swa))
  BY StaleGood
<1>. QED
  BY <1>1 DEF PairGood, WithSelf

LEMMA WithSwaGood ==
    ASSUME NEW m \in Nat, NEW n \in Nat, NEW k, Good(m, k.self), NEW c, Good(n, c)
    PROVE  PairGood(WithSwa(k, c), m, n) /\ SameRows(k.self, WithSwa(k, c).self)
<1>1. Good(m, Stale(k.self)) /\ SameRows(k.self, Stale(k.self))
  BY StaleGood, StaleKeeps
<1>. QED
  BY <1>1 DEF PairGood, WithSwa, SameRows

LEMMA BothGood ==
    ASSUME NEW m \in Nat, NEW n \in Nat, NEW k, NEW c, NEW d, Good(m, c), Good(n, d)
    PROVE  PairGood(Both(k, c, d), m, n)
<1>1. Good(m, Stale(c)) /\ Good(n, Stale(d))
  BY StaleGood
<1>. QED
  BY <1>1 DEF PairGood, Both

LEMMA AtZeroGood ==
    ASSUME NEW n \in Nat, NEW c, Good(n, c)
    PROVE  Good(n, AtZeroIfEmpty(c))
<1>1. Good(n, [c EXCEPT !.head = 0])
  <2>1. 0 \in 0..n
    OBVIOUS
  <2>. QED
    BY <2>1, HeadGood, Zenon
<1>. QED
  BY <1>1, Zenon DEF AtZeroIfEmpty

\* A removal, whether it trims or wipes.
LEMMA CtxSeqRmGood ==
    ASSUME NEW m \in Nat, NEW n \in Nat, NEW k, PairGood(k, m, n), NEW s \in Seqs,
           NEW p0 \in 0..End, NEW p1 \in 0..End
    PROVE  PairGood(CtxSeqRm(k, s, p0, p1), m, n)
<1>1. p1 \in Int /\ End \in Int /\ 0 \in 0..End
  BY BoundsAssumption DEF End
<1>2. PairGood(Trimmed(k, s, p0, p1), m, n)
  <2> DEFINE a == WithSelf(k, SeqRm(k.self, s, p0, p1))
  <2>1. PairGood(a, m, n)
    BY <1>1, RmGood, WithSelfGood DEF PairGood
  <2>. HIDE DEF a
  <2>2. PairGood(WithSwa(a, AtZeroIfEmpty(SeqRm(a.swa, s, p0, p1))), m, n)
    BY <1>1, <2>1, RmGood, AtZeroGood, WithSwaGood DEF PairGood
  <2>. QED
    BY <2>1, <2>2, Zenon DEF Trimmed, a
<1>3. ASSUME NEW t, PairGood(t, m, n)
      PROVE  PairGood(Wiped(t, s), m, n)
  <2> DEFINE a == WithSwa(t, SeqRm(t.swa, s, 0, End))
  <2>1. PairGood(a, m, n)
    BY <1>1, <1>3, RmGood, WithSwaGood DEF PairGood
  <2>. HIDE DEF a
  <2>2. PairGood(WithSelf(a, SeqRm(a.self, s, 0, End)), m, n)
    BY <1>1, <2>1, RmGood, WithSelfGood DEF PairGood
  <2>. QED
    BY <2>2, Zenon DEF Wiped, a
<1>. QED
  BY <1>2, <1>3, Zenon DEF CtxSeqRm

LEMMA HintGood ==
    ASSUME NEW n \in Nat, NEW c, Good(n, c), NEW k
    PROVE  Good(n, HeadHint(c, k)) /\ SameRows(c, HeadHint(c, k))
<1>1. c \in Cache(n)
  BY DEF Good, Sound
<1>2. Good(n, [c EXCEPT !.head = 0])
  <2>1. 0 \in 0..n
    OBVIOUS
  <2>. QED
    BY <2>1, HeadGood, Zenon
<1>3. SameRows(c, [c EXCEPT !.head = 0])
  BY <1>1, Zenon DEF Cache, SameRows
<1>. QED
  BY <1>2, <1>3, Zenon DEF HeadHint, SameRows

LEMMA AdvancedGood ==
    ASSUME NEW n \in Nat, NEW c, Good(n, c), NEW k \in Nat
    PROVE  Good(n, Advanced(c, k))
<1> DEFINE h == IF c.head + k >= c.size THEN 0 ELSE c.head + k
<1>1. c \in Cache(n)
  BY DEF Good, Sound
<1>2. h \in 0..n
  BY <1>1, Fields
<1>. QED
  BY <1>2, HeadGood, Zenon DEF Advanced

LEMMA RetiredGood ==
    ASSUME NEW m \in Nat, NEW n \in Nat, NEW k, PairGood(k, m, n), NEW batch
    PROVE  PairGood(Retired(k, batch), m, n) /\ SameRows(k.self, Retired(k, batch).self)
<1> DEFINE a == WithSwa(k, Evicted(k.swa, batch, Guard))
<1> DEFINE b == WithSwa(a, Evicted(a.swa, batch, 0))
<1>1. PairGood(a, m, n) /\ SameRows(k.self, a.self)
  BY EvictedGood, WithSwaGood DEF PairGood
<1>. HIDE DEF a
<1>2. PairGood(b, m, n) /\ SameRows(a.self, b.self)
  BY <1>1, EvictedGood, WithSwaGood DEF PairGood
<1>. HIDE DEF b
<1>3. Retired(k, batch) = k \/ Retired(k, batch) = a \/ Retired(k, batch) = b
  BY Zenon DEF Retired, a, b
<1>. QED
  BY <1>1, <1>2, <1>3 DEF SameRows

LEMMA SwaPlacedGood ==
    ASSUME NEW m \in Nat, NEW n \in Nat, NEW k, PairGood(k, m, n), NEW batch, IsBatch(batch), SwaRoom(k, batch)
    PROVE  PairGood(SwaPlaced(k, batch), m, n) /\ SameRows(k.self, SwaPlaced(k, batch).self)
<1> DEFINE r == Retired(k, batch)
<1>1. PairGood(r, m, n) /\ SameRows(k.self, r.self)
  BY RetiredGood
<1>2. SwaActive(k) => Room(r.swa, Len(batch))
  BY DEF SwaRoom
<1>3. SwaPlaced(k, batch) = IF SwaActive(k) THEN WithSwa(r, Placed(r.swa, batch)) ELSE r
  BY Zenon DEF SwaPlaced
<1>. HIDE DEF r
<1>4. CASE SwaActive(k)
  <2>1. Good(n, Placed(r.swa, batch))
    BY <1>1, <1>2, <1>4, PlacedGood DEF PairGood
  <2>2. PairGood(WithSwa(r, Placed(r.swa, batch)), m, n)
        /\ SameRows(r.self, WithSwa(r, Placed(r.swa, batch)).self)
    BY <1>1, <2>1, WithSwaGood DEF PairGood
  <2>. QED
    BY <1>1, <1>3, <1>4, <2>2 DEF SameRows
<1>5. CASE ~SwaActive(k)
  BY <1>1, <1>3, <1>5
<1>. QED
  BY <1>4, <1>5

-----------------------------------------------------------------------------
(* What an edit leaves each sequence with                                  *)

LEMMA HoldsIs ==
    ASSUME NEW n \in Nat, NEW c, Sound(n, c), NEW s
    PROVE  /\ Tagged(c, s) = {i \in 0..(n - 1) : s \in c.cells[i].seqs}
           /\ \A i \in Tagged(c, s) : c.cells[i].pos \in Positions
           /\ PositionsOf(c, s) = {c.cells[i].pos : i \in Tagged(c, s)}
           /\ PositionsOf(c, s) \subseteq Positions
<1>1. /\ Rows(c) = 0..(n - 1)
      /\ \A i \in 0..(n - 1) : c.cells[i] \in Cell
      /\ \A i \in 0..(n - 1) : c.cells[i].pos >= 0 <=> c.cells[i].seqs # {}
  BY Fields DEF Sound, Counted
<1>2. Tagged(c, s) = {i \in 0..(n - 1) : s \in c.cells[i].seqs}
  BY <1>1 DEF Tagged
<1>3. \A i \in Tagged(c, s) : c.cells[i].pos \in Positions
  BY <1>1, <1>2, BoundsAssumption DEF Cell, Positions
<1>4. -1 \notin Positions
  BY BoundsAssumption DEF Positions
<1>5. PositionsOf(c, s) = {c.cells[i].pos : i \in Tagged(c, s)}
  BY <1>3, <1>4 DEF PositionsOf
<1> QED
  BY <1>2, <1>3, <1>5

LEMMA HeldBy ==
    ASSUME NEW n \in Nat, NEW c, Sound(n, c), NEW s, NEW p
    PROVE  p \in PositionsOf(c, s) <=>
              \E i \in 0..(n - 1) : s \in c.cells[i].seqs /\ c.cells[i].pos = p
  BY HoldsIs

LEMMA RowHeld ==
    ASSUME NEW n \in Nat, NEW c, Sound(n, c), NEW s, NEW i \in 0..(n - 1), s \in c.cells[i].seqs
    PROVE  c.cells[i].pos \in PositionsOf(c, s) /\ c.cells[i].pos \in Nat
<1>1. i \in Tagged(c, s)
  BY HoldsIs
<1>2. c.cells[i].pos \in Positions
  BY <1>1, HoldsIs
<1>3. c.cells[i].pos \in PositionsOf(c, s)
  BY HeldBy
<1> QED
  BY <1>2, <1>3, BoundsAssumption DEF Positions

LEMMA OneIs ==
    ASSUME NEW n \in Nat, NEW c, Sound(n, c), NEW s
    PROVE  OneRowEach(c, s) <=>
              \A i, j \in 0..(n - 1) :
                 s \in c.cells[i].seqs /\ s \in c.cells[j].seqs /\ c.cells[i].pos = c.cells[j].pos
                 => i = j
  BY HoldsIs DEF OneRowEach

\* No cell is shared.
Alone(c) == \A i \in Rows(c) : \A a, b \in c.cells[i].seqs : a = b

\* Sequence s keeps its cells at the positions of P, and no others.
Thinned(n, c, d, s, P) ==
    \A i \in 0..(n - 1) :
       /\ s \in d.cells[i].seqs <=> s \in c.cells[i].seqs /\ c.cells[i].pos \in P
       /\ s \in d.cells[i].seqs => d.cells[i].pos = c.cells[i].pos

LEMMA ThinnedIs ==
    ASSUME NEW n \in Nat, NEW c, Sound(n, c), NEW d, Sound(n, d), NEW s, NEW P,
           Thinned(n, c, d, s, P)
    PROVE  /\ PositionsOf(d, s) = PositionsOf(c, s) \cap P
           /\ OneRowEach(c, s) => OneRowEach(d, s)
<1>1. ASSUME NEW p PROVE p \in PositionsOf(d, s) <=> p \in PositionsOf(c, s) \cap P
  <2>1. ASSUME p \in PositionsOf(d, s) PROVE p \in PositionsOf(c, s) \cap P
    <3>1. PICK i \in 0..(n - 1) : s \in d.cells[i].seqs /\ d.cells[i].pos = p
      BY <2>1, HeldBy
    <3>2. s \in c.cells[i].seqs /\ c.cells[i].pos = p /\ p \in P
      BY <3>1 DEF Thinned
    <3> QED
      BY <3>2, HeldBy
  <2>2. ASSUME p \in PositionsOf(c, s), p \in P PROVE p \in PositionsOf(d, s)
    <3>1. PICK i \in 0..(n - 1) : s \in c.cells[i].seqs /\ c.cells[i].pos = p
      BY <2>2, HeldBy
    <3>2. s \in d.cells[i].seqs /\ d.cells[i].pos = p
      BY <2>2, <3>1 DEF Thinned
    <3> QED
      BY <3>2, HeldBy
  <2> QED
    BY <2>1, <2>2
<1>2. OneRowEach(c, s) => OneRowEach(d, s)
  BY OneIs DEF Thinned
<1> QED
  BY <1>1, <1>2

LEMMA AloneKept ==
    ASSUME NEW n \in Nat, NEW c, Sound(n, c), NEW d, Sound(n, d), Alone(c),
           \A i \in 0..(n - 1) : d.cells[i].seqs \subseteq c.cells[i].seqs
    PROVE  Alone(d)
<1>1. Rows(c) = 0..(n - 1) /\ Rows(d) = 0..(n - 1)
  BY Fields DEF Sound
<1> QED
  BY <1>1 DEF Alone

LEMMA SameRowsHold ==
    ASSUME NEW c, NEW d, SameRows(c, d)
    PROVE  /\ \A s : PositionsOf(d, s) = PositionsOf(c, s) /\ (OneRowEach(c, s) => OneRowEach(d, s))
           /\ Alone(c) => Alone(d)
  BY Zenon DEF SameRows, PositionsOf, OneRowEach, Alone, Tagged, Rows

\* An edit that takes the positions "gone" from sequence s and nothing else.
Removes(c, d, s, gone) ==
    /\ \A t \in Seqs : /\ PositionsOf(d, t) = IF t = s THEN PositionsOf(c, t) \ gone
                                              ELSE PositionsOf(c, t)
                       /\ OneRowEach(c, t) => OneRowEach(d, t)
    /\ Alone(c) => Alone(d)

LEMMA RmRemoves ==
    ASSUME NEW n \in Nat, NEW c, Good(n, c), NEW s \in Seqs, NEW p0 \in 0..End, NEW p1 \in Int
    PROVE  Removes(c, SeqRm(c, s, p0, p1), s, p0..(p1 - 1))
<1> DEFINE d == SeqRm(c, s, p0, p1)
           e == RmScan(c, s, p0, p1)
           R == InRange(c, s, p0, p1)
<1>1. Sound(n, c) /\ c \in Cache(n) /\ Sound(n, d)
  BY RmGood DEF Good, Sound
<1>2. /\ \A i \in 0..(n - 1) : c.cells[i] \in Cell
      /\ \A i \in 0..(n - 1) : c.cells[i].pos >= 0 <=> c.cells[i].seqs # {}
      /\ Rows(c) = 0..(n - 1)
  BY <1>1, Fields DEF Sound, Counted
<1>3. R \in SUBSET (0..(n - 1))
  BY <1>1, InRangeRows
<1>4. Sound(n, e) /\ \A i \in 0..(n - 1) :
         e.cells[i] = IF i \in R THEN Without(c.cells[i], s) ELSE c.cells[i]
  BY <1>1, <1>3, UntaggedSound DEF RmScan
<1>5. d.cells = e.cells
  <2>1. Invalidated(e).cells = e.cells
    BY <1>4, InvalidatedIs DEF Sound
  <2>2. RmIndexed(c, s, p0, p1).cells = e.cells
    BY RmIndexedIs
  <2> QED
    BY <2>1, <2>2, Zenon DEF SeqRm
<1>6. \A i \in 0..(n - 1) : i \in R <=> s \in c.cells[i].seqs /\ c.cells[i].pos \in p0..(p1 - 1)
  BY <1>2, BoundsAssumption DEF InRange, Tagged, Cell, Positions, End
<1> HIDE DEF d, e, R
<1>7. ASSUME NEW i \in 0..(n - 1)
      PROVE  /\ d.cells[i].seqs = IF i \in R THEN c.cells[i].seqs \ {s} ELSE c.cells[i].seqs
             /\ d.cells[i].seqs # {} => d.cells[i].pos = c.cells[i].pos
  <2>1. CASE i \in R
    <3>1. d.cells[i] = Without(c.cells[i], s) /\ c.cells[i] \in Cell
      BY <1>2, <1>4, <1>5, <2>1
    <3>2. c.cells[i].seqs \subseteq {s} => c.cells[i].seqs \ {s} = {}
      OBVIOUS
    <3> QED
      BY <2>1, <3>1, <3>2, WithoutIs
  <2>2. CASE i \notin R
    BY <1>4, <1>5, <2>2
  <2> QED
    BY <2>1, <2>2
<1>8. ASSUME NEW t \in Seqs
      PROVE  Thinned(n, c, d, t, IF t = s THEN Positions \ (p0..(p1 - 1)) ELSE Positions)
  <2> SUFFICES ASSUME NEW i \in 0..(n - 1)
      PROVE  /\ t \in d.cells[i].seqs <=> /\ t \in c.cells[i].seqs
                                          /\ c.cells[i].pos \in IF t = s THEN Positions \ (p0..(p1 - 1)) ELSE Positions
             /\ t \in d.cells[i].seqs => d.cells[i].pos = c.cells[i].pos
    BY DEF Thinned
  <2>1. t \in c.cells[i].seqs => c.cells[i].pos \in Positions
    BY <1>2, BoundsAssumption DEF Cell, Positions
  <2>2. i \in R <=> s \in c.cells[i].seqs /\ c.cells[i].pos \in p0..(p1 - 1)
    BY <1>6
  <2> QED
    BY <1>7, <2>1, <2>2
<1>9. ASSUME NEW t \in Seqs
      PROVE  /\ PositionsOf(d, t) = IF t = s THEN PositionsOf(c, t) \ (p0..(p1 - 1)) ELSE PositionsOf(c, t)
             /\ OneRowEach(c, t) => OneRowEach(d, t)
  <2>1. /\ PositionsOf(d, t) = PositionsOf(c, t) \cap
                                 (IF t = s THEN Positions \ (p0..(p1 - 1)) ELSE Positions)
        /\ OneRowEach(c, t) => OneRowEach(d, t)
    BY <1>1, <1>8, ThinnedIs
  <2>2. PositionsOf(c, t) \subseteq Positions
    BY <1>1, HoldsIs
  <2> QED
    BY <2>1, <2>2
<1>10. Alone(c) => Alone(d)
  BY <1>1, <1>7, AloneKept
<1> QED
  BY <1>9, <1>10 DEF Removes, d

\* A cache without cells holds nothing.
LEMMA NoCells ==
    ASSUME NEW c, Good(0, c)
    PROVE  Alone(c) /\ \A s : PositionsOf(c, s) = {} /\ OneRowEach(c, s)
<1>1. Rows(c) = {}
  BY Fields DEF Good, Sound
<1> QED
  BY <1>1 DEF Alone, PositionsOf, OneRowEach, Tagged

\* The highest position of a sequence, or -1.
LEMMA PosMaxIs ==
    ASSUME NEW n \in Nat, NEW c, Sound(n, c), NEW s
    PROVE  /\ PosMax(c, s) \in Int /\ PosMax(c, s) >= -1
           /\ PosMax(c, s) \in PositionsOf(c, s) \cup {-1}
           /\ \A p \in PositionsOf(c, s) : p <= PosMax(c, s)
           /\ PosMax(c, s) < 0 <=> PositionsOf(c, s) = {}
<1> DEFINE S == PositionsOf(c, s) \cup {-1}
<1>1. S \in SUBSET (-1..MaxPos) /\ S # {} /\ MaxPos \in Int
  BY HoldsIs, BoundsAssumption DEF Positions
<1>2. Max(S) \in S /\ \A x \in S : x <= Max(S)
  BY <1>1, GreatestOf
<1>3. PosMax(c, s) = Max(S)
  BY DEF PosMax
<1>4. PositionsOf(c, s) \subseteq Nat
  BY HoldsIs, BoundsAssumption DEF Positions
<1> QED
  BY <1>1, <1>2, <1>3, <1>4

LEMMA StruckKeepsCells ==
    ASSUME NEW n \in Nat, NEW c, NEW d, d \in Cache(n), NEW x
    PROVE  Struck(c, d, x).cells = d.cells
  BY Zenon DEF Struck, Cache

LEMMA StruckCells ==
    ASSUME NEW n \in Nat, NEW c, Good(n, c), NEW rows \in SUBSET (0..(n - 1)), NEW x
    PROVE  /\ \A i \in 0..(n - 1) : Struck(c, Emptied(c, rows), x).cells[i]
                                      = IF i \in rows THEN Hole ELSE c.cells[i]
           /\ \A h \in 0..n :
                 Struck(c, [Emptied(c, rows) EXCEPT !.head = h], x).cells
                    = Struck(c, Emptied(c, rows), x).cells
<1> DEFINE b == Emptied(c, rows)
<1>1. /\ b \in Cache(n)
      /\ \A i \in 0..(n - 1) : b.cells[i] = IF i \in rows THEN Hole ELSE c.cells[i]
  BY EmptiedSound DEF Good, Sound
<1> HIDE DEF b
<1>2. Struck(c, b, x).cells = b.cells
  BY <1>1, StruckKeepsCells
<1>3. ASSUME NEW h \in 0..n PROVE Struck(c, [b EXCEPT !.head = h], x).cells = b.cells
  <2> DEFINE e == [b EXCEPT !.head = h]
  <2>1. e \in Cache(n) /\ e.cells = b.cells
    BY <1>1, Zenon DEF Cache
  <2> HIDE DEF e
  <2>2. Struck(c, e, x).cells = b.cells
    BY <2>1, StruckKeepsCells
  <2> QED
    BY <2>2 DEF e
<1> QED
  BY <1>1, <1>2, <1>3 DEF b

\* What is evicted: for a sequence that shares no cell, the positions that its
\* window and the guard no longer reach from the reference.
LEMMA EvictedHolds ==
    ASSUME NEW n \in Nat, NEW c, Good(n, c), Alone(c), NEW batch, NEW guard \in Nat
    PROVE  LET d == Evicted(c, batch, guard)
           IN  /\ Alone(d)
               /\ \A s \in Seqs :
                     Reference(c, batch, s) \in Int =>
                        /\ PositionsOf(d, s) = {p \in PositionsOf(c, s) :
                                                  Reference(c, batch, s) - p < Window + guard}
                        /\ OneRowEach(c, s) => OneRowEach(d, s)
<1> DEFINE d == Evicted(c, batch, guard)
           dead == Dead(c, batch, guard)
           Far(s) == {p \in Positions : Reference(c, batch, s) - p < Window + guard}
<1>1. /\ Sound(n, c) /\ c \in Cache(n) /\ Sound(n, d) /\ Rows(c) = 0..(n - 1)
      /\ \A i \in 0..(n - 1) : c.cells[i] \in Cell
      /\ \A i \in 0..(n - 1) : c.cells[i].pos >= 0 <=> c.cells[i].seqs # {}
  <2>1. Good(n, d)
    BY EvictedGood
  <2> HIDE DEF d
  <2> QED
    BY <2>1, Fields DEF Good, Sound, Counted
<1>2. dead \in SUBSET (0..(n - 1)) /\ LowerHead(c, dead) \in 0..n
  BY <1>1, LowerHeadIn DEF Dead
<1>3. \A i \in 0..(n - 1) : d.cells[i] = IF i \in dead THEN Hole ELSE c.cells[i]
  <2> DEFINE e == Struck(c, Emptied(c, dead), Entries(c, dead))
  <2> HIDE DEF dead
  <2>1. d.cells = e.cells
    BY <1>2, StruckCells DEF Evicted, dead
  <2>2. \A i \in 0..(n - 1) : e.cells[i] = IF i \in dead THEN Hole ELSE c.cells[i]
    BY <1>2, StruckCells
  <2> HIDE DEF d, e
  <2> QED
    BY <2>1, <2>2
<1>4. ASSUME NEW s \in Seqs, Reference(c, batch, s) \in Int
      PROVE  Thinned(n, c, d, s, Far(s))
  <2> HIDE DEF d
  <2> SUFFICES ASSUME NEW i \in 0..(n - 1)
      PROVE  /\ s \in d.cells[i].seqs <=> s \in c.cells[i].seqs /\ c.cells[i].pos \in Far(s)
             /\ s \in d.cells[i].seqs => d.cells[i].pos = c.cells[i].pos
    BY DEF Thinned
  <2>1. CASE s \in c.cells[i].seqs
    <3>1. c.cells[i].pos \in Positions /\ c.cells[i].pos \in Nat
      BY <1>1, <2>1, BoundsAssumption DEF Cell, Positions
    <3>2. \A a \in c.cells[i].seqs : a = s
      BY <1>1, <2>1 DEF Alone
    <3>3. i \in dead <=> Reference(c, batch, s) - c.cells[i].pos >= Window + guard
      BY <1>1, <2>1, <3>1, <3>2 DEF Dead
    <3>4. c.cells[i].pos \in Far(s) <=> i \notin dead
      BY <1>4, <3>1, <3>3, BoundsAssumption
    <3> QED
      BY <1>3, <2>1, <3>4 DEF Hole
  <2>2. CASE s \notin c.cells[i].seqs
    BY <1>3, <2>2 DEF Hole
  <2> QED
    BY <2>1, <2>2
<1>5. Alone(d)
  <2>1. \A i \in 0..(n - 1) : d.cells[i].seqs \subseteq c.cells[i].seqs
    <3> HIDE DEF d, dead
    <3> QED
      BY <1>3 DEF Hole
  <2> QED
    BY <1>1, <2>1, AloneKept
<1>6. ASSUME NEW s \in Seqs, Reference(c, batch, s) \in Int
      PROVE  /\ PositionsOf(d, s) = {p \in PositionsOf(c, s) :
                                       Reference(c, batch, s) - p < Window + guard}
             /\ OneRowEach(c, s) => OneRowEach(d, s)
  <2>1. /\ PositionsOf(d, s) = PositionsOf(c, s) \cap Far(s)
        /\ OneRowEach(c, s) => OneRowEach(d, s)
    BY <1>1, <1>4, <1>6, ThinnedIs
  <2>2. PositionsOf(c, s) \subseteq Positions
    BY <1>1, HoldsIs
  <2> HIDE DEF d
  <2> QED
    BY <2>1, <2>2
<1> QED
  BY <1>5, <1>6

\* d is c with the tokens of the batch in the rows from h on, which were free.
RowsAt(batch, h) == h..(h + Len(batch) - 1)
PlacedAt(n, c, batch, d, h) ==
    /\ Len(batch) \in Nat \ {0} /\ h \in Nat /\ h + Len(batch) <= n
    /\ \A i \in RowsAt(batch, h) :
          /\ i \in 0..(n - 1) /\ i - h + 1 \in 1..Len(batch) /\ c.cells[i].seqs = {}
          /\ d.cells[i].pos = batch[i - h + 1].pos
          /\ d.cells[i].seqs = {batch[i - h + 1].seq}
    /\ \A i \in 0..(n - 1) : i \notin RowsAt(batch, h) => d.cells[i] = c.cells[i]

LEMMA PlacedCells ==
    ASSUME NEW n \in Nat, NEW c, Good(n, c), NEW batch, IsBatch(batch), Room(c, Len(batch))
    PROVE  PlacedAt(n, c, batch, Placed(c, batch), Placed(c, batch).head)
<1> DEFINE k == Len(batch)
           h == Start(c, k)
           rows == h..(h + k - 1)
           f == [i \in Rows(c) |->
                   IF i \in rows THEN [pos |-> batch[i - h + 1].pos,
                                       seqs |-> {batch[i - h + 1].seq}]
                   ELSE c.cells[i]]
           u == c.used + k
           d == [c EXCEPT !.cells = f, !.used = u, !.head = h]
           x == IF c.valid THEN d.index \cup Entries(d, rows) ELSE d.index
           r == [d EXCEPT !.index = x]
<1>1. Placed(c, batch) = r
  BY Zenon DEF Placed, Noted
<1>2. /\ c \in Cache(n) /\ Rows(c) = 0..(n - 1)
      /\ \A i \in 0..(n - 1) : c.cells[i] \in Cell
      /\ \A i \in 0..(n - 1) : c.cells[i].pos >= 0 <=> c.cells[i].seqs # {}
  BY Fields DEF Good, Sound, Counted
<1>3. k \in Nat \ {0}
  BY BatchIs
<1>4. h \in 0..n /\ h + k <= n /\ \A i \in rows : c.cells[i].pos < 0
  BY <1>2, <1>3, StartIs
<1>5. r.cells = f /\ r.head = h
  <2> HIDE DEF f, h, u
  <2>1. d.cells = f /\ d.head = h
    BY <1>2, Zenon DEF Cache
  <2>2. DOMAIN d = DOMAIN c /\ DOMAIN c = {"size", "cells", "head", "used", "index", "valid", "synced"}
    BY <1>2, Zenon DEF Cache
  <2> HIDE DEF d, x
  <2> QED
    BY <2>1, <2>2
<1> HIDE DEF k, h, r
<1>6. \A i \in rows : i \in 0..(n - 1) /\ i - h + 1 \in 1..k /\ i \in Int
  BY <1>3, <1>4
<1>7. \A i \in rows : c.cells[i].seqs = {}
  <2> TAKE i \in rows
  <2>1. c.cells[i].pos < 0 /\ c.cells[i] \in Cell /\ i \in 0..(n - 1)
    BY <1>2, <1>4, <1>6
  <2>2. c.cells[i].pos \in Int
    BY <2>1, BoundsAssumption DEF Cell, Positions
  <2> QED
    BY <1>2, <2>1, <2>2
<1>8. \A i \in rows : r.cells[i] = [pos |-> batch[i - h + 1].pos, seqs |-> {batch[i - h + 1].seq}]
  BY <1>2, <1>5, <1>6, Zenon
<1>9. \A i \in 0..(n - 1) : i \notin rows => r.cells[i] = c.cells[i]
  BY <1>2, <1>5, Zenon
<1>10. \A i \in rows : r.cells[i].pos = batch[i - h + 1].pos /\ r.cells[i].seqs = {batch[i - h + 1].seq}
  <2> HIDE DEF rows
  <2> TAKE i \in rows
  <2>1. r.cells[i] = [pos |-> batch[i - h + 1].pos, seqs |-> {batch[i - h + 1].seq}]
    BY <1>8
  <2> QED
    BY <2>1
<1>11. rows = RowsAt(batch, h) /\ h \in Nat
  BY <1>4 DEF RowsAt, k
<1> HIDE DEF rows
<1>12. PlacedAt(n, c, batch, r, h)
  BY <1>3, <1>4, <1>6, <1>7, <1>9, <1>10, <1>11 DEF PlacedAt, k
<1> QED
  BY <1>1, <1>5, <1>12

\* A placement adds the tokens of the batch.
LEMMA PlacedHolds ==
    ASSUME NEW n \in Nat, NEW c, Good(n, c), NEW batch, IsBatch(batch), Room(c, Len(batch))
    PROVE  LET d == Placed(c, batch)
           IN  /\ Alone(c) => Alone(d)
               /\ \A s \in Seqs :
                     /\ PositionsOf(d, s) = PositionsOf(c, s) \cup InBatch(batch, s)
                     /\ /\ OneRowEach(c, s) /\ PositionsOf(c, s) \cap InBatch(batch, s) = {}
                        /\ \A i, j \in 1..Len(batch) :
                              batch[i].seq = s /\ batch[j].seq = s /\ batch[i].pos = batch[j].pos
                              => i = j
                        => OneRowEach(d, s)
<1> DEFINE d == Placed(c, batch)
           k == Len(batch)
           h == d.head
           rows == RowsAt(batch, h)
<1>1. PlacedAt(n, c, batch, d, h)
  BY PlacedCells
<1>2. Good(n, d)
  BY PlacedGood
<1>3. Sound(n, c) /\ Sound(n, d) /\ Rows(c) = 0..(n - 1) /\ Rows(d) = 0..(n - 1)
  <2> HIDE DEF d
  <2> QED
    BY <1>2, Fields DEF Good, Sound
<1> HIDE DEF d, h
<1>4. /\ k \in Nat \ {0} /\ h \in Nat /\ h + k <= n
      /\ \A i \in rows : /\ i \in 0..(n - 1) /\ i - h + 1 \in 1..k /\ c.cells[i].seqs = {}
                         /\ d.cells[i].pos = batch[i - h + 1].pos
                         /\ d.cells[i].seqs = {batch[i - h + 1].seq}
      /\ \A i \in 0..(n - 1) : i \notin rows => d.cells[i] = c.cells[i]
  BY <1>1 DEF PlacedAt
<1>5. DOMAIN batch = 1..k
  BY <1>4 DEF IsBatch
<1> HIDE DEF k
<1>6. \A j \in 1..k : h + j - 1 \in rows /\ (h + j - 1) - h + 1 = j
  BY <1>4 DEF RowsAt, k
<1> HIDE DEF rows
<1>7. Alone(c) => Alone(d)
  BY <1>3, <1>4 DEF Alone
<1>8. ASSUME NEW s \in Seqs
      PROVE  PositionsOf(d, s) = PositionsOf(c, s) \cup InBatch(batch, s)
  <2>1. ASSUME NEW p \in PositionsOf(d, s) PROVE p \in PositionsOf(c, s) \cup InBatch(batch, s)
    <3>1. PICK i \in 0..(n - 1) : s \in d.cells[i].seqs /\ d.cells[i].pos = p
      BY <1>3, HeldBy
    <3>2. CASE i \in rows
      <4> DEFINE j == i - h + 1
      <4>1. j \in 1..k /\ d.cells[i].pos = batch[j].pos /\ d.cells[i].seqs = {batch[j].seq}
        BY <1>4, <3>2
      <4> HIDE DEF j
      <4>2. batch[j].seq = s /\ batch[j].pos = p
        BY <3>1, <4>1
      <4> QED
        BY <1>5, <4>1, <4>2 DEF InBatch
    <3>3. CASE i \notin rows
      BY <1>3, <1>4, <3>1, <3>3, HeldBy
    <3> QED
      BY <3>2, <3>3
  <2>2. ASSUME NEW p \in PositionsOf(c, s) PROVE p \in PositionsOf(d, s)
    <3>1. PICK i \in 0..(n - 1) : s \in c.cells[i].seqs /\ c.cells[i].pos = p
      BY <1>3, HeldBy
    <3>2. i \notin rows
      BY <1>4, <3>1
    <3> QED
      BY <1>3, <1>4, <3>1, <3>2, HeldBy
  <2>3. ASSUME NEW p \in InBatch(batch, s) PROVE p \in PositionsOf(d, s)
    <3>1. PICK j \in 1..k : batch[j].seq = s /\ batch[j].pos = p
      BY <1>5 DEF InBatch
    <3> DEFINE i == h + j - 1
    <3>2. i \in rows /\ i - h + 1 = j /\ i \in 0..(n - 1)
      BY <1>4, <1>6
    <3> HIDE DEF i
    <3>3. s \in d.cells[i].seqs /\ d.cells[i].pos = p
      BY <1>4, <3>1, <3>2
    <3> QED
      BY <1>3, <3>2, <3>3, HeldBy
  <2> QED
    BY <2>1, <2>2, <2>3
<1>9. ASSUME NEW s \in Seqs, OneRowEach(c, s), PositionsOf(c, s) \cap InBatch(batch, s) = {},
             \A i, j \in 1..k :
                batch[i].seq = s /\ batch[j].seq = s /\ batch[i].pos = batch[j].pos => i = j
      PROVE  OneRowEach(d, s)
  <2> SUFFICES ASSUME NEW i \in 0..(n - 1), NEW j \in 0..(n - 1),
                      s \in d.cells[i].seqs, s \in d.cells[j].seqs, d.cells[i].pos = d.cells[j].pos
               PROVE  i = j
    BY <1>3, OneIs
  <2>1. \A r \in 0..(n - 1) : r \in rows /\ s \in d.cells[r].seqs =>
           /\ r - h + 1 \in 1..k /\ batch[r - h + 1].seq = s /\ batch[r - h + 1].pos = d.cells[r].pos
           /\ d.cells[r].pos \in InBatch(batch, s)
    <3> TAKE r \in 0..(n - 1)
    <3> SUFFICES ASSUME r \in rows, s \in d.cells[r].seqs
                 PROVE  /\ r - h + 1 \in 1..k /\ batch[r - h + 1].seq = s
                        /\ batch[r - h + 1].pos = d.cells[r].pos
                        /\ d.cells[r].pos \in InBatch(batch, s)
      OBVIOUS
    <3>1. r - h + 1 \in 1..k /\ batch[r - h + 1].seq = s /\ batch[r - h + 1].pos = d.cells[r].pos
      BY <1>4
    <3> QED
      BY <1>5, <3>1 DEF InBatch
  <2>2. \A r \in 0..(n - 1) : r \notin rows /\ s \in d.cells[r].seqs =>
           s \in c.cells[r].seqs /\ c.cells[r].pos = d.cells[r].pos /\ d.cells[r].pos \in PositionsOf(c, s)
    BY <1>3, <1>4, HeldBy
  <2>3. CASE i \in rows /\ j \in rows
    <3>1. i - h + 1 = j - h + 1
      BY <1>9, <2>1, <2>3
    <3> QED
      BY <1>4, <3>1
  <2>4. CASE i \notin rows /\ j \notin rows
    BY <1>3, <1>9, <2>2, <2>4, OneIs
  <2>5. CASE (i \in rows /\ j \notin rows) \/ (i \notin rows /\ j \in rows)
    BY <1>9, <2>1, <2>2, <2>5
  <2> QED
    BY <2>3, <2>4, <2>5
<1> QED
  BY <1>7, <1>8, <1>9 DEF d, k

\* The rows of the last placement, given back: the cache is as it was.
LEMMA ReleasedHolds ==
    ASSUME NEW n \in Nat, NEW c, Good(n, c), NEW batch, IsBatch(batch), Room(c, Len(batch)),
           NEW e, Good(n, e), SameRows(Placed(c, batch), e), e.head = Placed(c, batch).head
    PROVE  LET d == Released(e, Len(batch))
           IN  /\ \A s \in Seqs : PositionsOf(d, s) = PositionsOf(c, s)
                                  /\ (OneRowEach(c, s) => OneRowEach(d, s))
               /\ Alone(c) => Alone(d)
<1> DEFINE d == Released(e, Len(batch))
           p == Placed(c, batch)
           rows == RowsAt(batch, p.head)
<1>1. PlacedAt(n, c, batch, p, p.head)
  BY PlacedCells
<1>2. Good(n, d)
  BY ReleasedGood
<1>3. Sound(n, c) /\ Sound(n, d) /\ Sound(n, e) /\ Rows(e) = 0..(n - 1)
  <2> HIDE DEF d
  <2> QED
    BY <1>2, Fields DEF Good, Sound
<1> HIDE DEF p
<1>4. rows \in SUBSET (0..(n - 1)) /\ Rows(e) \cap (e.head..(e.head + Len(batch) - 1)) = rows
  <2>1. rows \in SUBSET (0..(n - 1))
    BY <1>1 DEF PlacedAt
  <2>2. e.head..(e.head + Len(batch) - 1) = rows
    BY Zenon DEF RowsAt, p
  <2> HIDE DEF rows
  <2> QED
    BY <1>3, <2>1, <2>2
<1>5. \A i \in 0..(n - 1) : d.cells[i] = IF i \in rows THEN Hole ELSE e.cells[i]
  <2>1. d = Struck(e, Emptied(e, rows), Entries(e, rows))
    BY <1>4, Zenon DEF Released
  <2> HIDE DEF d, rows
  <2>2. \A i \in 0..(n - 1) : Struck(e, Emptied(e, rows), Entries(e, rows)).cells[i]
                                = IF i \in rows THEN Hole ELSE e.cells[i]
    BY <1>4, StruckCells
  <2> QED
    BY <2>1, <2>2
<1>6. \A i \in 0..(n - 1) : i \notin rows => d.cells[i] = c.cells[i]
  <2>1. e.cells = p.cells
    BY Zenon DEF SameRows, p
  <2> HIDE DEF d
  <2> QED
    BY <1>1, <1>5, <2>1 DEF PlacedAt
<1>7. \A i \in rows : c.cells[i].seqs = {} /\ d.cells[i].seqs = {}
  <2> HIDE DEF d
  <2> QED
    BY <1>1, <1>4, <1>5 DEF Hole, PlacedAt
<1> HIDE DEF d, rows
<1>8. \A i \in 0..(n - 1) : d.cells[i].seqs = c.cells[i].seqs /\ (d.cells[i].seqs # {} => d.cells[i].pos = c.cells[i].pos)
  BY <1>6, <1>7
<1>9. ASSUME NEW s \in Seqs
      PROVE  PositionsOf(d, s) = PositionsOf(c, s) /\ (OneRowEach(c, s) => OneRowEach(d, s))
  <2>1. Thinned(n, c, d, s, Positions)
    <3>1. \A i \in 0..(n - 1) : s \in c.cells[i].seqs => c.cells[i].pos \in Positions
      BY <1>3, HoldsIs
    <3> QED
      BY <1>8, <3>1 DEF Thinned
  <2>2. PositionsOf(c, s) \subseteq Positions
    BY <1>3, HoldsIs
  <2>3. PositionsOf(d, s) = PositionsOf(c, s) \cap Positions /\ (OneRowEach(c, s) => OneRowEach(d, s))
    BY <1>3, <2>1, ThinnedIs
  <2> QED
    BY <2>2, <2>3
<1>10. Alone(c) => Alone(d)
  BY <1>3, <1>8, AloneKept
<1> QED
  BY <1>9, <1>10 DEF d

\* d holds what c holds, for every sequence.
SameHeld(c, d) ==
    /\ \A s \in Seqs : PositionsOf(d, s) = PositionsOf(c, s) /\ (OneRowEach(c, s) => OneRowEach(d, s))
    /\ Alone(c) => Alone(d)

LEMMA DefragHolds ==
    ASSUME NEW n \in Nat, NEW c, Sound(n, c), NEW d \in Defragged(c)
    PROVE  SameHeld(c, d)
<1>1. PICK to : Moves(n, c, d, to)
  BY DefragMoves
<1>2. Sound(n, d) /\ Rows(c) = 0..(n - 1) /\ Rows(d) = 0..(n - 1)
  BY DefragGood, Fields DEF Good, Sound
<1> DEFINE from == DOMAIN to
           Origin(i, o) == d.cells[i] = c.cells[o] /\ i = IF o \in from THEN to[o] ELSE o
<1>3. /\ from \in SUBSET (0..(n - 1))
      /\ \A t \in from : /\ to[t] \in (0..(n - 1)) \ from /\ c.cells[to[t]].seqs = {}
                         /\ d.cells[to[t]] = c.cells[t] /\ d.cells[t] = Hole
      /\ \A t, u \in from : to[t] = to[u] => t = u
      /\ \A i \in (0..(n - 1)) \ from :
            (\A t \in from : to[t] # i) => d.cells[i] = c.cells[i]
  BY <1>1 DEF Moves
<1> HIDE DEF from
<1>4. ASSUME NEW i \in 0..(n - 1), d.cells[i].seqs # {}
      PROVE  \E o \in 0..(n - 1) : Origin(i, o)
  <2>1. i \notin from
    BY <1>3, <1>4 DEF Hole
  <2>2. CASE \E t \in from : to[t] = i
    BY <1>3, <2>2
  <2>3. CASE \A t \in from : to[t] # i
    BY <1>3, <2>1, <2>3
  <2> QED
    BY <2>2, <2>3
<1>5. ASSUME NEW o \in 0..(n - 1), c.cells[o].seqs # {}
      PROVE  \E i \in 0..(n - 1) : Origin(i, o)
  <2>1. CASE o \in from
    BY <1>3, <2>1
  <2>2. CASE o \notin from
    BY <1>3, <1>5, <2>2
  <2> QED
    BY <2>1, <2>2
<1>6. ASSUME NEW i \in 0..(n - 1), NEW j \in 0..(n - 1), NEW o \in 0..(n - 1),
             Origin(i, o), Origin(j, o)
      PROVE  i = j
  BY <1>6
<1>7. \A i, o : Origin(i, o) => d.cells[i] = c.cells[o]
  OBVIOUS
<1> HIDE DEF Origin
<1>8. ASSUME NEW s PROVE PositionsOf(d, s) = PositionsOf(c, s)
  <2>1. ASSUME NEW p \in PositionsOf(d, s) PROVE p \in PositionsOf(c, s)
    <3>1. PICK i \in 0..(n - 1) : s \in d.cells[i].seqs /\ d.cells[i].pos = p
      BY <1>2, HeldBy
    <3>2. PICK o \in 0..(n - 1) : Origin(i, o)
      BY <1>4, <3>1
    <3> QED
      BY <1>2, <1>7, <3>1, <3>2, HeldBy
  <2>2. ASSUME NEW p \in PositionsOf(c, s) PROVE p \in PositionsOf(d, s)
    <3>1. PICK o \in 0..(n - 1) : s \in c.cells[o].seqs /\ c.cells[o].pos = p
      BY <1>2, HeldBy
    <3>2. PICK i \in 0..(n - 1) : Origin(i, o)
      BY <1>5, <3>1
    <3> QED
      BY <1>2, <1>7, <3>1, <3>2, HeldBy
  <2> QED
    BY <2>1, <2>2
<1>9. ASSUME NEW s, OneRowEach(c, s) PROVE OneRowEach(d, s)
  <2> SUFFICES ASSUME NEW i \in 0..(n - 1), NEW j \in 0..(n - 1),
                      s \in d.cells[i].seqs, s \in d.cells[j].seqs, d.cells[i].pos = d.cells[j].pos
               PROVE  i = j
    BY <1>2, OneIs
  <2>1. PICK o \in 0..(n - 1) : Origin(i, o)
    BY <1>4
  <2>2. PICK u \in 0..(n - 1) : Origin(j, u)
    BY <1>4
  <2>3. o = u
    <3>1. s \in c.cells[o].seqs /\ s \in c.cells[u].seqs /\ c.cells[o].pos = c.cells[u].pos
      BY <1>7, <2>1, <2>2
    <3> QED
      BY <1>9, <3>1, OneIs
  <2> QED
    BY <1>6, <2>1, <2>2, <2>3
<1>10. Alone(c) => Alone(d)
  <2> SUFFICES ASSUME Alone(c), NEW i \in 0..(n - 1) PROVE \A a, b \in d.cells[i].seqs : a = b
    BY <1>2 DEF Alone
  <2>1. CASE d.cells[i].seqs = {}
    BY <2>1
  <2>2. CASE d.cells[i].seqs # {}
    <3>1. PICK o \in 0..(n - 1) : Origin(i, o)
      BY <1>4, <2>2
    <3> QED
      BY <1>2, <1>7, <3>1 DEF Alone
  <2> QED
    BY <2>1, <2>2
<1> QED
  BY <1>8, <1>9, <1>10 DEF SameHeld

\* A shift that takes no position below zero: the rows in range move, for every
\* sequence tagged on them.
LEMMA AddCells ==
    ASSUME NEW n \in Nat, NEW c, Sound(n, c), NEW s \in Seqs,
           NEW p0 \in 0..End, NEW p1 \in Int, NEW delta \in Int,
           \A i \in InRange(c, s, p0, p1) : c.cells[i].pos + delta >= 0
    PROVE  LET d == SeqAdd(c, s, p0, p1, delta)
               M == InRange(c, s, p0, p1)
           IN  \A i \in 0..(n - 1) :
                  /\ d.cells[i].seqs = c.cells[i].seqs
                  /\ i \notin M => d.cells[i].pos = c.cells[i].pos
                  /\ i \in M => d.cells[i].pos = c.cells[i].pos + delta
<1> DEFINE d == SeqAdd(c, s, p0, p1, delta)
           M == InRange(c, s, p0, p1)
           R == {i \in M : c.cells[i].pos + delta < 0}
           b == Emptied(c, {})
           e == Invalidated(b)
           f == [i \in Rows(c) |->
                   IF i \in M THEN [pos |-> e.cells[i].pos + delta, seqs |-> e.cells[i].seqs]
                   ELSE e.cells[i]]
<1>1. c \in Cache(n) /\ Rows(c) = 0..(n - 1)
  BY Fields DEF Sound
<1>2. M \in SUBSET (0..(n - 1)) /\ \A i \in M : c.cells[i].pos \in p0..(p1 - 1) /\ c.cells[i].pos \in Positions
  BY <1>1, InRangeRows
<1>3. CASE p0 = p1
  <2>1. d = Invalidated(c)
    BY <1>3, Zenon DEF SeqAdd
  <2>2. d.cells = c.cells
    BY <1>1, <2>1, InvalidatedIs
  <2>3. M = {}
    <3> HIDE DEF M
    <3>1. \A i \in M : c.cells[i].pos \in {}
      BY <1>2, <1>3, BoundsAssumption DEF End
    <3> QED
      BY <3>1
  <2> HIDE DEF d, M
  <2> QED
    BY <2>2, <2>3 DEF d, M
<1>4. CASE p0 # p1
  <2>1. R = {}
    BY <1>2, BoundsAssumption DEF Positions
  <2>2. M \ {} = M
    OBVIOUS
  <2>3. d = [e EXCEPT !.cells = f, !.head = 0]
    <3>1. d = [Invalidated(Emptied(c, R)) EXCEPT
                 !.cells = [i \in Rows(c) |->
                    IF i \in M \ R
                    THEN [pos |-> @[i].pos + delta, seqs |-> @[i].seqs] ELSE @[i]],
                 !.head = IF R = {} THEN 0 ELSE Min(R)]
      BY <1>4, Zenon DEF SeqAdd
    <3> HIDE DEF R, M, d
    <3> QED
      BY <2>1, <2>2, <3>1
  <2>4. b \in Cache(n) /\ \A i \in 0..(n - 1) : b.cells[i] = c.cells[i]
    <3>1. Sound(n, b) /\ \A i \in 0..(n - 1) : b.cells[i] = IF i \in {} THEN Hole ELSE c.cells[i]
      BY EmptiedSound
    <3> QED
      BY <3>1 DEF Sound
  <2> HIDE DEF b
  <2>5. e \in Cache(n) /\ e.cells = b.cells
    BY <2>4, InvalidatedIs
  <2> HIDE DEF e, d
  <2>6. d.cells = f
    <3> HIDE DEF f
    <3> QED
      BY <2>3, <2>5, Zenon DEF Cache
  <2> HIDE DEF M
  <2>7. \A i \in 0..(n - 1) :
           f[i] = IF i \in M THEN [pos |-> c.cells[i].pos + delta, seqs |-> c.cells[i].seqs] ELSE c.cells[i]
    BY <1>1, <2>4, <2>5
  <2> HIDE DEF f
  <2>8. \A i \in 0..(n - 1) : /\ f[i].seqs = c.cells[i].seqs
                              /\ i \notin M => f[i].pos = c.cells[i].pos
                              /\ i \in M => f[i].pos = c.cells[i].pos + delta
    <3> TAKE i \in 0..(n - 1)
    <3>1. CASE i \in M
      <4>1. f[i] = [pos |-> c.cells[i].pos + delta, seqs |-> c.cells[i].seqs]
        BY <2>7, <3>1
      <4> QED
        BY <3>1, <4>1
    <3>2. CASE i \notin M
      BY <2>7, <3>2
    <3> QED
      BY <3>1, <3>2
  <2> QED
    BY <2>6, <2>8 DEF d, M
<1> QED
  BY <1>3, <1>4

\* The positions from a on move down by k, for one sequence and where no cell
\* is shared.
MovedDown(c, d, s, a, k) ==
    /\ Alone(d)
    /\ \A t \in Seqs \ {s} : PositionsOf(d, t) = PositionsOf(c, t)
                             /\ (OneRowEach(c, t) => OneRowEach(d, t))
    /\ PositionsOf(d, s) = {p \in PositionsOf(c, s) : p < a}
                             \cup {p - k : p \in {q \in PositionsOf(c, s) : q >= a}}
    /\ OneRowEach(c, s) /\ PositionsOf(c, s) \cap ((a - k)..(a - 1)) = {} => OneRowEach(d, s)

LEMMA AddSlides ==
    ASSUME NEW n \in Nat, NEW c, Sound(n, c), NEW s \in Seqs, Alone(c),
           NEW a \in 0..End, NEW k \in 1..a, NEW p1 \in Int,
           \A p \in PositionsOf(c, s) : p < p1
    PROVE  MovedDown(c, SeqAdd(c, s, a, p1, -k), s, a, k)
<1> DEFINE d == SeqAdd(c, s, a, p1, -k)
           M == InRange(c, s, a, p1)
<1>1. /\ a \in 0..End /\ a \in Nat /\ k \in Nat /\ k <= a /\ -k \in Int /\ End \in Int
      /\ Positions \subseteq Nat
  BY BoundsAssumption DEF End, Positions
<1>2. /\ c \in Cache(n) /\ Rows(c) = 0..(n - 1)
      /\ M \in SUBSET (0..(n - 1))
      /\ \A i \in M : c.cells[i].pos \in (a)..(p1 - 1) /\ c.cells[i].pos \in Positions
  <2>1. c \in Cache(n)
    BY DEF Sound
  <2> QED
    BY <1>1, <2>1, Fields, InRangeRows
<1>3. \A i \in M : c.cells[i].pos + (-k) >= 0 /\ c.cells[i].pos + (-k) =< MaxPos
  BY <1>1, <1>2, BoundsAssumption DEF Positions
<1>4. \A i \in 0..(n - 1) :
         /\ d.cells[i].seqs = c.cells[i].seqs
         /\ i \notin M => d.cells[i].pos = c.cells[i].pos
         /\ i \in M => d.cells[i].pos = c.cells[i].pos + (-k)
  BY <1>1, <1>3, AddCells
<1>5. Sound(n, d)
  BY <1>1, <1>3, AddGood DEF Good
<1>6. \A i \in 0..(n - 1) : i \in M <=> s \in c.cells[i].seqs /\ c.cells[i].pos >= a
  <2> TAKE i \in 0..(n - 1)
  <2>1. s \in c.cells[i].seqs => c.cells[i].pos \in PositionsOf(c, s)
    BY HeldBy
  <2> QED
    BY <1>2, <2>1 DEF InRange, Tagged
<1> HIDE DEF d, M
<1>7. Alone(d)
  BY <1>4, <1>5, AloneKept
<1>8. ASSUME NEW t \in Seqs \ {s}
      PROVE  PositionsOf(d, t) = PositionsOf(c, t) /\ (OneRowEach(c, t) => OneRowEach(d, t))
  <2>1. Thinned(n, c, d, t, Positions)
    <3>1. \A i \in 0..(n - 1) : t \in c.cells[i].seqs => i \notin M
      BY <1>2, <1>6, <1>8 DEF Alone
    <3>2. \A i \in 0..(n - 1) : t \in c.cells[i].seqs => c.cells[i].pos \in Positions
      BY HoldsIs
    <3> QED
      BY <1>4, <3>1, <3>2 DEF Thinned
  <2>2. PositionsOf(d, t) = PositionsOf(c, t) \cap Positions /\ (OneRowEach(c, t) => OneRowEach(d, t))
    BY <1>5, <2>1, ThinnedIs
  <2> QED
    BY <2>2, HoldsIs
<1>9. \A i \in 0..(n - 1) : s \in c.cells[i].seqs =>
         /\ c.cells[i].pos \in Nat /\ c.cells[i].pos \in PositionsOf(c, s)
         /\ d.cells[i].pos = IF c.cells[i].pos >= a THEN c.cells[i].pos - k ELSE c.cells[i].pos
  <2> TAKE i \in 0..(n - 1)
  <2> SUFFICES ASSUME s \in c.cells[i].seqs
               PROVE  /\ c.cells[i].pos \in Nat /\ c.cells[i].pos \in PositionsOf(c, s)
                      /\ d.cells[i].pos = IF c.cells[i].pos >= a THEN c.cells[i].pos - k ELSE c.cells[i].pos
    OBVIOUS
  <2>1. c.cells[i].pos \in Nat /\ c.cells[i].pos \in PositionsOf(c, s)
    BY RowHeld
  <2> QED
    BY <1>4, <1>6, <2>1
<1>10. PositionsOf(d, s) = {p \in PositionsOf(c, s) : p < a}
                             \cup {p - k : p \in {q \in PositionsOf(c, s) : q >= a}}
  <2>1. ASSUME NEW p \in PositionsOf(d, s)
        PROVE  p \in {q \in PositionsOf(c, s) : q < a}
                       \cup {q - k : q \in {r \in PositionsOf(c, s) : r >= a}}
    <3>1. PICK i \in 0..(n - 1) : s \in d.cells[i].seqs /\ d.cells[i].pos = p
      BY <1>5, HeldBy
    <3>2. s \in c.cells[i].seqs
      BY <1>4, <3>1
    <3> QED
      BY <1>9, <3>1, <3>2
  <2>2. ASSUME NEW q \in PositionsOf(c, s)
        PROVE  (IF q >= a THEN q - k ELSE q) \in PositionsOf(d, s)
    <3>1. PICK i \in 0..(n - 1) : s \in c.cells[i].seqs /\ c.cells[i].pos = q
      BY HeldBy
    <3>2. s \in d.cells[i].seqs /\ d.cells[i].pos = IF q >= a THEN q - k ELSE q
      BY <1>4, <1>9, <3>1
    <3> QED
      BY <1>5, <3>2, HeldBy
  <2>3. \A q \in PositionsOf(c, s) : q \in Nat
    BY <1>1, HoldsIs
  <2> QED
    BY <2>1, <2>2, <2>3
<1>11. ASSUME OneRowEach(c, s), PositionsOf(c, s) \cap ((a - k)..(a - 1)) = {} PROVE OneRowEach(d, s)
  <2> SUFFICES ASSUME NEW i \in 0..(n - 1), NEW j \in 0..(n - 1),
                      s \in d.cells[i].seqs, s \in d.cells[j].seqs, d.cells[i].pos = d.cells[j].pos
               PROVE  i = j
    BY <1>5, OneIs
  <2>1. s \in c.cells[i].seqs /\ s \in c.cells[j].seqs
    BY <1>4
  <2>2. c.cells[i].pos = c.cells[j].pos
    <3> DEFINE x == c.cells[i].pos
               y == c.cells[j].pos
    <3>1. x \in Nat /\ y \in Nat /\ x \notin (a - k)..(a - 1) /\ y \notin (a - k)..(a - 1)
      BY <1>9, <1>11, <2>1
    <3>2. (IF x >= a THEN x - k ELSE x) = (IF y >= a THEN y - k ELSE y)
      BY <1>9, <2>1
    <3> HIDE DEF x, y
    <3>3. x = y
      BY <3>1, <3>2
    <3> QED
      BY <3>3 DEF x, y
  <2> QED
    BY <1>11, <2>1, <2>2, OneIs
<1> QED
  BY <1>7, <1>8, <1>10, <1>11 DEF MovedDown, d

LEMMA CpCells ==
    ASSUME NEW n \in Nat, NEW c, Sound(n, c), NEW src \in Seqs, NEW dst \in Seqs,
           NEW p0 \in 0..End, NEW p1 \in Int
    PROVE  LET d == SeqCp(c, src, dst, p0, p1)
               R == InRange(c, src, p0, p1)
           IN  \A i \in 0..(n - 1) :
                  /\ d.cells[i].pos = c.cells[i].pos
                  /\ i \in R => d.cells[i].seqs = c.cells[i].seqs \cup {dst}
                  /\ i \notin R => d.cells[i].seqs = c.cells[i].seqs
<1> DEFINE R == InRange(c, src, p0, p1)
           e == Invalidated(c)
           f == [i \in Rows(c) |->
                   IF i \in R THEN [pos |-> e.cells[i].pos, seqs |-> e.cells[i].seqs \cup {dst}]
                   ELSE e.cells[i]]
           d == SeqCp(c, src, dst, p0, p1)
<1>1. c \in Cache(n) /\ Rows(c) = 0..(n - 1)
  BY Fields DEF Sound
<1>2. e \in Cache(n) /\ e.cells = c.cells
  BY <1>1, InvalidatedIs
<1>3. d = [e EXCEPT !.cells = f, !.head = 0]
  BY Zenon DEF SeqCp
<1> HIDE DEF R, e, d
<1>4. d.cells = f
  <2> HIDE DEF f
  <2> QED
    BY <1>2, <1>3, Zenon DEF Cache
<1>5. \A i \in 0..(n - 1) :
         f[i] = IF i \in R THEN [pos |-> c.cells[i].pos, seqs |-> c.cells[i].seqs \cup {dst}] ELSE c.cells[i]
  BY <1>1, <1>2
<1> HIDE DEF f
<1>6. \A i \in 0..(n - 1) : /\ f[i].pos = c.cells[i].pos
                            /\ i \in R => f[i].seqs = c.cells[i].seqs \cup {dst}
                            /\ i \notin R => f[i].seqs = c.cells[i].seqs
  <2> TAKE i \in 0..(n - 1)
  <2>1. CASE i \in R
    <3>1. f[i] = [pos |-> c.cells[i].pos, seqs |-> c.cells[i].seqs \cup {dst}]
      BY <1>5, <2>1
    <3> QED
      BY <2>1, <3>1
  <2>2. CASE i \notin R
    BY <1>5, <2>2
  <2> QED
    BY <2>1, <2>2
<1> QED
  BY <1>4, <1>6 DEF d, R

\* A shared prefix: the destination gives up its own cells below p and takes
\* the source's; nobody else notices.
LEMMA ShareHolds ==
    ASSUME NEW n \in Nat, NEW c, Sound(n, c), NEW src \in Seqs, NEW dst \in Seqs, src # dst,
           NEW p \in 0..End
    PROVE  LET d == SharePrefix(c, src, dst, p)
           IN  /\ \A t \in Seqs \ {dst} : PositionsOf(d, t) = PositionsOf(c, t)
                                          /\ (OneRowEach(c, t) => OneRowEach(d, t))
               /\ PositionsOf(d, dst) = {q \in PositionsOf(c, dst) : q >= p}
                                          \cup {q \in PositionsOf(c, src) : q < p}
               /\ OneRowEach(c, dst) /\ OneRowEach(c, src) => OneRowEach(d, dst)
<1> DEFINE R == InRange(c, dst, 0, p)
           u == Untagged(c, dst, R)
           S == InRange(u, src, 0, p)
           d == SharePrefix(c, src, dst, p)
<1>1. 0 \in 0..End /\ p \in Int /\ p \in Nat /\ End \in Nat /\ Positions \subseteq Nat
  BY BoundsAssumption DEF End, Positions
<1>2. /\ c \in Cache(n) /\ Rows(c) = 0..(n - 1) /\ R \in SUBSET (0..(n - 1))
      /\ \A i \in 0..(n - 1) : c.cells[i] \in Cell
  <2>1. c \in Cache(n) /\ Rows(c) = 0..(n - 1)
    BY Fields DEF Sound
  <2> QED
    BY <1>1, <2>1, InRangeRows, Fields
<1>3. /\ Sound(n, u)
      /\ \A i \in 0..(n - 1) :
            u.cells[i] = IF i \in R THEN Without(c.cells[i], dst) ELSE c.cells[i]
  <2> HIDE DEF R
  <2> QED
    BY <1>2, UntaggedSound
<1>4. \A i \in 0..(n - 1) : i \in R <=> dst \in c.cells[i].seqs /\ c.cells[i].pos < p
  <2>1. /\ Tagged(c, dst) = {i \in 0..(n - 1) : dst \in c.cells[i].seqs}
        /\ \A i \in Tagged(c, dst) : c.cells[i].pos \in Nat
    BY <1>1, HoldsIs
  <2> QED
    BY <1>1, <2>1 DEF InRange
<1>5. d = SeqCp(u, src, dst, 0, p)
  BY Zenon DEF SharePrefix
<1> HIDE DEF R, u, d
<1>6. Rows(u) = 0..(n - 1) /\ Sound(n, d)
  BY <1>1, <1>3, <1>5, Fields, CpGood DEF Sound, Good
<1>7. \A i \in 0..(n - 1) : i \in S <=> src \in u.cells[i].seqs /\ u.cells[i].pos < p
  <2>1. Sound(n, u)
    BY <1>3
  <2>2. Tagged(u, src) = {i \in 0..(n - 1) : src \in u.cells[i].seqs}
    BY <2>1, HoldsIs
  <2>3. \A i \in 0..(n - 1) : src \in u.cells[i].seqs => u.cells[i].pos \in Nat
    BY <2>1, RowHeld
  <2> QED
    BY <1>1, <2>2, <2>3 DEF InRange
<1>8. \A i \in 0..(n - 1) :
         /\ d.cells[i].pos = u.cells[i].pos
         /\ i \in S => d.cells[i].seqs = u.cells[i].seqs \cup {dst}
         /\ i \notin S => d.cells[i].seqs = u.cells[i].seqs
  BY <1>1, <1>3, <1>5, CpCells
<1> HIDE DEF S
<1>9. ASSUME NEW i \in 0..(n - 1)
      PROVE  /\ u.cells[i].seqs = IF i \in R THEN c.cells[i].seqs \ {dst} ELSE c.cells[i].seqs
             /\ u.cells[i].seqs # {} => u.cells[i].pos = c.cells[i].pos
  <2>1. CASE i \in R
    <3>1. u.cells[i] = Without(c.cells[i], dst) /\ c.cells[i] \in Cell
      BY <1>2, <1>3, <2>1
    <3>2. c.cells[i].seqs \subseteq {dst} => c.cells[i].seqs \ {dst} = {}
      OBVIOUS
    <3> QED
      BY <2>1, <3>1, <3>2, WithoutIs
  <2>2. CASE i \notin R
    BY <1>3, <2>2
  <2> QED
    BY <2>1, <2>2
<1>10. ASSUME NEW t \in Seqs \ {dst}
       PROVE  PositionsOf(d, t) = PositionsOf(c, t) /\ (OneRowEach(c, t) => OneRowEach(d, t))
  <2>1. Thinned(n, c, d, t, Positions)
    <3>1. \A i \in 0..(n - 1) : t \in c.cells[i].seqs => c.cells[i].pos \in Positions
      BY HoldsIs
    <3>2. \A i \in 0..(n - 1) : t \in d.cells[i].seqs <=> t \in u.cells[i].seqs
      BY <1>8, <1>10
    <3>3. \A i \in 0..(n - 1) : t \in u.cells[i].seqs <=> t \in c.cells[i].seqs
      BY <1>9, <1>10
    <3> QED
      BY <1>8, <1>9, <3>1, <3>2, <3>3 DEF Thinned
  <2>2. PositionsOf(d, t) = PositionsOf(c, t) \cap Positions /\ (OneRowEach(c, t) => OneRowEach(d, t))
    BY <1>6, <2>1, ThinnedIs
  <2> QED
    BY <2>2, HoldsIs
<1>11. ASSUME NEW i \in 0..(n - 1)
       PROVE  /\ dst \in d.cells[i].seqs <=> \/ dst \in c.cells[i].seqs /\ c.cells[i].pos >= p
                                             \/ src \in c.cells[i].seqs /\ c.cells[i].pos < p
              /\ dst \in d.cells[i].seqs => d.cells[i].pos = c.cells[i].pos
  <2>1. dst \in c.cells[i].seqs => c.cells[i].pos \in Nat
    BY RowHeld
  <2>2. src \in u.cells[i].seqs <=> src \in c.cells[i].seqs
    BY <1>9
  <2>3. dst \in u.cells[i].seqs <=> dst \in c.cells[i].seqs /\ c.cells[i].pos >= p
    <3> DEFINE q == c.cells[i].pos
    <3>0. (i \in R <=> dst \in c.cells[i].seqs /\ q < p) /\ p \in Nat
      BY <1>1, <1>4
    <3> HIDE DEF q
    <3>1. CASE i \in R
      <4>1. u.cells[i].seqs = c.cells[i].seqs \ {dst}
        BY <1>9, <3>1
      <4>2. dst \in c.cells[i].seqs /\ q < p /\ q \in Nat
        BY <2>1, <3>0, <3>1 DEF q
      <4> QED
        BY <3>0, <4>1, <4>2 DEF q
    <3>2. CASE i \notin R
      <4>1. u.cells[i].seqs = c.cells[i].seqs
        BY <1>9, <3>2
      <4>2. dst \in c.cells[i].seqs => q \in Nat
        BY <2>1 DEF q
      <4> QED
        BY <3>0, <3>2, <4>1, <4>2 DEF q
    <3> QED
      BY <3>1, <3>2
  <2>4. i \in S <=> src \in c.cells[i].seqs /\ c.cells[i].pos < p
    BY <1>7, <1>9, <2>2
  <2> QED
    BY <1>8, <1>9, <2>2, <2>3, <2>4
<1>12. PositionsOf(d, dst) = {q \in PositionsOf(c, dst) : q >= p}
                               \cup {q \in PositionsOf(c, src) : q < p}
  <2>1. ASSUME NEW q \in PositionsOf(d, dst)
        PROVE  (q \in PositionsOf(c, dst) /\ q >= p) \/ (q \in PositionsOf(c, src) /\ q < p)
    <3>1. PICK i \in 0..(n - 1) : dst \in d.cells[i].seqs /\ d.cells[i].pos = q
      BY <1>6, HeldBy
    <3> QED
      BY <1>11, <3>1, HeldBy
  <2>2. ASSUME NEW q \in PositionsOf(c, dst), q >= p PROVE q \in PositionsOf(d, dst)
    <3>1. PICK i \in 0..(n - 1) : dst \in c.cells[i].seqs /\ c.cells[i].pos = q
      BY HeldBy
    <3> QED
      BY <1>6, <1>11, <2>2, <3>1, HeldBy
  <2>3. ASSUME NEW q \in PositionsOf(c, src), q < p PROVE q \in PositionsOf(d, dst)
    <3>1. PICK i \in 0..(n - 1) : src \in c.cells[i].seqs /\ c.cells[i].pos = q
      BY HeldBy
    <3> QED
      BY <1>6, <1>11, <2>3, <3>1, HeldBy
  <2> QED
    BY <2>1, <2>2, <2>3
<1>13. ASSUME OneRowEach(c, dst), OneRowEach(c, src) PROVE OneRowEach(d, dst)
  <2> SUFFICES ASSUME NEW i \in 0..(n - 1), NEW j \in 0..(n - 1),
                      dst \in d.cells[i].seqs, dst \in d.cells[j].seqs, d.cells[i].pos = d.cells[j].pos
               PROVE  i = j
    BY <1>6, OneIs
  <2>1. c.cells[i].pos = c.cells[j].pos /\ c.cells[i].pos \in Nat
    BY <1>11, RowHeld
  <2>2. CASE c.cells[i].pos >= p
    <3>1. dst \in c.cells[i].seqs /\ dst \in c.cells[j].seqs
      BY <1>1, <1>11, <2>1, <2>2
    <3> QED
      BY <1>13, <2>1, <3>1, OneIs
  <2>3. CASE c.cells[i].pos < p
    <3>1. src \in c.cells[i].seqs /\ src \in c.cells[j].seqs
      BY <1>1, <1>11, <2>1, <2>3
    <3> QED
      BY <1>13, <2>1, <3>1, OneIs
  <2> QED
    BY <1>1, <2>1, <2>2, <2>3
<1> QED
  BY <1>10, <1>12, <1>13 DEF d

\* A prefix that is shared in full is there in full.
LEMMA SharedIsWhole ==
    ASSUME NEW n \in Nat, NEW c, Sound(n, c), NEW s \in Seqs, OneRowEach(c, s),
           NEW p \in 0..End, Shared(c, s, p) = p
    PROVE  0..(p - 1) \subseteq PositionsOf(c, s)
<1> DEFINE R == InRange(c, s, 0, p)
           f == [i \in R |-> c.cells[i].pos]
<1>1. 0 \in 0..End /\ p \in Int /\ p \in Nat /\ Positions \subseteq Nat
  BY BoundsAssumption DEF End, Positions
<1>2. c \in Cache(n) /\ R \in SUBSET (0..(n - 1)) /\ \A i \in R : s \in c.cells[i].seqs /\ c.cells[i].pos \in 0..(p - 1)
  BY <1>1, InRangeRows DEF Sound
<1>3. Cardinality(R) = p
  BY DEF Shared
<1> HIDE DEF R
<1>4. f \in [R -> 0..(p - 1)] /\ \A i, j \in R : f[i] = f[j] => i = j
  BY <1>2, OneIs
<1> HIDE DEF f
<1>5. f \in Injection(R, 0..(p - 1))
  BY <1>4 DEF Injection, IsInjective
<1>6. IsFiniteSet(0..(p - 1)) /\ Cardinality(0..(p - 1)) = p
  <2> DEFINE b == p - 1
  <2>1. 0 \in Int /\ b \in Int /\ (IF 0 > b THEN 0 ELSE b - 0 + 1) = p
    BY <1>1
  <2> HIDE DEF b
  <2>2. IsFiniteSet(0..b) /\ Cardinality(0..b) = p
    BY <2>1, FS_Interval
  <2> QED
    BY <2>2 DEF b
<1>7. f \in Surjection(R, 0..(p - 1))
  BY <1>3, <1>5, <1>6, FS_Injection
<1>8. \A q \in 0..(p - 1) : \E i \in R : c.cells[i].pos = q
  BY <1>7 DEF Surjection, f
<1> QED
  BY <1>2, <1>8, HeldBy

-----------------------------------------------------------------------------
(* ... and with both caches                                                *)

Tidy(k) == \A s \in Seqs : OneRowEach(k.self, s) /\ OneRowEach(k.swa, s)
Lone(k) == Alone(k.self) /\ Alone(k.swa)

\* Both caches lose the positions "gone" of s, and nothing else.
Trims(k, r, s, gone) == Removes(k.self, r.self, s, gone) /\ Removes(k.swa, r.swa, s, gone)

LEMMA RemovesAlike ==
    ASSUME NEW c, NEW d, NEW s, NEW gone, Removes(c, d, s, gone)
    PROVE  /\ \A e : SameRows(d, e) => Removes(c, e, s, gone)
           /\ \A b : SameRows(b, c) => Removes(b, d, s, gone)
<1>1. ASSUME NEW e, SameRows(d, e) PROVE Removes(c, e, s, gone)
  <2>1. /\ \A t : PositionsOf(e, t) = PositionsOf(d, t) /\ (OneRowEach(d, t) => OneRowEach(e, t))
        /\ Alone(d) => Alone(e)
    BY <1>1, SameRowsHold
  <2> QED
    BY <2>1 DEF Removes
<1>2. ASSUME NEW b, SameRows(b, c) PROVE Removes(b, d, s, gone)
  <2>1. /\ \A t : PositionsOf(c, t) = PositionsOf(b, t) /\ (OneRowEach(b, t) => OneRowEach(c, t))
        /\ Alone(b) => Alone(c)
    BY <1>2, SameRowsHold
  <2> QED
    BY <2>1 DEF Removes
<1> QED
  BY <1>1, <1>2

LEMMA RemovesMore ==
    ASSUME NEW c, NEW d, NEW e, NEW s \in Seqs, NEW gone, NEW more,
           Removes(c, d, s, gone), Removes(d, e, s, more), gone \subseteq more
    PROVE  Removes(c, e, s, more)
<1>1. ASSUME NEW t \in Seqs
      PROVE  PositionsOf(e, t) = IF t = s THEN PositionsOf(c, t) \ more ELSE PositionsOf(c, t)
  <2>1. PositionsOf(d, t) = IF t = s THEN PositionsOf(c, t) \ gone ELSE PositionsOf(c, t)
    BY DEF Removes
  <2>2. PositionsOf(e, t) = IF t = s THEN PositionsOf(d, t) \ more ELSE PositionsOf(d, t)
    BY DEF Removes
  <2> QED
    BY <2>1, <2>2
<1>2. \A t \in Seqs : OneRowEach(c, t) => OneRowEach(e, t)
  BY DEF Removes
<1>3. Alone(c) => Alone(e)
  BY DEF Removes
<1> QED
  BY <1>1, <1>2, <1>3 DEF Removes

LEMMA AtZeroKeeps ==
    ASSUME NEW n \in Nat, NEW c, Good(n, c)
    PROVE  SameRows(c, AtZeroIfEmpty(c))
<1>1. c \in Cache(n)
  BY DEF Good, Sound
<1> QED
  BY <1>1, Zenon DEF SameRows, Cache, AtZeroIfEmpty

\* The parts of a pair that takes a new value on one side.
LEMMA WithSelfIs ==
    ASSUME NEW n \in Nat, NEW k, Good(n, k.swa), NEW c
    PROVE  WithSelf(k, c).self = c /\ SameRows(k.swa, WithSelf(k, c).swa)
<1>1. SameRows(k.swa, Stale(k.swa))
  BY StaleKeeps
<1> QED
  BY <1>1 DEF WithSelf, SameRows

LEMMA WithSwaIs ==
    ASSUME NEW m \in Nat, NEW k, Good(m, k.self), NEW c
    PROVE  WithSwa(k, c).swa = c /\ SameRows(k.self, WithSwa(k, c).self)
<1>1. SameRows(k.self, Stale(k.self))
  BY StaleKeeps
<1> QED
  BY <1>1 DEF WithSwa, SameRows

LEMMA BothIs ==
    ASSUME NEW m \in Nat, NEW n \in Nat, NEW k, NEW c, NEW d, Good(m, c), Good(n, d)
    PROVE  SameRows(c, Both(k, c, d).self) /\ SameRows(d, Both(k, c, d).swa)
<1>1. SameRows(c, Stale(c)) /\ SameRows(d, Stale(d))
  BY StaleKeeps
<1> QED
  BY <1>1 DEF Both, SameRows

LEMMA NothingToRemove ==
    ASSUME NEW c, Good(0, c), NEW d, Good(0, d), NEW s, NEW gone
    PROVE  Removes(c, d, s, gone)
<1>1. /\ Alone(d) /\ \A t : PositionsOf(d, t) = {} /\ OneRowEach(d, t)
      /\ Alone(c) /\ \A t : PositionsOf(c, t) = {}
  BY NoCells
<1> QED
  BY <1>1 DEF Removes

LEMMA ActiveIs ==
    ASSUME NEW m \in Nat, NEW n \in Nat, NEW k, PairGood(k, m, n)
    PROVE  SwaActive(k) <=> n > 0
<1>1. k.swa \in Cache(n)
  BY DEF PairGood, Good, Sound
<1> QED
  BY <1>1, Fields DEF SwaActive

LEMMA TrimmedIs ==
    ASSUME NEW m \in Nat, NEW n \in Nat, NEW k, PairGood(k, m, n), NEW s \in Seqs,
           NEW p0 \in 0..End, NEW p1 \in Int
    PROVE  /\ PairGood(Trimmed(k, s, p0, p1), m, n)
           /\ Trims(k, Trimmed(k, s, p0, p1), s, p0..(p1 - 1))
<1> DEFINE a == WithSelf(k, SeqRm(k.self, s, p0, p1))
           c == SeqRm(a.swa, s, p0, p1)
           b == WithSwa(a, AtZeroIfEmpty(c))
           gone == p0..(p1 - 1)
<1>1. /\ PairGood(a, m, n) /\ a.self = SeqRm(k.self, s, p0, p1) /\ SameRows(k.swa, a.swa)
  BY RmGood, WithSelfGood, WithSelfIs DEF PairGood
<1>2. Removes(k.self, a.self, s, gone)
  BY <1>1, RmRemoves DEF PairGood
<1>3. Trimmed(k, s, p0, p1) = IF SwaActive(k) THEN b ELSE a
  BY Zenon DEF Trimmed
<1> HIDE DEF a
<1>4. Good(n, c) /\ Removes(a.swa, c, s, gone) /\ SameRows(c, AtZeroIfEmpty(c)) /\ Good(n, AtZeroIfEmpty(c))
  <2>1. Good(n, c) /\ Removes(a.swa, c, s, gone)
    BY <1>1, RmGood, RmRemoves DEF PairGood
  <2> QED
    BY <2>1, AtZeroKeeps, AtZeroGood
<1>5. PairGood(b, m, n) /\ SameRows(a.self, b.self) /\ b.swa = AtZeroIfEmpty(c)
  BY <1>1, <1>4, WithSwaGood, WithSwaIs DEF PairGood
<1> HIDE DEF c, b, gone
<1>6. CASE SwaActive(k)
  <2>1. Removes(k.self, b.self, s, gone)
    BY <1>2, <1>5, RemovesAlike
  <2>2. Removes(a.swa, b.swa, s, gone)
    BY <1>4, <1>5, RemovesAlike
  <2>3. Removes(k.swa, b.swa, s, gone)
    BY <1>1, <2>2, RemovesAlike
  <2> QED
    BY <1>3, <1>5, <1>6, <2>1, <2>3 DEF Trims, gone
<1>7. CASE ~SwaActive(k)
  <2>1. n = 0
    BY <1>7, ActiveIs
  <2>2. Removes(k.swa, a.swa, s, gone)
    BY <1>1, <2>1, NothingToRemove DEF PairGood
  <2> QED
    BY <1>1, <1>2, <1>3, <1>7, <2>2 DEF Trims, gone
<1> QED
  BY <1>6, <1>7

LEMMA WipedIs ==
    ASSUME NEW m \in Nat, NEW n \in Nat, NEW k, PairGood(k, m, n), NEW s \in Seqs
    PROVE  Trims(k, Wiped(k, s), s, Positions)
<1> DEFINE a == WithSwa(k, SeqRm(k.swa, s, 0, End))
           b == WithSelf(a, SeqRm(a.self, s, 0, End))
<1>1. 0 \in 0..End /\ End \in Int /\ Positions = 0..(End - 1)
  BY BoundsAssumption DEF End, Positions
<1>2. /\ PairGood(a, m, n) /\ a.swa = SeqRm(k.swa, s, 0, End) /\ SameRows(k.self, a.self)
  BY <1>1, RmGood, WithSwaGood, WithSwaIs DEF PairGood
<1>3. Removes(k.swa, a.swa, s, Positions)
  BY <1>1, <1>2, RmRemoves DEF PairGood
<1> HIDE DEF a
<1>4. b.self = SeqRm(a.self, s, 0, End) /\ SameRows(a.swa, b.swa)
  BY <1>2, WithSelfIs DEF PairGood
<1>5. Removes(a.self, b.self, s, Positions)
  BY <1>1, <1>2, <1>4, RmRemoves DEF PairGood
<1>6. b = Wiped(k, s)
  BY Zenon DEF Wiped, a
<1> HIDE DEF b
<1>7. Removes(k.self, b.self, s, Positions) /\ Removes(k.swa, b.swa, s, Positions)
  BY <1>2, <1>3, <1>4, <1>5, RemovesAlike
<1> QED
  BY <1>6, <1>7 DEF Trims

\* The positions below the top of W that the window reads are in W.
Covers(H, W) ==
    IF W = {} THEN H = {}
    ELSE \A p \in W : (\A q \in W : q <= p) => \A x \in 0..p : x > p - Window => x \in W

LEMMA CoverageIs ==
    ASSUME NEW m \in Nat, NEW n \in Nat, NEW k, PairGood(k, m, n), NEW s \in Seqs,
           n > 0, CoverageOk(k, s)
    PROVE  Covers(PositionsOf(k.self, s), PositionsOf(k.swa, s))
<1> DEFINE top == PosMax(k.swa, s)
           W == PositionsOf(k.swa, s)
<1>1. SwaActive(k)
  BY ActiveIs
<1>2. /\ top \in Int /\ top >= -1 /\ top \in W \cup {-1}
      /\ \A p \in W : p <= top
      /\ top < 0 <=> W = {}
      /\ PosMax(k.self, s) < 0 <=> PositionsOf(k.self, s) = {}
      /\ W \subseteq Positions
  BY PosMaxIs, HoldsIs DEF PairGood, Good
<1>3. IF top < 0 THEN PosMax(k.self, s) < 0 ELSE Max({0, top - Window + 1})..top \subseteq W
  BY <1>1 DEF CoverageOk
<1> HIDE DEF top, W
<1>4. CASE top < 0
  BY <1>2, <1>3, <1>4 DEF Covers, W
<1>5. CASE ~(top < 0)
  <2>1. top - Window + 1 \in Int
    BY <1>2, BoundsAssumption
  <2>2. Max({0, top - Window + 1}) = IF top - Window + 1 >= 0 THEN top - Window + 1 ELSE 0
    BY <2>1, GreaterOfZero
  <2>3. \A x \in 0..top : x > top - Window => x \in W
    BY <1>2, <1>3, <1>5, <2>2, BoundsAssumption
  <2>4. \A p \in W : (\A q \in W : q <= p) => p = top
    BY <1>2, <1>5, BoundsAssumption DEF Positions
  <2>5. W # {}
    BY <1>2, <1>5
  <2> QED
    BY <2>3, <2>4, <2>5 DEF Covers, W
<1> QED
  BY <1>4, <1>5

\* llama_kv_cache_seq_rm as a whole: refused, it leaves the sequence nothing;
\* granted, it takes the range, and the window is covered.
LEMMA CtxRmIs ==
    ASSUME NEW m \in Nat, NEW n \in Nat, NEW k, PairGood(k, m, n), NEW s \in Seqs,
           NEW p0 \in 0..End, NEW p1 \in 0..End
    PROVE  LET r == CtxSeqRm(k, s, p0, p1)
           IN  /\ PairGood(r, m, n)
               /\ Refused(k, s, p0, p1) => Trims(k, r, s, Positions)
               /\ ~Refused(k, s, p0, p1) =>
                     /\ Trims(k, r, s, p0..(p1 - 1))
                     /\ n > 0 => Covers(PositionsOf(r.self, s), PositionsOf(r.swa, s))
<1> DEFINE t == Trimmed(k, s, p0, p1)
           r == CtxSeqRm(k, s, p0, p1)
<1>1. p1 \in Int /\ p0..(p1 - 1) \subseteq Positions
  BY BoundsAssumption DEF End, Positions
<1>2. PairGood(t, m, n) /\ Trims(k, t, s, p0..(p1 - 1))
  BY <1>1, TrimmedIs
<1>3. PairGood(r, m, n)
  BY CtxSeqRmGood
<1>4. r = (IF CoverageOk(t, s) THEN t ELSE Wiped(t, s)) /\ (Refused(k, s, p0, p1) <=> ~CoverageOk(t, s))
  BY Zenon DEF CtxSeqRm, Refused
<1> HIDE DEF t, r
<1>5. CASE CoverageOk(t, s)
  <2>1. n > 0 => Covers(PositionsOf(t.self, s), PositionsOf(t.swa, s))
    BY <1>2, <1>5, CoverageIs
  <2> QED
    BY <1>2, <1>3, <1>4, <1>5, <2>1 DEF r
<1>6. CASE ~CoverageOk(t, s)
  <2>1. Trims(t, Wiped(t, s), s, Positions)
    BY <1>2, WipedIs
  <2>2. Trims(k, Wiped(t, s), s, Positions)
    BY <1>1, <1>2, <2>1, RemovesMore DEF Trims
  <2> QED
    BY <1>3, <1>4, <1>6, <2>2 DEF r
<1> QED
  BY <1>5, <1>6

\* What a removal is to the pair.
LEMMA TrimsIs ==
    ASSUME NEW k, NEW r, NEW s \in Seqs, NEW gone, Trims(k, r, s, gone)
    PROVE  /\ Tidy(k) => Tidy(r)
           /\ Lone(k) => Lone(r)
           /\ \A t \in Seqs \ {s} : /\ PositionsOf(r.self, t) = PositionsOf(k.self, t)
                                    /\ PositionsOf(r.swa, t) = PositionsOf(k.swa, t)
           /\ PositionsOf(r.self, s) = PositionsOf(k.self, s) \ gone
           /\ PositionsOf(r.swa, s) = PositionsOf(k.swa, s) \ gone
<1>1. \A t \in Seqs \ {s} : /\ PositionsOf(r.self, t) = PositionsOf(k.self, t)
                            /\ PositionsOf(r.swa, t) = PositionsOf(k.swa, t)
  BY DEF Trims, Removes
<1>2. /\ PositionsOf(r.self, s) = PositionsOf(k.self, s) \ gone
      /\ PositionsOf(r.swa, s) = PositionsOf(k.swa, s) \ gone
  BY DEF Trims, Removes
<1>3. /\ Tidy(k) => Tidy(r)
      /\ Lone(k) => Lone(r)
  BY DEF Trims, Removes, Tidy, Lone
<1> QED
  BY <1>1, <1>2, <1>3

-----------------------------------------------------------------------------
(* ... and by a ubatch                                                     *)

\* W is the last of the positions below D, with the window of the next query.
Windowed(W, D) == \E a \in 0..D : W = a..(D - 1) /\ (a = 0 \/ a <= D - Window + 1)

LEMMA EvictedWindowed ==
    ASSUME NEW D \in Nat, NEW W, Windowed(W, D), NEW ref \in Int, ref <= D, NEW guard \in Nat
    PROVE  Windowed({p \in W : ref - p < Window + guard}, D)
<1>1. PICK a \in 0..D : W = a..(D - 1) /\ (a = 0 \/ a <= D - Window + 1)
  BY DEF Windowed
<1> DEFINE b == ref - Window - guard + 1
           V == {p \in W : ref - p < Window + guard}
<1>2. b \in Int /\ Window \in Nat \ {0} /\ b <= D - Window + 1 /\ b <= D
  BY BoundsAssumption
<1>3. \A p \in W : ref - p < Window + guard <=> p >= b
  BY <1>1, BoundsAssumption
<1> HIDE DEF b
<1>4. CASE b <= a
  <2>1. V = a..(D - 1)
    BY <1>1, <1>2, <1>3, <1>4
  <2> QED
    BY <1>1, <2>1 DEF Windowed
<1>5. CASE ~(b <= a)
  <2>1. V = b..(D - 1) /\ b \in 0..D
    BY <1>1, <1>2, <1>3, <1>5
  <2> QED
    BY <1>2, <2>1 DEF Windowed
<1> QED
  BY <1>4, <1>5

\* The reference of a sequence whose next tokens follow what it holds.
LEMMA ReferenceIs ==
    ASSUME NEW n \in Nat, NEW c, Sound(n, c), NEW batch, IsBatch(batch), NEW s \in Seqs
    PROVE  /\ Reference(c, batch, s) \in Int
           /\ \A D, T \in Nat :
                 InBatch(batch, s) = D..(D + T - 1) /\ PositionsOf(c, s) \subseteq 0..(D - 1)
                 => Reference(c, batch, s) <= D
<1>1. InBatch(batch, s) \in SUBSET Nat
  <2>1. \A j \in DOMAIN batch : batch[j].pos \in Nat
    BY BatchIs, BoundsAssumption DEF IsBatch, Positions
  <2> QED
    BY <2>1 DEF InBatch
<1>2. CASE InBatch(batch, s) = {}
  <2>1. Reference(c, batch, s) = PosMax(c, s)
    BY <1>2 DEF Reference
  <2>2. PosMax(c, s) \in Int /\ PosMax(c, s) \in PositionsOf(c, s) \cup {-1}
    BY PosMaxIs
  <2> QED
    BY <2>1, <2>2
<1>3. CASE InBatch(batch, s) # {}
  <2>1. Reference(c, batch, s) = Min(InBatch(batch, s))
    BY <1>3 DEF Reference
  <2>2. Min(InBatch(batch, s)) \in InBatch(batch, s) /\ \A x \in InBatch(batch, s) : Min(InBatch(batch, s)) <= x
    BY <1>1, <1>3, LeastOf
  <2>3. ASSUME NEW D \in Nat, NEW T \in Nat, InBatch(batch, s) = D..(D + T - 1)
        PROVE  D \in InBatch(batch, s)
    BY <1>3, <2>3
  <2> HIDE DEF InBatch
  <2> QED
    BY <1>1, <2>1, <2>2, <2>3
<1> QED
  BY <1>2, <1>3

\* At most the sliding cache loses positions, and none that the next query of a
\* sequence reads.
Retires(k, r, batch) ==
    /\ \A s \in Seqs :
          /\ PositionsOf(r.self, s) = PositionsOf(k.self, s)
          /\ PositionsOf(r.swa, s) \subseteq PositionsOf(k.swa, s)
          /\ \A D, T \in Nat :
                InBatch(batch, s) = D..(D + T - 1) /\ Windowed(PositionsOf(k.swa, s), D)
                => Windowed(PositionsOf(r.swa, s), D)
    /\ Tidy(k) => Tidy(r)
    /\ Lone(k) => Lone(r)

LEMMA RetiresTwice ==
    ASSUME NEW batch, NEW k, NEW r, NEW q, Retires(k, r, batch), Retires(r, q, batch)
    PROVE  Retires(k, q, batch)
<1>1. (Tidy(k) => Tidy(q)) /\ (Lone(k) => Lone(q))
  BY DEF Retires
<1>2. ASSUME NEW s \in Seqs
      PROVE  /\ PositionsOf(q.self, s) = PositionsOf(k.self, s)
             /\ PositionsOf(q.swa, s) \subseteq PositionsOf(k.swa, s)
             /\ \A D, T \in Nat :
                   InBatch(batch, s) = D..(D + T - 1) /\ Windowed(PositionsOf(k.swa, s), D)
                   => Windowed(PositionsOf(q.swa, s), D)
  BY DEF Retires
<1> QED
  BY <1>1, <1>2 DEF Retires

\* The same positions in other rows.
LEMMA SameRetires ==
    ASSUME NEW batch, NEW k, NEW r, SameHeld(k.self, r.self), SameHeld(k.swa, r.swa)
    PROVE  Retires(k, r, batch)
<1>1. (Tidy(k) => Tidy(r)) /\ (Lone(k) => Lone(r))
  BY DEF SameHeld, Tidy, Lone
<1>2. \A s \in Seqs : /\ PositionsOf(r.self, s) = PositionsOf(k.self, s)
                      /\ PositionsOf(r.swa, s) = PositionsOf(k.swa, s)
  BY DEF SameHeld
<1> QED
  BY <1>1, <1>2 DEF Retires

LEMMA RowsHeld ==
    ASSUME NEW c, NEW d, SameRows(c, d)
    PROVE  SameHeld(c, d)
  BY SameRowsHold DEF SameHeld

LEMMA EvictionRetires ==
    ASSUME NEW m \in Nat, NEW n \in Nat, NEW k, PairGood(k, m, n), Lone(k),
           NEW batch, IsBatch(batch), NEW guard \in Nat
    PROVE  Retires(k, WithSwa(k, Evicted(k.swa, batch, guard)), batch)
<1> DEFINE d == Evicted(k.swa, batch, guard)
           r == WithSwa(k, d)
           Ref(s) == Reference(k.swa, batch, s)
<1>1. r.swa = d /\ SameRows(k.self, r.self) /\ Good(n, d)
  BY WithSwaIs, EvictedGood DEF PairGood
<1>2. SameHeld(k.self, r.self)
  BY <1>1, RowsHeld
<1>3. \A s \in Seqs : Ref(s) \in Int
  BY ReferenceIs DEF PairGood, Good
<1>4. /\ Alone(d)
      /\ \A s \in Seqs :
            /\ PositionsOf(d, s) = {p \in PositionsOf(k.swa, s) : Ref(s) - p < Window + guard}
            /\ OneRowEach(k.swa, s) => OneRowEach(d, s)
  BY <1>3, EvictedHolds DEF PairGood, Lone
<1> HIDE DEF d, r
<1>5. (Tidy(k) => Tidy(r)) /\ (Lone(k) => Lone(r))
  BY <1>1, <1>2, <1>4 DEF Tidy, Lone, SameHeld
<1>6. ASSUME NEW s \in Seqs, NEW D \in Nat, NEW T \in Nat,
             InBatch(batch, s) = D..(D + T - 1), Windowed(PositionsOf(k.swa, s), D)
      PROVE  Windowed(PositionsOf(r.swa, s), D)
  <2>1. PositionsOf(k.swa, s) \subseteq 0..(D - 1)
    BY <1>6 DEF Windowed
  <2>2. Ref(s) \in Int /\ Ref(s) <= D
    BY <1>6, <2>1, ReferenceIs DEF PairGood, Good
  <2> HIDE DEF Ref
  <2>3. Windowed({p \in PositionsOf(k.swa, s) : Ref(s) - p < Window + guard}, D)
    BY <1>6, <2>2, EvictedWindowed
  <2> QED
    BY <1>1, <1>4, <2>3
<1>7. \A s \in Seqs : /\ PositionsOf(r.self, s) = PositionsOf(k.self, s)
                      /\ PositionsOf(r.swa, s) \subseteq PositionsOf(k.swa, s)
  BY <1>1, <1>2, <1>4 DEF SameHeld
<1> QED
  BY <1>5, <1>6, <1>7 DEF Retires, r, d

LEMMA RetiredRetires ==
    ASSUME NEW m \in Nat, NEW n \in Nat, NEW k, PairGood(k, m, n), n > 0 => Lone(k),
           NEW batch, IsBatch(batch)
    PROVE  Retires(k, Retired(k, batch), batch)
<1> DEFINE a == WithSwa(k, Evicted(k.swa, batch, Guard))
           b == WithSwa(a, Evicted(a.swa, batch, 0))
<1>1. Retires(k, k, batch)
  BY Zenon DEF Retires
<1>2. CASE ~SwaActive(k)
  BY <1>1, <1>2 DEF Retired
<1>3. CASE SwaActive(k)
  <2>1. Lone(k) /\ Guard \in Nat /\ 0 \in Nat
    BY <1>3, ActiveIs, BoundsAssumption
  <2>2. Retires(k, a, batch)
    BY <2>1, EvictionRetires
  <2>3. PairGood(a, m, n) /\ Lone(a)
    <3>1. Lone(a)
      BY <2>1, <2>2 DEF Retires
    <3> QED
      BY <3>1, EvictedGood, WithSwaGood DEF PairGood
  <2> HIDE DEF a
  <2>4. Retires(a, b, batch)
    BY <2>1, <2>3, EvictionRetires
  <2>5. Retires(k, b, batch)
    BY <2>2, <2>4, RetiresTwice
  <2>6. Retired(k, batch) = a \/ Retired(k, batch) = b
    BY <1>3, Zenon DEF Retired, a, b
  <2> QED
    BY <2>2, <2>5, <2>6
<1> QED
  BY <1>2, <1>3

\* The tokens of the batch are new to both caches, and each has its own place.
New(k, batch) ==
    \A s \in Seqs :
       /\ InBatch(batch, s) \cap PositionsOf(k.self, s) = {}
       /\ InBatch(batch, s) \cap PositionsOf(k.swa, s) = {}
       /\ \A i, j \in 1..Len(batch) :
             batch[i].seq = s /\ batch[j].seq = s /\ batch[i].pos = batch[j].pos => i = j

\* The batch lies in both caches, after the window was retired.
Grows(n, k, r, batch) ==
    /\ \E e : /\ Retires(k, e, batch)
              /\ \A s \in Seqs :
                    /\ PositionsOf(r.self, s) = PositionsOf(e.self, s) \cup InBatch(batch, s)
                    /\ PositionsOf(r.swa, s)
                          = IF n > 0 THEN PositionsOf(e.swa, s) \cup InBatch(batch, s) ELSE {}
    /\ Tidy(k) => Tidy(r)
    /\ Lone(k) => Lone(r)

\* A placement of a batch that is new to the cache.
LEMMA PlacedNew ==
    ASSUME NEW n \in Nat, NEW c, Good(n, c), NEW batch, IsBatch(batch), Room(c, Len(batch))
    PROVE  LET d == Placed(c, batch)
           IN  /\ Alone(c) => Alone(d)
               /\ \A s \in Seqs :
                     PositionsOf(d, s) = PositionsOf(c, s) \cup InBatch(batch, s)
               /\ \A s \in Seqs :
                     /\ OneRowEach(c, s) /\ InBatch(batch, s) \cap PositionsOf(c, s) = {}
                     /\ \A i, j \in 1..Len(batch) :
                           batch[i].seq = s /\ batch[j].seq = s /\ batch[i].pos = batch[j].pos
                           => i = j
                     => OneRowEach(d, s)
<1>1. \A s \in Seqs : InBatch(batch, s) \cap PositionsOf(c, s) = {}
                        => PositionsOf(c, s) \cap InBatch(batch, s) = {}
  OBVIOUS
<1> QED
  BY <1>1, PlacedHolds

\* What a ubatch finds once the sliding cache has taken its rows.
LEMMA SwaPlacedIs ==
    ASSUME NEW m \in Nat, NEW n \in Nat, NEW k, PairGood(k, m, n),
           NEW batch, IsBatch(batch), SwaRoom(k, batch)
    PROVE  LET r == Retired(k, batch)
               d == SwaPlaced(k, batch)
           IN  /\ SameRows(k.self, d.self) /\ PairGood(d, m, n) /\ PairGood(r, m, n)
               /\ n > 0 => Room(r.swa, Len(batch)) /\ d.swa = Placed(r.swa, batch)
<1> DEFINE r == Retired(k, batch)
           d == SwaPlaced(k, batch)
<1>1. PairGood(r, m, n) /\ PairGood(d, m, n) /\ SameRows(k.self, d.self)
  BY RetiredGood, SwaPlacedGood
<1>2. ASSUME n > 0 PROVE Room(r.swa, Len(batch)) /\ d.swa = Placed(r.swa, batch)
  <2>1. SwaActive(k) /\ Room(r.swa, Len(batch))
    BY <1>2, ActiveIs DEF SwaRoom
  <2>2. d = WithSwa(r, Placed(r.swa, batch))
    BY <2>1, Zenon DEF SwaPlaced
  <2> HIDE DEF r, d
  <2>3. d.swa = Placed(r.swa, batch)
    BY <1>1, <2>2, WithSwaIs DEF PairGood
  <2> QED
    BY <2>1, <2>3 DEF r
<1> QED
  BY <1>1, <1>2

\* Where a ubatch stands before the main cache takes its rows: as the sliding
\* cache left it, or with the main cache compacted.
Poised(m, n, d, e) ==
    /\ PairGood(e, m, n) /\ SameHeld(d.self, e.self)
    /\ SameRows(d.swa, e.swa) /\ e.swa.head = d.swa.head

LEMMA PoisedIs ==
    ASSUME NEW m \in Nat, NEW n \in Nat, NEW d, PairGood(d, m, n)
    PROVE  Poised(m, n, d, d) /\ \A e \in Compacted(d) : Poised(m, n, d, e)
<1>1. Poised(m, n, d, d)
  <2>1. SameRows(d.self, d.self) /\ SameRows(d.swa, d.swa)
    BY DEF SameRows
  <2> QED
    BY <2>1, RowsHeld DEF Poised
<1>2. ASSUME NEW e \in Compacted(d) PROVE Poised(m, n, d, e)
  <2>1. CASE Defragged(d.self) = {}
    BY <1>1, <1>2, <2>1 DEF Compacted
  <2>2. CASE Defragged(d.self) # {}
    <3>1. PICK c \in Defragged(d.self) : e = WithSelf(d, c)
      BY <1>2, <2>2 DEF Compacted
    <3>2. Sound(m, d.self) /\ Good(m, c) /\ SameHeld(d.self, c) /\ d.swa \in Cache(n)
      BY DefragGood, DefragHolds DEF PairGood, Good, Sound
    <3>3. PairGood(e, m, n)
      BY <3>1, <3>2, WithSelfGood DEF PairGood
    <3>4. e.self = c /\ SameRows(d.swa, e.swa)
      BY <3>1, WithSelfIs DEF PairGood
    <3>5. Stale(d.swa).head = d.swa.head
      BY <3>2, Zenon DEF Stale, Cache
    <3>6. e.swa.head = d.swa.head
      BY <3>1, <3>5 DEF WithSelf
    <3> QED
      BY <3>2, <3>3, <3>4, <3>6 DEF Poised
  <2> QED
    BY <2>1, <2>2
<1> QED
  BY <1>1, <1>2

\* A ubatch that fails there leaves what the retirement left.
LEMMA GivenBackRetires ==
    ASSUME NEW m \in Nat, NEW n \in Nat, NEW k, PairGood(k, m, n), n > 0 => Lone(k),
           NEW batch, IsBatch(batch), SwaRoom(k, batch),
           NEW e, Poised(m, n, SwaPlaced(k, batch), e)
    PROVE  Retires(k, GivenBack(e, Len(batch)), batch)
<1> DEFINE r == Retired(k, batch)
           d == SwaPlaced(k, batch)
           g == GivenBack(e, Len(batch))
           c == Released(e.swa, Len(batch))
<1>1. Retires(k, r, batch)
  BY RetiredRetires
<1>2. /\ SameRows(k.self, d.self) /\ PairGood(d, m, n) /\ PairGood(r, m, n)
      /\ n > 0 => Room(r.swa, Len(batch)) /\ d.swa = Placed(r.swa, batch)
  BY SwaPlacedIs
<1>3. PairGood(e, m, n) /\ SameHeld(d.self, e.self) /\ SameRows(d.swa, e.swa) /\ e.swa.head = d.swa.head
  BY DEF Poised
<1>4. SameHeld(k.self, e.self)
  BY <1>2, <1>3, RowsHeld DEF SameHeld
<1>5. g = IF SwaActive(e) THEN WithSwa(e, c) ELSE e
  BY Zenon DEF GivenBack
<1> HIDE DEF r, d, g
<1>7. CASE n = 0
  <2>1. g = e
    BY <1>3, <1>5, <1>7, ActiveIs
  <2>2. SameHeld(k.swa, e.swa)
    <3>1. /\ Alone(e.swa) /\ \A t : PositionsOf(e.swa, t) = {} /\ OneRowEach(e.swa, t)
          /\ Alone(k.swa) /\ \A t : PositionsOf(k.swa, t) = {}
      BY <1>3, <1>7, NoCells DEF PairGood
    <3> QED
      BY <3>1 DEF SameHeld
  <2>3. Retires(k, e, batch)
    BY <1>4, <2>2, SameRetires
  <2> QED
    BY <2>1, <2>3 DEF g
<1>8. CASE n > 0
  <2>1. g = WithSwa(e, c)
    BY <1>3, <1>5, <1>8, ActiveIs
  <2>2. g.swa = c /\ SameRows(e.self, g.self)
    BY <1>3, <2>1, WithSwaIs DEF PairGood
  <2>3. d.swa = Placed(r.swa, batch) /\ Room(r.swa, Len(batch))
    BY <1>2, <1>8
  <2>4. SameRows(Placed(r.swa, batch), e.swa) /\ e.swa.head = Placed(r.swa, batch).head
    BY <1>3, <2>3
  <2>5. /\ \A s \in Seqs : PositionsOf(c, s) = PositionsOf(r.swa, s)
                           /\ (OneRowEach(r.swa, s) => OneRowEach(c, s))
        /\ Alone(r.swa) => Alone(c)
    BY <1>2, <1>3, <2>3, <2>4, ReleasedHolds DEF PairGood
  <2> HIDE DEF c
  <2>6. SameHeld(k.self, g.self)
    BY <1>4, <2>2, RowsHeld DEF SameHeld
  <2>7. \A s \in Seqs :
          /\ PositionsOf(g.self, s) = PositionsOf(k.self, s)
          /\ PositionsOf(g.swa, s) = PositionsOf(r.swa, s)
    BY <2>2, <2>5, <2>6 DEF SameHeld
  <2>8. (Tidy(k) => Tidy(g)) /\ (Lone(k) => Lone(g))
    <3>1. (Tidy(k) => Tidy(r)) /\ (Lone(k) => Lone(r))
      BY <1>1 DEF Retires
    <3> QED
      BY <2>2, <2>5, <2>6, <3>1 DEF Tidy, Lone, SameHeld
  <2>9. Retires(k, g, batch)
    BY <1>1, <2>7, <2>8 DEF Retires
  <2> QED
    BY <2>9 DEF g
<1> QED
  BY <1>7, <1>8

\* A ubatch that succeeds.
LEMMA SelfPlacedGrows ==
    ASSUME NEW m \in Nat, NEW n \in Nat, NEW k, PairGood(k, m, n), n > 0 => Lone(k),
           NEW batch, IsBatch(batch), SwaRoom(k, batch), New(k, batch),
           NEW e, Poised(m, n, SwaPlaced(k, batch), e), Room(e.self, Len(batch))
    PROVE  Grows(n, k, SelfPlaced(e, batch), batch)
<1> DEFINE r == Retired(k, batch)
           d == SwaPlaced(k, batch)
           p == Placed(e.self, batch)
           q == Advanced(p, Len(batch))
           g == SelfPlaced(e, batch)
<1>1. Retires(k, r, batch)
  BY RetiredRetires
<1>2. /\ SameRows(k.self, d.self) /\ PairGood(d, m, n) /\ PairGood(r, m, n)
      /\ n > 0 => Room(r.swa, Len(batch)) /\ d.swa = Placed(r.swa, batch)
  BY SwaPlacedIs
<1>3. PairGood(e, m, n) /\ SameHeld(d.self, e.self) /\ SameRows(d.swa, e.swa)
  BY DEF Poised
<1>4. SameHeld(k.self, e.self)
  BY <1>2, <1>3, RowsHeld DEF SameHeld
<1>5. Good(m, p) /\ Len(batch) \in Nat
  BY <1>3, PlacedGood, BatchIs DEF PairGood
<1>6. /\ Alone(e.self) => Alone(p)
      /\ \A s \in Seqs : PositionsOf(p, s) = PositionsOf(e.self, s) \cup InBatch(batch, s)
      /\ \A s \in Seqs :
            /\ OneRowEach(e.self, s) /\ InBatch(batch, s) \cap PositionsOf(e.self, s) = {}
            /\ \A i, j \in 1..Len(batch) :
                  batch[i].seq = s /\ batch[j].seq = s /\ batch[i].pos = batch[j].pos => i = j
            => OneRowEach(p, s)
  BY <1>3, PlacedNew DEF PairGood
<1> HIDE DEF p
<1>7. SameRows(p, q)
  <2>1. p \in Cache(m)
    BY <1>5 DEF Good, Sound
  <2> QED
    BY <2>1, Zenon DEF Advanced, SameRows, Cache
<1>8. g.self = q /\ SameRows(e.swa, g.swa)
  BY <1>3, WithSelfIs DEF SelfPlaced, PairGood, p
<1> HIDE DEF r, d, g, q
<1>9. SameHeld(p, g.self) /\ SameHeld(d.swa, g.swa)
  <2>1. SameRows(d.swa, g.swa)
    BY <1>3, <1>8 DEF SameRows
  <2> QED
    BY <1>7, <1>8, <2>1, RowsHeld
<1>10. \A s \in Seqs : /\ InBatch(batch, s) \cap PositionsOf(k.self, s) = {}
                       /\ InBatch(batch, s) \cap PositionsOf(k.swa, s) = {}
                       /\ \A i, j \in 1..Len(batch) :
                             batch[i].seq = s /\ batch[j].seq = s /\ batch[i].pos = batch[j].pos
                             => i = j
  BY DEF New
<1>11. \A s \in Seqs : PositionsOf(g.self, s) = PositionsOf(k.self, s) \cup InBatch(batch, s)
  BY <1>4, <1>6, <1>9 DEF SameHeld
<1>12. /\ Alone(k.self) => Alone(g.self)
       /\ \A s \in Seqs : OneRowEach(k.self, s) => OneRowEach(g.self, s)
  <2>1. \A s \in Seqs : InBatch(batch, s) \cap PositionsOf(e.self, s) = {}
    BY <1>4, <1>10 DEF SameHeld
  <2>2. \A s \in Seqs : OneRowEach(e.self, s) => OneRowEach(p, s)
    BY <1>6, <1>10, <2>1
  <2> QED
    BY <1>4, <1>6, <1>9, <2>2 DEF SameHeld
<1>13. /\ \A s \in Seqs : /\ PositionsOf(r.self, s) = PositionsOf(k.self, s)
                          /\ PositionsOf(r.swa, s) \subseteq PositionsOf(k.swa, s)
       /\ Tidy(k) => Tidy(r)
       /\ Lone(k) => Lone(r)
  BY <1>1 DEF Retires
<1>14. CASE n = 0
  <2>1. Alone(g.swa) /\ \A t : PositionsOf(g.swa, t) = {} /\ OneRowEach(g.swa, t)
    <3>1. PairGood(g, m, n)
      <4>1. Good(m, q)
        BY <1>5, AdvancedGood DEF q
      <4> QED
        BY <1>3, <4>1, WithSelfGood DEF SelfPlaced, PairGood, g, q, p
    <3> QED
      BY <1>14, <3>1, NoCells DEF PairGood
  <2>2. \A s \in Seqs :
           /\ PositionsOf(g.self, s) = PositionsOf(r.self, s) \cup InBatch(batch, s)
           /\ PositionsOf(g.swa, s)
                 = IF n > 0 THEN PositionsOf(r.swa, s) \cup InBatch(batch, s) ELSE {}
    BY <1>11, <1>13, <1>14, <2>1
  <2>3. (Tidy(k) => Tidy(g)) /\ (Lone(k) => Lone(g))
    BY <1>12, <2>1 DEF Tidy, Lone
  <2> QED
    BY <1>1, <2>2, <2>3 DEF Grows, g
<1>15. CASE n > 0
  <2>1. d.swa = Placed(r.swa, batch) /\ Room(r.swa, Len(batch))
    BY <1>2, <1>15
  <2>2. /\ Alone(r.swa) => Alone(d.swa)
        /\ \A s \in Seqs : PositionsOf(d.swa, s) = PositionsOf(r.swa, s) \cup InBatch(batch, s)
        /\ \A s \in Seqs :
              /\ OneRowEach(r.swa, s) /\ InBatch(batch, s) \cap PositionsOf(r.swa, s) = {}
              /\ \A i, j \in 1..Len(batch) :
                    batch[i].seq = s /\ batch[j].seq = s /\ batch[i].pos = batch[j].pos => i = j
              => OneRowEach(d.swa, s)
    BY <1>2, <2>1, PlacedNew DEF PairGood
  <2>3. \A s \in Seqs : InBatch(batch, s) \cap PositionsOf(r.swa, s) = {}
    BY <1>10, <1>13
  <2>4. \A s \in Seqs : OneRowEach(r.swa, s) => OneRowEach(d.swa, s)
    BY <1>10, <2>2, <2>3
  <2>5. \A s \in Seqs :
           /\ PositionsOf(g.self, s) = PositionsOf(r.self, s) \cup InBatch(batch, s)
           /\ PositionsOf(g.swa, s)
                 = IF n > 0 THEN PositionsOf(r.swa, s) \cup InBatch(batch, s) ELSE {}
    BY <1>9, <1>11, <1>13, <1>15, <2>2 DEF SameHeld
  <2>6. (Tidy(k) => Tidy(g)) /\ (Lone(k) => Lone(g))
    BY <1>9, <1>12, <1>13, <2>2, <2>4 DEF Tidy, Lone, SameHeld
  <2> QED
    BY <1>1, <2>5, <2>6 DEF Grows, g
<1> QED
  BY <1>14, <1>15
=============================================================================
