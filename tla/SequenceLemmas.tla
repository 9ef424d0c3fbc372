--------------------------- MODULE SequenceLemmas ---------------------------
(* Facts about the sequence operators the queue models are built from: how *)
(* often an element occurs in a sequence, and what becomes of that count   *)
(* when the sequence is extended, cut, filtered or made from a set.        *)
EXTENDS SubSequence, SequencesExt, FiniteSetTheorems, FunctionTheorems,
        SequenceTheorems, TLAPS

(* The indices at which m stands in q, and how many they are.             *)
At(q, m) == {i \in DOMAIN q : q[i] = m}
Count(q, m) == Cardinality(At(q, m))

(* Two sets with a one-to-one function from one onto the other have the    *)
(* same number of elements.                                                *)
LEMMA SameSize ==
    ASSUME NEW S, NEW T, IsFiniteSet(S), NEW f \in [S -> T],
           \A a, b \in S : f[a] = f[b] => a = b,
           \A y \in T : \E x \in S : f[x] = y
    PROVE  IsFiniteSet(T) /\ Cardinality(T) = Cardinality(S)
<1>1. f \in Bijection(S, T)
  BY Fun_IsBij
<1> QED
  BY <1>1, FS_Bijection DEF ExistsBijection

LEMMA IndicesFinite ==
    ASSUME NEW S, NEW q \in Seq(S), NEW I \in SUBSET DOMAIN q
    PROVE  IsFiniteSet(I) /\ Cardinality(I) \in Nat
<1>1. DOMAIN q = 1..Len(q) /\ Len(q) \in Nat
  OBVIOUS
<1>2. IsFiniteSet(1..Len(q))
  BY <1>1, FS_Interval
<1> QED
  BY <1>1, <1>2, FS_Subset, FS_CardinalityType

LEMMA CountType ==
    ASSUME NEW S, NEW q \in Seq(S), NEW m
    PROVE  /\ IsFiniteSet(At(q, m)) /\ Count(q, m) \in Nat
           /\ Count(q, m) = 0 <=> \A i \in 1..Len(q) : q[i] # m
<1>1. At(q, m) \in SUBSET DOMAIN q
  BY DEF At
<1>2. IsFiniteSet(At(q, m)) /\ Count(q, m) \in Nat
  BY <1>1, IndicesFinite DEF Count
<1>3. Count(q, m) = 0 <=> At(q, m) = {}
  BY <1>2, FS_EmptySet DEF Count
<1>4. At(q, m) = {} <=> \A i \in 1..Len(q) : q[i] # m
  BY DEF At
<1> QED
  BY <1>2, <1>3, <1>4

LEMMA CountEmpty == \A m : Count(<<>>, m) = 0
<1> TAKE m
<1>1. At(<<>>, m) = {}
  BY DEF At
<1> QED
  BY <1>1, FS_EmptySet DEF Count

(* Concatenation adds the counts.                                          *)
LEMMA CountConcat ==
    ASSUME NEW S, NEW p \in Seq(S), NEW q \in Seq(S), NEW m
    PROVE  Count(p \o q, m) = Count(p, m) + Count(q, m)
<1> DEFINE n == Len(p)
           shift == {i + n : i \in At(q, m)}
<1>1. /\ p \o q \in Seq(S) /\ Len(p \o q) = n + Len(q) /\ n \in Nat /\ Len(q) \in Nat
      /\ \A i \in 1..n : (p \o q)[i] = p[i]
      /\ \A i \in 1..Len(q) : (p \o q)[i + n] = q[i]
  OBVIOUS
<1>2. At(p \o q, m) = At(p, m) \cup shift
  <2>1. \A i \in 1..(n + Len(q)) : i \in 1..n \/ \E k \in 1..Len(q) : i = k + n
    <3> TAKE i \in 1..(n + Len(q))
    <3>1. CASE i > n
      <4>1. i - n \in 1..Len(q) /\ i = (i - n) + n
        BY <3>1, <1>1
      <4> QED
        BY <4>1
    <3>2. CASE i <= n
      BY <3>2, <1>1
    <3> QED
      BY <3>1, <3>2, <1>1
  <2>2. At(p \o q, m) = {i \in 1..(n + Len(q)) : (p \o q)[i] = m}
    BY <1>1 DEF At
  <2>3. At(p, m) = {i \in 1..n : p[i] = m} /\ At(q, m) = {i \in 1..Len(q) : q[i] = m}
    BY DEF At
  <2>4. At(p \o q, m) \subseteq At(p, m) \cup shift
    BY <2>1, <2>2, <2>3, <1>1
  <2>5. At(p, m) \subseteq At(p \o q, m)
    BY <2>2, <2>3, <1>1
  <2>6. shift \subseteq At(p \o q, m)
    BY <2>2, <2>3, <1>1
  <2> QED
    BY <2>4, <2>5, <2>6
<1>3. At(p, m) \cap shift = {}
  BY <1>1 DEF At
<1>4. IsFiniteSet(At(p, m)) /\ IsFiniteSet(At(q, m)) /\ Count(p, m) \in Nat /\ Count(q, m) \in Nat
  BY CountType
<1>5. IsFiniteSet(shift) /\ Cardinality(shift) = Count(q, m)
  <2> DEFINE f == [i \in At(q, m) |-> i + n]
  <2>1. \A i \in At(q, m) : i \in Nat
    BY <1>1 DEF At
  <2>2. f \in [At(q, m) -> shift]
    OBVIOUS
  <2>3. \A a, b \in At(q, m) : f[a] = f[b] => a = b
    BY <2>1, <1>1
  <2>4. \A y \in shift : \E x \in At(q, m) : f[x] = y
    OBVIOUS
  <2> HIDE DEF f, shift
  <2> QED
    BY <2>2, <2>3, <2>4, <1>4, SameSize DEF Count
<1> HIDE DEF shift
<1>6. Cardinality(At(p, m) \cap shift) = 0
  BY <1>3, FS_EmptySet
<1>7. Cardinality(At(p, m) \cup shift) = Cardinality(At(p, m)) + Cardinality(shift) - 0
  BY <1>4, <1>5, <1>6, FS_Union
<1> QED
  BY <1>2, <1>4, <1>5, <1>7 DEF Count

LEMMA CountOne ==
    ASSUME NEW e, NEW m
    PROVE  Count(<<e>>, m) = IF e = m THEN 1 ELSE 0
<1>1. <<e>> \in Seq({e}) /\ Len(<<e>>) = 1 /\ <<e>>[1] = e
  OBVIOUS
<1>2. CASE e = m
  <2>1. At(<<e>>, m) = {1}
    BY <1>2 DEF At
  <2> QED
    BY <2>1, <1>2, FS_Singleton DEF Count
<1>3. CASE e # m
  <2>1. At(<<e>>, m) = {}
    BY <1>3 DEF At
  <2> QED
    BY <2>1, <1>3, FS_EmptySet DEF Count
<1> QED
  BY <1>2, <1>3

LEMMA CountAppend ==
    ASSUME NEW S, NEW q \in Seq(S), NEW e \in S, NEW m
    PROVE  Count(Append(q, e), m) = Count(q, m) + (IF e = m THEN 1 ELSE 0)
<1>1. <<e>> \in Seq(S)
  OBVIOUS
<1>2. Append(q, e) = q \o <<e>>
  BY AppendIsConcat, Zenon
<1>3. Count(<<e>>, m) = IF e = m THEN 1 ELSE 0
  BY CountOne
<1>4. Count(q \o <<e>>, m) = Count(q, m) + Count(<<e>>, m)
  BY <1>1, CountConcat
<1> QED
  BY <1>2, <1>3, <1>4

LEMMA CountTail ==
    ASSUME NEW S, NEW q \in Seq(S), q # <<>>, NEW m
    PROVE  Count(q, m) = (IF Head(q) = m THEN 1 ELSE 0) + Count(Tail(q), m)
<1>1. Head(q) \in S /\ <<Head(q)>> \in Seq(S) /\ Tail(q) \in Seq(S)
  OBVIOUS
<1>2. q = <<Head(q)>> \o Tail(q)
  <2> DEFINE r == <<Head(q)>> \o Tail(q)
  <2>1. r \in Seq(S) /\ Len(r) = Len(q) /\ \A i \in 1..Len(q) : r[i] = q[i]
    OBVIOUS
  <2> HIDE DEF r
  <2> QED
    BY <2>1, SeqEqual
<1>3. Count(<<Head(q)>> \o Tail(q), m) = Count(<<Head(q)>>, m) + Count(Tail(q), m)
  BY <1>1, CountConcat
<1>4. Count(<<Head(q)>>, m) = IF Head(q) = m THEN 1 ELSE 0
  BY CountOne
<1> QED
  BY <1>2, <1>3, <1>4

(* One that stands at one index only occurs once.                          *)
LEMMA CountUnique ==
    ASSUME NEW q, NEW m, NEW i \in DOMAIN q, q[i] = m,
           \A j \in DOMAIN q : q[j] = m => j = i
    PROVE  Count(q, m) = 1
<1>1. At(q, m) = {i}
  BY DEF At
<1> QED
  BY <1>1, FS_Singleton DEF Count

(* SubSequence lists the indices of I: each of them once, no other.        *)
LEMMA SubSequenceIndices ==
    ASSUME NEW S, NEW q \in Seq(S), NEW I \in SUBSET DOMAIN q
    PROVE  \E e \in [1..Cardinality(I) -> I] :
              /\ \A j, k \in 1..Cardinality(I) : e[j] = e[k] => j = k
              /\ \A i \in I : \E j \in 1..Cardinality(I) : e[j] = i
              /\ SubSequence(q, I) = [j \in 1..Cardinality(I) |-> q[e[j]]]
<1> DEFINE n == Cardinality(I)
           upto(i) == {k \in I : k <= i}
           rank == [i \in I |-> Cardinality(upto(i))]
<1>1. IsFiniteSet(I) /\ n \in Nat /\ I \subseteq Nat
  BY IndicesFinite
<1>2. \A i \in I : IsFiniteSet(upto(i)) /\ Cardinality(upto(i)) \in 1..n
  <2> TAKE i \in I
  <2>1. upto(i) \in SUBSET I /\ i \in upto(i)
    BY <1>1
  <2>2. IsFiniteSet(upto(i)) /\ Cardinality(upto(i)) <= n
    BY <2>1, <1>1, FS_Subset
  <2>3. Cardinality(upto(i)) # 0
    BY <2>1, <2>2, FS_EmptySet
  <2> QED
    BY <2>2, <2>3, <1>1, FS_CardinalityType
<1>3. \A i, k \in I : i < k => Cardinality(upto(i)) # Cardinality(upto(k))
  <2> SUFFICES ASSUME NEW i \in I, NEW k \in I, i < k
               PROVE  Cardinality(upto(i)) # Cardinality(upto(k))
    OBVIOUS
  <2>1. upto(i) \in SUBSET upto(k) /\ k \in upto(k) /\ k \notin upto(i)
    BY <1>1
  <2> HIDE DEF upto
  <2> QED
    BY <2>1, <1>2, FS_Subset
<1>4. rank \in Injection(I, 1..n)
  <2>1. rank \in [I -> 1..n]
    BY <1>2
  <2>2. \A i, k \in I : rank[i] = rank[k] => i = k
    <3>1. \A i, k \in I : i = k \/ i < k \/ k < i
      BY <1>1
    <3> HIDE DEF upto
    <3> QED
      BY <3>1, <1>3
  <2> HIDE DEF rank, n
  <2> QED
    BY <2>1, <2>2, Fun_IsInj
<1>5. rank \in Surjection(I, 1..n)
  <2>1. IsFiniteSet(1..n) /\ Cardinality(1..n) = n
    BY <1>1, FS_Interval
  <2> HIDE DEF rank
  <2> QED
    BY <2>1, <1>4, FS_Injection
<1> DEFINE e == [j \in 1..n |-> CHOOSE i \in I : Cardinality(upto(i)) = j]
<1>6. \A j \in 1..n : \E i \in I : Cardinality(upto(i)) = j
  <2>1. \A j \in 1..n : \E i \in I : rank[i] = j
    <3> HIDE DEF rank
    <3> QED
      BY <1>5, Fun_SurjectionProperties
  <2> HIDE DEF upto
  <2> QED
    BY <2>1
<1> HIDE DEF upto
<1>7. \A j \in 1..n : e[j] \in I /\ Cardinality(upto(e[j])) = j
  BY <1>6
<1>8. e \in [1..n -> I]
  BY <1>7
<1>9. \A j, k \in 1..n : e[j] = e[k] => j = k
  <2> HIDE DEF e
  <2> QED
    BY <1>7
<1>10. \A i \in I : \E j \in 1..n : e[j] = i
  <2> TAKE i \in I
  <2> DEFINE j == Cardinality(upto(i))
  <2>1. j \in 1..n
    BY <1>2
  <2>2. e[j] \in I /\ Cardinality(upto(e[j])) = j
    BY <2>1, <1>7
  <2>3. e[j] \in Nat /\ i \in Nat
    BY <2>2, <1>1
  <2>4. e[j] = i
    <3> HIDE DEF e
    <3>1. ~(e[j] < i) /\ ~(i < e[j])
      BY <2>2, <1>3
    <3> QED
      BY <3>1, <2>3
  <2> QED
    BY <2>1, <2>4
<1>11. SubSequence(q, I) = [j \in 1..n |-> q[e[j]]]
  BY DEF SubSequence, upto
<1> QED
  BY <1>8, <1>9, <1>10, <1>11

(* What is left is a sequence of what was there: every element of it stands *)
(* in q at an index of I, and what stands in q at an index of I is in it.  *)
LEMMA SubSequenceType ==
    ASSUME NEW S, NEW q \in Seq(S), NEW I \in SUBSET DOMAIN q
    PROVE  /\ SubSequence(q, I) \in Seq(S)
           /\ \A j \in DOMAIN SubSequence(q, I) : \E i \in I : SubSequence(q, I)[j] = q[i]
           /\ \A i \in I : \E j \in DOMAIN SubSequence(q, I) : SubSequence(q, I)[j] = q[i]
<1> DEFINE n == Cardinality(I)
<1>1. n \in Nat
  BY IndicesFinite
<1>2. PICK e \in [1..n -> I] :
              /\ \A i \in I : \E j \in 1..n : e[j] = i
              /\ SubSequence(q, I) = [j \in 1..n |-> q[e[j]]]
  BY SubSequenceIndices
<1>3. \A j \in 1..n : e[j] \in I /\ q[e[j]] \in S
  OBVIOUS
<1> HIDE DEF n
<1> DEFINE p == [j \in 1..n |-> q[e[j]]]
<1>4. p \in [1..n -> S]
  BY <1>3
<1>5. p \in Seq(S) /\ DOMAIN p = 1..n
  BY <1>1, <1>4, SeqDef
<1> QED
  BY <1>2, <1>3, <1>5

(* An element all of whose places are kept occurs as often as before.      *)
LEMMA CountSubSequence ==
    ASSUME NEW S, NEW q \in Seq(S), NEW I \in SUBSET DOMAIN q, NEW m
    PROVE  /\ At(q, m) \subseteq I => Count(SubSequence(q, I), m) = Count(q, m)
           /\ At(q, m) \cap I = {} => Count(SubSequence(q, I), m) = 0
<1> DEFINE n == Cardinality(I)
           p == SubSequence(q, I)
<1>1. n \in Nat
  BY IndicesFinite
<1>2. PICK e \in [1..n -> I] :
              /\ \A j, k \in 1..n : e[j] = e[k] => j = k
              /\ \A i \in I : \E j \in 1..n : e[j] = i
              /\ p = [j \in 1..n |-> q[e[j]]]
  BY SubSequenceIndices
<1>3. p \in Seq(S)
  BY SubSequenceType
<1> HIDE DEF n, p
<1>4. ASSUME At(q, m) \subseteq I PROVE Count(p, m) = Count(q, m)
  <2> DEFINE f == [j \in At(p, m) |-> e[j]]
  <2>1. f \in [At(p, m) -> At(q, m)]
    BY <1>2 DEF At
  <2>2. \A j, k \in At(p, m) : f[j] = f[k] => j = k
    BY <1>2 DEF At
  <2>3. \A i \in At(q, m) : \E j \in At(p, m) : f[j] = i
    BY <1>2, <1>4 DEF At
  <2>4. IsFiniteSet(At(p, m))
    BY <1>3, CountType
  <2> HIDE DEF f
  <2> QED
    BY <2>1, <2>2, <2>3, <2>4, SameSize DEF Count
<1>5. ASSUME At(q, m) \cap I = {} PROVE Count(p, m) = 0
  <2>1. At(p, m) = {}
    BY <1>2, <1>5 DEF At
  <2> QED
    BY <2>1, FS_EmptySet DEF Count
<1> QED
  BY <1>4, <1>5 DEF p

(* SetToSeq lists a finite set: every element of it, no other.             *)
LEMMA SetToSeqType ==
    ASSUME NEW T, IsFiniteSet(T)
    PROVE  /\ SetToSeq(T) \in Seq(T)
           /\ \A x \in T : \E i \in DOMAIN SetToSeq(T) : SetToSeq(T)[i] = x
<1> DEFINE n == Cardinality(T)
           f == SetToSeq(T)
<1>1. n \in Nat /\ ExistsBijection(1..n, T)
  BY FS_CardinalityType
<1>2. PICK g : g \in Bijection(1..n, T)
  BY <1>1 DEF ExistsBijection
<1>3. g \in [1..n -> T] /\ IsInjective(g)
  BY <1>2 DEF Bijection, Injection
<1>4. f \in [1..n -> T] /\ IsInjective(f)
  BY <1>3 DEF SetToSeq
<1> HIDE DEF f
<1>5. f \in Seq(T)
  BY <1>1, <1>4, SeqDef
<1>6. f \in Injection(1..n, T)
  BY <1>4 DEF Injection
<1>7. f \in Surjection(1..n, T)
  <2>1. IsFiniteSet(1..n) /\ Cardinality(1..n) = n
    BY <1>1, FS_Interval
  <2> QED
    BY <2>1, <1>6, FS_Injection
<1>8. \A x \in T : \E i \in 1..n : f[i] = x
  BY <1>7 DEF Surjection
<1>9. DOMAIN f = 1..n
  BY <1>4
<1> QED
  BY <1>5, <1>8, <1>9 DEF f

(* RemoveAt closes the gap: all but the element at i stay.                 *)
LEMMA RemoveAtType ==
    ASSUME NEW S, NEW q \in Seq(S), NEW i \in 1..Len(q)
    PROVE  /\ RemoveAt(q, i) \in Seq(S)
           /\ Len(RemoveAt(q, i)) = Len(q) - 1
           /\ \A j \in 1..(Len(q) - 1) :
                 RemoveAt(q, i)[j] = IF j < i THEN q[j] ELSE q[j + 1]
<1> DEFINE a == SubSeq(q, 1, i - 1)
           b == SubSeq(q, i + 1, Len(q))
<1>1. /\ a \in Seq(S) /\ Len(a) = i - 1
      /\ \A j \in 1..(i - 1) : a[j] = q[j]
  OBVIOUS
<1>2. /\ b \in Seq(S) /\ Len(b) = Len(q) - i
      /\ \A j \in 1..(Len(q) - i) : b[j] = q[i + j]
  OBVIOUS
<1>3. RemoveAt(q, i) = a \o b
  BY DEF RemoveAt
<1> HIDE DEF a, b
<1>4. a \o b \in Seq(S) /\ Len(a \o b) = Len(q) - 1
  <2>1. a \o b \in Seq(S) /\ Len(a \o b) = Len(a) + Len(b)
    BY <1>1, <1>2, ConcatProperties
  <2>2. i - 1 + (Len(q) - i) = Len(q) - 1
    OBVIOUS
  <2> QED
    BY <2>1, <2>2, <1>1, <1>2
<1>5. ASSUME NEW j \in 1..(Len(q) - 1) PROVE (a \o b)[j] = IF j < i THEN q[j] ELSE q[j + 1]
  <2>1. CASE j < i
    BY <2>1, <1>1, <1>2
  <2>2. CASE ~(j < i)
    <3>1. (a \o b)[j] = b[j - (i - 1)]
      BY <2>2, <1>1, <1>2
    <3>2. j - (i - 1) \in 1..(Len(q) - i) /\ i + (j - (i - 1)) = j + 1
      BY <2>2
    <3> QED
      BY <3>1, <3>2, <2>2, <1>2
  <2> QED
    BY <2>1, <2>2
<1> QED
  BY <1>3, <1>4, <1>5

(* The first index at which a test holds: Min of a set of naturals that is *)
(* not empty is in the set.                                                *)
LEMMA MinIsIn ==
    ASSUME NEW I \in SUBSET Nat, I # {}
    PROVE  Min(I) \in I
<1>1. PICK m \in I : \A k \in I : <<k, m>> \notin OpToRel(<, Nat)
  BY WFMin, NatLessThanWellFounded, Zenon
<1>2. \A k \in I : ~(k < m)
  BY <1>1, Zenon DEF OpToRel
<1>3. \A k \in I : m =< k
  BY <1>2
<1> QED
  BY <1>3 DEF Min

LEMMA CountRemoveAt ==
    ASSUME NEW S, NEW q \in Seq(S), NEW i \in 1..Len(q), NEW m
    PROVE  Count(q, m) = Count(RemoveAt(q, i), m) + (IF q[i] = m THEN 1 ELSE 0)
<1> DEFINE a == SubSeq(q, 1, i - 1)
           b == SubSeq(q, i + 1, Len(q))
           whole == (a \o <<q[i]>>) \o b
<1>1. /\ a \in Seq(S) /\ Len(a) = i - 1
      /\ \A j \in 1..(i - 1) : a[j] = q[j]
  OBVIOUS
<1>2. /\ b \in Seq(S) /\ Len(b) = Len(q) - i
      /\ \A j \in 1..(Len(q) - i) : b[j] = q[i + j]
  OBVIOUS
<1>3. RemoveAt(q, i) = a \o b /\ <<q[i]>> \in Seq(S)
  BY DEF RemoveAt
<1> HIDE DEF a, b
<1>4. /\ a \o <<q[i]>> \in Seq(S) /\ Len(a \o <<q[i]>>) = i
      /\ \A j \in 1..(i - 1) : (a \o <<q[i]>>)[j] = q[j]
      /\ (a \o <<q[i]>>)[i] = q[i]
  BY <1>1, <1>3
<1>5. whole = q
  <2>1. whole \in Seq(S) /\ Len(whole) = Len(q)
    <3>1. whole \in Seq(S) /\ Len(whole) = i + Len(b)
      BY <1>2, <1>4, ConcatProperties
    <3> QED
      BY <3>1, <1>2
  <2>2. ASSUME NEW j \in 1..Len(q) PROVE whole[j] = q[j]
    <3>1. whole[j] = IF j <= i THEN (a \o <<q[i]>>)[j] ELSE b[j - i]
      BY <1>2, <1>4, ConcatProperties
    <3>2. CASE j <= i
      <4>1. j \in 1..(i - 1) \/ j = i
        BY <3>2
      <4> QED
        BY <3>1, <3>2, <4>1, <1>4
    <3>3. CASE ~(j <= i)
      <4>1. j - i \in 1..(Len(q) - i) /\ i + (j - i) = j
        BY <3>3
      <4> QED
        BY <3>1, <3>3, <4>1, <1>2
    <3> QED
      BY <3>2, <3>3
  <2> HIDE DEF whole
  <2> QED
    BY <2>1, <2>2, SeqEqual
<1>6. Count(whole, m) = Count(a \o <<q[i]>>, m) + Count(b, m)
  BY <1>2, <1>4, CountConcat
<1>7. Count(a \o <<q[i]>>, m) = Count(a, m) + Count(<<q[i]>>, m)
  BY <1>1, <1>3, CountConcat
<1>8. Count(a \o b, m) = Count(a, m) + Count(b, m)
  BY <1>1, <1>2, CountConcat
<1>9. Count(<<q[i]>>, m) = IF q[i] = m THEN 1 ELSE 0
  BY CountOne
<1>10. Count(a, m) \in Nat /\ Count(b, m) \in Nat
  BY <1>1, <1>2, CountType
<1> QED
  <2>1. Count(q, m) = (Count(a, m) + Count(<<q[i]>>, m)) + Count(b, m)
    BY <1>5, <1>6, <1>7
  <2>2. Count(RemoveAt(q, i), m) = Count(a, m) + Count(b, m)
    BY <1>3, <1>8
  <2> HIDE DEF whole
  <2> QED
    BY <2>1, <2>2, <1>9, <1>10

(* Nothing is lost where a sequence is cut in two.                         *)
LEMMA CountSplit ==
    ASSUME NEW S, NEW q \in Seq(S), NEW n \in 0..Len(q), NEW m
    PROVE  LET p == SubSeq(q, 1, n)
               r == SubSeq(q, n + 1, Len(q))
           IN  /\ p \in Seq(S) /\ Len(p) = n /\ \A i \in 1..n : p[i] = q[i]
               /\ r \in Seq(S) /\ Len(r) = Len(q) - n
               /\ Count(q, m) = Count(p, m) + Count(r, m)
<1> DEFINE p == SubSeq(q, 1, n)
           r == SubSeq(q, n + 1, Len(q))
<1>1. Len(q) \in Nat /\ n \in Nat /\ \A i \in 1..Len(q) : q[i] \in S
  OBVIOUS
<1>2. p \in Seq(S) /\ Len(p) = n /\ \A i \in 1..n : p[i] = q[i]
  BY <1>1
<1>3. r \in Seq(S) /\ Len(r) = Len(q) - n /\ \A i \in 1..(Len(q) - n) : r[i] = q[n + i]
  BY <1>1
<1> HIDE DEF p, r
<1>4. q = p \o r
  <2>1. p \o r \in Seq(S) /\ Len(p \o r) = Len(q)
    <3>1. p \o r \in Seq(S) /\ Len(p \o r) = Len(p) + Len(r)
      BY <1>2, <1>3, ConcatProperties
    <3>2. Len(p) + Len(r) = Len(q)
      BY <1>1, <1>2, <1>3
    <3> QED
      BY <3>1, <3>2
  <2>2. ASSUME NEW i \in 1..Len(q) PROVE (p \o r)[i] = q[i]
    <3>1. CASE i <= n
      BY <1>1, <1>2, <1>3, <3>1
    <3>2. CASE i > n
      <4>1. i - n \in 1..(Len(q) - n) /\ n + (i - n) = i
        BY <1>1, <3>2
      <4>2. r[i - n] = q[i]
        BY <1>3, <4>1
      <4>3. (p \o r)[i] = r[i - n]
        BY <1>1, <1>2, <1>3, <3>2
      <4> QED
        BY <4>2, <4>3
    <3>3. i <= n \/ i > n
      BY <1>1
    <3> QED
      BY <3>1, <3>2, <3>3
  <2> QED
    BY <2>1, <2>2, SeqEqual
<1>5. Count(q, m) = Count(p, m) + Count(r, m)
  BY <1>2, <1>3, <1>4, CountConcat
<1> QED
  BY <1>2, <1>3, <1>5 DEF p, r

LEMMA CountRepeat ==
    ASSUME NEW S, NEW q \in Seq(S), NEW e, \A k \in 1..Len(q) : q[k] = e, NEW m
    PROVE  Count(q, m) = IF e = m THEN Len(q) ELSE 0
<1> DEFINE n == Len(q)
<1>0. DOMAIN q = 1..n /\ n \in Nat
  OBVIOUS
<1>1. CASE e = m
  <2>1. At(q, m) = 1..n
    BY <1>0, <1>1 DEF At
  <2>2. Cardinality(1..n) = n
    BY <1>0, FS_Interval
  <2> QED
    BY <1>1, <2>1, <2>2 DEF Count
<1>2. CASE e # m
  <2>1. At(q, m) = {}
    BY <1>0, <1>2 DEF At
  <2> QED
    BY <1>2, <2>1, FS_EmptySet DEF Count
<1> QED
  BY <1>1, <1>2

(* The place of an element among its equals: the first n elements that     *)
(* equal m have the places 0 up to their number, each of them once.        *)
Place(q, k) == Cardinality({j \in 1..(k - 1) : q[j] = q[k]})
FirstAt(q, n, m) == {k \in 1..n : q[k] = m}
FirstCount(q, n, m) == Count(SubSeq(q, 1, n), m)

LEMMA PlacesFill ==
    ASSUME NEW S, NEW q \in Seq(S), NEW n \in 0..Len(q), NEW m
    PROVE  /\ FirstCount(q, n, m) \in Nat
           /\ \A k \in FirstAt(q, n, m) : Place(q, k) \in 0..(FirstCount(q, n, m) - 1)
           /\ \A k, l \in FirstAt(q, n, m) : Place(q, k) = Place(q, l) => k = l
           /\ \A x \in 0..(FirstCount(q, n, m) - 1) :
                 \E k \in FirstAt(q, n, m) : Place(q, k) = x
<1> DEFINE I == {k \in 1..n : q[k] = m}
           p == SubSeq(q, 1, n)
           c == Cardinality(I)
           Before(k) == {j \in 1..(k - 1) : q[j] = q[k]}
<1>1. n \in Nat /\ Len(q) \in Nat /\ n <= Len(q)
  OBVIOUS
<1>2. p \in Seq(S) /\ Len(p) = n /\ \A i \in 1..n : p[i] = q[i]
  BY <1>1, CountSplit
<1>3. Count(p, m) = c
  <2>1. DOMAIN p = 1..n
    BY <1>2
  <2>2. At(p, m) = I
    BY <1>2, <2>1 DEF At
  <2> QED
    BY <2>2 DEF Count
<1>4. IsFiniteSet(I) /\ c \in Nat
  <2>1. IsFiniteSet(1..n)
    BY <1>1, FS_Interval
  <2> QED
    BY <2>1, FS_Subset, FS_CardinalityType
<1>5. ASSUME NEW k \in I
      PROVE  /\ IsFiniteSet(Before(k)) /\ Place(q, k) = Cardinality(Before(k)) /\ Place(q, k) \in Nat
             /\ Before(k) \subseteq I /\ k \notin Before(k)
  <2>1. k \in 1..n /\ q[k] = m
    OBVIOUS
  <2>2. Before(k) \subseteq I /\ k \notin Before(k)
    BY <1>1, <2>1
  <2> QED
    BY <1>4, <2>2, FS_Subset, FS_CardinalityType DEF Place
<1> HIDE DEF c
<1>6. ASSUME NEW k \in I PROVE Place(q, k) \in 0..(c - 1)
  <2>1. Before(k) \subseteq I \ {k}
    BY <1>5
  <2>2. Cardinality(I \ {k}) = c - 1 /\ IsFiniteSet(I \ {k})
    BY <1>4, FS_RemoveElement DEF c
  <2>3. Cardinality(Before(k)) <= Cardinality(I \ {k})
    BY <2>1, <2>2, FS_Subset
  <2>4. Place(q, k) \in Nat /\ Place(q, k) <= c - 1 /\ c \in Nat
    <3>1. Place(q, k) \in Nat /\ Place(q, k) = Cardinality(Before(k))
      BY <1>5
    <3> HIDE DEF Before, I
    <3> QED
      BY <1>4, <2>2, <2>3, <3>1
  <2> HIDE DEF Before, I
  <2> QED
    BY <2>4
<1>7. ASSUME NEW k \in I, NEW l \in I, k < l PROVE Place(q, k) < Place(q, l)
  <2>1. Before(k) \cup {k} \subseteq Before(l)
    BY <1>1, <1>7
  <2>2. Cardinality(Before(k) \cup {k}) = Cardinality(Before(k)) + 1
    BY <1>5, FS_AddElement
  <2>3. Cardinality(Before(k) \cup {k}) <= Cardinality(Before(l))
    BY <1>5, <2>1, FS_Subset
  <2>4. /\ Place(q, k) \in Nat /\ Place(q, k) = Cardinality(Before(k))
        /\ Place(q, l) \in Nat /\ Place(q, l) = Cardinality(Before(l))
    BY <1>5
  <2> HIDE DEF Before, I
  <2> QED
    BY <2>2, <2>3, <2>4
<1>8. ASSUME NEW k \in I, NEW l \in I, Place(q, k) = Place(q, l) PROVE k = l
  <2>1. k \in Nat /\ l \in Nat
    BY <1>1
  <2>2. Place(q, k) \in Nat /\ Place(q, l) \in Nat
    BY <1>5
  <2>3. ~(k < l) /\ ~(l < k)
    BY <1>7, <1>8, <2>2
  <2> QED
    BY <2>1, <2>3
<1>9. ASSUME NEW x \in 0..(c - 1) PROVE \E k \in I : Place(q, k) = x
  <2> DEFINE T == 0..(c - 1)
             f == [k \in I |-> Place(q, k)]
  <2>1. IsFiniteSet(T) /\ Cardinality(T) = c
    BY <1>4, FS_Interval
  <2>2. f \in [I -> T] /\ \A k, l \in I : f[k] = f[l] => k = l
    BY <1>6, <1>8
  <2> HIDE DEF f, T, I
  <2>3. f \in Injection(I, T)
    BY <2>2, Fun_IsInj
  <2>4. Cardinality(I) = Cardinality(T)
    BY <2>1 DEF c
  <2>5. f \in Surjection(I, T)
    BY <2>1, <2>3, <2>4, FS_Injection
  <2>6. \A t \in T : \E k \in I : f[k] = t
    BY <2>5, Fun_SurjectionProperties
  <2>7. \E k \in I : f[k] = x
    BY <2>6 DEF T
  <2> QED
    BY <2>7 DEF f
<1>10. I = FirstAt(q, n, m) /\ c = FirstCount(q, n, m)
  BY <1>3 DEF c, FirstAt, FirstCount
<1> HIDE DEF I
<1> QED
  BY <1>4, <1>6, <1>8, <1>9, <1>10
=============================================================================
