---------------------------- MODULE SlotCacheProofs ----------------------------
(***************************************************************************)
(* For every number of slots, positions and cells: the books of the slots  *)
(* follow the cells of the two caches through every tick of the server.    *)
(*                                                                         *)
(* What is kept by every step is IInv:                                     *)
(*                                                                         *)
(*   Work   what books, drafts, phases, the batch and the call under way   *)
(*          are to each other;                                             *)
(*   Kept   both caches are good, in the sense of KvLemmas;                *)
(*   Hold   every slot's book is right about both caches (SlotOk), no slot *)
(*          has two cells for a position, and where nothing forks or a     *)
(*          window slides no cell is shared;                               *)
(*   Apart  the levers do not let a shared cell be shifted, which is       *)
(*          assumed of the start: what follows is false without it.        *)
(*                                                                         *)
(* Each step also leaves the positions of the main cache in one of the     *)
(* ways of HeldStep, which is the refinement of PromptCache.               *)
(***************************************************************************)
EXTENDS SlotCache, KvLemmas, SequenceLemmas

-----------------------------------------------------------------------------
(* The batch                                                               *)

\* Tokens of the batch, by slot.
LEMMA PendingIs == \A s : Pending(s) = Count(pend, s)
  BY DEF Pending, Count, At

\* What the slots and the call under way are to each other.
WorkInv ==
    /\ \A s \in Slots :
          /\ Pending(s) <= book[s] /\ draft[s] <= book[s] /\ book[s] <= End
          /\ phase[s] = "idle" => Pending(s) = 0
          /\ phase[s] # "gen" => draft[s] = 0
    /\ left <= Len(pend) /\ (left > 0 <=> begun)
    /\ nb = 0 => left = 0 /\ Unverified = {}

WorkType ==
    /\ boot \in Boots
    /\ phase \in [Slots -> {"idle", "prompt", "gen"}]
    /\ book \in [Slots -> 0..End] /\ draft \in [Slots -> 0..MaxDraft]
    /\ torn \subseteq Slots /\ pend \in Seq(Slots)
    /\ left \in 0..NBatch /\ begun \in BOOLEAN /\ nb \in 0..NBatch
    /\ tried \in BOOLEAN

Work == WorkType /\ WorkInv

LEMMA Sizes ==
    /\ SlotCtx \in Nat \ {0, 1} /\ SlotCtx <= End /\ End \in Nat /\ MaxPos \in Nat
    /\ NBatch \in Nat \ {0} /\ NUbatch \in Nat \ {0} /\ MaxDraft \in Nat
    /\ Window \in Nat \ {0} /\ Guard \in Nat
    /\ \A b \in Boots : b.self \in Nat \ {0} /\ b.swa \in Nat /\ b.fork \in BOOLEAN /\ b.shift \in BOOLEAN
    /\ MaxKeep \in Nat /\ MaxDrop \in Nat
  BY SlotAssumption, BoundsAssumption DEF End

\* The next ubatch is there, and no longer than the call or the batch.
LEMMA TakeIs ==
    ASSUME Work, Decoding
    PROVE  /\ Width \in 1..NBatch /\ Call \in 1..Len(pend) /\ Call \in 1..NBatch
           /\ Take \in 1..Call /\ Len(pend) \in Nat
<1>1. /\ Len(pend) \in Nat \ {0} /\ left \in 0..NBatch /\ nb \in 0..NBatch
      /\ left <= Len(pend)
  BY DEF Work, WorkType, WorkInv, Decoding
<1>2. Width \in 1..NBatch
  BY <1>1, Sizes DEF Width
<1>3. Call \in 1..Len(pend) /\ Call \in 1..NBatch
  <2>1. CASE left > 0
    BY <1>1, <2>1 DEF Call
  <2>2. CASE ~(left > 0)
    <3>1. Call = Min({Width, Len(pend)})
      BY <2>2 DEF Call
    <3>2. Call = IF Width <= Len(pend) THEN Width ELSE Len(pend)
      BY <1>1, <1>2, <3>1, LesserOf
    <3> QED
      BY <1>1, <1>2, <3>2, Sizes
  <2> QED
    BY <2>1, <2>2
<1>4. Take \in 1..Call
  <2>1. Call \in Nat \ {0} /\ NUbatch \in Nat \ {0}
    BY <1>3, Sizes
  <2>2. Take = IF NUbatch <= Call THEN NUbatch ELSE Call
    BY <2>1, LesserOf DEF Take
  <2> QED
    BY <2>1, <2>2
<1> QED
  BY <1>1, <1>2, <1>3, <1>4

\* Tokens of s in the next ubatch.
Taken(s) == Count(SubSeq(pend, 1, Take), s)

\* Every slot's tokens in the next ubatch continue what it has decoded.
LEMMA BatchFacts ==
    ASSUME Work, Decoding
    PROVE  /\ IsBatch(Batch) /\ Len(Batch) = Take
           /\ \A s \in Slots :
                 /\ Decoded(s) \in 0..End /\ Taken(s) \in Nat
                 /\ Pending(s) \in Nat /\ Taken(s) <= Pending(s)
                 /\ InBatch(Batch, s) = Decoded(s)..(Decoded(s) + Taken(s) - 1)
                 /\ \A i, j \in 1..Take :
                       /\ Batch[i].seq = s /\ Batch[j].seq = s
                       /\ Batch[i].pos = Batch[j].pos
                       => i = j
<1>1. /\ pend \in Seq(Slots) /\ Len(pend) \in Nat /\ Take \in 1..Len(pend)
      /\ Take \in 0..Len(pend) /\ Take \in Nat
  <2>1. Call \in 1..Len(pend) /\ Take \in 1..Call /\ Len(pend) \in Nat
    BY TakeIs
  <2>2. pend \in Seq(Slots)
    BY DEF Work, WorkType
  <2> QED
    BY <2>1, <2>2
<1> DEFINE n == Take
           I(s) == {k \in 1..n : pend[k] = s}
<1>2. ASSUME NEW s \in Slots
      PROVE  /\ Taken(s) \in Nat
             /\ \A k \in I(s) : Place(pend, k) \in 0..(Taken(s) - 1)
             /\ \A k, l \in I(s) : Place(pend, k) = Place(pend, l) => k = l
             /\ \A x \in 0..(Taken(s) - 1) : \E k \in I(s) : Place(pend, k) = x
  <2>1. pend \in Seq(Slots) /\ n \in 0..Len(pend)
    BY <1>1
  <2>2. Taken(s) = FirstCount(pend, n, s) /\ I(s) = FirstAt(pend, n, s)
    BY DEF Taken, FirstCount, FirstAt
  <2> HIDE DEF n, I
  <2> QED
    BY <2>1, <2>2, PlacesFill
<1>3. ASSUME NEW s \in Slots
      PROVE  Pending(s) \in Nat /\ Taken(s) <= Pending(s)
  <2> DEFINE r == SubSeq(pend, n + 1, Len(pend))
  <2>1. r \in Seq(Slots) /\ Count(pend, s) = Taken(s) + Count(r, s)
    BY <1>1, CountSplit DEF Taken
  <2>2. Count(r, s) \in Nat /\ Count(pend, s) \in Nat
    BY <1>1, <2>1, CountType
  <2> HIDE DEF r
  <2> QED
    BY <1>2, <2>1, <2>2, PendingIs
<1>4. ASSUME NEW s \in Slots
      PROVE  /\ Decoded(s) \in Nat /\ book[s] \in Nat /\ book[s] <= End
             /\ Decoded(s) + Pending(s) = book[s]
  <2>1. book[s] \in 0..End /\ Pending(s) <= book[s] /\ book[s] <= End
    BY DEF Work, WorkType, WorkInv
  <2> QED
    BY <1>3, <2>1, Sizes DEF Decoded
<1>5. \A k \in 1..n : pend[k] \in Slots /\ k \in I(pend[k])
  BY <1>1
<1> DEFINE tok(k) == [seq |-> pend[k], pos |-> Decoded(pend[k]) + Place(pend, k)]
<1>6. Batch = [k \in 1..n |-> tok(k)]
  BY Zenon DEF Batch, Ubatch, Place
<1> HIDE DEF n
<1>7. \A k \in 1..n : tok(k) \in Token
  <2> TAKE k \in 1..n
  <2> DEFINE s == pend[k]
  <2>1. s \in Slots /\ k \in I(s)
    BY <1>5
  <2>2. Place(pend, k) \in 0..(Taken(s) - 1) /\ Taken(s) \in Nat
    BY <1>2, <2>1
  <2>3. /\ Decoded(s) \in Nat /\ book[s] \in Nat /\ book[s] <= End
        /\ Decoded(s) + Pending(s) = book[s]
        /\ Pending(s) \in Nat /\ Taken(s) <= Pending(s)
    BY <1>3, <1>4, <2>1
  <2> HIDE DEF s
  <2> DEFINE p == Decoded(s) + Place(pend, k)
  <2>4. p \in Positions
    BY <2>2, <2>3, Sizes DEF Positions, End
  <2>5. tok(k) = [seq |-> s, pos |-> p]
    BY DEF s
  <2> HIDE DEF p
  <2> QED
    BY <2>1, <2>4, <2>5 DEF Token, Slots
<1>8. IsBatch(Batch) /\ Len(Batch) = n /\ DOMAIN Batch = 1..n
  <2> HIDE DEF tok
  <2>1. n \in Nat \ {0}
    BY <1>1 DEF n
  <2>2. Batch \in Seq(Token) /\ Len(Batch) = n /\ DOMAIN Batch = 1..n
    BY <1>6, <1>7, <2>1
  <2> QED
    BY <2>1, <2>2 DEF IsBatch
<1>9. \A k \in 1..n : Batch[k].seq = pend[k] /\ Batch[k].pos = Decoded(pend[k]) + Place(pend, k)
  BY <1>6
<1> HIDE DEF tok
<1>10. ASSUME NEW s \in Slots
       PROVE  /\ InBatch(Batch, s) = Decoded(s)..(Decoded(s) + Taken(s) - 1)
              /\ \A i, j \in 1..n :
                    /\ Batch[i].seq = s /\ Batch[j].seq = s
                    /\ Batch[i].pos = Batch[j].pos
                    => i = j
  <2>1. \A k \in I(s) : Place(pend, k) \in 0..(Taken(s) - 1) /\ Place(pend, k) \in Int
    BY <1>2
  <2>2. {k \in DOMAIN Batch : Batch[k].seq = s} = I(s)
    BY <1>8, <1>9
  <2>3. \A k \in I(s) : Batch[k].pos = Decoded(s) + Place(pend, k)
    BY <1>9
  <2>4. InBatch(Batch, s) = {Decoded(s) + Place(pend, k) : k \in I(s)}
    BY <2>2, <2>3 DEF InBatch
  <2>5. Decoded(s) \in Nat /\ Taken(s) \in Nat
    BY <1>2, <1>4
  <2>6. \A x \in 0..(Taken(s) - 1) : \E k \in I(s) : Place(pend, k) = x
    BY <1>2
  <2>7. \A k, l \in I(s) : Place(pend, k) = Place(pend, l) => k = l
    BY <1>2
  <2> HIDE DEF I
  <2>8. \A y \in Decoded(s)..(Decoded(s) + Taken(s) - 1) :
           \E k \in I(s) : y = Decoded(s) + Place(pend, k)
    <3> TAKE y \in Decoded(s)..(Decoded(s) + Taken(s) - 1)
    <3>1. y - Decoded(s) \in 0..(Taken(s) - 1)
      BY <2>5
    <3>2. PICK k \in I(s) : Place(pend, k) = y - Decoded(s)
      BY <2>6, <3>1
    <3> QED
      BY <2>5, <3>2
  <2>9. \A k \in I(s) : Decoded(s) + Place(pend, k) \in Decoded(s)..(Decoded(s) + Taken(s) - 1)
    BY <2>1, <2>5
  <2>10. ASSUME NEW i \in I(s), NEW j \in I(s), Batch[i].pos = Batch[j].pos PROVE i = j
    BY <2>1, <2>3, <2>5, <2>7, <2>10
  <2> QED
    <3>1. InBatch(Batch, s) = Decoded(s)..(Decoded(s) + Taken(s) - 1)
      BY <2>4, <2>8, <2>9
    <3> QED
      BY <1>9, <2>10, <3>1 DEF I
<1> QED
  <2>1. \A s \in Slots : Decoded(s) \in 0..End
    <3> TAKE s \in Slots
    <3> QED
      BY <1>3, <1>4, Sizes
  <2> QED
    BY <1>2, <1>3, <1>8, <1>10, <2>1 DEF n

LEMMA PendingNext == \A s : Pending(s)' = Count(pend', s)
  BY DEF Pending, Count, At

\* What a run of n tokens of slot s adds to the batch.
LEMMA RunAdded ==
    ASSUME Work, NEW s \in Slots, NEW n \in Nat, pend' = pend \o Repeat(s, n)
    PROVE  /\ pend' \in Seq(Slots) /\ Len(pend') = Len(pend) + n
           /\ \A t \in Slots : Pending(t)' = Pending(t) + (IF t = s THEN n ELSE 0)
           /\ \A t \in Slots : Pending(t) \in Nat
<1> DEFINE r == Repeat(s, n)
<1>1. pend \in Seq(Slots)
  BY DEF Work, WorkType
<1>2. r = [k \in 1..n |-> s]
  BY DEF Repeat
<1>3. r \in Seq(Slots) /\ Len(r) = n /\ \A k \in 1..Len(r) : r[k] = s
  BY <1>2
<1> HIDE DEF r
<1>4. \A t : Count(r, t) = IF s = t THEN n ELSE 0
  BY <1>3, CountRepeat
<1>5. pend' \in Seq(Slots) /\ Len(pend') = Len(pend) + n
  BY <1>1, <1>3, ConcatProperties DEF r
<1>6. \A t : Count(pend', t) = Count(pend, t) + Count(r, t)
  BY <1>1, <1>3, CountConcat DEF r
<1>7. \A t : Count(pend, t) \in Nat
  BY <1>1, CountType
<1> QED
  BY <1>4, <1>5, <1>6, <1>7, PendingIs, PendingNext

\* What a batch that is empty holds of anyone.
LEMMA NonePending ==
    /\ pend = <<>> => \A s \in Slots : Pending(s) = 0
    /\ pend' = <<>> => \A s \in Slots : Pending(s)' = 0
  BY CountEmpty, PendingIs, PendingNext

LEMMA SlotWork ==
    ASSUME Work, NEW s \in Slots
    PROVE  /\ book[s] \in Nat /\ draft[s] \in Nat /\ Pending(s) \in Nat /\ Decoded(s) \in Nat
           /\ Pending(s) <= book[s] /\ draft[s] <= book[s] /\ book[s] <= End
           /\ draft[s] <= MaxDraft /\ Decoded(s) = book[s] - Pending(s)
           /\ phase[s] = "idle" => Pending(s) = 0
           /\ phase[s] # "gen" => draft[s] = 0
<1>1. book[s] \in Nat /\ draft[s] \in Nat /\ draft[s] <= MaxDraft
  BY Sizes DEF Work, WorkType
<1>2. Pending(s) \in Nat
  BY PendingIs, CountType DEF Work, WorkType
<1>3. /\ Pending(s) <= book[s] /\ draft[s] <= book[s] /\ book[s] <= End
      /\ phase[s] = "idle" => Pending(s) = 0
      /\ phase[s] # "gen" => draft[s] = 0
  BY DEF Work, WorkInv
<1> QED
  BY <1>1, <1>2, <1>3 DEF Decoded

\* The steps that only trim, extend or release one slot between the calls: the
\* slot's book, draft and phase change, and the batch grows by tokens of it.
LEMMA OneSlotWorks ==
    ASSUME Work, Building, NEW s \in Slots, NEW b \in Nat, NEW d \in 0..MaxDraft,
           NEW f \in {"idle", "prompt", "gen"}, NEW n \in Nat,
           b <= End, d <= b, d > 0 => n > 0 \/ (d = draft[s] /\ Pending(s) > 0),
           Pending(s) + n <= b,
           f = "idle" => Pending(s) + n = 0, f # "gen" => d = 0,
           book' = [book EXCEPT ![s] = b], draft' = [draft EXCEPT ![s] = d],
           phase' = [phase EXCEPT ![s] = f],
           pend' = pend \o Repeat(s, n), boot' = boot, torn' \subseteq Slots,
           left' = left, begun' = begun, nb' = nb, tried' = tried
    PROVE  Work'
<1>1. /\ pend' \in Seq(Slots) /\ Len(pend') = Len(pend) + n /\ Len(pend) \in Nat
      /\ \A t \in Slots : Pending(t)' = Pending(t) + (IF t = s THEN n ELSE 0)
  <2>1. Len(pend) \in Nat
    BY DEF Work, WorkType
  <2> QED
    BY <2>1, RunAdded
<1>2. WorkType'
  BY <1>1, Sizes DEF Work, WorkType
<1>3. ASSUME NEW t \in Slots
      PROVE  /\ Pending(t)' <= book'[t] /\ draft'[t] <= book'[t] /\ book'[t] <= End
             /\ phase'[t] = "idle" => Pending(t)' = 0
             /\ phase'[t] # "gen" => draft'[t] = 0
             /\ ~(draft'[t] > 0 /\ Pending(t)' = 0)
  <2>1. book'[t] = (IF t = s THEN b ELSE book[t]) /\ draft'[t] = (IF t = s THEN d ELSE draft[t])
        /\ phase'[t] = (IF t = s THEN f ELSE phase[t])
    BY DEF Work, WorkType
  <2>2. Pending(t)' = Pending(t) + (IF t = s THEN n ELSE 0)
    BY <1>1
  <2>3. /\ book[t] \in Nat /\ draft[t] \in Nat /\ Pending(t) \in Nat
        /\ Pending(t) <= book[t] /\ draft[t] <= book[t] /\ book[t] <= End
        /\ phase[t] = "idle" => Pending(t) = 0
        /\ phase[t] # "gen" => draft[t] = 0
    BY SlotWork
  <2>4. ~(draft[t] > 0 /\ Pending(t) = 0)
    BY DEF Work, WorkInv, Unverified, Building
  <2>5. CASE t = s
    BY <2>1, <2>2, <2>3, <2>5, Sizes
  <2>6. CASE t # s
    BY <2>1, <2>2, <2>3, <2>4, <2>6
  <2> QED
    BY <2>5, <2>6
<1>4. Unverified' = {}
  BY <1>3 DEF Unverified
<1>5. left' = 0 /\ (left' > 0 <=> begun') /\ left' <= Len(pend')
  BY <1>1 DEF Building, Work, WorkInv
<1> QED
  BY <1>2, <1>3, <1>4, <1>5 DEF Work, WorkInv

LEMMA NoRun ==
    ASSUME Work, NEW s \in Slots
    PROVE  pend = pend \o Repeat(s, 0)
<1>1. pend \in Seq(Slots)
  BY DEF Work, WorkType
<1>2. Repeat(s, 0) = <<>>
  BY DEF Repeat
<1> QED
  BY <1>1, <1>2

\* A slot's own value put back.
LEMMA Unchanged ==
    ASSUME Work, NEW s \in Slots
    PROVE  /\ book = [book EXCEPT ![s] = book[s]] /\ draft = [draft EXCEPT ![s] = draft[s]]
           /\ phase = [phase EXCEPT ![s] = phase[s]]
           /\ book[s] \in Nat /\ book[s] <= End /\ draft[s] \in 0..MaxDraft /\ draft[s] <= book[s]
           /\ phase[s] \in {"idle", "prompt", "gen"}
<1>1. /\ phase \in [Slots -> {"idle", "prompt", "gen"}]
      /\ book \in [Slots -> 0..End] /\ draft \in [Slots -> 0..MaxDraft]
  BY DEF Work, WorkType
<1>2. book[s] \in Nat /\ book[s] <= End /\ draft[s] <= book[s]
  BY SlotWork
<1> QED
  BY <1>1, <1>2

\* Between the calls a draft that was decoded has been verified.
LEMMA NoDraftLeft ==
    ASSUME Work, Building, NEW s \in Slots, Pending(s) = 0
    PROVE  draft[s] = 0
<1>1. ~(draft[s] > 0)
  BY DEF Work, WorkInv, Building, Unverified
<1> QED
  BY <1>1, SlotWork

\* What a slot may go on with: caches that are good, and a book that is no
\* longer than the slot unless it is torn.
Ready(r) ==
    /\ PairGood(r.kv, boot.self, boot.swa)
    /\ r.book \in 0..End /\ (r.torn \/ r.book < SlotCtx)

LEMMA QuietWorks ==
    ASSUME Work, NEW s \in Slots
    PROVE  /\ Release(s) => Work'
           /\ Erase(s) => Work'
           /\ \A keep \in 1..MaxKeep, d \in 1..MaxDrop : Shift(s, keep, d) => Work'
           /\ \A r, cached : /\ Building /\ phase[s] = "idle" /\ r.book \in 0..End
                             /\ GoesOn(s, r, cached)
                             => Work'
<1>1. ASSUME Release(s) PROVE Work'
  <2>1. Building /\ Pending(s) = 0 /\ draft[s] = 0
    BY <1>1, NonePending, NoDraftLeft DEF Release
  <2>2. /\ book' = [book EXCEPT ![s] = book[s]] /\ draft' = [draft EXCEPT ![s] = draft[s]]
        /\ phase' = [phase EXCEPT ![s] = "idle"]
        /\ pend' = pend \o Repeat(s, 0) /\ boot' = boot /\ torn' \subseteq Slots
        /\ left' = left /\ begun' = begun /\ nb' = nb /\ tried' = tried
    BY <1>1, Unchanged, NoRun DEF Release, batchVars, Work, WorkType
  <2>3. /\ book[s] \in Nat /\ book[s] <= End /\ draft[s] \in 0..MaxDraft /\ draft[s] <= book[s]
        /\ Pending(s) + 0 <= book[s] /\ Pending(s) + 0 = 0
    BY <2>1, Unchanged
  <2> QED
    BY <2>1, <2>2, <2>3, OneSlotWorks
<1>2. ASSUME Erase(s) PROVE Work'
  <2>1. Building /\ Pending(s) = 0 /\ draft[s] = 0 /\ phase[s] = "idle"
    BY <1>2, NonePending, NoDraftLeft DEF Erase
  <2>2. /\ book' = [book EXCEPT ![s] = 0] /\ draft' = [draft EXCEPT ![s] = draft[s]]
        /\ phase' = [phase EXCEPT ![s] = "idle"]
        /\ pend' = pend \o Repeat(s, 0) /\ boot' = boot /\ torn' \subseteq Slots
        /\ left' = left /\ begun' = begun /\ nb' = nb /\ tried' = tried
    BY <1>2, <2>1, Unchanged, NoRun DEF Erase, batchVars, Work, WorkType
  <2>3. /\ draft[s] \in 0..MaxDraft /\ draft[s] <= 0 /\ 0 <= End /\ 0 \in Nat
        /\ Pending(s) + 0 <= 0 /\ Pending(s) + 0 = 0
    BY <2>1, Unchanged, Sizes
  <2> QED
    BY <2>1, <2>2, <2>3, OneSlotWorks
<1>3. ASSUME NEW keep \in 1..MaxKeep, NEW d \in 1..MaxDrop, Shift(s, keep, d) PROVE Work'
  <2> DEFINE b == IF s \in nocache THEN book[s] ELSE book[s] - d
  <2>1. Building /\ Pending(s) = 0 /\ draft[s] = 0 /\ phase[s] = "gen" /\ keep + d <= book[s]
    BY <1>3, NonePending DEF Shift
  <2>2. /\ book' = [book EXCEPT ![s] = b] /\ draft' = [draft EXCEPT ![s] = draft[s]]
        /\ phase' = [phase EXCEPT ![s] = phase[s]]
        /\ pend' = pend \o Repeat(s, 0) /\ boot' = boot /\ torn' \subseteq Slots
        /\ left' = left /\ begun' = begun /\ nb' = nb /\ tried' = tried
    <3>1. torn' = torn \cup {s} \/ torn' = torn
      BY <1>3, Zenon DEF Shift
    <3>2. book' = [book EXCEPT ![s] = b]
      <4>1. CASE s \in nocache
        BY <1>3, <4>1, Unchanged DEF Shift
      <4>2. CASE s \notin nocache
        BY <1>3, <4>2, Zenon DEF Shift
      <4> QED
        BY <4>1, <4>2
    <3> QED
      BY <1>3, <3>1, <3>2, Unchanged, NoRun DEF Shift, batchVars, Work, WorkType
  <2>3. /\ b \in Nat /\ b <= End /\ draft[s] \in 0..MaxDraft /\ draft[s] <= b
        /\ Pending(s) + 0 <= b /\ draft[s] = 0
    <3>1. keep \in Nat /\ d \in Nat /\ book[s] \in Nat /\ book[s] <= End /\ End \in Nat
      BY Unchanged, Sizes
    <3> QED
      BY <2>1, <3>1, Unchanged, Sizes
  <2> HIDE DEF b
  <2> QED
    BY <2>1, <2>2, <2>3, OneSlotWorks
<1>4. ASSUME NEW r, NEW cached, Building, phase[s] = "idle", r.book \in 0..End, GoesOn(s, r, cached)
      PROVE  Work'
  <2> DEFINE b == r.book
  <2>1. Pending(s) = 0 /\ draft[s] = 0
    BY <1>4, SlotWork
  <2>2. /\ draft' = [draft EXCEPT ![s] = draft[s]]
        /\ book' = [book EXCEPT ![s] = b] /\ phase' = [phase EXCEPT ![s] = "prompt"]
        /\ pend' = pend \o Repeat(s, 0) /\ boot' = boot
        /\ left' = left /\ begun' = begun /\ nb' = nb /\ tried' = tried
    BY <1>4, Unchanged, NoRun DEF GoesOn, batchVars
  <2>3. torn' \subseteq Slots
    <3>1. torn' = torn \cup {s} \/ torn' = torn \ {s}
      BY <1>4, Zenon DEF GoesOn
    <3> QED
      BY <3>1 DEF Work, WorkType
  <2>4. /\ b \in Nat /\ b <= End /\ draft[s] \in 0..MaxDraft /\ draft[s] <= b
        /\ Pending(s) + 0 <= b
    BY <1>4, <2>1, Unchanged, Sizes
  <2> HIDE DEF b
  <2> QED
    BY <1>4, <2>1, <2>2, <2>3, <2>4, OneSlotWorks
<1> QED
  BY <1>1, <1>2, <1>3, <1>4

LEMMA AddingWorks ==
    ASSUME Work, NEW s \in Slots
    PROVE  /\ \A n \in 0..MaxDraft : AddSampled(s, n) => Work'
           /\ \A n \in 1..NBatch, last \in BOOLEAN : AddPrompt(s, n, last) => Work'
<1>1. ASSUME NEW n \in 0..MaxDraft, AddSampled(s, n) PROVE Work'
  <2> DEFINE b == book[s] + 1 + n
             k == 1 + n
  <2>1. /\ Building /\ phase[s] = "gen" /\ Pending(s) = 0 /\ book[s] + n < End
        /\ pend' = pend \o Repeat(s, k)
        /\ book' = [book EXCEPT ![s] = b] /\ draft' = [draft EXCEPT ![s] = n]
        /\ boot' = boot /\ left' = left /\ begun' = begun /\ nb' = nb /\ tried' = tried
    BY <1>1 DEF AddSampled
  <2>2. phase' = [phase EXCEPT ![s] = phase[s]] /\ torn' \subseteq Slots
    BY <1>1, Unchanged DEF AddSampled, Work, WorkType
  <2>3. /\ b \in Nat /\ b <= End /\ n <= b /\ k \in Nat /\ k > 0 /\ Pending(s) + k <= b
        /\ Pending(s) + k # 0
    <3>1. book[s] \in Nat /\ n \in Nat /\ Pending(s) = 0 /\ End \in Nat /\ book[s] + n < End
      BY <2>1, Unchanged, Sizes
    <3> QED
      BY <3>1
  <2> HIDE DEF b, k
  <2> QED
    BY <2>1, <2>2, <2>3, OneSlotWorks
<1>2. ASSUME NEW n \in 1..NBatch, NEW last \in BOOLEAN, AddPrompt(s, n, last) PROVE Work'
  <2> DEFINE b == book[s] + n
             f == IF last THEN "gen" ELSE phase[s]
  <2>1. /\ Building /\ phase[s] = "prompt" /\ Pending(s) = 0 /\ b < SlotCtx
        /\ pend' = pend \o Repeat(s, n)
        /\ book' = [book EXCEPT ![s] = b] /\ phase' = [phase EXCEPT ![s] = f]
        /\ boot' = boot /\ left' = left /\ begun' = begun /\ nb' = nb /\ tried' = tried
    BY <1>2 DEF AddPrompt
  <2>2. draft' = [draft EXCEPT ![s] = draft[s]] /\ torn' \subseteq Slots
    BY <1>2, Unchanged DEF AddPrompt, Work, WorkType
  <2>3. draft[s] = 0
    BY <2>1, SlotWork
  <2>4. /\ b \in Nat /\ b <= End /\ n \in Nat /\ n > 0 /\ Pending(s) + n <= b /\ Pending(s) + n # 0
        /\ draft[s] \in 0..MaxDraft /\ draft[s] <= b
        /\ f \in {"prompt", "gen"}
    BY <2>1, <2>3, Unchanged, Sizes
  <2> HIDE DEF b, f
  <2> QED
    BY <2>1, <2>2, <2>3, <2>4, OneSlotWorks
<1> QED
  BY <1>1, <1>2

\* The ubatch leaves the batch, the rest stays.
LEMMA UbatchTaken ==
    ASSUME Work, Decoding, pend' = SubSeq(pend, Take + 1, Len(pend))
    PROVE  /\ pend' \in Seq(Slots) /\ Len(pend') = Len(pend) - Take
           /\ \A s \in Slots : Pending(s)' \in Nat /\ Pending(s) = Taken(s) + Pending(s)'
<1>1. Take \in 0..Len(pend) /\ pend \in Seq(Slots)
  <2>1. Call \in 1..Len(pend) /\ Take \in 1..Call /\ Len(pend) \in Nat
    BY TakeIs
  <2>2. pend \in Seq(Slots)
    BY DEF Work, WorkType
  <2> QED
    BY <2>1, <2>2
<1> DEFINE r == SubSeq(pend, Take + 1, Len(pend))
<1>2. /\ r \in Seq(Slots) /\ Len(r) = Len(pend) - Take
      /\ \A s : Count(pend, s) = Count(SubSeq(pend, 1, Take), s) + Count(r, s)
  BY <1>1, CountSplit
<1>3. \A s : Count(r, s) \in Nat
  BY <1>2, CountType
<1>4. pend' = r
  OBVIOUS
<1> HIDE DEF r
<1> QED
  BY <1>2, <1>3, <1>4, PendingIs, PendingNext DEF Taken

LEMMA CommitWorks ==
    ASSUME Work, Decoding, NEW k, Commit(k)
    PROVE  Work'
<1>1. /\ pend' = SubSeq(pend, Take + 1, Len(pend))
      /\ left' = Call - Take /\ begun' = (left' > 0)
      /\ \/ pend' = <<>> /\ draft = [s \in Slots |-> 0] /\ nb' = 0 /\ tried' = FALSE
         \/ nb' = Width /\ tried' = tried
      /\ UNCHANGED <<boot, phase, book, draft, torn>>
  BY DEF Commit, EndTick
<1>2. /\ Width \in 1..NBatch /\ Call \in 1..Len(pend) /\ Call \in 1..NBatch /\ Take \in 1..Call
      /\ Len(pend) \in Nat
  BY TakeIs
<1>3. /\ pend' \in Seq(Slots) /\ Len(pend') = Len(pend) - Take
      /\ \A s \in Slots : Pending(s)' \in Nat /\ Taken(s) \in Nat /\ Pending(s) = Taken(s) + Pending(s)'
  <2>1. /\ pend' \in Seq(Slots) /\ Len(pend') = Len(pend) - Take
        /\ \A s \in Slots : Pending(s)' \in Nat /\ Pending(s) = Taken(s) + Pending(s)'
    BY <1>1, UbatchTaken, Zenon
  <2>2. \A s \in Slots : Taken(s) \in Nat
    BY BatchFacts
  <2> QED
    BY <2>1, <2>2, Zenon
<1>4. left' \in 0..NBatch /\ left' <= Len(pend') /\ begun' \in BOOLEAN /\ (left' > 0 <=> begun')
  <2>1. left' \in 0..NBatch /\ left' <= Len(pend')
    <3> DEFINE c == Call
               w == Take
               l == Len(pend)
    <3>1. left' = c - w /\ Len(pend') = l - w /\ c \in 1..l /\ c \in 1..NBatch /\ w \in 1..c /\ l \in Nat
      BY <1>1, <1>2, <1>3, Zenon
    <3> HIDE DEF c, w, l
    <3> QED
      BY <3>1, Sizes
  <2>2. begun' = (left' > 0)
    BY <1>1
  <2>3. begun' \in BOOLEAN
    BY <2>2
  <2> QED
    BY <2>1, <2>2, <2>3, Zenon
<1>5. nb' \in 0..NBatch /\ tried' \in BOOLEAN
  <2>1. nb' \in 0..NBatch
    <3>1. nb' = 0 \/ nb' = Width
      BY <1>1, Zenon
    <3> QED
      BY <1>2, <3>1, Sizes
  <2>2. tried' = FALSE \/ tried' = tried
    BY <1>1, Zenon
  <2>3. tried \in BOOLEAN
    BY DEF Work, WorkType
  <2> QED
    BY <2>1, <2>2, <2>3, Zenon
<1>6. WorkType'
  BY <1>1, <1>3, <1>4, <1>5 DEF Work, WorkType
<1>7. ASSUME nb' = 0 PROVE left' = 0 /\ Unverified' = {}
  <2>1. pend' = <<>> /\ draft' = [s \in Slots |-> 0]
    BY <1>1, <1>2, <1>7
  <2>2. left' = 0
    BY <1>4, <1>6, <2>1 DEF WorkType
  <2> QED
    BY <2>1, <2>2 DEF Unverified
<1>8. ASSUME NEW s \in Slots
      PROVE  /\ Pending(s)' <= book'[s] /\ draft'[s] <= book'[s] /\ book'[s] <= End
             /\ phase'[s] = "idle" => Pending(s)' = 0
             /\ phase'[s] # "gen" => draft'[s] = 0
  <2>1. /\ book[s] \in Nat /\ draft[s] \in Nat /\ Pending(s) \in Nat
        /\ Pending(s) <= book[s] /\ draft[s] <= book[s] /\ book[s] <= End
        /\ phase[s] = "idle" => Pending(s) = 0
        /\ phase[s] # "gen" => draft[s] = 0
    BY SlotWork
  <2>2. Pending(s)' \in Nat /\ Taken(s) \in Nat /\ Pending(s) = Taken(s) + Pending(s)'
    BY <1>3
  <2> QED
    BY <1>1, <2>1, <2>2
<1> QED
  BY <1>4, <1>6, <1>7, <1>8 DEF Work, WorkInv

\* The slots at work are released.
LEMMA AllReleasedWorks ==
    ASSUME Work, pend' = <<>>, left' = 0, begun' = FALSE, nb' = 0, tried' = FALSE,
           phase' = [s \in Slots |-> "idle"], draft' = [s \in Slots |-> 0],
           torn' = torn \cup {s \in Slots : Pending(s) > 0}, UNCHANGED <<boot, book>>
    PROVE  Work'
<1>1. \A s \in Slots : Pending(s)' = 0
  BY NonePending
<1>2. WorkType'
  <2>1. 0 \in 0..NBatch /\ 0 \in 0..MaxDraft /\ FALSE \in BOOLEAN
    BY Sizes
  <2>2. pend' \in Seq(Slots)
    OBVIOUS
  <2>3. torn' \subseteq Slots
    BY DEF Work, WorkType
  <2>4. phase' \in [Slots -> {"idle", "prompt", "gen"}] /\ draft' \in [Slots -> 0..MaxDraft]
    BY <2>1
  <2> QED
    BY <2>1, <2>2, <2>3, <2>4 DEF Work, WorkType
<1>3. Unverified' = {}
  BY DEF Unverified
<1>4. left' <= Len(pend')
  OBVIOUS
<1>5. \A s \in Slots : book'[s] \in Nat /\ book'[s] <= End
  BY SlotWork
<1>6. \A s \in Slots : draft'[s] = 0
  OBVIOUS
<1> QED
  BY <1>1, <1>2, <1>3, <1>4, <1>5, <1>6 DEF Work, WorkInv

LEMMA HalfIs ==
    ASSUME NEW b \in Nat, NEW w \in 1..b, w > 1
    PROVE  w \div 2 \in 1..b
<1>1. w \in Nat /\ w >= 2
  OBVIOUS
<1>2. w \div 2 \in Int /\ 2 * (w \div 2) <= w /\ w < 2 * (w \div 2) + 2
  BY <1>1
<1> QED
  BY <1>1, <1>2

LEMMA RefuseWorks ==
    ASSUME Work, Decoding, NEW k
    PROVE  /\ Retry(k) => Work'
           /\ GiveUp(k) => Work'
<1>1. Width \in 1..NBatch
  BY TakeIs
<1>2. ASSUME Retry(k) PROVE Work'
  <2>1. ~begun /\ left = 0 /\ UNCHANGED <<boot, book, left, begun>>
    <3>1. ~begun /\ UNCHANGED <<boot, book, left, begun>>
      BY <1>2, Zenon DEF Retry
    <3>2. left \in 0..NBatch /\ (left > 0 <=> begun)
      BY DEF Work, WorkType, WorkInv
    <3> QED
      BY <3>1, <3>2, Sizes
  <2>2. \/ nb' \in 1..NBatch /\ tried' \in {TRUE, tried} /\ UNCHANGED <<phase, draft, torn, pend>>
        \/ /\ nb' = 0 /\ tried' = FALSE /\ pend' = <<>>
           /\ phase' = [s \in Slots |-> "idle"] /\ draft' = [s \in Slots |-> 0]
           /\ torn' = torn \cup {s \in Slots : Pending(s) > 0}
    <3>1. Width > 1 => Width \div 2 \in 1..NBatch
      BY <1>1, HalfIs, Sizes
    <3>2. \/ nb' = Width /\ tried' = TRUE /\ UNCHANGED <<phase, draft, torn, pend>>
          \/ Width > 1 /\ nb' = Width \div 2 /\ tried' = tried /\ UNCHANGED <<phase, draft, torn, pend>>
          \/ /\ nb' = 0 /\ tried' = FALSE /\ pend' = <<>>
             /\ phase' = [s \in Slots |-> "idle"] /\ draft' = [s \in Slots |-> 0]
             /\ torn' = torn \cup {s \in Slots : Pending(s) > 0}
      BY <1>2, Zenon DEF Retry, EndTick
    <3> QED
      BY <1>1, <3>1, <3>2, Zenon
  <2>3. CASE nb' \in 1..NBatch /\ tried' \in {TRUE, tried} /\ UNCHANGED <<phase, draft, torn, pend>>
    <3>1. nb' \in 0..NBatch /\ tried' \in BOOLEAN /\ nb' # 0
      <4>1. tried \in BOOLEAN
        BY DEF Work, WorkType
      <4>2. tried' \in BOOLEAN
        BY <2>3, <4>1, Zenon
      <4>3. nb' \in 0..NBatch /\ nb' # 0
        BY <2>3, Sizes
      <4> QED
        BY <4>2, <4>3
    <3>2. WorkType'
      BY <2>1, <2>3, <3>1 DEF Work, WorkType
    <3>3. \A s \in Slots : Pending(s)' = Pending(s)
      BY <2>3, PendingIs, PendingNext
    <3> QED
      BY <2>1, <2>3, <3>1, <3>2, <3>3 DEF Work, WorkInv
  <2>4. CASE /\ nb' = 0 /\ tried' = FALSE /\ pend' = <<>>
             /\ phase' = [s \in Slots |-> "idle"] /\ draft' = [s \in Slots |-> 0]
             /\ torn' = torn \cup {s \in Slots : Pending(s) > 0}
    <3>1. left' = 0 /\ begun' = FALSE
      BY <2>1 DEF Work, WorkType
    <3> QED
      BY <2>1, <2>4, <3>1, AllReleasedWorks
  <2> QED
    BY <2>2, <2>3, <2>4
<1>3. ASSUME GiveUp(k) PROVE Work'
  BY <1>3, AllReleasedWorks DEF GiveUp, EndTick
<1> QED
  BY <1>2, <1>3

LEMMA VerifyWorks ==
    ASSUME Work, NEW s \in Slots, NEW n \in 0..MaxDraft, Verify(s, n)
    PROVE  Work'
<1> DEFINE p == book[s] - draft[s] + n
<1>1. /\ left = 0 /\ s \in Unverified /\ n <= draft[s]
      /\ book' = [book EXCEPT ![s] = p] /\ draft' = [draft EXCEPT ![s] = 0]
      /\ UNCHANGED <<boot, phase, pend, left, begun>>
  BY Zenon DEF Verify
<1>2. \/ /\ pend = <<>> /\ Unverified = {s} /\ nb' = 0 /\ tried' = FALSE
      \/ UNCHANGED <<nb, tried>>
  BY Zenon DEF Verify, EndTick
<1>3. torn' \subseteq Slots
  <2>1. torn' = torn \cup {s} \/ torn' = torn
    BY Zenon DEF Verify
  <2> QED
    BY <2>1 DEF Work, WorkType
<1>4. /\ p \in Nat /\ p <= book[s] /\ draft[s] > 0 /\ Pending(s) = 0
      /\ book[s] <= End
  BY <1>1, SlotWork, Sizes DEF Unverified
<1>5. p \in 0..End
  BY <1>4, Sizes, SlotWork
<1>6. WorkType'
  <2> HIDE DEF p
  <2>1. 0 \in 0..MaxDraft /\ 0 \in 0..NBatch
    BY Sizes
  <2> QED
    BY <1>1, <1>2, <1>3, <1>5, <2>1 DEF Work, WorkType
<1>7. nb # 0
  BY <1>1 DEF Work, WorkInv
<1>8. \A t \in Slots : Pending(t)' = Pending(t)
  BY <1>1, PendingIs, PendingNext
<1>9. ASSUME NEW t \in Slots
      PROVE  /\ Pending(t)' <= book'[t] /\ draft'[t] <= book'[t] /\ book'[t] <= End
             /\ phase'[t] = "idle" => Pending(t)' = 0
             /\ phase'[t] # "gen" => draft'[t] = 0
  <2>1. book'[t] = (IF t = s THEN p ELSE book[t]) /\ draft'[t] = (IF t = s THEN 0 ELSE draft[t])
    <3> HIDE DEF p
    <3> QED
      BY <1>1 DEF Work, WorkType
  <2>2. /\ book[t] \in Nat /\ draft[t] \in Nat /\ Pending(t) \in Nat
        /\ Pending(t) <= book[t] /\ draft[t] <= book[t] /\ book[t] <= End
        /\ phase[t] = "idle" => Pending(t) = 0
        /\ phase[t] # "gen" => draft[t] = 0
    BY SlotWork
  <2> HIDE DEF p
  <2>3. CASE t = s
    BY <1>1, <1>4, <1>8, <2>1, <2>2, <2>3, Sizes
  <2>4. CASE t # s
    BY <1>1, <1>8, <2>1, <2>2, <2>4
  <2> QED
    BY <2>3, <2>4
<1>10. ASSUME nb' = 0 PROVE Unverified' = {}
  <2>1. Unverified = {s}
    BY <1>2, <1>7, <1>10
  <2>2. \A t \in Slots : draft'[t] = IF t = s THEN 0 ELSE draft[t]
    BY <1>1 DEF Work, WorkType
  <2> QED
    BY <1>8, <2>1, <2>2 DEF Unverified
<1>11. left' = 0 /\ (left' > 0 <=> begun') /\ left' <= Len(pend')
  BY <1>1 DEF Work, WorkInv
<1> QED
  BY <1>6, <1>9, <1>10, <1>11 DEF Work, WorkInv

-----------------------------------------------------------------------------
(* The caches stay good                                                    *)

Kept == PairGood(kv, boot.self, boot.swa)

\* The book of a slot that is not torn is shorter than its context, and only
\* the shift of a request without cache_prompt leaves n_past behind it.
InCtx ==
    /\ lag \in [Slots -> 0..End] /\ nocache \subseteq Slots
    /\ \A s \in Slots : lag[s] > 0 => s \in torn
    /\ \A s \in Slots \ torn : book[s] < SlotCtx

IType == Work /\ Kept /\ InCtx

LEMMA BootSizes ==
    ASSUME Work
    PROVE  boot.self \in Nat /\ boot.swa \in Nat
  BY Sizes DEF Work, WorkType

LEMMA CompactedGood ==
    ASSUME NEW m \in Nat, NEW n \in Nat, NEW k, PairGood(k, m, n), NEW c \in Compacted(k)
    PROVE  PairGood(c, m, n)
<1>1. Good(m, k.self) /\ Good(n, k.swa)
  BY DEF PairGood
<1>2. c = k \/ \E d \in Defragged(k.self) : c = WithSelf(k, d)
  BY Zenon DEF Compacted
<1>3. \A d \in Defragged(k.self) : PairGood(WithSelf(k, d), m, n)
  BY <1>1, DefragGood, WithSelfGood DEF Good
<1> QED
  BY <1>2, <1>3

LEMMA GivenBackGood ==
    ASSUME NEW m \in Nat, NEW n \in Nat, NEW k, PairGood(k, m, n), NEW r
    PROVE  PairGood(GivenBack(k, r), m, n)
  BY ReleasedGood, WithSwaGood DEF PairGood, GivenBack

LEMMA SelfPlacedGood ==
    ASSUME NEW m \in Nat, NEW n \in Nat, NEW k, PairGood(k, m, n),
           NEW batch, IsBatch(batch), Room(k.self, Len(batch))
    PROVE  PairGood(SelfPlaced(k, batch), m, n)
<1>1. Len(batch) \in Nat
  BY BatchIs
<1>2. Good(m, Advanced(Placed(k.self, batch), Len(batch)))
  BY <1>1, PlacedGood, AdvancedGood DEF PairGood
<1> QED
  BY <1>2, WithSelfGood DEF PairGood, SelfPlaced

\* The states of the caches within a ubatch.
LEMMA UbatchGood ==
    ASSUME IType, Decoding
    PROVE  LET m == boot.self
               n == boot.swa
           IN  /\ PairGood(Hinted, m, n) /\ SameRows(kv.self, Hinted.self) /\ Hinted.swa = kv.swa
               /\ PairGood(Retired(Hinted, Batch), m, n)
               /\ SwaRoom(Hinted, Batch) =>
                     /\ PairGood(SwaPlaced(Hinted, Batch), m, n)
                     /\ SameRows(kv.self, SwaPlaced(Hinted, Batch).self)
<1> DEFINE m == boot.self
           n == boot.swa
           h == Hinted
<1>1. m \in Nat /\ n \in Nat /\ PairGood(kv, m, n)
  BY BootSizes DEF IType, Kept
<1>2. Good(m, kv.self) /\ Good(n, kv.swa)
  BY <1>1 DEF PairGood
<1> HIDE DEF m, n
<1>3. Good(m, HeadHint(kv.self, Take)) /\ SameRows(kv.self, HeadHint(kv.self, Take))
  BY <1>1, <1>2, HintGood
<1>4. h.self = HeadHint(kv.self, Take) /\ h.swa = kv.swa
  BY DEF Hinted
<1>5. PairGood(h, m, n) /\ SameRows(kv.self, h.self)
  BY <1>2, <1>3, <1>4 DEF PairGood
<1>6. IsBatch(Batch)
  BY BatchFacts DEF IType
<1> HIDE DEF h
<1>7. PairGood(Retired(h, Batch), m, n)
  BY <1>1, <1>5, RetiredGood
<1>8. SwaRoom(h, Batch) => /\ PairGood(SwaPlaced(h, Batch), m, n)
                           /\ SameRows(h.self, SwaPlaced(h, Batch).self)
  BY <1>1, <1>5, <1>6, SwaPlacedGood
<1> QED
  BY <1>4, <1>5, <1>7, <1>8 DEF m, n, h, SameRows

LEMMA RefuseGood ==
    ASSUME NEW m \in Nat, NEW n \in Nat, NEW k, PairGood(k, m, n)
    PROVE  /\ Retry(k) => PairGood(kv', m, n)
           /\ GiveUp(k) => PairGood(kv', m, n)
<1>1. Retry(k) => kv' = k \/ kv' \in Compacted(k)
  BY Zenon DEF Retry
<1>2. GiveUp(k) => kv' = k
  BY Zenon DEF GiveUp
<1> QED
  BY <1>1, <1>2, CompactedGood

LEMMA CallGood ==
    ASSUME IType
    PROVE  /\ TooMany => Kept'
           /\ NoSwaRoom => Kept'
           /\ Decode => Kept'
           /\ NoSelfRoom => Kept'
<1> DEFINE m == boot.self
           n == boot.swa
           k == SwaPlaced(Hinted, Batch)
<1>1. m \in Nat /\ n \in Nat /\ PairGood(kv, m, n)
  BY BootSizes DEF IType, Kept
<1>2. TooMany \/ NoSwaRoom \/ Decode \/ NoSelfRoom => boot' = boot /\ Decoding
  BY Zenon DEF TooMany, NoSwaRoom, Decode, NoSelfRoom, Refuse, Retry, GiveUp, Commit
<1>3. SUFFICES /\ TooMany => PairGood(kv', m, n)
               /\ NoSwaRoom => PairGood(kv', m, n)
               /\ Decode => PairGood(kv', m, n)
               /\ NoSelfRoom => PairGood(kv', m, n)
  BY <1>2, Zenon DEF Kept
<1> HIDE DEF m, n
<1>4. TooMany => PairGood(kv', m, n)
  BY <1>1, RefuseGood DEF TooMany
<1>5. NoSwaRoom => PairGood(kv', m, n)
  <2>1. Decoding => PairGood(Retired(Hinted, Batch), m, n)
    BY UbatchGood DEF m, n
  <2> QED
    BY <1>1, <2>1, RefuseGood DEF NoSwaRoom, Refuse
<1>6. Decoding => IsBatch(Batch) /\ Len(Batch) = Take
  BY BatchFacts DEF IType
<1>7. ASSUME Decoding, SwaRoom(Hinted, Batch)
      PROVE  PairGood(k, m, n) /\ SameRows(kv.self, k.self)
  BY <1>7, UbatchGood DEF m, n
<1>8. ASSUME NEW c, PairGood(c, m, n), Room(c.self, Take), Commit(c), Decoding
      PROVE  PairGood(kv', m, n)
  <2>1. kv' = SelfPlaced(c, Batch)
    BY <1>8, Zenon DEF Commit
  <2> QED
    BY <1>1, <1>6, <1>8, <2>1, SelfPlacedGood
<1>9. ASSUME Decode PROVE PairGood(kv', m, n)
  <2>1. /\ Decoding /\ SwaRoom(Hinted, Batch) /\ Room(kv.self, Take) /\ Commit(k)
    BY <1>9, Zenon DEF Decode
  <2> HIDE DEF k
  <2>2. PairGood(k, m, n) /\ Room(k.self, Take)
    BY <1>7, <2>1, RoomKept
  <2> QED
    BY <1>8, <2>1, <2>2
<1>10. ASSUME NoSelfRoom PROVE PairGood(kv', m, n)
  <2>1. /\ Decoding /\ SwaRoom(Hinted, Batch)
        /\ \/ Retry(GivenBack(k, Take))
           \/ \E c \in Compacted(k) : \/ Room(c.self, Take) /\ Commit(c)
                                      \/ GiveUp(GivenBack(c, Take))
    BY <1>10, Zenon DEF NoSelfRoom
  <2> HIDE DEF k
  <2>2. PairGood(k, m, n)
    BY <1>7, <2>1
  <2>3. CASE Retry(GivenBack(k, Take))
    BY <1>1, <2>2, <2>3, GivenBackGood, RefuseGood
  <2>4. ASSUME NEW c \in Compacted(k), Room(c.self, Take) /\ Commit(c)
        PROVE  PairGood(kv', m, n)
    BY <1>1, <1>8, <2>1, <2>2, <2>4, CompactedGood
  <2>5. ASSUME NEW c \in Compacted(k), GiveUp(GivenBack(c, Take))
        PROVE  PairGood(kv', m, n)
    BY <1>1, <2>2, <2>5, CompactedGood, GivenBackGood, RefuseGood
  <2> QED
    BY <2>1, <2>3, <2>4, <2>5
<1> QED
  BY <1>4, <1>5, <1>9, <1>10

\* A shift of any sequence leaves the caches good.
LEMMA SlidGood ==
    ASSUME IType, NEW s \in Slots, NEW keep \in Nat, NEW d \in Nat \ {0}, keep + d <= book[s]
    PROVE  PairGood(Slid(s, keep, d), boot.self, boot.swa)
<1> DEFINE m == boot.self
           n == boot.swa
           k == CtxSeqRm(kv, s, keep, keep + d)
           a == keep + d
<1>1. m \in Nat /\ n \in Nat /\ PairGood(kv, m, n) /\ s \in Seqs
  BY BootSizes DEF IType, Kept, Slots
<1>2. book[s] \in Nat /\ book[s] <= End /\ End \in Nat
  BY SlotWork, Sizes DEF IType
<1>3. keep \in 0..End /\ a \in 0..End /\ book[s] \in Int /\ -d \in Int /\ -d <= 0
  BY <1>2
<1>4. Slid(s, keep, d) = CtxSeqAdd(k, s, a, book[s], -d)
  BY DEF Slid
<1> HIDE DEF m, n, a
<1>5. PairGood(k, m, n)
  BY <1>1, <1>3, CtxSeqRmGood DEF a
<1> HIDE DEF k
<1>6. ASSUME NEW r \in Nat, NEW c, Good(r, c)
      PROVE  Good(r, SeqAdd(c, s, a, book[s], -d))
  <2>1. Sound(r, c) /\ c \in Cache(r)
    BY <1>6 DEF Good, Sound
  <2>2. \A i \in InRange(c, s, a, book[s]) : c.cells[i].pos \in Positions
    BY <1>1, <1>3, <2>1, InRangeRows
  <2>3. \A i \in InRange(c, s, a, book[s]) : c.cells[i].pos + (-d) =< MaxPos
    BY <1>3, <2>2, Sizes DEF Positions
  <2> QED
    BY <1>1, <1>3, <2>1, <2>3, AddGood
<1>7. PairGood(CtxSeqAdd(k, s, a, book[s], -d), m, n)
  BY <1>1, <1>5, <1>6, BothGood DEF PairGood, CtxSeqAdd
<1> QED
  BY <1>4, <1>7 DEF m, n

\* The openings of a slot: its own cache, or that cache shifted.
LEMMA OpeningIs ==
    ASSUME IType, NEW s \in Slots, NEW o \in Openings(s)
    PROVE  \/ o = [kv |-> kv, book |-> book[s], torn |-> s \in torn]
           \/ \E keep \in Nat, d \in Nat \ {0} :
                 /\ boot.shift /\ keep + d <= book[s]
                 /\ o = [kv |-> Slid(s, keep, d), book |-> book[s] - d,
                         torn |-> s \in torn \/ SlipOff(s, keep, d)]
<1>1. CASE o \in {[kv |-> kv, book |-> book[s], torn |-> s \in torn]}
  BY <1>1
<1>2. ASSUME NEW x \in (0..MaxKeep) \X (1..MaxDrop), boot.shift, x[1] + x[2] <= book[s],
             o = [kv |-> Slid(s, x[1], x[2]), book |-> book[s] - x[2],
                  torn |-> s \in torn \/ SlipOff(s, x[1], x[2])]
      PROVE  \E keep \in Nat, d \in Nat \ {0} :
                 /\ boot.shift /\ keep + d <= book[s]
                 /\ o = [kv |-> Slid(s, keep, d), book |-> book[s] - d,
                         torn |-> s \in torn \/ SlipOff(s, keep, d)]
  <2>1. x[1] \in Nat /\ x[2] \in Nat \ {0}
    BY Sizes
  <2> QED
    BY <1>2, <2>1
<1> QED
  BY <1>1, <1>2, Zenon DEF Openings

LEMMA OpeningFits ==
    ASSUME IType, NEW s \in Slots, NEW o \in Openings(s)
    PROVE  Ready(o)
<1>1. book[s] \in Nat /\ book[s] <= End /\ End \in Nat /\ (s \in torn \/ book[s] < SlotCtx)
      /\ SlotCtx \in Nat
  <2>1. Work /\ InCtx
    BY DEF IType
  <2>2. s \in torn \/ book[s] < SlotCtx
    BY <2>1 DEF InCtx
  <2> QED
    BY <2>1, <2>2, SlotWork, Sizes
<1>2. CASE o = [kv |-> kv, book |-> book[s], torn |-> s \in torn]
  <2>1. o.kv = kv /\ o.book = book[s] /\ (s \in torn => o.torn)
    BY <1>2
  <2>2. PairGood(kv, boot.self, boot.swa)
    BY DEF IType, Kept
  <2>3. o.book \in 0..End
    BY <1>1, <2>1
  <2> QED
    BY <1>1, <2>1, <2>2, <2>3 DEF Ready
<1>3. ASSUME NEW keep \in Nat, NEW d \in Nat \ {0}, keep + d <= book[s],
             o = [kv |-> Slid(s, keep, d), book |-> book[s] - d,
                  torn |-> s \in torn \/ SlipOff(s, keep, d)]
      PROVE  Ready(o)
  <2>1. PairGood(o.kv, boot.self, boot.swa)
    BY <1>3, SlidGood
  <2>2. o.book = book[s] - d /\ (s \in torn => o.torn)
    BY <1>3
  <2>3. o.book \in 0..End /\ (book[s] < SlotCtx => o.book < SlotCtx)
    BY <1>1, <1>3, <2>2
  <2> QED
    BY <1>1, <2>1, <2>2, <2>3 DEF Ready
<1> QED
  BY <1>2, <1>3, OpeningIs

LEMMA TrimFits ==
    ASSUME IType, NEW s \in Slots, NEW o, Ready(o), NEW p \in 0..o.book, p < SlotCtx
    PROVE  Ready(Trim(o, s, p))
<1> DEFINE r == Trim(o, s, p)
           k == CtxSeqRm(o.kv, s, p, End)
<1>1. boot.self \in Nat /\ boot.swa \in Nat /\ s \in Seqs
  BY BootSizes DEF IType, Slots
<1>2. PairGood(o.kv, boot.self, boot.swa) /\ o.book \in 0..End /\ SlotCtx \in Nat \ {0} /\ End \in Nat
  BY Sizes DEF Ready
<1>3. 0 \in 0..End /\ End \in 0..End /\ p \in 0..End
  BY <1>2
<1>4. PairGood(k, boot.self, boot.swa)
  BY <1>1, <1>2, <1>3, CtxSeqRmGood
<1> HIDE DEF k
<1>5. PairGood(CtxSeqRm(k, s, 0, End), boot.self, boot.swa)
  BY <1>1, <1>3, <1>4, CtxSeqRmGood
<1>6. /\ r.kv \in {o.kv, CtxSeqRm(k, s, 0, End), k}
      /\ r.book \in {0, p}
  BY DEF Trim, k
<1> HIDE DEF r
<1> QED
  BY <1>2, <1>3, <1>4, <1>5, <1>6 DEF Ready, r

\* Where a request may land fits, and so does what a fork leaves.
LEMMA LandingFits ==
    ASSUME IType, NEW s \in Slots, NEW cached, NEW r \in Landings(s, cached)
    PROVE  \E o \in Openings(s) : \E p \in 0..o.book : Ready(r) /\ r = Trim(o, s, p)
<1>1. PICK o \in Openings(s) :
         \E p \in (IF cached THEN {q \in 0..o.book : q < SlotCtx - 1} ELSE {0}) : r = Trim(o, s, p)
  BY Zenon DEF Landings
<1>2. PICK p \in (IF cached THEN {q \in 0..o.book : q < SlotCtx - 1} ELSE {0}) : r = Trim(o, s, p)
  BY <1>1
<1>3. Ready(o)
  BY OpeningFits
<1>4. o.book \in 0..End /\ SlotCtx \in Nat \ {0} /\ End \in Nat
  BY <1>3, Sizes DEF Ready
<1>5. p \in 0..o.book /\ p < SlotCtx
  BY <1>4
<1> QED
  BY <1>2, <1>3, <1>5, TrimFits

LEMMA ForkIs ==
    ASSUME NEW s \in Slots, NEW t \in Slots, Fork(s, t)
    PROVE  \E o \in Openings(s), p \in 1..book[t] :
              LET f == CtxSharePrefix(o.kv, t, s, p)
                  taken == Shared(o.kv.self, t, p) = p /\ PosMax(f.self, s) = p - 1
              IN  /\ p < SlotCtx - 1
                  /\ GoesOn(s, IF taken THEN [kv |-> f, book |-> p, torn |-> t \in torn]
                               ELSE [kv |-> CtxSeqRm(f, s, 0, End), book |-> 0, torn |-> FALSE],
                            TRUE)
  BY Zenon DEF Fork

LEMMA ForkFits ==
    ASSUME IType, NEW s \in Slots, NEW t \in Slots, Fork(s, t)
    PROVE  \E r : Ready(r) /\ GoesOn(s, r, TRUE)
<1>1. PICK o \in Openings(s), p \in 1..book[t] :
              LET f == CtxSharePrefix(o.kv, t, s, p)
                  taken == Shared(o.kv.self, t, p) = p /\ PosMax(f.self, s) = p - 1
              IN  /\ p < SlotCtx - 1
                  /\ GoesOn(s, IF taken THEN [kv |-> f, book |-> p, torn |-> t \in torn]
                               ELSE [kv |-> CtxSeqRm(f, s, 0, End), book |-> 0, torn |-> FALSE],
                            TRUE)
  BY ForkIs
<1> DEFINE f == CtxSharePrefix(o.kv, t, s, p)
           a == [kv |-> f, book |-> p, torn |-> t \in torn]
           b == [kv |-> CtxSeqRm(f, s, 0, End), book |-> 0, torn |-> FALSE]
<1>2. p < SlotCtx - 1 /\ (GoesOn(s, a, TRUE) \/ GoesOn(s, b, TRUE))
  BY <1>1, Zenon
<1>3. /\ boot.self \in Nat /\ boot.swa \in Nat /\ s \in Seqs /\ t \in Seqs
      /\ book[t] \in Nat /\ book[t] <= End /\ End \in Nat /\ SlotCtx \in Nat \ {0}
  BY BootSizes, SlotWork, Sizes DEF IType, Slots
<1>4. p \in 0..End /\ 0 \in 0..End /\ End \in 0..End /\ p < SlotCtx
  BY <1>2, <1>3
<1>5. PairGood(o.kv, boot.self, boot.swa)
  BY OpeningFits DEF Ready
<1>6. PairGood(f, boot.self, boot.swa)
  BY <1>3, <1>4, <1>5, ShareGood, BothGood DEF CtxSharePrefix, PairGood, Good
<1> HIDE DEF f
<1>7. PairGood(CtxSeqRm(f, s, 0, End), boot.self, boot.swa)
  BY <1>3, <1>4, <1>6, CtxSeqRmGood
<1>8. Ready(a) /\ Ready(b)
  BY <1>3, <1>4, <1>6, <1>7 DEF Ready
<1> QED
  BY <1>2, <1>8, Zenon

LEMMA EditGood ==
    ASSUME IType, NEW s \in Slots
    PROVE  /\ Erase(s) => Kept'
           /\ \A keep \in 1..MaxKeep, d \in 1..MaxDrop : Shift(s, keep, d) => Kept'
           /\ \A r, cached : Ready(r) /\ GoesOn(s, r, cached) => Kept'
           /\ \A n \in 0..MaxDraft : Verify(s, n) => Kept'
<1> DEFINE m == boot.self
           n == boot.swa
<1>1. m \in Nat /\ n \in Nat /\ PairGood(kv, m, n) /\ s \in Seqs
  BY BootSizes DEF IType, Kept, Slots
<1>2. 0 \in 0..End /\ End \in 0..End /\ End \in Nat
  BY Sizes
<1>3. PairGood(kv', m, n) /\ boot' = boot => Kept'
  BY Zenon DEF Kept
<1>4. ASSUME NEW p \in 0..End
      PROVE  PairGood(CtxSeqRm(kv, s, p, End), m, n)
  BY <1>1, <1>2, <1>4, CtxSeqRmGood
<1>5. ASSUME Erase(s) PROVE Kept'
  <2>1. boot' = boot /\ kv' = CtxSeqRm(kv, s, 0, End)
    BY <1>5 DEF Erase
  <2> HIDE DEF m, n
  <2> QED
    BY <1>2, <1>3, <1>4, <2>1
<1>6. ASSUME NEW keep \in 1..MaxKeep, NEW d \in 1..MaxDrop, Shift(s, keep, d) PROVE Kept'
  <2>1. boot' = boot /\ keep + d <= book[s] /\ kv' = Slid(s, keep, d)
    BY <1>6, Zenon DEF Shift
  <2>2. keep \in Nat /\ d \in Nat \ {0}
    BY Sizes
  <2> QED
    BY <1>3, <2>1, <2>2, SlidGood
<1>7. ASSUME NEW r, NEW cached, Ready(r), GoesOn(s, r, cached) PROVE Kept'
  <2>1. boot' = boot /\ kv' = r.kv
    BY <1>7 DEF GoesOn
  <2> QED
    BY <1>3, <1>7, <2>1 DEF Ready
<1>9. ASSUME NEW a \in 0..MaxDraft, Verify(s, a) PROVE Kept'
  <2> DEFINE p == book[s] - draft[s] + a
  <2>1. boot' = boot /\ kv' = CtxSeqRm(kv, s, p, End) /\ a <= draft[s]
    BY <1>9, Zenon DEF Verify
  <2>2. p \in 0..End
    <3>1. book[s] \in Nat /\ draft[s] \in Nat /\ draft[s] <= book[s] /\ book[s] <= End
      BY SlotWork DEF IType
    <3> QED
      BY <1>2, <2>1, <3>1, Sizes
  <2> HIDE DEF p, m, n
  <2> QED
    BY <1>3, <1>4, <2>1, <2>2
<1> QED
  BY <1>5, <1>6, <1>7, <1>9

\* The steps that leave lag and nocache alone.
LEMMA InCtxKept ==
    ASSUME IType, UNCHANGED askVars, torn \subseteq torn',
           \A s \in Slots \ torn' : book'[s] < SlotCtx
    PROVE  InCtx'
  BY DEF IType, InCtx, askVars

LEMMA InCtxStep ==
    ASSUME IType, NEW s \in Slots
    PROVE  /\ Release(s) => InCtx'
           /\ Erase(s) => InCtx'
           /\ \A keep \in 1..MaxKeep, d \in 1..MaxDrop : Shift(s, keep, d) => InCtx'
           /\ \A r, cached : Ready(r) /\ GoesOn(s, r, cached) => InCtx'
           /\ \A n \in 0..MaxDraft : AddSampled(s, n) => InCtx'
           /\ \A n \in 1..NBatch, last \in BOOLEAN : AddPrompt(s, n, last) => InCtx'
           /\ \A n \in 0..MaxDraft : Verify(s, n) => InCtx'
<1>1. /\ book \in [Slots -> 0..End] /\ lag \in [Slots -> 0..End] /\ nocache \subseteq Slots
      /\ \A t \in Slots : lag[t] > 0 => t \in torn
      /\ \A t \in Slots \ torn : book[t] < SlotCtx
      /\ torn \subseteq Slots
      /\ SlotCtx \in Nat \ {0} /\ End \in Nat
  BY Sizes DEF IType, InCtx, Work, WorkType
<1>2. \A t \in Slots : book[t] \in Nat /\ book[t] <= End /\ lag[t] \in Nat
  BY <1>1
<1>3. ASSUME Release(s) PROVE InCtx'
  BY <1>1, <1>3, InCtxKept DEF Release
<1>4. ASSUME Erase(s) PROVE InCtx'
  <2>1. /\ book' = [book EXCEPT ![s] = 0] /\ lag' = [lag EXCEPT ![s] = 0]
        /\ torn' = torn \ {s} /\ nocache' = nocache
    BY <1>4 DEF Erase
  <2>2. \A t \in Slots : /\ book'[t] = IF t = s THEN 0 ELSE book[t]
                         /\ lag'[t] = IF t = s THEN 0 ELSE lag[t]
    BY <1>1, <2>1
  <2>3. lag' \in [Slots -> 0..End]
    BY <1>1, <2>1
  <2> QED
    BY <1>1, <2>1, <2>2, <2>3 DEF InCtx
<1>5. ASSUME NEW keep \in 1..MaxKeep, NEW d \in 1..MaxDrop, Shift(s, keep, d) PROVE InCtx'
  <2>1. /\ nocache' = nocache /\ keep + d <= book[s]
        /\ \/ /\ lag' = [lag EXCEPT ![s] = d] /\ book' = book /\ torn' = torn \cup {s}
           \/ /\ lag' = lag /\ book' = [book EXCEPT ![s] = book[s] - d]
              /\ torn' = torn \/ torn' = torn \cup {s}
    BY <1>5, Zenon DEF Shift
  <2>2. keep \in Nat /\ d \in Nat /\ d <= End
    BY <1>2, <2>1, Sizes
  <2>3. CASE lag' = [lag EXCEPT ![s] = d] /\ book' = book /\ torn' = torn \cup {s}
    <3>1. lag' \in [Slots -> 0..End] /\ \A t \in Slots : t # s => lag'[t] = lag[t]
      BY <1>1, <2>2, <2>3
    <3> QED
      BY <1>1, <2>1, <2>3, <3>1 DEF InCtx
  <2>4. CASE /\ lag' = lag /\ book' = [book EXCEPT ![s] = book[s] - d]
             /\ torn' = torn \/ torn' = torn \cup {s}
    <3>1. \A t \in Slots : book'[t] = IF t = s THEN book[t] - d ELSE book[t]
      BY <1>1, <2>4
    <3>2. \A t \in Slots : book[t] < SlotCtx => book'[t] < SlotCtx
      BY <1>1, <1>2, <2>2, <3>1
    <3> QED
      BY <1>1, <2>1, <2>4, <3>2 DEF InCtx
  <2> QED
    BY <2>1, <2>3, <2>4
<1>6. ASSUME NEW r, NEW cached, Ready(r), GoesOn(s, r, cached) PROVE InCtx'
  <2> DEFINE b == r.book
             u == r.torn
  <2>1. /\ book' = [book EXCEPT ![s] = b] /\ lag' = [lag EXCEPT ![s] = 0]
        /\ torn' = IF u THEN torn \cup {s} ELSE torn \ {s}
        /\ nocache' = nocache \ {s} \/ nocache' = nocache \cup {s}
    BY <1>6, Zenon DEF GoesOn
  <2>2. u \/ b < SlotCtx
    BY <1>6 DEF Ready
  <2> HIDE DEF b, u
  <2>3. \A t \in Slots : /\ book'[t] = IF t = s THEN b ELSE book[t]
                         /\ lag'[t] = IF t = s THEN 0 ELSE lag[t]
    BY <1>1, <2>1
  <2>4. lag' \in [Slots -> 0..End] /\ nocache' \subseteq Slots
    BY <1>1, <2>1
  <2>5. \A t \in Slots : lag'[t] > 0 => t \in torn'
    BY <1>1, <2>1, <2>3
  <2>6. \A t \in Slots \ torn' : book'[t] < SlotCtx
    BY <1>1, <2>1, <2>2, <2>3
  <2> QED
    BY <2>4, <2>5, <2>6 DEF InCtx
<1>7. ASSUME NEW n \in 0..MaxDraft, AddSampled(s, n) PROVE InCtx'
  <2>1. /\ Past(s) + n < SlotCtx - 1 \/ lag[s] > 0
        /\ book' = [book EXCEPT ![s] = @ + 1 + n] /\ lag' = [lag EXCEPT ![s] = 0]
        /\ torn' = torn /\ nocache' = nocache
    BY <1>7, Zenon DEF AddSampled
  <2>2. n \in Nat
    BY Sizes
  <2>3. \A t \in Slots : /\ book'[t] = IF t = s THEN book[t] + 1 + n ELSE book[t]
                         /\ lag'[t] = IF t = s THEN 0 ELSE lag[t]
    BY <1>1, <2>1
  <2>4. lag' \in [Slots -> 0..End]
    BY <1>1, <2>1
  <2>5. s \notin torn => book[s] + 1 + n < SlotCtx
    <3>1. s \notin torn => lag[s] = 0
      BY <1>1, <1>2
    <3> QED
      BY <1>1, <1>2, <2>1, <2>2, <3>1 DEF Past
  <2> QED
    BY <1>1, <2>1, <2>3, <2>4, <2>5 DEF InCtx
<1>8. ASSUME NEW n \in 1..NBatch, NEW last \in BOOLEAN, AddPrompt(s, n, last) PROVE InCtx'
  <2>1. /\ book[s] + n < SlotCtx /\ book' = [book EXCEPT ![s] = @ + n]
        /\ UNCHANGED askVars /\ torn' = torn
    BY <1>8 DEF AddPrompt
  <2>2. \A t \in Slots : book'[t] = IF t = s THEN book[t] + n ELSE book[t]
    BY <1>1, <2>1
  <2> QED
    BY <1>1, <2>1, <2>2, InCtxKept
<1>9. ASSUME NEW n \in 0..MaxDraft, Verify(s, n) PROVE InCtx'
  <2> DEFINE p == book[s] - draft[s] + n
  <2>1. /\ n <= draft[s] /\ book' = [book EXCEPT ![s] = p] /\ UNCHANGED askVars
        /\ torn' = torn \/ torn' = torn \cup {s}
    BY <1>9, Zenon DEF Verify
  <2>2. draft[s] \in Nat /\ n \in Nat
    BY SlotWork, Sizes DEF IType
  <2>3. p <= book[s] /\ p \in Int
    BY <1>2, <2>1, <2>2
  <2> HIDE DEF p
  <2>4. \A t \in Slots : book'[t] = IF t = s THEN p ELSE book[t]
    BY <1>1, <2>1
  <2>5. \A t \in Slots : book[t] < SlotCtx => book'[t] < SlotCtx
    BY <1>1, <1>2, <2>3, <2>4
  <2> QED
    BY <1>1, <2>1, <2>5, InCtxKept
<1> QED
  BY <1>3, <1>4, <1>5, <1>6, <1>7, <1>8, <1>9

\* A call leaves the books alone, and tears at most.
LEMMA InCtxCall ==
    ASSUME IType, TooMany \/ NoSwaRoom \/ Decode \/ NoSelfRoom
    PROVE  InCtx'
<1>1. ASSUME NEW k, Retry(k) \/ GiveUp(k) \/ Commit(k)
      PROVE  UNCHANGED askVars /\ book' = book /\ torn \subseteq torn'
  <2>1. UNCHANGED askVars /\ book' = book
    BY <1>1, Zenon DEF Retry, GiveUp, Commit
  <2>2. torn' = torn \/ torn' = torn \cup {s \in Slots : Pending(s) > 0}
    BY <1>1, Zenon DEF Retry, GiveUp, Commit
  <2> QED
    BY <2>1, <2>2
<1>2. \E k : Retry(k) \/ GiveUp(k) \/ Commit(k)
  BY Zenon DEF TooMany, NoSwaRoom, Decode, NoSelfRoom, Refuse
<1>3. UNCHANGED askVars /\ book' = book /\ torn \subseteq torn'
  BY <1>1, <1>2
<1>4. \A s \in Slots \ torn : book[s] < SlotCtx
  BY DEF IType, InCtx
<1> QED
  BY <1>3, <1>4, InCtxKept

LEMMA InitType == Init => IType
<1> SUFFICES ASSUME Init PROVE IType
  OBVIOUS
<1>1. /\ boot \in Boots /\ kv = [self |-> Fresh(boot.self), swa |-> Fresh(boot.swa)]
      /\ phase = [s \in Slots |-> "idle"] /\ book = [s \in Slots |-> 0] /\ draft = [s \in Slots |-> 0]
      /\ lag = [s \in Slots |-> 0] /\ nocache = {}
      /\ torn = {} /\ pend = <<>> /\ left = 0 /\ begun = FALSE /\ nb = 0 /\ tried = FALSE
  BY DEF Init
<1>2. \A s \in Slots : Pending(s) = 0
  BY <1>1, NonePending
<1>3. WorkType
  <2>1. 0 \in 0..NBatch /\ 0 \in 0..MaxDraft /\ 0 \in 0..End
    BY Sizes
  <2>2. pend \in Seq(Slots)
    BY <1>1
  <2> QED
    BY <1>1, <2>1, <2>2 DEF WorkType
<1>4. WorkInv
  <2>1. Unverified = {}
    BY <1>1 DEF Unverified
  <2>2. Len(pend) = 0 /\ 0 <= End /\ (left > 0 <=> begun)
    BY <1>1, Sizes
  <2> QED
    BY <1>1, <1>2, <2>1, <2>2 DEF WorkInv
<1>5. Kept
  <2>1. boot.self \in Nat /\ boot.swa \in Nat
    BY <1>1, Sizes
  <2>2. kv.self = Fresh(boot.self) /\ kv.swa = Fresh(boot.swa)
    BY <1>1
  <2> QED
    BY <2>1, <2>2, FreshGood DEF Kept, PairGood
<1>6. InCtx
  <2>1. 0 \in 0..End /\ 0 < SlotCtx
    BY Sizes
  <2> QED
    BY <1>1, <2>1 DEF InCtx
<1> QED
  BY <1>3, <1>4, <1>5, <1>6 DEF IType, Work

LEMMA StepType == IType /\ [Next]_vars => IType'
<1> SUFFICES ASSUME IType, [Next]_vars PROVE Work' /\ Kept' /\ InCtx'
  BY DEF IType
<1>1. Work /\ Kept /\ InCtx
  BY DEF IType
<1>2. CASE UNCHANGED vars
  <2>1. UNCHANGED <<boot, kv, phase, book, draft, lag, nocache, torn, pend, left, begun, nb, tried>>
    BY <1>2 DEF vars
  <2>2. \A s : Pending(s)' = Pending(s)
    BY <2>1, PendingIs, PendingNext
  <2>3. Unverified' = Unverified
    BY <2>1, <2>2 DEF Unverified
  <2> QED
    BY <1>1, <2>1, <2>2, <2>3 DEF Work, WorkType, WorkInv, Kept, InCtx
<1>3. ASSUME NEW s \in Slots, Release(s) PROVE Work' /\ Kept' /\ InCtx'
  <2>1. boot' = boot /\ kv' = kv
    BY <1>3 DEF Release
  <2> QED
    BY <1>1, <1>3, <2>1, QuietWorks, InCtxStep DEF Kept
<1>4. ASSUME NEW s \in Slots, Erase(s) PROVE Work' /\ Kept' /\ InCtx'
  BY <1>1, <1>4, QuietWorks, EditGood, InCtxStep
<1>5. ASSUME NEW s \in Slots, NEW keep \in 1..MaxKeep, NEW d \in 1..MaxDrop, Shift(s, keep, d)
      PROVE Work' /\ Kept' /\ InCtx'
  BY <1>1, <1>5, QuietWorks, EditGood, InCtxStep
<1>6. ASSUME NEW s \in Slots, NEW cached \in BOOLEAN, Admit(s, cached)
      PROVE  Work' /\ Kept' /\ InCtx'
  <2>1. PICK r \in Landings(s, cached) : Building /\ phase[s] = "idle" /\ GoesOn(s, r, cached)
    BY <1>6, Zenon DEF Admit
  <2>2. Ready(r)
    BY LandingFits
  <2> QED
    BY <1>1, <2>1, <2>2, QuietWorks, EditGood, InCtxStep DEF Ready
<1>7. ASSUME NEW s \in Slots, NEW t \in Slots, Fork(s, t)
      PROVE  Work' /\ Kept' /\ InCtx'
  <2>1. PICK r : Ready(r) /\ GoesOn(s, r, TRUE)
    BY <1>7, ForkFits
  <2>2. Building /\ phase[s] = "idle"
    BY <1>7 DEF Fork
  <2> QED
    BY <1>1, <2>1, <2>2, QuietWorks, EditGood, InCtxStep DEF Ready
<1>8. ASSUME NEW s \in Slots, NEW n \in 0..MaxDraft, AddSampled(s, n) PROVE Work' /\ Kept' /\ InCtx'
  <2>1. boot' = boot /\ kv' = kv
    BY <1>8 DEF AddSampled
  <2> QED
    BY <1>1, <1>8, <2>1, AddingWorks, InCtxStep DEF Kept
<1>9. ASSUME NEW s \in Slots, NEW n \in 0..MaxDraft, Verify(s, n) PROVE Work' /\ Kept' /\ InCtx'
  BY <1>1, <1>9, VerifyWorks, EditGood, InCtxStep
<1>10. ASSUME NEW s \in Slots, NEW n \in 1..NBatch, NEW last \in BOOLEAN, AddPrompt(s, n, last)
       PROVE  Work' /\ Kept' /\ InCtx'
  <2>1. boot' = boot /\ kv' = kv
    BY <1>10 DEF AddPrompt
  <2> QED
    BY <1>1, <1>10, <2>1, AddingWorks, InCtxStep DEF Kept
<1>11. CASE TooMany
  BY <1>1, <1>11, RefuseWorks, CallGood, InCtxCall DEF TooMany
<1>12. CASE NoSwaRoom
  BY <1>1, <1>12, RefuseWorks, CallGood, InCtxCall DEF NoSwaRoom, Refuse
<1>13. CASE Decode
  BY <1>1, <1>13, CommitWorks, CallGood, InCtxCall DEF Decode
<1>14. CASE NoSelfRoom
  <2>1. Work'
    BY <1>1, <1>14, CommitWorks, RefuseWorks, Zenon DEF NoSelfRoom
  <2> QED
    BY <1>14, <2>1, CallGood, InCtxCall
<1> QED
  BY <1>2, <1>3, <1>4, <1>5, <1>6, <1>7, <1>8, <1>9, <1>10, <1>11, <1>12, <1>13, <1>14, Zenon DEF Next

LEMMA TypeInvariance == Spec => []IType
  BY InitType, StepType, PTL DEF Spec

LEMMA CacheType ==
    ASSUME NEW n \in Nat, NEW c, Good(n, c)
    PROVE  c.cells \in [Rows(c) -> Cell] /\ c.head \in 0..c.size /\ c.used \in 0..c.size
<1>1. Sound(n, c) /\ c \in Cache(n)
  BY DEF Good, Sound
<1> QED
  BY <1>1, Fields, UsedBound

\* Whatever the server does with its slots, batches and caches, every book,
\* draft and count stays in its range and every cell a cell.
THEOREM SlotCacheTypes == Spec => []TypeOK
<1>1. ASSUME IType PROVE TypeOK
  <2>1. boot.self \in Nat /\ boot.swa \in Nat /\ Good(boot.self, kv.self) /\ Good(boot.swa, kv.swa)
    BY <1>1, BootSizes DEF IType, Kept, PairGood
  <2>2. \A c \in {kv.self, kv.swa} :
          /\ c.cells \in [Rows(c) -> Cell] /\ c.head \in 0..c.size
          /\ c.used \in 0..c.size
    BY <2>1, CacheType
  <2> QED
    BY <1>1, <2>2, Zenon DEF IType, Work, WorkType, InCtx, TypeOK
<1> QED
  BY <1>1, TypeInvariance, PTL

-----------------------------------------------------------------------------
(* Edits of one slot, as sets of positions                                 *)

\* What a book of D tokens says of the positions H and W of the two caches:
\* nothing is held beyond it, the sliding cache holds nothing the main one does
\* not, and unless the book is torn it is held whole, and its window too.
SlotOk(H, W, D, whole, sliding) ==
    /\ H \subseteq 0..(D - 1)
    /\ W \subseteq H
    /\ whole => H = 0..(D - 1)
    /\ whole /\ sliding => Windowed(W, D)

LEMMA NothingOk == \A whole, sliding : SlotOk({}, {}, 0, whole, sliding)
<1>1. Windowed({}, 0)
  <2>1. 0 \in 0..0 /\ {} = 0..(0 - 1)
    OBVIOUS
  <2> QED
    BY <2>1 DEF Windowed
<1>2. {} = 0..(0 - 1)
  OBVIOUS
<1> QED
  BY <1>1, <1>2, Zenon DEF SlotOk

\* A removal from p on that leaves the window covered.
LEMMA CutWindowed ==
    ASSUME NEW D \in Nat, NEW W, Windowed(W, D), NEW p \in 0..D, NEW q \in Int, D <= q,
           Covers((0..(D - 1)) \ (p..(q - 1)), W \ (p..(q - 1)))
    PROVE  Windowed(W \ (p..(q - 1)), p)
<1>1. PICK a \in 0..D : W = a..(D - 1) /\ (a = 0 \/ a <= D - Window + 1)
  BY DEF Windowed
<1> DEFINE V == W \ (p..(q - 1))
           H == (0..(D - 1)) \ (p..(q - 1))
<1>2. V = a..(p - 1) /\ H = 0..(p - 1)
  BY <1>1
<1>3. Covers(H, V)
  OBVIOUS
<1> HIDE DEF V, H
<1>4. Window \in Nat \ {0}
  BY BoundsAssumption
<1>5. CASE V = {}
  <2>1. p = 0
    BY <1>2, <1>3, <1>5 DEF Covers
  <2>2. 0 \in 0..p /\ V = 0..(p - 1)
    BY <1>5, <2>1
  <2> QED
    BY <2>2 DEF Windowed, V
<1>6. CASE V # {}
  <2>1. p - 1 \in V /\ p \in Nat \ {0} /\ a <= p - 1
    BY <1>1, <1>2, <1>6
  <2>2. \A x \in 0..(p - 1) : x > (p - 1) - Window => x \in V
    BY <1>2, <1>3, <1>6, <2>1 DEF Covers
  <2>3. a = 0 \/ a <= p - Window + 1
    <3> DEFINE b == p - Window
    <3>1. CASE a > b + 1
      <4>1. a - 1 \in 0..(p - 1) \/ a = 0
        BY <1>1, <2>1
      <4>2. a - 1 \notin V
        BY <1>1, <1>2
      <4> QED
        BY <1>1, <1>4, <2>2, <3>1, <4>1, <4>2
    <3> QED
      BY <1>1, <1>4, <2>1, <3>1
  <2>4. a \in 0..p
    BY <1>1, <2>1
  <2> QED
    BY <1>2, <2>3, <2>4 DEF Windowed, V
<1> QED
  BY <1>5, <1>6

LEMMA CutOk ==
    ASSUME NEW D \in Nat, NEW H, NEW W, NEW whole \in BOOLEAN, NEW sliding \in BOOLEAN,
           SlotOk(H, W, D, whole, sliding), NEW p \in 0..D, NEW q \in Int, D <= q,
           sliding => Covers(H \ (p..(q - 1)), W \ (p..(q - 1)))
    PROVE  SlotOk(H \ (p..(q - 1)), W \ (p..(q - 1)), p, whole, sliding)
<1>1. H \ (p..(q - 1)) \subseteq 0..(p - 1) /\ W \ (p..(q - 1)) \subseteq H \ (p..(q - 1))
  BY DEF SlotOk
<1>2. ASSUME whole PROVE H \ (p..(q - 1)) = 0..(p - 1)
  BY <1>2 DEF SlotOk
<1>3. ASSUME whole, sliding PROVE Windowed(W \ (p..(q - 1)), p)
  <2>1. H = 0..(D - 1) /\ Windowed(W, D)
    BY <1>3 DEF SlotOk
  <2> QED
    BY <1>3, <2>1, CutWindowed
<1> QED
  BY <1>1, <1>2, <1>3 DEF SlotOk

\* The positions P without d of them after the first "keep", closed up.
Closed(P, keep, d) == {p \in P : p < keep} \cup {p - d : p \in {q \in P : q >= keep + d}}

LEMMA ClosedWhole ==
    ASSUME NEW D \in Nat, NEW keep \in Nat, NEW d \in Nat, keep + d <= D
    PROVE  Closed(0..(D - 1), keep, d) = 0..((D - d) - 1)
<1> DEFINE P == 0..(D - 1)
<1>1. ASSUME NEW x \in Closed(P, keep, d) PROVE x \in 0..((D - d) - 1)
  <2>1. CASE x \in P /\ x < keep
    BY <2>1
  <2>2. CASE \E q \in P : q >= keep + d /\ x = q - d
    BY <2>2
  <2> QED
    BY <1>1, <2>1, <2>2 DEF Closed
<1>2. ASSUME NEW x \in 0..((D - d) - 1) PROVE x \in Closed(P, keep, d)
  <2>1. CASE x < keep
    BY <2>1 DEF Closed
  <2>2. CASE x >= keep
    <3>1. x + d \in P /\ x + d >= keep + d /\ x = (x + d) - d
      BY <2>2
    <3> QED
      BY <3>1 DEF Closed
  <2> QED
    BY <2>1, <2>2
<1> QED
  BY <1>1, <1>2

\* The hole lies before the window of what is left, so the window stays whole.
LEMMA ClosedWindowed ==
    ASSUME NEW D \in Nat, NEW W, Windowed(W, D), NEW keep \in Nat, NEW d \in Nat \ {0},
           keep + d <= D,
           Covers((0..(D - 1)) \ (keep..(keep + d - 1)), W \ (keep..(keep + d - 1)))
    PROVE  Windowed(Closed(W, keep, d), D - d)
<1>1. PICK a \in 0..D : W = a..(D - 1) /\ (a = 0 \/ a <= D - Window + 1)
  BY DEF Windowed
<1>2. Window \in Nat \ {0}
  BY BoundsAssumption
<1> DEFINE G == keep..(keep + d - 1)
           V == W \ G
           H == (0..(D - 1)) \ G
<1>3. Covers(H, V)
  OBVIOUS
<1>4. CASE a = 0
  <2>1. Closed(W, keep, d) = 0..((D - d) - 1)
    BY <1>1, <1>4, ClosedWhole
  <2>2. 0 \in 0..(D - d) /\ 0 = 0
    OBVIOUS
  <2> QED
    BY <2>1, <2>2 DEF Windowed
<1>5. CASE a # 0 /\ keep + d = D
  <2>1. Closed(W, keep, d) = a..(keep - 1) /\ D - d = keep
    BY <1>1, <1>5 DEF Closed
  <2>2. CASE keep = 0
    <3>1. Closed(W, keep, d) = 0..((D - d) - 1)
      BY <1>1, <1>5, <2>1, <2>2
    <3> QED
      BY <2>1, <2>2, <3>1 DEF Windowed
  <2>3. CASE keep # 0
    <3>1. 0 \in H
      BY <2>3
    <3>2. V # {}
      BY <1>3, <3>1, Zenon DEF Covers
    <3>3. a <= keep - 1 /\ V = a..(keep - 1)
      BY <1>1, <1>5, <3>2
    <3>4. keep - 1 \in V /\ \A x \in V : x <= keep - 1
      BY <3>3
    <3> HIDE DEF V, H
    <3>5. \A x \in 0..(keep - 1) : x > (keep - 1) - Window => x \in V
      BY <1>3, <3>2, <3>4 DEF Covers
    <3>6. a - 1 \in 0..(keep - 1) /\ a - 1 \notin V
      BY <1>1, <1>5, <3>3
    <3>7. a <= keep - Window + 1
      BY <1>1, <1>2, <3>5, <3>6
    <3> QED
      BY <1>1, <2>1, <3>3, <3>7 DEF Windowed
  <2> QED
    BY <2>2, <2>3
<1>6. CASE a # 0 /\ keep + d < D
  <2>1. D - 1 \in H
    BY <1>6
  <2>2. V # {}
    BY <1>3, <2>1, Zenon DEF Covers
  <2>3. D - 1 \in V /\ \A x \in V : x <= D - 1
    BY <1>1, <1>6, <2>2
  <2>4. \A x \in 0..(D - 1) : x > (D - 1) - Window => x \in V
    <3> DEFINE t == D - 1
    <3>1. t \in V /\ \A x \in V : x <= t
      BY <2>3
    <3> HIDE DEF t, V, H
    <3>2. \A x \in 0..t : x > t - Window => x \in V
      BY <1>3, <2>2, <3>1 DEF Covers
    <3> QED
      BY <3>2 DEF t
  <2>5. keep + d <= D - Window
    <3>1. keep + d - 1 \notin V /\ keep + d - 1 \in 0..(D - 1)
      BY <1>6
    <3> HIDE DEF V
    <3> QED
      BY <1>2, <2>4, <3>1
  <2>6. a <= D - Window + 1
    BY <1>1, <1>6
  <2> DEFINE b == IF a >= keep + d THEN a - d ELSE IF a >= keep THEN keep ELSE a
  <2>7. b \in 0..(D - d) /\ b <= (D - d) - Window + 1
    BY <1>1, <1>2, <1>6, <2>5, <2>6
  <2>8. Closed(W, keep, d) = b..((D - d) - 1)
    <3>1. ASSUME NEW x \in Closed(W, keep, d) PROVE x \in b..((D - d) - 1)
      <4>1. CASE x \in W /\ x < keep
        BY <1>1, <1>6, <4>1
      <4>2. CASE \E q \in W : q >= keep + d /\ x = q - d
        BY <1>1, <1>6, <4>2
      <4> QED
        BY <3>1, <4>1, <4>2 DEF Closed
    <3>2. ASSUME NEW x \in b..((D - d) - 1) PROVE x \in Closed(W, keep, d)
      <4>1. CASE x < keep
        <5>1. x \in W
          BY <1>1, <1>6, <4>1
        <5> QED
          BY <4>1, <5>1 DEF Closed
      <4>2. CASE ~(x < keep)
        <5>1. x + d \in W /\ x + d >= keep + d /\ x = (x + d) - d
          BY <1>1, <2>7, <4>2
        <5> QED
          BY <5>1 DEF Closed
      <4> QED
        BY <4>1, <4>2
    <3> QED
      BY <3>1, <3>2
  <2> HIDE DEF b
  <2> QED
    BY <2>7, <2>8 DEF Windowed
<1> QED
  BY <1>4, <1>5, <1>6

LEMMA ClosedIn ==
    ASSUME NEW H, NEW W, W \subseteq H, NEW keep, NEW d
    PROVE  Closed(W, keep, d) \subseteq Closed(H, keep, d)
  BY DEF Closed

LEMMA CloseOk ==
    ASSUME NEW D \in Nat, NEW H, NEW W, NEW whole \in BOOLEAN, NEW sliding \in BOOLEAN,
           SlotOk(H, W, D, whole, sliding), NEW keep \in Nat, NEW d \in Nat \ {0}, keep + d <= D,
           NEW G, G = keep..(keep + d - 1), sliding => Covers(H \ G, W \ G)
    PROVE  SlotOk(Closed(H, keep, d), Closed(W, keep, d), D - d, whole, sliding)
<1>1. /\ Closed(H, keep, d) \subseteq Closed(0..(D - 1), keep, d)
      /\ Closed(W, keep, d) \subseteq Closed(H, keep, d)
  BY ClosedIn DEF SlotOk
<1>2. Closed(0..(D - 1), keep, d) = 0..((D - d) - 1)
  BY ClosedWhole
<1>3. ASSUME whole PROVE Closed(H, keep, d) = 0..((D - d) - 1)
  BY <1>2, <1>3 DEF SlotOk
<1>4. ASSUME whole, sliding PROVE Windowed(Closed(W, keep, d), D - d)
  <2>1. H = 0..(D - 1) /\ Windowed(W, D)
    BY <1>4 DEF SlotOk
  <2> QED
    BY <1>4, <2>1, ClosedWindowed
<1> QED
  BY <1>1, <1>2, <1>3, <1>4 DEF SlotOk

\* A ubatch that follows the book.
LEMMA ExtendOk ==
    ASSUME NEW D \in Nat, NEW H, NEW W, NEW whole \in BOOLEAN, NEW sliding \in BOOLEAN,
           SlotOk(H, W, D, whole, sliding), NEW T \in Nat
    PROVE  LET B == D..(D + T - 1)
           IN  /\ SlotOk(H \cup B, W \cup B, D + T, whole, sliding)
               /\ ~sliding => SlotOk(H \cup B, {}, D + T, whole, sliding)
<1> DEFINE B == D..(D + T - 1)
<1>1. /\ H \cup B \subseteq 0..((D + T) - 1) /\ W \cup B \subseteq H \cup B
      /\ whole => H \cup B = 0..((D + T) - 1)
  BY DEF SlotOk
<1>2. ASSUME whole, sliding PROVE Windowed(W \cup B, D + T)
  <2>1. PICK a \in 0..D : W = a..(D - 1) /\ (a = 0 \/ a <= D - Window + 1)
    BY <1>2 DEF SlotOk, Windowed
  <2>2. W \cup B = a..((D + T) - 1) /\ a \in 0..(D + T)
    BY <2>1
  <2>3. a = 0 \/ a <= (D + T) - Window + 1
    BY <2>1, BoundsAssumption
  <2> QED
    BY <2>2, <2>3 DEF Windowed
<1> QED
  BY <1>1, <1>2 DEF SlotOk

-----------------------------------------------------------------------------
(* The books and the cells                                                 *)

\* Every slot's book is right about both caches, no sequence has two cells for
\* a position, and where nothing forks, or a window slides, no cell is shared.
Unshared == ~boot.fork \/ boot.swa > 0
Hold ==
    /\ \A s \in Slots : SlotOk(PositionsOf(kv.self, s), PositionsOf(kv.swa, s),
                               Decoded(s), s \notin torn, boot.swa > 0)
    /\ Tidy(kv)
    /\ Unshared => Lone(kv)

\* The levers of this run do not let a shared cell be shifted.
Apart == boot.shift => Unshared

IInv == IType /\ Hold /\ Apart

\* What a step does to the positions of the main cache.
HeldSame == \A t \in Slots : PositionsOf(kv'.self, t) = PositionsOf(kv.self, t)
HeldBut(s) == \A t \in Slots \ {s} : PositionsOf(kv'.self, t) = PositionsOf(kv.self, t)
ClosedBelow(s, I) ==
    \E keep, p \in 0..End : \E d \in 0..(End - keep) :
        I = {q \in Closed(PositionsOf(kv.self, s), keep, d) : q < p}
HeldClosed(s) == HeldBut(s) /\ ClosedBelow(s, PositionsOf(kv'.self, s))
HeldTake(s, t, p) ==
    /\ HeldBut(s) /\ 0..(p - 1) \subseteq PositionsOf(kv.self, t)
    /\ PositionsOf(kv'.self, s) = 0..(p - 1)
HeldExtend ==
    \A s \in Slots :
       /\ PositionsOf(kv.self, s) \subseteq PositionsOf(kv'.self, s)
       /\ \A p \in PositionsOf(kv'.self, s) \ PositionsOf(kv.self, s),
             q \in PositionsOf(kv.self, s) : q < p
HeldStep ==
    \/ HeldSame
    \/ HeldExtend
    \/ \E s \in Slots : HeldClosed(s)
    \/ \E s, t \in Slots, p \in Positions : HeldTake(s, t, p)

\* The facts of a state that every step starts from.
LEMMA HoldFacts ==
    ASSUME IInv
    PROVE  /\ Work /\ boot.self \in Nat /\ boot.swa \in Nat
           /\ PairGood(kv, boot.self, boot.swa)
           /\ \A s \in Slots :
                 /\ s \in Seqs /\ Decoded(s) \in Nat
                 /\ SlotOk(PositionsOf(kv.self, s), PositionsOf(kv.swa, s),
                           Decoded(s), s \notin torn, boot.swa > 0)
                 /\ PositionsOf(kv.self, s) \subseteq Positions
                 /\ PositionsOf(kv.swa, s) \subseteq Positions
           /\ Tidy(kv)
           /\ Unshared => Lone(kv)
<1>1. Work /\ Kept /\ Hold
  BY DEF IInv, IType
<1>2. boot.self \in Nat /\ boot.swa \in Nat /\ PairGood(kv, boot.self, boot.swa)
  BY <1>1, BootSizes DEF Kept
<1>3. \A s \in Slots : s \in Seqs /\ Decoded(s) \in Nat
  BY <1>1, SlotWork DEF Slots
<1>4. Sound(boot.self, kv.self) /\ Sound(boot.swa, kv.swa)
  BY <1>2 DEF PairGood, Good
<1>5. \A s \in Slots : /\ PositionsOf(kv.self, s) \subseteq Positions
                       /\ PositionsOf(kv.swa, s) \subseteq Positions
  BY <1>2, <1>4, HoldsIs
<1> QED
  BY <1>1, <1>2, <1>3, <1>5 DEF Hold

\* The edits of one slot between two ubatches.
LEMMA OneSlotHolds ==
    ASSUME IInv, NEW s \in Slots, NEW b \in Nat, Pending(s) = 0,
           pend' = pend, boot' = boot, book' = [book EXCEPT ![s] = b],
           \A t \in Slots \ {s} : t \in torn' <=> t \in torn,
           NEW H, NEW W, H = PositionsOf(kv'.self, s), W = PositionsOf(kv'.swa, s),
           \A t \in Slots \ {s} : /\ PositionsOf(kv'.self, t) = PositionsOf(kv.self, t)
                                  /\ PositionsOf(kv'.swa, t) = PositionsOf(kv.swa, t),
           SlotOk(H, W, b, s \notin torn', boot.swa > 0),
           Tidy(kv'), Unshared => Lone(kv')
    PROVE  Hold'
<1>1. Work /\ \A t \in Slots : SlotOk(PositionsOf(kv.self, t), PositionsOf(kv.swa, t),
                                      Decoded(t), t \notin torn, boot.swa > 0)
  BY HoldFacts
<1>2. \A t \in Slots : Pending(t)' = Pending(t)
  BY PendingIs, PendingNext
<1>3. book \in [Slots -> 0..End]
  BY <1>1 DEF Work, WorkType
<1>4. ASSUME NEW t \in Slots
      PROVE  Decoded(t)' = IF t = s THEN b ELSE Decoded(t)
  <2>1. book'[t] = IF t = s THEN b ELSE book[t]
    BY <1>3
  <2> QED
    BY <1>2, <2>1 DEF Decoded
<1>5. ASSUME NEW t \in Slots
      PROVE  SlotOk(PositionsOf(kv'.self, t), PositionsOf(kv'.swa, t), Decoded(t)',
                    t \notin torn', boot.swa > 0)
  <2>1. CASE t = s
    BY <1>4, <2>1
  <2>2. CASE t # s
    <3>1. (t \notin torn') = (t \notin torn)
      BY <2>2
    <3> QED
      BY <1>1, <1>4, <2>2, <3>1
  <2> QED
    BY <2>1, <2>2
<1>6. Unshared' = Unshared
  BY DEF Unshared
<1> QED
  BY <1>5, <1>6 DEF Hold

\* Slot s is left with the caches k, a book of b tokens, torn or not: what an
\* edit of it comes to, in one step or in several.
Edited(s, k, b, gone) ==
    /\ PairGood(k, boot.self, boot.swa) /\ Tidy(k) /\ (Unshared => Lone(k))
    /\ \A t \in Seqs \ {s} : /\ PositionsOf(k.self, t) = PositionsOf(kv.self, t)
                             /\ PositionsOf(k.swa, t) = PositionsOf(kv.swa, t)
    /\ b \in 0..End
    /\ SlotOk(PositionsOf(k.self, s), PositionsOf(k.swa, s), b, ~gone, boot.swa > 0)
    /\ ClosedBelow(s, PositionsOf(k.self, s))

LEMMA EditHolds ==
    ASSUME IInv, NEW s \in Slots, NEW k, NEW b, NEW gone \in BOOLEAN, Edited(s, k, b, gone),
           Pending(s) = 0, pend' = pend, boot' = boot, kv' = k, book' = [book EXCEPT ![s] = b],
           \A t \in Slots \ {s} : t \in torn' <=> t \in torn, gone => s \in torn'
    PROVE  Hold' /\ HeldStep
<1>1. /\ b \in Nat /\ Tidy(kv') /\ (Unshared => Lone(kv'))
      /\ \A t \in Slots \ {s} : /\ PositionsOf(kv'.self, t) = PositionsOf(kv.self, t)
                                /\ PositionsOf(kv'.swa, t) = PositionsOf(kv.swa, t)
      /\ SlotOk(PositionsOf(kv'.self, s), PositionsOf(kv'.swa, s), b, ~gone, boot.swa > 0)
      /\ ClosedBelow(s, PositionsOf(kv'.self, s))
  BY Sizes DEF Edited, Slots
<1>2. SlotOk(PositionsOf(kv'.self, s), PositionsOf(kv'.swa, s), b, s \notin torn', boot.swa > 0)
  BY <1>1 DEF SlotOk
<1>3. Hold'
  BY <1>1, <1>2, OneSlotHolds
<1>4. HeldClosed(s)
  BY <1>1 DEF HeldClosed, HeldBut
<1> QED
  BY <1>3, <1>4 DEF HeldStep

\* The slot as it is.
LEMMA Untouched ==
    ASSUME IInv, NEW s \in Slots, Pending(s) = 0
    PROVE  Edited(s, kv, book[s], s \in torn)
<1> DEFINE H == PositionsOf(kv.self, s)
<1>1. /\ Work /\ PairGood(kv, boot.self, boot.swa) /\ Tidy(kv) /\ (Unshared => Lone(kv))
      /\ SlotOk(H, PositionsOf(kv.swa, s), Decoded(s), s \notin torn, boot.swa > 0)
      /\ H \subseteq Positions
  BY HoldFacts
<1>2. /\ Decoded(s) = book[s] - Pending(s) /\ book[s] \in Nat /\ book[s] <= End /\ End \in Nat
  BY <1>1, SlotWork, Sizes
<1>3. Decoded(s) = book[s] /\ book[s] \in 0..End
  BY <1>2
<1>4. ClosedBelow(s, H)
  <2>1. \A q \in H : q \in Nat /\ q < End /\ q - 0 = q
    BY <1>1, BoundsAssumption DEF Positions, End
  <2>2. H = {q \in Closed(H, 0, 0) : q < End}
    BY <2>1 DEF Closed
  <2>3. 0 \in 0..End /\ End \in 0..End /\ 0 \in 0..(End - 0)
    BY <1>2
  <2> QED
    BY <2>2, <2>3, Zenon DEF ClosedBelow
<1> QED
  BY <1>1, <1>3, <1>4 DEF Edited

\* Torn, a book may say more than is held; empty, it cannot be wrong.
LEMMA EditedLooser ==
    ASSUME IInv, NEW s \in Slots, NEW k, NEW b, NEW gone \in BOOLEAN, Edited(s, k, b, gone)
    PROVE  /\ \A c \in b..End : Edited(s, k, c, TRUE)
           /\ b = 0 => Edited(s, k, 0, FALSE)
<1> DEFINE H == PositionsOf(k.self, s)
           W == PositionsOf(k.swa, s)
<1>1. b \in 0..End /\ End \in Nat /\ SlotOk(H, W, b, ~gone, boot.swa > 0)
  BY Sizes DEF Edited
<1>2. ASSUME NEW c \in b..End PROVE SlotOk(H, W, c, ~TRUE, boot.swa > 0) /\ c \in 0..End
  BY <1>1 DEF SlotOk
<1>3. ASSUME b = 0 PROVE SlotOk(H, W, 0, ~FALSE, boot.swa > 0)
  <2>1. H = {} /\ W = {}
    BY <1>1, <1>3 DEF SlotOk
  <2> HIDE DEF H, W
  <2> QED
    BY <2>1, NothingOk
<1> QED
  BY <1>2, <1>3, <1>1 DEF Edited

\* What is left of that below p.
LEMMA CutBelow ==
    ASSUME IInv, NEW s \in Slots, NEW I, ClosedBelow(s, I), NEW p \in 0..End
    PROVE  ClosedBelow(s, {q \in I : q < p})
<1>1. PICK keep \in 0..End, p0 \in 0..End : \E d \in 0..(End - keep) :
         I = {q \in Closed(PositionsOf(kv.self, s), keep, d) : q < p0}
  BY DEF ClosedBelow
<1>2. PICK d \in 0..(End - keep) : I = {q \in Closed(PositionsOf(kv.self, s), keep, d) : q < p0}
  BY <1>1
<1> DEFINE C == Closed(PositionsOf(kv.self, s), keep, d)
<1>3. End \in Nat
  BY Sizes
<1>4. \A q \in C : q \in Int
  <2>1. \A q \in PositionsOf(kv.self, s) : q \in Int
    BY HoldFacts DEF Positions
  <2> QED
    BY <1>3, <2>1 DEF Closed
<1>5. CASE p0 <= p
  <2>1. {q \in I : q < p} = I
    <3> HIDE DEF C
    <3> QED
      BY <1>2, <1>3, <1>4, <1>5 DEF C
  <2> QED
    BY <2>1
<1>6. CASE ~(p0 <= p)
  <2>1. {q \in I : q < p} = {q \in C : q < p}
    <3>1. I = {q \in C : q < p0}
      BY <1>2
    <3> HIDE DEF C
    <3> QED
      BY <1>3, <1>4, <1>6, <3>1
  <2> QED
    BY <1>2, <2>1, Zenon DEF ClosedBelow
<1> QED
  BY <1>5, <1>6

LEMMA NothingClosed ==
    ASSUME IInv, NEW s \in Slots
    PROVE  ClosedBelow(s, {})
<1>1. 0 \in 0..End /\ 0 \in 0..(End - 0)
  BY Sizes
<1>2. {q \in Closed(PositionsOf(kv.self, s), 0, 0) : q < 0} = {}
  <2>1. \A q \in PositionsOf(kv.self, s) : q \in Nat
    BY HoldFacts, BoundsAssumption DEF Positions
  <2> QED
    BY <2>1 DEF Closed
<1> QED
  BY <1>1, <1>2 DEF ClosedBelow

\* What of a trimmed slot is left: the positions below p.
LEMMA BelowIs ==
    ASSUME NEW H, NEW D \in Nat, H \subseteq 0..(D - 1), D <= End, NEW p \in Nat
    PROVE  /\ H \ (p..(End - 1)) = {q \in H : q < p}
           /\ H \ Positions = {}
<1>1. \A q \in H : q \in Nat /\ q <= End - 1 /\ q \in Positions
  BY Sizes DEF Positions, End
<1>2. \A q \in H : q \in p..(End - 1) <=> ~(q < p)
  BY <1>1, Sizes
<1> QED
  BY <1>1, <1>2

\* A removal of everything from p on, granted or refused.
LEMMA RmEdited ==
    ASSUME IInv, NEW s \in Slots, NEW k, NEW b, NEW gone \in BOOLEAN, Edited(s, k, b, gone),
           NEW p \in 0..b
    PROVE  LET r == CtxSeqRm(k, s, p, End)
           IN  /\ Refused(k, s, p, End) => Edited(s, r, 0, FALSE)
               /\ ~Refused(k, s, p, End) =>
                     /\ Edited(s, r, p, gone)
                     /\ PositionsOf(r.self, s) = {q \in PositionsOf(k.self, s) : q < p}
<1> DEFINE H == PositionsOf(k.self, s)
           W == PositionsOf(k.swa, s)
           m == boot.self
           n == boot.swa
           r == CtxSeqRm(k, s, p, End)
           refused == Refused(k, s, p, End)
           lost == IF refused THEN Positions ELSE p..(End - 1)
<1>1. /\ m \in Nat /\ n \in Nat /\ s \in Seqs
  BY HoldFacts
<1>2. /\ PairGood(k, m, n) /\ Tidy(k) /\ (Unshared => Lone(k))
      /\ \A t \in Seqs \ {s} : /\ PositionsOf(k.self, t) = PositionsOf(kv.self, t)
                               /\ PositionsOf(k.swa, t) = PositionsOf(kv.swa, t)
      /\ b \in 0..End /\ SlotOk(H, W, b, ~gone, n > 0) /\ ClosedBelow(s, H)
  BY DEF Edited
<1>3. b \in Nat /\ p \in Nat /\ p <= b /\ b <= End /\ p \in 0..End /\ End \in 0..End /\ End \in Nat
      /\ 0 \in 0..End
  BY <1>2, Sizes
<1>4. H \subseteq 0..(b - 1) /\ W \subseteq 0..(b - 1)
  BY <1>2 DEF SlotOk
<1>5. /\ PairGood(r, m, n)
      /\ refused => Trims(k, r, s, Positions)
      /\ ~refused =>
            /\ Trims(k, r, s, p..(End - 1))
            /\ n > 0 => Covers(PositionsOf(r.self, s), PositionsOf(r.swa, s))
  BY <1>1, <1>2, <1>3, CtxRmIs
<1>6. Trims(k, r, s, lost)
  BY <1>5
<1> HIDE DEF lost, refused, r, m, n
<1>7. /\ Tidy(r) /\ (Unshared => Lone(r))
      /\ \A t \in Seqs \ {s} : /\ PositionsOf(r.self, t) = PositionsOf(kv.self, t)
                               /\ PositionsOf(r.swa, t) = PositionsOf(kv.swa, t)
      /\ PositionsOf(r.self, s) = H \ lost
      /\ PositionsOf(r.swa, s) = W \ lost
  BY <1>1, <1>2, <1>6, TrimsIs
<1>8. H \ (p..(End - 1)) = {q \in H : q < p} /\ H \ Positions = {} /\ W \ Positions = {}
  BY <1>3, <1>4, BelowIs
<1>9. CASE refused
  <2>1. PositionsOf(r.self, s) = {} /\ PositionsOf(r.swa, s) = {}
    BY <1>7, <1>8, <1>9 DEF lost
  <2>2. SlotOk({}, {}, 0, ~FALSE, n > 0) /\ ClosedBelow(s, {})
    BY NothingOk, NothingClosed
  <2>3. Edited(s, r, 0, FALSE)
    BY <1>3, <1>5, <1>7, <2>1, <2>2 DEF Edited, m, n
  <2> QED
    BY <1>9, <2>3 DEF refused, r
<1>10. CASE ~refused
  <2>1. lost = p..(End - 1)
    BY <1>10 DEF lost
  <2>2. n > 0 => Covers(H \ lost, W \ lost)
    BY <1>5, <1>7, <1>10
  <2>3. SlotOk(H \ lost, W \ lost, p, ~gone, n > 0)
    <3> DEFINE whole == ~gone
               sliding == n > 0
    <3>1. whole \in BOOLEAN /\ sliding \in BOOLEAN
      OBVIOUS
    <3>2. SlotOk(H, W, b, whole, sliding) /\ b \in Nat /\ p \in 0..b /\ End \in Int /\ b <= End
      BY <1>2, <1>3
    <3>3. sliding => Covers(H \ (p..(End - 1)), W \ (p..(End - 1)))
      BY <2>1, <2>2
    <3> HIDE DEF whole, sliding, H, W
    <3>4. SlotOk(H \ (p..(End - 1)), W \ (p..(End - 1)), p, whole, sliding)
      BY <3>1, <3>2, <3>3, CutOk
    <3> QED
      BY <2>1, <3>4 DEF whole, sliding
  <2>4. PositionsOf(r.self, s) = {q \in H : q < p}
    BY <1>7, <1>8, <2>1
  <2>5. ClosedBelow(s, PositionsOf(r.self, s))
    BY <1>2, <1>3, <2>4, CutBelow
  <2>6. Edited(s, r, p, gone)
    <3> HIDE DEF H, W
    <3>1. SlotOk(PositionsOf(r.self, s), PositionsOf(r.swa, s), p, ~gone, n > 0)
      BY <1>7, <2>3
    <3> QED
      BY <1>3, <1>5, <1>7, <2>5, <3>1 DEF Edited, m, n
  <2> QED
    BY <1>10, <2>4, <2>6 DEF refused, r
<1> QED
  BY <1>9, <1>10

LEMMA EraseHolds ==
    ASSUME IInv, NEW s \in Slots, Erase(s)
    PROVE  Hold' /\ HeldStep
<1>1. /\ phase[s] = "idle" /\ kv' = CtxSeqRm(kv, s, 0, End) /\ pend' = pend /\ boot' = boot
      /\ book' = [book EXCEPT ![s] = 0] /\ torn' = torn \ {s}
  BY DEF Erase, batchVars
<1>2. Pending(s) = 0 /\ book[s] \in Nat
  BY <1>1, HoldFacts, SlotWork
<1>3. Edited(s, kv, book[s], s \in torn)
  BY <1>2, Untouched
<1>4. 0 \in 0..book[s] /\ (s \in torn) \in BOOLEAN
  BY <1>2
<1>5. Edited(s, kv', 0, FALSE) \/ Edited(s, kv', 0, s \in torn)
  BY <1>1, <1>3, <1>4, RmEdited
<1>6. Edited(s, kv', 0, FALSE)
  BY <1>4, <1>5, EditedLooser
<1>7. \A t \in Slots \ {s} : t \in torn' <=> t \in torn
  BY <1>1
<1> QED
  BY <1>1, <1>2, <1>6, <1>7, EditHolds

\* The cells of a slot that are all below p.
LEMMA AllBelow ==
    ASSUME NEW n \in Nat, NEW c, Sound(n, c), NEW s, NEW p \in Nat, Max({0, PosMax(c, s)}) < p
    PROVE  p > 0 /\ \A q \in PositionsOf(c, s) : q < p
<1>1. /\ PosMax(c, s) \in Int /\ PositionsOf(c, s) \subseteq Positions
      /\ \A q \in PositionsOf(c, s) : q <= PosMax(c, s)
  BY PosMaxIs, HoldsIs
<1>2. \A q \in PositionsOf(c, s) : q \in Int
  BY <1>1, BoundsAssumption DEF Positions
<1>3. PosMax(c, s) < p /\ 0 < p
  BY <1>1, GreaterOfZero
<1> QED
  BY <1>1, <1>2, <1>3

LEMMA TrimEdited ==
    ASSUME IInv, NEW s \in Slots, NEW o, o.torn \in BOOLEAN, Edited(s, o.kv, o.book, o.torn),
           NEW p \in 0..o.book
    PROVE  LET r == Trim(o, s, p)
           IN  r.torn \in BOOLEAN /\ Edited(s, r.kv, r.book, r.torn)
<1> DEFINE skip == Max({0, PosMax(o.kv.self, s)}) < p
           refused == Refused(o.kv, s, p, End)
           k == CtxSeqRm(o.kv, s, p, End)
           r == Trim(o, s, p)
           g == o.torn
           H == PositionsOf(o.kv.self, s)
           W == PositionsOf(o.kv.swa, s)
<1>1. /\ PairGood(o.kv, boot.self, boot.swa) /\ boot.self \in Nat
      /\ o.book \in 0..End /\ SlotOk(H, W, o.book, ~g, boot.swa > 0)
  BY HoldFacts DEF Edited
<1>2. o.book \in Nat /\ p \in Nat /\ p <= o.book /\ End \in Nat /\ p \in 0..End /\ 0 \in 0..0
      /\ o.book <= End /\ g \in BOOLEAN
  BY <1>1, Sizes
<1>3. CASE skip
  <2>1. r.kv = o.kv /\ r.book = p
    BY <1>3 DEF Trim
  <2>2. p > 0 /\ \A q \in H : q < p
    <3>1. Sound(boot.self, o.kv.self)
      BY <1>1 DEF PairGood, Good
    <3> QED
      BY <1>1, <1>2, <1>3, <3>1, AllBelow
  <2>3. r.torn = g
    BY <1>2, <1>3, <2>2 DEF Trim
  <2>4. SlotOk(H, W, p, ~g, boot.swa > 0)
    <3>1. H \subseteq 0..(p - 1) /\ W \subseteq H
      <4>1. H \subseteq 0..(o.book - 1) /\ W \subseteq H
        BY <1>1 DEF SlotOk
      <4> QED
        BY <1>2, <2>2, <4>1
    <3>2. CASE ~g
      <4>1. H = 0..(o.book - 1)
        BY <1>1, <3>2 DEF SlotOk
      <4>2. p = o.book
        <5> DEFINE b == o.book
        <5>1. b \in Nat /\ p \in Nat /\ p <= b /\ p > 0 /\ H = 0..(b - 1) /\ \A q \in H : q < p
          BY <1>2, <2>2, <4>1
        <5> HIDE DEF b, H
        <5>2. b - 1 \in H
          BY <5>1
        <5> QED
          BY <5>1, <5>2 DEF b
      <4> QED
        BY <1>1, <4>2
    <3>3. CASE g
      BY <3>1, <3>3 DEF SlotOk
    <3> QED
      BY <3>2, <3>3
  <2> HIDE DEF r, g
  <2>5. Edited(s, o.kv, p, g)
    BY <1>2, <2>4 DEF Edited, g
  <2> QED
    BY <1>2, <2>1, <2>3, <2>5 DEF r
<1>4. CASE ~skip /\ refused
  <2>1. r.kv = CtxSeqRm(k, s, 0, End) /\ r.book = 0 /\ r.torn = FALSE
    BY <1>4 DEF Trim
  <2>2. Edited(s, k, 0, FALSE)
    BY <1>4, RmEdited
  <2> HIDE DEF k
  <2>3. Edited(s, CtxSeqRm(k, s, 0, End), 0, FALSE)
    BY <1>2, <2>2, RmEdited
  <2> HIDE DEF r
  <2> QED
    BY <2>1, <2>3 DEF r
<1>5. CASE ~skip /\ ~refused
  <2>1. r.kv = k /\ r.book = p /\ r.torn = (g /\ p > 0)
    BY <1>5 DEF Trim
  <2>2. Edited(s, k, p, g)
    BY <1>5, RmEdited
  <2>3. Edited(s, k, p, g /\ p > 0)
    <3>1. CASE p = 0
      <4>1. Edited(s, k, 0, FALSE)
        BY <1>2, <2>2, <3>1, EditedLooser
      <4>2. (g /\ p > 0) = FALSE
        BY <3>1
      <4> HIDE DEF k, g
      <4> QED
        BY <3>1, <4>1, <4>2, Zenon
    <3>2. CASE p > 0
      <4>1. (g /\ p > 0) = g
        BY <1>2, <3>2
      <4> HIDE DEF k, g
      <4> QED
        BY <2>2, <4>1, Zenon
    <3> QED
      BY <1>2, <3>1, <3>2
  <2>4. (g /\ p > 0) \in BOOLEAN
    OBVIOUS
  <2> HIDE DEF k, r, g
  <2> QED
    BY <2>1, <2>3, <2>4 DEF r
<1> QED
  BY <1>3, <1>4, <1>5

\* The drafts that were not accepted go.
LEMMA VerifyHolds ==
    ASSUME IInv, NEW s \in Slots, NEW n \in 0..MaxDraft, Verify(s, n)
    PROVE  Hold' /\ HeldStep
<1> DEFINE p == book[s] - draft[s] + n
           refused == Refused(kv, s, p, End)
<1>1. /\ s \in Unverified /\ n <= draft[s] /\ pend' = pend /\ boot' = boot
      /\ kv' = CtxSeqRm(kv, s, p, End) /\ book' = [book EXCEPT ![s] = p]
      /\ torn' = IF refused THEN torn \cup {s} ELSE torn
  BY DEF Verify
<1>2. /\ Pending(s) = 0 /\ p \in 0..book[s] /\ p \in 0..End /\ book[s] <= End
  <2>1. /\ Pending(s) = 0 /\ book[s] \in Nat /\ book[s] <= End
        /\ draft[s] \in Nat /\ draft[s] <= book[s] /\ n \in Nat /\ End \in Nat
    BY <1>1, HoldFacts, Sizes, SlotWork DEF Unverified
  <2> QED
    BY <1>1, <2>1
<1> HIDE DEF p
<1>3. Edited(s, kv, book[s], s \in torn) /\ (s \in torn) \in BOOLEAN
  BY <1>2, Untouched
<1>4. /\ refused => Edited(s, kv', 0, FALSE)
      /\ ~refused => Edited(s, kv', p, s \in torn)
  <2> DEFINE g == s \in torn
             b == book[s]
             r == CtxSeqRm(kv, s, p, End)
  <2>1. g \in BOOLEAN /\ Edited(s, kv, b, g) /\ p \in 0..b
    BY <1>2, <1>3
  <2> HIDE DEF g, b
  <2>2. /\ Refused(kv, s, p, End) => Edited(s, r, 0, FALSE)
        /\ ~Refused(kv, s, p, End) => Edited(s, r, p, g)
    BY <2>1, RmEdited
  <2>3. kv' = r
    BY <1>1
  <2> HIDE DEF r
  <2> QED
    BY <2>2, <2>3, Zenon DEF g
<1>5. \A t \in Slots \ {s} : t \in torn' <=> t \in torn
  BY <1>1
<1>6. CASE refused
  <2>1. Edited(s, kv', p, TRUE)
    BY <1>2, <1>4, <1>6, EditedLooser
  <2>2. s \in torn'
    BY <1>1, <1>6
  <2> QED
    BY <1>1, <1>2, <1>5, <2>1, <2>2, EditHolds
<1>7. CASE ~refused
  <2>1. s \in torn => s \in torn'
    BY <1>1, <1>7
  <2> QED
    BY <1>1, <1>2, <1>3, <1>4, <1>5, <1>7, <2>1, EditHolds
<1> QED
  BY <1>6, <1>7

LEMMA MovedAlike ==
    ASSUME NEW c, NEW d, NEW e, NEW s \in Seqs, NEW a, NEW k,
           MovedDown(c, d, s, a, k), SameRows(d, e)
    PROVE  MovedDown(c, e, s, a, k)
<1>1. /\ \A t \in Seqs : PositionsOf(e, t) = PositionsOf(d, t) /\ (OneRowEach(d, t) => OneRowEach(e, t))
      /\ Alone(d) => Alone(e)
  BY RowsHeld DEF SameHeld
<1> QED
  BY <1>1 DEF MovedDown

\* The same for the pair.
LEMMA CtxAddSlides ==
    ASSUME NEW m \in Nat, NEW n \in Nat, NEW k, PairGood(k, m, n), Lone(k), NEW s \in Seqs,
           NEW a \in 0..End, NEW d \in 1..a, NEW p1 \in Int,
           \A p \in PositionsOf(k.self, s) : p < p1,
           \A p \in PositionsOf(k.swa, s) : p < p1
    PROVE  LET r == CtxSeqAdd(k, s, a, p1, -d)
           IN  MovedDown(k.self, r.self, s, a, d) /\ MovedDown(k.swa, r.swa, s, a, d)
<1> DEFINE x == SeqAdd(k.self, s, a, p1, -d)
           y == SeqAdd(k.swa, s, a, p1, -d)
           r == CtxSeqAdd(k, s, a, p1, -d)
<1>1. Good(m, k.self) /\ Good(n, k.swa) /\ Alone(k.self) /\ Alone(k.swa)
  BY DEF PairGood, Lone
<1>2. Sound(m, k.self) /\ Sound(n, k.swa) /\ a \in 0..End /\ a \in Nat /\ d \in Nat /\ -d \in Int
  BY <1>1, Sizes DEF Good
<1>3. ASSUME NEW c, NEW z \in Nat, Sound(z, c)
      PROVE  Good(z, SeqAdd(c, s, a, p1, -d))
  <2>1. c \in Cache(z)
    BY <1>3 DEF Sound
  <2>2. \A i \in InRange(c, s, a, p1) : c.cells[i].pos \in Positions
    BY <1>2, <2>1, InRangeRows
  <2>3. \A i \in InRange(c, s, a, p1) : c.cells[i].pos + (-d) <= MaxPos
    BY <2>2, BoundsAssumption DEF Positions
  <2> QED
    BY <1>2, <1>3, <2>3, AddGood
<1>4. Good(m, x) /\ Good(n, y)
  BY <1>2, <1>3
<1>5. MovedDown(k.self, x, s, a, d) /\ MovedDown(k.swa, y, s, a, d)
  BY <1>1, <1>2, AddSlides
<1> HIDE DEF x, y
<1>6. r = Both(k, x, y)
  BY DEF CtxSeqAdd, x, y
<1>7. SameRows(x, r.self) /\ SameRows(y, r.swa)
  BY <1>4, <1>6, BothIs
<1> QED
  BY <1>5, <1>7, MovedAlike

\* What a shift makes of the positions of the slot and of the others.
LEMMA ShiftCells ==
    ASSUME boot.self \in Nat, boot.swa \in Nat, PairGood(kv, boot.self, boot.swa), Lone(kv), Tidy(kv),
           NEW s \in Seqs, book[s] \in Nat,
           PositionsOf(kv.self, s) \subseteq 0..(book[s] - 1),
           PositionsOf(kv.swa, s) \subseteq 0..(book[s] - 1),
           NEW keep \in Nat, NEW d \in Nat \ {0}, keep + d <= End
    PROVE  LET r == Slid(s, keep, d)
               G == keep..(keep + d - 1)
           IN  /\ Tidy(r) /\ Lone(r)
               /\ \A t \in Seqs \ {s} : /\ PositionsOf(r.self, t) = PositionsOf(kv.self, t)
                                        /\ PositionsOf(r.swa, t) = PositionsOf(kv.swa, t)
               /\ SlipOff(s, keep, d) => PositionsOf(r.self, s) = {} /\ PositionsOf(r.swa, s) = {}
               /\ ~SlipOff(s, keep, d) =>
                     /\ PositionsOf(r.self, s) = Closed(PositionsOf(kv.self, s), keep, d)
                     /\ PositionsOf(r.swa, s) = Closed(PositionsOf(kv.swa, s), keep, d)
                     /\ boot.swa > 0 => Covers(PositionsOf(kv.self, s) \ G, PositionsOf(kv.swa, s) \ G)
<1> DEFINE k == kv
           m == boot.self
           n == boot.swa
           D == book[s]
           e == keep + d
           G == keep..(keep + d - 1)
           r == Slid(s, keep, d)
           H == PositionsOf(k.self, s)
           W == PositionsOf(k.swa, s)
           q == CtxSeqRm(k, s, keep, e)
           refused == Refused(k, s, keep, e)
           gone == IF refused THEN Positions ELSE G
<1>1. /\ m \in Nat /\ n \in Nat /\ PairGood(k, m, n) /\ Lone(k) /\ Tidy(k) /\ D \in Nat
      /\ H \subseteq 0..(D - 1) /\ W \subseteq 0..(D - 1)
      /\ keep \in 0..End /\ e \in 0..End /\ d \in 1..e /\ e - d = keep /\ End \in Nat /\ e = keep + d
      /\ G = keep..(e - 1) /\ r = CtxSeqAdd(q, s, e, D, -d)
  <2>1. e \in Nat /\ e <= End /\ d <= e /\ d >= 1 /\ e - d = keep /\ End \in Nat /\ keep <= End
    BY Sizes
  <2>2. r = CtxSeqAdd(q, s, e, D, -d)
    BY DEF Slid
  <2>3. G = keep..(e - 1)
    OBVIOUS
  <2>4. /\ m \in Nat /\ n \in Nat /\ PairGood(k, m, n) /\ Lone(k) /\ Tidy(k) /\ D \in Nat
        /\ H \subseteq 0..(D - 1) /\ W \subseteq 0..(D - 1) /\ e = keep + d
    OBVIOUS
  <2> HIDE DEF k, m, n, D, e, G, r, q, H, W
  <2>5. keep \in 0..End /\ e \in 0..End /\ d \in 1..e
    BY ONLY <2>1, keep \in Nat, d \in Nat \ {0}
  <2> QED
    BY ONLY <2>1, <2>2, <2>3, <2>4, <2>5, Zenon
<1> HIDE DEF k, m, n, D, e, G, r
<1>2. keep \in 0..End /\ e \in 0..End /\ d \in 1..e /\ e - d = keep /\ End \in Nat
      /\ r = CtxSeqAdd(q, s, e, D, -d)
  BY <1>1
<1>3. /\ PairGood(q, m, n)
      /\ refused => Trims(k, q, s, Positions)
      /\ ~refused =>
            /\ Trims(k, q, s, G)
            /\ n > 0 => Covers(PositionsOf(q.self, s), PositionsOf(q.swa, s))
  BY <1>1, CtxRmIs
<1>4. Trims(k, q, s, gone)
  BY <1>1, <1>3
<1> HIDE DEF refused, gone, q
<1>5. /\ Tidy(q) /\ Lone(q)
      /\ \A t \in Seqs \ {s} : /\ PositionsOf(q.self, t) = PositionsOf(k.self, t)
                               /\ PositionsOf(q.swa, t) = PositionsOf(k.swa, t)
      /\ PositionsOf(q.self, s) = H \ gone
      /\ PositionsOf(q.swa, s) = W \ gone
  BY <1>1, <1>4, TrimsIs
<1>6. /\ \A p \in PositionsOf(q.self, s) : p < D
      /\ \A p \in PositionsOf(q.swa, s) : p < D
  BY <1>1, <1>5
<1>7. MovedDown(q.self, r.self, s, e, d) /\ MovedDown(q.swa, r.swa, s, e, d)
  BY <1>1, <1>3, <1>5, <1>6, CtxAddSlides
<1>8. Lone(r)
  BY <1>7 DEF MovedDown, Lone
<1>9. \A p \in G : p \in Positions
  BY <1>1, BoundsAssumption DEF Positions, End
<1>10. (H \ gone) \cap G = {} /\ (W \ gone) \cap G = {}
  BY <1>9 DEF gone
<1>11. Tidy(r)
  <2>1. ASSUME NEW t \in Seqs PROVE OneRowEach(r.self, t) /\ OneRowEach(r.swa, t)
    <3>1. OneRowEach(q.self, t) /\ OneRowEach(q.swa, t)
      BY <1>5 DEF Tidy
    <3>2. CASE t = s
      BY <1>1, <1>5, <1>7, <1>10, <3>1, <3>2 DEF MovedDown
    <3>3. CASE t # s
      BY <1>7, <3>1, <3>3 DEF MovedDown
    <3> QED
      BY <3>2, <3>3
  <2> QED
    BY <2>1 DEF Tidy
<1>12. \A t \in Seqs \ {s} : /\ PositionsOf(r.self, t) = PositionsOf(k.self, t)
                             /\ PositionsOf(r.swa, t) = PositionsOf(k.swa, t)
  BY <1>5, <1>7 DEF MovedDown
<1>13. ASSUME refused PROVE PositionsOf(r.self, s) = {} /\ PositionsOf(r.swa, s) = {}
  <2>1. PositionsOf(q.self, s) = {} /\ PositionsOf(q.swa, s) = {}
    <3>1. Sound(m, k.self) /\ Sound(n, k.swa)
      <4>1. PairGood(k, m, n)
        BY <1>1
      <4> QED
        BY ONLY <4>1 DEF PairGood, Good
    <3>2. H \subseteq Positions /\ W \subseteq Positions
      BY <1>1, <3>1, HoldsIs
    <3> QED
      BY <1>5, <1>13, <3>2 DEF gone
  <2> QED
    BY <1>7, <2>1 DEF MovedDown
<1>14. ASSUME ~refused
       PROVE  /\ PositionsOf(r.self, s) = Closed(H, keep, d) /\ PositionsOf(r.swa, s) = Closed(W, keep, d)
              /\ n > 0 => Covers(H \ G, W \ G)
  <2>1. gone = G
    BY <1>14 DEF gone
  <2>2. PositionsOf(q.self, s) = H \ G /\ PositionsOf(q.swa, s) = W \ G
    BY <1>5, <2>1
  <2>4. /\ \A x \in H \cup W : x \in Nat
        /\ {x \in H \ G : x < e} = {x \in H : x < keep}
        /\ {x \in W \ G : x < e} = {x \in W : x < keep}
        /\ {x \in H \ G : x >= e} = {x \in H : x >= e}
        /\ {x \in W \ G : x >= e} = {x \in W : x >= e}
    <3> HIDE DEF H, W
    <3>1. \A x \in H \cup W : x \in Nat
      BY <1>1
    <3>2. e = keep + d /\ G = keep..(e - 1) /\ e \in Nat /\ keep \in Nat /\ d \in Nat
      BY <1>1
    <3>3. \A x \in H \cup W : x \in G <=> keep <= x /\ x < e
      BY <3>1, <3>2
    <3> HIDE DEF G
    <3>4. keep <= e
      BY <3>2
    <3> QED
      BY ONLY <3>1, <3>2, <3>3, <3>4
  <2>3. PositionsOf(r.self, s) = Closed(H, keep, d) /\ PositionsOf(r.swa, s) = Closed(W, keep, d)
    <3>1. e = keep + d
      BY <1>1
    <3> HIDE DEF H, W
    <3> QED
      BY <1>7, <2>2, <2>4, <3>1 DEF MovedDown, Closed
  <2> QED
    BY <1>3, <1>14, <2>2, <2>3
<1> QED
  BY <1>8, <1>11, <1>12, <1>13, <1>14 DEF SlipOff, refused, k, n, e, G, r, H, W

\* Where no cell is shared a shift is an edit of the one slot, whichever
\* removal it gets.
LEMMA ShiftEdited ==
    ASSUME IInv, NEW s \in Slots, Pending(s) = 0, boot.shift,
           NEW keep \in Nat, NEW d \in Nat \ {0}, keep + d <= book[s]
    PROVE  Edited(s, Slid(s, keep, d), book[s] - d, s \in torn \/ SlipOff(s, keep, d))
<1> DEFINE H == PositionsOf(kv.self, s)
           W == PositionsOf(kv.swa, s)
           D == book[s]
           m == boot.self
           n == boot.swa
           r == Slid(s, keep, d)
           refused == Refused(kv, s, keep, keep + d)
           G == keep..(keep + d - 1)
<1>1. /\ Work /\ m \in Nat /\ n \in Nat /\ PairGood(kv, m, n)
      /\ s \in Seqs /\ Tidy(kv) /\ (Unshared => Lone(kv))
      /\ SlotOk(H, W, Decoded(s), s \notin torn, n > 0)
      /\ H \subseteq Positions
  BY HoldFacts
<1>2. /\ Decoded(s) = D - Pending(s) /\ D \in Nat /\ D <= End /\ End \in Nat
  BY <1>1, SlotWork, Sizes
<1>3. Decoded(s) = D /\ keep + d <= D /\ keep + d <= End /\ D - d \in 0..End /\ keep \in 0..End
      /\ d \in 0..(End - keep) /\ End \in 0..End
  BY <1>2
<1>4. Lone(kv)
  BY <1>1 DEF IInv, Apart
<1>5. H \subseteq 0..(D - 1) /\ W \subseteq 0..(D - 1)
  BY <1>1, <1>3 DEF SlotOk
<1>6. PairGood(r, m, n)
  BY SlidGood DEF IInv
<1>7. r = CtxSeqAdd(CtxSeqRm(kv, s, keep, keep + d), s, keep + d, D, -d)
  BY DEF Slid
<1> HIDE DEF D, m, n, r
<1>8. /\ Tidy(r) /\ Lone(r)
      /\ \A t \in Seqs \ {s} : /\ PositionsOf(r.self, t) = PositionsOf(kv.self, t)
                               /\ PositionsOf(r.swa, t) = PositionsOf(kv.swa, t)
      /\ refused => PositionsOf(r.self, s) = {} /\ PositionsOf(r.swa, s) = {}
      /\ ~refused => /\ PositionsOf(r.self, s) = Closed(H, keep, d)
                     /\ PositionsOf(r.swa, s) = Closed(W, keep, d)
                     /\ n > 0 => Covers(H \ G, W \ G)
  <2>1. /\ boot.self \in Nat /\ boot.swa \in Nat /\ PairGood(kv, boot.self, boot.swa) /\ Lone(kv)
        /\ Tidy(kv) /\ s \in Seqs /\ book[s] \in Nat /\ keep \in Nat /\ d \in Nat \ {0} /\ keep + d <= End
        /\ PositionsOf(kv.self, s) \subseteq 0..(book[s] - 1)
        /\ PositionsOf(kv.swa, s) \subseteq 0..(book[s] - 1)
    BY <1>1, <1>2, <1>3, <1>4, <1>5 DEF m, n, D
  <2> QED
    BY <2>1, ShiftCells DEF r, n, SlipOff
<1> HIDE DEF refused, H, W, G
<1> DEFINE I == PositionsOf(r.self, s)
           V == PositionsOf(r.swa, s)
           gone == s \in torn \/ refused
<1>9. SlotOk(I, V, D - d, ~gone, n > 0)
  <2>1. CASE refused
    <3>1. I = {} /\ V = {} /\ gone
      BY <1>8, <2>1
    <3> QED
      BY <3>1 DEF SlotOk
  <2>2. CASE ~refused
    <3> DEFINE whole == s \notin torn
               sliding == n > 0
    <3>1. whole \in BOOLEAN /\ sliding \in BOOLEAN /\ (whole <=> ~gone)
      BY <2>2
    <3>2. SlotOk(H, W, D, whole, sliding)
      BY <1>1, <1>3
    <3>3. I = Closed(H, keep, d) /\ V = Closed(W, keep, d) /\ (sliding => Covers(H \ G, W \ G))
      BY <1>8, <2>2
    <3> HIDE DEF whole, sliding, I, V
    <3>4. SlotOk(Closed(H, keep, d), Closed(W, keep, d), D - d, whole, sliding)
      <4>1. G = keep..(keep + d - 1)
        BY DEF G
      <4>2. D \in Nat /\ D <= End /\ keep + d <= D /\ keep \in Nat /\ d \in Nat \ {0}
        BY <1>2, <1>3
      <4> QED
        BY ONLY <3>1, <3>2, <3>3, <4>1, <4>2, CloseOk, Zenon
    <3>5. SlotOk(I, V, D - d, whole, sliding)
      BY <3>3, <3>4, Zenon
    <3> HIDE DEF gone
    <3> QED
      BY <3>1, <3>5 DEF sliding, SlotOk
  <2> QED
    BY <2>1, <2>2
<1>10. ClosedBelow(s, I)
  <2>1. CASE refused
    <3>1. I = {}
      BY <1>8, <2>1
    <3> QED
      BY <3>1, NothingClosed
  <2>2. CASE ~refused
    <3>1. I = Closed(H, keep, d)
      BY <1>8, <2>2
    <3>2. \A q \in H : q \in Nat /\ q < End
      BY <1>2, <1>5 DEF H, D
    <3>3. \A q \in Closed(H, keep, d) : q < End
      <4> HIDE DEF H
      <4> QED
        BY <1>2, <3>2 DEF Closed
    <3>4. I = {q \in Closed(H, keep, d) : q < End}
      BY <3>1, <3>3
    <3> QED
      BY <1>3, <3>4 DEF ClosedBelow, H
  <2> QED
    BY <2>1, <2>2
<1>11. Edited(s, r, D - d, gone)
  <2> HIDE DEF gone
  <2> QED
    BY <1>3, <1>6, <1>8, <1>9, <1>10 DEF Edited, m, n
<1> QED
  BY <1>11, Zenon DEF D, r, gone, refused, SlipOff

LEMMA ShiftHolds ==
    ASSUME IInv, NEW s \in Slots, NEW keep \in 1..MaxKeep, NEW d \in 1..MaxDrop, Shift(s, keep, d)
    PROVE  Hold' /\ HeldStep
<1> DEFINE off == s \in torn \/ SlipOff(s, keep, d)
           r == Slid(s, keep, d)
           D == book[s]
<1>1. /\ pend = <<>> /\ pend' = pend /\ boot' = boot /\ boot.shift /\ keep + d <= book[s]
      /\ kv' = r
      /\ \/ book' = [book EXCEPT ![s] = book[s] - d]
            /\ torn' = IF SlipOff(s, keep, d) THEN torn \cup {s} ELSE torn
         \/ book' = book /\ torn' = torn \cup {s}
  BY Zenon DEF Shift, batchVars
<1>2. Pending(s) = 0 /\ keep \in Nat /\ d \in Nat \ {0}
  BY <1>1, NonePending, Sizes
<1>3. Edited(s, r, D - d, off) /\ off \in BOOLEAN
  BY <1>1, <1>2, ShiftEdited
<1>4. book \in [Slots -> 0..End] /\ D \in 0..End /\ End \in Nat
  BY HoldFacts, Sizes DEF Work, WorkType
<1> HIDE DEF r
<1>5. CASE book' = [book EXCEPT ![s] = book[s] - d]
            /\ torn' = IF SlipOff(s, keep, d) THEN torn \cup {s} ELSE torn
  <2>1. (off => s \in torn') /\ \A t \in Slots \ {s} : t \in torn' <=> t \in torn
    BY <1>5
  <2> DEFINE b == D - d
  <2>2. book' = [book EXCEPT ![s] = b] /\ Edited(s, r, b, off)
    BY <1>3, <1>5
  <2> HIDE DEF off, D, b
  <2> QED
    BY <1>1, <1>2, <1>3, <2>1, <2>2, EditHolds
<1>6. CASE book' = book /\ torn' = torn \cup {s}
  <2>1. D \in (D - d)..End
    BY <1>2, <1>4
  <2> HIDE DEF off
  <2>2. Edited(s, r, D, TRUE)
    BY <1>3, <2>1, EditedLooser
  <2>3. book' = [book EXCEPT ![s] = D] /\ \A t \in Slots \ {s} : t \in torn' <=> t \in torn
    BY <1>4, <1>6
  <2> HIDE DEF D
  <2> QED
    BY <1>1, <1>2, <1>6, <2>2, <2>3, EditHolds
<1> QED
  BY <1>1, <1>5, <1>6

\* The slot's own cache, shifted or not, and trimmed.
LEMMA AdmitHolds ==
    ASSUME IInv, NEW s \in Slots, NEW cached, Admit(s, cached)
    PROVE  Hold' /\ HeldStep
<1>1. PICK r \in Landings(s, cached) : phase[s] = "idle" /\ GoesOn(s, r, cached)
  BY Zenon DEF Admit
<1>2. PICK o \in Openings(s) : \E p \in 0..o.book : r = Trim(o, s, p)
  BY LandingFits DEF IInv
<1>3. Pending(s) = 0
  BY <1>1, HoldFacts, SlotWork
<1>4. o.torn \in BOOLEAN /\ Edited(s, o.kv, o.book, o.torn)
  <2>1. CASE o = [kv |-> kv, book |-> book[s], torn |-> s \in torn]
    <3> DEFINE g == s \in torn
    <3>1. o.kv = kv /\ o.book = book[s] /\ o.torn = g /\ g \in BOOLEAN
      BY <2>1
    <3>2. Edited(s, kv, book[s], g)
      BY <1>3, Untouched
    <3> HIDE DEF g
    <3> QED
      BY <3>1, <3>2
  <2>2. ASSUME NEW keep \in Nat, NEW d \in Nat \ {0}, boot.shift, keep + d <= book[s],
               o = [kv |-> Slid(s, keep, d), book |-> book[s] - d,
                    torn |-> s \in torn \/ SlipOff(s, keep, d)]
        PROVE  o.torn \in BOOLEAN /\ Edited(s, o.kv, o.book, o.torn)
    <3> DEFINE g == s \in torn \/ SlipOff(s, keep, d)
    <3>1. o.kv = Slid(s, keep, d) /\ o.book = book[s] - d /\ o.torn = g /\ g \in BOOLEAN
      BY <2>2
    <3>2. Edited(s, Slid(s, keep, d), book[s] - d, g)
      BY <1>3, <2>2, ShiftEdited
    <3> HIDE DEF g
    <3> QED
      BY <3>1, <3>2
  <2> QED
    BY <2>1, <2>2, OpeningIs DEF IInv
<1>5. r.torn \in BOOLEAN /\ Edited(s, r.kv, r.book, r.torn)
  <2>1. PICK p \in 0..o.book : r = Trim(o, s, p)
    BY <1>2
  <2>2. p \in Nat /\ o.book \in Nat
    BY <1>4, Sizes DEF Edited
  <2> QED
    BY <1>3, <1>4, <2>1, <2>2, TrimEdited
<1> DEFINE k == r.kv
           b == r.book
           g == r.torn
<1>6. /\ pend' = pend /\ boot' = boot /\ kv' = k /\ book' = [book EXCEPT ![s] = b]
      /\ torn' = IF g THEN torn \cup {s} ELSE torn \ {s}
  BY <1>1 DEF GoesOn, batchVars
<1>7. g \in BOOLEAN /\ Edited(s, k, b, g)
  BY <1>5
<1> HIDE DEF k, b, g
<1>8. (g => s \in torn') /\ \A t \in Slots \ {s} : t \in torn' <=> t \in torn
  BY <1>6, <1>7
<1> QED
  BY <1>3, <1>6, <1>7, <1>8, EditHolds

\* A prefix taken over on a model without a sliding cache: the slot has the
\* prefix, whole if it was checked, and nobody else notices.
LEMMA ShareCells ==
    ASSUME NEW m \in Nat, NEW k, PairGood(k, m, 0), Tidy(k),
           NEW t \in Seqs, NEW s \in Seqs, t # s, NEW p \in 0..End
    PROVE  LET r == CtxSharePrefix(k, t, s, p)
           IN  /\ PairGood(r, m, 0) /\ Tidy(r)
               /\ \A u \in Seqs \ {s} : PositionsOf(r.self, u) = PositionsOf(k.self, u)
               /\ Shared(k.self, t, p) = p /\ PosMax(r.self, s) = p - 1 =>
                     /\ 0..(p - 1) \subseteq PositionsOf(k.self, t)
                     /\ PositionsOf(r.self, s) = 0..(p - 1)
<1> DEFINE a == SharePrefix(k.self, t, s, p)
           b == SharePrefix(k.swa, t, s, p)
           r == CtxSharePrefix(k, t, s, p)
<1>1. Good(m, k.self) /\ Good(0, k.swa) /\ Sound(m, k.self) /\ Sound(0, k.swa)
  BY DEF PairGood, Good
<1>2. Good(m, a) /\ Good(0, b)
  BY <1>1, ShareGood
<1>3. /\ \A u \in Seqs \ {s} : PositionsOf(a, u) = PositionsOf(k.self, u)
                               /\ (OneRowEach(k.self, u) => OneRowEach(a, u))
      /\ PositionsOf(a, s) = {q \in PositionsOf(k.self, s) : q >= p}
                               \cup {q \in PositionsOf(k.self, t) : q < p}
      /\ OneRowEach(k.self, s) /\ OneRowEach(k.self, t) => OneRowEach(a, s)
  BY <1>1, ShareHolds
<1> HIDE DEF a, b
<1>4. r = Both(k, a, b)
  BY DEF CtxSharePrefix, a, b
<1>5. PairGood(r, m, 0) /\ SameRows(a, r.self)
  BY <1>2, <1>4, BothGood, BothIs
<1> HIDE DEF r
<1>6. \A u \in Seqs : PositionsOf(r.self, u) = PositionsOf(a, u) /\ (OneRowEach(a, u) => OneRowEach(r.self, u))
  BY <1>5, RowsHeld DEF SameHeld
<1>7. Tidy(r)
  <2>1. ASSUME NEW u \in Seqs PROVE OneRowEach(r.self, u) /\ OneRowEach(r.swa, u)
    <3>1. OneRowEach(r.swa, u)
      BY <1>5, NoCells DEF PairGood
    <3>2. OneRowEach(a, u)
      BY <1>3 DEF Tidy
    <3> QED
      BY <1>6, <3>1, <3>2
  <2> QED
    BY <2>1 DEF Tidy
<1>8. ASSUME Shared(k.self, t, p) = p, PosMax(r.self, s) = p - 1
      PROVE  /\ 0..(p - 1) \subseteq PositionsOf(k.self, t)
             /\ PositionsOf(r.self, s) = 0..(p - 1)
  <2>1. OneRowEach(k.self, t)
    BY DEF Tidy
  <2>2. 0..(p - 1) \subseteq PositionsOf(k.self, t)
    BY <1>1, <1>8, <2>1, SharedIsWhole
  <2>3. Sound(m, r.self)
    BY <1>5 DEF PairGood, Good
  <2>4. /\ \A q \in PositionsOf(r.self, s) : q <= p - 1
        /\ PositionsOf(r.self, s) \subseteq Positions
    BY <1>8, <2>3, PosMaxIs, HoldsIs
  <2>5. \A q \in Positions : q \in Nat
    BY BoundsAssumption DEF Positions
  <2>6. p \in Nat
    BY Sizes
  <2>7. \A q \in 0..(p - 1) : q \in PositionsOf(k.self, t) /\ q < p
    BY <2>2, <2>6
  <2>8. \A q \in 0..(p - 1) : q \in PositionsOf(r.self, s)
    BY <1>3, <1>6, <2>7
  <2>9. \A q \in PositionsOf(r.self, s) : q \in 0..(p - 1)
    BY <2>4, <2>5, <2>6
  <2> QED
    BY <2>2, <2>8, <2>9
<1>9. \A u \in Seqs \ {s} : PositionsOf(r.self, u) = PositionsOf(k.self, u)
  BY <1>3, <1>6
<1> QED
  BY <1>5, <1>7, <1>8, <1>9 DEF r

LEMMA ForkHolds ==
    ASSUME IInv, NEW s \in Slots, NEW t \in Slots, Fork(s, t)
    PROVE  Hold' /\ HeldStep
<1> DEFINE m == boot.self
<1>1. /\ Work /\ m \in Nat /\ boot.swa \in Nat /\ PairGood(kv, m, boot.swa)
      /\ s \in Seqs /\ t \in Seqs /\ Tidy(kv)
      /\ PositionsOf(kv.self, s) \subseteq Positions
  BY HoldFacts
<1>2. boot.fork /\ ~SwaActive(kv) /\ phase[s] = "idle" /\ s # t
  BY DEF Fork
<1>3. PICK o \in Openings(s), p \in 1..book[t] :
             LET f == CtxSharePrefix(o.kv, t, s, p)
                 taken == Shared(o.kv.self, t, p) = p /\ PosMax(f.self, s) = p - 1
             IN  /\ p < SlotCtx - 1
                 /\ GoesOn(s, IF taken THEN [kv |-> f, book |-> p, torn |-> t \in torn]
                              ELSE [kv |-> CtxSeqRm(f, s, 0, End), book |-> 0, torn |-> FALSE],
                           TRUE)
  BY ForkIs
<1>4. o.kv = kv
  <2>1. ~boot.shift
    BY <1>2, <1>1, ActiveIs DEF IInv, Apart, Unshared
  <2> QED
    BY <2>1, OpeningIs DEF IInv
<1> DEFINE k == CtxSharePrefix(kv, t, s, p)
           taken == Shared(kv.self, t, p) = p /\ PosMax(k.self, s) = p - 1
           b == IF taken THEN p ELSE 0
<1>5. /\ boot.fork /\ ~SwaActive(kv) /\ phase[s] = "idle" /\ s # t /\ p < SlotCtx - 1
      /\ pend' = pend /\ boot' = boot
      /\ kv' = IF taken THEN k ELSE CtxSeqRm(k, s, 0, End)
      /\ book' = [book EXCEPT ![s] = b]
      /\ torn' = IF taken /\ t \in torn THEN torn \cup {s} ELSE torn \ {s}
  <2> DEFINE x == [kv |-> k, book |-> p, torn |-> t \in torn]
             y == [kv |-> CtxSeqRm(k, s, 0, End), book |-> 0, torn |-> FALSE]
             r == IF taken THEN x ELSE y
  <2>1. p < SlotCtx - 1 /\ GoesOn(s, r, TRUE)
    BY <1>3, <1>4
  <2>2. /\ x.kv = k /\ x.book = p /\ x.torn = (t \in torn)
        /\ y.kv = CtxSeqRm(k, s, 0, End) /\ y.book = 0 /\ y.torn = FALSE
    OBVIOUS
  <2>3. (taken => r = x) /\ (~taken => r = y)
    OBVIOUS
  <2> HIDE DEF x, y, r, taken, k
  <2> QED
    BY <1>2, <2>1, <2>2, <2>3 DEF GoesOn, batchVars
<1>6. boot.swa = 0 /\ PairGood(kv, m, 0) /\ ~Unshared
  BY <1>1, <1>5, ActiveIs DEF Unshared
<1>7. /\ Pending(s) = 0 /\ p \in Nat /\ p \in 0..End /\ p \in Positions
      /\ 0 \in 0..End /\ End \in 0..End /\ 0..(End - 1) = Positions /\ 0 \in Positions
  <2>1. book[t] \in Nat /\ book[t] <= End /\ Pending(s) = 0
    BY <1>1, <1>5, SlotWork
  <2>2. MaxPos \in Nat /\ SlotCtx \in 2..(MaxPos + 1)
    BY BoundsAssumption, SlotAssumption
  <2> QED
    BY <1>5, <2>1, <2>2 DEF End, Positions
<1>8. \A u \in Slots \ {s} : u \in torn' <=> u \in torn
  BY <1>5
<1>9. /\ PairGood(k, m, 0) /\ Tidy(k)
      /\ \A u \in Seqs \ {s} : PositionsOf(k.self, u) = PositionsOf(kv.self, u)
      /\ taken => /\ 0..(p - 1) \subseteq PositionsOf(kv.self, t)
                  /\ PositionsOf(k.self, s) = 0..(p - 1)
  BY <1>1, <1>5, <1>6, <1>7, ShareCells
<1> HIDE DEF taken, k, m
<1>10. /\ PairGood(kv', m, 0) /\ Tidy(kv')
       /\ \A u \in Seqs \ {s} : PositionsOf(kv'.self, u) = PositionsOf(kv.self, u)
       /\ PositionsOf(kv'.self, s) = 0..(b - 1)
  <2>1. CASE taken
    BY <1>5, <1>9, <2>1
  <2>2. CASE ~taken
    <3> DEFINE r == CtxSeqRm(k, s, 0, End)
    <3>1. kv' = r /\ b = 0
      BY <1>5, <2>2
    <3>2. PairGood(r, m, 0) /\ Trims(k, r, s, Positions)
      BY <1>1, <1>7, <1>9, CtxRmIs DEF m
    <3> HIDE DEF r
    <3>3. s \in Seqs /\ Trims(k, r, s, Positions) /\ Tidy(k)
      BY <1>1, <1>9, <3>2
    <3>4. /\ Tidy(r)
          /\ \A u \in Seqs \ {s} : PositionsOf(r.self, u) = PositionsOf(k.self, u)
          /\ PositionsOf(r.self, s) = PositionsOf(k.self, s) \ Positions
      BY ONLY <3>3, TrimsIs
    <3>5. PositionsOf(k.self, s) \subseteq Positions
      <4>1. Sound(m, k.self)
        BY <1>9 DEF PairGood, Good
      <4> QED
        BY <1>1, <4>1, HoldsIs DEF m
    <3> QED
      BY <1>9, <3>1, <3>2, <3>4, <3>5
  <2> QED
    BY <2>1, <2>2
<1> DEFINE I == PositionsOf(kv'.self, s)
           V == PositionsOf(kv'.swa, s)
<1>11. \A u \in Seqs : PositionsOf(kv'.swa, u) = {} /\ PositionsOf(kv.swa, u) = {}
  BY <1>6, <1>10, NoCells DEF PairGood
<1>12. b \in Nat
  BY <1>7
<1>13. SlotOk(I, V, b, s \notin torn', boot.swa > 0)
  <2>1. I = 0..(b - 1) /\ V = {} /\ ~(boot.swa > 0)
    BY <1>1, <1>6, <1>10, <1>11
  <2> QED
    BY <2>1 DEF SlotOk
<1>14. Hold'
  <2>1. /\ I = PositionsOf(kv'.self, s) /\ V = PositionsOf(kv'.swa, s)
        /\ \A u \in Slots \ {s} : /\ PositionsOf(kv'.self, u) = PositionsOf(kv.self, u)
                                  /\ PositionsOf(kv'.swa, u) = PositionsOf(kv.swa, u)
        /\ Tidy(kv') /\ (Unshared => Lone(kv'))
    BY <1>1, <1>6, <1>10, <1>11 DEF Slots
  <2> HIDE DEF I, V, b
  <2> QED
    BY <1>5, <1>7, <1>8, <1>12, <1>13, <2>1, OneSlotHolds
<1>15. HeldBut(s)
  BY <1>10 DEF HeldBut, Slots
<1>16. CASE taken
  <2>1. HeldTake(s, t, p)
    BY <1>9, <1>10, <1>15, <1>16 DEF HeldTake
  <2> QED
    BY <1>7, <1>14, <2>1 DEF HeldStep
<1>17. CASE ~taken
  <2>1. PositionsOf(kv'.self, s) = {}
    BY <1>10, <1>17
  <2>2. HeldClosed(s)
    BY <1>15, <2>1, NothingClosed DEF HeldClosed
  <2> QED
    BY <1>7, <1>14, <2>2 DEF HeldStep
<1> QED
  BY <1>16, <1>17

\* The steps between the calls that touch no cell.
LEMMA BookOnlyHolds ==
    ASSUME IInv, kv' = kv, torn' = torn, boot' = boot,
           \A s \in Slots : Decoded(s)' = Decoded(s)
    PROVE  Hold' /\ HeldStep
<1>1. /\ \A s \in Slots : SlotOk(PositionsOf(kv.self, s), PositionsOf(kv.swa, s),
                                 Decoded(s), s \notin torn, boot.swa > 0)
      /\ Tidy(kv) /\ (Unshared => Lone(kv))
  BY HoldFacts
<1>2. ASSUME NEW s \in Slots
      PROVE  SlotOk(PositionsOf(kv'.self, s), PositionsOf(kv'.swa, s),
                    Decoded(s)', s \notin torn', boot'.swa > 0)
  BY <1>1
<1>3. Tidy(kv') /\ (Unshared' => Lone(kv'))
  BY <1>1 DEF Unshared
<1>4. Hold'
  BY <1>2, <1>3 DEF Hold
<1>5. HeldSame
  BY DEF HeldSame
<1> QED
  BY <1>4, <1>5 DEF HeldStep

LEMMA AddingHolds ==
    ASSUME IInv, NEW s \in Slots
    PROVE  /\ Release(s) => Hold' /\ HeldStep
           /\ \A n \in 0..MaxDraft : AddSampled(s, n) => Hold' /\ HeldStep
           /\ \A n \in 1..NBatch, last \in BOOLEAN : AddPrompt(s, n, last) => Hold' /\ HeldStep
<1>1. Work /\ book \in [Slots -> 0..End] /\ End \in Nat
  BY HoldFacts, Sizes DEF Work, WorkType
<1>2. ASSUME NEW n \in Nat, pend' = pend \o Repeat(s, n),
             NEW b, b = book[s] + n, book' = [book EXCEPT ![s] = b],
             kv' = kv, torn' = torn, boot' = boot
      PROVE  Hold' /\ HeldStep
  <2>1. \A t \in Slots : /\ Pending(t)' = Pending(t) + (IF t = s THEN n ELSE 0)
                         /\ Pending(t) \in Nat
    BY <1>1, <1>2, RunAdded
  <2>2. ASSUME NEW t \in Slots PROVE Decoded(t)' = Decoded(t)
    <3>1. book'[t] = IF t = s THEN book[t] + n ELSE book[t]
      BY <1>1, <1>2
    <3>2. book[t] \in Nat /\ Pending(t) \in Nat
      BY <1>1, <2>1
    <3> QED
      BY <2>1, <3>1, <3>2 DEF Decoded
  <2> QED
    BY <1>2, <2>2, BookOnlyHolds
<1>3. ASSUME Release(s) PROVE Hold' /\ HeldStep
  <2>1. kv' = kv /\ torn' = torn /\ boot' = boot /\ book' = book /\ pend' = pend
    BY <1>3 DEF Release, batchVars
  <2>2. \A t \in Slots : Decoded(t)' = Decoded(t)
    BY <2>1, PendingIs, PendingNext DEF Decoded
  <2> QED
    BY <2>1, <2>2, BookOnlyHolds
<1>4. ASSUME NEW n \in 0..MaxDraft, AddSampled(s, n) PROVE Hold' /\ HeldStep
  <2>1. MaxDraft \in Nat /\ 1 + n \in Nat
    BY Sizes
  <2> DEFINE b == book[s] + 1 + n
  <2>2. b = book[s] + (1 + n)
    BY <1>1, <2>1
  <2>3. /\ pend' = pend \o Repeat(s, 1 + n) /\ book' = [book EXCEPT ![s] = b]
        /\ kv' = kv /\ torn' = torn /\ boot' = boot
    BY <1>4 DEF AddSampled
  <2> HIDE DEF b
  <2> QED
    BY <1>2, <2>1, <2>2, <2>3
<1>5. ASSUME NEW n \in 1..NBatch, NEW last \in BOOLEAN, AddPrompt(s, n, last)
      PROVE  Hold' /\ HeldStep
  <2>1. /\ n \in Nat /\ pend' = pend \o Repeat(s, n) /\ book' = [book EXCEPT ![s] = @ + n]
        /\ kv' = kv /\ torn' = torn /\ boot' = boot
    BY <1>5, Sizes DEF AddPrompt
  <2> QED
    BY <1>2, <2>1
<1> QED
  BY <1>3, <1>4, <1>5

\* What a ubatch retires leaves every slot its book and its window.
LEMMA RetiredOk ==
    ASSUME IInv, Decoding, NEW e, Retires(kv, e, Batch), NEW s \in Slots
    PROVE  /\ PositionsOf(e.self, s) = PositionsOf(kv.self, s)
           /\ SlotOk(PositionsOf(kv.self, s), PositionsOf(e.swa, s), Decoded(s),
                     s \notin torn, boot.swa > 0)
<1> DEFINE H == PositionsOf(kv.self, s)
           W == PositionsOf(kv.swa, s)
           V == PositionsOf(e.swa, s)
           D == Decoded(s)
<1>1. /\ Work /\ s \in Seqs /\ D \in Nat
      /\ SlotOk(H, W, D, s \notin torn, boot.swa > 0)
  BY HoldFacts
<1>2. Taken(s) \in Nat /\ InBatch(Batch, s) = D..(D + Taken(s) - 1)
  BY <1>1, BatchFacts
<1>3. /\ PositionsOf(e.self, s) = H /\ V \subseteq W
      /\ \A d, z \in Nat :
            InBatch(Batch, s) = d..(d + z - 1) /\ Windowed(W, d) => Windowed(V, d)
  BY <1>1 DEF Retires
<1>4. Windowed(W, D) => Windowed(V, D)
  BY <1>1, <1>2, <1>3
<1> HIDE DEF H, W, V, D
<1>5. SlotOk(H, V, D, s \notin torn, boot.swa > 0)
  BY <1>1, <1>3, <1>4 DEF SlotOk
<1> QED
  BY <1>3, <1>5 DEF H, V, D

\* A call that was refused, or given up.
LEMMA StallHolds ==
    ASSUME IInv, Decoding, Retires(kv, kv', Batch), boot' = boot, book' = book,
           \/ pend' = pend /\ torn' = torn
           \/ pend' = <<>> /\ torn' = torn \cup {s \in Slots : Pending(s) > 0}
    PROVE  Hold' /\ HeldSame
<1>1. Work /\ Tidy(kv) /\ (Unshared => Lone(kv))
  BY HoldFacts
<1>2. ASSUME NEW s \in Slots
      PROVE  /\ PositionsOf(kv'.self, s) = PositionsOf(kv.self, s)
             /\ SlotOk(PositionsOf(kv'.self, s), PositionsOf(kv'.swa, s), Decoded(s)',
                       s \notin torn', boot'.swa > 0)
  <2> DEFINE H == PositionsOf(kv.self, s)
             V == PositionsOf(kv'.swa, s)
             D == Decoded(s)
  <2>1. PositionsOf(kv'.self, s) = H /\ SlotOk(H, V, D, s \notin torn, boot.swa > 0)
    BY RetiredOk
  <2>2. book[s] \in Nat /\ Pending(s) \in Nat /\ Pending(s) <= book[s] /\ D = book[s] - Pending(s)
    BY <1>1, SlotWork
  <2>3. CASE pend' = pend /\ torn' = torn
    <3>1. Decoded(s)' = D
      BY <2>3, PendingIs, PendingNext DEF Decoded
    <3> QED
      BY <2>1, <2>3, <3>1
  <2>4. CASE pend' = <<>> /\ torn' = torn \cup {t \in Slots : Pending(t) > 0}
    <3>1. Decoded(s)' = book[s]
      <4>1. Pending(s)' = 0
        BY <2>4, NonePending
      <4> QED
        BY <2>2, <4>1 DEF Decoded
    <3>2. CASE Pending(s) = 0
      <4>1. (s \notin torn') = (s \notin torn)
        BY <2>4, <3>2
      <4> QED
        BY <2>1, <2>2, <3>1, <3>2, <4>1
    <3>3. CASE Pending(s) > 0
      <4>1. s \in torn'
        BY <2>4, <3>3
      <4>2. H \subseteq 0..(book[s] - 1) /\ V \subseteq H
        <5>1. H \subseteq 0..(D - 1) /\ V \subseteq H
          BY <2>1 DEF SlotOk
        <5> QED
          BY <2>2, <5>1
      <4> QED
        BY <2>1, <3>1, <4>1, <4>2 DEF SlotOk
    <3> QED
      BY <2>2, <3>2, <3>3
  <2> QED
    BY <2>1, <2>3, <2>4
<1>3. Tidy(kv') /\ (Unshared' => Lone(kv'))
  BY <1>1 DEF Retires, Unshared
<1>4. HeldSame
  BY <1>2 DEF HeldSame
<1>5. Hold'
  BY <1>2, <1>3 DEF Hold
<1> QED
  BY <1>4, <1>5

\* The hint to the search moves nothing.
LEMMA HintedIs ==
    ASSUME IInv
    PROVE  /\ PairGood(Hinted, boot.self, boot.swa)
           /\ SameHeld(kv.self, Hinted.self) /\ Hinted.swa = kv.swa
           /\ Retires(kv, Hinted, Batch)
           /\ Tidy(Hinted) /\ (boot.swa > 0 => Lone(Hinted))
<1>1. /\ PairGood(kv, boot.self, boot.swa) /\ boot.self \in Nat /\ boot.swa \in Nat
      /\ Tidy(kv) /\ (Unshared => Lone(kv))
  BY HoldFacts
<1>2. Good(boot.self, Hinted.self) /\ SameRows(kv.self, Hinted.self) /\ Hinted.swa = kv.swa
  BY <1>1, HintGood DEF Hinted, PairGood
<1>3. SameHeld(kv.self, Hinted.self) /\ SameHeld(kv.swa, Hinted.swa)
  BY <1>2, RowsHeld DEF SameRows
<1>4. Retires(kv, Hinted, Batch)
  BY <1>3, SameRetires
<1> QED
  BY <1>1, <1>2, <1>3, <1>4 DEF Retires, PairGood, Unshared

\* The tokens of the next ubatch are new to every slot.
LEMMA BatchNew ==
    ASSUME IInv, Decoding
    PROVE  New(Hinted, Batch)
<1> DEFINE B == Batch
           K == Hinted
<1>1. Work /\ Len(B) = Take /\ \A s \in Seqs : PositionsOf(K.self, s) = PositionsOf(kv.self, s)
      /\ K.swa = kv.swa
  BY HoldFacts, HintedIs, BatchFacts DEF SameHeld
<1>2. ASSUME NEW s \in Seqs
      PROVE  /\ InBatch(B, s) \cap PositionsOf(K.self, s) = {}
             /\ InBatch(B, s) \cap PositionsOf(K.swa, s) = {}
             /\ \A i, j \in 1..Len(B) :
                   B[i].seq = s /\ B[j].seq = s /\ B[i].pos = B[j].pos => i = j
  <2> DEFINE D == Decoded(s)
  <2>1. /\ InBatch(B, s) = D..(D + Taken(s) - 1) /\ D \in Nat /\ Taken(s) \in Nat
        /\ \A i, j \in 1..Take :
              B[i].seq = s /\ B[j].seq = s /\ B[i].pos = B[j].pos => i = j
    BY <1>1, <1>2, BatchFacts DEF Slots
  <2>2. PositionsOf(kv.self, s) \subseteq 0..(D - 1) /\ PositionsOf(kv.swa, s) \subseteq 0..(D - 1)
    <3>1. SlotOk(PositionsOf(kv.self, s), PositionsOf(kv.swa, s), D, s \notin torn, boot.swa > 0)
      BY <1>2, HoldFacts DEF Slots
    <3> QED
      BY <3>1 DEF SlotOk
  <2> HIDE DEF D, B, K
  <2>3. \A x \in InBatch(B, s) : ~(x \in 0..(D - 1))
    BY <2>1
  <2> QED
    BY <1>1, <1>2, <2>1, <2>2, <2>3
<1> QED
  BY <1>2, Zenon DEF New

\* A ubatch that lies in the caches.
LEMMA GrownHolds ==
    ASSUME IInv, Decoding, Grows(boot.swa, Hinted, kv', Batch),
           boot' = boot, book' = book, torn' = torn, pend' = SubSeq(pend, Take + 1, Len(pend))
    PROVE  Hold' /\ HeldExtend
<1>1. /\ Work /\ boot.swa \in Nat /\ Tidy(kv) /\ (Unshared => Lone(kv))
      /\ \A s \in Slots : s \in Seqs /\ Decoded(s) \in Nat
  BY HoldFacts
<1>2. PICK e : /\ Retires(Hinted, e, Batch)
               /\ \A s \in Seqs :
                     /\ PositionsOf(kv'.self, s) = PositionsOf(e.self, s) \cup InBatch(Batch, s)
                     /\ PositionsOf(kv'.swa, s)
                           = IF boot.swa > 0 THEN PositionsOf(e.swa, s) \cup InBatch(Batch, s) ELSE {}
  BY DEF Grows
<1>3. Retires(kv, e, Batch)
  BY <1>2, HintedIs, RetiresTwice
<1>4. ASSUME NEW s \in Slots
      PROVE  /\ SlotOk(PositionsOf(kv'.self, s), PositionsOf(kv'.swa, s), Decoded(s)',
                       s \notin torn', boot'.swa > 0)
             /\ PositionsOf(kv.self, s) \subseteq PositionsOf(kv'.self, s)
             /\ \A p \in PositionsOf(kv'.self, s) \ PositionsOf(kv.self, s),
                   q \in PositionsOf(kv.self, s) : q < p
  <2> DEFINE H == PositionsOf(kv.self, s)
             V == PositionsOf(e.swa, s)
             D == Decoded(s)
             T == Taken(s)
             B == InBatch(Batch, s)
             whole == s \notin torn
             sliding == boot.swa > 0
  <2>1. /\ PositionsOf(kv'.self, s) = PositionsOf(e.self, s) \cup B
        /\ PositionsOf(kv'.swa, s) = IF sliding THEN V \cup B ELSE {}
    BY <1>1, <1>2
  <2>2. PositionsOf(e.self, s) = H /\ SlotOk(H, V, D, whole, sliding)
    BY <1>3, RetiredOk
  <2>3. D \in Nat /\ T \in Nat /\ B = D..(D + T - 1)
    BY <1>1, BatchFacts
  <2>4. Decoded(s)' = D + T
    <3>1. Pending(s)' \in Nat /\ Pending(s) = T + Pending(s)' /\ book[s] \in Nat
      BY <1>1, UbatchTaken, SlotWork
    <3> QED
      BY <2>3, <3>1 DEF Decoded
  <2>5. whole \in BOOLEAN /\ sliding \in BOOLEAN
    OBVIOUS
  <2>6. (s \notin torn') = whole /\ (boot'.swa > 0) = sliding
    OBVIOUS
  <2> HIDE DEF H, V, D, T, B, whole, sliding
  <2>7. /\ SlotOk(H \cup B, V \cup B, D + T, whole, sliding)
        /\ ~sliding => SlotOk(H \cup B, {}, D + T, whole, sliding)
    <3> DEFINE N == D..(D + T - 1)
    <3>1. /\ SlotOk(H \cup N, V \cup N, D + T, whole, sliding)
          /\ ~sliding => SlotOk(H \cup N, {}, D + T, whole, sliding)
      BY <2>2, <2>3, <2>5, ExtendOk, Zenon
    <3> QED
      BY <2>3, <3>1
  <2>8. SlotOk(PositionsOf(kv'.self, s), PositionsOf(kv'.swa, s), D + T, whole, sliding)
    <3>1. CASE sliding
      BY <2>1, <2>2, <2>7, <3>1
    <3>2. CASE ~sliding
      BY <2>1, <2>2, <2>7, <3>2
    <3> QED
      BY <3>1, <3>2
  <2>9. H \subseteq 0..(D - 1)
    BY <2>2 DEF SlotOk
  <2>10. \A p \in PositionsOf(kv'.self, s) \ H, q \in H : q < p
    BY <2>1, <2>2, <2>3, <2>9
  <2> QED
    BY <2>1, <2>2, <2>4, <2>6, <2>8, <2>10 DEF H
<1>5. Tidy(kv') /\ (Unshared' => Lone(kv'))
  <2>1. Tidy(Hinted) /\ (Lone(kv) => Lone(Hinted))
    BY <1>1, HintedIs DEF Retires
  <2> QED
    BY <1>1, <2>1 DEF Grows, Unshared
<1>6. Hold'
  BY <1>4, <1>5 DEF Hold
<1>7. HeldExtend
  BY <1>4 DEF HeldExtend
<1> QED
  BY <1>6, <1>7

\* The states of the caches in which a call is refused.
LEMMA RefusedHolds ==
    ASSUME IInv, Decoding, NEW k, PairGood(k, boot.self, boot.swa), Retires(kv, k, Batch)
    PROVE  /\ Retry(k) => Hold' /\ HeldSame
           /\ GiveUp(k) => Hold' /\ HeldSame
<1>1. boot.self \in Nat /\ boot.swa \in Nat
  BY HoldFacts
<1>2. ASSUME Retry(k) PROVE Hold' /\ HeldSame
  <2>1. boot' = boot /\ book' = book
    BY <1>2 DEF Retry
  <2>2. CASE kv' \in Compacted(k) /\ pend' = pend /\ torn' = torn
    <3>1. Poised(boot.self, boot.swa, k, kv')
      BY <1>1, <2>2, PoisedIs
    <3>2. SameHeld(k.self, kv'.self) /\ SameHeld(k.swa, kv'.swa)
      BY <3>1, RowsHeld DEF Poised
    <3>3. Retires(k, kv', Batch)
      BY <3>2, SameRetires
    <3>4. Retires(kv, kv', Batch)
      BY <3>3, RetiresTwice
    <3> QED
      BY <2>1, <2>2, <3>4, StallHolds
  <2>3. CASE kv' = k /\ pend' = pend /\ torn' = torn
    BY <2>1, <2>3, StallHolds
  <2>4. CASE kv' = k /\ pend' = <<>> /\ torn' = torn \cup {s \in Slots : Pending(s) > 0}
    BY <2>1, <2>4, StallHolds
  <2> QED
    BY <1>2, <2>2, <2>3, <2>4 DEF Retry
<1>3. ASSUME GiveUp(k) PROVE Hold' /\ HeldSame
  <2>1. /\ boot' = boot /\ book' = book /\ kv' = k /\ pend' = <<>>
        /\ torn' = torn \cup {s \in Slots : Pending(s) > 0}
    BY <1>3 DEF GiveUp
  <2> QED
    BY <2>1, StallHolds
<1> QED
  BY <1>2, <1>3

\* The states of the caches in which a ubatch is committed.
LEMMA CommittedHolds ==
    ASSUME IInv, Decoding, SwaRoom(Hinted, Batch),
           NEW e, Poised(boot.self, boot.swa, SwaPlaced(Hinted, Batch), e), Room(e.self, Take),
           Commit(e)
    PROVE  Hold' /\ HeldExtend
<1>1. /\ boot.self \in Nat /\ boot.swa \in Nat /\ Work
      /\ PairGood(Hinted, boot.self, boot.swa) /\ (boot.swa > 0 => Lone(Hinted))
  BY HoldFacts, HintedIs
<1>2. IsBatch(Batch) /\ Len(Batch) = Take /\ New(Hinted, Batch)
  BY <1>1, BatchFacts, BatchNew
<1>3. Grows(boot.swa, Hinted, SelfPlaced(e, Batch), Batch)
  BY <1>1, <1>2, SelfPlacedGrows
<1>4. /\ kv' = SelfPlaced(e, Batch) /\ pend' = SubSeq(pend, Take + 1, Len(pend))
      /\ boot' = boot /\ book' = book /\ torn' = torn
  BY DEF Commit
<1> QED
  BY <1>3, <1>4, GrownHolds

LEMMA CallHolds ==
    ASSUME IInv
    PROVE  /\ TooMany => Hold' /\ HeldStep
           /\ NoSwaRoom => Hold' /\ HeldStep
           /\ Decode => Hold' /\ HeldStep
           /\ NoSelfRoom => Hold' /\ HeldStep
<1> DEFINE m == boot.self
           n == boot.swa
<1>1. /\ m \in Nat /\ n \in Nat /\ Work /\ PairGood(kv, m, n)
      /\ PairGood(Hinted, m, n) /\ Retires(kv, Hinted, Batch) /\ (n > 0 => Lone(Hinted))
  BY HoldFacts, HintedIs
<1>2. HeldSame => HeldStep
  BY DEF HeldStep
<1>3. HeldExtend => HeldStep
  BY DEF HeldStep
<1>4. ASSUME TooMany PROVE Hold' /\ HeldStep
  <2>1. Retires(kv, kv, Batch)
    BY DEF Retires
  <2>2. Decoding /\ Retry(kv)
    BY <1>4 DEF TooMany
  <2> QED
    BY <1>1, <1>2, <2>1, <2>2, RefusedHolds
<1>5. ASSUME NoSwaRoom PROVE Hold' /\ HeldStep
  <2> DEFINE k == Retired(Hinted, Batch)
  <2>1. Decoding /\ (Retry(k) \/ GiveUp(k))
    BY <1>5 DEF NoSwaRoom, Refuse
  <2>2. IsBatch(Batch)
    BY <1>1, <2>1, BatchFacts
  <2>3. PairGood(k, m, n)
    BY <2>1, UbatchGood DEF IInv
  <2>4. Retires(Hinted, k, Batch)
    BY <1>1, <2>2, RetiredRetires
  <2> HIDE DEF k
  <2>5. Retires(kv, k, Batch)
    BY <1>1, <2>4, RetiresTwice
  <2> QED
    BY <1>2, <2>1, <2>3, <2>5, RefusedHolds
<1>6. ASSUME Decode PROVE Hold' /\ HeldStep
  <2> DEFINE k == SwaPlaced(Hinted, Batch)
  <2>1. Decoding /\ SwaRoom(Hinted, Batch) /\ Room(kv.self, Take) /\ Commit(k)
    BY <1>6 DEF Decode
  <2>2. PairGood(k, m, n) /\ SameRows(kv.self, k.self)
    BY <2>1, UbatchGood DEF IInv
  <2>3. Poised(m, n, k, k) /\ Room(k.self, Take)
    BY <1>1, <2>1, <2>2, PoisedIs, RoomKept
  <2> QED
    BY <1>3, <2>1, <2>3, CommittedHolds
<1>7. ASSUME NoSelfRoom PROVE Hold' /\ HeldStep
  <2> DEFINE k == SwaPlaced(Hinted, Batch)
  <2>1. /\ Decoding /\ SwaRoom(Hinted, Batch)
        /\ \/ ~begun /\ Retry(GivenBack(k, Take))
           \/ \E c \in Compacted(k) :
                 \/ Room(c.self, Take) /\ Commit(c)
                 \/ GiveUp(GivenBack(c, Take))
    BY <1>7 DEF NoSelfRoom
  <2>2. PairGood(k, m, n) /\ IsBatch(Batch) /\ Len(Batch) = Take
    BY <1>1, <2>1, UbatchGood, BatchFacts DEF IInv
  <2>3. Poised(m, n, k, k) /\ \A c \in Compacted(k) : Poised(m, n, k, c)
    BY <1>1, <2>2, PoisedIs
  <2> HIDE DEF m, n
  <2>4. ASSUME NEW e, Poised(m, n, k, e)
        PROVE  PairGood(GivenBack(e, Take), m, n) /\ Retires(kv, GivenBack(e, Take), Batch)
    <3>1. PairGood(e, m, n)
      BY <2>4 DEF Poised
    <3>2. PairGood(GivenBack(e, Take), m, n)
      BY <1>1, <3>1, GivenBackGood
    <3>3. Retires(Hinted, GivenBack(e, Take), Batch)
      BY <1>1, <2>1, <2>2, <2>4, GivenBackRetires
    <3> QED
      BY <1>1, <3>2, <3>3, RetiresTwice
  <2> HIDE DEF k
  <2>5. CASE Retry(GivenBack(k, Take))
    <3>1. PairGood(GivenBack(k, Take), m, n) /\ Retires(kv, GivenBack(k, Take), Batch)
      BY <2>3, <2>4
    <3> QED
      BY <1>2, <2>1, <2>5, <3>1, RefusedHolds DEF m, n
  <2>6. ASSUME NEW c \in Compacted(k), Room(c.self, Take), Commit(c) PROVE Hold' /\ HeldStep
    BY <1>3, <2>1, <2>3, <2>6, CommittedHolds DEF m, n, k
  <2>7. ASSUME NEW c \in Compacted(k), GiveUp(GivenBack(c, Take)) PROVE Hold' /\ HeldStep
    <3>1. PairGood(GivenBack(c, Take), m, n) /\ Retires(kv, GivenBack(c, Take), Batch)
      BY <2>3, <2>4, <2>7
    <3> QED
      BY <1>2, <2>1, <2>7, <3>1, RefusedHolds DEF m, n
  <2> QED
    BY <2>1, <2>5, <2>6, <2>7
<1> QED
  BY <1>4, <1>5, <1>6, <1>7

LEMMA InitHold == Init => Hold
<1> SUFFICES ASSUME Init PROVE Hold
  OBVIOUS
<1>1. /\ boot.self \in Nat /\ boot.swa \in Nat /\ kv.self = Fresh(boot.self) /\ kv.swa = Fresh(boot.swa)
      /\ pend = <<>> /\ book = [s \in Slots |-> 0]
  BY Sizes DEF Init
<1>2. ASSUME NEW n \in Nat, NEW c, c = Fresh(n)
      PROVE  Alone(c) /\ \A s : PositionsOf(c, s) = {} /\ OneRowEach(c, s)
  <2>1. ASSUME NEW s PROVE Tagged(c, s) = {}
    BY <1>2 DEF Tagged, Rows, Fresh, Hole
  <2>2. \A s : PositionsOf(c, s) = {} /\ OneRowEach(c, s)
    BY <2>1 DEF PositionsOf, OneRowEach
  <2>3. Alone(c)
    BY <1>2 DEF Alone, Rows, Fresh, Hole
  <2> QED
    BY <2>2, <2>3
<1>3. ASSUME NEW s \in Slots PROVE Decoded(s) = 0
  BY <1>1, NonePending DEF Decoded
<1>4. \A s \in Slots : SlotOk(PositionsOf(kv.self, s), PositionsOf(kv.swa, s), Decoded(s),
                              s \notin torn, boot.swa > 0)
  <2>1. ASSUME NEW s \in Slots
        PROVE  PositionsOf(kv.self, s) = {} /\ PositionsOf(kv.swa, s) = {} /\ Decoded(s) = 0
    BY <1>1, <1>2, <1>3
  <2> QED
    BY <2>1, NothingOk
<1>5. Tidy(kv) /\ Lone(kv)
  BY <1>1, <1>2 DEF Tidy, Lone
<1> QED
  BY <1>4, <1>5 DEF Hold

LEMMA StepHold ==
    ASSUME IInv, [Next]_vars
    PROVE  IInv' /\ (HeldStep \/ UNCHANGED kv)
<1>1. IType'
  BY StepType DEF IInv
<1>2. CASE UNCHANGED vars
  <2>1. boot' = boot /\ kv' = kv /\ book' = book /\ torn' = torn /\ pend' = pend
    BY <1>2 DEF vars
  <2>2. \A s \in Slots : Decoded(s)' = Decoded(s)
    BY <2>1, PendingIs, PendingNext DEF Decoded
  <2>3. Hold'
    BY <2>1, <2>2, BookOnlyHolds
  <2>4. Apart'
    BY <2>1 DEF IInv, Apart, Unshared
  <2> QED
    BY <1>1, <2>1, <2>3, <2>4 DEF IInv
<1>3. CASE Next
  <2>1. boot' = boot
    <3>1. ASSUME NEW s \in Slots
          PROVE  /\ Release(s) => boot' = boot
                 /\ Erase(s) => boot' = boot
                 /\ \A keep, d : Shift(s, keep, d) => boot' = boot
                 /\ \A n : (AddSampled(s, n) \/ Verify(s, n)) => boot' = boot
                 /\ \A cached : Admit(s, cached) => boot' = boot
                 /\ \A t \in Slots : Fork(s, t) => boot' = boot
                 /\ \A n, last : AddPrompt(s, n, last) => boot' = boot
      <4>1. \A r, cached : GoesOn(s, r, cached) => boot' = boot
        BY DEF GoesOn
      <4>2. /\ \A cached : Admit(s, cached) => boot' = boot
            /\ \A t \in Slots : Fork(s, t) => boot' = boot
        BY <4>1, Zenon DEF Admit, Fork
      <4>3. \A keep, d : Shift(s, keep, d) => boot' = boot
        BY Zenon DEF Shift
      <4> QED
        BY <4>2, <4>3 DEF Release, Erase, AddSampled, Verify, AddPrompt
    <3>2. \A k : (Retry(k) \/ GiveUp(k) \/ Commit(k)) => boot' = boot
      BY DEF Retry, GiveUp, Commit
    <3>3. TooMany \/ NoSwaRoom \/ Decode \/ NoSelfRoom => boot' = boot
      BY <3>2, Zenon DEF TooMany, NoSwaRoom, Decode, NoSelfRoom, Refuse
    <3> QED
      BY <1>3, <3>1, <3>3, Zenon DEF Next
  <2>2. Apart'
    BY <2>1 DEF IInv, Apart, Unshared
  <2>3. Hold' /\ HeldStep
    <3>1. ASSUME NEW s \in Slots, Release(s) PROVE Hold' /\ HeldStep
      BY <3>1, AddingHolds
    <3>2. ASSUME NEW s \in Slots, Erase(s) PROVE Hold' /\ HeldStep
      BY <3>2, EraseHolds
    <3>3. ASSUME NEW s \in Slots, NEW keep \in 1..MaxKeep, NEW d \in 1..MaxDrop, Shift(s, keep, d)
          PROVE  Hold' /\ HeldStep
      BY <3>3, ShiftHolds
    <3>4. ASSUME NEW s \in Slots, NEW n \in 0..MaxDraft, AddSampled(s, n) PROVE Hold' /\ HeldStep
      BY <3>4, AddingHolds
    <3>5. ASSUME NEW s \in Slots, NEW n \in 0..MaxDraft, Verify(s, n) PROVE Hold' /\ HeldStep
      BY <3>5, VerifyHolds
    <3>6. ASSUME NEW s \in Slots, NEW cached \in BOOLEAN, Admit(s, cached) PROVE Hold' /\ HeldStep
      BY <3>6, AdmitHolds
    <3>7. ASSUME NEW s \in Slots, NEW t \in Slots, Fork(s, t) PROVE Hold' /\ HeldStep
      BY <3>7, ForkHolds
    <3>8. ASSUME NEW s \in Slots, NEW n \in 1..NBatch, NEW last \in BOOLEAN, AddPrompt(s, n, last)
          PROVE  Hold' /\ HeldStep
      BY <3>8, AddingHolds
    <3>9. CASE TooMany \/ NoSwaRoom \/ Decode \/ NoSelfRoom
      BY <3>9, CallHolds
    <3> QED
      BY <1>3, <3>1, <3>2, <3>3, <3>4, <3>5, <3>6, <3>7, <3>8, <3>9, Zenon DEF Next
  <2> QED
    BY <1>1, <2>2, <2>3 DEF IInv
<1> QED
  BY <1>2, <1>3

\* The invariant, of every run whose levers are apart.
THEOREM HoldInvariance == Spec /\ Apart => []IInv
<1>1. Init /\ Apart => IInv
  BY InitType, InitHold DEF IInv
<1>2. IInv /\ [Next]_vars => IInv'
  BY StepHold
<1> QED
  BY <1>1, <1>2, PTL DEF Spec

-----------------------------------------------------------------------------
(* What the slots rely on                                                  *)

\* Whatever is shared, trimmed, shifted, refused or compacted, the book of a
\* slot lists exactly the positions it holds, each in one cell.
THEOREM BooksAreHeld == Spec /\ Apart => []BookIsHeld
<1>1. ASSUME IInv PROVE BookIsHeld
  <2>1. ASSUME NEW s \in Slots \ torn
        PROVE  /\ PositionsOf(kv.self, s) = 0..(Decoded(s) - 1)
               /\ OneRowEach(kv.self, s)
    BY <1>1, HoldFacts DEF SlotOk, Tidy
  <2> QED
    BY <2>1, Zenon DEF BookIsHeld
<1> QED
  BY <1>1, HoldInvariance, PTL

\* The sliding cache never holds a token that the main one has not.
THEOREM CachesStayAlike == Spec /\ Apart => []CachesAgree
<1>1. ASSUME IInv PROVE CachesAgree
  <2>1. ASSUME NEW s \in Slots
        PROVE  /\ PositionsOf(kv.swa, s) \subseteq PositionsOf(kv.self, s)
               /\ OneRowEach(kv.swa, s)
    BY <1>1, HoldFacts DEF SlotOk, Tidy
  <2> QED
    BY <2>1, Zenon DEF CachesAgree
<1> QED
  BY <1>1, HoldInvariance, PTL

\* The next query of a slot finds its window, whatever was evicted for whom.
THEOREM WindowsAreHeld == Spec /\ Apart => []WindowIsHeld
<1>1. ASSUME IInv PROVE WindowIsHeld
  <2>1. ASSUME SwaActive(kv), NEW s \in Slots \ torn
        PROVE  Max({0, Decoded(s) - Window + 1})..(Decoded(s) - 1) \subseteq PositionsOf(kv.swa, s)
    <3> DEFINE D == Decoded(s)
               W == PositionsOf(kv.swa, s)
               low == D - Window + 1
    <3>1. D \in Nat /\ Windowed(W, D)
      <4>1. boot.swa > 0
        BY <1>1, <2>1, HoldFacts, ActiveIs
      <4> QED
        BY <1>1, <2>1, <4>1, HoldFacts DEF SlotOk
    <3>2. PICK a \in 0..D : W = a..(D - 1) /\ (a = 0 \/ a <= low)
      BY <3>1 DEF Windowed
    <3>3. low \in Int
      BY <3>1, BoundsAssumption
    <3> HIDE DEF low, W, D
    <3>4. Max({0, low}) = IF low >= 0 THEN low ELSE 0
      BY <3>3, GreaterOfZero
    <3>5. Max({0, low})..(D - 1) \subseteq W
      BY <3>1, <3>2, <3>3, <3>4
    <3> QED
      BY <3>5 DEF low, W, D
  <2> QED
    BY <2>1 DEF WindowIsHeld
<1> QED
  BY <1>1, HoldInvariance, PTL

-----------------------------------------------------------------------------
(* The promise of the caches                                               *)

Held == [s \in Slots |-> PositionsOf(kv.self, s)]

LEMMA RefinesInit == Init => Promise!Init
<1> SUFFICES ASSUME Init PROVE Promise!Init
  OBVIOUS
<1>1. \A s \in Slots : PositionsOf(kv.self, s) = {}
  <2>1. kv.self = Fresh(boot.self)
    BY DEF Init
  <2>2. ASSUME NEW s \in Slots PROVE Tagged(kv.self, s) = {}
    BY <2>1 DEF Tagged, Rows, Fresh, Hole
  <2> QED
    BY <2>2 DEF PositionsOf
<1> QED
  BY <1>1 DEF Promise!Init

LEMMA RefinesNext ==
    ASSUME IInv, IInv', HeldStep \/ UNCHANGED kv
    PROVE  Promise!Next \/ UNCHANGED Held
<1>1. \A s \in Slots : PositionsOf(kv.self, s) \subseteq Positions
  BY HoldFacts
<1>2. \A s \in Slots : PositionsOf(kv'.self, s) \subseteq Positions
  <2>1. Good(boot'.self, kv'.self) /\ boot'.self \in Nat
    <3>1. boot' \in Boots /\ PairGood(kv', boot'.self, boot'.swa)
      BY DEF IInv, IType, Work, WorkType, Kept
    <3> QED
      BY <3>1, Sizes DEF PairGood
  <2> QED
    BY <2>1, HoldsIs DEF Good
<1>3. Held \in [Slots -> SUBSET Positions] /\ Held' \in [Slots -> SUBSET Positions]
  BY <1>1, <1>2 DEF Held
<1>4. /\ \A s \in Slots : Held[s] = PositionsOf(kv.self, s)
      /\ \A s \in Slots : Held'[s] = PositionsOf(kv'.self, s)
  BY DEF Held
<1>5. CASE UNCHANGED kv
  BY <1>5 DEF Held
<1>6. CASE HeldSame
  BY <1>6 DEF HeldSame, Held
<1>7. CASE HeldExtend
  <2>1. Promise!Extend
    BY <1>3, <1>4, <1>7 DEF HeldExtend, Promise!Extend, Held, Promise!Positions, Positions
  <2> QED
    BY <2>1 DEF Promise!Next
<1>8. ASSUME NEW s \in Slots, HeldBut(s) PROVE Promise!Edits(s)
  BY <1>3, <1>4, <1>8 DEF HeldBut, Promise!Edits, Held, Promise!Positions, Positions
<1>9. ASSUME NEW s \in Slots, HeldClosed(s) PROVE Promise!Next
  <2> DEFINE H == PositionsOf(kv.self, s)
             I == PositionsOf(kv'.self, s)
  <2>1. PICK keep \in 0..End, p \in 0..End :
            \E d \in 0..(End - keep) : I = {q \in Closed(H, keep, d) : q < p}
    BY <1>9, Zenon DEF HeldClosed, ClosedBelow
  <2>2. PICK d \in 0..(End - keep) : I = {q \in Closed(H, keep, d) : q < p}
    BY <2>1
  <2>3. /\ keep \in 0..(MaxPos + 1) /\ p \in 0..(MaxPos + 1) /\ d \in 0..(MaxPos + 1 - keep)
        /\ keep \in Nat /\ d \in Nat
    BY BoundsAssumption DEF End
  <2>4. Held[s] = H /\ Held'[s] = I /\ H \subseteq Positions
    BY <1>1, <1>4
  <2> HIDE DEF H, I
  <2>5. Closed(H, keep, d) =
            {q \in H : q < keep} \cup {q - d : q \in H \ {x \in H : x < keep + d}}
    <3>1. \A q \in H : q \in Nat
      BY <2>4, BoundsAssumption DEF Positions
    <3>2. {q \in H : q >= keep + d} = H \ {x \in H : x < keep + d}
      BY <2>3, <3>1
    <3> QED
      BY <3>2 DEF Closed
  <2>6. Promise!Slide(s, keep, d, p)
    BY <2>2, <2>4, <2>5 DEF Promise!Slide, Promise!Moved, Promise!Below, Held
  <2>7. Promise!Edits(s)
    BY <1>8, <1>9 DEF HeldClosed
  <2> QED
    BY <2>3, <2>6, <2>7 DEF Promise!Next
<1>10. ASSUME NEW s \in Slots, NEW t \in Slots, NEW p \in Positions, HeldTake(s, t, p)
       PROVE  Promise!Next
  <2>1. Promise!Take(s, t, p)
    BY <1>4, <1>10 DEF HeldTake, Promise!Take, Held
  <2>2. Promise!Edits(s)
    BY <1>8, <1>10 DEF HeldTake
  <2> QED
    BY <2>1, <2>2 DEF Promise!Next, Promise!Positions, Positions
<1> QED
  BY <1>5, <1>6, <1>7, <1>8, <1>9, <1>10 DEF HeldStep

\* Shared by a fork or not, every step edits the positions of one slot, or only
\* adds positions beyond the ones a slot holds.
THEOREM KeepsPromptCache == Spec /\ Apart => ImplementsPromptCache
  BY RefinesInit, RefinesNext, HoldInvariance, StepHold, PTL DEF Spec, ImplementsPromptCache, Promise!Spec, Held
=============================================================================
