--------------------------- MODULE XCacheAsyncProofs ---------------------------
(***************************************************************************)
(* The rendezvous of the expert cache, proved for any layers, devices,     *)
(* widths and number of requests: types, and that a card merges the rows   *)
(* of its own request only.  The argument is that a layer has at most one  *)
(* request the worker has not answered, the one its card waits for.        *)
(***************************************************************************)
EXTENDS XCacheAsync, FiniteSetTheorems, TLAPS

-----------------------------------------------------------------------------
(* The inductive invariant *)

(* The worker is in serve() for layer l. *)
Serving(l) == worker.at \in {"run", "publish"} /\ Here = l

(* The last request of l the worker has answered: while it is about to note *)
(* one, that one.                                                           *)
Answered(l) == IF worker.at = "note" /\ Here = l THEN worker.r.q ELSE seen[l]

(* The card is in the wait of a cold request of l, or about to submit to l. *)
InCold(d, l) == card[d].at = "wait" /\ card[d].l = l /\ card[d].cold
Raising(l) == card[DeviceOf[l]].at = "raise" /\ card[DeviceOf[l]].l = l
Pending(l) == InCold(DeviceOf[l], l)

(* A card is in layers of its own device only, in a width that is there. *)
CardHome == \A d \in Devices : card[d].at # "idle" =>
                DeviceOf[card[d].l] = d /\ <<card[d].l, card[d].w>> \in subs

(* The inputs in the slot are those of the last request, or of the next one *)
(* when its kernel has only copied them.                                    *)
InputCurrent == \A l \in Layers : input[l] = IF Raising(l) THEN seq[l] + 1 ELSE seq[l]

(* No flag is ahead of the counter. *)
FlagsBehind ==
    /\ \A l \in Layers : done[l] <= seq[l] /\ Answered(l) <= seq[l]
    /\ \A l \in Layers : Pending(l) => req[l].q = seq[l] /\ <<l, req[l].w>> \in subs

(* A request that is not answered is the one its card waits for; once it is *)
(* answered, the rows are its rows.                                         *)
OneOutstanding ==
    \A l \in Layers :
        /\ req[l].q # Answered(l) => Pending(l) /\ done[l] # seq[l]
        /\ req[l].q = Answered(l) /\ Pending(l) => done[l] = seq[l] /\ rows[l] = seq[l]

(* The worker serves the request that is not answered. *)
ServesCurrent ==
    worker.at \in {"run", "publish"} =>
        /\ worker.r = req[Here] /\ req[Here].q # seen[Here]
        /\ worker.at = "publish" => rows[Here] = req[Here].q

(* What is merged is the card's own. *)
MergesOwn ==
    \A d \in Devices : card[d].at = "merge" /\ card[d].cold => rows[card[d].l] = seq[card[d].l]

Rendezvous ==
    CardHome /\ InputCurrent /\ FlagsBehind /\ OneOutstanding /\ ServesCurrent /\ MergesOwn

-----------------------------------------------------------------------------
(* Type correctness *)

(* A table without duplicates is no longer than there are layers. *)
LEMMA TableFits ==
    ASSUME NEW t \in Seq(Layers), \A i, j \in DOMAIN t : t[i] = t[j] => i = j
    PROVE  Len(t) <= Cardinality(Layers) /\ t \in Table
<1>1. t \in Injection(1..Len(t), Layers)
  BY DEF Injection, IsInjective
<1>2. IsFiniteSet(1..Len(t)) /\ Cardinality(1..Len(t)) = Len(t)
  <2>1. Len(t) \in Nat
    OBVIOUS
  <2>. QED
    BY <2>1, FS_Interval
<1>3. Len(t) <= Cardinality(Layers)
  BY <1>1, <1>2, FS_Injection, XCacheAssumption
<1>4. Cardinality(Layers) \in Nat
  BY FS_CardinalityType, XCacheAssumption
<1>5. t \in [1..Len(t) -> Layers] /\ Len(t) \in 0..Cardinality(Layers)
  BY <1>3, <1>4
<1>. QED
  BY <1>3, <1>5 DEF Table

LEMMA TableIsSeq ==
    ASSUME NEW t \in Table
    PROVE  t \in Seq(Layers) /\ \A i, j \in DOMAIN t : t[i] = t[j] => i = j
<1>1. PICK n \in 0..Cardinality(Layers) : t \in [1..n -> Layers]
  BY DEF Table
<1>2. Cardinality(Layers) \in Nat
  BY FS_CardinalityType, XCacheAssumption
<1>3. n \in Nat
  BY <1>1, <1>2
<1>. QED
  BY <1>1, <1>3 DEF Table

(* Records that change in one field, written out. *)
LEMMA CardMoves ==
    ASSUME TypeOK, NEW d \in Devices, card[d].at \in {"raise", "wait", "merge"},
           NEW b, card' = [card EXCEPT ![d].at = b]
    PROVE  /\ card[d].l \in Layers /\ card[d].w \in Widths /\ card[d].cold \in BOOLEAN
           /\ card' = [card EXCEPT ![d] =
                 [at |-> b, l |-> card[d].l, w |-> card[d].w, cold |-> card[d].cold]]
<1>1. card[d] \in [at : {"raise", "wait", "merge"}, l : Layers, w : Widths, cold : BOOLEAN]
  BY DEF TypeOK, CardAt, Idle
<1>2. PICK a \in {"raise", "wait", "merge"}, l \in Layers, w \in Widths, cold \in BOOLEAN :
           card[d] = [at |-> a, l |-> l, w |-> w, cold |-> cold]
  BY <1>1
<1>3. [card[d] EXCEPT !.at = b] = [[at |-> a, l |-> l, w |-> w, cold |-> cold] EXCEPT !.at = b]
  BY <1>2, Zenon
<1>4. [card[d] EXCEPT !.at = b] = [at |-> b, l |-> l, w |-> w, cold |-> cold]
  <2>1. [[at |-> a, l |-> l, w |-> w, cold |-> cold] EXCEPT !.at = b]
          = [at |-> b, l |-> l, w |-> w, cold |-> cold]
    OBVIOUS
  <2>. QED
    BY <1>3, <2>1, Zenon
<1>5. card[d].l = l /\ card[d].w = w /\ card[d].cold = cold
  BY <1>2
<1>6. card' = [card EXCEPT ![d] = [at |-> b, l |-> l, w |-> w, cold |-> cold]]
  BY <1>4, Zenon
<1>. QED
  BY <1>2, <1>5, <1>6, Zenon

LEMMA WorkerServes ==
    ASSUME TypeOK, worker.at \in {"run", "publish", "note"},
           NEW b, worker' = [worker EXCEPT !.at = b]
    PROVE  worker' = [at |-> b, i |-> worker.i, n |-> worker.n, r |-> worker.r]
<1>1. worker \in [at : {"run", "publish", "note"}, i : 1..Len(table), n : 1..Len(table), r : Request]
  BY DEF TypeOK, WorkerAt
<1>2. PICK a \in {"run", "publish", "note"}, i \in 1..Len(table), n \in 1..Len(table), r \in Request :
           worker = [at |-> a, i |-> i, n |-> n, r |-> r]
  BY <1>1
<1>3. worker' = [[at |-> a, i |-> i, n |-> n, r |-> r] EXCEPT !.at = b]
  BY <1>2, Zenon
<1>4. [[at |-> a, i |-> i, n |-> n, r |-> r] EXCEPT !.at = b] = [at |-> b, i |-> i, n |-> n, r |-> r]
  OBVIOUS
<1>5. worker.i = i /\ worker.n = n /\ worker.r = r
  BY <1>2
<1>. QED
  BY <1>3, <1>4, <1>5, Zenon

LEMMA WorkerScans ==
    ASSUME TypeOK, worker.at = "scan", NEW j, worker' = [worker EXCEPT !.i = j]
    PROVE  worker' = [at |-> "scan", i |-> j, n |-> worker.n]
<1>1. worker \in [at : {"scan"}, i : Nat \ {0}, n : 0..Len(table)]
  BY DEF TypeOK, WorkerAt
<1>2. PICK i \in Nat \ {0}, n \in 0..Len(table) : worker = [at |-> "scan", i |-> i, n |-> n]
  BY <1>1
<1>3. worker' = [[at |-> "scan", i |-> i, n |-> n] EXCEPT !.i = j]
  BY <1>2, Zenon
<1>4. [[at |-> "scan", i |-> i, n |-> n] EXCEPT !.i = j] = [at |-> "scan", i |-> j, n |-> n]
  OBVIOUS
<1>5. worker.n = n
  BY <1>2
<1>. QED
  BY <1>3, <1>4, <1>5, Zenon

LEMMA TypeInit == Init => TypeOK
<1> SUFFICES ASSUME Init PROVE TypeOK
  OBVIOUS
<1>1. table \in Table
  <2>1. <<>> \in Seq(Layers) /\ \A i, j \in DOMAIN <<>> : <<>>[i] = <<>>[j] => i = j
    OBVIOUS
  <2>. QED
    BY <2>1, TableFits DEF Init
<1>2. 0 \in Numbers
  BY XCacheAssumption DEF Numbers
<1>3. table = <<>> /\ Len(table) = 0
  BY DEF Init
<1>4. [q |-> 0, w |-> 0] \in Request
  BY <1>2 DEF Request
<1>5. worker \in WorkerAt
  BY DEF Init, WorkerAt
<1>6. card \in [Devices -> CardAt]
  BY DEF Init, CardAt
<1>7. shown \in 0..Len(table) /\ subs \subseteq Layers \X Widths
  BY <1>3 DEF Init
<1>. QED
  BY <1>1, <1>2, <1>4, <1>5, <1>6, <1>7 DEF Init, TypeOK

LEMMA TypeStep == TypeOK /\ CardHome /\ InputCurrent /\ [Next]_vars => TypeOK'
<1> SUFFICES ASSUME TypeOK, CardHome, InputCurrent, [Next]_vars PROVE TypeOK'
  OBVIOUS
<1> USE XCacheAssumption
<1>. table \in Seq(Layers)
  BY TableIsSeq DEF TypeOK
<1>1. ASSUME NEW l \in Layers, PutLayer(l) PROVE TypeOK'
  <2>1. table' \in Seq(Layers) /\ Len(table') = Len(table) + 1
    BY <1>1 DEF PutLayer
  <2>2. \A i, j \in DOMAIN table' : table'[i] = table'[j] => i = j
    <3>1. \A i, j \in DOMAIN table : table[i] = table[j] => i = j
      BY TableIsSeq DEF TypeOK
    <3>2. table' = Append(table, l) /\ \A i \in DOMAIN table : table[i] # l
      BY <1>1 DEF PutLayer
    <3>3. \A i \in DOMAIN table' :
             IF i = Len(table) + 1 THEN table'[i] = l ELSE i \in DOMAIN table /\ table'[i] = table[i]
      BY <3>2
    <3>. QED
      BY <3>1, <3>2, <3>3
  <2>3. table' \in Table
    BY <2>1, <2>2, TableFits
  <2>4. worker' \in WorkerAt'
    BY <1>1, <2>1 DEF PutLayer, TypeOK, WorkerAt
  <2>. QED
    BY <1>1, <2>1, <2>3, <2>4 DEF PutLayer, TypeOK, slotVars
<1>2. CASE ShowLayer
  BY <1>2 DEF ShowLayer, TypeOK, slotVars, WorkerAt
<1>3. ASSUME NEW l \in Layers, NEW w \in Widths, AddWidth(l, w) PROVE TypeOK'
  BY <1>3 DEF AddWidth, TypeOK, slotVars, WorkerAt
<1>4. ASSUME NEW l \in Layers, NEW w \in Widths, NEW cold \in BOOLEAN, CopyIn(l, w, cold)
      PROVE  TypeOK'
  <2>1. seq[l] + 1 \in Numbers
    BY <1>4 DEF CopyIn, TypeOK, Numbers
  <2>. QED
    BY <1>4, <2>1 DEF CopyIn, TypeOK, CardAt, WorkerAt
<1>5. ASSUME NEW d \in Devices, Card(d) PROVE TypeOK'
  <2>1. CASE Raise(d)
    <3>1. /\ card[d].l \in Layers /\ card[d].w \in Widths /\ card[d].cold \in BOOLEAN
          /\ card' = [card EXCEPT ![d] =
                [at |-> "wait", l |-> card[d].l, w |-> card[d].w, cold |-> card[d].cold]]
      BY <2>1, CardMoves, Zenon DEF Raise
    <3>2. seq[card[d].l] + 1 \in Numbers
      <4>1. DeviceOf[card[d].l] = d
        BY <2>1, Zenon DEF Raise, CardHome
      <4>2. Raising(card[d].l)
        BY <2>1, <4>1 DEF Raise, Raising
      <4>3. input[card[d].l] = seq[card[d].l] + 1
        BY <3>1, <4>2 DEF InputCurrent
      <4>. QED
        BY <3>1, <4>3 DEF TypeOK
    <3>3. req' \in [Layers -> Request] /\ done' \in [Layers -> Numbers]
      <4>1. [q |-> seq[card[d].l] + 1, w |-> card[d].w] \in Request
        BY <3>1, <3>2 DEF Request
      <4>2. IF card[d].cold
            THEN req' = [req EXCEPT ![card[d].l] = [q |-> seq[card[d].l] + 1, w |-> card[d].w]]
                 /\ done' = done
            ELSE done' = [done EXCEPT ![card[d].l] = seq[card[d].l] + 1] /\ req' = req
        BY <2>1, Zenon DEF Raise
      <4>. QED
        BY <3>1, <3>2, <4>1, <4>2 DEF TypeOK
    <3>4. seq' \in [Layers -> Numbers]
      BY <2>1, <3>1, <3>2 DEF Raise, TypeOK
    <3>5. card' \in [Devices -> CardAt]
      BY <3>1 DEF TypeOK, CardAt
    <3>. QED
      BY <2>1, <3>3, <3>4, <3>5 DEF Raise, TypeOK, WorkerAt
  <2>2. CASE Wait(d)
    <3>1. /\ card[d].l \in Layers /\ card[d].w \in Widths /\ card[d].cold \in BOOLEAN
          /\ card' = [card EXCEPT ![d] =
                [at |-> "merge", l |-> card[d].l, w |-> card[d].w, cold |-> card[d].cold]]
      BY <2>2, CardMoves, Zenon DEF Wait
    <3>2. card' \in [Devices -> CardAt]
      BY <3>1 DEF TypeOK, CardAt
    <3>. QED
      BY <2>2, <3>2 DEF Wait, TypeOK, slotVars, WorkerAt
  <2>3. CASE Merge(d)
    BY <2>3 DEF Merge, TypeOK, slotVars, CardAt, WorkerAt
  <2>. QED
    BY <1>5, <2>1, <2>2, <2>3 DEF Card
<1>6. CASE Worker
  <2>1. CASE Top
    BY <2>1 DEF Top, At, WorkerOnly, TypeOK, slotVars, WorkerAt
  <2>2. CASE Look
    <3>1. worker.i \in 1..Len(table) /\ worker.n \in 1..Len(table) /\ Here \in Layers
      BY <2>2 DEF Look, At, Here, TypeOK, WorkerAt
    <3>2. CASE req[Here].q # seen[Here]
      BY <2>2, <3>1, <3>2 DEF Look, At, WorkerOnly, TypeOK, slotVars, WorkerAt
    <3>3. CASE req[Here].q = seen[Here]
      <4>1. worker' = [at |-> "scan", i |-> worker.i + 1, n |-> worker.n]
        BY <2>2, <3>3, WorkerScans, Zenon DEF Look, At
      <4>. QED
        BY <2>2, <3>1, <4>1 DEF Look, WorkerOnly, TypeOK, slotVars, WorkerAt
    <3>. QED
      BY <3>2, <3>3
  <2>3. CASE PassEnds
    BY <2>3 DEF PassEnds, At, WorkerOnly, TypeOK, slotVars, WorkerAt
  <2>4. CASE Run
    <3>1. worker' = [at |-> "publish", i |-> worker.i, n |-> worker.n, r |-> worker.r]
      BY <2>4, WorkerServes, Zenon DEF Run, At
    <3>2. worker' \in WorkerAt'
      BY <2>4, <3>1 DEF Run, At, TypeOK, WorkerAt
    <3>3. rows' \in [Layers -> Numbers]
      BY <2>4 DEF Run, At, Here, TypeOK, WorkerAt
    <3>. QED
      BY <2>4, <3>2, <3>3 DEF Run, TypeOK
  <2>5. CASE Publish
    <3>1. worker' = [at |-> "note", i |-> worker.i, n |-> worker.n, r |-> worker.r]
      BY <2>5, WorkerServes, Zenon DEF Publish, At
    <3>2. worker' \in WorkerAt'
      BY <2>5, <3>1 DEF Publish, At, TypeOK, WorkerAt
    <3>3. done' \in [Layers -> Numbers]
      BY <2>5 DEF Publish, At, Here, TypeOK, WorkerAt, Request
    <3>. QED
      BY <2>5, <3>2, <3>3 DEF Publish, TypeOK
  <2>6. CASE Note
    BY <2>6 DEF Note, At, Here, WorkerOnly, TypeOK, slotVars, WorkerAt, Request
  <2>. QED
    BY <1>6, <2>1, <2>2, <2>3, <2>4, <2>5, <2>6 DEF Worker
<1>7. CASE Abort
  BY <1>7 DEF Abort, TypeOK, slotVars, WorkerAt
<1>8. CASE Stop
  BY <1>8 DEF Stop, TypeOK, slotVars, WorkerAt
<1>9. CASE UNCHANGED vars
  BY <1>9 DEF vars, slotVars, TypeOK, WorkerAt
<1>. QED
  BY <1>1, <1>2, <1>3, <1>4, <1>5, <1>6, <1>7, <1>8, <1>9 DEF Next, Host, Launch

-----------------------------------------------------------------------------
(* The rendezvous is inductive *)

LEMMA RendezvousInit == Init => Rendezvous
BY XCacheAssumption DEF Init, Rendezvous, CardHome, InputCurrent, FlagsBehind, OneOutstanding,
   ServesCurrent, MergesOwn, Raising, Pending, InCold, Answered, Idle

(* The steps of the thread that builds graphs, a card that begins, ... *)
LEMMA HostKeeps == TypeOK /\ Rendezvous /\ Host => Rendezvous'
<1> SUFFICES ASSUME TypeOK, Rendezvous, Host PROVE Rendezvous'
  OBVIOUS
<1>1. UNCHANGED <<slotVars, card, worker, seen>> /\ subs \subseteq subs'
  BY DEF Host, PutLayer, ShowLayer, AddWidth
<1>2. worker.at \in {"run", "publish", "note"} => Here' = Here
  <2>1. CASE \E l \in Layers : PutLayer(l)
    <3>1. table \in Seq(Layers)
      BY TableIsSeq DEF TypeOK
    <3>2. PICK l \in Layers : table' = Append(table, l)
      BY <2>1 DEF PutLayer
    <3>3. worker.at \in {"run", "publish", "note"} => worker.i \in 1..Len(table)
      BY DEF TypeOK, WorkerAt
    <3>. QED
      BY <1>1, <3>1, <3>2, <3>3 DEF Here
  <2>2. CASE ~ \E l \in Layers : PutLayer(l)
    BY <1>1, <2>2 DEF Here, Host, ShowLayer, AddWidth
  <2>. QED
    BY <2>1, <2>2
<1>3. \A l \in Layers : Answered(l)' = Answered(l)
  BY <1>1, <1>2 DEF Answered
<1>. QED
  BY <1>1, <1>2, <1>3 DEF slotVars, Rendezvous, CardHome, InputCurrent, FlagsBehind,
     OneOutstanding, ServesCurrent, MergesOwn, Raising, Pending, InCold

LEMMA LaunchKeeps == TypeOK /\ Rendezvous /\ Launch => Rendezvous'
<1> SUFFICES ASSUME TypeOK, Rendezvous,
                    NEW l \in Layers, NEW w \in Widths, NEW cold \in BOOLEAN, CopyIn(l, w, cold)
             PROVE  Rendezvous'
  BY DEF Launch
<1> DEFINE d == DeviceOf[l]
<1>1. /\ d \in Devices /\ card[d].at = "idle" /\ <<l, w>> \in subs
      /\ card' = [card EXCEPT ![d] = [at |-> "raise", l |-> l, w |-> w, cold |-> cold]]
      /\ input' = [input EXCEPT ![l] = seq[l] + 1]
      /\ UNCHANGED <<table, shown, subs, seq, req, done, rows, worker, seen>>
  BY XCacheAssumption DEF CopyIn, Idle
<1>2. \A k \in Layers : Answered(k)' = Answered(k)
  BY <1>1 DEF Answered, Here
<1>3. \A k \in Layers : Pending(k)' = Pending(k)
  BY <1>1, XCacheAssumption DEF Pending, InCold, TypeOK
<1>4. \A k \in Layers \ {l} : Raising(k)' = Raising(k)
  BY <1>1, XCacheAssumption DEF Raising, TypeOK
<1>5. Raising(l)' /\ ~Raising(l)
  BY <1>1 DEF Raising, TypeOK
<1>6. CardHome' /\ MergesOwn'
  BY <1>1 DEF Rendezvous, CardHome, MergesOwn, TypeOK
<1>7. InputCurrent'
  BY <1>1, <1>4, <1>5 DEF Rendezvous, InputCurrent, TypeOK
<1>8. FlagsBehind' /\ OneOutstanding'
  BY <1>1, <1>2, <1>3 DEF Rendezvous, FlagsBehind, OneOutstanding
<1>9. ServesCurrent'
  BY <1>1 DEF Rendezvous, ServesCurrent, Here
<1>. QED
  BY <1>6, <1>7, <1>8, <1>9 DEF Rendezvous

(* ... raises a flag, ... *)
LEMMA RaiseKeeps ==
    ASSUME TypeOK, Rendezvous, NEW d \in Devices, Raise(d)
    PROVE  Rendezvous'
<1> DEFINE l == card[d].l
           q == seq[l] + 1
<1>1. /\ l \in Layers /\ card[d].w \in Widths /\ card[d].cold \in BOOLEAN
      /\ card' = [card EXCEPT ![d] =
            [at |-> "wait", l |-> l, w |-> card[d].w, cold |-> card[d].cold]]
  BY CardMoves, Zenon DEF Raise
<1>2. /\ card[d].at = "raise"
      /\ seq' = [seq EXCEPT ![l] = q]
      /\ UNCHANGED <<table, shown, subs, input, rows, worker, seen>>
  BY Zenon DEF Raise
<1>3. IF card[d].cold
      THEN req' = [req EXCEPT ![l] = [q |-> q, w |-> card[d].w]] /\ done' = done
      ELSE done' = [done EXCEPT ![l] = q] /\ req' = req
  BY Zenon DEF Raise
<1>4. DeviceOf[l] = d /\ <<l, card[d].w>> \in subs /\ Raising(l) /\ input[l] = q
  BY <1>1, <1>2 DEF Rendezvous, CardHome, InputCurrent, Raising
<1>5. ~Pending(l) /\ req[l].q = Answered(l) /\ Answered(l) <= seq[l] /\ done[l] <= seq[l]
  BY <1>1, <1>2, <1>4 DEF Pending, InCold, Rendezvous, OneOutstanding, FlagsBehind
<1>6. seq[l] \in Nat /\ q = seq[l] + 1 /\ done[l] \in Nat /\ Answered(l) \in Nat
  <2>1. seen[l] \in Nat
    BY <1>1 DEF TypeOK, Numbers
  <2>2. req[l].q \in Nat
    BY <1>1 DEF TypeOK, Numbers, Request
  <2>. QED
    BY <1>1, <1>5, <2>1, <2>2 DEF TypeOK, Numbers
<1>7. \A k \in Layers : Answered(k)' = Answered(k)
  BY <1>2 DEF Answered, Here
<1>8. \A k \in Layers \ {l} : Pending(k)' = Pending(k) /\ Raising(k)' = Raising(k)
  BY <1>1, <1>2, <1>4, XCacheAssumption DEF Pending, InCold, Raising, TypeOK
<1>9. (Pending(l)' <=> card[d].cold) /\ ~Raising(l)'
  BY <1>1, <1>4, XCacheAssumption DEF Pending, InCold, Raising, TypeOK
<1>10. CardHome'
  BY <1>1, <1>2, <1>4, XCacheAssumption DEF Rendezvous, CardHome, TypeOK
<1>11. InputCurrent'
  BY <1>1, <1>2, <1>4, <1>8, <1>9 DEF Rendezvous, InputCurrent, TypeOK
<1>12. FlagsBehind' /\ OneOutstanding'
  <2>1. ASSUME NEW k \in Layers, k # l
        PROVE  req'[k] = req[k] /\ done'[k] = done[k] /\ seq'[k] = seq[k] /\ rows'[k] = rows[k]
    BY <1>1, <1>2, <1>3, <2>1 DEF TypeOK
  <2>2. seq'[l] = q /\ (card[d].cold => req'[l].q = q /\ req'[l].w = card[d].w /\ done'[l] = done[l])
    BY <1>1, <1>2, <1>3 DEF TypeOK
  <2>3. ~card[d].cold => req'[l] = req[l] /\ done'[l] = q
    BY <1>1, <1>2, <1>3 DEF TypeOK
  <2>4. FlagsBehind'
    BY <1>1, <1>2, <1>4, <1>5, <1>6, <1>7, <1>8, <1>9, <2>1, <2>2, <2>3 DEF Rendezvous, FlagsBehind
  <2>5. OneOutstanding'
    BY <1>1, <1>5, <1>6, <1>7, <1>8, <1>9, <2>1, <2>2, <2>3 DEF Rendezvous, OneOutstanding
  <2>. QED
    BY <2>4, <2>5
<1>13. ServesCurrent'
  <2>1. worker.at \in {"run", "publish"} => Here \in Layers /\ Here # l
    <3>1. worker.at \in {"run", "publish"} => Here \in Layers /\ Answered(Here) = seen[Here]
      BY TableIsSeq DEF TypeOK, WorkerAt, Here, Answered
    <3>. QED
      BY <1>5, <3>1 DEF Rendezvous, ServesCurrent
  <2>2. \A k \in Layers : k # l => req'[k] = req[k]
    BY <1>1, <1>3 DEF TypeOK
  <2>. QED
    BY <1>2, <2>1, <2>2 DEF Rendezvous, ServesCurrent, Here
<1>14. MergesOwn'
  <2> SUFFICES ASSUME NEW e \in Devices, card'[e].at = "merge", card'[e].cold
               PROVE  rows'[card'[e].l] = seq'[card'[e].l]
    BY DEF MergesOwn
  <2>1. e # d /\ card'[e] = card[e]
    BY <1>1 DEF TypeOK
  <2>2. rows[card[e].l] = seq[card[e].l] /\ card[e].l # l
    BY <1>4, <2>1 DEF Rendezvous, MergesOwn, CardHome
  <2>3. card[e].l \in Layers
    BY <2>1 DEF TypeOK, CardAt, Idle
  <2>. QED
    BY <1>1, <1>2, <2>1, <2>2, <2>3 DEF TypeOK
<1>. QED
  BY <1>10, <1>11, <1>12, <1>13, <1>14 DEF Rendezvous

(* ... comes out of the wait, ... *)
LEMMA WaitKeeps ==
    ASSUME TypeOK, Rendezvous, NEW d \in Devices, Wait(d)
    PROVE  Rendezvous'
<1> DEFINE l == card[d].l
<1>1. /\ l \in Layers /\ card[d].w \in Widths /\ card[d].cold \in BOOLEAN
      /\ card' = [card EXCEPT ![d] =
            [at |-> "merge", l |-> l, w |-> card[d].w, cold |-> card[d].cold]]
  BY CardMoves, Zenon DEF Wait
<1>2. /\ card[d].at = "wait" /\ done[l] = seq[l]
      /\ UNCHANGED <<table, shown, subs, slotVars, worker, seen>>
  BY Zenon DEF Wait
<1>3. DeviceOf[l] = d
  BY <1>2, Zenon DEF Rendezvous, CardHome
<1>4. req[l].q = Answered(l) /\ (card[d].cold => rows[l] = seq[l])
  BY <1>1, <1>2, <1>3 DEF Pending, InCold, Rendezvous, OneOutstanding
<1>5. \A k \in Layers : Answered(k)' = Answered(k)
  BY <1>2 DEF Answered, Here
<1>6. \A k \in Layers : Raising(k)' = Raising(k) /\ (k # l => Pending(k)' = Pending(k))
  BY <1>1, <1>2, <1>3, XCacheAssumption DEF Pending, InCold, Raising, TypeOK
<1>7. ~Pending(l)'
  BY <1>1, <1>3 DEF Pending, InCold, TypeOK
<1>8. CardHome' /\ MergesOwn'
  BY <1>1, <1>2, <1>4 DEF Rendezvous, CardHome, MergesOwn, TypeOK, slotVars
<1>9. FlagsBehind' /\ OneOutstanding' /\ InputCurrent'
  BY <1>1, <1>2, <1>4, <1>5, <1>6, <1>7
  DEF Rendezvous, FlagsBehind, OneOutstanding, InputCurrent, slotVars
<1>10. ServesCurrent'
  BY <1>2 DEF Rendezvous, ServesCurrent, Here, slotVars
<1>. QED
  BY <1>8, <1>9, <1>10 DEF Rendezvous

(* ... and goes on. *)
LEMMA MergeKeeps ==
    ASSUME TypeOK, Rendezvous, NEW d \in Devices, Merge(d)
    PROVE  Rendezvous'
<1>1. /\ card[d].at = "merge" /\ card' = [card EXCEPT ![d] = Idle]
      /\ UNCHANGED <<table, shown, subs, slotVars, worker, seen>>
  BY DEF Merge
<1>2. \A k \in Layers : Answered(k)' = Answered(k)
  BY <1>1 DEF Answered, Here
<1>3. \A k \in Layers : Pending(k)' = Pending(k) /\ Raising(k)' = Raising(k)
  BY <1>1, XCacheAssumption DEF Pending, InCold, Raising, Idle, TypeOK
<1>4. CardHome' /\ MergesOwn'
  BY <1>1 DEF Rendezvous, CardHome, MergesOwn, Idle, TypeOK, slotVars
<1>. QED
  BY <1>1, <1>2, <1>3, <1>4
  DEF Rendezvous, FlagsBehind, OneOutstanding, InputCurrent, ServesCurrent, Here, slotVars

(* The worker moves over the table: what it has answered does not change. *)
LEMMA ScanKeeps == TypeOK /\ Rendezvous /\ (Top \/ Look \/ PassEnds) => Rendezvous'
<1> SUFFICES ASSUME TypeOK, Rendezvous, Top \/ Look \/ PassEnds PROVE Rendezvous'
  OBVIOUS
<1>1. /\ UNCHANGED <<table, shown, subs, slotVars, card, seen>>
      /\ worker.at \in {"top", "scan"}
  BY DEF Top, Look, PassEnds, At, WorkerOnly
<1>2. \/ worker'.at \in {"top", "scan", "gone"}
      \/ /\ worker'.at = "run" /\ worker'.i = worker.i /\ worker'.r = req[Here]
         /\ req[Here].q # seen[Here]
  <2>1. CASE Look /\ req[Here].q = seen[Here]
    <3>1. worker' = [at |-> "scan", i |-> worker.i + 1, n |-> worker.n]
      BY <2>1, WorkerScans, Zenon DEF Look, At
    <3>. QED
      BY <3>1
  <2>2. CASE Look /\ req[Here].q # seen[Here]
    <3>1. worker' = [at |-> "run", i |-> worker.i, n |-> worker.n, r |-> req[Here]]
      BY <2>2, Zenon DEF Look
    <3>. QED
      BY <2>2, <3>1
  <2>3. CASE Top \/ PassEnds
    BY <2>3 DEF Top, PassEnds
  <2>. QED
    BY <2>1, <2>2, <2>3
<1>3. \A l \in Layers : Answered(l)' = Answered(l)
  BY <1>1, <1>2 DEF Answered
<1>4. ServesCurrent'
  BY <1>1, <1>2 DEF ServesCurrent, Here, slotVars
<1>. QED
  BY <1>1, <1>3, <1>4
  DEF Rendezvous, CardHome, InputCurrent, FlagsBehind, OneOutstanding, MergesOwn, Raising,
      Pending, InCold, slotVars

(* While it serves a layer, the request is the one the card waits for. *)
LEMMA ServedIsPending ==
    ASSUME TypeOK, Rendezvous, worker.at \in {"run", "publish"}
    PROVE  /\ Here \in Layers /\ worker.r = req[Here] /\ worker.r.q = seq[Here]
           /\ Pending(Here) /\ done[Here] # seq[Here] /\ <<Here, worker.r.w>> \in subs
           /\ input[Here] = seq[Here] /\ seq[Here] \in Nat
<1>1. Here \in Layers /\ Answered(Here) = seen[Here]
  BY TableIsSeq DEF TypeOK, WorkerAt, Here, Answered
<1>2. worker.r = req[Here] /\ req[Here].q # seen[Here]
  BY DEF Rendezvous, ServesCurrent
<1>3. Pending(Here) /\ done[Here] # seq[Here]
  BY <1>1, <1>2 DEF Rendezvous, OneOutstanding
<1>4. req[Here].q = seq[Here] /\ <<Here, req[Here].w>> \in subs
  BY <1>1, <1>3 DEF Rendezvous, FlagsBehind
<1>5. ~Raising(Here)
  BY <1>3 DEF Raising, Pending, InCold
<1>. QED
  BY <1>1, <1>2, <1>3, <1>4, <1>5 DEF Rendezvous, InputCurrent, TypeOK, Numbers

LEMMA RunKeeps == TypeOK /\ Rendezvous /\ Run => Rendezvous'
<1> SUFFICES ASSUME TypeOK, Rendezvous, Run PROVE Rendezvous'
  OBVIOUS
<1>1. worker' = [at |-> "publish", i |-> worker.i, n |-> worker.n, r |-> worker.r]
  BY WorkerServes, Zenon DEF Run, At
<1>2. /\ worker.at = "run" /\ rows' = [rows EXCEPT ![Here] = input[Here]]
      /\ UNCHANGED <<table, shown, subs, seq, input, req, done, card, seen>>
  BY Zenon DEF Run, At
<1>3. Here' = Here /\ \A l \in Layers : Answered(l)' = Answered(l)
  BY <1>1, <1>2 DEF Here, Answered
<1>4. /\ Here \in Layers /\ worker.r = req[Here] /\ worker.r.q = seq[Here] /\ Pending(Here)
      /\ done[Here] # seq[Here] /\ input[Here] = seq[Here]
  BY <1>2, ServedIsPending
<1>5. ServesCurrent'
  BY <1>1, <1>2, <1>3, <1>4 DEF Rendezvous, ServesCurrent, TypeOK
<1>6. \A l \in Layers : Pending(l)' = Pending(l) /\ Raising(l)' = Raising(l)
  BY <1>2 DEF Pending, InCold, Raising
<1>7. OneOutstanding'
  BY <1>2, <1>3, <1>4, <1>6 DEF Rendezvous, OneOutstanding, TypeOK
<1>8. MergesOwn'
  <2> SUFFICES ASSUME NEW d \in Devices, card[d].at = "merge", card[d].cold
               PROVE  rows'[card[d].l] = seq[card[d].l]
    BY <1>2 DEF MergesOwn
  <2>1. DeviceOf[card[d].l] = d /\ card[d].l \in Layers
    BY DEF Rendezvous, CardHome, TypeOK, CardAt, Idle
  <2>2. card[d].l # Here
    BY <1>4, <2>1 DEF Pending, InCold
  <2>. QED
    BY <1>2, <2>1, <2>2 DEF Rendezvous, MergesOwn, TypeOK
<1>. QED
  BY <1>2, <1>3, <1>5, <1>6, <1>7, <1>8 DEF Rendezvous, CardHome, InputCurrent, FlagsBehind

LEMMA PublishKeeps == TypeOK /\ Rendezvous /\ Publish => Rendezvous'
<1> SUFFICES ASSUME TypeOK, Rendezvous, Publish PROVE Rendezvous'
  OBVIOUS
<1>1. worker' = [at |-> "note", i |-> worker.i, n |-> worker.n, r |-> worker.r]
  BY WorkerServes, Zenon DEF Publish, At
<1>2. /\ worker.at = "publish" /\ done' = [done EXCEPT ![Here] = worker.r.q]
      /\ UNCHANGED <<table, shown, subs, seq, input, req, rows, card, seen>>
  BY Zenon DEF Publish, At
<1>3. /\ Here \in Layers /\ worker.r = req[Here] /\ worker.r.q = seq[Here] /\ Pending(Here)
      /\ seq[Here] \in Nat
  BY <1>2, ServedIsPending
<1>4. rows[Here] = seq[Here]
  BY <1>2, <1>3 DEF Rendezvous, ServesCurrent
<1>5. Here' = Here /\ Answered(Here)' = seq[Here]
  BY <1>1, <1>2, <1>3 DEF Here, Answered
<1>6. \A l \in Layers \ {Here} : Answered(l)' = Answered(l)
  BY <1>1, <1>2, <1>5 DEF Answered
<1>7. \A l \in Layers : Pending(l)' = Pending(l) /\ Raising(l)' = Raising(l)
  BY <1>2 DEF Pending, InCold, Raising
<1>8. FlagsBehind' /\ OneOutstanding'
  BY <1>2, <1>3, <1>4, <1>5, <1>6, <1>7 DEF Rendezvous, FlagsBehind, OneOutstanding, TypeOK
<1>9. ServesCurrent'
  BY <1>1 DEF ServesCurrent
<1>. QED
  BY <1>2, <1>7, <1>8, <1>9 DEF Rendezvous, CardHome, InputCurrent, MergesOwn

LEMMA NoteKeeps == TypeOK /\ Rendezvous /\ Note => Rendezvous'
<1> SUFFICES ASSUME TypeOK, Rendezvous, Note PROVE Rendezvous'
  OBVIOUS
<1>1. /\ worker.at = "note" /\ seen' = [seen EXCEPT ![Here] = worker.r.q]
      /\ worker'.at = "scan"
      /\ UNCHANGED <<table, shown, subs, slotVars, card>>
  BY DEF Note, At, WorkerOnly
<1>2. Here \in Layers
  BY <1>1, TableIsSeq DEF TypeOK, WorkerAt, Here
<1>3. \A l \in Layers : Answered(l)' = Answered(l)
  BY <1>1, <1>2 DEF Answered, TypeOK
<1>4. ServesCurrent'
  BY <1>1 DEF ServesCurrent
<1>. QED
  BY <1>1, <1>3, <1>4
  DEF Rendezvous, CardHome, InputCurrent, FlagsBehind, OneOutstanding, MergesOwn, Raising,
      Pending, InCold, slotVars

LEMMA RendezvousStep == TypeOK /\ Rendezvous /\ [Next]_vars => Rendezvous'
<1> SUFFICES ASSUME TypeOK, Rendezvous, [Next]_vars PROVE Rendezvous'
  OBVIOUS
<1>1. CASE Host
  BY <1>1, HostKeeps
<1>2. CASE Launch
  BY <1>2, LaunchKeeps
<1>3. ASSUME NEW d \in Devices, Card(d) PROVE Rendezvous'
  BY <1>3, RaiseKeeps, WaitKeeps, MergeKeeps DEF Card
<1>4. CASE Worker
  BY <1>4, ScanKeeps, RunKeeps, PublishKeeps, NoteKeeps DEF Worker
<1>5. CASE Abort \/ Stop \/ UNCHANGED vars
  <2>1. UNCHANGED <<table, shown, subs, slotVars, card, worker, seen>>
    BY <1>5 DEF Abort, Stop, vars
  <2>2. Here' = Here /\ \A l \in Layers : Answered(l)' = Answered(l)
    BY <2>1 DEF Here, Answered
  <2>. QED
    BY <2>1, <2>2
    DEF Rendezvous, CardHome, InputCurrent, FlagsBehind, OneOutstanding, ServesCurrent, MergesOwn,
        Raising, Pending, InCold, slotVars
<1>. QED
  BY <1>1, <1>2, <1>3, <1>4, <1>5 DEF Next

-----------------------------------------------------------------------------

LEMMA Invariance == Spec => [](TypeOK /\ Rendezvous)
<1>1. Init => TypeOK /\ Rendezvous
  BY TypeInit, RendezvousInit
<1>2. TypeOK /\ Rendezvous /\ [Next]_vars => (TypeOK /\ Rendezvous)'
  BY TypeStep, RendezvousStep DEF Rendezvous
<1>. QED
  BY <1>1, <1>2, PTL DEF Spec

(* The slots, the table, the streams and the worker are well typed in every *)
(* behaviour: in particular no flag passes the counter's bound, and the     *)
(* worker never indexes the table past the layers that are in it.           *)
THEOREM TypeCorrect == Spec => []TypeOK
<1>1. QED
  BY Invariance, PTL

(* The wait never hands on rows nobody computed, for any number of layers   *)
(* and devices and whatever mix of cold requests and requests the card      *)
(* answers itself; and the worker has the sub-graph it is asked for.        *)
THEOREM RowsOwned == Spec => []RowsAreOwn
<1>1. TypeOK /\ Rendezvous => RowsAreOwn
  <2> SUFFICES ASSUME TypeOK, Rendezvous PROVE RowsAreOwn
    OBVIOUS
  <2>1. worker.at = "run" => <<Here, worker.r.w>> \in subs
    BY ServedIsPending
  <2>. QED
    BY <2>1 DEF RowsAreOwn, Rendezvous, MergesOwn
<1>. QED
  BY <1>1, Invariance, PTL
=============================================================================
