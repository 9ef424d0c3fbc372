-------------------------- MODULE HotSwapRouterProofs --------------------------
(***************************************************************************)
(* Proofs about HotSwapRouter for any sets of models, request threads and  *)
(* monitors, any set of models that may fail, with or without sleep-idle.  *)
(* The argument is the inductive invariant IInv of HotSwapRouter.          *)
(***************************************************************************)
EXTENDS HotSwapRouter, FiniteSetTheorems, TLAPS

-----------------------------------------------------------------------------
(* Type correctness. *)

(* Granting, failing and dequeuing tickets keep the types. *)
LEMMA GrantType ==
    ASSUME TypeOK, NEW S \in SUBSET Clients, NEW m \in Models \union {NoModel}, Grant(S, m)
    PROVE  /\ inflight' \in Nat
           /\ pc' \in [Clients -> {"idle", "queued", "swapping", "granted", "failed", "running"}]
           /\ lease' \in [Threads -> Models \union {NoModel}]
           /\ ahead' \in [Clients -> SUBSET Clients]
<1>1. IsFiniteSet(S)
  BY RouterConstants, FS_Subset
<1>2. Cardinality(S) \in Nat
  BY <1>1, FS_CardinalityType
<1>3. inflight' \in Nat
  BY <1>2 DEF TypeOK, Grant
<1>4. QED
  BY <1>3 DEF TypeOK, Grant, Dequeue, Threads

LEMMA TypeInit == Init => TypeOK
BY RouterConstants DEF Init, TypeOK, NoSwap, Threads, Calls, Outcomes

LEMMA TypeStep == TypeOK /\ [Next]_vars => TypeOK'
<1> SUFFICES ASSUME TypeOK, [Next]_vars PROVE TypeOK'
  OBVIOUS
<1> USE RouterConstants
<1>1. ASSUME NEW c \in Clients, NEW w \in Models \union {AnyModel}, Acquire(c, w)
      PROVE  TypeOK'
  <2>1. want' \in [Threads -> Models \union {AnyModel, NoModel}]
    BY <1>1 DEF Acquire, TypeOK, Threads
  <2>2. CASE CanEnter(w)
    <3>1. active \in Models /\ Grant({c}, active)
      BY <1>1, <2>2 DEF Acquire, CanEnter, TypeOK
    <3>2. {c} \in SUBSET Clients
      OBVIOUS
    <3>3. QED
      BY <1>1, <2>1, <3>1, <3>2, GrantType DEF Acquire, TypeOK
  <2>3. CASE ~CanEnter(w)
    <3>1. Queue \in SUBSET Clients
      BY DEF Queue
    <3>2. QED
      BY <1>1, <2>1, <2>3, <3>1 DEF Acquire, Enqueue, TypeOK
  <2>4. QED
    BY <2>2, <2>3
<1>2. ASSUME NEW c \in Clients, Disconnect(c) PROVE TypeOK'
  BY <1>2 DEF Disconnect, TypeOK
<1>3. ASSUME NEW c \in Clients, Wait(c) PROVE TypeOK'
  <2>1. CASE ReturnGranted(c)
    BY <2>1 DEF ReturnGranted, TypeOK
  <2>2. CASE ReturnFailed(c)
    BY <2>2 DEF ReturnFailed, Idle, TypeOK, Threads
  <2>3. CASE GiveUp(c)
    BY <2>3 DEF GiveUp, Idle, Dequeue, TypeOK, Threads
  <2>4. CASE HeadGrant(c)
    <3>1. PICK S \in {Batch(active), {c}} : Grant(S, active)
      BY <2>4 DEF HeadGrant
    <3>2. S \in SUBSET Clients /\ active \in Models
      BY <2>4, <3>1 DEF HeadGrant, Batch, Queue, TypeOK
    <3>3. QED
      BY <2>4, <3>1, <3>2, GrantType DEF HeadGrant, TypeOK
  <2>5. CASE HeadRefuse(c)
    BY <2>5 DEF HeadRefuse, Idle, Dequeue, TypeOK, Threads
  <2>6. CASE BeginSwap(c)
    <3>1. SwapTarget(c) \in Models \union {NoModel}
      <4>1. want[c] \in Models \union {AnyModel, NoModel}
        BY DEF TypeOK, Threads
      <4>2. QED
        BY <4>1 DEF SwapTarget, TypeOK
    <3>2. QED
      BY <2>6, <3>1 DEF BeginSwap, TypeOK, Calls, Outcomes
  <2>7. QED
    BY <1>3, <2>1, <2>2, <2>3, <2>4, <2>5, <2>6 DEF Wait
<1>4. ASSUME NEW c \in Clients, Release(c) PROVE TypeOK'
  BY <1>4 DEF Release, DropLease, Idle, TypeOK, Threads
<1>5. ASSUME NEW t \in Monitors, AcquireActive(t) PROVE TypeOK'
  BY <1>5 DEF AcquireActive, TypeOK, Threads
<1>6. ASSUME NEW t \in Monitors, ReleasePin(t) PROVE TypeOK'
  BY <1>6 DEF ReleasePin, DropLease, TypeOK, Threads
<1>7. CASE SwapSteps
  <2>1. CASE Park
    BY <2>1 DEF Park, SetPhase, TypeOK, Calls, Outcomes
  <2>2. CASE Unpark
    BY <2>2 DEF Unpark, SetPhase, TypeOK, Calls, Outcomes
  <2>3. CASE PutBack
    BY <2>3 DEF PutBack, SetPhase, TypeOK, Calls, Outcomes
  <2>4. CASE EndSwapIn
    <3>1. Batch(swap.to) \in SUBSET Clients /\ swap.to \in Models \union {NoModel}
      BY DEF Batch, Queue, TypeOK
    <3>2. QED
      BY <2>4, <3>1, GrantType DEF EndSwapIn, NoSwap, TypeOK
  <2>5. CASE EndSwapFailed
    BY <2>5 DEF EndSwapFailed, FailAll, Dequeue, NoSwap, Queue, TypeOK
  <2>6. CASE EndSleep
    BY <2>6 DEF EndSleep, NoSwap, TypeOK
  <2>7. QED
    BY <1>7, <2>1, <2>2, <2>3, <2>4, <2>5, <2>6 DEF SwapSteps
<1>8. CASE TrySleep
  BY <1>8 DEF TrySleep, TypeOK, Calls
<1>9. CASE UNCHANGED vars
  BY <1>9 DEF vars, TypeOK
<1>10. QED
  BY <1>1, <1>2, <1>3, <1>4, <1>5, <1>6, <1>7, <1>8, <1>9 DEF Next

(* The router's state is well typed in every behaviour: active_, slept_,   *)
(* the counter, the tickets and the leases.                                *)
THEOREM TypeCorrect == Spec => []TypeOK
<1>1. QED
  BY TypeInit, TypeStep, PTL DEF Spec

-----------------------------------------------------------------------------
(* Counting leases. *)

LEMMA HoldersFinite == IsFiniteSet(Holders)
<1>1. IsFiniteSet(Threads)
  BY RouterConstants, FS_Union DEF Threads
<1>2. QED
  BY <1>1, FS_Subset DEF Holders

(* Granting a batch of tickets counts each of them once. *)
LEMMA GrantCounts ==
    ASSUME TypeOK, InflightIsLeases, NEW S \in SUBSET Clients, NEW m \in Models,
           Grant(S, m), \A c \in S : lease[c] = NoModel
    PROVE  InflightIsLeases' /\ Holders' = Holders \union S
<1>1. Holders' = Holders \union S
  BY RouterConstants DEF Grant, Holders, Threads, TypeOK
<1>2. Holders \cap S = {}
  BY DEF Holders
<1>3. IsFiniteSet(S)
  BY RouterConstants, FS_Subset
<1>4. Cardinality(Holders \union S)
        = Cardinality(Holders) + Cardinality(S) - Cardinality(Holders \cap S)
  BY <1>3, HoldersFinite, FS_Union
<1>5. Cardinality(Holders \cap S) = 0
  BY <1>2, FS_EmptySet
<1>6. Cardinality(Holders) \in Nat /\ Cardinality(S) \in Nat
  BY <1>3, HoldersFinite, FS_CardinalityType
<1>7. inflight' = Cardinality(Holders \union S)
  BY <1>4, <1>5, <1>6 DEF Grant, InflightIsLeases
<1>8. QED
  BY <1>1, <1>7 DEF InflightIsLeases

(* Releasing a lease takes release()'s normal path and counts it once. *)
LEMMA DropCounts ==
    ASSUME TypeOK, InflightIsLeases, LeaseState, NEW t \in Holders, DropLease(t)
    PROVE  InflightIsLeases' /\ Holders' = Holders \ {t}
<1>1. Holders' = Holders \ {t}
  BY RouterConstants DEF DropLease, Holders, TypeOK
<1>2. Cardinality(Holders \ {t}) = Cardinality(Holders) - 1
  BY HoldersFinite, FS_RemoveElement
<1>3. Cardinality(Holders) \in Nat /\ Cardinality(Holders) # 0
  BY HoldersFinite, FS_CardinalityType, FS_EmptySet
<1>4. lease[t] = active /\ inflight > 0
  BY <1>3 DEF LeaseState, InflightIsLeases
<1>5. inflight' = Cardinality(Holders \ {t})
  BY <1>2, <1>4 DEF DropLease, InflightIsLeases
<1>6. QED
  BY <1>1, <1>5 DEF InflightIsLeases

(* One more pin counts once. *)
LEMMA PinCounts ==
    ASSUME TypeOK, InflightIsLeases, NEW t \in Monitors, AcquireActive(t)
    PROVE  InflightIsLeases' /\ Holders' = Holders \union {t}
<1>1. Holders' = Holders \union {t} /\ t \notin Holders
  BY RouterConstants DEF AcquireActive, Holders, Threads, TypeOK
<1>2. Cardinality(Holders \union {t}) = Cardinality(Holders) + 1
  BY <1>1, HoldersFinite, FS_AddElement
<1>3. QED
  BY <1>1, <1>2 DEF AcquireActive, InflightIsLeases

-----------------------------------------------------------------------------
(* Preservation of the inductive invariant, one lemma per action or group  *)
(* of actions.                                                             *)

LEMMA IInvInit == Init => IInv
<1> SUFFICES ASSUME Init PROVE IInv
  OBVIOUS
<1> USE RouterConstants DEF Init
<1>1. TypeOK
  BY TypeInit
<1>2. Holders = {} /\ Queue = {} /\ ~swapping
  BY DEF Holders, Queue, swapping, NoSwap
<1>3. InflightIsLeases
  BY <1>2, FS_EmptySet DEF InflightIsLeases
<1>4. LeaseState /\ WantState /\ QueueState
  BY <1>2, <1>1 DEF LeaseState, WantState, QueueState, Threads
<1>5. SwapState
  BY <1>2 DEF SwapState, NoSwap, OnCards, swapping
<1>6. SwapperIsHead /\ ServedAsAsked
  BY <1>2 DEF SwapperIsHead, ServedAsAsked
<1>7. QED
  BY <1>1, <1>3, <1>4, <1>5, <1>6 DEF IInv

(* Whatever admits a set S of tickets onto the model that is active        *)
(* afterwards, with nothing else changed, keeps the parts of IInv that     *)
(* speak of threads, leases and the queue.                                 *)
LEMMA GrantKeeps ==
    ASSUME IInv, TypeOK', NEW S \in SUBSET Clients, NEW m \in Models, Grant(S, m),
           active' = m, ~swapping', Holders = {} \/ active = m,
           \A c \in S : lease[c] = NoModel /\ want'[c] \in {m, AnyModel},
           \A c \in Clients : pc[c] = "swapping" => c \in S,
           \A t \in Threads \ S : want'[t] = want[t]
    PROVE  InflightIsLeases' /\ LeaseState' /\ WantState' /\ QueueState'
           /\ SwapperIsHead' /\ ServedAsAsked'
<1> USE RouterConstants
<1> TypeOK
  BY DEF IInv
<1>1. InflightIsLeases' /\ Holders' = Holders \union S
  BY GrantCounts DEF IInv
<1>2. \A t \in Holders' : lease'[t] = m
  BY <1>1 DEF IInv, Grant, LeaseState, Holders, Threads
<1>3. LeaseState'
  BY <1>2 DEF IInv, LeaseState, Grant, Threads, TypeOK
<1>4. WantState'
  BY DEF IInv, WantState, Grant, Threads, TypeOK
<1>5. Queue' = Queue \ S
  BY DEF Grant, Queue, TypeOK
<1>6. QueueState'
  <2>1. \A c \in Clients : ahead'[c] = IF c \in S THEN {} ELSE ahead[c] \ S
    BY DEF Grant, Dequeue
  <2>2. \A c \in Clients : ahead'[c] \subseteq Queue'
    BY <1>5, <2>1 DEF IInv, QueueState
  <2>3. \A c \in Clients : c \notin Queue' => ahead'[c] = {}
    BY <1>5, <2>1 DEF IInv, QueueState
  <2>4. \A c \in Queue' : c \notin ahead'[c]
    <3>1. Queue \subseteq Clients
      BY DEF Queue
    <3>2. QED
      BY <1>5, <2>1, <3>1 DEF IInv, QueueState
  <2>5. QED
    BY <2>2, <2>3, <2>4 DEF QueueState
<1>7. SwapperIsHead'
  BY <1>5 DEF IInv, SwapperIsHead, Grant, Dequeue, TypeOK, Queue
<1>8. ServedAsAsked'
  BY <1>1 DEF IInv, ServedAsAsked, Grant, Threads, Holders, TypeOK
<1>9. QED
  BY <1>1, <1>3, <1>4, <1>6, <1>7, <1>8

(* Arrivals: admitted at once, or enqueued. *)
LEMMA AcquireKeeps ==
    ASSUME IInv, NEW c \in Clients, NEW w \in Models \union {AnyModel}, Acquire(c, w), TypeOK'
    PROVE  IInv'
<1> USE RouterConstants
<1> TypeOK /\ pc[c] = "idle"
  BY DEF IInv, Acquire
<1>1. lease[c] = NoModel /\ c \notin Queue
  BY DEF IInv, LeaseState, Queue
<1>2. SwapState'
  BY DEF IInv, SwapState, Acquire, swapping, OnCards
<1>3. CASE CanEnter(w)
  <2>1. Grant({c}, active) /\ active \in Models /\ ~swapping /\ active' = active /\ ~swapping'
    BY <1>3 DEF Acquire, CanEnter, TypeOK, swapping
  <2>2. want'[c] \in {active, AnyModel} /\ \A t \in Threads \ {c} : want'[t] = want[t]
    BY <1>3 DEF Acquire, CanEnter, TypeOK, Threads
  <2>3. \A d \in Clients : pc[d] = "swapping" => d \in {c}
    BY <1>3 DEF CanEnter, Queue
  <2>4. QED
    BY <1>1, <1>2, <2>1, <2>2, <2>3, GrantKeeps, {c} \in SUBSET Clients DEF IInv
<1>4. CASE ~CanEnter(w)
  <2>1. /\ pc' = [pc EXCEPT ![c] = "queued"] /\ ahead' = [ahead EXCEPT ![c] = Queue]
        /\ UNCHANGED <<inflight, lease, active, swap>> /\ want' = [want EXCEPT ![c] = w]
    BY <1>4 DEF Acquire, Enqueue
  <2>2. Holders' = Holders /\ Queue' = Queue \union {c}
    BY <2>1 DEF Holders, Queue, TypeOK
  <2>3. InflightIsLeases' /\ LeaseState' /\ WantState'
    BY <1>1, <2>1, <2>2 DEF IInv, InflightIsLeases, LeaseState, WantState, swapping, TypeOK, Threads
  <2>4. QueueState'
    BY <1>1, <2>1, <2>2 DEF IInv, QueueState, TypeOK
  <2>5. SwapperIsHead'
    BY <1>1, <2>1, <2>2 DEF IInv, SwapperIsHead, QueueState, swapping, TypeOK, Threads
  <2>6. ServedAsAsked'
    BY <1>1, <2>1, <2>2 DEF IInv, ServedAsAsked, Holders, TypeOK, Threads
  <2>7. QED
    BY <1>2, <2>3, <2>4, <2>5, <2>6 DEF IInv
<1>5. QED
  BY <1>3, <1>4

(* A client whose ticket is dropped without a lease goes idle. *)
LEMMA LeaveQueueKeeps ==
    ASSUME IInv, TypeOK', NEW c \in Clients, pc[c] \in {"queued", "failed"}, Idle(c),
           Dequeue({c}) \/ (pc[c] = "failed" /\ UNCHANGED ahead),
           UNCHANGED <<active, inflight, swap, parked, lease>>
    PROVE  IInv'
<1> USE RouterConstants
<1> TypeOK
  BY DEF IInv
<1>1. lease[c] = NoModel /\ Holders' = Holders
  BY DEF IInv, LeaseState, Holders
<1>2. Queue' = Queue \ {c}
  BY DEF Idle, Queue, TypeOK
<1>3. \A d \in Clients : ahead'[d] = IF d = c THEN {} ELSE ahead[d] \ {c}
  BY DEF IInv, QueueState, Dequeue, Queue, TypeOK
<1>4. SwapState' /\ InflightIsLeases'
  BY <1>1 DEF IInv, SwapState, InflightIsLeases, swapping, OnCards
<1>5. LeaseState' /\ WantState'
  BY <1>1 DEF IInv, LeaseState, WantState, Idle, swapping, TypeOK, Threads
<1>10. Queue \subseteq Clients
  BY DEF Queue
<1>6. QueueState'
  <2>1. \A d \in Clients : ahead'[d] \subseteq Queue'
    BY <1>2, <1>3 DEF IInv, QueueState
  <2>2. \A d \in Clients : d \notin Queue' => ahead'[d] = {}
    BY <1>2, <1>3 DEF IInv, QueueState
  <2>3. \A d \in Queue' : d \notin ahead'[d]
    BY <1>10, <1>2, <1>3 DEF IInv, QueueState
  <2>4. QED
    BY <2>1, <2>2, <2>3 DEF QueueState
<1>7. SwapperIsHead'
  <2>1. \A d, e \in Queue' : d # e => (d \in ahead'[e] <=> e \notin ahead'[d])
    <3>1. \A d, e \in Queue : d # e => (d \in ahead[e] <=> e \notin ahead[d])
      BY DEF IInv, SwapperIsHead
    <3>2. \A d \in Queue' : d \in Queue /\ d # c /\ ahead'[d] = ahead[d] \ {c}
      BY <1>10, <1>2, <1>3
    <3>3. QED
      BY <3>1, <3>2
  <2>2. \A d \in Clients : pc'[d] = "swapping" =>
           /\ swapping' /\ swap'.to # NoModel
           /\ ahead'[d] = {} /\ want'[d] \in {swap'.to, AnyModel}
    BY <1>3 DEF IInv, SwapperIsHead, Idle, swapping, TypeOK, Threads
  <2>3. swapping' /\ swap'.to # NoModel => \E d \in Clients : pc'[d] = "swapping"
    BY DEF IInv, SwapperIsHead, Idle, swapping, TypeOK
  <2>4. QED
    BY <2>1, <2>2, <2>3 DEF SwapperIsHead
<1>8. ServedAsAsked'
  BY <1>1 DEF IInv, ServedAsAsked, Idle, Holders, TypeOK, Threads
<1>9. QED
  BY <1>4, <1>5, <1>6, <1>7, <1>8 DEF IInv

(* The swap's own steps between the two critical sections move no lease,   *)
(* no ticket and no wish.                                                  *)
LEMMA CallsKeep ==
    ASSUME IInv, TypeOK', Park \/ Unpark \/ PutBack
    PROVE  IInv'
<1> USE RouterConstants
<1> TypeOK
  BY DEF IInv
<1>1. /\ UNCHANGED <<active, slept, inflight, pc, want, ahead, lease, closed>>
      /\ swapping /\ swapping' /\ swap'.from = swap.from /\ swap'.to = swap.to
  BY DEF Park, Unpark, PutBack, SetPhase, swapping, TypeOK
<1>2. InflightIsLeases' /\ LeaseState' /\ WantState' /\ ServedAsAsked'
  BY <1>1 DEF IInv, InflightIsLeases, LeaseState, WantState, ServedAsAsked, Holders
<1>3. QueueState' /\ SwapperIsHead'
  BY <1>1 DEF IInv, QueueState, SwapperIsHead, Queue
<1>4. SwapState'
  <2>1. CASE Park
    <3>1. swap.from \in Models /\ OnCards = {swap.from}
      BY <2>1 DEF Park, IInv, SwapState, TypeOK
    <3>2. CASE UNCHANGED parked
      BY <2>1, <3>1, <3>2, <1>1 DEF Park, SetPhase, IInv, SwapState, swapping, OnCards, TypeOK
    <3>3. CASE parked' = [parked EXCEPT ![swap.from] = TRUE]
      <4>1. OnCards' = OnCards \ {swap.from}
        BY <3>1, <3>3 DEF OnCards, TypeOK
      <4>2. OnCards' = {}
        BY <3>1, <4>1
      <4>3. swap'.phase \in {"slept", "unpark", "kept"}
        BY <2>1 DEF Park, SetPhase, TypeOK
      <4>4. swap'.phase = "kept" => UNCHANGED parked
        BY <2>1 DEF Park, SetPhase, TypeOK
      <4>5. swap'.phase # "kept"
        BY <4>4, <3>1, <3>3, <4>2 DEF OnCards
      <4>6. QED
        BY <2>1, <4>2, <4>5, <1>1 DEF Park, SetPhase, IInv, SwapState, swapping, TypeOK
    <3>4. QED
      BY <2>1, <3>2, <3>3 DEF Park
  <2>2. CASE Unpark
    <3>1. swap.to \in Models /\ OnCards = {}
      BY <2>2 DEF Unpark, IInv, SwapState, TypeOK
    <3>2. CASE swap'.phase # "in"
      BY <2>2, <3>1, <3>2, <1>1 DEF Unpark, SetPhase, IInv, SwapState, swapping, OnCards, TypeOK
    <3>3. CASE swap'.phase = "in"
      <4>1. parked' = [parked EXCEPT ![swap.to] = FALSE]
        BY <2>2, <3>3 DEF Unpark, SetPhase, TypeOK
      <4>2. OnCards' = {swap.to}
        BY <3>1, <4>1 DEF OnCards, TypeOK
      <4>3. QED
        BY <2>2, <3>1, <3>3, <4>2, <1>1 DEF IInv, SwapState, swapping, TypeOK
    <3>4. QED
      BY <3>2, <3>3
  <2>3. CASE PutBack
    <3>1. swap.from \in Models /\ swap.to # NoModel /\ OnCards = {}
      BY <2>3 DEF PutBack, IInv, SwapState, TypeOK
    <3>2. CASE swap'.phase # "back"
      BY <2>3, <3>1, <3>2, <1>1 DEF PutBack, SetPhase, IInv, SwapState, swapping, OnCards, TypeOK
    <3>3. CASE swap'.phase = "back"
      <4>1. parked' = [parked EXCEPT ![swap.from] = FALSE]
        BY <2>3, <3>3 DEF PutBack, SetPhase, TypeOK
      <4>2. OnCards' = {swap.from}
        BY <3>1, <4>1 DEF OnCards, TypeOK
      <4>3. QED
        BY <2>3, <3>1, <3>3, <4>2, <1>1 DEF IInv, SwapState, swapping, TypeOK
    <3>4. QED
      BY <3>2, <3>3
  <2>4. QED
    BY <2>1, <2>2, <2>3
<1>5. QED
  BY <1>2, <1>3, <1>4 DEF IInv

(* The swapped-in model's batch is admitted. *)
LEMMA EndSwapInKeeps ==
    ASSUME IInv, TypeOK', EndSwapIn
    PROVE  IInv'
<1> USE RouterConstants
<1> DEFINE to == swap.to
<1> TypeOK
  BY DEF IInv
<1>1. to \in Models /\ OnCards = {to} /\ swapping /\ Holders = {}
  BY DEF EndSwapIn, IInv, SwapState, LeaseState, swapping, TypeOK
<1>2. Grant(Batch(to), to) /\ active' = to /\ ~swapping' /\ swap' = NoSwap
  BY DEF EndSwapIn, swapping, NoSwap
<1>3. Batch(to) \in SUBSET Clients
  BY DEF Batch, Queue
<1>4. \A c \in Batch(to) : lease[c] = NoModel /\ want'[c] \in {to, AnyModel}
  BY DEF EndSwapIn, Batch, Queue, IInv, LeaseState
<1>5. \A c \in Clients : pc[c] = "swapping" => c \in Batch(to)
  BY DEF IInv, SwapperIsHead, Batch, Queue
<1>6. \A t \in Threads \ Batch(to) : want'[t] = want[t]
  BY DEF EndSwapIn
<1>7. SwapState'
  <2>1. OnCards' = {active'} \ {NoModel} /\ swap'.phase = "none"
    BY <1>1, <1>2 DEF EndSwapIn, OnCards, NoSwap
  <2>2. QED
    BY <2>1, <1>2 DEF SwapState
<1>8. QED
  BY <1>1, <1>2, <1>3, <1>4, <1>5, <1>6, <1>7, GrantKeeps DEF IInv

(* The failed target's requests fail; what is on the cards is what the     *)
(* router says is active. *)
LEMMA EndSwapFailedKeeps ==
    ASSUME IInv, TypeOK', EndSwapFailed
    PROVE  IInv'
<1> USE RouterConstants
<1> DEFINE S == {c \in Queue : want[c] = swap.to}
<1> TypeOK
  BY DEF IInv
<1>1. /\ swapping /\ ~swapping' /\ swap' = NoSwap /\ Holders = {} /\ Holders' = {}
      /\ UNCHANGED <<inflight, parked, want, lease>>
  BY DEF EndSwapFailed, IInv, LeaseState, swapping, NoSwap, Holders
<1>2. /\ pc' = [c \in Clients |-> IF c \in S THEN "failed"
                                  ELSE IF c \in Queue THEN "queued" ELSE pc[c]]
      /\ \A c \in Clients : ahead'[c] = IF c \in S THEN {} ELSE ahead[c] \ S
  BY DEF EndSwapFailed, FailAll, Dequeue
<1>3. Queue \subseteq Clients /\ Queue' = Queue \ S
  BY <1>2 DEF Queue
<1>4. InflightIsLeases' /\ ServedAsAsked'
  BY <1>1 DEF IInv, InflightIsLeases, ServedAsAsked
<1>5. LeaseState'
  BY <1>1, <1>2 DEF IInv, LeaseState, Queue, Holders
<1>6. WantState'
  BY <1>1, <1>2 DEF IInv, WantState, Queue
<1>7. SwapState'
  <2>1. OnCards' = OnCards
    BY <1>1 DEF OnCards
  <2>2. OnCards = {active'} \ {NoModel}
    BY DEF EndSwapFailed, IInv, SwapState
  <2>3. QED
    BY <1>1, <2>1, <2>2 DEF SwapState, NoSwap
<1>8. QueueState'
  <2>1. \A d \in Clients : ahead'[d] \subseteq Queue'
    BY <1>2, <1>3 DEF IInv, QueueState
  <2>2. \A d \in Clients : d \notin Queue' => ahead'[d] = {}
    BY <1>2, <1>3 DEF IInv, QueueState
  <2>3. \A d \in Queue' : d \notin ahead'[d]
    BY <1>2, <1>3 DEF IInv, QueueState
  <2>4. QED
    BY <2>1, <2>2, <2>3 DEF QueueState
<1>9. SwapperIsHead'
  <2>1. \A d, e \in Queue' : d # e => (d \in ahead'[e] <=> e \notin ahead'[d])
    <3>1. \A d, e \in Queue : d # e => (d \in ahead[e] <=> e \notin ahead[d])
      BY DEF IInv, SwapperIsHead
    <3>2. \A d \in Queue' : d \in Queue /\ d \notin S /\ ahead'[d] = ahead[d] \ S
      BY <1>2, <1>3
    <3>3. QED
      BY <3>1, <3>2
  <2>2. \A d \in Clients : pc'[d] # "swapping"
    BY <1>2 DEF Queue
  <2>3. QED
    BY <1>1, <2>1, <2>2 DEF SwapperIsHead
<1>10. QED
  BY <1>4, <1>5, <1>6, <1>7, <1>8, <1>9 DEF IInv

LEMMA EndSleepKeeps ==
    ASSUME IInv, TypeOK', EndSleep
    PROVE  IInv'
<1> USE RouterConstants
<1> TypeOK
  BY DEF IInv
<1>1. /\ swapping /\ ~swapping' /\ swap' = NoSwap /\ Holders = {} /\ swap.to = NoModel
      /\ UNCHANGED <<inflight, parked, pc, want, ahead, lease, closed>>
  BY DEF EndSleep, IInv, LeaseState, swapping, NoSwap
<1>2. Holders' = {} /\ Queue' = Queue /\ OnCards' = OnCards
  BY <1>1 DEF Holders, Queue, OnCards
<1>3. InflightIsLeases' /\ ServedAsAsked' /\ LeaseState' /\ WantState' /\ QueueState'
  BY <1>1, <1>2 DEF IInv, InflightIsLeases, ServedAsAsked, LeaseState, WantState, QueueState
<1>4. SwapState'
  <2>1. OnCards = {active'} \ {NoModel}
    BY DEF EndSleep, IInv, SwapState, swapping
  <2>2. QED
    BY <1>1, <1>2, <2>1 DEF SwapState, NoSwap
<1>5. SwapperIsHead'
  <2>1. \A c \in Clients : pc[c] # "swapping"
    BY <1>1 DEF IInv, SwapperIsHead
  <2>2. QED
    BY <1>1, <1>2, <2>1 DEF IInv, SwapperIsHead
<1>6. QED
  BY <1>3, <1>4, <1>5 DEF IInv

LEMMA TrySleepKeeps ==
    ASSUME IInv, TypeOK', TrySleep
    PROVE  IInv'
<1> USE RouterConstants
<1> TypeOK
  BY DEF IInv
<1>1. /\ ~swapping /\ swapping' /\ Queue = {} /\ inflight = 0 /\ active \in Models
      /\ swap' = [phase |-> "park", from |-> active, to |-> NoModel]
      /\ UNCHANGED <<active, inflight, parked, pc, want, ahead, lease>>
  BY DEF TrySleep, swapping, TypeOK
<1>2. Holders = {}
  BY <1>1, HoldersFinite, FS_EmptySet DEF IInv, InflightIsLeases
<1>3. Holders' = {} /\ Queue' = {} /\ OnCards' = OnCards
  BY <1>1, <1>2 DEF Holders, Queue, OnCards
<1>4. InflightIsLeases' /\ ServedAsAsked' /\ LeaseState' /\ WantState' /\ QueueState'
  BY <1>1, <1>2, <1>3 DEF IInv, InflightIsLeases, ServedAsAsked, LeaseState, WantState, QueueState
<1>5. SwapState'
  BY <1>1, <1>3 DEF IInv, SwapState, swapping
<1>6. SwapperIsHead'
  BY <1>1, <1>3 DEF IInv, SwapperIsHead, Queue
<1>7. QED
  BY <1>4, <1>5, <1>6 DEF IInv

(* A request thread at the head starts a swap. *)
LEMMA BeginSwapKeeps ==
    ASSUME IInv, TypeOK', NEW c \in Clients, BeginSwap(c)
    PROVE  IInv'
<1> USE RouterConstants
<1> TypeOK
  BY DEF IInv
<1>1. /\ ~swapping /\ swapping' /\ inflight = 0 /\ pc[c] = "queued" /\ ahead[c] = {}
      /\ pc' = [pc EXCEPT ![c] = "swapping"]
      /\ UNCHANGED <<active, inflight, parked, want, ahead, lease>>
  BY DEF BeginSwap, MyTurn, AtHead, swapping
<1>2. /\ swap'.phase = IF active = NoModel THEN "unpark" ELSE "park"
      /\ swap'.from = active /\ swap'.to = SwapTarget(c)
      /\ SwapTarget(c) \notin {active, NoModel}
      /\ want[c] \in {SwapTarget(c), AnyModel}
  BY DEF BeginSwap, SwapTarget
<1>3. Holders = {}
  BY <1>1, HoldersFinite, FS_EmptySet DEF IInv, InflightIsLeases
<1>4. Holders' = {} /\ Queue' = Queue /\ OnCards' = OnCards
  BY <1>1, <1>3 DEF Holders, Queue, OnCards, TypeOK
<1>5. InflightIsLeases' /\ ServedAsAsked'
  BY <1>1, <1>3, <1>4 DEF IInv, InflightIsLeases, ServedAsAsked
<1>6. LeaseState' /\ WantState'
  BY <1>1, <1>3, <1>4 DEF IInv, LeaseState, WantState, TypeOK
<1>7. QueueState'
  BY <1>1, <1>4 DEF IInv, QueueState
<1>8. SwapState'
  BY <1>1, <1>2, <1>4 DEF IInv, SwapState, swapping
<1>9. SwapperIsHead'
  <2>1. \A d \in Clients : pc[d] # "swapping"
    BY <1>1 DEF IInv, SwapperIsHead
  <2>2. \A d \in Clients : pc'[d] = "swapping" <=> d = c
    BY <2>1, <1>1 DEF TypeOK
  <2>3. QED
    BY <1>1, <1>2, <1>4, <2>2 DEF IInv, SwapperIsHead
<1>10. QED
  BY <1>5, <1>6, <1>7, <1>8, <1>9 DEF IInv

(* The head of the queue is admitted onto the model that is already active. *)
LEMMA HeadGrantKeeps ==
    ASSUME IInv, TypeOK', NEW c \in Clients, HeadGrant(c)
    PROVE  IInv'
<1> USE RouterConstants
<1> TypeOK
  BY DEF IInv
<1>1. /\ ~swapping /\ ~swapping' /\ active \in Models /\ pc[c] = "queued"
      /\ UNCHANGED <<active, swap, parked, want>>
  BY DEF HeadGrant, MyTurn, swapping, TypeOK
<1>2. PICK S \in SUBSET Clients :
         /\ Grant(S, active)
         /\ \A d \in S : d \in Queue /\ want[d] \in {active, AnyModel}
  <2>1. CASE want[c] = active /\ Grant(Batch(active), active)
    BY <2>1 DEF Batch, Queue
  <2>2. CASE want[c] = AnyModel /\ Grant({c}, active)
    BY <2>2, <1>1, {c} \in SUBSET Clients DEF Queue
  <2>3. QED
    BY <2>1, <2>2 DEF HeadGrant
<1>3. \A d \in S : lease[d] = NoModel /\ want'[d] \in {active, AnyModel}
  BY <1>1, <1>2 DEF IInv, LeaseState, Queue
<1>4. \A d \in Clients : pc[d] # "swapping"
  BY <1>1 DEF IInv, SwapperIsHead
<1>5. SwapState'
  BY <1>1 DEF IInv, SwapState, swapping, OnCards
<1>6. QED
  BY <1>1, <1>2, <1>3, <1>4, <1>5, GrantKeeps DEF IInv

(* A lease ends. *)
LEMMA ReleaseKeeps ==
    ASSUME IInv, TypeOK', NEW c \in Clients, Release(c)
    PROVE  IInv'
<1> USE RouterConstants
<1> TypeOK
  BY DEF IInv
<1>1. c \in Holders /\ pc[c] = "running" /\ UNCHANGED <<active, slept, swap, parked, ahead>>
  BY DEF Release, IInv, LeaseState, Holders, Threads
<1>2. InflightIsLeases' /\ Holders' = Holders \ {c}
  BY <1>1, DropCounts DEF IInv, Release
<1>3. /\ pc' = [pc EXCEPT ![c] = "idle"] /\ want' = [want EXCEPT ![c] = NoModel]
      /\ lease' = [lease EXCEPT ![c] = NoModel]
  BY DEF Release, Idle, DropLease
<1>4. Queue' = Queue /\ OnCards' = OnCards
  BY <1>1, <1>3 DEF Queue, OnCards, TypeOK
<1>5. LeaseState' /\ WantState'
  BY <1>1, <1>2, <1>3 DEF IInv, LeaseState, WantState, swapping, TypeOK, Threads, Holders
<1>6. QueueState' /\ SwapState'
  BY <1>1, <1>4 DEF IInv, QueueState, SwapState, swapping
<1>7. SwapperIsHead'
  BY <1>1, <1>3, <1>4 DEF IInv, SwapperIsHead, swapping, TypeOK, Threads
<1>8. ServedAsAsked'
  BY <1>2, <1>3 DEF IInv, ServedAsAsked, Holders, TypeOK
<1>9. QED
  BY <1>2, <1>5, <1>6, <1>7, <1>8 DEF IInv

LEMMA MonitorKeeps ==
    ASSUME IInv, TypeOK', NEW t \in Monitors, AcquireActive(t) \/ ReleasePin(t)
    PROVE  IInv'
<1> USE RouterConstants
<1> TypeOK
  BY DEF IInv
<1>1. /\ UNCHANGED <<active, slept, swap, parked, pc, ahead>>
      /\ \A c \in Clients : c # t /\ lease'[c] = lease[c] /\ want'[c] = want[c]
  BY DEF AcquireActive, ReleasePin, DropLease, TypeOK, Threads
<1>2. Queue' = Queue /\ OnCards' = OnCards
  BY <1>1 DEF Queue, OnCards
<1>3. QueueState' /\ SwapState' /\ SwapperIsHead'
  BY <1>1, <1>2 DEF IInv, QueueState, SwapState, SwapperIsHead, swapping
<1>4. CASE AcquireActive(t)
  <2>1. InflightIsLeases' /\ Holders' = Holders \union {t}
    BY <1>4, PinCounts DEF IInv
  <2>2. LeaseState' /\ WantState' /\ ServedAsAsked'
    BY <1>1, <1>4, <2>1 DEF IInv, LeaseState, WantState, ServedAsAsked, AcquireActive,
                            swapping, Holders, Threads, TypeOK
  <2>3. QED
    BY <1>3, <2>1, <2>2 DEF IInv
<1>5. CASE ReleasePin(t)
  <2>1. t \in Holders /\ DropLease(t)
    BY <1>5 DEF ReleasePin, Holders, Threads
  <2>2. InflightIsLeases' /\ Holders' = Holders \ {t}
    BY <2>1, DropCounts DEF IInv
  <2>3. LeaseState' /\ WantState' /\ ServedAsAsked'
    BY <1>1, <1>5, <2>2 DEF IInv, LeaseState, WantState, ServedAsAsked, ReleasePin, DropLease,
                            swapping, Holders, Threads, TypeOK
  <2>4. QED
    BY <1>3, <2>2, <2>3 DEF IInv
<1>6. QED
  BY <1>4, <1>5

(* Steps that change one flag of one request thread. *)
LEMMA QuietKeeps ==
    ASSUME IInv, TypeOK', NEW c \in Clients, Disconnect(c) \/ ReturnGranted(c)
    PROVE  IInv'
<1> USE RouterConstants
<1> TypeOK
  BY DEF IInv
<1>1. /\ UNCHANGED <<active, slept, inflight, swap, parked, want, ahead, lease>>
      /\ \A d \in Clients : \/ pc'[d] = pc[d]
                            \/ pc[d] = "granted" /\ pc'[d] = "running"
  BY DEF Disconnect, ReturnGranted, TypeOK
<1>2. Queue' = Queue /\ Holders' = Holders /\ OnCards' = OnCards
  BY <1>1 DEF Queue, Holders, OnCards
<1>3. InflightIsLeases' /\ ServedAsAsked' /\ SwapState' /\ QueueState'
  BY <1>1, <1>2 DEF IInv, InflightIsLeases, ServedAsAsked, SwapState, QueueState, swapping
<1>4. LeaseState' /\ WantState'
  BY <1>1, <1>2 DEF IInv, LeaseState, WantState, swapping
<1>5. SwapperIsHead'
  <2>1. \A d \in Clients : pc'[d] = "swapping" <=> pc[d] = "swapping"
    BY <1>1
  <2>2. QED
    BY <1>1, <1>2, <2>1 DEF IInv, SwapperIsHead, swapping
<1>6. QED
  BY <1>3, <1>4, <1>5 DEF IInv

LEMMA IInvStep == IInv /\ [Next]_vars => IInv'
<1> SUFFICES ASSUME IInv, [Next]_vars PROVE IInv'
  OBVIOUS
<1>1. TypeOK /\ TypeOK'
  BY TypeStep DEF IInv
<1>2. ASSUME NEW c \in Clients, NEW w \in Models \union {AnyModel}, Acquire(c, w)
      PROVE  IInv'
  BY <1>1, <1>2, AcquireKeeps
<1>3. ASSUME NEW c \in Clients, Disconnect(c) PROVE IInv'
  BY <1>1, <1>3, QuietKeeps
<1>4. ASSUME NEW c \in Clients, Wait(c) PROVE IInv'
  <2>1. CASE ReturnGranted(c)
    BY <1>1, <2>1, QuietKeeps
  <2>2. CASE ReturnFailed(c)
    BY <1>1, <2>2, LeaveQueueKeeps DEF ReturnFailed
  <2>3. CASE GiveUp(c)
    BY <1>1, <2>3, LeaveQueueKeeps DEF GiveUp
  <2>4. CASE HeadGrant(c)
    BY <1>1, <2>4, HeadGrantKeeps
  <2>5. CASE HeadRefuse(c)
    BY <1>1, <2>5, LeaveQueueKeeps DEF HeadRefuse, MyTurn
  <2>6. CASE BeginSwap(c)
    BY <1>1, <2>6, BeginSwapKeeps
  <2>7. QED
    BY <1>4, <2>1, <2>2, <2>3, <2>4, <2>5, <2>6 DEF Wait
<1>5. ASSUME NEW c \in Clients, Release(c) PROVE IInv'
  BY <1>1, <1>5, ReleaseKeeps
<1>6. ASSUME NEW t \in Monitors, AcquireActive(t) \/ ReleasePin(t) PROVE IInv'
  BY <1>1, <1>6, MonitorKeeps
<1>7. CASE SwapSteps
  BY <1>1, <1>7, CallsKeep, EndSwapInKeeps, EndSwapFailedKeeps, EndSleepKeeps DEF SwapSteps
<1>8. CASE TrySleep
  BY <1>1, <1>8, TrySleepKeeps
<1>9. CASE UNCHANGED vars
  BY <1>9, <1>1 DEF vars, IInv, InflightIsLeases, LeaseState, WantState, SwapState, QueueState,
                    SwapperIsHead, ServedAsAsked, Holders, Queue, OnCards, swapping
<1>10. QED
  BY <1>2, <1>3, <1>4, <1>5, <1>6, <1>7, <1>8, <1>9 DEF Next

(* The inductive invariant holds in every reachable state. *)
THEOREM Invariance == Spec => []IInv
<1>1. QED
  BY IInvInit, IInvStep, PTL DEF Spec

-----------------------------------------------------------------------------
(* The safety properties. *)

(* inflight_ is exactly the number of leases held, so a model is parked    *)
(* when and only when it has really drained.                               *)
THEOREM LeasesCounted == Spec => []InflightIsLeases
<1>1. IInv => InflightIsLeases
  BY DEF IInv
<1>2. QED
  BY <1>1, Invariance, PTL

LEMMA CardsFromIInv == IInv => LeaseOnCards /\ RouterKnowsTheCards
<1> SUFFICES ASSUME IInv PROVE LeaseOnCards /\ RouterKnowsTheCards
  OBVIOUS
<1> USE RouterConstants
<1>1. ~swapping => OnCards = {active} \ {NoModel}
  BY DEF IInv, SwapState, swapping
<1>2. \A t \in Holders : ~swapping /\ lease[t] = active /\ active # NoModel
  BY DEF IInv, LeaseState, Holders
<1>3. LeaseOnCards
  BY <1>1, <1>2 DEF LeaseOnCards
<1>4. OnCards = {active} \ {NoModel} \/ OnCards = {swap.from} \/ OnCards = {} \/ OnCards = {swap.to}
  BY DEF IInv, TypeOK, SwapState, Calls, Outcomes
<1>5. QED
  BY <1>1, <1>3, <1>4 DEF RouterKnowsTheCards

(* No lease is held on a model that is not, alone, on the cards. *)
THEOREM LeasesAreOnCards == Spec => []LeaseOnCards
<1>1. QED
  BY CardsFromIInv, Invariance, PTL

(* The router's belief and the models' parked flags agree between swaps,   *)
(* and two models are never on the cards.                                  *)
THEOREM RouterKnows == Spec => []RouterKnowsTheCards
<1>1. QED
  BY CardsFromIInv, Invariance, PTL

(* A request is served by the model it named. *)
THEOREM RequestsServedAsAsked == Spec => []ServedAsAsked
<1>1. IInv => ServedAsAsked
  BY DEF IInv
<1>2. QED
  BY <1>1, Invariance, PTL

(* One thread at most is in swap_locked, at the head of the queue. *)
THEOREM OneSwapper == Spec => []SwapperIsHead
<1>1. IInv => SwapperIsHead
  BY DEF IInv
<1>2. QED
  BY <1>1, Invariance, PTL

-----------------------------------------------------------------------------
(* Scheduling. *)

(* A step that gives a lease is an arrival into an empty queue, a pin, the *)
(* head's own grant, or the end of a swap. *)
LEMMA WhoAdmits ==
    ASSUME IInv, [Next]_vars, NEW d \in Clients, lease[d] = NoModel, lease'[d] # NoModel
    PROVE  \/ \E c \in Clients, w \in Models \union {AnyModel} : Acquire(c, w) /\ CanEnter(w)
           \/ \E c \in Clients : HeadGrant(c)
           \/ EndSwapIn
<1> TypeOK
  BY DEF IInv
<1> USE RouterConstants
<1>1. lease' # lease
  OBVIOUS
<1>2. ~\E t \in Monitors : AcquireActive(t) \/ ReleasePin(t)
  BY DEF AcquireActive, ReleasePin, DropLease, TypeOK, Threads
<1>3. ~\E c \in Clients : Release(c)
  BY DEF Release, DropLease, TypeOK, Threads
<1>4. QED
  BY <1>1, <1>2, <1>3 DEF Next, Wait, SwapSteps, Acquire, Enqueue, Disconnect, ReturnGranted, ReturnFailed,
       GiveUp, HeadRefuse, BeginSwap, Park, Unpark, PutBack, EndSwapFailed, EndSleep, TrySleep, vars

LEMMA HeadFirstStep ==
    ASSUME IInv, [Next]_vars, NEW c \in Clients, NEW d \in Clients, AtHead(c),
           lease[d] = NoModel, lease'[d] # NoModel
    PROVE  lease'[c] # NoModel
<1> TypeOK
  BY DEF IInv
<1> USE RouterConstants
<1>1. c \in Queue /\ ahead[c] = {}
  BY DEF AtHead
<1>2. ~\E e \in Clients, w \in Models \union {AnyModel} : Acquire(e, w) /\ CanEnter(w)
  BY <1>1 DEF CanEnter
<1>3. \A e \in Queue : ahead[e] = {} => e = c
  BY <1>1 DEF IInv, SwapperIsHead
<1>4. CASE \E e \in Clients : HeadGrant(e)
  <2>1. HeadGrant(c)
    BY <1>3, <1>4 DEF HeadGrant, MyTurn, AtHead
  <2>2. PICK S \in SUBSET Clients : c \in S /\ Grant(S, active)
    BY <1>1, <2>1, {c} \in SUBSET Clients DEF HeadGrant, Batch, Queue
  <2>3. QED
    BY <2>1, <2>2 DEF Grant, HeadGrant, Threads
<1>5. CASE EndSwapIn
  <2>1. swapping /\ swap.to # NoModel
    BY <1>5 DEF EndSwapIn, swapping, IInv, SwapState
  <2>2. PICK e \in Clients : pc[e] = "swapping"
    BY <2>1 DEF IInv, SwapperIsHead
  <2>3. e = c
    BY <1>3, <2>2 DEF IInv, SwapperIsHead, Queue
  <2>4. c \in Batch(swap.to)
    BY <1>1, <2>2, <2>3 DEF IInv, SwapperIsHead, Batch
  <2>5. QED
    BY <1>5, <2>1, <2>4 DEF EndSwapIn, Grant, Threads
<1>6. QED
  BY <1>2, <1>4, <1>5, WhoAdmits

(* Whoever is admitted while others wait is admitted with the head of the  *)
(* queue: a busy model's new requests never pass a waiting one.            *)
THEOREM HeadIsFirst == Spec => HeadFirst
<1>1. IInv /\ [Next]_vars => [\A c, d \in Clients :
          /\ AtHead(c)
          /\ lease[d] = NoModel /\ lease'[d] # NoModel
          => lease'[c] # NoModel]_vars
  BY HeadFirstStep
<1>2. QED
  BY <1>1, Invariance, PTL DEF Spec, HeadFirst

(* A swap that brings a model in leaves nobody who wanted it in the queue. *)
THEOREM BurstIsOneSwap == Spec => BurstTakesOneSwap
<1> DEFINE A == active' # active /\ active' # NoModel =>
                  \A c \in Queue' : want'[c] \notin {active', AnyModel}
<1>1. IInv /\ [Next]_vars => [A]_vars
  <2> SUFFICES ASSUME IInv, [Next]_vars, active' # active, active' # NoModel,
                      NEW c \in Queue'
               PROVE  want'[c] \notin {active', AnyModel}
    BY DEF vars
  <2>1. EndSwapIn \/ EndSwapFailed \/ EndSleep
    BY DEF Next, Wait, SwapSteps, Acquire, Disconnect, ReturnGranted, ReturnFailed, GiveUp, HeadGrant,
       HeadRefuse, BeginSwap, Park, Unpark, PutBack, TrySleep, Release, AcquireActive, ReleasePin, vars
  <2>2. EndSwapIn
    <3>1. ~EndSleep
      BY DEF EndSleep
    <3>2. ~EndSwapFailed
      BY DEF EndSwapFailed, IInv, SwapState, swapping
    <3>3. QED
      BY <2>1, <3>1, <3>2
  <2>3. c \in Queue /\ c \notin Batch(swap.to)
    BY <2>2 DEF EndSwapIn, Grant, Queue, Batch
  <2>4. QED
    BY <2>2, <2>3 DEF EndSwapIn, Batch
<1>2. QED
  BY <1>1, Invariance, PTL DEF Spec, BurstTakesOneSwap

-----------------------------------------------------------------------------
(* Refinement. *)

LEMMA LeaseInit == Init => Lease!Init
BY RouterConstants DEF Init, Lease!Init, OnCards

LEMMA LeaseStep == IInv /\ IInv' /\ [Next]_vars => [Lease!Next]_(Lease!cardVars)
<1> SUFFICES ASSUME IInv, IInv', [Next]_vars PROVE [Lease!Next]_(Lease!cardVars)
  OBVIOUS
<1> USE RouterConstants
<1> TypeOK /\ TypeOK'
  BY DEF IInv
<1> SUFFICES ASSUME ~UNCHANGED <<OnCards, want, lease>> PROVE Lease!Next
  BY DEF Lease!cardVars
<1>a. UNCHANGED parked => OnCards' = OnCards
  BY DEF OnCards
<1>g. ASSUME NEW S \in SUBSET Clients, Grant(S, active'), active' \in Models, ~swapping',
             UNCHANGED parked,
             \A t \in Threads : want'[t] = want[t] \/ (t \in S /\ want[t] = NoModel),
             \A c \in S : lease[c] = NoModel /\ want'[c] \in {active', AnyModel}
      PROVE  Lease!Next
  <2>1. active' \in OnCards
    BY <1>g, <1>a DEF IInv, SwapState, swapping
  <2>2. lease' = [t \in Threads |-> IF t \in S THEN active' ELSE lease[t]]
    BY <1>g DEF Grant
  <2>3. Lease!Admit(S, active')
    BY <1>g, <1>a, <2>1, <2>2 DEF Lease!Admit, TypeOK
  <2>4. S \in SUBSET Threads
    BY DEF Threads
  <2>5. QED
    BY <1>g, <2>3, <2>4 DEF Lease!Next
<1>1. ASSUME NEW c \in Clients, NEW w \in Models \union {AnyModel}, Acquire(c, w)
      PROVE  Lease!Next
  <2>1. lease[c] = NoModel /\ want[c] = NoModel /\ UNCHANGED parked /\ c \in Threads
        /\ want' = [want EXCEPT ![c] = w]
    BY <1>1 DEF Acquire, IInv, LeaseState, WantState, Threads
  <2>2. CASE CanEnter(w)
    <3>1. /\ Grant({c}, active') /\ active' \in Models /\ ~swapping' /\ w \in {active', AnyModel}
      BY <1>1, <2>2 DEF Acquire, CanEnter, TypeOK, swapping
    <3>2. \A t \in Threads : want'[t] = want[t] \/ (t \in {c} /\ want[t] = NoModel)
      BY <2>1 DEF TypeOK
    <3>3. \A d \in {c} : lease[d] = NoModel /\ want'[d] \in {active', AnyModel}
      BY <2>1, <3>1 DEF TypeOK
    <3>4. QED
      BY <1>g, <2>1, <3>1, <3>2, <3>3, {c} \in SUBSET Clients
  <2>3. CASE ~CanEnter(w)
    <3>1. UNCHANGED lease
      BY <1>1, <2>3 DEF Acquire, Enqueue
    <3>2. Lease!Ask(c, w)
      BY <1>a, <2>1, <3>1 DEF Lease!Ask
    <3>3. QED
      BY <2>1, <3>2 DEF Lease!Next
  <2>4. QED
    BY <2>2, <2>3
<1>2. ASSUME NEW c \in Clients, Idle(c), UNCHANGED <<parked, lease>>, lease[c] = NoModel
      PROVE  Lease!Next
  <2>1. want' = [t \in Threads |-> IF t \in {c} THEN NoModel ELSE want[t]]
    BY <1>2 DEF Idle, TypeOK
  <2>2. Lease!Withdraw({c})
    BY <1>2, <1>a, <2>1 DEF Lease!Withdraw
  <2>3. {c} \in SUBSET Threads
    BY DEF Threads
  <2>4. QED
    BY <2>2, <2>3 DEF Lease!Next
<1>3. ASSUME NEW c \in Clients, Wait(c) PROVE Lease!Next
  <2>1. CASE ReturnGranted(c)
    BY <2>1, <1>a DEF ReturnGranted
  <2>2. CASE ReturnFailed(c)
    BY <2>2, <1>2 DEF ReturnFailed, IInv, LeaseState
  <2>3. CASE GiveUp(c)
    BY <2>3, <1>2 DEF GiveUp, IInv, LeaseState
  <2>4. CASE HeadGrant(c)
    <3>1. PICK S \in SUBSET Clients :
            Grant(S, active) /\ \A d \in S : d \in Queue /\ want[d] \in {active, AnyModel}
      <4>1. CASE want[c] = active /\ Grant(Batch(active), active)
        BY <4>1 DEF Batch, Queue
      <4>2. CASE want[c] = AnyModel /\ Grant({c}, active)
        BY <2>4, <4>2, {c} \in SUBSET Clients DEF HeadGrant, MyTurn, Queue
      <4>3. QED
        BY <2>4, <4>1, <4>2 DEF HeadGrant
    <3>2. active' = active /\ active \in Models /\ ~swapping' /\ UNCHANGED <<parked, want>>
      BY <2>4 DEF HeadGrant, MyTurn, swapping, TypeOK
    <3>3. \A d \in S : lease[d] = NoModel
      BY <3>1 DEF IInv, LeaseState, Queue
    <3>4. QED
      BY <1>g, <3>1, <3>2, <3>3
  <2>5. CASE HeadRefuse(c)
    BY <2>5, <1>2 DEF HeadRefuse, MyTurn, IInv, LeaseState
  <2>6. CASE BeginSwap(c)
    BY <2>6, <1>a DEF BeginSwap
  <2>7. QED
    BY <1>3, <2>1, <2>2, <2>3, <2>4, <2>5, <2>6 DEF Wait
<1>4. ASSUME NEW t \in Threads, DropLease(t), want' = [want EXCEPT ![t] = NoModel], UNCHANGED parked
      PROVE  Lease!Next
  <2>1. Lease!Leave(t)
    BY <1>4, <1>a DEF Lease!Leave, DropLease
  <2>2. QED
    BY <2>1 DEF Lease!Next
<1>5. ASSUME NEW t \in Monitors, AcquireActive(t) PROVE Lease!Next
  <2>1. active \in OnCards /\ active \in Models /\ lease[t] = NoModel /\ want[t] = NoModel
    BY <1>5 DEF AcquireActive, IInv, SwapState, WantState, swapping, TypeOK
  <2>2. lease' = [u \in Threads |-> IF u \in {t} THEN active ELSE lease[u]]
        /\ want' = [want EXCEPT ![t] = AnyModel] /\ UNCHANGED parked
    BY <1>5 DEF AcquireActive, TypeOK
  <2>3. {t} \in SUBSET Threads
    BY DEF Threads
  <2>4. Lease!Admit({t}, active)
    BY <1>a, <2>1, <2>2, <2>3 DEF Lease!Admit, TypeOK, Threads
  <2>5. QED
    BY <2>1, <2>3, <2>4 DEF Lease!Next
<1>6. ASSUME NEW m \in Models, parked' = [parked EXCEPT ![m] = TRUE], Holders = {},
             UNCHANGED <<want, lease>>
      PROVE  Lease!Next
  <2>1. OnCards' = OnCards \ {m}
    BY <1>6 DEF OnCards, TypeOK
  <2>2. \A t \in Threads : lease[t] # m
    BY <1>6 DEF Holders
  <2>3. Lease!Unload(m)
    BY <1>6, <2>1, <2>2 DEF Lease!Unload
  <2>4. QED
    BY <2>3 DEF Lease!Next
<1>7. ASSUME NEW m \in Models, parked' = [parked EXCEPT ![m] = FALSE], OnCards = {},
             UNCHANGED <<want, lease>>
      PROVE  Lease!Next
  <2>1. OnCards' = {m}
    BY <1>7 DEF OnCards, TypeOK
  <2>2. Lease!Load(m)
    BY <1>7, <2>1 DEF Lease!Load
  <2>3. QED
    BY <2>2 DEF Lease!Next
<1>8. CASE Park
  <2>1. swap.from \in Models /\ Holders = {} /\ ~UNCHANGED parked /\ UNCHANGED <<want, lease>>
    BY <1>8, <1>a DEF Park, IInv, SwapState, LeaseState, swapping, TypeOK
  <2>2. QED
    BY <1>6, <1>8, <2>1 DEF Park
<1>9. CASE Unpark
  <2>1. swap.to \in Models /\ OnCards = {} /\ ~UNCHANGED parked /\ UNCHANGED <<want, lease>>
    BY <1>9, <1>a DEF Unpark, IInv, SwapState, TypeOK
  <2>2. QED
    BY <1>7, <1>9, <2>1 DEF Unpark
<1>10. CASE PutBack
  <2>1. swap.from \in Models /\ OnCards = {} /\ ~UNCHANGED parked /\ UNCHANGED <<want, lease>>
    BY <1>10, <1>a DEF PutBack, IInv, SwapState, TypeOK
  <2>2. QED
    BY <1>7, <1>10, <2>1 DEF PutBack
<1>11. CASE EndSwapIn
  <2>1. /\ Grant(Batch(swap.to), active') /\ active' = swap.to /\ active' \in Models
        /\ ~swapping' /\ UNCHANGED <<parked, want>>
    BY <1>11 DEF EndSwapIn, IInv, SwapState, swapping, NoSwap, TypeOK
  <2>2. Batch(swap.to) \in SUBSET Clients
    BY DEF Batch, Queue
  <2>3. \A c \in Batch(swap.to) : lease[c] = NoModel /\ want'[c] \in {active', AnyModel}
    BY <2>1 DEF Batch, Queue, IInv, LeaseState
  <2>4. QED
    BY <1>g, <2>1, <2>2, <2>3
<1>12. QED
  <2>1. \A c \in Clients : ~Disconnect(c)
    BY <1>a DEF Disconnect
  <2>2. ~EndSwapFailed /\ ~EndSleep /\ ~TrySleep /\ ~UNCHANGED vars
    BY <1>a DEF EndSwapFailed, EndSleep, TrySleep, vars
  <2>3. \A c \in Clients : Release(c) => Lease!Next
    BY <1>4 DEF Release, Idle, Threads
  <2>4. \A t \in Monitors : ReleasePin(t) => Lease!Next
    BY <1>4 DEF ReleasePin, Threads
  <2>5. QED
    BY <1>1, <1>3, <1>5, <1>8, <1>9, <1>10, <1>11, <2>1, <2>2, <2>3, <2>4 DEF Next, SwapSteps

(* The router implements CardLease: the cards change hands only while      *)
(* nobody uses them, and requests run only on what they asked for.         *)
THEOREM RouterImplementsCardLease == Spec => ImplementsCardLease
<1>1. QED
  BY LeaseInit, LeaseStep, Invariance, PTL DEF Spec, ImplementsCardLease, Lease!Spec

(* What CardLease says of admission is enough for claim 9: whatever keeps  *)
(* it serves each request on a model it asked for, for as long as it runs. *)
THEOREM CardLeaseServesAsAsked == ImplementsCardLease => []ServedAsAsked
<1> DEFINE Served == /\ DOMAIN want = Threads /\ DOMAIN lease = Threads
                     /\ ServedAsAsked
<1>1. Lease!Init => Served
  BY DEF Lease!Init, ServedAsAsked, Holders
<1>2. Served /\ [Lease!Next]_(Lease!cardVars) => Served'
  <2> SUFFICES ASSUME Served, [Lease!Next]_(Lease!cardVars) PROVE Served'
    OBVIOUS
  <2> USE DEF ServedAsAsked, Holders
  <2>1. CASE \E u \in Threads, w \in Models \union {AnyModel} : Lease!Ask(u, w)
    BY <2>1 DEF Lease!Ask
  <2>2. CASE \E S \in SUBSET Threads : Lease!Withdraw(S)
    BY <2>2 DEF Lease!Withdraw
  <2>3. CASE \E S \in SUBSET Threads, m \in Models : Lease!Admit(S, m)
    BY <2>3 DEF Lease!Admit
  <2>4. CASE \E u \in Threads : Lease!Leave(u)
    BY <2>4 DEF Lease!Leave
  <2>5. CASE \/ \E m \in Models : Lease!Unload(m) \/ Lease!Load(m)
             \/ UNCHANGED Lease!cardVars
    BY <2>5 DEF Lease!Unload, Lease!Load, Lease!cardVars
  <2> QED
    BY <2>1, <2>2, <2>3, <2>4, <2>5 DEF Lease!Next
<1> QED
  BY <1>1, <1>2, PTL DEF ImplementsCardLease, Lease!Spec
=============================================================================
