---------------------------- MODULE HotSwapRouter ----------------------------
(***************************************************************************)
(* The hot-swap router, examples/server/pxa-hotswap.h: one server process, *)
(* several models, one of them on the cards.  A request takes a lease on a *)
(* model; if that model is parked it queues, and the request at the head   *)
(* of the queue swaps its model in once the active one has drained.        *)
(*                                                                         *)
(* Every action is one critical section of the router's mutex, or one      *)
(* park/unpark call made between two of them (swap_locked and try_sleep    *)
(* drop the mutex around those calls).  The deque of tickets is kept as    *)
(* ahead[c], the set of clients whose ticket stands before c's.            *)
(***************************************************************************)
EXTENDS Naturals, FiniteSets

CONSTANTS Models,     \* the registered models
          Clients,    \* threads serving requests (one ticket each at a time)
          Monitors,   \* threads serving monitoring endpoints
          NoModel,    \* the index -1
          AnyModel,   \* the ticket index -1 of a request that names no model
          First,      \* the -m model, on the cards when the router is built
          Flaky,      \* models whose park and unpark may fail
          SleepIdle   \* --sleep-idle-seconds is set

ASSUME RouterConstants ==
    /\ First \in Models
    /\ NoModel \notin Models /\ AnyModel \notin Models /\ NoModel # AnyModel
    /\ Clients \cap Monitors = {}
    /\ IsFiniteSet(Clients) /\ IsFiniteSet(Monitors)
    /\ Flaky \subseteq Models
    /\ SleepIdle \in BOOLEAN

Threads == Clients \union Monitors

VARIABLES active,     \* active_: the model the router believes is on the cards
          slept,      \* slept_: the model try_sleep parked
          inflight,   \* inflight_: leases outstanding
          swap,       \* swapping_, and how far the unlocked part has got
          parked,     \* pxa_hs_parked of every model's server_context
          pc,         \* where each request thread is
          want,       \* the model each thread asked for
          ahead,      \* queue_: the tickets before a client's own
          lease,      \* the model each thread holds a lease on
          closed      \* the client's connection is gone

vars == <<active, slept, inflight, swap, parked, pc, want, ahead, lease, closed>>

(* Phases of the unlocked part: "park", "unpark" and "putback" are the     *)
(* calls still to make; the others are the outcomes the second critical    *)
(* section acts on.                                                        *)
Calls    == {"park", "unpark", "putback"}
Outcomes == {"in",      \* the target is on the cards
             "kept",    \* the park failed, the previous model never left
             "back",    \* the unpark failed, the previous model is back
             "lost",    \* the unpark failed and nothing is on the cards
             "slept"}   \* try_sleep parked the model
NoSwap   == [phase |-> "none", from |-> NoModel, to |-> NoModel]

swapping == swap.phase # "none"
Queue    == {c \in Clients : pc[c] \in {"queued", "swapping"}}
Holders  == {t \in Threads : lease[t] # NoModel}
OnCards  == {m \in Models : ~parked[m]}
AtHead(c) == c \in Queue /\ ahead[c] = {}

Init ==
    /\ active = First
    /\ slept = NoModel
    /\ inflight = 0
    /\ swap = NoSwap
    /\ parked = [m \in Models |-> m # First]
    /\ pc = [c \in Clients |-> "idle"]
    /\ want = [t \in Threads |-> NoModel]
    /\ ahead = [c \in Clients |-> {}]
    /\ lease = [t \in Threads |-> NoModel]
    /\ closed = [c \in Clients |-> FALSE]

-----------------------------------------------------------------------------
(* Helpers that run under the mutex.  A definition named X_Slip is X with  *)
(* a plausible coding slip; nothing uses it but the mutation checks.       *)

(* drop_locked, and the erase of the grant and fail loops *)
Dequeue(S) == ahead' = [c \in Clients |-> IF c \in S THEN {} ELSE ahead[c] \ S]

Batch_SlipNamedOnly(m) == {c \in Queue : want[c] = m}

(* The tickets grant_all_locked admits onto m: every one for m, and every  *)
(* "any model" one.                                                        *)
Batch(m) == {c \in Queue : want[c] \in {m, AnyModel}}

Grant_SlipCountsOne(S, m) ==
    /\ pc' = [c \in Clients |-> IF c \in S THEN "granted" ELSE pc[c]]
    /\ lease' = [t \in Threads |-> IF t \in S THEN m ELSE lease[t]]
    /\ inflight' = inflight + 1
    /\ Dequeue(S)

(* The tickets in S get a lease on m. *)
Grant(S, m) ==
    /\ pc' = [c \in Clients |-> IF c \in S THEN "granted" ELSE pc[c]]
    /\ lease' = [t \in Threads |-> IF t \in S THEN m ELSE lease[t]]
    /\ inflight' = inflight + Cardinality(S)
    /\ Dequeue(S)

FailAll_SlipNotTheSwapper(m) ==
    LET S == {c \in Queue : want[c] = m /\ pc[c] = "queued"}
    IN /\ pc' = [c \in Clients |-> IF c \in S THEN "failed"
                                   ELSE IF c \in Queue THEN "queued" ELSE pc[c]]
       /\ Dequeue(S)

(* fail_all_locked: the tickets that named m fail.  A swapper whose ticket *)
(* names no model is back in its loop, still queued.                       *)
FailAll(m) ==
    LET S == {c \in Queue : want[c] = m}
    IN /\ pc' = [c \in Clients |-> IF c \in S THEN "failed"
                                   ELSE IF c \in Queue THEN "queued" ELSE pc[c]]
       /\ Dequeue(S)

(* The request is over for the router. *)
Idle(c) ==
    /\ pc' = [pc EXCEPT ![c] = "idle"]
    /\ want' = [want EXCEPT ![c] = NoModel]
    /\ closed' = [closed EXCEPT ![c] = FALSE]

-----------------------------------------------------------------------------
(* acquire(idx) and acquire_any(): admitted at once, or a ticket at the    *)
(* back of the queue.                                                      *)

CanEnter_SlipWhileSwapping(w) == active # NoModel /\ Queue = {} /\ w \in {active, AnyModel}
CanEnter_SlipPastQueue(w) == ~swapping /\ active # NoModel /\ w \in {active, AnyModel}

CanEnter(w) == ~swapping /\ active # NoModel /\ Queue = {} /\ w \in {active, AnyModel}

Enqueue(c) ==
    /\ pc' = [pc EXCEPT ![c] = "queued"]
    /\ ahead' = [ahead EXCEPT ![c] = Queue]
    /\ UNCHANGED <<inflight, lease>>

Acquire(c, w) ==
    /\ pc[c] = "idle"
    /\ want' = [want EXCEPT ![c] = w]
    /\ IF CanEnter(w) THEN Grant({c}, active) ELSE Enqueue(c)
    /\ UNCHANGED <<active, slept, swap, parked, closed>>

(* The caller's connection drops while its thread waits. *)
Disconnect(c) ==
    /\ pc[c] \in {"queued", "swapping"} /\ ~closed[c]
    /\ closed' = [closed EXCEPT ![c] = TRUE]
    /\ UNCHANGED <<active, slept, inflight, swap, parked, pc, want, ahead, lease>>

(* The wait loop, tests in order: granted, failed, cancelled, head of      *)
(* queue.                                                                  *)
ReturnGranted(c) ==
    /\ pc[c] = "granted"
    /\ pc' = [pc EXCEPT ![c] = "running"]
    /\ UNCHANGED <<active, slept, inflight, swap, parked, want, ahead, lease, closed>>

ReturnFailed(c) ==
    /\ pc[c] = "failed"
    /\ Idle(c)
    /\ UNCHANGED <<active, slept, inflight, swap, parked, ahead, lease>>

GiveUp_SlipDuringSwap(c) ==
    /\ pc[c] \in {"queued", "swapping"} /\ closed[c]
    /\ Idle(c)
    /\ Dequeue({c})
    /\ UNCHANGED <<active, slept, inflight, swap, parked, lease>>

GiveUp(c) ==
    /\ pc[c] = "queued" /\ closed[c]
    /\ Idle(c)
    /\ Dequeue({c})
    /\ UNCHANGED <<active, slept, inflight, swap, parked, lease>>

MyTurn(c) == pc[c] = "queued" /\ ~closed[c] /\ AtHead(c) /\ ~swapping

(* A named request whose model is active admits all of that model's        *)
(* requests (grant_all_locked); an unnamed one admits only itself.         *)
HeadGrant(c) ==
    /\ MyTurn(c) /\ active # NoModel
    /\ \/ want[c] = active /\ Grant(Batch(active), active)
       \/ want[c] = AnyModel /\ Grant({c}, active)
    /\ UNCHANGED <<active, slept, swap, parked, want, closed>>

(* The unnamed request at the head finds neither an active nor a slept     *)
(* model.                                                                  *)
HeadRefuse(c) ==
    /\ MyTurn(c) /\ want[c] = AnyModel /\ active = NoModel
    /\ ~(slept # NoModel /\ inflight = 0)
    /\ Idle(c)
    /\ Dequeue({c})
    /\ UNCHANGED <<active, slept, inflight, swap, parked, lease>>

SwapTarget_SlipTicketIndex(c) == IF want[c] # AnyModel \/ active = NoModel THEN want[c] ELSE NoModel
SwapTarget_SlipNamedOnly(c) == IF want[c] # AnyModel THEN want[c] ELSE NoModel

(* swap_locked up to its unlock.  An unnamed request brings back the model *)
(* that sleeps.                                                            *)
SwapTarget(c) ==
    IF want[c] # AnyModel THEN want[c]
    ELSE IF active = NoModel THEN slept ELSE NoModel

BeginSwap_SlipNotDrained(c) ==
    LET to == SwapTarget(c)
    IN /\ MyTurn(c)
       /\ to \notin {active, NoModel}
       /\ swap' = [phase |-> IF active = NoModel THEN "unpark" ELSE "park",
                   from |-> active, to |-> to]
       /\ pc' = [pc EXCEPT ![c] = "swapping"]
       /\ UNCHANGED <<active, slept, inflight, parked, want, ahead, lease, closed>>

BeginSwap(c) ==
    LET to == SwapTarget(c)
    IN /\ MyTurn(c) /\ inflight = 0
       /\ to \notin {active, NoModel}
       /\ swap' = [phase |-> IF active = NoModel THEN "unpark" ELSE "park",
                   from |-> active, to |-> to]
       /\ pc' = [pc EXCEPT ![c] = "swapping"]
       /\ UNCHANGED <<active, slept, inflight, parked, want, ahead, lease, closed>>

-----------------------------------------------------------------------------
(* The calls made without the mutex.  Park and unpark run on the model's   *)
(* own loop and are no-ops when there is nothing to do; a failing one      *)
(* leaves the model where it was.                                          *)

SetPhase(p) == swap' = [swap EXCEPT !.phase = p]

Park ==
    /\ swap.phase = "park"
    /\ \/ /\ parked' = [parked EXCEPT ![swap.from] = TRUE]
          /\ SetPhase(IF swap.to = NoModel THEN "slept" ELSE "unpark")
       \/ /\ swap.from \in Flaky
          /\ SetPhase("kept")
          /\ UNCHANGED parked
    /\ UNCHANGED <<active, slept, inflight, pc, want, ahead, lease, closed>>

Unpark ==
    /\ swap.phase = "unpark"
    /\ \/ /\ parked' = [parked EXCEPT ![swap.to] = FALSE]
          /\ SetPhase("in")
       \/ /\ swap.to \in Flaky
          /\ SetPhase(IF swap.from = NoModel THEN "lost" ELSE "putback")
          /\ UNCHANGED parked
    /\ UNCHANGED <<active, slept, inflight, pc, want, ahead, lease, closed>>

PutBack ==
    /\ swap.phase = "putback"
    /\ \/ /\ parked' = [parked EXCEPT ![swap.from] = FALSE]
          /\ SetPhase("back")
       \/ /\ swap.from \in Flaky
          /\ SetPhase("lost")
          /\ UNCHANGED parked
    /\ UNCHANGED <<active, slept, inflight, pc, want, ahead, lease, closed>>

(* swap_locked and try_sleep after they lock again. *)
EndSwapIn ==
    /\ swap.phase = "in"
    /\ active' = swap.to
    /\ slept' = NoModel
    /\ Grant(Batch(swap.to), swap.to)
    /\ swap' = NoSwap
    /\ UNCHANGED <<parked, want, closed>>

EndSwapFailed_SlipAssumesBack ==
    /\ swap.phase \in {"kept", "back", "lost"} /\ swap.to # NoModel
    /\ active' = swap.from
    /\ FailAll(swap.to)
    /\ swap' = NoSwap
    /\ UNCHANGED <<slept, inflight, parked, want, lease, closed>>

EndSwapFailed ==
    /\ swap.phase \in {"kept", "back", "lost"} /\ swap.to # NoModel
    /\ active' = IF swap.phase = "lost" THEN NoModel ELSE swap.from
    /\ FailAll(swap.to)
    /\ swap' = NoSwap
    /\ UNCHANGED <<slept, inflight, parked, want, lease, closed>>

EndSleep ==
    /\ swap.phase \in {"kept", "slept"} /\ swap.to = NoModel
    /\ IF swap.phase = "slept"
       THEN active' = NoModel /\ slept' = swap.from
       ELSE UNCHANGED <<active, slept>>
    /\ swap' = NoSwap
    /\ UNCHANGED <<inflight, parked, pc, want, ahead, lease, closed>>

(* try_sleep, called by the idle watcher, up to its unlock. *)
TrySleep ==
    /\ SleepIdle
    /\ ~swapping /\ inflight = 0 /\ Queue = {} /\ active # NoModel
    /\ swap' = [phase |-> "park", from |-> active, to |-> NoModel]
    /\ UNCHANGED <<active, slept, inflight, parked, pc, want, ahead, lease, closed>>

-----------------------------------------------------------------------------
(* acquire_active() of a monitoring endpoint: no ticket, waits out a swap. *)
AcquireActive(t) ==
    /\ lease[t] = NoModel
    /\ ~swapping /\ active # NoModel
    /\ inflight' = inflight + 1
    /\ lease' = [lease EXCEPT ![t] = active]
    /\ want' = [want EXCEPT ![t] = AnyModel]
    /\ UNCHANGED <<active, slept, swap, parked, pc, ahead, closed>>

(* release(): a lease on a model that is not active is reported and the    *)
(* counter left alone.                                                     *)
DropLease(t) ==
    /\ inflight' = IF lease[t] = active /\ inflight > 0 THEN inflight - 1 ELSE inflight
    /\ lease' = [lease EXCEPT ![t] = NoModel]

Release(c) ==
    /\ pc[c] = "running"
    /\ DropLease(c)
    /\ Idle(c)
    /\ UNCHANGED <<active, slept, swap, parked, ahead>>

ReleasePin(t) ==
    /\ lease[t] # NoModel
    /\ DropLease(t)
    /\ want' = [want EXCEPT ![t] = NoModel]
    /\ UNCHANGED <<active, slept, swap, parked, pc, ahead, closed>>

-----------------------------------------------------------------------------
Wait(c) ==
    \/ ReturnGranted(c) \/ ReturnFailed(c) \/ GiveUp(c)
    \/ HeadGrant(c) \/ HeadRefuse(c) \/ BeginSwap(c)

SwapSteps == Park \/ Unpark \/ PutBack \/ EndSwapIn \/ EndSwapFailed \/ EndSleep

Next ==
    \/ \E c \in Clients :
          \/ \E w \in Models \union {AnyModel} : Acquire(c, w)
          \/ Disconnect(c) \/ Wait(c) \/ Release(c)
    \/ \E t \in Monitors : AcquireActive(t) \/ ReleasePin(t)
    \/ SwapSteps \/ TrySleep

Spec == Init /\ [][Next]_vars

(* The wait loop polls every 50 ms, a swap call returns, a response ends   *)
(* and its lease with it.  Arrivals, disconnects, pins and sleeps are not  *)
(* owed to anybody.                                                        *)
Fairness ==
    /\ \A c \in Clients : WF_vars(Wait(c)) /\ WF_vars(Release(c))
    /\ \A t \in Monitors : WF_vars(ReleasePin(t))
    /\ WF_vars(SwapSteps)

FairSpec == Spec /\ Fairness

-----------------------------------------------------------------------------
(* Properties.                                                             *)

(* Every variable stays in its type; the deque holds clients with tickets. *)
TypeOK ==
    /\ active \in Models \union {NoModel}
    /\ slept \in Models \union {NoModel}
    /\ inflight \in Nat
    /\ swap \in [phase : {"none"} \union Calls \union Outcomes,
                 from : Models \union {NoModel}, to : Models \union {NoModel}]
    /\ parked \in [Models -> BOOLEAN]
    /\ pc \in [Clients -> {"idle", "queued", "swapping", "granted", "failed", "running"}]
    /\ want \in [Threads -> Models \union {AnyModel, NoModel}]
    /\ ahead \in [Clients -> SUBSET Clients]
    /\ lease \in [Threads -> Models \union {NoModel}]
    /\ closed \in [Clients -> BOOLEAN]

(* The counter that decides whether a model has drained is the number of   *)
(* leases really held, those granted to a thread still asleep included:    *)
(* inflight_ neither leaks (no swap would ever start) nor runs ahead.      *)
InflightIsLeases == inflight = Cardinality(Holders)

(* Claim 9 of tests/test-pxa-hotswap.cpp: no lease is ever held on a model *)
(* that is not on the cards, or beside another one that is, also while a   *)
(* swap is in its unlocked part.                                           *)
LeaseOnCards == \A t \in Holders : OnCards = {lease[t]}

(* Between two swaps the router's active_ and the parked flags of all the  *)
(* models tell the same story, after every way a park, an unpark and a     *)
(* put-back can fail; at no time are two models on the cards.              *)
RouterKnowsTheCards ==
    /\ ~swapping => OnCards = {active} \ {NoModel}
    /\ \A m, n \in OnCards : m = n

(* Claim 9: a request runs on the model it named, whatever batch or swap   *)
(* admitted it.                                                            *)
ServedAsAsked == \A t \in Holders : want[t] \in {lease[t], AnyModel}

(* The deque has one order and one head, and the thread that swaps is at   *)
(* that head with a ticket the target serves: only one thread can be in    *)
(* swap_locked, and its ticket is still there to be granted or failed.     *)
SwapperIsHead ==
    /\ \A c, d \in Queue : c # d => (c \in ahead[d] <=> d \notin ahead[c])
    /\ \A c \in Clients : pc[c] = "swapping" =>
          /\ swapping /\ swap.to # NoModel
          /\ ahead[c] = {} /\ want[c] \in {swap.to, AnyModel}
    /\ swapping /\ swap.to # NoModel => \E c \in Clients : pc[c] = "swapping"

(* "a request for the active model runs at once, unless requests for other *)
(* models are already waiting": whoever is admitted while others queue is  *)
(* admitted together with the head of the queue, never past it.            *)
HeadFirst ==
    [][\A c, d \in Clients :
          /\ AtHead(c)
          /\ lease[d] = NoModel /\ lease'[d] # NoModel
          => lease'[c] # NoModel]_vars

(* "EVERY queued request for M is admitted together": when a swap brings   *)
(* M in, nobody who wants M, or anything, is left in the queue.            *)
BurstTakesOneSwap ==
    [][active' # active /\ active' # NoModel =>
          \A c \in Queue' : want'[c] \notin {active', AnyModel}]_vars

(* The router implements what hot swap promises. *)
Lease == INSTANCE CardLease WITH
            Users <- Threads, loaded <- OnCards, asked <- want, using <- lease
ImplementsCardLease == Lease!Spec

(* A request that names no model wakes the model that sleeps; when that    *)
(* fails it is left in the queue, to try again.                            *)
WakeFails ==
    /\ swap.phase = "lost"
    /\ \E c \in Clients : pc[c] = "swapping" /\ want[c] = AnyModel

(* Every request that waits gets an answer (a lease, an error) or leaves,  *)
(* whatever parks and unparks fail and whenever the model is put to sleep: *)
(* the wait loop of acquire and acquire_any ends, unless a model that      *)
(* sleeps cannot be woken.                                                 *)
WaiterAnswered == \A c \in Clients : c \in Queue ~> c \notin Queue \/ WakeFails

(* The header's "A failed swap fails the requests that wanted the target", *)
(* for every request there is.                                             *)
FailedSwapIsAnswered ==
    [][\A c \in Clients :
          /\ pc[c] = "swapping" /\ swapping /\ ~swapping'
          => c \notin Queue']_vars

(* The same for the requests that name a model, as in claim 6 of           *)
(* tests/test-pxa-hotswap.cpp.                                             *)
NamedSwapIsAnswered ==
    [][\A c \in Clients :
          /\ pc[c] = "swapping" /\ swapping /\ ~swapping' /\ want[c] # AnyModel
          => c \notin Queue']_vars

-----------------------------------------------------------------------------
(* The inductive invariant of the proofs (HotSwapRouterProofs).            *)

(* A client holds a lease exactly when its ticket was granted and not yet  *)
(* released; every lease is on the active model; a swap has none.          *)
LeaseState ==
    /\ \A c \in Clients : lease[c] # NoModel <=> pc[c] \in {"granted", "running"}
    /\ \A t \in Holders : lease[t] = active
    /\ swapping => Holders = {}

(* What each thread asked for is recorded while its request lasts. *)
WantState ==
    /\ \A c \in Clients : pc[c] = "idle" <=> want[c] = NoModel
    /\ \A t \in Monitors : lease[t] = NoModel <=> want[t] = NoModel

(* What is on the cards in each phase of a swap. *)
SwapState ==
    /\ swap.phase = "none" => OnCards = {active} \ {NoModel}
    /\ swap.phase \in {"park", "kept", "back"} => OnCards = {swap.from}
    /\ swap.phase \in {"unpark", "putback", "lost", "slept"} => OnCards = {}
    /\ swap.phase = "in" => OnCards = {swap.to}
    /\ swap.phase \in {"park", "kept", "putback", "back", "slept"} => swap.from # NoModel
    /\ swap.phase \in {"unpark", "in", "putback", "back", "lost"} => swap.to # NoModel
    /\ swap.phase = "slept" => swap.to = NoModel
    /\ swapping => swap.from = active

(* The tickets of the queue, and nothing else, are in the order. *)
QueueState ==
    /\ \A c \in Clients : ahead[c] \subseteq Queue
    /\ \A c \in Clients : c \notin Queue => ahead[c] = {}
    /\ \A c \in Queue : c \notin ahead[c]

IInv ==
    /\ TypeOK /\ InflightIsLeases /\ LeaseState /\ WantState
    /\ SwapState /\ QueueState /\ SwapperIsHead /\ ServedAsAsked
=============================================================================
