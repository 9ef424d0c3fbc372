------------------------------ MODULE Residency ------------------------------
(***************************************************************************)
(* Residency groups, ggml/src/pxa-residency.h: every allocation one model  *)
(* makes on the cards belongs to its group.  Parking copies down what must *)
(* survive and unmaps, unparking maps at the same addresses and copies     *)
(* back, one thread per device, taking memory from parked groups when a    *)
(* device is full.                                                         *)
(*                                                                         *)
(* A chunk <<r, i>> is the i-th piece of record r and one unit of memory;  *)
(* a scratch pool is a record of class "pool".  An action is one critical  *)
(* section of a group's mutex, except that an unpark or an allocation is   *)
(* split into its device threads' steps.                                   *)
(***************************************************************************)
EXTENDS Integers, FiniteSets, FiniteSetsExt

CONSTANTS Groups,    \* numbers, in the order of the registry
          Devices,
          Records,   \* numbers, in the order of recs_
          GroupOf, DevOf, ClassOf,  \* of a record
          Slabs,     \* records that grow a slice at a time
          Room,      \* chunks a record may have (its virtual range)
          MaxRoom,
          Capacity,  \* chunks a device has memory for
          PinLimit,  \* pinned_limit, in chunks
          Headroom,  \* of park_for
          Values,    \* what a chunk can hold
          Undefined, Zero,   \* fresh memory, and memory that was cleared
          Absent,    \* no memory at all
          Faulty     \* driver calls may fail

Classes == {"pool", "scratch", "weights", "state"}

ASSUME ResidencyConstants ==
    /\ Groups \subseteq Nat /\ IsFiniteSet(Groups)
    /\ Records \subseteq Nat /\ IsFiniteSet(Records)
    /\ IsFiniteSet(Devices)
    /\ GroupOf \in [Records -> Groups] /\ DevOf \in [Records -> Devices]
    /\ ClassOf \in [Records -> Classes]
    /\ Slabs \subseteq Records /\ MaxRoom \in Nat /\ Room \in [Records -> 0..MaxRoom]
    /\ \A r \in Records : ClassOf[r] = "pool" => Room[r] = 1 /\ r \notin Slabs
    /\ Capacity \in [Devices -> Nat] /\ PinLimit \in Nat /\ Headroom \in Nat
    /\ Undefined \notin Values \union {Zero} /\ Absent \notin Values \union {Zero, Undefined}
    /\ Faulty \in BOOLEAN

VARIABLES place,    \* of each group: "new" (not created), "cards" or "parked"
          size,     \* size of each record
          mapped,   \* chunks backed by physical memory
          mirror,   \* mirror_cap of each record
          top,      \* mirror_top of each record
          card,     \* contents of the mapped chunks
          host,     \* contents of the mirrors
          op        \* the unpark or allocation in progress

store == <<mirror, top, host>>
vars  == <<place, size, mapped, mirror, top, card, host, op>>

Chunk   == {c \in Records \X (1..MaxRoom) : c[2] <= Room[c[1]]}
Held    == {c \in Chunk : c[2] <= size[c[1]]}
Of(g)   == {c \in Chunk : GroupOf[c[1]] = g}
On(d)   == {c \in Chunk : DevOf[c[1]] = d}
Class(c)   == ClassOf[c[1]]
Lasting(c) == Class(c) \in {"weights", "state"}
Free(d) == Capacity[d] - Cardinality(mapped \intersect On(d))
Pinned  == MapThenSumSet(LAMBDA r : mirror[r], Records)

(* A device thread maps what is planned for it ("map"), reclaims when the  *)
(* device is full ("reclaim", then "retry"), then clears and copies        *)
(* ("fill").  broke records that some driver call or release failed.       *)
Stages == {"map", "reclaim", "retry", "fill", "ok", "failed"}
NoOp == [kind |-> "none", group |-> 0, plan |-> {}, done |-> {},
         at |-> [d \in Devices |-> "ok"], seen |-> [d \in Devices |-> {}], broke |-> FALSE]
Busy == op.kind # "none"

Init ==
    /\ place = [g \in Groups |-> "new"]
    /\ size = [r \in Records |-> 0]
    /\ mapped = {}
    /\ mirror = [r \in Records |-> 0] /\ top = [r \in Records |-> 0]
    /\ card = [c \in Chunk |-> Absent] /\ host = [c \in Chunk |-> Absent]
    /\ op = NoOp

-----------------------------------------------------------------------------
(* Copying down: plan_mirror_weights, ensure_mirror, the d2h of the device *)
(* threads and commit_down, for the chunks C a release or a prime wants in *)
(* the mirrors.  (X_Slip... is X with a plausible coding slip, used by the *)
(* mutation checks only.)                                                  *)

ReleaseRank == [pool |-> 0, scratch |-> 1, weights |-> 2, state |-> 3]

(* release_locked takes pools, then scratch, weights, state; a record from *)
(* its end.                                                                *)
Before(c, e) ==
    \/ ReleaseRank[Class(c)] < ReleaseRank[Class(e)]
    \/ /\ Class(c) = Class(e)
       /\ c[1] < e[1] \/ (c[1] = e[1] /\ c[2] > e[2])

(* What the release of S copies down: its state, and of a weights record   *)
(* all that is not mirrored yet.                                           *)
CopiesOf(S) ==
    {c \in S : Class(c) = "state"}
    \union {c \in Held : Class(c) = "weights" /\ c[2] > top[c[1]] /\ \E e \in S : e[1] = c[1]}

Short(C) == {r \in {c[1] : c \in C} : mirror[r] < size[r]}
Grown_SlipAdds(R) == [r \in Records |-> IF r \in R THEN mirror[r] + size[r] ELSE mirror[r]]
Grown(R) == [r \in Records |-> IF r \in R THEN size[r] ELSE mirror[r]]

(* The records, in the order of the release, whose mirrors fit the budget. *)
Granted(C) ==
    LET First(r) == {q \in Short(C) : \/ ReleaseRank[ClassOf[q]] < ReleaseRank[ClassOf[r]]
                                      \/ ClassOf[q] = ClassOf[r] /\ q <= r}
    IN {r \in Short(C) : Pinned + MapThenSumSet(LAMBDA q : size[q] - mirror[q], First(r)) <= PinLimit}

CopyDown_SlipTopOfAll(C) ==
    /\ Granted(C) = Short(C)
    /\ mirror' = Grown(Short(C))
    /\ host' = [c \in Chunk |-> IF c \in C THEN card[c] ELSE host[c]]
    /\ top' = [r \in Records |-> IF ClassOf[r] = "weights" THEN size[r] ELSE top[r]]

CopyDown(C) ==
    /\ Granted(C) = Short(C)
    /\ mirror' = Grown(Short(C))
    /\ host' = [c \in Chunk |-> IF c \in C THEN card[c] ELSE host[c]]
    /\ top' = [r \in Records |-> IF ClassOf[r] = "weights" /\ \E c \in C : c[1] = r
                                 THEN size[r] ELSE top[r]]

(* The budget or the memory for a mirror runs out half way, or a device's  *)
(* copies fail after some of them: no chunk is released, mirror_top stays, *)
(* what was allocated and copied until then remains.                       *)
CopyDownFails(C) ==
    /\ UNCHANGED top
    /\ \/ /\ Granted(C) # Short(C)
          /\ mirror' = Grown(Granted(C)) /\ UNCHANGED host
       \/ /\ Faulty
          /\ \E R \in SUBSET Granted(C) : R # Short(C) /\ mirror' = Grown(R)
          /\ UNCHANGED host
       \/ /\ Faulty /\ C # {} /\ Granted(C) = Short(C)
          /\ mirror' = Grown(Short(C))
          /\ \E D \in SUBSET C : host' = [c \in Chunk |-> IF c \in D THEN card[c] ELSE host[c]]

(* phys_unmap of S; a pool may refuse, which is only reported. *)
Unmap(S) ==
    \E kept \in SUBSET {c \in S : Class(c) = "pool" /\ Faulty} :
        /\ mapped' = mapped \ (S \ kept)
        /\ card' = [c \in Chunk |-> IF c \in S \ kept THEN Absent ELSE card[c]]

-----------------------------------------------------------------------------
(* The groups.  At boot each model is created, bound, loaded and parked in *)
(* turn, the -m model last; the router keeps at most one on the cards.     *)
NoneOnCards == \A g \in Groups : place[g] # "cards"

Create(g) ==
    /\ place[g] = "new" /\ NoneOnCards /\ ~Busy
    /\ place' = [place EXCEPT ![g] = "cards"]
    /\ UNCHANGED <<size, mapped, card, op, store>>

(* The model runs: it writes its state and its scratch; its weights are    *)
(* loaded once, before they are mirrored (immutable after load).           *)
Write(c, v) ==
    /\ ~Busy /\ c \in Held /\ place[GroupOf[c[1]]] = "cards" /\ Class(c) # "pool"
    /\ Class(c) = "weights" => c[2] > top[c[1]] /\ card[c] = Undefined
    /\ card' = [card EXCEPT ![c] = v]
    /\ UNCHANGED <<place, size, mapped, op, store>>

(* free_buffer: not for slabs; also while the group is parked. *)
FreeBuffer(r) ==
    LET S == {c \in Held : c[1] = r}
    IN /\ ~Busy /\ r \notin Slabs /\ ClassOf[r] # "pool" /\ size[r] > 0
       /\ size' = [size EXCEPT ![r] = 0]
       /\ mapped' = mapped \ S
       /\ card' = [c \in Chunk |-> IF c \in S THEN Absent ELSE card[c]]
       /\ host' = [c \in Chunk |-> IF c \in S THEN Absent ELSE host[c]]
       /\ mirror' = [mirror EXCEPT ![r] = 0] /\ top' = [top EXCEPT ![r] = 0]
       /\ UNCHANGED <<place, op>>

(* prime: the weight mirrors are taken now. *)
Prime(g) ==
    LET C == {c \in Held \intersect Of(g) : Class(c) = "weights" /\ c[2] > top[c[1]]}
    IN /\ ~Busy /\ place[g] = "cards" /\ C # {}
       /\ (CopyDown(C) \/ CopyDownFails(C))
       /\ UNCHANGED <<place, size, mapped, card, op>>

(* park_for(next) leaves next what it needs, and headroom, free on each    *)
(* device; a full park gives everything, also what an earlier one kept.    *)
(* The task loop parks between graph evaluations, when no pool is in use.  *)
Need(g, d) == Cardinality((Held \ mapped) \intersect Of(g) \intersect On(d))
Budget(next, d) == IF Need(next, d) = 0 THEN 0 ELSE Need(next, d) + Headroom - Free(d)

Mine(g, d) == mapped \intersect Of(g) \intersect On(d)

(* release_locked takes chunks in its order as long as some budget is left.*)
Taken(g, d, budget) ==
    {c \in Mine(g, d) : Cardinality({e \in Mine(g, d) : Before(e, c)}) < budget}

Park(g, S) ==
    /\ ~Busy
    /\ \/ /\ CopyDown(CopiesOf(S))
          /\ Unmap(S)
          /\ place' = [place EXCEPT ![g] = "parked"]
       \/ /\ CopyDownFails(CopiesOf(S))
          /\ UNCHANGED <<place, mapped, card>>
    /\ UNCHANGED <<size, op>>

ParkFull(g) == place[g] # "new" /\ Park(g, mapped \intersect Of(g))

ParkFor(g, next) ==
    /\ place[g] # "new" /\ next # g /\ place[next] # "new"
    /\ Park(g, UNION {Taken(g, d, Budget(next, d)) : d \in Devices})

-----------------------------------------------------------------------------
(* Bringing chunks to the cards: unpark, alloc_buffer, alloc_slice and the *)
(* growth of a pool begin here, with the chunks each device must map.      *)
Begin(kind, g, plan) ==
    op' = [NoOp EXCEPT !.kind = kind, !.group = g, !.plan = plan,
           !.at = [d \in Devices |-> IF plan \intersect On(d) # {} THEN "map" ELSE "ok"]]

BeginUnpark_SlipNoPools(g) ==
    /\ ~Busy /\ place[g] = "parked" /\ NoneOnCards
    /\ Begin("unpark", g, {c \in (Held \ mapped) \intersect Of(g) : Class(c) # "pool"})
    /\ UNCHANGED <<place, size, mapped, card, store>>

BeginUnpark(g) ==
    /\ ~Busy /\ place[g] = "parked" /\ NoneOnCards
    /\ Begin("unpark", g, (Held \ mapped) \intersect Of(g))
    /\ UNCHANGED <<place, size, mapped, card, store>>

(* A slab grows by a chunk, a buffer or a pool is made whole. *)
BeginAlloc(r) ==
    LET plan == {c \in Chunk \ Held : c[1] = r /\ (r \in Slabs => c[2] = size[r] + 1)}
    IN /\ ~Busy /\ place[GroupOf[r]] = "cards"
       /\ plan # {} /\ (r \notin Slabs => size[r] = 0)
       /\ Begin("alloc", GroupOf[r], plan)
       /\ UNCHANGED <<place, size, mapped, card, store>>

(* A device thread maps its chunks in order, the pools last. *)
Todo(d) == (op.plan \ op.done) \intersect On(d)
NextUp(c, d) ==
    /\ c \in Todo(d)
    /\ \A e \in Todo(d) \ {c} :
          IF (Class(c) = "pool") = (Class(e) = "pool")
          THEN c[1] < e[1] \/ (c[1] = e[1] /\ c[2] < e[2])
          ELSE Class(e) = "pool"

Goto(d, stage) == op' = [op EXCEPT !.at[d] = stage]

MapOne(c, d, stage) ==
    /\ mapped' = mapped \union {c}
    /\ card' = [card EXCEPT ![c] = Undefined]
    /\ op' = [op EXCEPT !.done = @ \union {c}, !.at[d] = stage]

MapChunk(d) ==
    /\ op.at[d] = "map"
    /\ \/ /\ Todo(d) = {}
          /\ Goto(d, "fill") /\ UNCHANGED <<mapped, card>>
       \/ \E c \in Chunk : NextUp(c, d) /\ Free(d) > 0 /\ MapOne(c, d, "map")
       \/ /\ Todo(d) # {} /\ (Free(d) = 0 \/ Faulty)
          /\ op' = [op EXCEPT !.at[d] = "reclaim", !.seen[d] = {}, !.broke = @ \/ Free(d) > 0]
          /\ UNCHANGED <<mapped, card>>
    /\ UNCHANGED <<place, size, store>>

(* reclaim: the other groups in the order of the registry, each under its  *)
(* own mutex, until one gives a chunk.                                     *)
Donors(d) == {g \in Groups : g # op.group /\ place[g] = "parked" /\ g \notin op.seen[d]}

ReclaimFrom_SlipPoolsNotCounted(d, g) ==
    LET S == Taken(g, d, 1)
    IN /\ op.at[d] = "reclaim"
       /\ g \in Donors(d) /\ \A h \in Donors(d) : g <= h
       /\ CopyDown(CopiesOf(S))
       /\ Unmap(S)
       /\ op' = [op EXCEPT !.seen[d] = @ \union {g},
                           !.at[d] = IF \E c \in S : Class(c) # "pool" THEN "retry" ELSE "reclaim"]
       /\ UNCHANGED <<place, size>>

ReclaimFrom(d, g) ==
    LET S == Taken(g, d, 1)
    IN /\ op.at[d] = "reclaim"
       /\ g \in Donors(d) /\ \A h \in Donors(d) : g <= h
       /\ \/ /\ CopyDown(CopiesOf(S))
             /\ Unmap(S)
             /\ op' = [op EXCEPT !.seen[d] = @ \union {g},
                                 !.broke = @ \/ (S # {} /\ mapped' = mapped),
                                 !.at[d] = IF mapped' # mapped THEN "retry" ELSE "reclaim"]
          \/ /\ CopyDownFails(CopiesOf(S))
             /\ op' = [op EXCEPT !.seen[d] = @ \union {g}, !.broke = TRUE]
             /\ UNCHANGED <<mapped, card>>
       /\ UNCHANGED <<place, size>>

(* Nothing was left to take: a chunk fails at once, a pool is tried again. *)
ReclaimedNothing(d) ==
    /\ op.at[d] = "reclaim" /\ Donors(d) = {}
    /\ \E c \in Chunk : NextUp(c, d) /\ Goto(d, IF Class(c) = "pool" THEN "retry" ELSE "failed")
    /\ UNCHANGED <<place, size, mapped, card, store>>

Retry_SlipForEver(d) ==
    /\ op.at[d] = "retry"
    /\ \E c \in Chunk :
          /\ NextUp(c, d)
          /\ \/ Free(d) > 0 /\ MapOne(c, d, "map")
             \/ /\ Free(d) = 0 \/ Faulty
                /\ op' = [op EXCEPT !.at[d] = "reclaim", !.seen[d] = {}]
                /\ UNCHANGED <<mapped, card>>
    /\ UNCHANGED <<place, size, store>>

Retry(d) ==
    /\ op.at[d] = "retry"
    /\ \E c \in Chunk :
          /\ NextUp(c, d)
          /\ \/ Free(d) > 0 /\ MapOne(c, d, "map")
             \/ /\ Free(d) = 0 \/ Faulty
                /\ op' = [op EXCEPT !.at[d] = "failed", !.broke = @ \/ Free(d) > 0]
                /\ UNCHANGED <<mapped, card>>
    /\ UNCHANGED <<place, size, store>>

Fill_SlipNotCleared(d) ==
    /\ op.at[d] = "fill"
    /\ card' = [c \in Chunk |-> IF c \in op.plan \intersect On(d) /\ op.kind = "unpark" /\ Lasting(c)
                                THEN host[c] ELSE card[c]]
    /\ Goto(d, "ok")
    /\ UNCHANGED <<place, size, mapped, store>>

(* An unpark clears scratch and copies the mirrors back. *)
Fill(d) ==
    /\ op.at[d] = "fill"
    /\ \/ /\ card' = [c \in Chunk |->
                        IF c \in op.plan \intersect On(d) /\ op.kind = "unpark"
                        THEN IF Lasting(c) THEN host[c]
                             ELSE IF Class(c) = "scratch" THEN Zero ELSE card[c]
                        ELSE card[c]]
          /\ Goto(d, "ok")
       \/ /\ Faulty /\ op.kind = "unpark"
          /\ op' = [op EXCEPT !.at[d] = "failed", !.broke = TRUE]
          /\ UNCHANGED card
    /\ UNCHANGED <<place, size, mapped, store>>

(* All threads joined: commit.  A new compute buffer is cleared by its     *)
(* caller.                                                                 *)
Joined == Busy /\ \A d \in Devices : op.at[d] \in {"ok", "failed"}

Commit ==
    /\ Joined /\ \A d \in Devices : op.at[d] = "ok"
    /\ IF op.kind = "unpark"
       THEN /\ place' = [place EXCEPT ![op.group] = "cards"]
            /\ UNCHANGED <<size, card>>
       ELSE /\ size' = [r \in Records |-> IF \A c \in op.plan : c[1] # r THEN size[r]
                                         ELSE IF r \in Slabs THEN size[r] + 1 ELSE Room[r]]
            /\ card' = [c \in Chunk |-> IF c \in op.plan /\ Class(c) = "scratch" THEN Zero ELSE card[c]]
            /\ UNCHANGED place
    /\ op' = NoOp
    /\ UNCHANGED <<mapped, store>>

RollBack_SlipFailedDeviceOnly ==
    LET S == {c \in op.done : op.at[DevOf[c[1]]] = "failed"}
    IN /\ Joined /\ \E d \in Devices : op.at[d] = "failed"
       /\ Unmap(S)
       /\ op' = NoOp
       /\ UNCHANGED <<place, size, store>>

(* Or roll back what this attempt mapped; the group stays parked. *)
RollBack ==
    /\ Joined /\ \E d \in Devices : op.at[d] = "failed"
    /\ Unmap(op.done)
    /\ op' = NoOp
    /\ UNCHANGED <<place, size, store>>

-----------------------------------------------------------------------------
OpStep ==
    \/ \E d \in Devices :
          \/ MapChunk(d) \/ ReclaimedNothing(d) \/ Retry(d) \/ Fill(d)
          \/ \E g \in Groups : ReclaimFrom(d, g)
    \/ Commit \/ RollBack

Next ==
    \/ \E g \in Groups : Create(g) \/ Prime(g) \/ ParkFull(g) \/ BeginUnpark(g)
    \/ \E g, next \in Groups : ParkFor(g, next)
    \/ \E r \in Records : BeginAlloc(r) \/ FreeBuffer(r)
    \/ \E c \in Chunk, v \in Values : Write(c, v)
    \/ OpStep

Spec == Init /\ [][Next]_vars

(* Device threads run and driver calls return. *)
FairSpec == Spec /\ WF_vars(OpStep)

-----------------------------------------------------------------------------
(* Properties.                                                             *)

(* Every variable stays in its type; no record outgrows its virtual range. *)
TypeOK ==
    /\ place \in [Groups -> {"new", "cards", "parked"}]
    /\ size \in [Records -> 0..MaxRoom] /\ \A r \in Records : size[r] <= Room[r]
    /\ mapped \subseteq Chunk
    /\ mirror \in [Records -> 0..MaxRoom] /\ top \in [Records -> 0..MaxRoom]
    /\ card \in [Chunk -> Values \union {Undefined, Zero, Absent}]
    /\ host \in [Chunk -> Values \union {Undefined, Absent}]
    /\ op \in [kind : {"none", "unpark", "alloc"}, group : Groups \union {0},
                plan : SUBSET Chunk, done : SUBSET Chunk, at : [Devices -> Stages],
                seen : [Devices -> SUBSET Groups], broke : BOOLEAN]

(* Claim 1 of tests/test-pxa-residency.cpp and the header's "every device  *)
(* pointer [...] stays valid": all that a group on the cards holds is      *)
(* mapped, whatever was parked in part, reclaimed or rolled back before.   *)
OnCardsIsWhole ==
    \A c \in Held : place[GroupOf[c[1]]] = "cards" => c \in mapped

(* "fresh physical memory is not those zeros, and padding a kernel does    *)
(* not rewrite then reads as NaNs": a group on the cards never sees fresh  *)
(* memory in a compute buffer.                                             *)
ScratchIsClean ==
    \A c \in Held : Class(c) = "scratch" /\ place[GroupOf[c[1]]] = "cards"
                       => card[c] # Undefined

(* Claim 14: "an unpark on a full card makes its own room from parked      *)
(* groups instead of failing".  Where no driver call or release has        *)
(* failed, a device thread gives up only when all of its device is taken   *)
(* by the group it maps for.                                               *)
FailsOnlyWhenFull ==
    \A d \in Devices : op.at[d] = "failed" /\ ~op.broke =>
        /\ Free(d) = 0
        /\ mapped \intersect On(d) \subseteq Of(op.group)

(* Claim 6: "an unpark that cannot get its memory rolls back completely":  *)
(* when it, or an allocation, fails on one device, nothing of what it was  *)
(* to map is left mapped on any (but a pool the driver will not unmap).    *)
RoomIsReturned ==
    [][Busy /\ ~Busy' /\ UNCHANGED <<place, size>> =>
          \A c \in op.plan \intersect mapped' : Class(c) = "pool"]_vars

(* The contents a model is promised: of its lasting memory, on the card    *)
(* where that is mapped and filled, in the mirror otherwise.               *)
Pending == IF op.kind = "unpark" THEN op.plan ELSE {}
Contents == [c \in Chunk |-> IF c \notin Held \/ ~Lasting(c) THEN Absent
                             ELSE IF c \in mapped \ Pending THEN card[c] ELSE host[c]]
OwnerOf(c) == GroupOf[c[1]]

(* Claims 2, 3, 10, 12 and 13: weights and state come back as they were    *)
(* at the last park, however parks, primes, reclaims and failures were     *)
(* mixed: the groups implement ModelMemory.                                *)
Memory == INSTANCE ModelMemory WITH
             Owner <- OwnerOf, content <- Contents,
             live <- {g \in Groups : place[g] = "cards"}
ImplementsModelMemory == Memory!Spec

(* The router waits for an unpark with the cards taken out of service: it  *)
(* returns, with success or without.                                       *)
OpEnds == Busy ~> ~Busy
=============================================================================
