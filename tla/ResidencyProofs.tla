--------------------------- MODULE ResidencyProofs ---------------------------
(* What is proved about Residency for any groups, devices, records, room   *)
(* and budget, with or without driver failures: all its safety properties, *)
(* and that it implements ModelMemory.  The inductive invariant has three  *)
(* layers: the shape of the groups and of the operation (ShapeInv), the    *)
(* memory of the devices (RoomInv) and the contents (ContentInv).          *)
EXTENDS Residency, FiniteSetTheorems, WellFoundedInduction, TLAPS

-----------------------------------------------------------------------------
(* The inductive invariant.                                                *)

(* An unpark plans all that its parked group holds and is not mapped, an   *)
(* allocation what its record has not yet; a device thread is past mapping *)
(* only when its part of the plan is mapped.                               *)
OpShape ==
    /\ op.kind = "none" => op = NoOp
    /\ op.kind = "unpark" =>
          /\ op.group \in Groups /\ place[op.group] = "parked" /\ NoneOnCards
          /\ op.plan \subseteq Held
          /\ Held \intersect Of(op.group) \subseteq mapped \union op.plan
          /\ op.plan \intersect mapped \subseteq op.done
    /\ op.kind = "alloc" =>
          /\ op.group \in Groups /\ place[op.group] = "cards" /\ op.plan # {}
          /\ \E r \in Records :
                /\ GroupOf[r] = op.group /\ (r \notin Slabs => size[r] = 0)
                /\ op.plan = {c \in Chunk \ Held : c[1] = r /\ (r \in Slabs => c[2] = size[r] + 1)}
    /\ op.plan \subseteq Of(op.group)
    /\ op.done \subseteq op.plan \intersect mapped
    /\ \A d \in Devices : op.at[d] \in {"fill", "ok"} => op.plan \intersect On(d) \subseteq op.done

(* One group at most is on the cards, a group that was not created has     *)
(* nothing, and only a pool the driver would not unmap is mapped without   *)
(* belonging to a record or to the operation.                              *)
Residents ==
    /\ \A g, h \in Groups : place[g] = "cards" /\ place[h] = "cards" => g = h
    /\ \A c \in mapped \union Held : place[GroupOf[c[1]]] # "new"
    /\ \A c \in mapped : Class(c) = "pool" \/ c \in Held \union op.done

(* A compute buffer holds fresh memory only until its thread cleared it.   *)
CleanOf(c) ==
    Class(c) = "scratch" => card[c] # Undefined \/ (c \in Pending /\ op.at[DevOf[c[1]]] # "ok")

Clean == \A c \in Held \intersect mapped : CleanOf(c)

(* A device that is full of the operation's own group. *)
Full(d) == Free(d) = 0 /\ mapped \intersect On(d) \subseteq Of(op.group)

(* What a device thread knows of its device at each stage as long as       *)
(* nothing failed: every group it has asked is empty there.                *)
RoomOf(d) ==
    /\ Free(d) >= 0
    /\ ~op.broke =>
          /\ op.at[d] = "reclaim" => Free(d) = 0 /\ \A g \in op.seen[d] : Mine(g, d) = {}
          /\ op.at[d] = "retry" => Free(d) > 0 \/ Full(d)
          /\ op.at[d] = "failed" => Full(d)

RoomInv == \A d \in Devices : RoomOf(d)

(* The chunks whose contents are those on the card.                        *)
Settled == mapped \ Pending

(* A weights chunk is on the card alone, or its mirror holds what it holds;*)
(* what is not on a card is in a mirror.                                   *)
MirrorOf(c) ==
    /\ Class(c) = "weights" => \/ c[2] > top[c[1]] /\ c \in Settled
                               \/ c[2] <= top[c[1]] /\ (c \in Settled => host[c] = card[c])
    /\ Lasting(c) /\ c \notin Settled => host[c] # Absent

(* A chunk the operation mapped: filled from its mirror once its thread is *)
(* through, or fresh.                                                      *)
FilledOf(c) ==
    /\ op.kind = "unpark" /\ Lasting(c) /\ op.at[DevOf[c[1]]] = "ok" => card[c] = host[c]
    /\ op.kind = "alloc" => card[c] = Undefined

Mirrors ==
    /\ \A r \in Records : top[r] <= size[r]
    /\ \A c \in mapped : card[c] # Absent
    /\ \A c \in Held : MirrorOf(c)
    /\ \A c \in op.done : FilledOf(c)

(* Only compute buffers are cleared, so a mirror never holds zeroes.       *)
NoZeroes == \A c \in Chunk : Lasting(c) => card[c] \in Values \union {Undefined, Absent}

(* The first layer: two properties the runs check, and what makes them     *)
(* inductive.  The others are RoomInv and ContentInv.                      *)
ShapeInv == TypeOK /\ NoZeroes /\ OpShape /\ Residents /\ OnCardsIsWhole

-----------------------------------------------------------------------------
(* What the steps of the device threads do to op, one field at a time.     *)
OpType == [kind : {"none", "unpark", "alloc"}, group : Groups \union {0},
           plan : SUBSET Chunk, done : SUBSET Chunk, at : [Devices -> Stages],
           seen : [Devices -> SUBSET Groups], broke : BOOLEAN]

Moves(d, stage) ==
    /\ op' \in OpType
    /\ op'.kind = op.kind /\ op'.group = op.group /\ op'.plan = op.plan /\ (op.broke => op'.broke)
    /\ op'.at[d] = stage
    /\ \A e \in Devices \ {d} : op'.at[e] = op.at[e] /\ op'.seen[e] = op.seen[e]

StageEffect(d) ==
    /\ op'.done = op.done /\ UNCHANGED <<place, size, mapped, card, store>>
    /\ \/ op.at[d] = "map" /\ Todo(d) = {} /\ Moves(d, "fill")
       \/ /\ op.at[d] = "map" /\ Moves(d, "reclaim")
          /\ op'.seen[d] = {} /\ (Free(d) > 0 => op'.broke)
       \/ op.at[d] = "reclaim" /\ Donors(d) = {} /\ (Moves(d, "retry") \/ Moves(d, "failed"))
       \/ op.at[d] = "retry" /\ Moves(d, "failed") /\ (Free(d) > 0 => op'.broke)
       \/ op.at[d] = "fill" /\ Moves(d, "failed") /\ op'.broke

MapEffect(d, c) ==
    /\ op.at[d] \in {"map", "retry"} /\ NextUp(c, d) /\ Free(d) > 0
    /\ mapped' = mapped \union {c} /\ card' = [card EXCEPT ![c] = Undefined]
    /\ op'.done = op.done \union {c} /\ Moves(d, "map")
    /\ UNCHANGED <<place, size, store>>

FillEffect(d) ==
    /\ op.at[d] = "fill" /\ Moves(d, "ok") /\ op'.done = op.done
    /\ card' = [c \in Chunk |->
                   IF c \in op.plan \intersect On(d) /\ op.kind = "unpark"
                   THEN IF Lasting(c) THEN host[c]
                        ELSE IF Class(c) = "scratch" THEN Zero ELSE card[c]
                   ELSE card[c]]
    /\ UNCHANGED <<place, size, mapped, store>>

TakeEffect(d, g) ==
    LET S == Taken(g, d, 1)
    IN /\ op.at[d] = "reclaim" /\ g \in Donors(d) /\ op'.done = op.done
       /\ op'.seen[d] = op.seen[d] \union {g}
       /\ \/ /\ CopyDown(CopiesOf(S)) /\ Unmap(S)
             /\ (S # {} /\ mapped' = mapped => op'.broke)
             /\ \/ mapped' # mapped /\ Moves(d, "retry")
                \/ mapped' = mapped /\ Moves(d, "reclaim")
          \/ CopyDownFails(CopiesOf(S)) /\ op'.broke /\ Moves(d, "reclaim") /\ UNCHANGED <<mapped, card>>
       /\ UNCHANGED <<place, size>>

\* The steps of a device thread have these effects.
LEMMA GotoOp ==
    ASSUME op \in OpType, NEW d \in Devices, NEW stage \in Stages, Goto(d, stage)
    PROVE  Moves(d, stage) /\ op'.done = op.done /\ op'.broke = op.broke
BY DEF OpType, Goto, Moves

LEMMA MapOneOp ==
    ASSUME op \in OpType, NEW d \in Devices, NEW stage \in Stages, NEW c \in Chunk, MapOne(c, d, stage)
    PROVE  Moves(d, stage) /\ op'.done = op.done \union {c}
BY DEF OpType, MapOne, Moves

LEMMA MapChunkEffect ==
    ASSUME TypeOK, NEW d \in Devices, MapChunk(d)
    PROVE  StageEffect(d) \/ \E c \in Chunk : MapEffect(d, c)
<1>. op \in OpType /\ {"map", "reclaim", "fill"} \subseteq Stages
  BY DEF TypeOK, OpType, Stages
<1>1. CASE Todo(d) = {} /\ Goto(d, "fill") /\ UNCHANGED <<mapped, card>>
  BY <1>1, GotoOp DEF MapChunk, StageEffect
<1>2. ASSUME NEW c \in Chunk, NextUp(c, d), Free(d) > 0, MapOne(c, d, "map")
      PROVE  MapEffect(d, c)
  <2>1. Moves(d, "map") /\ op'.done = op.done \union {c}
    BY <1>2, MapOneOp
  <2>. QED
    BY <1>2, <2>1 DEF MapChunk, MapEffect, MapOne
<1>3. CASE /\ Todo(d) # {} /\ (Free(d) = 0 \/ Faulty)
           /\ op' = [op EXCEPT !.at[d] = "reclaim", !.seen[d] = {}, !.broke = @ \/ Free(d) > 0]
           /\ UNCHANGED <<mapped, card>>
  <2>1. Moves(d, "reclaim") /\ op'.done = op.done /\ op'.seen[d] = {} /\ op'.broke = (op.broke \/ Free(d) > 0)
    BY <1>3 DEF Moves, OpType
  <2>. QED
    BY <1>3, <2>1 DEF MapChunk, StageEffect
<1>. QED
  BY <1>1, <1>2, <1>3 DEF MapChunk

LEMMA ReclaimedNothingEffect ==
    ASSUME TypeOK, NEW d \in Devices, ReclaimedNothing(d) PROVE StageEffect(d)
<1>. op \in OpType /\ {"retry", "failed"} \subseteq Stages
  BY DEF TypeOK, OpType, Stages
<1>1. CASE Goto(d, "retry")
  BY <1>1, GotoOp DEF ReclaimedNothing, StageEffect
<1>2. CASE Goto(d, "failed")
  BY <1>2, GotoOp DEF ReclaimedNothing, StageEffect
<1>. QED
  BY <1>1, <1>2 DEF ReclaimedNothing

LEMMA RetryEffect ==
    ASSUME TypeOK, NEW d \in Devices, Retry(d)
    PROVE  StageEffect(d) \/ \E c \in Chunk : MapEffect(d, c)
<1>. op \in OpType /\ {"map", "failed"} \subseteq Stages
  BY DEF TypeOK, OpType, Stages
<1>1. ASSUME NEW c \in Chunk, NextUp(c, d), Free(d) > 0, MapOne(c, d, "map")
      PROVE  MapEffect(d, c)
  <2>1. Moves(d, "map") /\ op'.done = op.done \union {c}
    BY <1>1, MapOneOp
  <2>. QED
    BY <1>1, <2>1 DEF Retry, MapEffect, MapOne
<1>2. CASE /\ op' = [op EXCEPT !.at[d] = "failed", !.broke = @ \/ Free(d) > 0]
           /\ UNCHANGED <<mapped, card>>
  <2>1. Moves(d, "failed") /\ op'.done = op.done /\ op'.broke = (op.broke \/ Free(d) > 0)
    BY <1>2 DEF Moves, OpType
  <2>. QED
    BY <1>2, <2>1 DEF Retry, StageEffect
<1>. QED
  BY <1>1, <1>2 DEF Retry

LEMMA FillEffects ==
    ASSUME TypeOK, NEW d \in Devices, Fill(d) PROVE StageEffect(d) \/ FillEffect(d)
<1>. op \in OpType /\ {"ok", "failed"} \subseteq Stages
  BY DEF TypeOK, OpType, Stages
<1>1. CASE Goto(d, "ok")
  <2>1. Moves(d, "ok") /\ op'.done = op.done /\ op'.at[d] = "ok"
    BY <1>1, GotoOp DEF Moves
  <2>2. op' # [op EXCEPT !.at[d] = "failed", !.broke = TRUE]
    BY <2>1 DEF OpType
  <2>. QED
    BY <2>1, <2>2 DEF Fill, FillEffect
<1>2. CASE op' = [op EXCEPT !.at[d] = "failed", !.broke = TRUE] /\ UNCHANGED card
  <2>1. Moves(d, "failed") /\ op'.done = op.done /\ op'.broke
    BY <1>2 DEF Moves, OpType
  <2>. QED
    BY <1>2, <2>1 DEF Fill, StageEffect
<1>. QED
  BY <1>1, <1>2 DEF Fill

LEMMA ReclaimFromEffect ==
    ASSUME TypeOK, NEW d \in Devices, NEW g \in Groups, ReclaimFrom(d, g) PROVE TakeEffect(d, g)
<1>. DEFINE S == Taken(g, d, 1)
            stage == IF mapped' # mapped THEN "retry" ELSE "reclaim"
<1>. op \in OpType /\ {"retry", "reclaim"} \subseteq Stages
  BY DEF TypeOK, OpType, Stages
<1>1. CASE /\ CopyDown(CopiesOf(S)) /\ Unmap(S)
           /\ op' = [op EXCEPT !.seen[d] = @ \union {g},
                               !.broke = @ \/ (S # {} /\ mapped' = mapped),
                               !.at[d] = IF mapped' # mapped THEN "retry" ELSE "reclaim"]
  <2>. stage \in Stages
    BY DEF Stages
  <2>1. Moves(d, stage) /\ op'.done = op.done /\ op'.seen[d] = op.seen[d] \union {g}
        /\ op'.broke = (op.broke \/ (S # {} /\ mapped' = mapped))
    <3>. HIDE DEF S
    <3>. QED BY <1>1 DEF Moves, OpType
  <2>. QED
    BY <1>1, <2>1, Zenon DEF ReclaimFrom, TakeEffect
<1>2. CASE /\ CopyDownFails(CopiesOf(S))
           /\ op' = [op EXCEPT !.seen[d] = @ \union {g}, !.broke = TRUE]
           /\ UNCHANGED <<mapped, card>>
  <2>1. Moves(d, "reclaim") /\ op'.done = op.done /\ op'.seen[d] = op.seen[d] \union {g} /\ op'.broke
    BY <1>2 DEF Moves, OpType, ReclaimFrom
  <2>. QED
    BY <1>2, <2>1, Zenon DEF ReclaimFrom, TakeEffect
<1>. QED
  BY <1>1, <1>2, Zenon DEF ReclaimFrom

LEMMA NoOpFields ==
    /\ NoOp.kind = "none" /\ NoOp.plan = {} /\ NoOp.done = {} /\ NoOp.group = 0 /\ NoOp.broke = FALSE
    /\ \A d \in Devices : NoOp.at[d] = "ok" /\ NoOp.seen[d] = {}
    /\ NoOp \in OpType
BY DEF NoOp, OpType, Stages

LEMMA BeginOp ==
    ASSUME NEW kind \in {"unpark", "alloc"}, NEW g \in Groups, NEW plan \in SUBSET Chunk,
           Begin(kind, g, plan)
    PROVE  /\ op' \in OpType /\ op'.kind = kind /\ op'.group = g /\ op'.plan = plan
           /\ op'.done = {} /\ op'.broke = FALSE
           /\ \A d \in Devices : op'.at[d] = IF plan \intersect On(d) # {} THEN "map" ELSE "ok"
BY DEF Begin, NoOp, OpType, Stages

LEMMA UnmapEffect ==
    ASSUME TypeOK, NEW S \in SUBSET mapped, Unmap(S)
    PROVE  /\ mapped' \subseteq mapped /\ mapped \ S \subseteq mapped'
           /\ \A c \in S \intersect mapped' : Class(c) = "pool"
           /\ card' \in [Chunk -> Values \union {Undefined, Zero, Absent}]
           /\ \A c \in mapped' : card'[c] = card[c]
           /\ \A c \in Chunk : card'[c] \in {card[c], Absent}
BY DEF Unmap, TypeOK

LEMMA GrownType ==
    ASSUME TypeOK, NEW R \in SUBSET Records
    PROVE  Grown(R) \in [Records -> 0..MaxRoom]
BY DEF TypeOK, Grown

LEMMA CopyTypes ==
    ASSUME TypeOK, NoZeroes,
           NEW C \in SUBSET {c \in Chunk : Lasting(c)},
           CopyDown(C) \/ CopyDownFails(C)
    PROVE  /\ mirror' \in [Records -> 0..MaxRoom] /\ top' \in [Records -> 0..MaxRoom]
           /\ host' \in [Chunk -> Values \union {Undefined, Absent}]
<1>1. Short(C) \subseteq Records
  BY DEF Short, Chunk
<1>2. Granted(C) \subseteq Short(C)
  BY DEF Granted
<1>3. mirror' \in [Records -> 0..MaxRoom]
  <2>1. \E R \in SUBSET Records : mirror' = Grown(R)
    BY <1>1, <1>2 DEF CopyDown, CopyDownFails
  <2>. QED
    BY <2>1, GrownType
<1>4. top' \in [Records -> 0..MaxRoom]
  BY DEF TypeOK, CopyDown, CopyDownFails
<1>5. \A c \in C : card[c] \in Values \union {Undefined, Absent}
  BY DEF NoZeroes
<1>6. host' = host \/ \E D \in SUBSET C : host' = [c \in Chunk |-> IF c \in D THEN card[c] ELSE host[c]]
  BY DEF CopyDown, CopyDownFails
<1>7. host' \in [Chunk -> Values \union {Undefined, Absent}]
  BY <1>5, <1>6 DEF TypeOK
<1>. QED
  BY <1>3, <1>4, <1>7

-----------------------------------------------------------------------------
LEMMA ShapeInit == Init => ShapeInv
<1>. SUFFICES ASSUME Init PROVE ShapeInv
  OBVIOUS
<1>1. TypeOK
  BY ResidencyConstants, NoOpFields DEF Init, TypeOK, OpType, Chunk
<1>2. Held = {}
  BY DEF Held, Init, Chunk
<1>. QED
  BY <1>1, <1>2, NoOpFields DEF ShapeInv, NoZeroes, OpShape, Residents, OnCardsIsWhole, Init

LEMMA ShapeStage ==
    ASSUME ShapeInv, NEW d \in Devices, StageEffect(d) PROVE ShapeInv'
<1>. /\ UNCHANGED <<place, size, mapped, mirror, top, card, host>> /\ UNCHANGED Held
     /\ op' \in OpType /\ op'.kind = op.kind /\ op'.group = op.group /\ op'.plan = op.plan /\ op'.done = op.done
     /\ \A e \in Devices \ {d} : op'.at[e] = op.at[e]
     /\ op'.at[d] \in {"fill", "ok"} => Todo(d) = {}
  BY DEF StageEffect, Moves, store, Held
<1>1. TypeOK'
  BY DEF ShapeInv, TypeOK, OpType
<1>2. op.kind # "none"
  BY NoOpFields DEF ShapeInv, OpShape, StageEffect
<1>3. OpShape'
  <2>1. ASSUME NEW e \in Devices, op'.at[e] \in {"fill", "ok"}
        PROVE  op'.plan \intersect On(e) \subseteq op'.done
    BY <2>1 DEF ShapeInv, OpShape, Todo
  <2>. QED
    BY <1>2, <2>1 DEF ShapeInv, OpShape, NoneOnCards
<1>4. Residents' /\ OnCardsIsWhole' /\ NoZeroes'
  BY DEF ShapeInv, Residents, OnCardsIsWhole, NoZeroes
<1>. QED
  BY <1>1, <1>3, <1>4 DEF ShapeInv

LEMMA ShapeMap ==
    ASSUME ShapeInv, NEW d \in Devices, NEW c \in Chunk, MapEffect(d, c) PROVE ShapeInv'
<1>. /\ UNCHANGED <<place, size, mirror, top, host>> /\ UNCHANGED Held
     /\ op' \in OpType /\ op'.kind = op.kind /\ op'.group = op.group /\ op'.plan = op.plan
     /\ op'.done = op.done \union {c} /\ mapped' = mapped \union {c}
     /\ card' = [card EXCEPT ![c] = Undefined]
     /\ \A e \in Devices \ {d} : op'.at[e] = op.at[e]
     /\ op'.at[d] = "map" /\ c \in op.plan
  BY DEF MapEffect, Moves, store, Held, NextUp, Todo
<1>1. TypeOK'
  BY DEF ShapeInv, TypeOK, OpType
<1>2. op.kind # "none"
  BY NoOpFields DEF ShapeInv, OpShape
<1>3. OpShape'
  <2>1. ASSUME NEW e \in Devices, op'.at[e] \in {"fill", "ok"}
        PROVE  op'.plan \intersect On(e) \subseteq op'.done
    BY <2>1 DEF ShapeInv, OpShape, Todo
  <2>. QED
    BY <1>2, <2>1 DEF ShapeInv, OpShape, NoneOnCards
<1>4. Residents' /\ OnCardsIsWhole'
  <2>1. place[GroupOf[c[1]]] # "new"
    BY <1>2 DEF ShapeInv, OpShape, Of, TypeOK
  <2>. QED
    BY <2>1 DEF ShapeInv, Residents, OnCardsIsWhole
<1>5. NoZeroes'
  BY DEF ShapeInv, NoZeroes, TypeOK
<1>. QED
  BY <1>1, <1>3, <1>4, <1>5 DEF ShapeInv

LEMMA ShapeFill ==
    ASSUME ShapeInv, NEW d \in Devices, FillEffect(d) PROVE ShapeInv'
<1>. /\ UNCHANGED <<place, size, mapped, mirror, top, host>> /\ UNCHANGED Held
     /\ op' \in OpType /\ op'.kind = op.kind /\ op'.group = op.group /\ op'.plan = op.plan /\ op'.done = op.done
     /\ \A e \in Devices \ {d} : op'.at[e] = op.at[e]
     /\ op.at[d] = "fill"
  BY DEF FillEffect, Moves, store, Held
<1>1. TypeOK'
  BY DEF ShapeInv, TypeOK, OpType, FillEffect
<1>2. op.kind # "none"
  BY NoOpFields DEF ShapeInv, OpShape
<1>3. OpShape'
  <2>1. ASSUME NEW e \in Devices, op'.at[e] \in {"fill", "ok"}
        PROVE  op'.plan \intersect On(e) \subseteq op'.done
    BY <2>1 DEF ShapeInv, OpShape, Todo
  <2>. QED
    BY <1>2, <2>1 DEF ShapeInv, OpShape, NoneOnCards
<1>4. Residents' /\ OnCardsIsWhole'
  BY DEF ShapeInv, Residents, OnCardsIsWhole
<1>5. NoZeroes'
  BY DEF ShapeInv, NoZeroes, TypeOK, FillEffect
<1>. QED
  BY <1>1, <1>3, <1>4, <1>5 DEF ShapeInv

LEMMA ShapeTake ==
    ASSUME ShapeInv, NEW d \in Devices, NEW g \in Groups, TakeEffect(d, g) PROVE ShapeInv'
<1>. DEFINE S == Taken(g, d, 1)
            C == CopiesOf(S)
<1>0. S \subseteq mapped \intersect Of(g) /\ S \in SUBSET mapped
  BY DEF Taken, Mine
<1>1. C \in SUBSET {c \in Chunk : Lasting(c)}
  BY <1>0 DEF CopiesOf, Held, Lasting, ShapeInv, TypeOK
<1>2. /\ UNCHANGED <<place, size>> /\ UNCHANGED Held /\ g # op.group /\ place[g] = "parked"
      /\ op' \in OpType /\ op'.kind = op.kind /\ op'.group = op.group /\ op'.plan = op.plan /\ op'.done = op.done
      /\ \A e \in Devices \ {d} : op'.at[e] = op.at[e]
      /\ op'.at[d] \notin {"fill", "ok"} /\ op.at[d] = "reclaim"
  BY DEF TakeEffect, Moves, Held, Donors
<1>3. CopyDown(C) \/ CopyDownFails(C)
  BY DEF TakeEffect
<1>4. /\ mirror' \in [Records -> 0..MaxRoom] /\ top' \in [Records -> 0..MaxRoom]
      /\ host' \in [Chunk -> Values \union {Undefined, Absent}]
  BY <1>1, <1>3, CopyTypes DEF ShapeInv
<1>5. /\ mapped' \subseteq mapped /\ mapped \ S \subseteq mapped'
      /\ card' \in [Chunk -> Values \union {Undefined, Zero, Absent}]
      /\ \A c \in Chunk : card'[c] \in {card[c], Absent}
  <2>1. CASE Unmap(S)
    BY <1>0, <2>1, UnmapEffect DEF ShapeInv
  <2>2. CASE UNCHANGED <<mapped, card>>
    BY <2>2 DEF ShapeInv, TypeOK
  <2>. QED
    BY <2>1, <2>2 DEF TakeEffect
<1>. HIDE DEF S, C
<1>6. TypeOK'
  BY <1>2, <1>4, <1>5 DEF ShapeInv, TypeOK, OpType
<1>7. NoZeroes'
  BY <1>5 DEF ShapeInv, NoZeroes
<1>8. op.kind # "none"
  BY <1>2, NoOpFields DEF ShapeInv, OpShape
<1>9. OpShape'
  <2>1. S \intersect Of(op.group) = {}
    BY <1>0, <1>2 DEF Of
  <2>2. Of(op.group) \intersect mapped \subseteq mapped'
    BY <1>5, <2>1
  <2>. QED
    BY <1>2, <1>5, <1>8, <2>2 DEF ShapeInv, OpShape, NoneOnCards
<1>10. OnCardsIsWhole'
  BY <1>0, <1>2, <1>5 DEF ShapeInv, OnCardsIsWhole, Of, Held
<1>11. Residents'
  BY <1>2, <1>5 DEF ShapeInv, Residents
<1>. QED
  BY <1>6, <1>7, <1>9, <1>10, <1>11 DEF ShapeInv

LEMMA ShapeIdle ==
    ASSUME op' = NoOp PROVE OpShape'
BY NoOpFields DEF OpShape, Busy

LEMMA IdleOp ==
    ASSUME OpShape, ~Busy PROVE op = NoOp /\ op.done = {} /\ op.plan = {}
BY NoOpFields DEF OpShape, Busy

LEMMA ShapeCreate ==
    ASSUME ShapeInv, NEW g \in Groups, Create(g) PROVE ShapeInv'
<1>. UNCHANGED Held /\ op' = NoOp
  BY IdleOp DEF Create, Held, ShapeInv
<1>1. TypeOK'
  BY DEF ShapeInv, TypeOK, Create, store
<1>2. OpShape' /\ NoZeroes' 
  BY ShapeIdle DEF ShapeInv, NoZeroes, Create
<1>3. Residents'
  BY DEF ShapeInv, Residents, Create, NoneOnCards, TypeOK, Held
<1>4. OnCardsIsWhole'
  <2>. SUFFICES ASSUME NEW c \in Held, place'[GroupOf[c[1]]] = "cards" PROVE c \in mapped
    BY DEF OnCardsIsWhole, Create
  <2>1. GroupOf[c[1]] # g
    BY DEF ShapeInv, Residents, Create
  <2>. QED
    BY <2>1 DEF ShapeInv, OnCardsIsWhole, Create, TypeOK
<1>. QED
  BY <1>1, <1>2, <1>3, <1>4 DEF ShapeInv

LEMMA ShapeWrite ==
    ASSUME ShapeInv, NEW c \in Chunk, NEW v \in Values, Write(c, v) PROVE ShapeInv'
<1>. UNCHANGED Held /\ op' = NoOp /\ UNCHANGED <<place, size, mapped, op, mirror, top, host>>
  BY IdleOp DEF Write, Held, ShapeInv, store
<1>1. TypeOK'
  BY DEF ShapeInv, TypeOK, Write
<1>2. OpShape' /\ NoZeroes' 
  BY ShapeIdle DEF ShapeInv, NoZeroes, Write, TypeOK
<1>3. Residents' /\ OnCardsIsWhole'
  BY DEF ShapeInv, Residents, OnCardsIsWhole
<1>. QED
  BY <1>1, <1>2, <1>3 DEF ShapeInv

LEMMA ShapeFree ==
    ASSUME ShapeInv, NEW r \in Records, FreeBuffer(r) PROVE ShapeInv'
<1>. op' = NoOp /\ op = NoOp /\ op.done = {}
  BY IdleOp DEF FreeBuffer, ShapeInv
<1>0. Held' = {c \in Held : c[1] # r}
  BY ResidencyConstants DEF FreeBuffer, Held, ShapeInv, TypeOK, Chunk
<1>1. TypeOK'
  <2>0. 0 \in 0..MaxRoom /\ \A q \in Records : 0 <= Room[q]
    BY ResidencyConstants
  <2>1. size' \in [Records -> 0..MaxRoom]
    BY <2>0 DEF ShapeInv, TypeOK, FreeBuffer
  <2>5. \A q \in Records : size'[q] <= Room[q]
    BY <2>0 DEF ShapeInv, TypeOK, FreeBuffer
  <2>2. mirror' \in [Records -> 0..MaxRoom]
    BY <2>0 DEF ShapeInv, TypeOK, FreeBuffer
  <2>4. top' \in [Records -> 0..MaxRoom]
    BY <2>0 DEF ShapeInv, TypeOK, FreeBuffer
  <2>3. /\ card' \in [Chunk -> Values \union {Undefined, Zero, Absent}]
        /\ host' \in [Chunk -> Values \union {Undefined, Absent}]
    BY DEF ShapeInv, TypeOK, FreeBuffer
  <2>. QED
    BY <2>1, <2>2, <2>3, <2>4, <2>5 DEF ShapeInv, TypeOK, FreeBuffer
<1>2. OpShape' /\ NoZeroes' 
  BY ShapeIdle DEF ShapeInv, NoZeroes, FreeBuffer
<1>3. Residents' /\ OnCardsIsWhole'
  BY <1>0 DEF ShapeInv, Residents, OnCardsIsWhole, FreeBuffer
<1>. QED
  BY <1>1, <1>2, <1>3 DEF ShapeInv

LEMMA ShapePrime ==
    ASSUME ShapeInv, NEW g \in Groups, Prime(g) PROVE ShapeInv'
<1>. UNCHANGED Held /\ op' = NoOp /\ UNCHANGED <<place, size, mapped, card, op>>
  BY IdleOp DEF Prime, Held, ShapeInv
<1>. DEFINE C == {c \in Held \intersect Of(g) : Class(c) = "weights" /\ c[2] > top[c[1]]}
<1>0. C \in SUBSET {c \in Chunk : Lasting(c)} /\ (CopyDown(C) \/ CopyDownFails(C))
  BY DEF Prime, Lasting, Held
<1>1. TypeOK'
  <2>. HIDE DEF C
  <2>1. /\ mirror' \in [Records -> 0..MaxRoom] /\ top' \in [Records -> 0..MaxRoom]
        /\ host' \in [Chunk -> Values \union {Undefined, Absent}]
    BY <1>0, CopyTypes DEF ShapeInv
  <2>. QED
    BY <2>1 DEF ShapeInv, TypeOK
<1>2. OpShape' /\ NoZeroes' 
  BY ShapeIdle DEF ShapeInv, NoZeroes
<1>3. Residents' /\ OnCardsIsWhole'
  BY DEF ShapeInv, Residents, OnCardsIsWhole
<1>. QED
  BY <1>1, <1>2, <1>3 DEF ShapeInv

LEMMA ShapePark ==
    ASSUME ShapeInv, NEW g \in Groups, place[g] # "new",
           NEW S \in SUBSET (mapped \intersect Of(g)), Park(g, S)
    PROVE  ShapeInv'
<1>. DEFINE C == CopiesOf(S)
<1>. UNCHANGED Held /\ op' = NoOp /\ op = NoOp /\ op.done = {} /\ UNCHANGED <<size, op>>
  BY IdleOp DEF Park, Held, ShapeInv
<1>0. S \in SUBSET mapped /\ C \in SUBSET {c \in Chunk : Lasting(c)} /\ (CopyDown(C) \/ CopyDownFails(C))
  BY DEF Park, Lasting, Held, CopiesOf, ShapeInv, TypeOK
<1>1. /\ mirror' \in [Records -> 0..MaxRoom] /\ top' \in [Records -> 0..MaxRoom]
      /\ host' \in [Chunk -> Values \union {Undefined, Absent}]
  BY <1>0, CopyTypes DEF ShapeInv
<1>2. /\ mapped' \subseteq mapped /\ mapped \ S \subseteq mapped'
      /\ card' \in [Chunk -> Values \union {Undefined, Zero, Absent}]
      /\ \A c \in Chunk : card'[c] \in {card[c], Absent}
      /\ place' = [place EXCEPT ![g] = "parked"] \/ (place' = place /\ mapped' = mapped)
  <2>1. CASE Unmap(S) /\ place' = [place EXCEPT ![g] = "parked"]
    BY <1>0, <2>1, UnmapEffect DEF ShapeInv
  <2>2. CASE UNCHANGED <<place, mapped, card>>
    BY <2>2 DEF ShapeInv, TypeOK
  <2>. QED
    BY <2>1, <2>2 DEF Park
<1>. HIDE DEF C
<1>3. TypeOK'
  BY <1>1, <1>2 DEF ShapeInv, TypeOK
<1>4. OpShape' /\ NoZeroes' 
  BY <1>2, ShapeIdle DEF ShapeInv, NoZeroes
<1>5. \A h \in Groups : place'[h] = place[h] \/ (h = g /\ place'[h] = "parked")
  BY <1>2 DEF ShapeInv, TypeOK
<1>6. \A c \in Chunk : GroupOf[c[1]] \in Groups
  BY ResidencyConstants DEF Chunk
<1>7. mapped \subseteq Chunk /\ Held \subseteq Chunk
  BY DEF ShapeInv, TypeOK, Held
<1>8. Residents'
  BY <1>2, <1>5, <1>6, <1>7 DEF ShapeInv, Residents
<1>9. OnCardsIsWhole'
  <2>. SUFFICES ASSUME NEW c \in Held, place'[GroupOf[c[1]]] = "cards" PROVE c \in mapped'
    BY DEF OnCardsIsWhole
  <2>1. c \in mapped
    BY <1>5, <1>6, <1>7 DEF ShapeInv, OnCardsIsWhole
  <2>2. mapped' = mapped \/ c \notin S
    BY <1>2, <1>6, <1>7 DEF Of, ShapeInv, TypeOK
  <2>. QED
    BY <1>2, <2>1, <2>2
<1>. QED
  BY <1>3, <1>4, <1>8, <1>9 DEF ShapeInv

LEMMA ShapeBeginUnpark ==
    ASSUME ShapeInv, NEW g \in Groups, BeginUnpark(g) PROVE ShapeInv'
<1>. DEFINE plan == (Held \ mapped) \intersect Of(g)
<1>. UNCHANGED Held /\ UNCHANGED <<place, size, mapped, card, mirror, top, host>>
  BY DEF BeginUnpark, Held, store
<1>0. op.done = {}
  BY IdleOp DEF BeginUnpark, ShapeInv
<1>1. plan \in SUBSET Chunk /\ Begin("unpark", g, plan) /\ place[g] = "parked" /\ NoneOnCards
  BY DEF BeginUnpark, Held
<1>. HIDE DEF plan
<1>2. /\ op' \in OpType /\ op'.kind = "unpark" /\ op'.group = g /\ op'.plan = plan /\ op'.done = {}
      /\ \A d \in Devices : op'.at[d] = IF plan \intersect On(d) # {} THEN "map" ELSE "ok"
  BY <1>1, BeginOp
<1>3. TypeOK'
  BY <1>2 DEF ShapeInv, TypeOK, OpType
<1>4. OpShape'
  <2>1. plan \subseteq Held \intersect Of(g) /\ plan \intersect mapped = {} /\ Held \intersect Of(g) \subseteq mapped \union plan
    BY DEF plan
  <2>2. \A d \in Devices : op'.at[d] \in {"fill", "ok"} => plan \intersect On(d) = {}
    BY <1>2
  <2>. QED
    BY <1>1, <1>2, <2>1, <2>2 DEF OpShape, NoneOnCards
<1>5. Residents' /\ OnCardsIsWhole' /\ NoZeroes'
  BY <1>0, <1>2 DEF ShapeInv, Residents, OnCardsIsWhole, NoZeroes
<1>. QED
  BY <1>3, <1>4, <1>5 DEF ShapeInv

LEMMA ShapeBeginAlloc ==
    ASSUME ShapeInv, NEW r \in Records, BeginAlloc(r) PROVE ShapeInv'
<1>. DEFINE plan == {c \in Chunk \ Held : c[1] = r /\ (r \in Slabs => c[2] = size[r] + 1)}
<1>. UNCHANGED Held /\ UNCHANGED <<place, size, mapped, card, mirror, top, host>>
  BY DEF BeginAlloc, Held, store
<1>0. op.done = {} /\ GroupOf[r] \in Groups
  BY IdleOp, ResidencyConstants DEF BeginAlloc, ShapeInv
<1>1. /\ plan \in SUBSET Chunk /\ Begin("alloc", GroupOf[r], plan) /\ plan # {}
      /\ place[GroupOf[r]] = "cards" /\ (r \notin Slabs => size[r] = 0)
  BY DEF BeginAlloc, Held
<1>2. plan \subseteq Of(GroupOf[r]) /\ plan = {c \in Chunk \ Held : c[1] = r /\ (r \in Slabs => c[2] = size[r] + 1)}
  BY DEF Of
<1>. HIDE DEF plan
<1>3. /\ op' \in OpType /\ op'.kind = "alloc" /\ op'.group = GroupOf[r] /\ op'.plan = plan /\ op'.done = {}
      /\ \A d \in Devices : op'.at[d] = IF plan \intersect On(d) # {} THEN "map" ELSE "ok"
  BY <1>0, <1>1, BeginOp
<1>4. TypeOK'
  BY <1>3 DEF ShapeInv, TypeOK, OpType
<1>5. OpShape'
  <2>1. \A d \in Devices : op'.at[d] \in {"fill", "ok"} => plan \intersect On(d) = {}
    BY <1>3
  <2>. QED
    BY <1>0, <1>1, <1>2, <1>3, <2>1 DEF OpShape
<1>6. Residents' /\ OnCardsIsWhole' /\ NoZeroes'
  BY <1>0, <1>3 DEF ShapeInv, Residents, OnCardsIsWhole, NoZeroes
<1>. QED
  BY <1>4, <1>5, <1>6 DEF ShapeInv

LEMMA PlanIsMapped ==
    ASSUME ShapeInv, Commit PROVE op.plan = op.done /\ op.plan \subseteq mapped
<1>. SUFFICES ASSUME NEW c \in op.plan PROVE c \in op.done
  BY DEF ShapeInv, OpShape
<1>1. c \in Chunk /\ DevOf[c[1]] \in Devices
  BY ResidencyConstants DEF Chunk, ShapeInv, TypeOK, OpType
<1>2. op.at[DevOf[c[1]]] = "ok" /\ c \in On(DevOf[c[1]])
  BY <1>1 DEF Commit, On
<1>. QED
  BY <1>1, <1>2 DEF ShapeInv, OpShape

LEMMA AllocatedIsHeld ==
    ASSUME ShapeInv, Commit, op.kind = "alloc"
    PROVE  /\ Held' = Held \union op.plan /\ Held \intersect op.plan = {}
           /\ size' \in [Records -> 0..MaxRoom] /\ \A r \in Records : size[r] <= size'[r] /\ size'[r] <= Room[r]
           /\ size' # size
<1>1. PICK r \in Records :
          /\ GroupOf[r] = op.group /\ (r \notin Slabs => size[r] = 0)
          /\ op.plan = {c \in Chunk \ Held : c[1] = r /\ (r \in Slabs => c[2] = size[r] + 1)}
  BY DEF ShapeInv, OpShape
<1>2. PICK e \in op.plan : TRUE
  BY DEF ShapeInv, OpShape
<1>3. size' = [q \in Records |-> IF q # r THEN size[q] ELSE IF r \in Slabs THEN size[r] + 1 ELSE Room[r]]
  <2>1. \A q \in Records : (\A c \in op.plan : c[1] # q) <=> q # r
    BY <1>1, <1>2
  <2>. QED
    BY <2>1 DEF Commit
<1>4. size[r] \in 0..MaxRoom /\ Room[r] \in 0..MaxRoom /\ size[r] <= Room[r] /\ MaxRoom \in Nat
  BY ResidencyConstants DEF ShapeInv, TypeOK
<1>5. e[1] = r /\ e[2] \in 1..MaxRoom /\ e[2] <= Room[r] /\ size[r] < e[2] /\ (r \in Slabs => e[2] = size[r] + 1)
  <2>1. e \in Chunk /\ e \notin Held /\ e[1] = r /\ (r \in Slabs => e[2] = size[r] + 1)
    BY <1>1, <1>2
  <2>2. e[2] \in 1..MaxRoom /\ e[2] <= Room[e[1]]
    BY <2>1 DEF Chunk
  <2>. QED
    BY <1>4, <2>1, <2>2 DEF Held
<1>6. size' \in [Records -> 0..MaxRoom] /\ size' # size
  BY <1>3, <1>4, <1>5 DEF ShapeInv, TypeOK
<1>7. \A q \in Records : size[q] <= size'[q] /\ size'[q] <= Room[q]
  BY <1>3, <1>4, <1>5 DEF ShapeInv, TypeOK
<1>8. Held \intersect op.plan = {}
  BY <1>1
<1>9. \A c \in Chunk : c \in Held' <=> c \in Held \/ c \in op.plan
  <2>. SUFFICES ASSUME NEW c \in Chunk PROVE c \in Held' <=> c \in Held \/ c \in op.plan
    OBVIOUS
  <2>1. c[1] \in Records /\ c[2] \in 1..MaxRoom /\ c[2] <= Room[c[1]]
    BY DEF Chunk
  <2>2. (c \in Held' <=> c[2] <= size'[c[1]]) /\ (c \in Held <=> c[2] <= size[c[1]])
    BY DEF Held
  <2>3. CASE c[1] # r
    BY <1>1, <1>3, <2>1, <2>2, <2>3
  <2>4. CASE c[1] = r /\ r \in Slabs
    <3>1. size'[r] = size[r] + 1
      BY <1>3, <2>4
    <3>2. c \in op.plan <=> c \notin Held /\ c[2] = size[r] + 1
      BY <1>1, <2>4
    <3>. QED
      BY <1>4, <2>1, <2>2, <2>4, <3>1, <3>2
  <2>5. CASE c[1] = r /\ r \notin Slabs
    <3>1. size'[r] = Room[r] /\ size[r] = 0
      BY <1>1, <1>3, <2>5
    <3>2. c \in op.plan <=> c \notin Held
      BY <1>1, <2>5
    <3>. QED
      BY <2>1, <2>2, <2>5, <3>1, <3>2
  <2>. QED
    BY <2>3, <2>4, <2>5
<1>10. Held' \subseteq Chunk /\ Held \subseteq Chunk /\ op.plan \subseteq Chunk
  BY <1>1 DEF Held
<1>. QED
  BY <1>6, <1>7, <1>8, <1>9, <1>10

LEMMA ShapeCommit ==
    ASSUME ShapeInv, Commit PROVE ShapeInv'
<1>0. /\ op' = NoOp /\ UNCHANGED <<mapped, mirror, top, host>> /\ op.kind \in {"unpark", "alloc"}
      /\ op.done = op.plan /\ op.plan \subseteq mapped /\ op' \in OpType
  BY PlanIsMapped, NoOpFields DEF Commit, store, Joined, Busy, ShapeInv, TypeOK, OpType
<1>1. CASE op.kind = "unpark"
  <2>1. /\ place' = [place EXCEPT ![op.group] = "cards"] /\ UNCHANGED <<size, card>> /\ UNCHANGED Held
        /\ op.group \in Groups /\ NoneOnCards /\ Held \intersect Of(op.group) \subseteq mapped
        /\ op.done \subseteq Held
    BY <1>0, <1>1 DEF Commit, Held, ShapeInv, OpShape
  <2>2. TypeOK'
    BY <1>0, <2>1 DEF ShapeInv, TypeOK, OpType
  <2>3. OpShape' /\ NoZeroes'
    BY <1>0, <2>1, ShapeIdle DEF ShapeInv, NoZeroes
  <2>4. \A h \in Groups : place'[h] = IF h = op.group THEN "cards" ELSE place[h]
    BY <2>1 DEF ShapeInv, TypeOK
  <2>5. \A c \in Chunk : GroupOf[c[1]] \in Groups
    BY ResidencyConstants DEF Chunk
  <2>6. mapped \subseteq Chunk /\ Held \subseteq Chunk
    BY DEF ShapeInv, TypeOK, Held
  <2>7. Residents'
    BY <1>0, <2>1, <2>4, <2>5, <2>6 DEF ShapeInv, Residents, NoneOnCards
  <2>8. OnCardsIsWhole'
    BY <1>0, <2>1, <2>4, <2>5, <2>6 DEF ShapeInv, OnCardsIsWhole, Of
  <2>. QED
    BY <2>2, <2>3, <2>7, <2>8 DEF ShapeInv
<1>2. CASE op.kind = "alloc"
  <2>1. /\ Held' = Held \union op.plan /\ size' \in [Records -> 0..MaxRoom]
        /\ \A r \in Records : size'[r] <= Room[r]
    BY <1>2, AllocatedIsHeld
  <2>2. /\ card' \in [Chunk -> Values \union {Undefined, Zero, Absent}] /\ UNCHANGED place
        /\ \A c \in Chunk : Lasting(c) => card'[c] = card[c]
    BY <1>2 DEF Commit, ShapeInv, TypeOK, Lasting
  <2>3. TypeOK'
    BY <1>0, <2>1, <2>2 DEF ShapeInv, TypeOK, OpType
  <2>4. OpShape' /\ NoZeroes'
    BY <1>0, <2>2, ShapeIdle DEF ShapeInv, NoZeroes
  <2>5. Residents' /\ OnCardsIsWhole'
    BY <1>0, <2>1, <2>2 DEF ShapeInv, Residents, OnCardsIsWhole
  <2>. QED
    BY <2>3, <2>4, <2>5 DEF ShapeInv
<1>. QED
  BY <1>0, <1>1, <1>2

LEMMA ShapeRollBack ==
    ASSUME ShapeInv, RollBack PROVE ShapeInv'
<1>1. op' = NoOp /\ UNCHANGED <<place, size, mirror, top, host>> /\ UNCHANGED Held /\ op' \in OpType
  BY NoOpFields DEF RollBack, store, Held
<1>2. op.done \in SUBSET mapped
  BY DEF ShapeInv, OpShape
<1>3. /\ mapped' \subseteq mapped /\ mapped \ op.done \subseteq mapped'
      /\ \A c \in op.done \intersect mapped' : Class(c) = "pool"
      /\ card' \in [Chunk -> Values \union {Undefined, Zero, Absent}]
      /\ \A c \in Chunk : card'[c] \in {card[c], Absent}
  BY <1>2, UnmapEffect DEF RollBack, ShapeInv
<1>4. TypeOK'
  BY <1>1, <1>3 DEF ShapeInv, TypeOK, OpType
<1>5. OpShape' /\ NoZeroes'
  BY <1>1, <1>3, ShapeIdle DEF ShapeInv, NoZeroes
<1>6. Residents'
  BY <1>1, <1>2, <1>3 DEF ShapeInv, Residents
<1>7. OnCardsIsWhole'
  <2>. SUFFICES ASSUME NEW c \in Held, place[GroupOf[c[1]]] = "cards" PROVE c \in mapped'
    BY <1>1 DEF OnCardsIsWhole
  <2>1. c \in mapped
    BY DEF ShapeInv, OnCardsIsWhole
  <2>2. c \notin op.done
    <3>1. CASE op.kind = "unpark"
      BY <3>1 DEF ShapeInv, OpShape, Of
    <3>2. CASE op.kind = "alloc"
      BY <3>2 DEF ShapeInv, OpShape
    <3>. QED
      BY <3>1, <3>2 DEF ShapeInv, TypeOK, OpType, RollBack, Joined, Busy
  <2>. QED
    BY <1>3, <2>1, <2>2
<1>. QED
  BY <1>4, <1>5, <1>6, <1>7 DEF ShapeInv

LEMMA ShapeStutter ==
    ASSUME ShapeInv, UNCHANGED vars PROVE ShapeInv'
<1>. UNCHANGED <<place, size, mapped, mirror, top, card, host, op>>
  BY DEF vars
<1>. UNCHANGED Held
  BY DEF Held
<1>1. TypeOK' /\ NoZeroes' /\ OnCardsIsWhole' /\ Residents'
  BY DEF ShapeInv, TypeOK, NoZeroes, OnCardsIsWhole, Residents
<1>2. OpShape'
  BY DEF ShapeInv, OpShape, NoneOnCards
<1>. QED
  BY <1>1, <1>2 DEF ShapeInv

(* The steps, by effect.                                                   *)
ThreadStep ==
    \E d \in Devices : \/ StageEffect(d) \/ FillEffect(d)
                       \/ \E c \in Chunk : MapEffect(d, c)
                       \/ \E g \in Groups : TakeEffect(d, g)

ParkStep == \E g \in Groups : place[g] # "new" /\ \E S \in SUBSET (mapped \intersect Of(g)) : Park(g, S)

GroupStep ==
    \/ \E g \in Groups : Create(g) \/ Prime(g) \/ BeginUnpark(g)
    \/ \E r \in Records : BeginAlloc(r) \/ FreeBuffer(r)
    \/ \E c \in Chunk, v \in Values : Write(c, v)

LEMMA StepCases ==
    ASSUME TypeOK, [Next]_vars
    PROVE  ThreadStep \/ ParkStep \/ GroupStep \/ Commit \/ RollBack \/ UNCHANGED vars
<1>1. CASE OpStep
  <2>1. ASSUME NEW d \in Devices, MapChunk(d) \/ ReclaimedNothing(d) \/ Retry(d) \/ Fill(d)
        PROVE  ThreadStep
    BY <2>1, MapChunkEffect, ReclaimedNothingEffect, RetryEffect, FillEffects DEF ThreadStep
  <2>2. ASSUME NEW d \in Devices, NEW g \in Groups, ReclaimFrom(d, g)
        PROVE  ThreadStep
    BY <2>2, ReclaimFromEffect DEF ThreadStep
  <2>. QED
    BY <1>1, <2>1, <2>2 DEF OpStep
<1>2. ASSUME NEW g \in Groups, ParkFull(g) PROVE ParkStep
  BY <1>2 DEF ParkFull, ParkStep
<1>3. ASSUME NEW g \in Groups, NEW next \in Groups, ParkFor(g, next) PROVE ParkStep
  <2>1. UNION {Taken(g, d, Budget(next, d)) : d \in Devices} \in SUBSET (mapped \intersect Of(g))
    BY DEF Taken, Mine
  <2>. QED
    BY <1>3, <2>1 DEF ParkFor, ParkStep
<1>. QED
  BY <1>1, <1>2, <1>3 DEF Next, GroupStep

LEMMA ShapeNext == ShapeInv /\ [Next]_vars => ShapeInv'
<1>. SUFFICES ASSUME ShapeInv, [Next]_vars PROVE ShapeInv'
  OBVIOUS
<1>1. CASE ThreadStep
  BY <1>1, ShapeStage, ShapeFill, ShapeMap, ShapeTake DEF ThreadStep
<1>2. CASE ParkStep
  BY <1>2, ShapePark DEF ParkStep
<1>3. CASE GroupStep
  BY <1>3, ShapeCreate, ShapePrime, ShapeBeginUnpark, ShapeBeginAlloc, ShapeFree, ShapeWrite DEF GroupStep
<1>4. CASE Commit \/ RollBack \/ UNCHANGED vars
  BY <1>4, ShapeCommit, ShapeRollBack, ShapeStutter
<1>. QED
  BY <1>1, <1>2, <1>3, <1>4, StepCases DEF ShapeInv

(* At most one group on the cards, every operation working on the chunks   *)
(* of one group that it planned: the shape every later argument uses.      *)
THEOREM ShapeInvariance == Spec => []ShapeInv
BY ShapeInit, ShapeNext, PTL DEF Spec

(* Every field of a group, its records and its operation stays in its      *)
(* type: no slab outgrows its virtual range, no mirror holds zeroes.       *)
THEOREM StoreIsWellFormed == Spec => []TypeOK
<1>1. ShapeInv => TypeOK
  BY DEF ShapeInv
<1>. QED
  BY <1>1, ShapeInvariance, PTL

(* commit_up, release_locked and the roll back of an unpark: all a group   *)
(* on the cards holds is mapped, however parks, reclaims and failed        *)
(* unparks were mixed.                                                     *)
THEOREM CardsGroupIsMapped == Spec => []OnCardsIsWhole
<1>1. ShapeInv => OnCardsIsWhole
  BY DEF ShapeInv
<1>. QED
  BY <1>1, ShapeInvariance, PTL

-----------------------------------------------------------------------------
(* What a failed operation leaves mapped.                                  *)
LEMMA RollBackReturns ==
    ASSUME ShapeInv, [Next]_vars, Busy, ~Busy', UNCHANGED <<place, size>>
    PROVE  \A c \in op.plan \intersect mapped' : Class(c) = "pool"
<1>1. ~ThreadStep
  <2>. SUFFICES ASSUME ThreadStep PROVE FALSE
    OBVIOUS
  <2>1. op'.kind = op.kind
    BY DEF ThreadStep, StageEffect, FillEffect, MapEffect, TakeEffect, Moves
  <2>. QED
    BY <2>1 DEF Busy
<1>2. ~ParkStep /\ ~GroupStep
  BY DEF ParkStep, Park, GroupStep, Create, Prime, BeginUnpark, BeginAlloc, FreeBuffer, Write
<1>3. ~(UNCHANGED vars)
  BY DEF vars, Busy
<1>4. ~Commit
  <2>. SUFFICES ASSUME Commit PROVE FALSE
    OBVIOUS
  <2>1. CASE op.kind = "unpark"
    <3>1. place[op.group] = "parked" /\ op.group \in Groups /\ place' = [place EXCEPT ![op.group] = "cards"]
      BY <2>1 DEF ShapeInv, OpShape, Commit
    <3>. QED
      BY <3>1 DEF ShapeInv, TypeOK
  <2>2. CASE op.kind = "alloc"
    BY <2>2, AllocatedIsHeld
  <2>. QED
    BY <2>1, <2>2 DEF ShapeInv, TypeOK, Busy
<1>5. RollBack
  BY <1>1, <1>2, <1>3, <1>4, StepCases DEF ShapeInv
<1>6. op.done \in SUBSET mapped
  BY DEF ShapeInv, OpShape
<1>7. \A c \in op.done \intersect mapped' : Class(c) = "pool"
  BY <1>5, <1>6, UnmapEffect DEF RollBack, ShapeInv
<1>8. mapped' \subseteq mapped
  BY <1>5, <1>6, UnmapEffect DEF RollBack, ShapeInv
<1>. SUFFICES ASSUME NEW c \in op.plan \intersect mapped', c \notin op.done PROVE Class(c) = "pool"
  BY <1>7
<1>9. c \in mapped /\ c \in op.plan
  BY <1>8
<1>10. CASE op.kind = "unpark"
  BY <1>9, <1>10 DEF ShapeInv, OpShape
<1>11. CASE op.kind = "alloc"
  <2>1. c \notin Held
    BY <1>9, <1>11 DEF ShapeInv, OpShape
  <2>. QED
    BY <1>9, <2>1 DEF ShapeInv, Residents
<1>. QED
  BY <1>10, <1>11 DEF ShapeInv, TypeOK, Busy

(* The roll back of unpark, alloc_buffer and alloc_slice: a failed         *)
(* operation leaves nothing of its plan mapped on any device, but a pool   *)
(* the driver will not unmap.                                              *)
THEOREM FailureGivesBack == Spec => RoomIsReturned
<1>1. ShapeInv /\ [Next]_vars =>
         [Busy /\ ~Busy' /\ UNCHANGED <<place, size>> =>
             \A c \in op.plan \intersect mapped' : Class(c) = "pool"]_vars
  BY RollBackReturns
<1>. QED
  BY <1>1, ShapeInvariance, PTL DEF Spec, RoomIsReturned

-----------------------------------------------------------------------------
(* The memory of the devices.                                              *)

\* A set of naturals that is not empty has its least element.
LEMMA Least ==
    ASSUME NEW S \in SUBSET Nat, S # {}
    PROVE  \E m \in S : \A k \in S : m <= k
<1>1. PICK m \in S : \A k \in S : <<k, m>> \notin OpToRel(<, Nat)
  BY WFMin, NatLessThanWellFounded, Zenon
<1>2. \A k \in S : ~(k < m)
  BY <1>1, Zenon DEF OpToRel
<1>. QED
  BY <1>2

LEMMA ChunksFinite == IsFiniteSet(Chunk)
<1>1. IsFiniteSet(Records) /\ MaxRoom \in Nat
  BY ResidencyConstants
<1>2. IsFiniteSet(1..MaxRoom)
  BY <1>1, FS_Interval
<1>3. IsFiniteSet(Records \X (1..MaxRoom))
  BY <1>1, <1>2, FS_Product
<1>. QED
  BY <1>3, FS_Subset DEF Chunk

\* The order of release_locked has a first chunk.
LEMMA FirstOfRelease ==
    ASSUME NEW M \in SUBSET Chunk, M # {}
    PROVE  \E c \in M : \A e \in M : ~Before(e, c)
<1>. DEFINE rank(c) == ReleaseRank[Class(c)]
            A == {rank(c) : c \in M}
<1>1. ASSUME NEW c \in Chunk
      PROVE  c[1] \in Nat /\ MaxRoom - c[2] \in Nat /\ c[2] \in Nat /\ rank(c) \in Nat
  <2>1. \A k \in Classes : ReleaseRank[k] \in Nat
    BY DEF Classes, ReleaseRank
  <2>2. c[1] \in Records /\ c[2] \in 1..MaxRoom /\ MaxRoom \in Nat /\ Records \subseteq Nat
    BY ResidencyConstants DEF Chunk
  <2>3. Class(c) \in Classes
    BY <2>2, ResidencyConstants DEF Class
  <2>4. c[1] \in Nat
    BY <2>2
  <2>6. MaxRoom - c[2] \in Nat /\ c[2] \in Nat
    BY <2>2
  <2>5. rank(c) \in Nat
    BY <2>1, <2>3
  <2>. QED
    BY <2>4, <2>5, <2>6
<1>. HIDE DEF rank
<1>3. PICK a \in A : \A k \in A : a <= k
  <2>1. A \in SUBSET Nat /\ A # {}
    BY <1>1
  <2>. QED
    BY <2>1, Least
<1>. DEFINE F == {c \in M : rank(c) = a}
            B == {c[1] : c \in F}
<1>4. PICK b \in B : \A k \in B : b <= k
  <2>1. B \in SUBSET Nat /\ B # {}
    BY <1>1, <1>3
  <2>. QED
    BY <2>1, Least
<1>. DEFINE G == {c \in F : c[1] = b}
            D == {MaxRoom - c[2] : c \in G}
<1>5. PICK m \in D : \A k \in D : m <= k
  <2>1. D \in SUBSET Nat /\ D # {}
    BY <1>1, <1>4
  <2>. QED
    BY <2>1, Least
<1>6. PICK c \in G : MaxRoom - c[2] = m
  BY <1>5
<1>7. ASSUME NEW e \in M PROVE ~Before(e, c)
  <2>1. a <= rank(e) /\ rank(c) = a
    BY <1>3, <1>6
  <2>2. ~(rank(e) < rank(c))
    BY <1>1, <2>1
  <2>3. ASSUME Class(e) = Class(c) PROVE ~(e[1] < c[1]) /\ ~(e[1] = c[1] /\ e[2] > c[2])
    <3>1. e \in F
      BY <2>1, <2>3 DEF rank
    <3>2. ~(e[1] < c[1])
      <4>1. b <= e[1] /\ c[1] = b
        BY <1>4, <1>6, <3>1
      <4>. QED
        BY <1>1, <4>1
    <3>3. ASSUME e[1] = c[1] PROVE ~(e[2] > c[2])
      <4>1. e \in G
        BY <1>6, <3>1, <3>3
      <4>2. m <= MaxRoom - e[2]
        BY <1>5, <4>1
      <4>. QED
        BY <1>1, <1>6, <4>2, ResidencyConstants
    <3>. QED
      BY <3>2, <3>3
  <2>. QED
    BY <2>2, <2>3 DEF Before, rank
<1>. QED
  BY <1>6, <1>7

\* So a reclaim that takes nothing has found nothing.
LEMMA TakenIsNothing ==
    ASSUME TypeOK, NEW g, NEW d, Taken(g, d, 1) = {}
    PROVE  Mine(g, d) = {}
<1>. SUFFICES ASSUME Mine(g, d) # {} PROVE FALSE
  OBVIOUS
<1>1. Mine(g, d) \in SUBSET Chunk
  BY DEF Mine, TypeOK
<1>2. PICK c \in Mine(g, d) : \A e \in Mine(g, d) : ~Before(e, c)
  BY <1>1, FirstOfRelease
<1>3. {e \in Mine(g, d) : Before(e, c)} = {}
  BY <1>2
<1>4. Cardinality({e \in Mine(g, d) : Before(e, c)}) < 1
  BY <1>3, FS_EmptySet
<1>. QED
  BY <1>4 DEF Taken

LEMMA FreeIsInt ==
    ASSUME NEW M \in SUBSET Chunk, NEW d \in Devices
    PROVE  /\ IsFiniteSet(M \intersect On(d)) /\ Cardinality(M \intersect On(d)) \in Nat
           /\ Capacity[d] \in Nat
<1>1. IsFiniteSet(M \intersect On(d))
  BY ChunksFinite, FS_Subset DEF On
<1>. QED
  BY <1>1, FS_CardinalityType, ResidencyConstants

\* Unmapping some of a device's chunks makes room on it, mapping one uses one.
LEMMA UnmapFrees ==
    ASSUME NEW M \in SUBSET Chunk, NEW L \in SUBSET M, NEW d \in Devices
    PROVE  /\ Cardinality(L \intersect On(d)) <= Cardinality(M \intersect On(d))
           /\ L \intersect On(d) # M \intersect On(d)
                 => Cardinality(L \intersect On(d)) < Cardinality(M \intersect On(d))
<1>1. L \intersect On(d) \in SUBSET (M \intersect On(d))
  OBVIOUS
<1>2. IsFiniteSet(M \intersect On(d)) /\ Cardinality(M \intersect On(d)) \in Nat /\ Cardinality(L \intersect On(d)) \in Nat
  BY FreeIsInt
<1>. QED
  BY <1>1, <1>2, FS_Subset

LEMMA MapUses ==
    ASSUME NEW M \in SUBSET Chunk, NEW c \in Chunk, NEW d \in Devices
    PROVE  /\ Cardinality((M \union {c}) \intersect On(d)) <= Cardinality(M \intersect On(d)) + 1
           /\ c \notin On(d) => (M \union {c}) \intersect On(d) = M \intersect On(d)
<1>1. CASE c \in On(d)
  <2>1. (M \union {c}) \intersect On(d) = (M \intersect On(d)) \union {c}
    BY <1>1
  <2>2. IsFiniteSet(M \intersect On(d)) /\ Cardinality(M \intersect On(d)) \in Nat
    BY FreeIsInt
  <2>. QED
    BY <1>1, <2>1, <2>2, FS_AddElement
<1>2. CASE c \notin On(d)
  <2>1. (M \union {c}) \intersect On(d) = M \intersect On(d)
    BY <1>2
  <2>2. Cardinality(M \intersect On(d)) \in Nat
    BY FreeIsInt
  <2>. QED
    BY <2>1, <2>2
<1>. QED
  BY <1>1, <1>2

\* What happens on other devices does not matter to a device.
LEMMA RoomFrame ==
    ASSUME TypeOK, NEW d \in Devices, RoomOf(d),
           mapped' \intersect On(d) = mapped \intersect On(d),
           op'.at[d] = op.at[d], op'.seen[d] = op.seen[d], op'.group = op.group,
           op.broke => op'.broke
    PROVE  RoomOf(d)'
<1>1. Free(d)' = Free(d) /\ (Full(d) => Full(d)')
  BY DEF Free, Full, On, Of
<1>2. \A g : Mine(g, d)' = Mine(g, d)
  <2>. TAKE g
  <2>. QED BY DEF Mine, Of, On
<1>. HIDE DEF Free, Full, Mine
<1>. QED
  BY <1>1, <1>2 DEF RoomOf

LEMMA RoomAfter ==
    ASSUME TypeOK, RoomInv, mapped' \subseteq mapped, NEW d \in Devices
    PROVE  Free(d)' >= Free(d) /\ Free(d) >= 0 /\ Free(d) \in Int /\ Free(d)' \in Int
<1>1. mapped \in SUBSET Chunk /\ mapped' \in SUBSET mapped /\ mapped' \in SUBSET Chunk
  BY DEF TypeOK
<1>2. Cardinality(mapped' \intersect On(d)) <= Cardinality(mapped \intersect On(d))
  BY <1>1, UnmapFrees
<1>3. /\ Cardinality(mapped' \intersect On(d)) \in Nat /\ Cardinality(mapped \intersect On(d)) \in Nat
      /\ Capacity[d] \in Nat
  BY <1>1, FreeIsInt
<1>4. Free(d) >= 0
  BY DEF RoomInv, RoomOf
<1>. QED
  BY <1>2, <1>3, <1>4 DEF Free, On

LEMMA RoomIdle ==
    ASSUME TypeOK, RoomInv, mapped' \subseteq mapped,
           \A d \in Devices : op'.at[d] \in {"ok", "map"}
    PROVE  RoomInv'
<1>. SUFFICES ASSUME NEW d \in Devices PROVE RoomOf(d)'
  BY DEF RoomInv
<1>. QED
  BY RoomAfter DEF RoomOf

LEMMA RoomInit == Init => RoomInv
<1>. SUFFICES ASSUME Init, NEW d \in Devices PROVE RoomOf(d)
  BY DEF RoomInv
<1>1. mapped \intersect On(d) = {} /\ Capacity[d] \in Nat
  BY ResidencyConstants DEF Init
<1>2. Free(d) = Capacity[d]
  <2>1. Cardinality(mapped \intersect On(d)) = 0
    BY <1>1, FS_EmptySet
  <2>. QED
    BY <1>1, <2>1 DEF Free
<1>. QED
  <2>1. op.at[d] = "ok"
    BY NoOpFields DEF Init
  <2>2. Free(d) >= 0
    BY <1>1, <1>2
  <2>. QED
    BY <2>1, <2>2 DEF RoomOf

\* Every other group has been asked and is empty on d: d is the operation's own.
LEMMA AllTaken ==
    ASSUME ShapeInv, Busy, NEW d \in Devices, Donors(d) = {}, \A g \in op.seen[d] : Mine(g, d) = {}
    PROVE  mapped \intersect On(d) \subseteq Of(op.group)
<1>. SUFFICES ASSUME NEW c \in mapped \intersect On(d), GroupOf[c[1]] # op.group PROVE FALSE
  BY DEF Of, ShapeInv, TypeOK
<1>1. c \in Chunk /\ GroupOf[c[1]] \in Groups
  BY ResidencyConstants DEF Chunk, ShapeInv, TypeOK
<1>2. place[GroupOf[c[1]]] = "parked"
  <2>1. place[GroupOf[c[1]]] \in {"new", "cards", "parked"} /\ place[GroupOf[c[1]]] # "new"
    BY <1>1 DEF ShapeInv, TypeOK, Residents
  <2>2. CASE op.kind = "unpark"
    BY <1>1, <2>1, <2>2 DEF ShapeInv, OpShape, NoneOnCards
  <2>3. CASE op.kind = "alloc"
    BY <1>1, <2>1, <2>3 DEF ShapeInv, OpShape, Residents
  <2>. QED
    BY <2>2, <2>3 DEF ShapeInv, TypeOK, Busy
<1>3. GroupOf[c[1]] \in op.seen[d]
  BY <1>1, <1>2, Zenon DEF Donors
<1>4. c \in Mine(GroupOf[c[1]], d)
  BY <1>1 DEF Mine, Of
<1>. QED
  BY <1>3, <1>4

LEMMA RoomStage ==
    ASSUME ShapeInv, RoomInv, NEW d \in Devices, StageEffect(d) PROVE RoomInv'
<1>. mapped' = mapped /\ op'.group = op.group /\ (op.broke => op'.broke)
  BY DEF StageEffect, Moves
<1>1. \A e \in Devices \ {d} : op'.at[e] = op.at[e] /\ op'.seen[e] = op.seen[e]
  BY DEF StageEffect, Moves
<1>2. ASSUME NEW e \in Devices \ {d} PROVE RoomOf(e)'
  BY <1>1, RoomFrame DEF RoomInv, ShapeInv
<1>3. RoomOf(d)'
  <2>1. /\ Free(d)' = Free(d) /\ Free(d) >= 0 /\ Free(d) \in Int /\ (Full(d) => Full(d)')
        /\ \A g : Mine(g, d)' = Mine(g, d)
    <3>1. Free(d)' = Free(d) /\ (Full(d) => Full(d)')
      BY DEF Free, Full, On, Of
    <3>2. \A g : Mine(g, d)' = Mine(g, d)
      <4>. TAKE g
      <4>. QED BY DEF Mine, Of, On
    <3>. QED
      BY <3>1, <3>2, RoomAfter DEF ShapeInv
  <2>2. CASE op.at[d] = "map" /\ Todo(d) = {} /\ Moves(d, "fill")
    BY <2>1, <2>2 DEF RoomOf, Moves
  <2>3. CASE op.at[d] = "map" /\ Moves(d, "reclaim") /\ op'.seen[d] = {} /\ (Free(d) > 0 => op'.broke)
    <3>1. op'.at[d] = "reclaim"
      BY <2>3 DEF Moves
    <3>. QED
      BY <2>1, <2>3, <3>1 DEF RoomOf
  <2>4. CASE op.at[d] = "reclaim" /\ Donors(d) = {} /\ (Moves(d, "retry") \/ Moves(d, "failed"))
    <3>1. op'.at[d] \in {"retry", "failed"} /\ Busy
      BY <2>4, NoOpFields DEF Moves, Busy, ShapeInv, OpShape
    <3>2. ~op.broke => Full(d)
      BY <2>4, <3>1, AllTaken DEF RoomInv, RoomOf, Full
    <3>. QED
      BY <2>1, <3>1, <3>2 DEF RoomOf
  <2>5. CASE op.at[d] = "retry" /\ Moves(d, "failed") /\ (Free(d) > 0 => op'.broke)
    <3>1. op'.at[d] = "failed"
      BY <2>5 DEF Moves
    <3>2. ~op'.broke => Full(d)
      BY <2>5 DEF RoomInv, RoomOf
    <3>. QED
      BY <2>1, <3>1, <3>2 DEF RoomOf
  <2>6. CASE op.at[d] = "fill" /\ Moves(d, "failed") /\ op'.broke
    BY <2>1, <2>6 DEF RoomOf
  <2>. QED
    BY <2>2, <2>3, <2>4, <2>5, <2>6 DEF StageEffect
<1>. QED
  BY <1>2, <1>3 DEF RoomInv

LEMMA RoomMap ==
    ASSUME ShapeInv, RoomInv, NEW d \in Devices, NEW c \in Chunk, MapEffect(d, c) PROVE RoomInv'
<1>. mapped' = mapped \union {c} /\ op'.group = op.group /\ (op.broke => op'.broke) /\ op'.at[d] = "map" /\ c \in On(d)
  BY DEF MapEffect, Moves, NextUp, Todo
<1>1. \A e \in Devices \ {d} : op'.at[e] = op.at[e] /\ op'.seen[e] = op.seen[e]
  BY DEF MapEffect, Moves
<1>2. ASSUME NEW e \in Devices \ {d} PROVE RoomOf(e)'
  <2>1. mapped' \intersect On(e) = mapped \intersect On(e)
    BY DEF On
  <2>. QED
    BY <1>1, <2>1, RoomFrame DEF RoomInv, ShapeInv
<1>3. Free(d)' >= 0
  <2>1. mapped \in SUBSET Chunk /\ mapped' \in SUBSET Chunk
    BY DEF ShapeInv, TypeOK
  <2>2. Cardinality(mapped' \intersect On(d)) <= Cardinality(mapped \intersect On(d)) + 1
    BY <2>1, MapUses
  <2>3. /\ Cardinality(mapped' \intersect On(d)) \in Nat /\ Cardinality(mapped \intersect On(d)) \in Nat
        /\ Capacity[d] \in Nat
    BY <2>1, FreeIsInt
  <2>4. Capacity[d] - Cardinality(mapped \intersect On(d)) > 0
    BY DEF MapEffect, Free
  <2>5. Free(d)' = Capacity[d] - Cardinality(mapped' \intersect On(d))
    BY DEF Free, On
  <2>. QED
    BY <2>2, <2>3, <2>4, <2>5
<1>. QED
  BY <1>2, <1>3 DEF RoomInv, RoomOf

LEMMA RoomFill ==
    ASSUME ShapeInv, RoomInv, NEW d \in Devices, FillEffect(d) PROVE RoomInv'
<1>. mapped' = mapped /\ op'.group = op.group /\ (op.broke => op'.broke) /\ op'.at[d] = "ok"
  BY DEF FillEffect, Moves
<1>1. \A e \in Devices \ {d} : op'.at[e] = op.at[e] /\ op'.seen[e] = op.seen[e]
  BY DEF FillEffect, Moves
<1>2. ASSUME NEW e \in Devices \ {d} PROVE RoomOf(e)'
  BY <1>1, RoomFrame DEF RoomInv, ShapeInv
<1>3. RoomOf(d)'
  BY RoomAfter DEF RoomOf, ShapeInv
<1>. QED
  BY <1>2, <1>3 DEF RoomInv

LEMMA RoomTake ==
    ASSUME ShapeInv, RoomInv, NEW d \in Devices, NEW g \in Groups, TakeEffect(d, g) PROVE RoomInv'
<1>. DEFINE S == Taken(g, d, 1)
<1>0. S \subseteq On(d) /\ S \in SUBSET mapped
  BY DEF Taken, Mine
<1>1. /\ \A e \in Devices \ {d} : op'.at[e] = op.at[e] /\ op'.seen[e] = op.seen[e]
      /\ op'.group = op.group /\ (op.broke => op'.broke)
  BY DEF TakeEffect, Moves
<1>2. mapped' \subseteq mapped /\ mapped \ S \subseteq mapped'
  BY <1>0, UnmapEffect DEF TakeEffect, ShapeInv
<1>3. ASSUME NEW e \in Devices \ {d} PROVE RoomOf(e)'
  <2>1. mapped' \intersect On(e) = mapped \intersect On(e)
    BY <1>0, <1>2 DEF On
  <2>. QED
    BY <1>1, <2>1, RoomFrame DEF RoomInv, ShapeInv
<1>4. Free(d)' >= Free(d) /\ Free(d) >= 0 /\ Free(d) \in Int /\ Free(d)' \in Int
  BY <1>2, RoomAfter DEF ShapeInv
<1>5. CASE mapped' # mapped /\ op'.at[d] = "retry"
  <2>1. mapped \in SUBSET Chunk /\ mapped' \in SUBSET mapped /\ mapped' \in SUBSET Chunk
    BY <1>2 DEF ShapeInv, TypeOK
  <2>2. mapped' \intersect On(d) # mapped \intersect On(d)
    BY <1>0, <1>2, <1>5
  <2>3. Cardinality(mapped' \intersect On(d)) < Cardinality(mapped \intersect On(d))
    BY <2>1, <2>2, UnmapFrees
  <2>4. /\ Cardinality(mapped' \intersect On(d)) \in Nat /\ Cardinality(mapped \intersect On(d)) \in Nat
        /\ Capacity[d] \in Nat
    BY <2>1, FreeIsInt
  <2>5. Free(d)' > Free(d)
    BY <2>3, <2>4 DEF Free, On
  <2>6. RoomOf(d)'
    BY <1>4, <1>5, <2>5 DEF RoomOf
  <2>. QED
    BY <1>3, <2>6 DEF RoomInv
<1>6. CASE mapped' = mapped /\ op'.at[d] = "reclaim" /\ (op'.broke \/ S = {})
  <2>1. \A h : Mine(h, d)' = Mine(h, d)
    <3>. TAKE h
    <3>. QED BY <1>6 DEF Mine, Of, On
  <2>2. Free(d)' = Free(d)
    BY <1>6 DEF Free, On
  <2>3. op.at[d] = "reclaim" /\ op'.seen[d] = op.seen[d] \union {g}
    BY DEF TakeEffect
  <2>4. ~op'.broke => Mine(g, d) = {}
    BY <1>6, TakenIsNothing DEF ShapeInv
  <2>5. ~op'.broke => Free(d) = 0 /\ \A h \in op.seen[d] : Mine(h, d) = {}
    BY <1>1, <2>3 DEF RoomInv, RoomOf
  <2>6. RoomOf(d)'
    BY <1>4, <1>6, <2>1, <2>2, <2>3, <2>4, <2>5 DEF RoomOf
  <2>. QED
    BY <1>3, <2>6 DEF RoomInv
<1>. QED
  BY <1>5, <1>6, Zenon DEF TakeEffect, Moves

LEMMA RoomNext == ShapeInv /\ RoomInv /\ [Next]_vars => RoomInv'
<1>. SUFFICES ASSUME ShapeInv, RoomInv, [Next]_vars PROVE RoomInv'
  OBVIOUS
<1>1. CASE ThreadStep
  BY <1>1, RoomStage, RoomFill, RoomMap, RoomTake DEF ThreadStep
<1>2. CASE op' = NoOp /\ mapped' \subseteq mapped
  BY <1>2, RoomIdle, NoOpFields DEF ShapeInv
<1>3. CASE ParkStep
  <2>0. PICK g \in Groups : \E S \in SUBSET (mapped \intersect Of(g)) : Park(g, S)
    BY <1>3 DEF ParkStep
  <2>1. PICK S \in SUBSET (mapped \intersect Of(g)) : Park(g, S)
    BY <2>0
  <2>2. mapped' \subseteq mapped
    BY <2>1, UnmapEffect DEF Park, ShapeInv
  <2>3. op' = NoOp
    BY <2>1, IdleOp DEF Park, ShapeInv
  <2>. QED
    BY <1>2, <2>2, <2>3
<1>4. CASE GroupStep
  <2>1. mapped' \subseteq mapped
    BY <1>4 DEF GroupStep, Create, Prime, BeginUnpark, BeginAlloc, FreeBuffer, Write
  <2>2. ASSUME NEW g \in Groups, BeginUnpark(g) PROVE RoomInv'
    <3>1. (Held \ mapped) \intersect Of(g) \in SUBSET Chunk
      BY DEF Held
    <3>2. \A d \in Devices : op'.at[d] \in {"ok", "map"}
      BY <2>2, <3>1, BeginOp DEF BeginUnpark
    <3>. QED
      BY <2>1, <3>2, RoomIdle DEF ShapeInv
  <2>3. ASSUME NEW r \in Records, BeginAlloc(r) PROVE RoomInv'
    <3>. DEFINE plan == {c \in Chunk \ Held : c[1] = r /\ (r \in Slabs => c[2] = size[r] + 1)}
    <3>1. GroupOf[r] \in Groups /\ plan \in SUBSET Chunk /\ Begin("alloc", GroupOf[r], plan)
      BY <2>3, ResidencyConstants DEF BeginAlloc
    <3>. HIDE DEF plan
    <3>2. \A d \in Devices : op'.at[d] \in {"ok", "map"}
      BY <3>1, BeginOp
    <3>. QED
      BY <2>1, <3>2, RoomIdle DEF ShapeInv
  <2>4. (op' = op /\ ~Busy) \/ (\E g \in Groups : BeginUnpark(g)) \/ (\E r \in Records : BeginAlloc(r))
    BY <1>4 DEF GroupStep, Create, Prime, FreeBuffer, Write
  <2>. QED
    BY <1>2, <2>1, <2>2, <2>3, <2>4, IdleOp DEF ShapeInv
<1>5. CASE Commit
  BY <1>2, <1>5 DEF Commit
<1>6. CASE RollBack
  <2>1. op.done \in SUBSET mapped
    BY DEF ShapeInv, OpShape
  <2>. QED
    BY <1>2, <1>6, <2>1, UnmapEffect DEF RollBack, ShapeInv
<1>7. CASE UNCHANGED vars
  <2>1. UNCHANGED <<mapped, op>>
    BY <1>7 DEF vars
  <2>. QED
    BY <2>1, RoomFrame DEF RoomInv, ShapeInv
<1>. QED
  BY <1>1, <1>3, <1>4, <1>5, <1>6, <1>7, StepCases DEF ShapeInv

(* reclaim and the retry after it: where nothing failed, a device thread   *)
(* gives up only on a device that its own group fills.                     *)
THEOREM GivesUpOnlyWhenFull == Spec => []FailsOnlyWhenFull
<1>1. RoomInv => FailsOnlyWhenFull
  BY DEF RoomInv, RoomOf, Full, FailsOnlyWhenFull
<1>. QED
  BY <1>1, RoomInit, RoomNext, ShapeInvariance, PTL DEF Spec

-----------------------------------------------------------------------------
(* The contents.                                                           *)
ContentInv == Clean /\ Mirrors

LEMMA ChunkFacts ==
    ASSUME NEW c \in Chunk
    PROVE  /\ c[1] \in Records /\ c[2] \in Nat /\ GroupOf[c[1]] \in Groups /\ DevOf[c[1]] \in Devices
           /\ Class(c) \in Classes
<1>1. c[1] \in Records /\ c[2] \in 1..MaxRoom
  BY DEF Chunk
<1>2. MaxRoom \in Nat /\ GroupOf \in [Records -> Groups] /\ DevOf \in [Records -> Devices] /\ ClassOf \in [Records -> Classes]
  BY ResidencyConstants
<1>. QED
  BY <1>1, <1>2 DEF Class

LEMMA Sizes ==
    ASSUME ShapeInv, NEW r \in Records PROVE top[r] \in Nat /\ size[r] \in Nat
<1>1. top[r] \in 0..MaxRoom /\ size[r] \in 0..MaxRoom
  BY DEF ShapeInv, TypeOK
<1>. QED
  BY <1>1

LEMMA Distinct ==
    /\ Undefined # Absent /\ Undefined # Zero /\ Zero # Absent
    /\ \A v \in Values : v # Undefined /\ v # Absent
BY ResidencyConstants

LEMMA Pendings ==
    ASSUME ShapeInv
    PROVE  /\ Held \subseteq Chunk /\ mapped \subseteq Chunk /\ op.done \subseteq mapped
           /\ Pending \subseteq Held \intersect Of(op.group)
           /\ Pending \intersect mapped = Pending \intersect op.done
           /\ ~Busy => Pending = {} /\ op.done = {} /\ op = NoOp
BY IdleOp DEF Held, ShapeInv, TypeOK, OpShape, Pending

LEMMA ContentInit == Init => ContentInv
<1>. SUFFICES ASSUME Init PROVE ContentInv
  OBVIOUS
<1>1. mapped = {} /\ op.done = {} /\ Held = {} /\ \A r \in Records : top[r] <= size[r]
  BY NoOpFields DEF Init, Held, Chunk
<1>. QED
  BY <1>1 DEF ContentInv, Clean, Mirrors

LEMMA ContentStage ==
    ASSUME ShapeInv, ContentInv, NEW d \in Devices, StageEffect(d) PROVE ContentInv'
<1>1. /\ UNCHANGED <<place, size, mapped, mirror, top, card, host>> /\ UNCHANGED Held
      /\ op'.kind = op.kind /\ op'.plan = op.plan /\ op'.done = op.done /\ UNCHANGED Pending
      /\ \A e \in Devices \ {d} : op'.at[e] = op.at[e]
      /\ op'.at[d] # "ok"
  BY DEF StageEffect, Moves, store, Held, Pending
<1>2. ASSUME NEW c \in Chunk PROVE (CleanOf(c) => CleanOf(c)') /\ (MirrorOf(c) => MirrorOf(c)') /\ (FilledOf(c) => FilledOf(c)')
  BY <1>1, ChunkFacts DEF CleanOf, MirrorOf, FilledOf, Settled
<1>. QED
  BY <1>1, <1>2, Pendings DEF ContentInv, Clean, Mirrors

LEMMA ContentMap ==
    ASSUME ShapeInv, ContentInv, NEW d \in Devices, NEW b \in Chunk, MapEffect(d, b) PROVE ContentInv'
<1>1. /\ UNCHANGED <<place, size, mirror, top, host>> /\ UNCHANGED Held
      /\ mapped' = mapped \union {b} /\ card' = [card EXCEPT ![b] = Undefined]
      /\ op'.kind = op.kind /\ op'.plan = op.plan /\ op'.done = op.done \union {b} /\ UNCHANGED Pending
      /\ \A e \in Devices \ {d} : op'.at[e] = op.at[e]
      /\ op.at[d] # "ok" /\ op'.at[d] = "map" /\ b \in op.plan /\ DevOf[b[1]] = d
  BY DEF MapEffect, Moves, store, Held, Pending, NextUp, Todo, On
<1>2. \A c \in Chunk : card'[c] = IF c = b THEN Undefined ELSE card[c]
  BY <1>1 DEF ShapeInv, TypeOK
<1>3. b \in Held => op.kind = "unpark" /\ b \in Pending
  BY <1>1, NoOpFields DEF ShapeInv, OpShape, Pending, TypeOK
<1>4. ASSUME NEW c \in Held PROVE MirrorOf(c)'
  <2>1. c \in Settled' <=> c \in Settled
    BY <1>1, <1>3 DEF Settled
  <2>2. c \in Settled => card'[c] = card[c]
    BY <1>2, <1>3, Pendings DEF Settled
  <2>3. MirrorOf(c)
    BY DEF ContentInv, Mirrors
  <2>. QED
    BY <1>1, <2>1, <2>2, <2>3 DEF MirrorOf
<1>5. ASSUME NEW c \in Held \intersect mapped' PROVE CleanOf(c)'
  <2>1. CASE c = b
    BY <1>1, <1>3, <2>1 DEF CleanOf
  <2>2. CASE c # b
    <3>1. CleanOf(c) /\ card'[c] = card[c] /\ DevOf[c[1]] \in Devices
      BY <1>1, <1>2, <2>2, ChunkFacts, Pendings DEF ContentInv, Clean
    <3>. QED
      BY <1>1, <3>1 DEF CleanOf
  <2>. QED
    BY <2>1, <2>2
<1>6. ASSUME NEW c \in op'.done PROVE FilledOf(c)'
  <2>1. CASE c = b
    BY <1>1, <1>2, <2>1 DEF FilledOf
  <2>2. CASE c # b
    <3>1. FilledOf(c) /\ card'[c] = card[c] /\ DevOf[c[1]] \in Devices
      BY <1>1, <1>2, <2>2, ChunkFacts, Pendings DEF ContentInv, Mirrors
    <3>. QED
      BY <1>1, <3>1 DEF FilledOf
  <2>. QED
    BY <2>1, <2>2
<1>7. \A c \in mapped' : card'[c] # Absent
  BY <1>1, <1>2, Distinct, Pendings DEF ContentInv, Mirrors
<1>8. Mirrors'
  BY <1>1, <1>4, <1>6, <1>7 DEF ContentInv, Mirrors
<1>. QED
  BY <1>1, <1>5, <1>8 DEF ContentInv, Clean

LEMMA ContentFill ==
    ASSUME ShapeInv, ContentInv, NEW d \in Devices, FillEffect(d) PROVE ContentInv'
<1>1. /\ UNCHANGED <<place, size, mapped, mirror, top, host>> /\ UNCHANGED Held
      /\ op'.kind = op.kind /\ op'.plan = op.plan /\ op'.done = op.done /\ UNCHANGED Pending
      /\ \A e \in Devices \ {d} : op'.at[e] = op.at[e]
  BY DEF FillEffect, Moves, store, Held, Pending
<1>2. \A c \in Chunk : card'[c] = IF c \in Pending /\ DevOf[c[1]] = d
                                  THEN IF Lasting(c) THEN host[c]
                                       ELSE IF Class(c) = "scratch" THEN Zero ELSE card[c]
                                  ELSE card[c]
  BY DEF FillEffect, Pending, On
<1>3. ASSUME NEW c \in Held PROVE MirrorOf(c)'
  <2>1. c \in Chunk /\ MirrorOf(c) /\ (c \in Settled => card'[c] = card[c])
    BY <1>2, Pendings DEF ContentInv, Mirrors, Settled
  <2>. QED
    BY <1>1, <2>1 DEF MirrorOf, Settled
<1>4. ASSUME NEW c \in Held \intersect mapped PROVE CleanOf(c)'
  <2>1. c \in Chunk /\ CleanOf(c) /\ DevOf[c[1]] \in Devices
    BY ChunkFacts, Pendings DEF ContentInv, Clean
  <2>2. CASE DevOf[c[1]] = d /\ c \in Pending
    BY <1>2, <2>1, <2>2, Distinct DEF CleanOf, Lasting
  <2>3. CASE ~(DevOf[c[1]] = d /\ c \in Pending)
    <3>1. card'[c] = card[c]
      BY <1>2, <2>1, <2>3
    <3>. QED
      BY <1>1, <2>1, <2>3, <3>1 DEF CleanOf
  <2>. QED
    BY <2>2, <2>3
<1>5. ASSUME NEW c \in op.done PROVE FilledOf(c)'
  <2>1. c \in Chunk /\ FilledOf(c) /\ DevOf[c[1]] \in Devices /\ c \in op.plan
    BY ChunkFacts, Pendings DEF ContentInv, Mirrors, ShapeInv, OpShape
  <2>2. CASE DevOf[c[1]] = d /\ op.kind = "unpark"
    BY <1>1, <1>2, <2>1, <2>2 DEF FilledOf, Pending
  <2>3. CASE DevOf[c[1]] # d \/ op.kind # "unpark"
    <3>1. card'[c] = card[c]
      BY <1>2, <2>1, <2>3 DEF Pending
    <3>. QED
      BY <1>1, <2>1, <2>3, <3>1 DEF FilledOf
  <2>. QED
    BY <2>2, <2>3
<1>6. ASSUME NEW c \in mapped PROVE card'[c] # Absent
  <2>1. c \in Chunk /\ card[c] # Absent
    BY Pendings DEF ContentInv, Mirrors
  <2>2. c \in Pending /\ Lasting(c) => host[c] # Absent
    BY Pendings DEF ContentInv, Mirrors, MirrorOf, Settled
  <2>. QED
    BY <1>2, <2>1, <2>2, Distinct
<1>7. Mirrors'
  BY <1>1, <1>3, <1>5, <1>6 DEF ContentInv, Mirrors
<1>. QED
  BY <1>1, <1>4, <1>7 DEF ContentInv, Clean

-----------------------------------------------------------------------------
(* Chunks that may be copied to the mirrors: all are settled on the cards, *)
(* and of a weights record none that is missing in its mirror is left out. *)
Copyable(C) ==
    /\ C \subseteq {c \in Held \intersect Settled : Lasting(c)}
    /\ \A c \in C, e \in Held :
          Class(c) = "weights" /\ e[1] = c[1] /\ e[2] > top[c[1]] => e \in C

\* A copy, whole or broken off, leaves every settled weights chunk equal to its mirror.
LEMMA CopyKeeps ==
    ASSUME ShapeInv, ContentInv, NEW C, Copyable(C), CopyDown(C) \/ CopyDownFails(C)
    PROVE  /\ \A r \in Records : top'[r] <= size[r]
           /\ \A c \in Chunk : c \notin C => host'[c] = host[c]
           /\ \A c \in Held : Class(c) = "weights" =>
                 \/ c[2] > top'[c[1]] /\ c \in Settled
                 \/ c[2] <= top'[c[1]] /\ (c \in Settled => host'[c] = card[c])
           /\ CopyDown(C) => \A c \in C : /\ host'[c] = card[c]
                                          /\ Class(c) = "weights" => c[2] <= top'[c[1]]
<1>1. \A r \in Records : top[r] \in Nat /\ size[r] \in Nat /\ top[r] <= size[r]
  BY ResidencyConstants DEF ShapeInv, TypeOK, ContentInv, Mirrors
<1>2. \A r \in Records : \/ top'[r] = top[r]
                         \/ /\ top'[r] = size[r] /\ CopyDown(C) /\ \E c \in C : c[1] = r
  <2>1. CASE CopyDown(C)
    BY <2>1 DEF CopyDown
  <2>2. CASE CopyDownFails(C)
    BY <2>2 DEF CopyDownFails
  <2>. QED
    BY <2>1, <2>2
<1>3. \A c \in Chunk : host'[c] = host[c] \/ (c \in C /\ host'[c] = card[c])
  <2>1. CASE CopyDown(C)
    BY <2>1 DEF CopyDown
  <2>2. CASE CopyDownFails(C)
    BY <2>2 DEF CopyDownFails, ShapeInv, TypeOK
  <2>. QED
    BY <2>1, <2>2
<1>4. CopyDown(C) => \A c \in C : host'[c] = card[c] /\ (Class(c) = "weights" => top'[c[1]] = size[c[1]])
  <2>. SUFFICES ASSUME CopyDown(C), NEW c \in C
                PROVE  host'[c] = card[c] /\ (Class(c) = "weights" => top'[c[1]] = size[c[1]])
    OBVIOUS
  <2>1. c \in Chunk /\ c[1] \in Records
    BY ChunkFacts, Pendings DEF Copyable
  <2>2. host'[c] = card[c]
    BY <2>1 DEF CopyDown
  <2>3. Class(c) = "weights" => top'[c[1]] = size[c[1]]
    BY <2>1 DEF CopyDown, Class
  <2>. QED
    BY <2>2, <2>3
<1>5. \A c \in Held : c \in Chunk /\ c[1] \in Records /\ c[2] \in Nat /\ c[2] <= size[c[1]]
  BY ChunkFacts DEF Held
<1>6. ASSUME NEW c \in Held, Class(c) = "weights"
      PROVE  \/ c[2] > top'[c[1]] /\ c \in Settled
             \/ c[2] <= top'[c[1]] /\ (c \in Settled => host'[c] = card[c])
  <2>1. \/ c[2] > top[c[1]] /\ c \in Settled
        \/ c[2] <= top[c[1]] /\ (c \in Settled => host[c] = card[c])
    BY <1>6 DEF ContentInv, Mirrors, MirrorOf
  <2>2. CASE c[2] <= top[c[1]]
    <3>1. c[2] <= top'[c[1]]
      BY <1>1, <1>2, <1>5, <2>2
    <3>2. c \in Settled => host'[c] = card[c]
      BY <1>1, <1>3, <1>5, <2>1, <2>2
    <3>. QED
      BY <3>1, <3>2
  <2>3. CASE c[2] > top[c[1]] /\ top'[c[1]] = top[c[1]]
    BY <1>1, <1>5, <2>1, <2>3
  <2>4. CASE c[2] > top[c[1]] /\ top'[c[1]] # top[c[1]]
    <3>1. PICK e \in C : e[1] = c[1] /\ CopyDown(C) /\ top'[c[1]] = size[c[1]]
      BY <1>2, <1>5, <2>4
    <3>2. Class(e) = "weights"
      BY <1>6, <3>1 DEF Class
    <3>3. c \in C
      BY <2>4, <3>1, <3>2 DEF Copyable
    <3>. QED
      BY <1>4, <1>5, <3>1, <3>3
  <2>. QED
    BY <1>1, <1>5, <2>2, <2>3, <2>4
<1>7. \A r \in Records : top'[r] <= size[r]
  BY <1>1, <1>2
<1>8. CopyDown(C) => \A c \in C : host'[c] = card[c] /\ (Class(c) = "weights" => c[2] <= top'[c[1]])
  BY <1>4, <1>5 DEF Copyable
<1>. QED
  BY <1>3, <1>6, <1>7, <1>8

(* A copy that releases nothing. *)
LEMMA ContentCopy ==
    ASSUME ShapeInv, ContentInv, NEW C, Copyable(C), CopyDown(C) \/ CopyDownFails(C),
           C \intersect op.done = {},
           UNCHANGED <<size, mapped, card>>, UNCHANGED Pending,
           op'.kind = op.kind, op'.done = op.done,
           \A d \in Devices : op'.at[d] = op.at[d] \/ op'.at[d] # "ok"
    PROVE  ContentInv'
<1>. UNCHANGED Held /\ UNCHANGED Settled
  BY DEF Held, Settled
<1>1. ASSUME NEW c \in Held PROVE MirrorOf(c)'
  <2>1. c \notin Settled => c \in Chunk /\ c \notin C
    BY Pendings DEF Copyable
  <2>2. Lasting(c) /\ c \notin Settled => host'[c] # Absent
    BY <2>1, CopyKeeps DEF ContentInv, Mirrors, MirrorOf
  <2>. QED
    BY <2>2, CopyKeeps DEF MirrorOf
<1>2. ASSUME NEW c \in op.done PROVE FilledOf(c)'
  <2>1. c \in Chunk /\ FilledOf(c) /\ DevOf[c[1]] \in Devices /\ host'[c] = host[c]
    BY ChunkFacts, Pendings, CopyKeeps DEF ContentInv, Mirrors
  <2>. QED
    BY <2>1 DEF FilledOf
<1>3. ASSUME NEW c \in Held \intersect mapped PROVE CleanOf(c)'
  <2>1. CleanOf(c) /\ DevOf[c[1]] \in Devices
    BY ChunkFacts, Pendings DEF ContentInv, Clean
  <2>. QED
    BY <2>1 DEF CleanOf
<1>4. Mirrors'
  BY <1>1, <1>2, CopyKeeps DEF ContentInv, Mirrors
<1>. QED
  BY <1>3, <1>4 DEF ContentInv, Clean

(* What a release copies down may be copied, and covers what it unmaps. *)
LEMMA CopiesAreCopyable ==
    ASSUME ShapeInv, ContentInv, NEW g \in Groups, ~Busy \/ g # op.group,
           NEW S \in SUBSET (mapped \intersect Of(g))
    PROVE  /\ Copyable(CopiesOf(S)) /\ CopiesOf(S) \intersect op.done = {} /\ CopiesOf(S) \subseteq Of(g)
           /\ S \intersect op.done = {} /\ S \intersect Pending = {}
           /\ \A c \in S : Lasting(c) =>
                 /\ c \in Held \intersect Settled
                 /\ c \in CopiesOf(S) \/ (Class(c) = "weights" /\ c[2] <= top[c[1]])
<1>. DEFINE C == CopiesOf(S)
<1>1. S \intersect op.done = {} /\ S \intersect Pending = {}
  BY Pendings DEF Of, ShapeInv, OpShape
<1>2. ASSUME NEW c \in S, Lasting(c) PROVE c \in Held \intersect Settled
  <2>1. c \in Held
    BY <1>1, <1>2 DEF ShapeInv, Residents, Lasting
  <2>. QED
    BY <1>1, <2>1 DEF Settled
<1>3. ASSUME NEW c \in C PROVE c \in Held \intersect Settled /\ Lasting(c) /\ GroupOf[c[1]] = g
  <2>1. CASE c \in S /\ Class(c) = "state"
    BY <1>2, <2>1 DEF Lasting, Of
  <2>2. CASE c \in Held /\ Class(c) = "weights" /\ c[2] > top[c[1]] /\ \E e \in S : e[1] = c[1]
    <3>1. MirrorOf(c) /\ c[2] \in Nat /\ c[1] \in Records
      BY <2>2, ChunkFacts, Pendings DEF ContentInv, Mirrors
    <3>2. top[c[1]] \in Nat
      BY <3>1, Sizes
    <3>3. c \in Settled
      BY <2>2, <3>1, <3>2 DEF MirrorOf
    <3>. QED
      BY <2>2, <3>3 DEF Lasting, Of
  <2>. QED
    BY <2>1, <2>2 DEF CopiesOf
<1>4. ASSUME NEW c \in C, NEW e \in Held, Class(c) = "weights", e[1] = c[1], e[2] > top[c[1]] PROVE e \in C
  BY <1>4 DEF CopiesOf, Class
<1>5. Copyable(C)
  BY <1>3, <1>4 DEF Copyable
<1>6. C \intersect op.done = {} /\ C \subseteq Of(g)
  BY <1>3, Pendings DEF Of, ShapeInv, OpShape
<1>7. ASSUME NEW c \in S, Lasting(c) PROVE c \in C \/ (Class(c) = "weights" /\ c[2] <= top[c[1]])
  <2>1. c \in Held /\ c[2] \in Nat /\ c[1] \in Records
    BY <1>2, <1>7, ChunkFacts, Pendings
  <2>2. top[c[1]] \in Nat
    BY <2>1, Sizes
  <2>. QED
    BY <1>7, <2>1, <2>2 DEF CopiesOf, Lasting
<1>. QED
  BY <1>1, <1>2, <1>5, <1>6, <1>7

(* Releases keep what they unmap. *)
LEMMA ReleaseKeeps ==
    ASSUME ShapeInv, ContentInv, NEW g \in Groups, ~Busy \/ g # op.group,
           NEW S \in SUBSET (mapped \intersect Of(g)), CopyDown(CopiesOf(S))
    PROVE  \A c \in S : Lasting(c) =>
              host'[c] = card[c] /\ card[c] # Absent /\ (Class(c) = "weights" => c[2] <= top'[c[1]])
<1>. SUFFICES ASSUME NEW c \in S, Lasting(c)
              PROVE  host'[c] = card[c] /\ card[c] # Absent /\ (Class(c) = "weights" => c[2] <= top'[c[1]])
  OBVIOUS
<1>1. /\ Copyable(CopiesOf(S)) /\ c \in Held \intersect Settled
      /\ c \in CopiesOf(S) \/ (Class(c) = "weights" /\ c[2] <= top[c[1]])
  BY CopiesAreCopyable
<1>2. card[c] # Absent
  BY DEF ContentInv, Mirrors
<1>3. CASE c \in CopiesOf(S)
  BY <1>1, <1>2, <1>3, CopyKeeps
<1>4. CASE c \notin CopiesOf(S) /\ Class(c) = "weights" /\ c[2] <= top[c[1]]
  <2>1. c \in Chunk /\ c[1] \in Records /\ c[2] \in Nat /\ MirrorOf(c)
    BY <1>1, ChunkFacts, Pendings DEF ContentInv, Mirrors
  <2>2. top[c[1]] \in Nat
    BY <2>1, Sizes
  <2>3. host'[c] = host[c] /\ host[c] = card[c]
    BY <1>1, <1>4, <2>1, <2>2, CopyKeeps DEF MirrorOf
  <2>4. top'[c[1]] = top[c[1]] \/ top'[c[1]] = size[c[1]]
    BY <2>1 DEF CopyDown
  <2>5. c[2] <= size[c[1]]
    BY <1>1 DEF Held
  <2>. QED
    BY <1>2, <1>4, <2>3, <2>4, <2>5
<1>. QED
  BY <1>1, <1>3, <1>4

LEMMA ContentRelease ==
    ASSUME ShapeInv, ContentInv, NEW g \in Groups, ~Busy \/ g # op.group,
           NEW S \in SUBSET (mapped \intersect Of(g)), CopyDown(CopiesOf(S)), Unmap(S),
           UNCHANGED size, UNCHANGED Pending, op'.kind = op.kind, op'.done = op.done,
           \A d \in Devices : op'.at[d] = op.at[d] \/ op'.at[d] # "ok"
    PROVE  ContentInv'
<1>. DEFINE C == CopiesOf(S)
<1>. UNCHANGED Held /\ S \in SUBSET mapped
  BY DEF Held
<1>1. /\ mapped' \subseteq mapped /\ mapped \ S \subseteq mapped'
      /\ \A c \in S \intersect mapped' : Class(c) = "pool"
      /\ \A c \in mapped' : card'[c] = card[c]
  BY UnmapEffect DEF ShapeInv
<1>2. Copyable(C) /\ C \intersect op.done = {} /\ S \intersect op.done = {} /\ S \intersect Pending = {}
  BY CopiesAreCopyable
<1>3. /\ \A r \in Records : top'[r] <= size[r]
      /\ \A c \in Chunk : c \notin C => host'[c] = host[c]
      /\ \A c \in Held : Class(c) = "weights" =>
                 \/ c[2] > top'[c[1]] /\ c \in Settled
                 \/ c[2] <= top'[c[1]] /\ (c \in Settled => host'[c] = card[c])
  BY <1>2, CopyKeeps
<1>4. \A c \in S : Lasting(c) =>
         host'[c] = card[c] /\ card[c] # Absent /\ (Class(c) = "weights" => c[2] <= top'[c[1]])
  BY ReleaseKeeps
<1>. HIDE DEF C
<1>5. ASSUME NEW c \in Held PROVE MirrorOf(c)'
  <2>1. c \in Chunk /\ c[1] \in Records /\ c[2] \in Nat /\ MirrorOf(c) /\ top'[c[1]] \in Int
    <3>1. CopyDown(C) \/ CopyDownFails(C)
      BY DEF C
    <3>2. C \in SUBSET {e \in Chunk : Lasting(e)}
      BY <1>2, Pendings DEF Copyable
    <3>3. top' \in [Records -> 0..MaxRoom]
      BY <3>1, <3>2, CopyTypes DEF ShapeInv
    <3>. QED
      BY <3>3, ChunkFacts, Pendings DEF ContentInv, Mirrors
  <2>2. c \in Settled' => c \in Settled /\ card'[c] = card[c]
    BY <1>1 DEF Settled
  <2>3. Class(c) = "weights" => \/ c[2] > top'[c[1]] /\ c \in Settled'
                                \/ c[2] <= top'[c[1]] /\ (c \in Settled' => host'[c] = card'[c])
    <3>. SUFFICES ASSUME Class(c) = "weights"
                  PROVE  \/ c[2] > top'[c[1]] /\ c \in Settled'
                         \/ c[2] <= top'[c[1]] /\ (c \in Settled' => host'[c] = card'[c])
      OBVIOUS
    <3>1. CASE c[2] > top'[c[1]]
      <4>1. c \in Settled
        BY <1>3, <2>1, <3>1
      <4>2. c \notin S
        BY <1>4, <2>1, <3>1 DEF Lasting
      <4>. QED
        BY <1>1, <3>1, <4>1, <4>2 DEF Settled
    <3>2. CASE c[2] <= top'[c[1]]
      BY <1>3, <2>1, <2>2, <3>2
    <3>. QED
      BY <2>1, <3>1, <3>2
  <2>4. Lasting(c) /\ c \notin Settled' => host'[c] # Absent
    <3>. SUFFICES ASSUME Lasting(c), c \notin Settled' PROVE host'[c] # Absent
      OBVIOUS
    <3>1. CASE c \in S
      BY <1>4, <3>1
    <3>2. CASE c \notin S
      <4>1. c \notin Settled
        BY <1>1, <3>2 DEF Settled
      <4>2. c \notin C
        BY <1>2, <4>1 DEF Copyable
      <4>. QED
        BY <1>3, <2>1, <4>1, <4>2 DEF MirrorOf
    <3>. QED
      BY <3>1, <3>2
  <2>. QED
    BY <2>3, <2>4 DEF MirrorOf
<1>6. ASSUME NEW c \in op.done PROVE FilledOf(c)'
  <2>1. c \in Chunk /\ FilledOf(c) /\ DevOf[c[1]] \in Devices
    BY ChunkFacts, Pendings DEF ContentInv, Mirrors
  <2>2. host'[c] = host[c] /\ card'[c] = card[c]
    BY <1>1, <1>2, <1>3, <2>1, Pendings
  <2>. QED
    BY <2>1, <2>2 DEF FilledOf
<1>7. ASSUME NEW c \in Held \intersect mapped' PROVE CleanOf(c)'
  <2>1. CleanOf(c) /\ DevOf[c[1]] \in Devices /\ card'[c] = card[c]
    BY <1>1, ChunkFacts, Pendings DEF ContentInv, Clean
  <2>. QED
    BY <2>1 DEF CleanOf
<1>8. \A c \in mapped' : card'[c] # Absent
  BY <1>1 DEF ContentInv, Mirrors
<1>9. Mirrors'
  BY <1>3, <1>5, <1>6, <1>8 DEF ContentInv, Mirrors
<1>. QED
  BY <1>7, <1>9 DEF ContentInv, Clean

LEMMA ContentTake ==
    ASSUME ShapeInv, ContentInv, NEW d \in Devices, NEW g \in Groups, TakeEffect(d, g) PROVE ContentInv'
<1>. DEFINE S == Taken(g, d, 1)
<1>1. S \in SUBSET (mapped \intersect Of(g)) /\ g # op.group
  BY DEF Taken, Mine, TakeEffect, Donors
<1>2. /\ UNCHANGED size /\ UNCHANGED Pending /\ op'.kind = op.kind /\ op'.done = op.done
      /\ \A e \in Devices : op'.at[e] = op.at[e] \/ op'.at[e] # "ok"
  BY DEF TakeEffect, Moves, Pending
<1>3. CASE CopyDown(CopiesOf(S)) /\ Unmap(S)
  <2>. HIDE DEF S
  <2>. QED
    BY <1>1, <1>2, <1>3, ContentRelease
<1>4. CASE CopyDownFails(CopiesOf(S)) /\ UNCHANGED <<mapped, card>>
  <2>. HIDE DEF S
  <2>1. Copyable(CopiesOf(S)) /\ CopiesOf(S) \intersect op.done = {}
    BY <1>1, CopiesAreCopyable
  <2>. QED
    BY <1>2, <1>4, <2>1, ContentCopy
<1>. QED
  BY <1>3, <1>4 DEF TakeEffect

LEMMA ContentPark ==
    ASSUME ShapeInv, ContentInv, NEW g \in Groups, NEW S \in SUBSET (mapped \intersect Of(g)), Park(g, S)
    PROVE  ContentInv'
<1>2. /\ UNCHANGED size /\ UNCHANGED Pending /\ op'.kind = op.kind /\ op'.done = op.done
      /\ \A e \in Devices : op'.at[e] = op.at[e] \/ op'.at[e] # "ok"
      /\ ~Busy
  BY DEF Park, Pending
<1>3. CASE CopyDown(CopiesOf(S)) /\ Unmap(S)
  BY <1>2, <1>3, ContentRelease
<1>4. CASE CopyDownFails(CopiesOf(S)) /\ UNCHANGED <<mapped, card>>
  <2>1. Copyable(CopiesOf(S)) /\ CopiesOf(S) \intersect op.done = {}
    BY <1>2, CopiesAreCopyable
  <2>. QED
    BY <1>2, <1>4, <2>1, ContentCopy
<1>. QED
  BY <1>3, <1>4 DEF Park

LEMMA PrimeIsCopyable ==
    ASSUME ShapeInv, ContentInv, NEW g \in Groups, Prime(g)
    PROVE  \E C : Copyable(C) /\ (CopyDown(C) \/ CopyDownFails(C))
<1>. DEFINE C == {c \in Held \intersect Of(g) : Class(c) = "weights" /\ c[2] > top[c[1]]}
<1>1. CopyDown(C) \/ CopyDownFails(C)
  BY DEF Prime
<1>2. ASSUME NEW c \in C PROVE c \in Held \intersect Settled /\ Lasting(c)
  <2>1. MirrorOf(c) /\ c[2] \in Nat /\ c[1] \in Records /\ top[c[1]] \in Nat
    BY ChunkFacts, Pendings, Sizes DEF ContentInv, Mirrors
  <2>. QED
    BY <2>1 DEF MirrorOf, Lasting
<1>3. ASSUME NEW c \in C, NEW e \in Held, e[1] = c[1], e[2] > top[c[1]] PROVE e \in C
  BY <1>3, Pendings DEF Of, Class
<1>4. Copyable(C)
  BY <1>2, <1>3 DEF Copyable
<1>. QED
  BY <1>1, <1>4

LEMMA ContentPrime ==
    ASSUME ShapeInv, ContentInv, NEW g \in Groups, Prime(g) PROVE ContentInv'
<1>1. PICK C : Copyable(C) /\ (CopyDown(C) \/ CopyDownFails(C))
  BY PrimeIsCopyable
<1>2. UNCHANGED <<size, mapped, card, op>> /\ UNCHANGED Pending /\ op.done = {}
  BY IdleOp DEF Prime, Pending, ShapeInv
<1>. QED
  BY <1>1, <1>2, ContentCopy

LEMMA ContentCreate ==
    ASSUME ShapeInv, ContentInv, UNCHANGED <<size, mapped, card, op, store>> PROVE ContentInv'
<1>. UNCHANGED <<size, mapped, card, op, mirror, top, host>> /\ UNCHANGED Held /\ UNCHANGED Pending /\ UNCHANGED Settled
  BY DEF store, Held, Pending, Settled
<1>1. \A c : CleanOf(c) = CleanOf(c)' /\ MirrorOf(c) = MirrorOf(c)' /\ FilledOf(c) = FilledOf(c)'
  BY DEF CleanOf, MirrorOf, FilledOf
<1>. QED
  BY <1>1 DEF ContentInv, Clean, Mirrors

LEMMA ContentWrite ==
    ASSUME ShapeInv, ContentInv, NEW b \in Chunk, NEW v \in Values, Write(b, v) PROVE ContentInv'
<1>1. /\ UNCHANGED <<size, mapped, op, mirror, top, host>> /\ UNCHANGED Held /\ UNCHANGED Pending /\ UNCHANGED Settled
      /\ op.done = {} /\ b \in Held /\ (Class(b) = "weights" => b[2] > top[b[1]])
      /\ card' = [card EXCEPT ![b] = v] /\ ~Busy
  BY IdleOp DEF Write, store, Held, Pending, Settled, ShapeInv
<1>2. \A c \in Chunk : card'[c] = IF c = b THEN v ELSE card[c]
  BY <1>1 DEF ShapeInv, TypeOK
<1>3. ASSUME NEW c \in Held PROVE MirrorOf(c)'
  <2>1. MirrorOf(c) /\ c[2] \in Nat /\ top[c[1]] \in Nat /\ c \in Chunk
    BY ChunkFacts, Pendings, Sizes DEF ContentInv, Mirrors
  <2>. QED
    BY <1>1, <1>2, <2>1 DEF MirrorOf
<1>4. ASSUME NEW c \in Held \intersect mapped PROVE CleanOf(c)'
  <2>1. CleanOf(c) /\ c \in Chunk
    BY Pendings DEF ContentInv, Clean
  <2>. QED
    BY <1>1, <1>2, <2>1, Distinct DEF CleanOf
<1>5. \A c \in mapped : card'[c] # Absent
  BY <1>2, Distinct, Pendings DEF ContentInv, Mirrors
<1>6. Mirrors'
  BY <1>1, <1>3, <1>5 DEF ContentInv, Mirrors
<1>. QED
  BY <1>1, <1>4, <1>6 DEF ContentInv, Clean

LEMMA FreedIsDropped ==
    ASSUME ShapeInv, NEW r \in Records, FreeBuffer(r)
    PROVE  /\ Held' = {c \in Held : c[1] # r} /\ mapped' = mapped \ {c \in Held : c[1] = r}
           /\ \A c \in Chunk : ~(c \in Held /\ c[1] = r) => card'[c] = card[c] /\ host'[c] = host[c]
           /\ \A q \in Records \ {r} : top'[q] = top[q] /\ size'[q] = size[q]
           /\ top'[r] = 0 /\ size'[r] = 0
           /\ op' = op /\ UNCHANGED Pending /\ Pending = {} /\ op.done = {} /\ ~Busy
<1>1. Held' = {c \in Held : c[1] # r}
  BY ResidencyConstants DEF FreeBuffer, Held, ShapeInv, TypeOK, Chunk
<1>2. /\ mapped' = mapped \ {c \in Held : c[1] = r}
      /\ \A c \in Chunk : ~(c \in Held /\ c[1] = r) => card'[c] = card[c] /\ host'[c] = host[c]
  BY DEF FreeBuffer
<1>3. /\ \A q \in Records \ {r} : top'[q] = top[q] /\ size'[q] = size[q]
      /\ top'[r] = 0 /\ size'[r] = 0
  BY DEF FreeBuffer, ShapeInv, TypeOK
<1>4. op' = op /\ UNCHANGED Pending /\ Pending = {} /\ op.done = {} /\ ~Busy
  BY Pendings DEF FreeBuffer, Pending
<1>. QED
  BY <1>1, <1>2, <1>3, <1>4

LEMMA ContentFree ==
    ASSUME ShapeInv, ContentInv, NEW r \in Records, FreeBuffer(r) PROVE ContentInv'
<1>1. /\ Held' = {c \in Held : c[1] # r} /\ mapped' = mapped \ {c \in Held : c[1] = r}
      /\ \A c \in Chunk : ~(c \in Held /\ c[1] = r) => card'[c] = card[c] /\ host'[c] = host[c]
      /\ \A q \in Records \ {r} : top'[q] = top[q] /\ size'[q] = size[q]
      /\ top'[r] = 0 /\ size'[r] = 0
      /\ op' = op /\ UNCHANGED Pending /\ Pending = {} /\ op.done = {}
  BY FreedIsDropped
<1>2. \A q \in Records : top'[q] <= size'[q]
  BY <1>1 DEF ContentInv, Mirrors
<1>3. ASSUME NEW c \in Held' PROVE MirrorOf(c)'
  <2>1. MirrorOf(c) /\ c[1] \in Records \ {r} /\ c \in Chunk /\ card'[c] = card[c] /\ host'[c] = host[c]
    BY <1>1, ChunkFacts, Pendings DEF ContentInv, Mirrors
  <2>2. (c \in Settled' <=> c \in Settled) /\ top'[c[1]] = top[c[1]]
    BY <1>1, <2>1 DEF Settled
  <2>. QED
    BY <2>1, <2>2 DEF MirrorOf
<1>4. ASSUME NEW c \in Held' \intersect mapped' PROVE CleanOf(c)'
  <2>1. CleanOf(c) /\ c \in Chunk /\ card'[c] = card[c]
    BY <1>1, Pendings DEF ContentInv, Clean
  <2>. QED
    BY <1>1, <2>1 DEF CleanOf
<1>5. \A c \in mapped' : card'[c] # Absent
  BY <1>1, Pendings DEF ContentInv, Mirrors
<1>6. Mirrors'
  BY <1>1, <1>2, <1>3, <1>5 DEF ContentInv, Mirrors
<1>. QED
  BY <1>4, <1>6 DEF ContentInv, Clean

(* An operation begins: what an unpark must bring back is not settled yet. *)
LEMMA ContentBegin ==
    ASSUME ShapeInv, ContentInv, ~Busy, UNCHANGED <<size, mapped, card, store>>,
           op'.done = {}, Pending' \intersect mapped = {}
    PROVE  ContentInv'
<1>1. UNCHANGED <<size, mapped, card, mirror, top, host>> /\ UNCHANGED Held /\ UNCHANGED Settled /\ Pending = {}
  BY Pendings DEF store, Held, Settled
<1>2. \A c : MirrorOf(c) = MirrorOf(c)'
  BY <1>1 DEF MirrorOf
<1>3. \A c : CleanOf(c) => CleanOf(c)'
  BY <1>1 DEF CleanOf
<1>. QED
  BY <1>1, <1>2, <1>3 DEF ContentInv, Clean, Mirrors

LEMMA ContentBeginUnpark ==
    ASSUME ShapeInv, ContentInv, NEW g \in Groups, BeginUnpark(g) PROVE ContentInv'
<1>. DEFINE plan == (Held \ mapped) \intersect Of(g)
<1>1. plan \in SUBSET Chunk /\ Begin("unpark", g, plan) /\ plan \intersect mapped = {}
      /\ ~Busy /\ UNCHANGED <<size, mapped, card, store>>
  BY DEF BeginUnpark, Held
<1>. HIDE DEF plan
<1>2. op'.done = {} /\ Pending' = plan
  BY <1>1, BeginOp DEF Pending
<1>. QED
  BY <1>1, <1>2, ContentBegin

LEMMA ContentBeginAlloc ==
    ASSUME ShapeInv, ContentInv, NEW r \in Records, BeginAlloc(r) PROVE ContentInv'
<1>. DEFINE plan == {c \in Chunk \ Held : c[1] = r /\ (r \in Slabs => c[2] = size[r] + 1)}
<1>1. plan \in SUBSET Chunk /\ Begin("alloc", GroupOf[r], plan) /\ GroupOf[r] \in Groups
      /\ ~Busy /\ UNCHANGED <<size, mapped, card, store>>
  BY ResidencyConstants DEF BeginAlloc
<1>. HIDE DEF plan
<1>2. op'.done = {} /\ Pending' = {}
  BY <1>1, BeginOp DEF Pending
<1>. QED
  BY <1>1, <1>2, ContentBegin

LEMMA ContentCommit ==
    ASSUME ShapeInv, ContentInv, Commit PROVE ContentInv'
<1>0. /\ op' = NoOp /\ UNCHANGED <<mapped, mirror, top, host>> /\ op.kind \in {"unpark", "alloc"}
      /\ op.done = op.plan /\ op.plan \subseteq mapped /\ Pending' = {} /\ op'.done = {}
      /\ \A d \in Devices : op.at[d] = "ok"
  BY PlanIsMapped, NoOpFields DEF Commit, store, Joined, Busy, ShapeInv, TypeOK, OpType, Pending
<1>1. CASE op.kind = "unpark"
  <2>1. UNCHANGED <<size, card>> /\ UNCHANGED Held
    BY <1>1 DEF Commit, Held
  <2>2. ASSUME NEW c \in Held PROVE MirrorOf(c)'
    <3>1. c \in Chunk /\ MirrorOf(c) /\ DevOf[c[1]] \in Devices
      BY ChunkFacts, Pendings DEF ContentInv, Mirrors
    <3>2. c \in Settled => c \in Settled'
      BY <1>0 DEF Settled
    <3>3. c \in Settled' /\ c \notin Settled /\ Lasting(c) => card[c] = host[c]
      BY <1>0, <1>1, <3>1 DEF Settled, Pending, ContentInv, Mirrors, FilledOf
    <3>4. Class(c) = "weights" => Lasting(c)
      BY DEF Lasting
    <3>. QED
      BY <1>0, <2>1, <3>1, <3>2, <3>3, <3>4 DEF MirrorOf
  <2>3. ASSUME NEW c \in Held \intersect mapped PROVE CleanOf(c)'
    <3>1. CleanOf(c) /\ DevOf[c[1]] \in Devices
      BY ChunkFacts, Pendings DEF ContentInv, Clean
    <3>. QED
      BY <1>0, <2>1, <3>1 DEF CleanOf
  <2>4. Mirrors'
    BY <1>0, <2>1, <2>2 DEF ContentInv, Mirrors
  <2>. QED
    BY <1>0, <2>1, <2>3, <2>4 DEF ContentInv, Clean
<1>2. CASE op.kind = "alloc"
  <2>1. /\ Held' = Held \union op.plan /\ Held \intersect op.plan = {}
        /\ size' \in [Records -> 0..MaxRoom] /\ \A r \in Records : size[r] <= size'[r]
    BY <1>2, AllocatedIsHeld
  <2>2. \A c \in Chunk : card'[c] = IF c \in op.plan /\ Class(c) = "scratch" THEN Zero ELSE card[c]
    BY <1>2 DEF Commit
  <2>3. Settled' = mapped /\ Settled = mapped
    BY <1>0, <1>2 DEF Settled, Pending
  <2>4. ASSUME NEW c \in Held' PROVE MirrorOf(c)'
    <3>1. c \in Chunk /\ c[2] \in Nat /\ c[1] \in Records /\ top[c[1]] \in Nat /\ size[c[1]] \in Nat
          /\ top[c[1]] <= size[c[1]]
      BY <2>1, ChunkFacts, Pendings, Sizes DEF ContentInv, Mirrors, ShapeInv, TypeOK, OpType
    <3>2. CASE c \in Held
      <4>1. MirrorOf(c) /\ card'[c] = card[c]
        BY <2>1, <2>2, <3>1, <3>2 DEF ContentInv, Mirrors
      <4>. QED
        BY <1>0, <2>3, <4>1 DEF MirrorOf
    <3>3. CASE c \in op.plan
      <4>1. c[2] > size[c[1]]
        BY <2>1, <3>1, <3>3 DEF Held
      <4>2. c \in Settled' /\ c[2] > top'[c[1]]
        BY <1>0, <2>3, <3>1, <3>3, <4>1
      <4>. QED
        BY <4>2 DEF MirrorOf
    <3>. QED
      BY <2>1, <3>2, <3>3
  <2>5. ASSUME NEW c \in Held' \intersect mapped PROVE CleanOf(c)'
    <3>1. c \in Chunk
      BY Pendings
    <3>2. CASE c \in op.plan
      BY <2>2, <3>1, <3>2, Distinct DEF CleanOf
    <3>3. CASE c \in Held /\ c \notin op.plan
      <4>1. CleanOf(c) /\ card'[c] = card[c] /\ Pending = {}
        BY <1>2, <2>2, <3>1, <3>3 DEF ContentInv, Clean, Pending
      <4>. QED
        BY <4>1 DEF CleanOf
    <3>. QED
      BY <2>1, <3>2, <3>3
  <2>6. \A c \in mapped : card'[c] # Absent
    BY <2>2, Distinct, Pendings DEF ContentInv, Mirrors
  <2>7. \A r \in Records : top'[r] <= size'[r]
    <3>. SUFFICES ASSUME NEW r \in Records PROVE top[r] <= size'[r]
      BY <1>0
    <3>1. top[r] <= size[r] /\ size[r] <= size'[r] /\ size'[r] \in 0..MaxRoom
      BY <2>1 DEF ContentInv, Mirrors
    <3>. QED
      BY <3>1, Sizes
  <2>8. Mirrors'
    BY <1>0, <2>4, <2>6, <2>7 DEF Mirrors
  <2>. QED
    BY <1>0, <2>5, <2>8 DEF ContentInv, Clean
<1>. QED
  BY <1>0, <1>1, <1>2

LEMMA RolledBack ==
    ASSUME ShapeInv, RollBack
    PROVE  /\ UNCHANGED <<place, size, mirror, top, host>> /\ UNCHANGED Held
           /\ op' = NoOp /\ Pending' = {} /\ op'.done = {}
           /\ mapped' \subseteq mapped
           /\ \A c \in mapped' : card'[c] = card[c]
           /\ \A c \in Held : Class(c) # "pool" => (c \in Settled' <=> c \in Settled)
           /\ \A c \in Held \intersect mapped' : Class(c) # "pool" => c \notin Pending
<1>1. UNCHANGED <<place, size, mirror, top, host>> /\ UNCHANGED Held /\ op' = NoOp /\ Pending' = {} /\ op'.done = {}
  BY NoOpFields DEF RollBack, store, Held, Pending
<1>2. op.done \in SUBSET mapped
  BY DEF ShapeInv, OpShape
<1>3. /\ mapped' \subseteq mapped /\ mapped \ op.done \subseteq mapped'
      /\ \A c \in op.done \intersect mapped' : Class(c) = "pool"
      /\ \A c \in mapped' : card'[c] = card[c]
  BY <1>2, UnmapEffect DEF RollBack, ShapeInv
<1>4. Held \intersect op.done \subseteq Pending /\ Pending \intersect mapped \subseteq op.done
  <2>1. CASE op.kind = "unpark"
    BY <2>1, Pendings DEF ShapeInv, OpShape, Pending
  <2>2. CASE op.kind = "alloc"
    BY <2>2 DEF ShapeInv, OpShape, Pending
  <2>. QED
    BY <2>1, <2>2 DEF RollBack, Joined, Busy, ShapeInv, TypeOK
<1>5. \A c \in Held : Class(c) # "pool" => (c \in Settled' <=> c \in Settled)
  BY <1>1, <1>3, <1>4 DEF Settled
<1>6. \A c \in Held \intersect mapped' : Class(c) # "pool" => c \notin Pending
  BY <1>3, <1>4
<1>. QED
  BY <1>1, <1>3, <1>5, <1>6

LEMMA ContentRollBack ==
    ASSUME ShapeInv, ContentInv, RollBack PROVE ContentInv'
<1>1. ASSUME NEW c \in Held PROVE MirrorOf(c)'
  <2>1. MirrorOf(c) /\ (c \in Settled' => card'[c] = card[c])
    BY RolledBack DEF ContentInv, Mirrors, Settled
  <2>2. (Class(c) = "weights" => Lasting(c)) /\ (Lasting(c) => Class(c) # "pool")
    BY DEF Lasting
  <2>3. Class(c) # "pool" => (c \in Settled' <=> c \in Settled)
    BY RolledBack
  <2>4. UNCHANGED <<top, host>>
    BY RolledBack
  <2>. QED
    BY <2>1, <2>2, <2>3, <2>4 DEF MirrorOf
<1>2. ASSUME NEW c \in Held \intersect mapped' PROVE CleanOf(c)'
  <2>1. CleanOf(c) /\ card'[c] = card[c] /\ (Class(c) # "pool" => c \notin Pending)
    BY RolledBack DEF ContentInv, Clean
  <2>. QED
    BY <2>1 DEF CleanOf
<1>3. \A c \in mapped' : card'[c] # Absent
  BY RolledBack DEF ContentInv, Mirrors
<1>4. Mirrors'
  BY <1>1, <1>3, RolledBack DEF ContentInv, Mirrors
<1>. QED
  BY <1>2, <1>4, RolledBack DEF ContentInv, Clean

LEMMA ContentNext == ShapeInv /\ ContentInv /\ [Next]_vars => ContentInv'
<1>. SUFFICES ASSUME ShapeInv, ContentInv, [Next]_vars PROVE ContentInv'
  OBVIOUS
<1>1. CASE ThreadStep
  BY <1>1, ContentStage, ContentFill, ContentMap, ContentTake DEF ThreadStep
<1>2. CASE ParkStep
  BY <1>2, ContentPark DEF ParkStep
<1>3. CASE GroupStep
  <2>1. ASSUME NEW g \in Groups, Create(g) PROVE ContentInv'
    BY <2>1, ContentCreate DEF Create
  <2>. QED
    BY <1>3, <2>1, ContentPrime, ContentBeginUnpark, ContentBeginAlloc, ContentFree, ContentWrite DEF GroupStep
<1>4. CASE UNCHANGED vars
  BY <1>4, ContentCreate DEF vars, store
<1>. QED
  BY <1>1, <1>2, <1>3, <1>4, ContentCommit, ContentRollBack, StepCases DEF ShapeInv

(* The mirrors and the cards together never lose a chunk: commit_down,     *)
(* mirror_top and the copies back agree through every step.                *)
THEOREM ContentInvariance == Spec => [](ShapeInv /\ ContentInv)
BY ShapeInit, ShapeNext, ContentInit, ContentNext, PTL DEF Spec

(* The memset of an unpark and of a new compute buffer: a group on the     *)
(* cards never reads fresh memory in one.                                  *)
THEOREM ComputeBuffersAreCleared == Spec => []ScratchIsClean
<1>1. ShapeInv /\ ContentInv => ScratchIsClean
  <2>. SUFFICES ASSUME ShapeInv, ContentInv, NEW c \in Held, Class(c) = "scratch", place[GroupOf[c[1]]] = "cards"
                PROVE  card[c] # Undefined
    BY DEF ScratchIsClean
  <2>1. c \in mapped
    BY DEF ShapeInv, OnCardsIsWhole
  <2>2. c \notin Pending
    BY Pendings DEF Pending, Of, ShapeInv, OpShape
  <2>. QED
    BY <2>1, <2>2 DEF ContentInv, Clean, CleanOf
<1>. QED
  BY <1>1, ContentInvariance, PTL

-----------------------------------------------------------------------------
(* The refinement: every step of Residency is a step of ModelMemory, or    *)
(* leaves what ModelMemory sees as it was.                                 *)
Live == {g \in Groups : place[g] = "cards"}

ContentOf(c) == IF c \notin Held \/ ~Lasting(c) THEN Absent
                ELSE IF c \in Settled THEN card[c] ELSE host[c]

LEMMA ContentsAreThese == Contents = [c \in Chunk |-> ContentOf(c)]
BY DEF Contents, ContentOf, Settled

LEMMA Unmoved ==
    ASSUME UNCHANGED place, \A c \in Chunk : ContentOf(c)' = ContentOf(c)
    PROVE  UNCHANGED Contents /\ UNCHANGED Live
<1>1. Contents' = [c \in Chunk |-> ContentOf(c)']
  BY DEF Contents, ContentOf, Settled, Chunk
<1>. QED
  BY <1>1, ContentsAreThese DEF Live

LEMMA StageStutters ==
    ASSUME NEW d \in Devices, StageEffect(d)
    PROVE  UNCHANGED Contents /\ UNCHANGED Live
<1>1. UNCHANGED <<place, size, mapped, mirror, top, card, host>> /\ UNCHANGED Held /\ UNCHANGED Settled
  BY DEF StageEffect, Moves, store, Held, Settled, Pending
<1>. QED
  BY <1>1, Unmoved DEF ContentOf

LEMMA MapStutters ==
    ASSUME ShapeInv, NEW d \in Devices, NEW b \in Chunk, MapEffect(d, b)
    PROVE  UNCHANGED Contents /\ UNCHANGED Live
<1>1. /\ UNCHANGED <<place, size, host>> /\ UNCHANGED Held
      /\ mapped' = mapped \union {b} /\ card' = [card EXCEPT ![b] = Undefined]
      /\ UNCHANGED Pending /\ b \in op.plan
  BY DEF MapEffect, Moves, store, Held, Pending, NextUp, Todo, On
<1>2. \A c \in Chunk : card'[c] = IF c = b THEN Undefined ELSE card[c]
  BY <1>1 DEF ShapeInv, TypeOK
<1>3. b \in Held => b \in Pending
  BY <1>1, NoOpFields DEF ShapeInv, OpShape, Pending, TypeOK
<1>. QED
  BY <1>1, <1>2, <1>3, Unmoved DEF ContentOf, Settled

LEMMA FillStutters ==
    ASSUME ShapeInv, NEW d \in Devices, FillEffect(d)
    PROVE  UNCHANGED Contents /\ UNCHANGED Live
<1>1. UNCHANGED <<place, size, mapped, host>> /\ UNCHANGED Held /\ UNCHANGED Pending /\ UNCHANGED Settled
  BY DEF FillEffect, Moves, store, Held, Pending, Settled
<1>2. \A c \in Chunk : c \in Settled => card'[c] = card[c]
  BY DEF FillEffect, Pending, Settled
<1>. QED
  BY <1>1, <1>2, Unmoved DEF ContentOf

LEMMA CopyContents ==
    ASSUME ShapeInv, ContentInv, NEW C, Copyable(C), CopyDown(C) \/ CopyDownFails(C),
           UNCHANGED <<size, mapped, card>>, UNCHANGED Pending, NEW c \in Chunk
    PROVE  ContentOf(c)' = ContentOf(c)
<1>1. UNCHANGED Held /\ UNCHANGED Settled
  BY DEF Held, Settled
<1>2. c \notin Settled => host'[c] = host[c]
  BY CopyKeeps DEF Copyable
<1>. QED
  BY <1>1, <1>2 DEF ContentOf

LEMMA ReleaseContents ==
    ASSUME ShapeInv, ContentInv, NEW g \in Groups, ~Busy \/ g # op.group,
           NEW S \in SUBSET (mapped \intersect Of(g)), CopyDown(CopiesOf(S)), Unmap(S),
           UNCHANGED size, UNCHANGED Pending, NEW c \in Chunk
    PROVE  ContentOf(c)' = ContentOf(c)
<1>0. UNCHANGED Held /\ S \in SUBSET mapped
  BY DEF Held
<1>1. /\ mapped' \subseteq mapped /\ mapped \ S \subseteq mapped'
      /\ \A e \in S \intersect mapped' : Class(e) = "pool"
      /\ \A e \in mapped' : card'[e] = card[e]
  BY <1>0, UnmapEffect DEF ShapeInv
<1>2. c \in Settled' => c \in Settled /\ card'[c] = card[c]
  BY <1>1 DEF Settled
<1>3. c \in Settled /\ c \notin Settled' /\ Lasting(c) => host'[c] = card[c]
  <2>1. c \in Settled /\ c \notin Settled' => c \in S
    BY <1>1 DEF Settled
  <2>. QED
    BY <2>1, ReleaseKeeps
<1>4. c \notin Settled => host'[c] = host[c]
  <2>1. Copyable(CopiesOf(S))
    BY CopiesAreCopyable
  <2>. QED
    BY <2>1, CopyKeeps DEF Copyable
<1>. QED
  BY <1>0, <1>2, <1>3, <1>4 DEF ContentOf

LEMMA TakeStutters ==
    ASSUME ShapeInv, ContentInv, NEW d \in Devices, NEW g \in Groups, TakeEffect(d, g)
    PROVE  UNCHANGED Contents /\ UNCHANGED Live
<1>. DEFINE S == Taken(g, d, 1)
<1>1. S \in SUBSET (mapped \intersect Of(g)) /\ g # op.group
  BY DEF Taken, Mine, TakeEffect, Donors
<1>2. UNCHANGED <<place, size>> /\ UNCHANGED Pending
  BY DEF TakeEffect, Moves, Pending
<1>3. CASE CopyDown(CopiesOf(S)) /\ Unmap(S)
  <2>. HIDE DEF S
  <2>. QED
    BY <1>1, <1>2, <1>3, ReleaseContents, Unmoved
<1>4. CASE CopyDownFails(CopiesOf(S)) /\ UNCHANGED <<mapped, card>>
  <2>. HIDE DEF S
  <2>1. Copyable(CopiesOf(S))
    BY <1>1, CopiesAreCopyable
  <2>. QED
    BY <1>2, <1>4, <2>1, CopyContents, Unmoved
<1>. QED
  BY <1>3, <1>4 DEF TakeEffect

LEMMA PrimeStutters ==
    ASSUME ShapeInv, ContentInv, NEW g \in Groups, Prime(g)
    PROVE  UNCHANGED Contents /\ UNCHANGED Live
<1>1. PICK C : Copyable(C) /\ (CopyDown(C) \/ CopyDownFails(C))
  BY PrimeIsCopyable
<1>2. UNCHANGED <<place, size, mapped, card, op>> /\ UNCHANGED Pending
  BY DEF Prime, Pending
<1>. QED
  BY <1>1, <1>2, CopyContents, Unmoved

LEMMA ParkLeaves ==
    ASSUME ShapeInv, ContentInv, NEW g \in Groups, NEW S \in SUBSET (mapped \intersect Of(g)), Park(g, S)
    PROVE  Memory!Leave \/ (UNCHANGED Contents /\ UNCHANGED Live)
<1>1. /\ ~Busy /\ UNCHANGED size /\ UNCHANGED Pending
  BY DEF Park, Pending
<1>2. CASE CopyDown(CopiesOf(S)) /\ Unmap(S) /\ place' = [place EXCEPT ![g] = "parked"]
  <2>1. \A c \in Chunk : ContentOf(c)' = ContentOf(c)
    BY <1>1, <1>2, ReleaseContents
  <2>2. UNCHANGED Contents
    <3>1. Contents' = [c \in Chunk |-> ContentOf(c)']
      BY DEF Contents, ContentOf, Settled, Chunk
    <3>. QED
      BY <2>1, <3>1, ContentsAreThese
  <2>3. Live' = Live \ {g}
    BY <1>2 DEF Live, ShapeInv, TypeOK
  <2>4. g \in Live => Live = {g}
    BY DEF Live, ShapeInv, Residents
  <2>5. Live' = {} \/ Live' = Live
    BY <2>3, <2>4
  <2>. QED
    BY <2>2, <2>5 DEF Memory!Leave, Live
<1>3. CASE CopyDownFails(CopiesOf(S)) /\ UNCHANGED <<place, mapped, card>>
  <2>1. Copyable(CopiesOf(S))
    BY <1>1, CopiesAreCopyable
  <2>. QED
    BY <1>1, <1>3, <2>1, CopyContents, Unmoved
<1>. QED
  BY <1>2, <1>3 DEF Park

LEMMA CreateEnters ==
    ASSUME ShapeInv, NEW g \in Groups, Create(g) PROVE Memory!Enter(g)
<1>1. UNCHANGED <<size, mapped, card, op, mirror, top, host>>
  BY DEF Create, store
<1>2. UNCHANGED Contents
  BY <1>1 DEF Contents, Held, Pending
<1>3. Live = {} /\ Live' = {g}
  BY DEF Create, NoneOnCards, Live, ShapeInv, TypeOK
<1>. QED
  BY <1>2, <1>3 DEF Memory!Enter, Live

LEMMA WriteWrites ==
    ASSUME ShapeInv, ContentInv, NEW b \in Chunk, NEW v \in Values, Write(b, v)
    PROVE  Memory!Write(b, v) \/ (UNCHANGED Contents /\ UNCHANGED Live)
<1>1. /\ UNCHANGED <<place, size, mapped, op, host>> /\ UNCHANGED Held /\ UNCHANGED Pending /\ UNCHANGED Settled
      /\ b \in Held /\ Pending = {} /\ place[GroupOf[b[1]]] = "cards"
  BY Pendings DEF Write, store, Held, Pending, Settled
<1>2. \A c \in Chunk : card'[c] = IF c = b THEN v ELSE card[c]
  BY DEF ShapeInv, TypeOK, Write
<1>3. b \in mapped /\ b \in Settled
  BY <1>1 DEF ShapeInv, OnCardsIsWhole, Settled
<1>4. CASE ~Lasting(b)
  <2>1. \A c \in Chunk : ContentOf(c)' = ContentOf(c)
    BY <1>1, <1>2, <1>4 DEF ContentOf
  <2>. QED
    BY <1>1, <2>1, Unmoved
<1>5. CASE Lasting(b)
  <2>1. \A c \in Chunk : ContentOf(c)' = IF c = b THEN v ELSE ContentOf(c)
    BY <1>1, <1>2, <1>3, <1>5 DEF ContentOf
  <2>2. Contents' = [c \in Chunk |-> ContentOf(c)']
    BY DEF Contents, ContentOf, Settled, Chunk
  <2>3. Contents' = [Contents EXCEPT ![b] = v]
    BY <2>1, <2>2, ContentsAreThese
  <2>4. Contents[b] # Absent
    BY <1>1, <1>3, <1>5, ContentsAreThese DEF ContentOf, ContentInv, Mirrors
  <2>5. OwnerOf(b) \in Live /\ UNCHANGED Live
    BY <1>1, ChunkFacts DEF Live, OwnerOf
  <2>. QED
    BY <2>3, <2>4, <2>5 DEF Memory!Write, Live
<1>. QED
  BY <1>4, <1>5

LEMMA FreeDrops ==
    ASSUME ShapeInv, NEW r \in Records, FreeBuffer(r)
    PROVE  Memory!Drop({c \in Held : c[1] = r})
<1>. DEFINE S == {c \in Held : c[1] = r}
<1>1. /\ Held' = Held \ S /\ mapped' = mapped \ S /\ UNCHANGED Pending /\ Pending = {}
      /\ \A c \in Chunk : c \notin S => card'[c] = card[c] /\ host'[c] = host[c]
      /\ UNCHANGED place
  BY FreedIsDropped DEF FreeBuffer
<1>. HIDE DEF S
<1>2. \A c \in Chunk : ContentOf(c)' = IF c \in S THEN Absent ELSE ContentOf(c)
  BY <1>1 DEF ContentOf, Settled
<1>3. Contents' = [c \in Chunk |-> ContentOf(c)']
  BY DEF Contents, ContentOf, Settled, Chunk
<1>4. Contents' = [c \in Chunk |-> IF c \in S THEN Absent ELSE Contents[c]]
  BY <1>2, <1>3, ContentsAreThese
<1>5. UNCHANGED Live
  BY <1>1 DEF Live
<1>. QED
  BY <1>4, <1>5 DEF Memory!Drop, Live, S

LEMMA BeginStutters ==
    ASSUME ShapeInv, ~Busy, UNCHANGED <<place, size, mapped, card, store>>, Pending' \intersect mapped = {}
    PROVE  UNCHANGED Contents /\ UNCHANGED Live
<1>1. UNCHANGED <<place, size, mapped, card, mirror, top, host>> /\ UNCHANGED Held /\ UNCHANGED Settled
  BY Pendings DEF store, Held, Settled
<1>. QED
  BY <1>1, Unmoved DEF ContentOf

LEMMA CommitEnters ==
    ASSUME ShapeInv, ContentInv, Commit
    PROVE  (\E g \in Groups : Memory!Enter(g)) \/ \E S \in SUBSET Chunk : Memory!Grow(S)
<1>0. /\ UNCHANGED <<mapped, host>> /\ op.kind \in {"unpark", "alloc"}
      /\ op.done = op.plan /\ op.plan \subseteq mapped /\ op.plan \subseteq Chunk /\ Pending' = {}
      /\ \A d \in Devices : op.at[d] = "ok"
  BY PlanIsMapped, NoOpFields DEF Commit, store, Joined, Busy, ShapeInv, TypeOK, OpType, Pending
<1>1. Contents' = [c \in Chunk |-> ContentOf(c)']
  BY DEF Contents, ContentOf, Settled, Chunk
<1>2. CASE op.kind = "unpark"
  <2>1. UNCHANGED <<size, card>> /\ UNCHANGED Held /\ op.group \in Groups /\ NoneOnCards
        /\ place' = [place EXCEPT ![op.group] = "cards"]
    BY <1>2 DEF Commit, Held, ShapeInv, OpShape
  <2>2. ASSUME NEW c \in Chunk PROVE ContentOf(c)' = ContentOf(c)
    <3>1. c \in Settled => c \in Settled'
      BY <1>0 DEF Settled
    <3>2. c \in Settled' /\ c \notin Settled /\ Lasting(c) => card[c] = host[c]
      BY <1>0, <1>2, ChunkFacts DEF Settled, Pending, ContentInv, Mirrors, FilledOf
    <3>. QED
      BY <1>0, <2>1, <3>1, <3>2 DEF ContentOf
  <2>3. UNCHANGED Contents
    BY <1>1, <2>2, ContentsAreThese
  <2>4. Live = {} /\ Live' = {op.group}
    BY <2>1 DEF NoneOnCards, Live, ShapeInv, TypeOK
  <2>5. PICK g \in Groups : g = op.group
    BY <2>1
  <2>6. Memory!Enter(g)
    BY <2>3, <2>4, <2>5 DEF Memory!Enter, Live
  <2>. QED
    BY <2>6
<1>3. CASE op.kind = "alloc"
  <2>. DEFINE S == {c \in op.plan : Lasting(c)}
  <2>1. /\ Held' = Held \union op.plan /\ Held \intersect op.plan = {}
    BY <1>3, AllocatedIsHeld
  <2>2. \A c \in Chunk : card'[c] = IF c \in op.plan /\ Class(c) = "scratch" THEN Zero ELSE card[c]
    BY <1>3 DEF Commit
  <2>3. Settled' = mapped /\ Settled = mapped
    BY <1>0, <1>3 DEF Settled, Pending
  <2>4. \A c \in S : card[c] = Undefined
    BY <1>0, <1>3 DEF ContentInv, Mirrors, FilledOf
  <2>5. ASSUME NEW c \in Chunk PROVE ContentOf(c)' = IF c \in S THEN Undefined ELSE ContentOf(c)
    BY <1>0, <2>1, <2>2, <2>3, <2>4 DEF ContentOf, Lasting
  <2>6. Contents' = [c \in Chunk |-> IF c \in S THEN Undefined ELSE Contents[c]]
    <3>. HIDE DEF S
    <3>. QED BY <1>1, <2>5, ContentsAreThese
  <2>7. \A c \in S : OwnerOf(c) \in Live /\ Contents[c] = Absent
    <3>. SUFFICES ASSUME NEW c \in S PROVE OwnerOf(c) \in Live /\ Contents[c] = Absent
      OBVIOUS
    <3>1. c \in Chunk /\ c \notin Held /\ GroupOf[c[1]] = op.group
      BY <1>0, <2>1 DEF ShapeInv, OpShape, Of
    <3>2. op.group \in Groups /\ place[op.group] = "cards"
      BY <1>3 DEF ShapeInv, OpShape
    <3>. QED
      BY <3>1, <3>2, ContentsAreThese DEF ContentOf, Live, OwnerOf
  <2>8. UNCHANGED Live
    BY <1>3 DEF Commit, Live
  <2>9. Memory!Grow(S) /\ S \in SUBSET Chunk
    <3>. HIDE DEF S
    <3>1. Memory!Grow(S)
      BY <2>6, <2>7, <2>8 DEF Memory!Grow, Live
    <3>. QED
      BY <1>0, <3>1 DEF S
  <2>. QED
    BY <2>9
<1>. QED
  BY <1>0, <1>2, <1>3

LEMMA RollBackStutters ==
    ASSUME ShapeInv, RollBack PROVE UNCHANGED Contents /\ UNCHANGED Live
<1>1. ASSUME NEW c \in Chunk PROVE ContentOf(c)' = ContentOf(c)
  <2>1. UNCHANGED host /\ UNCHANGED Held /\ (c \in Settled' => card'[c] = card[c])
    BY RolledBack DEF Settled
  <2>2. c \in Held /\ Lasting(c) => (c \in Settled' <=> c \in Settled)
    BY RolledBack DEF Lasting
  <2>. QED
    BY <2>1, <2>2 DEF ContentOf
<1>. QED
  BY <1>1, Unmoved, RolledBack

LEMMA RefinesInit == Init => Memory!Init
<1>. SUFFICES ASSUME Init PROVE Memory!Init
  OBVIOUS
<1>1. Held = {} /\ Live = {}
  BY DEF Init, Held, Chunk, Live
<1>2. Contents = [c \in Chunk |-> Absent]
  BY <1>1 DEF Contents
<1>. QED
  BY <1>1, <1>2 DEF Memory!Init, Live

LEMMA RefinesNext == ShapeInv /\ ContentInv /\ [Next]_vars => [Memory!Next]_(Memory!memoryVars)
<1>. SUFFICES ASSUME ShapeInv, ContentInv, [Next]_vars PROVE Memory!Next \/ UNCHANGED Memory!memoryVars
  OBVIOUS
<1>0. UNCHANGED Contents /\ UNCHANGED Live => UNCHANGED Memory!memoryVars
  BY DEF Memory!memoryVars, Live
<1>1. CASE ThreadStep
  BY <1>0, <1>1, StageStutters, FillStutters, MapStutters, TakeStutters DEF ThreadStep
<1>2. CASE ParkStep
  BY <1>0, <1>2, ParkLeaves DEF ParkStep, Memory!Next
<1>3. CASE GroupStep
  <2>1. ASSUME NEW g \in Groups, Create(g) PROVE Memory!Next
    BY <2>1, CreateEnters DEF Memory!Next
  <2>2. ASSUME NEW g \in Groups, Prime(g) PROVE UNCHANGED Memory!memoryVars
    BY <1>0, <2>2, PrimeStutters
  <2>3. ASSUME NEW g \in Groups, BeginUnpark(g) PROVE UNCHANGED Memory!memoryVars
    <3>. DEFINE plan == (Held \ mapped) \intersect Of(g)
    <3>1. plan \in SUBSET Chunk /\ Begin("unpark", g, plan) /\ plan \intersect mapped = {}
          /\ ~Busy /\ UNCHANGED <<place, size, mapped, card, store>>
      BY <2>3 DEF BeginUnpark, Held
    <3>. HIDE DEF plan
    <3>2. Pending' = plan
      BY <3>1, BeginOp DEF Pending
    <3>. QED
      BY <1>0, <3>1, <3>2, BeginStutters
  <2>4. ASSUME NEW r \in Records, BeginAlloc(r) PROVE UNCHANGED Memory!memoryVars
    <3>. DEFINE plan == {c \in Chunk \ Held : c[1] = r /\ (r \in Slabs => c[2] = size[r] + 1)}
    <3>1. plan \in SUBSET Chunk /\ Begin("alloc", GroupOf[r], plan) /\ GroupOf[r] \in Groups
          /\ ~Busy /\ UNCHANGED <<place, size, mapped, card, store>>
      BY <2>4, ResidencyConstants DEF BeginAlloc
    <3>. HIDE DEF plan
    <3>2. Pending' = {}
      BY <3>1, BeginOp DEF Pending
    <3>. QED
      BY <1>0, <3>1, <3>2, BeginStutters
  <2>5. ASSUME NEW r \in Records, FreeBuffer(r) PROVE Memory!Next
    <3>1. {c \in Held : c[1] = r} \in SUBSET Chunk
      BY DEF Held
    <3>. QED
      BY <2>5, <3>1, FreeDrops DEF Memory!Next
  <2>6. ASSUME NEW c \in Chunk, NEW v \in Values, Write(c, v) PROVE Memory!Next \/ UNCHANGED Memory!memoryVars
    BY <1>0, <2>6, WriteWrites DEF Memory!Next
  <2>. QED
    BY <1>3, <2>1, <2>2, <2>3, <2>4, <2>5, <2>6 DEF GroupStep
<1>4. CASE Commit
  BY <1>4, CommitEnters DEF Memory!Next
<1>5. CASE RollBack
  BY <1>0, <1>5, RollBackStutters
<1>6. CASE UNCHANGED vars
  <2>1. UNCHANGED <<place, size, mapped, card, host, op>>
    BY <1>6 DEF vars
  <2>2. UNCHANGED Contents /\ UNCHANGED Live
    BY <2>1 DEF Contents, Live, Held, Pending
  <2>. QED
    BY <1>0, <2>2
<1>. QED
  BY <1>1, <1>2, <1>3, <1>4, <1>5, <1>6, StepCases DEF ShapeInv

(* park, park_for, prime, reclaim and unpark, with every failure of them:  *)
(* a model finds its weights and its state as it last wrote them.          *)
THEOREM KeepsModelMemory == Spec => ImplementsModelMemory
BY RefinesInit, RefinesNext, ContentInvariance, PTL DEF Spec, ImplementsModelMemory, Memory!Spec
=============================================================================
