----------------------------- MODULE ModelMemory -----------------------------
(***************************************************************************)
(* What a residency group promises a model (pxa-residency.h, header        *)
(* comment): its weights and its state hold what it last wrote, however    *)
(* often it was parked; it can use them only while it is on the cards, and *)
(* one model is.  Nothing is said of cards, mirrors or copies.  Residency  *)
(* is shown to implement this module.                                      *)
(***************************************************************************)
CONSTANTS Chunk,      \* the pieces of memory a model may hold
          Groups,
          Owner(_),   \* the group of a chunk
          Values, Undefined, Absent

VARIABLES content,    \* of each chunk, Absent where there is none
          live        \* the groups that may use their memory

memoryVars == <<content, live>>

Init ==
    /\ content = [c \in Chunk |-> Absent]
    /\ live = {}

Write(c, v) ==
    /\ Owner(c) \in live /\ content[c] # Absent
    /\ content' = [content EXCEPT ![c] = v]
    /\ UNCHANGED live

Grow(S) ==
    /\ \A c \in S : Owner(c) \in live /\ content[c] = Absent
    /\ content' = [c \in Chunk |-> IF c \in S THEN Undefined ELSE content[c]]
    /\ UNCHANGED live

(* A buffer is freed, whether its model is on the cards or not. *)
Drop(S) ==
    /\ content' = [c \in Chunk |-> IF c \in S THEN Absent ELSE content[c]]
    /\ UNCHANGED live

Enter(g) == live = {} /\ live' = {g} /\ UNCHANGED content
Leave    == live' = {} /\ UNCHANGED content

Next ==
    \/ \E c \in Chunk, v \in Values : Write(c, v)
    \/ \E S \in SUBSET Chunk : Grow(S) \/ Drop(S)
    \/ \E g \in Groups : Enter(g)
    \/ Leave

Spec == Init /\ [][Next]_memoryVars
=============================================================================
