----------------------------- MODULE PromptCache -----------------------------
(***************************************************************************)
(* What the KV caches promise the slots of the server, without cells: each *)
(* slot holds a set of positions of its own.  A decode only adds positions *)
(* beyond the ones a slot holds; everything else edits one slot, and       *)
(* leaves what every other slot holds alone.                               *)
(***************************************************************************)
EXTENDS Integers

CONSTANTS Slots, MaxPos

VARIABLE held

Positions == 0..MaxPos
Below(s, p) == {q \in held[s] : q < p}

TypeOK == held \in [Slots -> SUBSET Positions]

Init == held = [s \in Slots |-> {}]

Extend ==
    /\ held' \in [Slots -> SUBSET Positions]
    /\ \A s \in Slots :
          /\ held[s] \subseteq held'[s]
          /\ \A p \in held'[s] \ held[s], q \in held[s] : q < p

\* Everything else edits what one slot holds and nothing of the others; the
\* two ways follow.
Edits(s) ==
    /\ held' \in [Slots -> SUBSET Positions]
    /\ \A t \in Slots \ {s} : held'[t] = held[t]

\* The positions [keep, keep + d) go and the later ones move down; what is then
\* at or beyond p goes too.  (A trim has d = 0, a pure shift p = MaxPos + 1.)
Moved(s, keep, d) ==
    Below(s, keep) \cup {q - d : q \in held[s] \ Below(s, keep + d)}
Slide(s, keep, d, p) == held'[s] = {q \in Moved(s, keep, d) : q < p}

\* A slot takes over a prefix that another one holds.
Take(s, t, p) ==
    held'[s] = 0..(p - 1) /\ 0..(p - 1) \subseteq held[t]

Next ==
    \/ Extend
    \/ \E s \in Slots :
          /\ Edits(s)
          /\ \/ \E t \in Slots, p \in Positions : Take(s, t, p)
             \/ \E keep, p \in 0..(MaxPos + 1) :
                   \E d \in 0..(MaxPos + 1 - keep) : Slide(s, keep, d, p)

Spec == Init /\ [][Next]_held
=============================================================================
