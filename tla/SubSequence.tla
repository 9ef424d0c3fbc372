----------------------------- MODULE SubSequence -----------------------------
(* The elements of a sequence at a set of its indices, in their order: what *)
(* is left of a queue when an erase-remove has been over it.  Stated by the *)
(* rank of an index and not by recursion, so that it can be reasoned about. *)
EXTENDS Naturals, Sequences, FiniteSets

SubSequence(q, I) ==
    [j \in 1..Cardinality(I) |->
        q[CHOOSE i \in I : Cardinality({k \in I : k <= i}) = j]]
=============================================================================
