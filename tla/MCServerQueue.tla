---------------------------- MODULE MCServerQueue ----------------------------
(* Small instances of ServerQueue: a batch request of two tasks and a      *)
(* request of one, or requests of one each, over one or two slots; one     *)
(* request may ask for a slot there is none of.                            *)
EXTENDS ServerQueue

CONSTANTS a, b, c, a1, a2, b1, c1, s1, s2, NoSuchSlot

BatchAndOne == [r \in {a, b} |-> IF r = a THEN <<a1, a2>> ELSE <<b1>>]
OneEach     == [r \in {a, b, c} |-> IF r = a THEN <<a1>> ELSE IF r = b THEN <<b1>> ELSE <<c1>>]

NoPins   == [t \in {a1, a2, b1} |-> AnySlot]
BatchPin == [t \in {a1, a2, b1} |-> IF t = b1 THEN AnySlot ELSE s1]
WrongPin == [t \in {a1, b1, c1} |-> IF t = c1 THEN NoSuchSlot ELSE AnySlot]
=============================================================================
