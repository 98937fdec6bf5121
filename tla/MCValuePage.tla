---------------------------- MODULE MCValuePage ----------------------------
(* Finite instances of ValuePage, with pages of two.                       *)
EXTENDS ValuePage

Five == [k \in Kinds |-> IF k = "list" THEN <<1, 2, 1, 2, 1>> ELSE <<1, 2, 3, 4, 5>>]
Four == [k \in Kinds |-> IF k = "list" THEN <<1, 2, 1, 2>> ELSE <<1, 2, 3, 4>>]
=============================================================================
