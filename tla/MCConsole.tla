----------------------------- MODULE MCConsole -----------------------------
(* Finite instances of Console: a read that both servers know, and a       *)
(* command that is a write on the newer server only.                       *)
EXTENDS Console

CONSTANTS get, set, old, new

MCWrites == [s \in {old, new} |-> IF s = new THEN {set} ELSE {}]
=============================================================================
