---------------------------- MODULE MCSelection ----------------------------
(* Finite instances of Selection.                                          *)
EXTENDS Selection

CONSTANTS a, b, c, d, e, f

FiveKeys == <<a, b, c, d, e>>
ThreeKeys == <<a, b, c>>
TwoKeys == <<a, b>>
=============================================================================
