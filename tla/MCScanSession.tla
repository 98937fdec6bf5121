--------------------------- MODULE MCScanSession ---------------------------
(* Finite instances of ScanSession.                                        *)
EXTENDS ScanSession, TLC

CONSTANTS a, b, star, aOnly, p1

\* Every server holds every key; or any keys.
FullServers == {[p \in Profiles |-> Keys]}
OneFull == {[p \in Profiles |-> IF p = p1 THEN Keys ELSE {}]}
AnyServers == [Profiles -> SUBSET Keys]

MCMatch == [p \in {star, aOnly} |-> IF p = star THEN {a, b} ELSE {a}]
=============================================================================
