----------------------------- MODULE MCKeyTree -----------------------------
(* Finite instances of KeyTree.                                            *)
EXTENDS KeyTree

CONSTANTS e, u, v, w

\* "u", "u:v", "u:v:w", "u:v:u": a key that is also a folder, keys beyond the
\* fold level, folders sharing keys; "u::v", ":u:v", ":u": empty parts.
MixedKeys == {<<u>>, <<u, v>>, <<u, v, w>>, <<u, v, u>>, <<u, e, v>>, <<e, u, v>>, <<e, u>>}
=============================================================================
