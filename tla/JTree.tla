------------------------------- MODULE JTree -------------------------------
(***************************************************************************)
(* The value tree of jtree/jtree.go, and the search in it of               *)
(* app/valuepane.go (collectMatches, expandTo).                            *)
(*                                                                         *)
(* A document is a function from the paths of its nodes to what a node     *)
(* holds: << >> is the root, and Append(p, i) the i-th child of p.  The    *)
(* fields Expanded and Inline, which are about the display, are a second   *)
(* function on the same paths, so that Marshal is what is left of a        *)
(* document.  A text is a model value; JSONOf says which texts are a JSON  *)
(* value, and which.                                                       *)
(***************************************************************************)
EXTENDS Integers, Sequences, FiniteSets, SequencesExt

CONSTANTS
  Texts,     \* what the user may type
  Long,      \* a text that does not fit a one-line preview
  JSONOf     \* the documents that the valid ones stand for

NoDoc == << >>   \* nil: no node, not even a root

Branches == {"object", "array"}
IsBranch(t, p) == t[p].kind \in Branches

Kids(t, p) == {q \in DOMAIN t : Len(q) = Len(p) + 1 /\ IsPrefix(p, q)}

\* A tree: what is above a node is there, and is a branch.
Document(t) ==
  /\ IsFiniteSet(DOMAIN t) /\ DOMAIN t \subseteq Seq(Nat \ {0}) /\ << >> \in DOMAIN t
  /\ t = [p \in DOMAIN t |-> [kind |-> t[p].kind, label |-> t[p].label, value |-> t[p].value]]
  /\ \A p \in DOMAIN t : \A n \in 0 .. Len(p) - 1 :
       SubSeq(p, 1, n) \in DOMAIN t /\ IsBranch(t, SubSeq(p, 1, n))

\* inlinePreview: a container of scalars that fits one line.
Flat(t, p) ==
  /\ IsBranch(t, p) /\ Kids(t, p) # {}
  /\ \A k \in Kids(t, p) : ~IsBranch(t, k) /\ t[k].value # Long

\* The display of a parsed document (tokenNode, markInline).
Parsed(t) == [p \in DOMAIN t |-> [expanded |-> IsBranch(t, p), inline |-> Flat(t, p)]]

\* Node.Toggle: inline, expanded, collapsed and inline again; a container
\* that is not flat is expanded or collapsed.
Toggled(t, f, p) ==
  IF ~Flat(t, p) THEN [f EXCEPT ![p].expanded = ~@]
  ELSE IF f[p].inline THEN [f EXCEPT ![p] = [expanded |-> TRUE, inline |-> FALSE]]
  ELSE IF f[p].expanded THEN [f EXCEPT ![p].expanded = FALSE]
  ELSE [f EXCEPT ![p].inline = TRUE]

\* Depth first.
Before(p, q) ==
  \/ IsStrictPrefix(p, q)
  \/ \E i \in DOMAIN p \cap DOMAIN q : p[i] < q[i] /\ \A j \in 1 .. i - 1 : p[j] = q[j]

\* Whether walk descends into a branch.
Descended(t, f, p) == f[p].expanded /\ ~(f[p].inline /\ Flat(t, p))

\* A set of paths in the order of the tree (SetToSortSeq, but by rank).
InOrder(S) ==
  LET rank == [p \in S |-> Cardinality({q \in S : Before(q, p)})]
  IN  [i \in 1 .. Cardinality(S) |-> CHOOSE p \in S : rank[p] = i - 1]

Ancestors(p) == {SubSeq(p, 1, n) : n \in 1 .. Len(p) - 1}

\* Rows: every node below the root whose ancestors are all open.
Rows(t, f) ==
  InOrder({p \in DOMAIN t \ {<< >>} : \A q \in Ancestors(p) : Descended(t, f, q)})

Subtree(t, at) ==
  [p \in {SubSeq(q, Len(at) + 1, Len(q)) :
            q \in {x \in DOMAIN t : IsPrefix(at, x)}} |-> t[at \o p]]

\* Node.Replace: the new subtree takes the slot, and its label.
Replace(t, at, r) ==
  LET kept == {p \in DOMAIN t : ~IsPrefix(at, p)}
      put  == [r EXCEPT ![<< >>].label = t[at].label]
  IN  [p \in kept \cup {at \o q : q \in DOMAIN r} |->
         IF p \in kept THEN t[p] ELSE put[SubSeq(p, Len(at) + 1, Len(p))]]

\* The number leaves, and what the text of one of them is read as.
Numbers(t) == {p \in DOMAIN t : t[p].kind = "number"}
Spelled(t, n) == [JSONOf[t[n].value] EXCEPT ![<< >>].label = t[n].label]

\* Marshal: a number leaf is written as the text it holds, whatever that is.
Marshal(t) ==
  LET plain == DOMAIN t \ Numbers(t)
  IN  [p \in plain \cup UNION {{n \o q : q \in DOMAIN JSONOf[t[n].value]} : n \in Numbers(t)} |->
         IF p \in plain THEN t[p]
         ELSE LET n == CHOOSE n \in Numbers(t) : IsPrefix(n, p)
              IN  Spelled(t, n)[SubSeq(p, Len(n) + 1, Len(p))]]

\* A document that was read from JSON: a number is what its text says.
AsRead(t) ==
  /\ Document(t)
  /\ \A p \in Numbers(t) :
       /\ t[p].value \in DOMAIN JSONOf
       /\ LET number == JSONOf[t[p].value]
          IN  DOMAIN number = {<< >>} /\ number[<< >>].kind = "number" /\ number[<< >>].value = t[p].value

\* collectMatches, in tree order.
CollectMatches(t, term) ==
  InOrder({p \in DOMAIN t \ {<< >>} : t[p].label = term \/ (~IsBranch(t, p) /\ t[p].value = term)})

\* Variant: the branches stay on their one line.
ExpandToKeepsInline(t, f, target) ==
  [p \in DOMAIN t |-> IF p \in Ancestors(target) THEN [f[p] EXCEPT !.expanded = TRUE] ELSE f[p]]

\* expandTo opens every branch between the root and the target.
ExpandTo(t, f, target) ==
  [p \in DOMAIN t |-> IF p \in Ancestors(target) THEN [expanded |-> TRUE, inline |-> FALSE]
                      ELSE f[p]]
=============================================================================
