------------------------------ MODULE KeyTree ------------------------------
(***************************************************************************)
(* scanner.Tree (scanner/tree.go): the incremental prefix tree behind the  *)
(* namespace pane.  A key is the sequence of its separator-delimited parts;*)
(* a node is the sequence of parts on the way to it.  Below depth MaxFold  *)
(* the rest of a key is joined into one child, so a node longer than       *)
(* MaxFold is the whole key.                                               *)
(*                                                                         *)
(* The operations are operators on a tree value, because the application   *)
(* applies several of them in one step (a rename is Remove then Add); the  *)
(* specification below drives one tree with all of them.  node.leaf is left*)
(* out: it is written and never read.                                      *)
(***************************************************************************)
EXTENDS Integers, Sequences, FiniteSets

CONSTANTS
  Parts,    \* the texts between two separators
  Empty,    \* the empty text: "a::b" has an empty part
  KeyNames, \* the key names, as sequences of parts
  MaxFold   \* the profile's MaxFoldLevel

ASSUME TreeAssumption ==
  /\ Empty \in Parts
  /\ KeyNames \subseteq Seq(Parts) \ {<< >>}
  /\ MaxFold \in Nat \ {0}

\* strings.Split always yields a part, so the path of a key is never empty.
Path(k) == {SubSeq(k, 1, i) : i \in {j \in 1 .. Len(k) : j <= MaxFold}} \cup {k}
Nodes == UNION {Path(k) : k \in KeyNames}
Top(n) == Len(n) = 1
Parent(n) == SubSeq(n, 1, IF Len(n) > MaxFold THEN MaxFold ELSE Len(n) - 1)

\* How many empty names lead the path to n: "if prefix == "" then part" drops
\* them.  The names are the single parts and, last, the joined rest.
Lead(n) ==
  CHOOSE i \in 0 .. Len(n) :
    /\ i <= MaxFold
    /\ \A j \in 1 .. i : n[j] = Empty
    /\ i < Len(n) /\ i < MaxFold => n[i + 1] # Empty

\* The text of a prefix; one empty part and no part are the same text.
Text(q) == IF q = <<Empty>> THEN << >> ELSE q

PrefixOf(n) == Text(SubSeq(n, Lead(n) + 1, Len(n)))
Prefixes == {PrefixOf(n) : n \in Nodes}

NoNode == << >>

EmptyTree ==
  [seen |-> {}, total |-> 0, nodes |-> {}, expanded |-> {},
   count |-> [n \in Nodes |-> 0], index |-> [x \in Prefixes |-> NoNode]]

Trees ==
  [seen : SUBSET KeyNames, total : Int, nodes : SUBSET Nodes, expanded : SUBSET Nodes,
   count : [Nodes -> Int], index : [Prefixes -> Nodes \cup {NoNode}]]

----------------------------------------------------------------------------
(* Add, Remove, Toggle, Rows.                                              *)

\* Nodes are created on the way down: of two new nodes with one prefix the
\* deeper one is entered last and stays.
Indexed(index, new) ==
  [x \in Prefixes |->
     LET made == {n \in new : PrefixOf(n) = x}
     IN  IF made = {} THEN index[x]
         ELSE CHOOSE n \in made : \A o \in made : Len(o) <= Len(n)]

\* Variant: a key SCAN returns again is counted again.
AddUnchecked(t, k) ==
  [t EXCEPT !.seen = @ \cup {k},
            !.total = @ + 1,
            !.nodes = @ \cup Path(k),
            !.count = [n \in Nodes |-> IF n \in Path(k) THEN @[n] + 1 ELSE @[n]],
            !.index = Indexed(@, Path(k) \ t.nodes)]

Add(t, k) ==
  IF k \in t.seen THEN t
  ELSE [t EXCEPT !.seen = @ \cup {k},
                 !.total = @ + 1,
                 !.nodes = @ \cup Path(k),
                 !.count = [n \in Nodes |-> IF n \in Path(k) THEN @[n] + 1 ELSE @[n]],
                 !.index = Indexed(@, Path(k) \ t.nodes)]

\* Variant: only the key's own leaf is pruned.
PrunedLeafOnly(t, k) == {n \in {k} : t.count[n] <= 1 /\ ~Top(n)}

\* Variant: a folder goes with its last but one key.
PrunedEarly(t, k) == {n \in Path(k) : t.count[n] <= 2 /\ ~Top(n)}

\* Nodes with nothing left below them go, except at the top level.
Pruned(t, k) == {n \in Path(k) : t.count[n] <= 1 /\ ~Top(n)}

\* Variant: pruned nodes stay in the index.
RemoveKeepsIndex(t, k) ==
  IF k \notin t.seen THEN t
  ELSE [t EXCEPT !.seen = @ \ {k},
                 !.total = @ - 1,
                 !.nodes = @ \ Pruned(t, k),
                 !.expanded = @ \ Pruned(t, k),
                 !.count = [n \in Nodes |-> IF n \in Path(k) THEN @[n] - 1 ELSE @[n]]]

\* A key whose path is not there leaves seen and total and returns early.
Remove(t, k) ==
  IF k \notin t.seen THEN t
  ELSE IF ~(Path(k) \subseteq t.nodes)
  THEN [t EXCEPT !.seen = @ \ {k}, !.total = @ - 1]
  ELSE [t EXCEPT !.seen = @ \ {k},
                 !.total = @ - 1,
                 !.nodes = @ \ Pruned(t, k),
                 !.expanded = @ \ Pruned(t, k),
                 !.count = [n \in Nodes |-> IF n \in Path(k) THEN @[n] - 1 ELSE @[n]],
                 !.index = [x \in Prefixes |->
                              IF \E n \in Pruned(t, k) : PrefixOf(n) = x THEN NoNode ELSE @[x]]]

Folder(t, n) == \E c \in t.nodes : Len(c) > 1 /\ Parent(c) = n

Toggle(t, x) ==
  LET n == IF x \in Prefixes THEN t.index[x] ELSE NoNode
  IN  IF n = NoNode \/ ~Folder(t, n) THEN t
      ELSE [t EXCEPT !.expanded = IF n \in @ THEN @ \ {n} ELSE @ \cup {n}]

\* Rows: the nodes below expanded folders only, each carrying its PrefixOf,
\* its count and whether it is a folder.
Rows(t) == {n \in t.nodes : \A i \in 1 .. Len(Parent(n)) : SubSeq(n, 1, i) \in t.expanded}

----------------------------------------------------------------------------
(* One tree, driven by every operation in every order.                     *)

VARIABLE namespace

TreeOK == namespace \in Trees
TreeInit == namespace = EmptyTree

AddKey(k) == namespace' = Add(namespace, k)
RemoveKey(k) == namespace' = Remove(namespace, k)
RenameKey(k, n) == namespace' = Add(Remove(namespace, k), n)
ToggleRow(n) == n \in Rows(namespace) /\ namespace' = Toggle(namespace, PrefixOf(n))

\* Enter on a row: the tree that has just been toggled and drawn is thrown
\* away by the scan of the row's prefix, which begins with a tree of its own.
TreeEnter(n) == n \in Rows(namespace) /\ namespace' = EmptyTree

TreeNext ==
  \/ \E k \in KeyNames : AddKey(k) \/ RemoveKey(k)
  \/ \E k, n \in KeyNames : RenameKey(k, n)
  \/ \E n \in Nodes : ToggleRow(n) \/ TreeEnter(n)

TreeSpec == TreeInit /\ [][TreeNext]_namespace

----------------------------------------------------------------------------
(* Properties.                                                             *)

Beneath(t, n) == {k \in t.seen : n \in Path(k)}

\* The counts on screen are right after any sequence of adds, removes and
\* renames: a node's count is the number of indexed keys at or below it, a
\* node not in the tree counts none, and the root counts every key.
CountsExact ==
  /\ \A n \in Nodes : namespace.count[n] = Cardinality(Beneath(namespace, n))
  /\ namespace.total = Cardinality(namespace.seen)

\* Every indexed key can be reached from the root, so the early return of
\* Remove ("inconsistent; should not happen") is never taken.
PathsPresent == \A k \in namespace.seen : Path(k) \subseteq namespace.nodes

\* Below the top level no folder outlives its last key.
InnerNodesUsed == \A n \in namespace.nodes : Top(n) \/ Beneath(namespace, n) # {}

\* Until a key with an empty first part has been added (its top node stays),
\* all prefixes differ.
PrefixesDiffer == <<Empty>> \notin namespace.nodes

\* As long as all prefixes differ, the index leads from the prefix of a node
\* to that node, and to nothing that has been pruned, whatever was added and
\* removed, empty parts inside a key and folded rests included.
IndexFaithful ==
  PrefixesDiffer =>
  /\ \A n \in namespace.nodes : namespace.index[PrefixOf(n)] = n
  /\ \A x \in Prefixes : namespace.index[x] # NoNode => namespace.index[x] \in namespace.nodes

\* "treeEnter handles Enter on the namespace pane: folders toggle and
\* refilter" (keys.go): a folder is open after Enter if it was closed.
EnterToggles ==
  [][\A n \in Nodes : TreeEnter(n) /\ Folder(namespace, n) =>
       (n \in namespace'.expanded) # (n \in namespace.expanded)]_namespace
=============================================================================
