----------------------------- MODULE GraphView -----------------------------
(***************************************************************************)
(* The diagram of app/graphview.go: the layout of a value tree as cards,   *)
(* and the cursor, the folds and the viewport of the window that shows it. *)
(* A graph is a record; pos of the code is Card, which layout computes     *)
(* anew after every change of what it depends on.  The drawing is left     *)
(* out.                                                                    *)
(***************************************************************************)
EXTENDS JTree

CONSTANTS
  ViewW, ViewH   \* the inner size of the window, in cells

cardW == 18
cardGap == 2

NewGraph(t) ==
  [t |-> t, folded |-> {}, cursor |-> << >>, showValues |-> TRUE, offX |-> 0, offY |-> 0]

VisibleKids(g, p) == IF p \in g.folded THEN {} ELSE Kids(g.t, p)

\* The nodes that eachVisible and layout reach.
VisibleNodes(g) ==
  {p \in DOMAIN g.t : \A n \in 0 .. Len(p) - 1 : SubSeq(p, 1, n) \notin g.folded}

ChildNo(p) == p[Len(p)]
FirstOf(S) == CHOOSE p \in S : \A q \in S : ChildNo(p) <= ChildNo(q)
LastOf(S) == CHOOSE p \in S : \A q \in S : ChildNo(p) >= ChildNo(q)

CardHeight(g) == IF g.showValues THEN 3 ELSE 2

\* Variant: slots are as wide as a card without its frame.
CentresTight(g) ==
  LET nodes  == VisibleNodes(g)
      leaves == InOrder({p \in nodes : VisibleKids(g, p) = {}})
      slot   == [p \in Range(leaves) |-> (CHOOSE i \in DOMAIN leaves : leaves[i] = p) - 1]
      c[p \in nodes] ==
        IF p \in DOMAIN slot THEN (slot[p] * (cardW - cardGap)) + (cardW \div 2)
        ELSE (c[FirstOf(VisibleKids(g, p))] + c[LastOf(VisibleKids(g, p))]) \div 2
  IN  c

\* layout: leaves take slots from left to right, a parent is centred over its
\* first and last child.
Centres(g) ==
  LET nodes  == VisibleNodes(g)
      leaves == InOrder({p \in nodes : VisibleKids(g, p) = {}})
      slot   == [p \in Range(leaves) |-> (CHOOSE i \in DOMAIN leaves : leaves[i] = p) - 1]
      c[p \in nodes] ==
        IF p \in DOMAIN slot THEN (slot[p] * (cardW + cardGap)) + (cardW \div 2)
        ELSE (c[FirstOf(VisibleKids(g, p))] + c[LastOf(VisibleKids(g, p))]) \div 2
  IN  c

Cards(g) ==
  LET c == Centres(g)
  IN  [p \in DOMAIN c |-> [x |-> c[p] - (cardW \div 2), y |-> Len(p) * (CardHeight(g) + 2),
                           w |-> cardW, h |-> CardHeight(g)]]

\* Variant: the viewport follows to the left and up only.
ScrollHalf(g) ==
  LET p == Cards(g)[g.cursor]
  IN  IF g.cursor \notin VisibleNodes(g) THEN g ELSE
      [g EXCEPT !.offX = IF p.x < @ THEN p.x ELSE @, !.offY = IF p.y < @ THEN p.y ELSE @]

ScrollIntoView(g) ==
  LET p == Cards(g)[g.cursor]
      left == IF p.x < g.offX THEN p.x ELSE g.offX
      top  == IF p.y < g.offY THEN p.y ELSE g.offY
  IN  IF g.cursor \notin VisibleNodes(g) THEN g ELSE
      [g EXCEPT !.offX = IF p.x + cardW > left + ViewW THEN p.x + cardW - ViewW ELSE left,
                !.offY = IF p.y + p.h > top + ViewH THEN p.y + p.h - ViewH ELSE top]

ChildOf(g) == VisibleKids(g, g.cursor)
ParentOf(g) == {p \in VisibleNodes(g) : g.cursor \in VisibleKids(g, p)}
SiblingOf(g, delta) ==
  {q \in UNION {VisibleKids(g, p) : p \in ParentOf(g)} : ChildNo(q) = ChildNo(g.cursor) + delta}

\* l, h, j and k: moveCursor; nothing happens where the step has no target.
GraphSteps(g) ==
  {S \in {ChildOf(g), ParentOf(g), SiblingOf(g, 1), SiblingOf(g, -1)} : S # {}}
GraphMoved(g, S) ==
  ScrollIntoView([g EXCEPT !.cursor = IF Cardinality(S) = 1 THEN CHOOSE p \in S : TRUE ELSE FirstOf(S)])

\* Enter: toggleFold.
Foldable(g) == Kids(g.t, g.cursor) # {}
Folded(g) ==
  [g EXCEPT !.folded = IF g.cursor \in @ THEN @ \ {g.cursor} ELSE @ \cup {g.cursor}]
=============================================================================
