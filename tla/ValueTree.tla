----------------------------- MODULE ValueTree -----------------------------
(***************************************************************************)
(* The value pane over a tree: renderValue, valueToggle and the finder     *)
(* (openFind, findNext, findJump in app/valuepane.go), the edit of one     *)
(* node (editValueItem, editNestedNode, editJSONNode, saveMemberDoc in     *)
(* app/keyops.go), and the diagram (openGraph in app/graphview.go).        *)
(*                                                                         *)
(* stored is the value on the server: a JSON document in one string (kind  *)
(* "string"), or the members of a hash, each a document (kind "hash").  A  *)
(* page is loaded by a fetch; an edit changes the tree of its page, writes *)
(* the document or the member, and its answer fetches the page again and,  *)
(* through reloadMeta, opens a new page.  The rows are those of the last   *)
(* renderValue, so a row may hold a node that Replace has since cut off:   *)
(* such a row is not linked.  A scalar string has no rows, and the editor  *)
(* it opens is that of the whole value, which is not modelled here.        *)
(***************************************************************************)
EXTENDS GraphView

CONSTANTS
  Kinds,     \* of "string" and "hash"
  Docs,      \* the values to start from
  Terms,     \* what the user may search for
  Names,     \* what the user may name a field
  Blank,     \* the name of one that is empty
  CanFail,   \* which calls can fail, of "write" and "fetch"
  MaxKeys,   \* bound: keys pressed on the pane and in the diagram
  MaxEdits   \* bound: editors opened

ASSUME ValueTreeAssumption ==
  /\ Kinds \subseteq {"string", "hash"}
  /\ DOMAIN JSONOf \subseteq Texts
  /\ \A d \in Docs \cup {JSONOf[x] : x \in DOMAIN JSONOf} : AsRead(d)
  /\ Blank \notin Terms
  /\ CanFail \subseteq {"write", "fetch"}
  /\ ViewW \in Nat /\ ViewH \in Nat /\ ViewW >= cardW /\ ViewH >= 3
  /\ MaxKeys \in Nat /\ MaxEdits \in Nat

VARIABLES
  kind, stored,
  page,      \* valPage: doc (p.tree), flags, rows (treeRows), and the finder
  cursor,    \* the selected row of the table
  editor,    \* the editor: the node, and the page it was opened on
  graph,     \* the diagram
  fetches,   \* fetches under way: of which page, and what they have read
  writes,    \* writes under way
  reload,    \* a metadata reload that will open a new page
  keys, edits,
  mine, hurried, failed  \* history: the nodes the user has saved; whether he did
                         \* while calls were under way, or opened an editor on a
                         \* page that was Behind; and whether a call has failed

vars == <<kind, stored, page, cursor, editor, graph, fetches, writes, reload, keys, edits,
          mine, hurried, failed>>

NewPage == [doc |-> NoDoc, flags |-> << >>, rows |-> << >>, term |-> Blank, pos |-> 0, count |-> 0]
Closed == [open |-> FALSE]
NoGraph == [t |-> NoDoc]
Asked == [live |-> TRUE, read |-> FALSE, doc |-> NoDoc]

Loaded == page.doc # NoDoc
JSONView == kind = "string" /\ Loaded /\ IsBranch(page.doc, << >>)

\* renderValue lists the visible nodes, and selects the first.
RowsOf(doc, flags) ==
  LET paths == Rows(doc, flags)
  IN  [i \in DOMAIN paths |-> [at |-> paths[i], branch |-> IsBranch(doc, paths[i]), linked |-> TRUE]]
Render(p) == [p EXCEPT !.rows = RowsOf(p.doc, p.flags)]

RowUnderCursor == cursor \in DOMAIN page.rows
Row == page.rows[cursor]

TypeOK ==
  /\ kind \in Kinds
  /\ cursor \in Nat \ {0}
  /\ Loaded => /\ DOMAIN page.flags = DOMAIN page.doc
               /\ page.rows # << >> \/ ~IsBranch(page.doc, << >>) \/ DOMAIN page.doc = {<< >>}
               /\ \A i \in DOMAIN page.rows : page.rows[i].linked => page.rows[i].at \in DOMAIN page.doc
               /\ page.count > 0 => page.pos \in 0 .. page.count - 1
  /\ ~Loaded => page = NewPage
  /\ ~(editor.open /\ graph # NoGraph)
  /\ \A f \in fetches : f.live \in BOOLEAN /\ (f.read <=> f.doc # NoDoc)

Init ==
  /\ kind \in Kinds /\ stored \in Docs
  /\ page = NewPage /\ cursor = 1
  /\ editor = Closed /\ graph = NoGraph
  /\ fetches = {Asked} /\ writes = {} /\ reload = FALSE
  /\ keys = 0 /\ edits = 0
  /\ mine = {} /\ hurried = FALSE /\ failed = FALSE

----------------------------------------------------------------------------
(* The pane's own keys.                                                    *)

Key == keys < MaxKeys /\ keys' = keys + 1
OnPane == ~editor.open /\ graph = NoGraph
Server == <<kind, stored, fetches, writes, reload, mine, hurried, failed>>

Move(r) ==
  /\ Key /\ OnPane
  /\ r \in DOMAIN page.rows /\ r # cursor
  /\ cursor' = r
  /\ UNCHANGED <<page, editor, graph, edits, Server>>

\* valueToggle; the cursor stays on its row, or on the last one.
ValueToggle ==
  /\ Key /\ OnPane
  /\ RowUnderCursor /\ Row.branch
  /\ page' = Render(IF Row.linked THEN [page EXCEPT !.flags = Toggled(page.doc, @, Row.at)] ELSE page)
  /\ cursor' = IF cursor > Len(page'.rows) THEN Len(page'.rows) ELSE cursor
  /\ UNCHANGED <<editor, graph, edits, Server>>

\* findJump: count the matches anew, open the way to the current one and
\* select its row.
FindJump(p) ==
  LET matches == CollectMatches(p.doc, p.term)
      at      == IF p.pos >= Len(matches) THEN 0 ELSE p.pos
      counted == [p EXCEPT !.count = Len(matches), !.pos = at]
      shown   == IF matches = << >> THEN Render(counted)
                 ELSE Render([counted EXCEPT !.flags = ExpandTo(p.doc, @, matches[at + 1])])
  IN  /\ page' = shown
      /\ cursor' = IF \E i \in DOMAIN shown.rows : matches # << >> /\ shown.rows[i].at = matches[at + 1]
                   THEN CHOOSE i \in DOMAIN shown.rows : shown.rows[i].at = matches[at + 1]
                   ELSE 1

\* openFind and its answer: a new term, or none.
Find(term) ==
  /\ Key /\ OnPane /\ JSONView
  /\ LET p == [page EXCEPT !.term = term, !.pos = 0]
     IN  IF term = Blank THEN page' = Render([p EXCEPT !.count = 0]) /\ cursor' = 1
         ELSE FindJump(p)
  /\ UNCHANGED <<editor, graph, edits, Server>>

FindNext(dir) ==
  /\ Key /\ OnPane
  /\ Loaded /\ page.term # Blank /\ page.count > 0
  /\ FindJump([page EXCEPT !.pos = (@ + dir + page.count) % page.count])
  /\ UNCHANGED <<editor, graph, edits, Server>>

----------------------------------------------------------------------------
(* Editing one node.                                                       *)

\* What the server has when the write under way is executed, and whether the
\* page on screen is still without that write (its editor was of another page).
Due ==
  IF writes = {} THEN stored
  ELSE LET w == CHOOSE w \in writes : TRUE IN Replace(stored, w.at, w.doc)
Behind == Marshal(page.doc) # Due

\* A row of the hash itself is edited as a member, elsewhere.
OpenEditor ==
  /\ OnPane /\ edits < MaxEdits
  /\ RowUnderCursor
  /\ kind = "hash" /\ Row.linked => Len(Row.at) > 1
  /\ editor' = [open |-> TRUE, at |-> Row.at, linked |-> Row.linked, current |-> TRUE, doc |-> NoDoc]
  /\ edits' = edits + 1
  /\ hurried' = (hurried \/ Behind)
  /\ UNCHANGED <<page, cursor, graph, keys, kind, stored, fetches, writes, reload, mine, failed>>

Cancel ==
  /\ editor.open
  /\ editor' = Closed
  /\ UNCHANGED <<page, cursor, graph, keys, edits, Server>>

\* The tree of the page that the editor was opened on.
EditedDoc == IF editor.current THEN page.doc ELSE editor.doc

Leaf(k, text) == [p \in {<< >>} |-> [kind |-> k, label |-> Blank, value |-> text]]

\* FromJSON for branches, scalarFromEdit for leaves.
FromJSON(text) == IF text \in DOMAIN JSONOf THEN JSONOf[text] ELSE NoDoc
ScalarFromEdit(k, text) ==
  CASE k = "string" -> Leaf("string", text)
    [] k = "number" -> IF FromJSON(text) = NoDoc THEN NoDoc ELSE Leaf("number", text)
    [] OTHER -> FromJSON(text)
Repl(node, text) ==
  IF node.kind \in Branches THEN FromJSON(text) ELSE ScalarFromEdit(node.kind, text)

\* Variant: the first member is written, wherever the node was.
SentFirst(doc, at) ==
  LET top == IF kind = "hash" THEN <<1>> ELSE << >>
  IN  [at |-> top, doc |-> Marshal(Subtree(doc, top))]

\* What a save sends: the whole document, or the member that holds the node.
Sent(doc, at) ==
  LET top == IF kind = "hash" THEN SubSeq(at, 1, 1) ELSE << >>
  IN  [at |-> top, doc |-> Marshal(Subtree(doc, top))]

\* The node may still be replaced, and what is typed is accepted.
Renamable == IsBranch(EditedDoc, Front(editor.at)) /\ EditedDoc[Front(editor.at)].kind = "object"
NameOK(name) ==
  LET at == editor.at
  IN  IF Renamable
      THEN /\ name # Blank
           /\ \/ name = EditedDoc[at].label
              \/ \A q \in Kids(EditedDoc, Front(at)) : EditedDoc[q].label # name
      ELSE name = EditedDoc[at].label

Accepted(name, text) ==
  /\ NameOK(name)
  /\ LET at   == editor.at
         repl == Repl(EditedDoc[at], text)
         put  == [Replace(EditedDoc, at, repl) EXCEPT ![at].label = name]
         near == {m \in mine : IsPrefix(m.at, at) \/ IsPrefix(at, m.at)}
     IN  /\ repl # NoDoc
         /\ writes' = writes \cup {Sent(put, at)}
         /\ mine' = (mine \ near) \cup {[at |-> at, doc |-> Subtree(put, at)]}
         /\ page' = IF ~editor.current THEN page
                    ELSE [page EXCEPT
                      !.doc = put,
                      !.flags = [p \in DOMAIN put |->
                                   IF IsPrefix(at, p) THEN Parsed(put)[p] ELSE @[p]],
                      !.rows = [i \in DOMAIN @ |->
                                  IF IsPrefix(at, @[i].at) THEN [@[i] EXCEPT !.linked = FALSE] ELSE @[i]]]
  /\ editor' = Closed
  /\ hurried' = (hurried \/ writes # {} \/ fetches # {} \/ reload)
  /\ UNCHANGED <<kind, stored, fetches, reload, failed, cursor, graph, keys, edits>>

Save(name, text) == editor.open /\ editor.linked /\ Accepted(name, text)

\* "duplicate field", "invalid JSON", "row moved, retry": nothing is changed.
SaveRefused(name, text) ==
  /\ editor.open
  /\ editor.linked /\ NameOK(name) => Repl(EditedDoc[editor.at], text) = NoDoc
  /\ editor' = Closed
  /\ UNCHANGED <<page, cursor, graph, keys, edits, Server>>

----------------------------------------------------------------------------
(* The calls, and their closures.                                          *)

Calls == <<kind, cursor, keys, edits, mine, hurried, graph>>

\* Variant: the closure fetches the value, and leaves the metadata alone.
WriteOKNoReload(w) ==
  /\ writes' = writes \ {w}
  /\ stored' = Replace(stored, w.at, w.doc)
  /\ fetches' = fetches \cup {Asked}
  /\ UNCHANGED <<page, editor, failed, reload, Calls>>

\* The write is executed, and its closure refreshes value and metadata.
WriteOK(w) ==
  /\ writes' = writes \ {w}
  /\ stored' = Replace(stored, w.at, w.doc)
  /\ fetches' = fetches \cup {Asked}
  /\ reload' = TRUE
  /\ UNCHANGED <<page, editor, failed, Calls>>

\* It fails, or its answer is lost: the closure flashes the error.
WriteFails(w) ==
  /\ "write" \in CanFail
  /\ writes' = writes \ {w}
  /\ stored' \in {stored, Replace(stored, w.at, w.doc)}
  /\ failed' = TRUE
  /\ UNCHANGED <<page, editor, fetches, reload, Calls>>

\* The reloaded metadata opens a new page (loadValue).
Reload ==
  /\ reload
  /\ reload' = FALSE
  /\ page' = NewPage
  /\ fetches' = {[f EXCEPT !.live = FALSE] : f \in fetches} \cup {Asked}
  /\ editor' = IF editor.open /\ editor.current
               THEN [editor EXCEPT !.current = FALSE, !.doc = page.doc] ELSE editor
  /\ UNCHANGED <<stored, writes, failed, Calls>>

Read(f) ==
  /\ ~f.read
  /\ fetches' = (fetches \ {f}) \cup {[f EXCEPT !.read = TRUE, !.doc = stored]}
  /\ UNCHANGED <<stored, page, editor, writes, reload, failed, Calls>>

\* The page is rebuilt, and an active find goes on in it.
Land(f) ==
  /\ f.read
  /\ fetches' = fetches \ {f}
  /\ IF ~f.live THEN UNCHANGED <<page, cursor, editor>>
     ELSE LET p == Render([page EXCEPT !.doc = f.doc, !.flags = Parsed(f.doc)])
          IN  /\ IF p.term # Blank THEN FindJump(p) ELSE page' = p /\ cursor' = 1
              /\ editor' = IF editor.open /\ editor.current THEN [editor EXCEPT !.linked = FALSE]
                           ELSE editor
  /\ UNCHANGED <<kind, stored, graph, writes, reload, keys, edits, mine, hurried, failed>>

\* valueErr clears the table; the page keeps its tree and its rows.
FetchFails(f) ==
  /\ "fetch" \in CanFail
  /\ ~f.read
  /\ fetches' = fetches \ {f}
  /\ failed' = TRUE
  /\ UNCHANGED <<stored, page, editor, writes, reload, Calls>>

----------------------------------------------------------------------------
(* The diagram.  It holds the tree it was opened with.                     *)

OpenGraph ==
  /\ Key /\ OnPane /\ Loaded
  /\ graph' = NewGraph(page.doc)
  /\ UNCHANGED <<page, cursor, editor, edits, Server>>

GraphKey == Key /\ graph # NoGraph /\ UNCHANGED <<page, cursor, editor, edits, Server>>

GraphMove == GraphKey /\ \E S \in GraphSteps(graph) : graph' = GraphMoved(graph, S)
GraphFold == GraphKey /\ Foldable(graph) /\ graph' = Folded(graph)
GraphValues == GraphKey /\ graph' = [graph EXCEPT !.showValues = ~@]
CloseGraph == GraphKey /\ graph' = NoGraph

User ==
  \/ \E r \in DOMAIN page.rows : Move(r)
  \/ ValueToggle
  \/ \E term \in Terms \cup {Blank} : Find(term)
  \/ FindNext(1) \/ FindNext(-1)
  \/ OpenEditor \/ Cancel
  \/ \E name \in Names \cup {Blank}, text \in Texts : Save(name, text) \/ SaveRefused(name, text)
  \/ OpenGraph \/ GraphMove \/ GraphFold \/ GraphValues \/ CloseGraph

Answer ==
  \/ \E w \in writes : WriteOK(w) \/ WriteFails(w)
  \/ Reload
  \/ \E f \in fetches : Read(f) \/ Land(f) \/ FetchFails(f)

Next == User \/ Answer
Spec == Init /\ [][Next]_vars

----------------------------------------------------------------------------
(* Properties.                                                             *)

AtRest == writes = {} /\ fetches = {} /\ ~reload

\* When no call is under way and none has failed, the pane shows the value on
\* the server, row by row, whatever was edited, folded and searched meanwhile.
PaneShowsServer ==
  AtRest /\ ~failed =>
    /\ Loaded /\ Marshal(page.doc) = stored
    /\ page.rows = RowsOf(page.doc, page.flags)

\* "merged back into the full document on save": what a user who waits for
\* each answer has saved is on the server, node by node, also when editors
\* were open while the tree was rebuilt or the page replaced; but an editor
\* that he opens on a page which is Behind saves the document without the edit.
OwnEditsSurvive ==
  writes = {} /\ ~hurried /\ ~failed =>
    \A m \in mine : Subtree(stored, m.at) = Marshal(m.doc)

\* findJump "opens the branches hiding the current one, and parks the cursor
\* on it", also when an edit, a toggle or a new page has changed the matches.
FindLandsOnMatch ==
  [][\/ \E term \in Terms : Find(term)
     \/ FindNext(1) \/ FindNext(-1)
     \/ \E f \in fetches : f.live /\ page.term # Blank /\ Land(f)
     => LET matches == CollectMatches(page'.doc, page'.term)
        IN  matches # << >> => page'.rows[cursor'].at = matches[page'.pos + 1]]_vars

\* "the cursor moves node-to-node and folds branches": it is always on a card
\* that is drawn, and no two cards overlap, whatever is folded.
CardsApart ==
  graph # NoGraph =>
    LET card == Cards(graph)
    IN  graph.cursor \in DOMAIN card /\ \A p, q \in DOMAIN card :
          p # q => \/ card[p].y + card[p].h <= card[q].y \/ card[q].y + card[q].h <= card[p].y
                   \/ card[p].x + card[p].w <= card[q].x \/ card[q].x + card[q].w <= card[p].x

\* After a move the card under the cursor is inside the window, from wherever
\* folding and the value lines had left the viewport.
MoveShowsCard ==
  [][GraphMove => LET p == Cards(graph')[graph'.cursor]
                  IN  /\ p.x >= graph'.offX /\ p.x + p.w <= graph'.offX + ViewW
                      /\ p.y >= graph'.offY /\ p.y + p.h <= graph'.offY + ViewH]_vars
=============================================================================
