----------------------------- MODULE Selection -----------------------------
(***************************************************************************)
(* From the cursor in the key list to the value pane: keysSelectionChanged,*)
(* loadMeta and renderKeyList (app/keys.go), loadValue, fetchValuePage,    *)
(* valueErr and prefetchAround (app/valuepane.go), and the closures of     *)
(* key-level edits that end in them (app/keyops.go).                       *)
(*                                                                         *)
(* A step of the UI goroutine runs several of these one after another, so  *)
(* they are operators on the pane state ui; an action is a key press, a    *)
(* timer or a posted closure.  The table shows a window of the list, whose *)
(* rows are numbered as in the table: row 0 is the header, row i the i-th  *)
(* key after the window's offset.  Keys are counted from 1, so that index  *)
(* -1 of the code is 0.  The header is not selectable: the draw that ends  *)
(* a step moves a cursor on it or above to row 1, without the callback.    *)
(*                                                                         *)
(* metaSeq.Load() == seq holds of a request exactly until the next         *)
(* loadMeta, and a.valPage == p of a fetch until valPage is replaced, so   *)
(* requests carry a flag (newest, live) in place of a number.  Requests    *)
(* that agree in everything are one.                                       *)
(***************************************************************************)
EXTENDS Integers, Sequences, FiniteSets, SequencesExt

CONSTANTS
  Keys,        \* key names
  None,        \* no key
  Found,       \* the keys a scan lists, in order
  W,           \* listWindow: rows kept in the table (60 in the code)
  Near,        \* prefetchAround's reach (10 rows either way in the code)
  Edited,      \* bound: the keys that edits are for
  Edits,       \* which of "reload", "drop", "rename" may be answered
  CanFail,     \* which calls can fail, of "value" and "bulk"
  MaxMoves,    \* bound: key presses and answered edits
  MaxSessions  \* bound: scans started

ASSUME SelectionAssumption ==
  /\ None \notin Keys
  /\ Found \in Seq(Keys) /\ IsInjective(Found)   \* s.seen
  /\ Edited \subseteq Keys
  /\ W \in Nat /\ W >= 4 /\ Near \in Nat
  /\ Edits \subseteq {"reload", "drop", "rename"}
  /\ CanFail \subseteq {"value", "bulk"}
  /\ MaxMoves \in Nat /\ MaxSessions \in Nat \ {0}

VARIABLES
  ui,        \* the panes, see Panes
  moves, sessions

vars == <<ui, moves, sessions>>

Rows == 0 .. Len(Found)
Asked == [key : Keys, newest : BOOLEAN, st : {"timer", "call"}]
Prefetches == [want : SUBSET Keys, idx : Rows, newest : BOOLEAN]
Fetches == [key : Keys, live : BOOLEAN]
Contents == [kind : {"value", "error"}, key : Keys] \cup {[kind |-> "blank", key |-> None]}
Blank == [kind |-> "blank", key |-> None]

Panes ==
  [list : Seq(Keys),             \* scan.keys
   off : Nat,                    \* listOffset
   scan : {"running", "listed", "done"},  \* closures the scan has posted
   late : Nat,                   \* closures superseded scans may still post
   row : Rows,                   \* the selected table row
   meta : SUBSET Keys,           \* the domain of scan.meta
   asked : SUBSET Asked,         \* metadata timers and calls
   pre : SUBSET Prefetches,      \* bulk metadata calls
   page : Keys \cup {None},      \* valPage.key
   fetch : SUBSET Fetches,       \* value calls
   shown : Contents,             \* what the value table holds
   wanted : Keys \cup {None}]    \* history: the key of the last loadMeta of this scan

TypeOK ==
  /\ ui \in Panes
  /\ moves \in 0 .. MaxMoves
  /\ sessions \in 0 .. MaxSessions

----------------------------------------------------------------------------
(* The functions of the UI goroutine.                                      *)

Stale(fs) == {[f EXCEPT !.live = FALSE] : f \in fs}

LoadValue(u, k) ==
  [u EXCEPT !.page = k, !.fetch = Stale(@) \cup {[key |-> k, live |-> TRUE]}]

PrefetchAround(u, i) ==
  LET want == {u.list[j] : j \in {x \in DOMAIN u.list \ {i} :
                                    x \in i - Near .. i + Near}} \ u.meta
  IN  IF want = {} THEN u
      ELSE [u EXCEPT !.pre = @ \cup {[want |-> want, idx |-> i, newest |-> TRUE]}]

LoadMeta(u, k, i) ==
  LET old == [u EXCEPT !.wanted = k,
                       !.asked = {[a EXCEPT !.newest = FALSE] : a \in @},
                       !.pre = {[p EXCEPT !.newest = FALSE] : p \in @}]
  IN  IF k \in u.meta
      THEN PrefetchAround(LoadValue(old, k), i)
      ELSE [PrefetchAround(old, i) EXCEPT
              !.asked = @ \cup {[key |-> k, newest |-> TRUE, st |-> "timer"]}]

\* A cursor on the last rows of the window, or on its first, moves the window
\* by half and is put in its middle: inFill, so that no key is loaded.
PastEnd(u, r) == r >= W - 2 /\ u.off + W < Len(u.list)
PastStart(u, r) == r = 1 /\ u.off > 0
Advance(u) == [u EXCEPT !.off = @ + W \div 2, !.row = W \div 2]
Retreat(u) == [u EXCEPT !.off = IF @ < W \div 2 THEN 0 ELSE @ - W \div 2, !.row = W \div 2]

\* keys.Select and the callback it runs, keysSelectionChanged.
SelectRow(u, r) ==
  LET v == [u EXCEPT !.row = IF r <= 0 /\ u.list # << >> THEN 1 ELSE r]
  IN  CASE r <= 0 -> v
        [] r > 0 /\ PastEnd(u, r) -> Advance(v)
        [] r > 0 /\ PastStart(u, r) /\ ~PastEnd(u, r) -> Retreat(v)
        [] OTHER -> IF u.off + r \in DOMAIN u.list THEN LoadMeta(v, u.list[u.off + r], u.off + r)
                    ELSE v

RenderKeyList(u) == IF u.list = << >> THEN u ELSE SelectRow(u, 1)

----------------------------------------------------------------------------

Init ==
  /\ ui = [list |-> << >>, off |-> 0, scan |-> "running", late |-> 0, row |-> 0, meta |-> {}, asked |-> {},
           pre |-> {}, page |-> None, fetch |-> {}, shown |-> Blank,
           wanted |-> None]
  /\ moves = 0
  /\ sessions = 1

\* resetScan and the rendering of the empty list; metaSeq is not touched.
\* The old scan is cancelled, and may still post a batch and its end.
Rescan ==
  /\ sessions < MaxSessions
  /\ sessions' = sessions + 1
  /\ ui' = [ui EXCEPT !.list = << >>, !.off = 0, !.wanted = None, !.scan = "running", !.meta = {}, !.page = None,
                      !.fetch = Stale(@), !.shown = Blank,
                      !.late = @ + CASE ui.scan = "running" -> 2 [] ui.scan = "listed" -> 1
                                     [] OTHER -> 0]
  /\ UNCHANGED moves

Rendered(u) ==
  /\ ui' = RenderKeyList(u)
  /\ UNCHANGED <<moves, sessions>>

\* A closure of a scan renders the list: the batch of the current scan, its
\* end, or what a superseded scan still posts, which renders a.scan too.
Batch == ui.scan = "running" /\ Rendered([ui EXCEPT !.list = Found, !.scan = "listed"])
ScanDone == ui.scan = "listed" /\ Rendered([ui EXCEPT !.scan = "done"])
LateClosure == \E n \in 0 .. ui.late - 1 : Rendered([ui EXCEPT !.late = n])

ScanClosure == Batch \/ ScanDone \/ LateClosure

Act == moves < MaxMoves /\ moves' = moves + 1 /\ UNCHANGED sessions

\* The user moves the cursor.
Move(r) ==
  /\ Act
  /\ r \in 1 .. W /\ ui.off + r \in DOMAIN ui.list /\ r # ui.row
  /\ ui' = SelectRow(ui, r)

\* A TTL change is answered: reloadMeta.
Reload(k) ==
  /\ "reload" \in Edits
  /\ Act
  /\ k \in Range(ui.list)
  /\ ui' = LoadMeta([ui EXCEPT !.meta = @ \ {k}], k, 0)

\* A delete is answered: dropKeyLocal.
Drop(k) ==
  /\ "drop" \in Edits
  /\ Act
  /\ k \in Range(ui.list)
  /\ LET at == CHOOSE i \in DOMAIN ui.list : ui.list[i] = k
         u == RenderKeyList([ui EXCEPT !.list = RemoveAt(@, at), !.meta = @ \ {k},
                                       !.wanted = IF @ = k THEN None ELSE @])
     IN  ui' = IF u.page = k
               THEN [u EXCEPT !.page = None, !.fetch = Stale(@), !.shown = Blank]
               ELSE u

\* A rename is answered: the row takes the new name, row 1 is selected, and
\* the new name is loaded whatever its row.
Rename(k, n) ==
  /\ "rename" \in Edits
  /\ Act
  /\ k \in Range(ui.list) /\ n \in Keys \ Range(ui.list)
  /\ LET u == RenderKeyList([ui EXCEPT !.list = [i \in DOMAIN @ |-> IF @[i] = k THEN n ELSE @[i]],
                                       !.meta = @ \ {k}])
     IN  ui' = LoadMeta(u, n, 0)

\* The debounce timer fires.
Timer(a) ==
  /\ a.st = "timer"
  /\ ui' = [ui EXCEPT !.asked = (@ \ {a}) \cup IF a.newest THEN {[a EXCEPT !.st = "call"]} ELSE {}]
  /\ UNCHANGED <<moves, sessions>>

\* Variant: the closure does not look at metaSeq again.
MetaClosureUnchecked(a) ==
  /\ a.st = "call"
  /\ LET u == [ui EXCEPT !.asked = @ \ {a}]
     IN  ui' = LoadValue([u EXCEPT !.meta = @ \cup {a.key}], a.key)
  /\ UNCHANGED <<moves, sessions>>

\* Variant: the answer is cached, and the pane left as it is.
MetaClosureOnlyCaches(a) ==
  /\ a.st = "call"
  /\ ui' = [ui EXCEPT !.asked = @ \ {a}, !.meta = IF a.newest THEN @ \cup {a.key} ELSE @]
  /\ UNCHANGED <<moves, sessions>>

\* KeyMeta is answered (a failure is cached as type "?").
MetaClosure(a) ==
  /\ a.st = "call"
  /\ LET u == [ui EXCEPT !.asked = @ \ {a}]
     IN  ui' = IF a.newest THEN LoadValue([u EXCEPT !.meta = @ \cup {a.key}], a.key) ELSE u
  /\ UNCHANGED <<moves, sessions>>

\* KeyMetaBatch is answered: the closure fills the cache of a.scan, renders
\* the list, which selects row 1, and then selects the key it was issued for,
\* where the window is now.
PrefetchClosure(p) ==
  /\ LET u == RenderKeyList([ui EXCEPT !.pre = @ \ {p}, !.meta = @ \cup p.want])
     IN  ui' = SelectRow(u, p.idx - u.off)
  /\ UNCHANGED <<moves, sessions>>

\* KeyMetaBatch fails: its goroutine just ends.
PrefetchFails(p) ==
  /\ "bulk" \in CanFail
  /\ ui' = [ui EXCEPT !.pre = @ \ {p}]
  /\ UNCHANGED <<moves, sessions>>

\* Variant: the closure renders into whatever page is open.
ValueUnchecked(f) ==
  /\ ui' = [ui EXCEPT !.fetch = @ \ {f}, !.shown = [kind |-> "value", key |-> f.key]]
  /\ UNCHANGED <<moves, sessions>>

\* The value is answered: applied only to the page it was fetched for.
ValueClosure(f) ==
  /\ ui' = [ui EXCEPT !.fetch = @ \ {f},
                      !.shown = IF f.live THEN [kind |-> "value", key |-> f.key] ELSE @]
  /\ UNCHANGED <<moves, sessions>>

\* valueErr: the error goes to the pane as long as any page is open.
ValueErr(f) ==
  /\ "value" \in CanFail
  /\ ui' = [ui EXCEPT !.fetch = @ \ {f},
                      !.shown = IF ui.page # None THEN [kind |-> "error", key |-> f.key] ELSE @]
  /\ UNCHANGED <<moves, sessions>>

User ==
  \/ Rescan
  \/ \E r \in Rows : Move(r)
  \/ \E k \in Edited : Reload(k) \/ Drop(k) \/ \E n \in Keys : Rename(k, n)

Answer ==
  \/ \E a \in ui.asked : Timer(a) \/ MetaClosure(a)
  \/ \E p \in ui.pre : PrefetchClosure(p) \/ PrefetchFails(p)
  \/ \E f \in ui.fetch : ValueClosure(f) \/ ValueErr(f)

Next == User \/ ScanClosure \/ Answer

\* Timers fire, calls have timeouts, and the UI loop runs posted closures.
Spec == Init /\ [][Next]_vars
LiveSpec == Spec /\ WF_vars(ScanClosure) /\ WF_vars(Answer)

----------------------------------------------------------------------------
(* Properties.                                                             *)

\* A value on screen is the value of the page that is open, unless that
\* page's own fetch is still on its way (fetchValuePage's a.valPage != p).
ValueIsOfPage ==
  ui.shown.kind = "value" =>
    \/ ui.shown.key = ui.page
    \/ \E f \in ui.fetch : f.live /\ f.key = ui.page

\* The page that is open is the one asked for last, or that request is still
\* on its way (loadMeta: "Only the newest selection may update the UI"); and
\* however fast the user scrolls, no second request can still open a page, and
\* no second fetch can still fill it.
PageIsNewestRequest ==
  /\ ui.wanted # None =>
       \/ ui.page = ui.wanted
       \/ \E a \in ui.asked : a.newest /\ a.key = ui.wanted
  /\ Cardinality({a \in ui.asked : a.newest}) <= 1
  /\ Cardinality({f \in ui.fetch : f.live}) <= 1

\* When the user stops, the pane comes to rest: the page asked for last is
\* open, and its answer is on screen, or an error.
PaneSettles ==
  <>[](ui.wanted # None => ui.page = ui.wanted /\ ui.shown.kind # "blank")

\* The cursor is on a key of the list, also where the window moves.
CursorOnKey ==
  ui.list # << >> => ui.off + ui.row \in DOMAIN ui.list

\* "loadMeta shows the selected key's value": the key under the cursor is the
\* one asked for last, whatever moved the window.
CursorIsWanted ==
  ui.off + ui.row \in DOMAIN ui.list => ui.list[ui.off + ui.row] = ui.wanted

\* The row below is the next key, also where the window moves.
NextRowIsNextKey ==
  [][Move(ui.row + 1) => ui'.off + ui'.row = ui.off + ui.row + 1]_vars

\* "Only the newest selection (metaSeq) may update the UI": a bulk prefetch
\* that a newer selection has overtaken leaves cursor and page alone.
OvertakenPrefetchIsInert ==
  [][\A p \in ui.pre : PrefetchClosure(p) /\ ~p.newest =>
       ui'.row = ui.row /\ ui'.page = ui.page]_vars

\* "only the latest request may update state": a failed fetch for a key that
\* the user has left does not overwrite the pane of the key he is on.
OvertakenErrorIsInert ==
  [][\A f \in ui.fetch : ValueErr(f) /\ f.key # ui.page => ui'.shown = ui.shown]_vars
=============================================================================
