----------------------------- MODULE ValuePage -----------------------------
(***************************************************************************)
(* One page of a list or stream value: fetchValuePage, nextValuePage and   *)
(* prevValuePage (app/valuepane.go), LoadList and LoadStream               *)
(* (keyview/view.go), and the item edits that write to the server and then *)
(* refresh value and metadata (runMutation, refreshValueAndMeta,           *)
(* editValueItem, delValueItem, newValueItem in app/keyops.go).            *)
(*                                                                         *)
(* content is the value on the server: the items of a list, or the ids of  *)
(* a stream's entries.  A fetch snapshots start and lastID, reads, and     *)
(* posts a closure; an edit sends a command, and its closure refreshes:    *)
(* fetchValuePage at once, and through reloadMeta a new page later on.     *)
(* list rows are 0-based, as in Redis.                                     *)
(***************************************************************************)
EXTENDS Integers, Sequences, FiniteSets, SequencesExt

CONSTANTS
  Kinds,      \* the kinds of value to open, of "list" and "stream"
  Values,     \* list items (numbers above 0)
  Initial,    \* the value of each kind at the start
  PageLen,    \* keyview.PageLen
  Others,     \* whether another client also writes to a stream
  Patient,    \* the kinds whose pages the user waits for before asking for the next
  MaxWrites,  \* bound: writes, ours and the other client's
  MaxFetches  \* bound: fetches in flight

ASSUME ValuePageAssumption ==
  /\ Kinds \subseteq {"list", "stream"}
  /\ Values \subseteq Nat \ {0}
  /\ Initial \in [Kinds -> Seq(Nat \ {0})]
  /\ \A k \in Kinds \ {"list"} : \A i \in DOMAIN Initial[k] : Initial[k][i] = i  \* ids
  /\ PageLen \in Nat \ {0, 1}
  /\ Others \in BOOLEAN /\ Patient \subseteq Kinds
  /\ MaxWrites \in Nat /\ MaxFetches \in Nat

Anchor == -1     \* the row "... (n earlier)" of a list page that is not the first
NoValue == 0     \* the empty text of that row

VARIABLES
  kind,      \* the type of the key
  content,   \* the value on the server
  nextId,    \* the next stream id
  page,      \* valPage
  fetch,     \* fetches in flight
  ops,       \* writes in flight
  reload,    \* a metadata reload that will open a new page
  writes,
  seen, old  \* history: stream entries shown since the page was opened, and
             \* those it held then

vars == <<kind, content, nextId, page, fetch, ops, reload, writes, seen, old>>

Max2(x, y) == IF x > y THEN x ELSE y
Min2(x, y) == IF x < y THEN x ELSE y
NewPage(k) == [kind |-> k, start |-> 0, total |-> 0, last |-> 0, more |-> FALSE, rows |-> << >>]

Size == Len(Initial[kind])
Ids == 1 .. Size + MaxWrites
Cells == Values \cup Ids \cup {NoValue}
Spots == IF kind = "list" THEN -1 .. Size + MaxWrites - 1 ELSE Ids

TypeOK ==
  /\ kind \in Kinds
  /\ content \in Seq(Values \cup Ids)
  /\ nextId \in 1 .. Size + MaxWrites + 1
  /\ page.kind \in {kind, "none"}
  /\ page.start \in Nat /\ page.total \in Nat
  /\ page.last \in Ids \cup {0} /\ page.more \in BOOLEAN
  /\ \A i \in DOMAIN page.rows : page.rows[i].at \in Spots /\ page.rows[i].val \in Cells
  /\ Cardinality(fetch) <= MaxFetches + 2 * MaxWrites
  /\ \A f \in fetch : f.st \in {"len", "range", "done"} /\ f.live \in BOOLEAN
  /\ \A o \in ops : o.st \in {"sent", "done"}
  /\ reload \in BOOLEAN
  /\ writes \in 0 .. MaxWrites

----------------------------------------------------------------------------
(* Fetching.                                                               *)

\* fetchValuePage snapshots its inputs.
FetchOf(p) ==
  [start |-> p.start, last |-> p.last, live |-> TRUE, total |-> 0, rows |-> << >>,
   st |-> IF kind = "list" THEN "len" ELSE "range"]

Start(p, fs) == fs \cup {FetchOf(p)}
Stale(fs) == {[f EXCEPT !.live = FALSE] : f \in fs}

\* LRANGE start start+PageLen-1, with the anchor row in front.
ListRows(c, start) ==
  LET n == Max2(0, Min2(PageLen, Len(c) - start))
      items == [i \in 1 .. n |-> [at |-> start + i - 1, val |-> c[start + i]]]
  IN  IF start > 0 THEN <<[at |-> Anchor, val |-> NoValue]>> \o items ELSE items

\* The part of a stream that an XRANGE from last on returns; ids increase.
From(c, last) ==
  LET n == CHOOSE x \in 1 .. Len(c) + 1 : \A i \in DOMAIN c : i >= x <=> c[i] >= last
  IN  SubSeq(c, n, Len(c))

\* Variant: the first entry is dropped, be it the boundary or not.
StreamRowsAlwaysDrop(c, last) ==
  LET after == From(c, last)
      msgs == SubSeq(after, 1, Min2(PageLen, Len(after)))
      ids == IF last # 0 /\ msgs # << >> THEN Tail(msgs) ELSE msgs
  IN  [i \in DOMAIN ids |-> [at |-> ids[i], val |-> ids[i]]]

\* XRANGE from last on, inclusive, without the boundary entry.
StreamRows(c, last) ==
  LET after == From(c, last)
      msgs == SubSeq(after, 1, Min2(PageLen, Len(after)))
      ids == IF last # 0 /\ msgs # << >> /\ msgs[1] = last THEN Tail(msgs) ELSE msgs
  IN  [i \in DOMAIN ids |-> [at |-> ids[i], val |-> ids[i]]]

RowIds(rows) == {rows[i].at : i \in DOMAIN rows}

Init ==
  /\ kind \in Kinds
  /\ content = Initial[kind]
  /\ nextId = Size + 1
  /\ page = NewPage(kind)
  /\ fetch = {FetchOf(NewPage(kind))}
  /\ ops = {} /\ reload = FALSE /\ writes = 0
  /\ seen = {} /\ old = Range(Initial[kind])

\* LLEN, and then LRANGE or XRANGE.
ReadLen(f) ==
  /\ f.st = "len"
  /\ fetch' = (fetch \ {f}) \cup {[f EXCEPT !.total = Len(content), !.st = "range"]}
  /\ UNCHANGED <<kind, content, nextId, page, ops, reload, writes, seen, old>>

ReadRange(f) ==
  /\ f.st = "range"
  /\ fetch' = (fetch \ {f}) \cup
       {[f EXCEPT !.st = "done",
                  !.rows = IF kind = "list" THEN ListRows(content, f.start)
                                            ELSE StreamRows(content, f.last)]}
  /\ UNCHANGED <<kind, content, nextId, page, ops, reload, writes, seen, old>>

\* The closure: p.lastID and hasMore from the answer, p.start as it is now.
Land(f) ==
  LET n == IF f.start > 0 THEN Len(f.rows) - 1 ELSE Len(f.rows)
  IN  /\ f.st = "done"
      /\ fetch' = fetch \ {f}
      /\ IF ~f.live THEN UNCHANGED <<page, seen>>
         ELSE /\ page' = [page EXCEPT
                   !.rows = f.rows,
                   !.more = IF kind = "list" THEN f.start + n < f.total ELSE f.rows # << >>,
                   !.total = IF kind = "list" THEN f.total ELSE @,
                   !.last = IF kind = "stream" /\ f.rows # << >> THEN Last(f.rows).at
                            ELSE IF kind = "stream" THEN f.last ELSE @]
              /\ seen' = IF kind = "stream" THEN seen \cup RowIds(f.rows) ELSE seen
      /\ UNCHANGED <<kind, content, nextId, ops, reload, writes, old>>

----------------------------------------------------------------------------
(* Paging.                                                                 *)

Ready == page.kind = kind /\ Cardinality(fetch) < MaxFetches /\ (kind \in Patient => fetch = {})

\* Variant: the page is fetched before start moves on.
NextPageFetchesFirst ==
  /\ Ready
  /\ kind = "list" /\ page.start + PageLen < page.total
  /\ page' = [page EXCEPT !.start = @ + PageLen]
  /\ fetch' = Start(page, fetch)
  /\ UNCHANGED <<kind, content, nextId, ops, reload, writes, seen, old>>

NextPage ==
  /\ Ready
  /\ \/ /\ kind = "list" /\ page.start + PageLen < page.total
        /\ page' = [page EXCEPT !.start = @ + PageLen]
     \/ /\ kind = "stream" /\ page.more
        /\ UNCHANGED page
  /\ fetch' = Start(page', fetch)
  /\ UNCHANGED <<kind, content, nextId, ops, reload, writes, seen, old>>

PrevPage ==
  /\ Ready
  /\ kind = "list" /\ page.start > 0
  /\ page' = [page EXCEPT !.start = Max2(0, @ - PageLen), !.last = 0]
  /\ fetch' = Start(page', fetch)
  /\ UNCHANGED <<kind, content, nextId, ops, reload, writes, seen, old>>

----------------------------------------------------------------------------
(* Writes.  An operation carries the row it was asked for, as history.     *)

Write == writes < MaxWrites /\ writes' = writes + 1
Send(o) ==
  /\ Write
  /\ ops' = ops \cup {o}
  /\ UNCHANGED <<kind, content, nextId, page, fetch, reload, seen, old>>

Op(cmd, at, val, row) == [kind |-> cmd, at |-> at, val |-> val, row |-> row, st |-> "sent"]

\* Editing a list row: ParseInt of the anchor's text gives index 0.
EditItem(i) ==
  /\ page.kind = "list" /\ i \in DOMAIN page.rows
  /\ \E v \in Values :
       Send(Op("LSET", Max2(0, page.rows[i].at), v, page.rows[i].at))

\* Deleting a row: a list's by value, a stream's by id.
DelItem(i) ==
  /\ page.kind = kind /\ i \in DOMAIN page.rows
  /\ Send(Op(IF kind = "list" THEN "LREM" ELSE "XDEL",
             page.rows[i].at, page.rows[i].val, page.rows[i].at))

\* Adding an item at the end.
NewItem ==
  /\ page.kind = kind
  /\ \/ kind = "list" /\ \E v \in Values : Send(Op("RPUSH", 0, v, 0))
     \/ kind = "stream" /\ Send(Op("XADD", 0, NoValue, 0))

\* What a command does to the value (Redis).
FirstAt(c, v) == CHOOSE i \in DOMAIN c : c[i] = v /\ \A j \in 1 .. i - 1 : c[j] # v
Removed(c, v) == IF v \in Range(c) THEN RemoveAt(c, FirstAt(c, v)) ELSE c

Written(c, o) ==
  CASE o.kind = "LSET" -> [c EXCEPT ![o.at + 1] = o.val]
    [] o.kind = "LREM" -> Removed(c, o.val)
    [] o.kind = "XDEL" -> Removed(c, o.at)
    [] o.kind = "RPUSH" -> Append(c, o.val)
    [] o.kind = "XADD" -> Append(c, nextId)

\* LSET past the end and any write that fails only flash an error.
Exec(o) ==
  /\ o.st = "sent"
  /\ IF o.kind = "LSET" /\ o.at >= Len(content)
     THEN ops' = ops \ {o} /\ UNCHANGED content
     ELSE /\ ops' = (ops \ {o}) \cup {[o EXCEPT !.st = "done"]}
          /\ content' = Written(content, o)
  /\ nextId' = IF o.kind = "XADD" THEN nextId + 1 ELSE nextId
  /\ UNCHANGED <<kind, page, fetch, reload, writes, seen, old>>

\* Variant: a write refreshes the metadata only.
RefreshMetaOnly(o) ==
  /\ o.st = "done"
  /\ ops' = ops \ {o}
  /\ UNCHANGED <<kind, content, nextId, page, fetch, reload, writes, seen, old>>

\* refreshValueAndMeta: fetch the page again, and reload the metadata.
Refresh(o) ==
  /\ o.st = "done"
  /\ ops' = ops \ {o}
  /\ fetch' = Start(page, fetch)
  /\ reload' = TRUE
  /\ UNCHANGED <<kind, content, nextId, page, writes, seen, old>>

\* The reloaded metadata opens the value anew (loadValue).
Reload ==
  LET p == NewPage(IF kind = "list" /\ content = << >> THEN "none" ELSE kind)
  IN  /\ reload
      /\ reload' = FALSE
      /\ page' = p
      /\ fetch' = Stale(fetch) \cup (IF p.kind = kind THEN {FetchOf(p)} ELSE {})
      /\ seen' = {} /\ old' = Range(content)
      /\ UNCHANGED <<kind, content, nextId, ops, writes>>

\* Another client adds an entry to a stream, or deletes one.
OtherClient ==
  /\ Others /\ Write /\ kind = "stream"
  /\ \/ content' = Append(content, nextId) /\ nextId' = nextId + 1
     \/ /\ \E d \in Range(content) : content' = Removed(content, d)
        /\ UNCHANGED nextId
  /\ UNCHANGED <<kind, page, fetch, ops, reload, seen, old>>

User == NextPage \/ PrevPage \/ NewItem \/ \E i \in DOMAIN page.rows : EditItem(i) \/ DelItem(i)

Fetching == \E f \in fetch : ReadLen(f) \/ ReadRange(f) \/ Land(f)
Writing == \E o \in ops : Exec(o) \/ Refresh(o)

Next == User \/ Fetching \/ Writing \/ Reload \/ OtherClient

\* Commands have timeouts, timers fire, and the UI loop runs posted closures.
Spec == Init /\ [][Next]_vars
LiveSpec == Spec /\ WF_vars(Fetching) /\ WF_vars(Writing) /\ WF_vars(Reload)

----------------------------------------------------------------------------
(* Properties.                                                             *)

\* Paging through a stream misses nothing: every entry up to lastID that was
\* there when the page was opened, and still is, has been shown (LoadStream's
\* inclusive range and its boundary entry, deleted or not).
StreamMissesNothing ==
  kind = "stream" => \A id \in Range(content) \cap old : id <= page.last => id \in seen

\* At rest the rows are the list from p.start on (for one client, and a user
\* who waits for each page).
RowsMatchPosition ==
  kind = "list" /\ page.kind = kind /\ fetch = {} /\ ops = {} /\ ~reload =>
    page.rows = ListRows(content, page.start)

\* However the user pages on, the pane comes to show what is on the server
\* again after each write (runMutation and its refresh).
PaneCatchesUp ==
  []<>(kind = "list" /\ page.kind = kind => page.rows = ListRows(content, page.start))

\* "runMutation executes a write in the background, then refreshes value+meta":
\* the refresh reads the page that is shown, not the one after it.
RefreshReadsSamePage ==
  [][\A o \in ops : Refresh(o) /\ kind = "stream" /\ page.rows # << >> =>
       \E f \in fetch' \ fetch : f.last < page.rows[1].at]_vars

\* "delValueItem deletes the selected row": of equal items, the one selected.
DeletesSelectedRow ==
  [][\A o \in ops : Exec(o) /\ o.kind = "LREM" /\ o.row # Anchor =>
       content' = RemoveAt(content, o.row + 1)]_vars

\* "editValueItem edits the selected row": the item written is the row's own.
EditsSelectedRow ==
  [][\A o \in ops : Exec(o) /\ o.kind = "LSET" => o.at = o.row]_vars
=============================================================================
