-------------------------- MODULE SelectionProofs --------------------------
(***************************************************************************)
(* Proofs about Selection, for any keys, window and bounds: the types,     *)
(* that a value on screen is the value of the page that is open, and that  *)
(* the page is the one asked for last, with one request at most that can   *)
(* still open or fill it.                                                  *)
(*                                                                         *)
(* The panes are one record, and the functions of the UI goroutine map it  *)
(* to another, so each has a lemma: what it does to the fields, and that   *)
(* it keeps PaneOK and Matches.  PaneOK adds to the types where the window *)
(* of the list can be; Matches says whom the requests that still count are *)
(* for.                                                                    *)
(***************************************************************************)
EXTENDS Selection, TLAPS, SequenceTheorems, FiniteSetTheorems

Half == W \div 2

\* The list holds a key once, and a window that has moved is full to the middle.
PaneOK(u) ==
  /\ u \in Panes
  /\ Len(u.list) <= Len(Found)
  /\ IsInjective(u.list)
  /\ u.off = 0 \/ u.off + Half < Len(u.list)

\* What is on screen or on its way for the page that is open.
PageMatches(u) ==
  /\ \A f \in u.fetch : f.live => f.key = u.page
  /\ u.shown.kind = "value" =>
       u.shown.key = u.page \/ \E f \in u.fetch : f.live /\ f.key = u.page

\* The metadata request that may still open a page, and what it is for.
RequestMatches(u) ==
  /\ \A a, b \in u.asked : a.newest /\ b.newest => a = b
  /\ u.wanted # None =>
       /\ \A a \in u.asked : a.newest => a.key = u.wanted
       /\ u.page = u.wanted \/ \E a \in u.asked : a.newest /\ a.key = u.wanted

Matches(u) == PageMatches(u) /\ RequestMatches(u)

IInv == TypeOK /\ PaneOK(ui) /\ Matches(ui)

----------------------------------------------------------------------------
(* The functions of the UI goroutine, field by field.                      *)

LEMMA HalfWindow == Half \in Nat /\ Half >= 2 /\ 2 * Half <= W /\ W \in Nat
  BY SelectionAssumption DEF Half

\* A list of the pane, and the numbers of its keys.
LEMMA ListFacts ==
  ASSUME NEW u, PaneOK(u)
  PROVE  /\ u.list \in Seq(Keys) /\ DOMAIN u.list = 1 .. Len(u.list)
         /\ Len(u.list) \in Nat /\ Len(Found) \in Nat
         /\ DOMAIN u.list \subseteq Rows
         /\ \A i \in DOMAIN u.list : u.list[i] \in Keys
  <1>1. u.list \in Seq(Keys) /\ Found \in Seq(Keys) /\ Len(u.list) <= Len(Found)
    BY SelectionAssumption DEF PaneOK, Panes
  <1>2. Len(u.list) \in Nat /\ Len(Found) \in Nat /\ DOMAIN u.list = 1 .. Len(u.list)
    BY <1>1, LenProperties
  <1> QED
    BY <1>1, <1>2, ElementOfSeq DEF Rows

\* loadValue opens the page and starts the one fetch that can fill it.
LEMMA LoadValueFields ==
  ASSUME NEW u \in Panes, NEW k \in Keys
  PROVE  LET v == LoadValue(u, k)
         IN  /\ v \in Panes
             /\ v.list = u.list /\ v.off = u.off /\ v.row = u.row /\ v.meta = u.meta
             /\ v.asked = u.asked /\ v.shown = u.shown /\ v.wanted = u.wanted
             /\ v.page = k
             /\ v.fetch = Stale(u.fetch) \cup {[key |-> k, live |-> TRUE]}
  <1>1. Stale(u.fetch) \subseteq Fetches
    <2>1. ASSUME NEW f \in u.fetch PROVE [f EXCEPT !.live = FALSE] \in Fetches
      <3>1. f \in Fetches
        BY DEF Panes
      <3> QED
        BY <3>1 DEF Fetches
    <2> QED
      BY <2>1 DEF Stale
  <1>2. [key |-> k, live |-> TRUE] \in Fetches
    BY DEF Fetches
  <1>3. Stale(u.fetch) \cup {[key |-> k, live |-> TRUE]} \in SUBSET Fetches
    BY <1>1, <1>2
  <1> HIDE DEF Stale
  <1> QED
    BY <1>3 DEF LoadValue, Panes

\* prefetchAround only starts a bulk call.
LEMMA PrefetchFields ==
  ASSUME NEW u, PaneOK(u), NEW i \in Rows
  PROVE  LET v == PrefetchAround(u, i)
         IN  /\ v \in Panes
             /\ v.list = u.list /\ v.off = u.off /\ v.row = u.row /\ v.meta = u.meta
             /\ v.asked = u.asked /\ v.shown = u.shown /\ v.wanted = u.wanted
             /\ v.page = u.page /\ v.fetch = u.fetch
  <1> DEFINE want == {u.list[j] : j \in {x \in DOMAIN u.list \ {i} :
                                            x \in i - Near .. i + Near}} \ u.meta
  <1>1. want \in SUBSET Keys
    BY ListFacts
  <1>2. [want |-> want, idx |-> i, newest |-> TRUE] \in Prefetches
    BY <1>1 DEF Prefetches
  <1>3. u \in Panes
    BY DEF PaneOK
  <1>4. PrefetchAround(u, i) =
          IF want = {} THEN u
          ELSE [u EXCEPT !.pre = @ \cup {[want |-> want, idx |-> i, newest |-> TRUE]}]
    BY DEF PrefetchAround
  <1> HIDE DEF want
  <1>5. CASE want = {}
    BY <1>3, <1>4, <1>5
  <1>6. CASE want # {}
    <2> DEFINE pre == u.pre \cup {[want |-> want, idx |-> i, newest |-> TRUE]}
    <2>1. PrefetchAround(u, i) = [u EXCEPT !.pre = pre]
      BY <1>4, <1>6
    <2>2. pre \in SUBSET Prefetches
      BY <1>2, <1>3 DEF Panes
    <2> HIDE DEF pre
    <2>3. [u EXCEPT !.pre = pre] \in Panes
      BY <1>3, <2>2 DEF Panes
    <2> QED
      BY <1>3, <2>1, <2>3 DEF Panes
  <1> QED
    BY <1>5, <1>6

\* The requests a newer selection has overtaken.
Overtaken(S) == {[x EXCEPT !.newest = FALSE] : x \in S}

\* loadMeta loads the value of a key whose metadata is there, and else only
\* asks for it, in a request that overtakes the others.
LEMMA LoadMetaFields ==
  ASSUME NEW u, PaneOK(u), NEW k \in Keys, NEW i \in Rows
  PROVE  LET v == LoadMeta(u, k, i)
         IN  /\ v \in Panes
             /\ v.list = u.list /\ v.off = u.off /\ v.row = u.row /\ v.shown = u.shown
             /\ v.wanted = k
             /\ k \in u.meta =>
                  /\ v.page = k /\ v.asked = Overtaken(u.asked)
                  /\ v.fetch = Stale(u.fetch) \cup {[key |-> k, live |-> TRUE]}
             /\ k \notin u.meta =>
                  /\ v.page = u.page /\ v.fetch = u.fetch
                  /\ v.asked = Overtaken(u.asked) \cup {[key |-> k, newest |-> TRUE, st |-> "timer"]}
  <1> DEFINE asked == Overtaken(u.asked)
             pre == Overtaken(u.pre)
             old == [u EXCEPT !.wanted = k, !.asked = asked, !.pre = pre]
  <1>1. u \in Panes
    BY DEF PaneOK
  <1>2. asked \in SUBSET Asked /\ pre \in SUBSET Prefetches
    <2>1. u.asked \in SUBSET Asked /\ u.pre \in SUBSET Prefetches
      BY <1>1 DEF Panes
    <2>2. \A x \in Asked : [x EXCEPT !.newest = FALSE] \in Asked
      BY DEF Asked
    <2>3. \A x \in Prefetches : [x EXCEPT !.newest = FALSE] \in Prefetches
      BY DEF Prefetches
    <2> QED
      BY <2>1, <2>2, <2>3 DEF Overtaken
  <1>3. LoadMeta(u, k, i) =
          IF k \in u.meta
          THEN PrefetchAround(LoadValue(old, k), i)
          ELSE [PrefetchAround(old, i) EXCEPT
                  !.asked = @ \cup {[key |-> k, newest |-> TRUE, st |-> "timer"]}]
    BY DEF LoadMeta, Overtaken
  <1> HIDE DEF asked, pre
  <1>4. /\ old \in Panes
        /\ old.list = u.list /\ old.off = u.off /\ old.row = u.row /\ old.meta = u.meta
        /\ old.asked = asked /\ old.shown = u.shown /\ old.wanted = k
        /\ old.page = u.page /\ old.fetch = u.fetch
    BY <1>1, <1>2 DEF Panes
  <1> HIDE DEF old
  <1>5. PaneOK(old)
    BY <1>4 DEF PaneOK
  <1>6. CASE k \in u.meta
    <2> DEFINE w == LoadValue(old, k)
    <2>1. /\ w \in Panes
          /\ w.list = u.list /\ w.off = u.off /\ w.row = u.row /\ w.shown = u.shown
          /\ w.asked = asked /\ w.wanted = k /\ w.page = k
          /\ w.fetch = Stale(u.fetch) \cup {[key |-> k, live |-> TRUE]}
      BY <1>4, LoadValueFields
    <2> HIDE DEF w
    <2>2. PaneOK(w)
      BY <2>1 DEF PaneOK
    <2>3. LoadMeta(u, k, i) = PrefetchAround(w, i)
      BY <1>3, <1>6 DEF w
    <2> QED
      BY <1>6, <2>1, <2>2, <2>3, PrefetchFields DEF asked
  <1>7. CASE k \notin u.meta
    <2> DEFINE w == PrefetchAround(old, i)
               req == [key |-> k, newest |-> TRUE, st |-> "timer"]
               more == asked \cup {req}
    <2>1. /\ w \in Panes
          /\ w.list = u.list /\ w.off = u.off /\ w.row = u.row /\ w.shown = u.shown
          /\ w.asked = asked /\ w.wanted = k /\ w.page = u.page /\ w.fetch = u.fetch
      BY <1>4, <1>5, PrefetchFields
    <2>2. req \in Asked
      BY DEF Asked
    <2>3. more \in SUBSET Asked
      BY <1>2, <2>2
    <2>4. LoadMeta(u, k, i) = [w EXCEPT !.asked = more]
      BY <1>3, <1>7, <2>1
    <2> HIDE DEF w, more
    <2>5. [w EXCEPT !.asked = more] \in Panes
      BY <2>1, <2>3 DEF Panes
    <2>6. /\ [w EXCEPT !.asked = more].asked = more
          /\ [w EXCEPT !.asked = more].list = w.list /\ [w EXCEPT !.asked = more].off = w.off
          /\ [w EXCEPT !.asked = more].row = w.row /\ [w EXCEPT !.asked = more].shown = w.shown
          /\ [w EXCEPT !.asked = more].wanted = w.wanted
          /\ [w EXCEPT !.asked = more].page = w.page /\ [w EXCEPT !.asked = more].fetch = w.fetch
      BY <2>1 DEF Panes
    <2> QED
      BY <1>7, <2>1, <2>4, <2>5, <2>6 DEF asked, more
  <1> QED
    BY <1>6, <1>7

\* No overtaken request counts, and no stale fetch.
LEMMA OvertakenFacts ==
  /\ \A S \in SUBSET Asked : \A x \in Overtaken(S) : ~x.newest
  /\ \A S \in SUBSET Fetches : \A x \in Stale(S) : ~x.live
  BY DEF Overtaken, Stale, Asked, Fetches

\* loadMeta leaves one request for the key it was called with, or its page.
LEMMA LoadMetaKeeps ==
  ASSUME NEW u, PaneOK(u), PageMatches(u), NEW k \in Keys, NEW i \in Rows
  PROVE  LET v == LoadMeta(u, k, i)
         IN  PaneOK(v) /\ Matches(v) /\ v.list = u.list /\ v.wanted = k /\ v.off = u.off
  <1> DEFINE v == LoadMeta(u, k, i)
  <1>1. /\ v \in Panes
        /\ v.list = u.list /\ v.off = u.off /\ v.shown = u.shown /\ v.wanted = k
        /\ k \in u.meta =>
             /\ v.page = k /\ v.asked = Overtaken(u.asked)
             /\ v.fetch = Stale(u.fetch) \cup {[key |-> k, live |-> TRUE]}
        /\ k \notin u.meta =>
             /\ v.page = u.page /\ v.fetch = u.fetch
             /\ v.asked = Overtaken(u.asked) \cup {[key |-> k, newest |-> TRUE, st |-> "timer"]}
    BY LoadMetaFields
  <1> HIDE DEF v
  <1>2. u.asked \in SUBSET Asked /\ u.fetch \in SUBSET Fetches /\ k # None
    BY SelectionAssumption DEF PaneOK, Panes
  <1>3. /\ \A x \in Overtaken(u.asked) : ~x.newest
        /\ \A x \in Stale(u.fetch) : ~x.live
    BY <1>2, OvertakenFacts
  <1>4. PaneOK(v)
    BY <1>1 DEF PaneOK
  <1>5. ASSUME k \in u.meta PROVE Matches(v)
    <2>1. PICK f : f.key = k /\ f.live /\ v.fetch = Stale(u.fetch) \cup {f}
      BY <1>1, <1>5
    <2>2. PageMatches(v)
      BY <1>1, <1>3, <1>5, <2>1 DEF PageMatches
    <2>3. RequestMatches(v)
      BY <1>1, <1>3, <1>5 DEF RequestMatches
    <2> QED
      BY <2>2, <2>3 DEF Matches
  <1>6. ASSUME k \notin u.meta PROVE Matches(v)
    <2>1. PICK a : a.key = k /\ a.newest /\ v.asked = Overtaken(u.asked) \cup {a}
      BY <1>1, <1>6
    <2>2. PageMatches(v)
      <3>1. v.page = u.page /\ v.fetch = u.fetch /\ v.shown = u.shown
        BY <1>1, <1>6
      <3> QED
        BY <3>1 DEF PageMatches
    <2>3. RequestMatches(v)
      BY <1>1, <1>3, <2>1 DEF RequestMatches
    <2> QED
      BY <2>2, <2>3 DEF Matches
  <1> QED
    BY <1>1, <1>4, <1>5, <1>6 DEF v, Matches

\* Matches is about five fields only.
LEMMA SameMatches ==
  ASSUME NEW u, NEW v, Matches(u),
         v.page = u.page, v.fetch = u.fetch, v.shown = u.shown,
         v.asked = u.asked, v.wanted = u.wanted
  PROVE  Matches(v)
  BY DEF Matches, PageMatches, RequestMatches

\* keys.Select and its callback: the window moves by half, or the key under
\* the cursor is loaded.
LEMMA SelectRowKeeps ==
  ASSUME NEW u, PaneOK(u), Matches(u), NEW r \in Int, r <= Len(Found),
         u.list # << >> \/ r >= 0
  PROVE  LET v == SelectRow(u, r)
         IN  /\ PaneOK(v) /\ Matches(v) /\ v.list = u.list
             /\ v.wanted = u.wanted \/ v.wanted \in Range(u.list)
  <1> DEFINE row == IF r <= 0 /\ u.list # << >> THEN 1 ELSE r
             v == [u EXCEPT !.row = row]
  <1>1. /\ u \in Panes /\ u.off \in Nat /\ Len(u.list) <= Len(Found)
        /\ u.off = 0 \/ u.off + Half < Len(u.list)
    BY DEF PaneOK, Panes
  <1>2. row \in Rows
    <2>1. u.list # << >> => Len(u.list) >= 1
      BY ListFacts, EmptySeq
    <2> QED
      BY <1>1, <2>1, ListFacts DEF Rows
  <1> HIDE DEF row
  <1>4. /\ v \in Panes
        /\ v.list = u.list /\ v.off = u.off /\ v.row = row /\ v.meta = u.meta
        /\ v.asked = u.asked /\ v.shown = u.shown /\ v.wanted = u.wanted
        /\ v.page = u.page /\ v.fetch = u.fetch
    BY <1>1, <1>2 DEF Panes
  <1> HIDE DEF v
  <1>5. PaneOK(v) /\ Matches(v)
    BY <1>4, SameMatches DEF PaneOK
  <1>6. SelectRow(u, r) = CASE r <= 0 -> v
        [] r > 0 /\ PastEnd(u, r) -> Advance(v)
        [] r > 0 /\ PastStart(u, r) /\ ~PastEnd(u, r) -> Retreat(v)
        [] OTHER -> IF u.off + r \in DOMAIN u.list THEN LoadMeta(v, u.list[u.off + r], u.off + r)
                    ELSE v
    BY DEF SelectRow, v, row
  <1>7. ASSUME NEW o \in Nat, o = 0 \/ o + Half < Len(u.list), Half \in Rows,
               SelectRow(u, r) = [v EXCEPT !.off = o, !.row = Half]
        PROVE  LET x == SelectRow(u, r)
               IN  PaneOK(x) /\ Matches(x) /\ x.list = u.list /\ x.wanted = u.wanted
    <2> DEFINE x == [v EXCEPT !.off = o, !.row = Half]
    <2>1. /\ x \in Panes
          /\ x.list = u.list /\ x.off = o
          /\ x.asked = v.asked /\ x.shown = v.shown /\ x.wanted = u.wanted /\ x.wanted = v.wanted
          /\ x.page = v.page /\ x.fetch = v.fetch
      <3>1. v \in Panes /\ o \in Nat /\ Half \in Rows
        BY <1>4, <1>7
      <3>2. /\ x \in Panes
            /\ x.list = v.list /\ x.off = o
            /\ x.asked = v.asked /\ x.shown = v.shown /\ x.wanted = v.wanted
            /\ x.page = v.page /\ x.fetch = v.fetch
        BY <3>1 DEF Panes
      <3> QED
        BY <1>4, <3>2
    <2> HIDE DEF x
    <2>2. Matches(x)
      BY <1>5, <2>1, SameMatches
    <2>3. PaneOK(x)
      BY <1>1, <1>7, <2>1 DEF PaneOK
    <2> QED
      BY <1>7, <2>1, <2>2, <2>3 DEF x
  <1>8. CASE r > 0 /\ PastEnd(u, r)
    <2>1. SelectRow(u, r) = [v EXCEPT !.off = u.off + Half, !.row = Half]
      BY <1>1, <1>4, <1>6, <1>8 DEF Advance, Half
    <2>2. u.off + W < Len(u.list)
      BY <1>8 DEF PastEnd
    <2>3. u.off + Half \in Nat /\ (u.off + Half) + Half < Len(u.list) /\ Half \in Rows
      BY <1>1, <2>2, HalfWindow, ListFacts DEF Rows
    <2> QED
      BY <1>7, <2>1, <2>3
  <1>9. CASE r > 0 /\ PastStart(u, r) /\ ~PastEnd(u, r)
    <2> DEFINE o == IF u.off < Half THEN 0 ELSE u.off - Half
    <2>1. SelectRow(u, r) = [v EXCEPT !.off = o, !.row = Half]
      BY <1>1, <1>4, <1>6, <1>9 DEF Retreat, Half
    <2>2. u.off > 0
      BY <1>9 DEF PastStart
    <2>3. o \in Nat /\ (o = 0 \/ o + Half < Len(u.list)) /\ Half \in Rows
      BY <1>1, <2>2, HalfWindow, ListFacts DEF Rows
    <2> QED
      BY <1>7, <2>1, <2>3
  <1>10. CASE /\ r > 0 /\ ~PastEnd(u, r) /\ ~PastStart(u, r)
              /\ u.off + r \in DOMAIN u.list
    <2> DEFINE i == u.off + r
               k == u.list[i]
    <2>1. SelectRow(u, r) = LoadMeta(v, k, i)
      BY <1>6, <1>10
    <2>2. k \in Keys /\ i \in Rows /\ k \in Range(u.list)
      BY <1>10, ListFacts DEF Range
    <2> HIDE DEF k, i
    <2> QED
      BY <1>4, <1>5, <2>1, <2>2, LoadMetaKeeps DEF Matches
  <1>11. CASE SelectRow(u, r) = v
    BY <1>4, <1>5, <1>11
  <1> QED
    BY <1>6, <1>8, <1>9, <1>10, <1>11

\* renderKeyList selects row 1, also of a list that has lost its last key.
LEMMA RenderKeeps ==
  ASSUME NEW u \in Panes, Len(u.list) <= Len(Found), IsInjective(u.list),
         u.off = 0 \/ u.off + Half <= Len(u.list), Matches(u)
  PROVE  LET v == RenderKeyList(u)
         IN  /\ PaneOK(v) /\ Matches(v) /\ v.list = u.list
             /\ v.wanted = u.wanted \/ v.wanted \in Range(u.list)
  <1>1. /\ u.off \in Nat /\ u.list \in Seq(Keys) /\ Len(u.list) \in Nat
        /\ Len(Found) \in Nat /\ u.list # << >> => Len(u.list) >= 1
    <2>1. u.off \in Nat /\ u.list \in Seq(Keys) /\ Found \in Seq(Keys)
      BY SelectionAssumption DEF Panes
    <2> QED
      BY <2>1, EmptySeq, LenProperties
  <1>2. CASE u.list = << >>
    <2>1. Len(u.list) = 0 /\ u.off = 0
      BY <1>1, <1>2, EmptySeq, HalfWindow
    <2> QED
      BY <1>2, <2>1 DEF RenderKeyList, PaneOK
  <1>3. CASE u.list # << >> /\ (u.off = 0 \/ u.off + Half < Len(u.list))
    <2>1. PaneOK(u)
      BY <1>3 DEF PaneOK
    <2> QED
      BY <1>1, <1>3, <2>1, SelectRowKeeps DEF RenderKeyList
  <1>4. CASE u.list # << >> /\ u.off > 0 /\ u.off + Half = Len(u.list)
    <2> DEFINE v == [u EXCEPT !.row = 1]
               o == IF u.off < Half THEN 0 ELSE u.off - Half
               x == [v EXCEPT !.off = o, !.row = Half]
    <2>1. ~PastEnd(u, 1) /\ PastStart(u, 1)
      BY <1>4, HalfWindow, SelectionAssumption DEF PastEnd, PastStart
    <2>2. SelectRow(u, 1) = Retreat(v)
      BY <1>4, <2>1 DEF SelectRow
    <2>3. v \in Panes /\ v.off = u.off
      <3>1. 1 \in Rows
        BY <1>1, <1>4 DEF Rows
      <3> QED
        BY <3>1 DEF Panes
    <2>4. RenderKeyList(u) = x
      BY <1>4, <2>2, <2>3 DEF RenderKeyList, Retreat, Half
    <2>5. o \in Nat /\ (o = 0 \/ o + Half < Len(u.list)) /\ Half \in Rows
      BY <1>1, <1>4, HalfWindow DEF Rows
    <2> HIDE DEF o
    <2>6. /\ x \in Panes
          /\ x.list = u.list /\ x.off = o
          /\ x.asked = u.asked /\ x.shown = u.shown /\ x.wanted = u.wanted
          /\ x.page = u.page /\ x.fetch = u.fetch
      BY <2>3, <2>5 DEF Panes
    <2> HIDE DEF x
    <2>7. Matches(x)
      BY <2>6, SameMatches
    <2>8. PaneOK(x)
      BY <2>5, <2>6 DEF PaneOK
    <2> QED
      BY <2>4, <2>6, <2>7, <2>8
  <1>5. u.off = 0 \/ u.off + Half < Len(u.list) \/ (u.off > 0 /\ u.off + Half = Len(u.list))
    BY <1>1, HalfWindow
  <1> QED
    BY <1>2, <1>3, <1>4, <1>5

----------------------------------------------------------------------------
(* The inductive invariant.                                                *)

LEMMA InitIInv == Init => IInv
  <1> SUFFICES ASSUME Init PROVE IInv
    OBVIOUS
  <1>1. /\ ui.list = << >> /\ ui.off = 0 /\ ui.asked = {} /\ ui.fetch = {}
        /\ ui.shown = Blank /\ ui.wanted = None /\ ui.page = None
    BY DEF Init
  <1>2. Len(Found) \in Nat /\ << >> \in Seq(Keys) /\ Len(<< >>) = 0 /\ IsInjective(<< >>)
    BY SelectionAssumption, LenProperties DEF IsInjective
  <1>3. ui \in Panes
    BY <1>2 DEF Init, Panes, Rows, Contents, Blank
  <1>4. PaneOK(ui)
    BY <1>1, <1>2, <1>3 DEF PaneOK
  <1>5. Matches(ui)
    BY <1>1 DEF Matches, PageMatches, RequestMatches, Blank
  <1>6. moves \in 0 .. MaxMoves
    BY SelectionAssumption DEF Init
  <1>7. sessions \in 0 .. MaxSessions
    BY SelectionAssumption DEF Init
  <1> QED
    BY <1>3, <1>4, <1>5, <1>6, <1>7 DEF IInv, TypeOK

\* The steps that only count keep the counters in their bounds.
LEMMA Counters ==
  ASSUME IInv, \/ Act
               \/ UNCHANGED <<moves, sessions>>
               \/ sessions < MaxSessions /\ sessions' = sessions + 1 /\ moves' = moves
  PROVE  moves' \in 0 .. MaxMoves /\ sessions' \in 0 .. MaxSessions
  BY SelectionAssumption DEF IInv, TypeOK, Act

LEMMA RescanStep ==
  ASSUME IInv, Rescan
  PROVE  IInv'
  <1> DEFINE fetch == Stale(ui.fetch)
             late == ui.late + CASE ui.scan = "running" -> 2 [] ui.scan = "listed" -> 1
                                 [] OTHER -> 0
  <1>1. ui \in Panes
    BY DEF IInv, TypeOK
  <1>2. ui.fetch \in SUBSET Fetches /\ ui.scan \in {"running", "listed", "done"} /\ ui.late \in Nat
    BY <1>1 DEF Panes
  <1>3. fetch \in SUBSET Fetches /\ \A f \in fetch : ~f.live
    BY <1>2, OvertakenFacts DEF Stale, Fetches
  <1>4. late \in Nat
    BY <1>2
  <1>5. ui' = [ui EXCEPT !.list = << >>, !.off = 0, !.wanted = None, !.scan = "running", !.meta = {},
                         !.page = None, !.fetch = fetch, !.shown = Blank, !.late = late]
    BY <1>1 DEF Rescan, Panes
  <1> HIDE DEF fetch, late
  <1>6. << >> \in Seq(Keys) /\ Blank \in Contents
    BY DEF Contents, Blank
  <1>7. /\ ui' \in Panes
        /\ ui'.list = << >> /\ ui'.off = 0 /\ ui'.wanted = None /\ ui'.fetch = fetch
        /\ ui'.shown = Blank /\ ui'.asked = ui.asked
    BY <1>1, <1>3, <1>4, <1>5, <1>6 DEF Panes
  <1>8. PaneOK(ui')
    <2>1. Len(<< >>) = 0 /\ IsInjective(<< >>) /\ Len(Found) >= 0
      BY SelectionAssumption DEF IsInjective
    <2> QED
      BY <1>7, <2>1 DEF PaneOK
  <1>9. Matches(ui')
    BY <1>3, <1>7 DEF IInv, Matches, PageMatches, RequestMatches, Blank
  <1> QED
    BY <1>7, <1>8, <1>9, Counters DEF IInv, TypeOK, Rescan

\* A pane that renders its list keeps the invariant.
LEMMA RenderedStep ==
  ASSUME IInv, NEW u \in Panes, Rendered(u), Len(u.list) <= Len(Found), IsInjective(u.list),
         u.off = 0 \/ u.off + Half <= Len(u.list), Matches(u)
  PROVE  IInv'
  <1>1. PaneOK(ui') /\ Matches(ui')
    BY RenderKeeps DEF Rendered
  <1> QED
    BY <1>1, Counters DEF IInv, TypeOK, Rendered, PaneOK

LEMMA ScanClosureStep ==
  ASSUME IInv, ScanClosure
  PROVE  IInv'
  <1>1. /\ ui \in Panes /\ PaneOK(ui) /\ Matches(ui) /\ ui.off \in Nat /\ ui.late \in Nat
        /\ Len(ui.list) <= Len(Found) /\ IsInjective(ui.list)
        /\ ui.off = 0 \/ ui.off + Half < Len(ui.list)
        /\ Len(ui.list) \in Nat /\ Len(Found) \in Nat
    BY ListFacts DEF IInv, PaneOK, Panes
  <1>2. CASE Batch
    <2> DEFINE u == [ui EXCEPT !.list = Found, !.scan = "listed"]
    <2>1. /\ u \in Panes
          /\ u.list = Found /\ u.off = ui.off
          /\ u.asked = ui.asked /\ u.shown = ui.shown /\ u.wanted = ui.wanted
          /\ u.page = ui.page /\ u.fetch = ui.fetch
      BY <1>1, SelectionAssumption DEF Panes
    <2>2. Rendered(u)
      BY <1>2 DEF Batch
    <2> HIDE DEF u
    <2>3. Matches(u)
      BY <1>1, <2>1, SameMatches
    <2>4. u.off = 0 \/ u.off + Half <= Len(u.list)
      BY <1>1, <2>1, HalfWindow
    <2>5. Len(u.list) <= Len(Found) /\ IsInjective(u.list)
      BY <1>1, <2>1, SelectionAssumption
    <2> QED
      BY <2>1, <2>2, <2>3, <2>4, <2>5, RenderedStep
  <1>3. ASSUME NEW u \in Panes, Rendered(u), u.list = ui.list, u.off = ui.off,
               u.asked = ui.asked, u.shown = ui.shown, u.wanted = ui.wanted,
               u.page = ui.page, u.fetch = ui.fetch
        PROVE  IInv'
    <2>1. Matches(u)
      BY <1>1, <1>3, SameMatches
    <2>2. u.off = 0 \/ u.off + Half <= Len(u.list)
      BY <1>1, <1>3, HalfWindow
    <2> QED
      BY <1>1, <1>3, <2>1, <2>2, RenderedStep
  <1>4. CASE ScanDone
    <2> DEFINE u == [ui EXCEPT !.scan = "done"]
    <2>1. /\ u \in Panes
          /\ u.list = ui.list /\ u.off = ui.off
          /\ u.asked = ui.asked /\ u.shown = ui.shown /\ u.wanted = ui.wanted
          /\ u.page = ui.page /\ u.fetch = ui.fetch
      BY <1>1 DEF Panes
    <2> QED
      BY <1>3, <1>4, <2>1 DEF ScanDone
  <1>5. CASE LateClosure
    <2>1. PICK n \in 0 .. ui.late - 1 : Rendered([ui EXCEPT !.late = n])
      BY <1>5 DEF LateClosure
    <2> DEFINE u == [ui EXCEPT !.late = n]
    <2>2. n \in Nat
      BY <1>1
    <2>3. /\ u \in Panes
          /\ u.list = ui.list /\ u.off = ui.off
          /\ u.asked = ui.asked /\ u.shown = ui.shown /\ u.wanted = ui.wanted
          /\ u.page = ui.page /\ u.fetch = ui.fetch
      BY <1>1, <2>2 DEF Panes
    <2> QED
      BY <1>3, <2>1, <2>3
  <1> QED
    BY <1>2, <1>4, <1>5 DEF ScanClosure

\* What the invariant says of the pane.
LEMMA PaneFacts ==
  ASSUME IInv
  PROVE  /\ ui \in Panes /\ PaneOK(ui) /\ Matches(ui) /\ PageMatches(ui) /\ RequestMatches(ui)
         /\ ui.list \in Seq(Keys) /\ ui.off \in Nat /\ Len(ui.list) <= Len(Found)
         /\ IsInjective(ui.list)
         /\ ui.off = 0 \/ ui.off + Half < Len(ui.list)
         /\ Len(ui.list) \in Nat /\ Len(Found) \in Nat /\ 0 \in Rows
         /\ ui.meta \in SUBSET Keys /\ ui.asked \in SUBSET Asked /\ ui.fetch \in SUBSET Fetches
         /\ ui.pre \in SUBSET Prefetches
         /\ Range(ui.list) \subseteq Keys
  BY ListFacts DEF IInv, PaneOK, Panes, Matches, Rows, Range

LEMMA MoveStep ==
  ASSUME IInv, NEW r \in Rows, Move(r)
  PROVE  IInv'
  <1>1. r \in Int /\ r <= Len(Found) /\ r >= 0
    BY PaneFacts DEF Rows
  <1>2. PaneOK(ui') /\ Matches(ui')
    BY <1>1, PaneFacts, SelectRowKeeps DEF Move
  <1> QED
    BY <1>2, Counters DEF IInv, TypeOK, Move, PaneOK

\* The cached metadata of a pane changes.
LEMMA MetaFields ==
  ASSUME IInv, NEW m \in SUBSET Keys
  PROVE  LET u == [ui EXCEPT !.meta = m]
         IN  PaneOK(u) /\ Matches(u) /\ u.list = ui.list
  <1> DEFINE u == [ui EXCEPT !.meta = m]
  <1>1. /\ u \in Panes
        /\ u.list = ui.list /\ u.off = ui.off
        /\ u.asked = ui.asked /\ u.shown = ui.shown /\ u.wanted = ui.wanted
        /\ u.page = ui.page /\ u.fetch = ui.fetch
    BY PaneFacts DEF Panes
  <1> HIDE DEF u
  <1>2. Matches(u)
    BY <1>1, PaneFacts, SameMatches
  <1>3. PaneOK(u)
    BY <1>1, PaneFacts DEF PaneOK
  <1> QED
    BY <1>1, <1>2, <1>3 DEF u

LEMMA ReloadStep ==
  ASSUME IInv, NEW k, Reload(k)
  PROVE  IInv'
  <1> DEFINE u == [ui EXCEPT !.meta = ui.meta \ {k}]
  <1>1. k \in Keys /\ 0 \in Rows /\ ui.meta \ {k} \in SUBSET Keys
    BY PaneFacts DEF Reload
  <1>2. PaneOK(u) /\ PageMatches(u)
    BY <1>1, MetaFields DEF Matches
  <1>3. ui' = LoadMeta(u, k, 0)
    BY PaneFacts DEF Reload
  <1> HIDE DEF u
  <1>4. PaneOK(ui') /\ Matches(ui')
    BY <1>1, <1>2, <1>3, LoadMetaKeeps
  <1> QED
    BY <1>4, Counters DEF IInv, TypeOK, Reload, PaneOK

\* A list that holds a key once loses it with one removal.
LEMMA RemoveKey ==
  ASSUME NEW s \in Seq(Keys), IsInjective(s), NEW i \in 1 .. Len(s)
  PROVE  LET t == RemoveAt(s, i)
         IN  /\ t \in Seq(Keys) /\ Len(t) = Len(s) - 1 /\ IsInjective(t)
             /\ s[i] \notin Range(t)
  <1> DEFINE t == RemoveAt(s, i)
             below == SubSeq(s, 1, i - 1)
             above == SubSeq(s, i + 1, Len(s))
  <1>0. Len(s) \in Nat /\ DOMAIN s = 1 .. Len(s)
    BY LenProperties
  <1>1. /\ below \in Seq(Keys) /\ Len(below) = i - 1
        /\ \A j \in 1 .. i - 1 : below[j] = s[j]
    BY <1>0
  <1>2. /\ above \in Seq(Keys) /\ Len(above) = Len(s) - i
        /\ \A j \in 1 .. Len(s) - i : above[j] = s[j + i]
    <2>1. i + 1 \in Int /\ Len(s) \in Int /\ \A j \in i + 1 .. Len(s) : s[j] \in Keys
      BY <1>0
    <2>2. /\ above \in Seq(Keys)
          /\ Len(above) = IF i + 1 <= Len(s) THEN Len(s) - (i + 1) + 1 ELSE 0
          /\ \A j \in 1 .. Len(s) - (i + 1) + 1 : above[j] = s[(i + 1) + j - 1]
      BY <2>1, SubSeqProperties
    <2> HIDE DEF above
    <2>3. Len(above) = Len(s) - i
      <3>1. i \in Int /\ Len(s) \in Int /\ i <= Len(s)
        BY <1>0
      <3>2. (IF i + 1 <= Len(s) THEN Len(s) - (i + 1) + 1 ELSE 0) = Len(s) - i
        BY <3>1
      <3> QED
        BY <2>2, <3>2
    <2>4. ASSUME NEW j \in 1 .. Len(s) - i PROVE above[j] = s[j + i]
      <3>1. j \in 1 .. Len(s) - (i + 1) + 1 /\ (i + 1) + j - 1 = j + i
        BY <1>0
      <3> QED
        BY <2>2, <3>1
    <2> QED
      BY <2>2, <2>3, <2>4
  <1>3. t = below \o above
    BY DEF RemoveAt
  <1> HIDE DEF below, above
  <1>4. /\ below \o above \in Seq(Keys)
        /\ Len(below \o above) = Len(below) + Len(above)
        /\ \A j \in 1 .. Len(below) + Len(above) :
             (below \o above)[j] = IF j <= Len(below) THEN below[j] ELSE above[j - Len(below)]
    BY <1>1, <1>2, ConcatProperties
  <1> HIDE DEF t
  <1>5. t \in Seq(Keys) /\ Len(t) = Len(s) - 1 /\ DOMAIN t = 1 .. Len(s) - 1
    <2>1. t \in Seq(Keys) /\ Len(t) = Len(s) - 1
      BY <1>0, <1>1, <1>2, <1>3, <1>4
    <2> QED
      BY <2>1, LenProperties
  <1>6. \A j \in 1 .. Len(s) - 1 : t[j] = s[IF j < i THEN j ELSE j + 1]
    <2> SUFFICES ASSUME NEW j \in 1 .. Len(s) - 1
                 PROVE  t[j] = s[IF j < i THEN j ELSE j + 1]
      OBVIOUS
    <2>0. t[j] = IF j <= Len(below) THEN below[j] ELSE above[j - Len(below)]
      <3>1. j \in 1 .. Len(below) + Len(above)
        BY <1>0, <1>1, <1>2
      <3> QED
        BY <1>3, <1>4, <3>1
    <2>1. CASE j < i
      <3>1. j \in 1 .. i - 1 /\ j <= Len(below)
        BY <1>1, <2>1
      <3> QED
        BY <1>1, <2>0, <2>1, <3>1
    <2>2. CASE j >= i
      <3>1. j - (i - 1) \in 1 .. Len(s) - i /\ j - (i - 1) + i = j + 1
        BY <1>0, <2>2
      <3>2. t[j] = above[j - (i - 1)]
        BY <1>1, <2>0, <2>2
      <3>3. above[j - (i - 1)] = s[j + 1]
        BY <1>2, <3>1
      <3> QED
        BY <2>2, <3>2, <3>3
    <2> QED
      BY <1>0, <2>1, <2>2
  <1>7. \A a, b \in 1 .. Len(s) : s[a] = s[b] => a = b
    BY <1>0 DEF IsInjective
  <1>8. IsInjective(t)
    <2> SUFFICES ASSUME NEW j \in 1 .. Len(s) - 1, NEW l \in 1 .. Len(s) - 1, t[j] = t[l]
                 PROVE  j = l
      BY <1>5 DEF IsInjective
    <2> DEFINE a == IF j < i THEN j ELSE j + 1
               b == IF l < i THEN l ELSE l + 1
    <2>1. a \in 1 .. Len(s) /\ b \in 1 .. Len(s) /\ t[j] = s[a] /\ t[l] = s[b]
      BY <1>0, <1>6
    <2>2. a = b
      BY <1>7, <2>1
    <2> QED
      BY <1>0, <2>2
  <1>9. s[i] \notin Range(t)
    <2> SUFFICES ASSUME NEW j \in 1 .. Len(s) - 1, t[j] = s[i] PROVE FALSE
      BY <1>5 DEF Range
    <2> DEFINE a == IF j < i THEN j ELSE j + 1
    <2>1. a \in 1 .. Len(s) /\ t[j] = s[a] /\ a # i
      BY <1>0, <1>6
    <2> QED
      BY <1>7, <2>1
  <1> QED
    BY <1>5, <1>8, <1>9 DEF t

\* dropKeyLocal closes the page of the key it drops, and only that.
LEMMA DropStep ==
  ASSUME IInv, NEW k, Drop(k)
  PROVE  IInv'
  <1> DEFINE at == CHOOSE i \in DOMAIN ui.list : ui.list[i] = k
             rest == RemoveAt(ui.list, at)
             meta == ui.meta \ {k}
             wanted == IF ui.wanted = k THEN None ELSE ui.wanted
             u == [ui EXCEPT !.list = rest, !.meta = meta, !.wanted = wanted]
             v == RenderKeyList(u)
             w == [v EXCEPT !.page = None, !.fetch = Stale(v.fetch), !.shown = Blank]
  <1>1. at \in 1 .. Len(ui.list) /\ ui.list[at] = k
    BY PaneFacts, LenProperties DEF Drop, Range
  <1> HIDE DEF at
  <1>2. /\ rest \in Seq(Keys) /\ Len(rest) = Len(ui.list) - 1 /\ IsInjective(rest)
        /\ k \notin Range(rest)
    BY <1>1, PaneFacts, RemoveKey
  <1>3. meta \in SUBSET Keys /\ wanted \in Keys \cup {None} /\ wanted # k
    <2>1. ui.wanted \in Keys \cup {None} /\ k # None
      BY PaneFacts, SelectionAssumption DEF Panes, Drop
    <2> QED
      BY <2>1, PaneFacts
  <1>4. ui' = IF v.page = k THEN w ELSE v
    BY PaneFacts DEF Drop, at
  <1> HIDE DEF rest, meta
  <1>5. /\ u \in Panes
        /\ u.list = rest /\ u.off = ui.off
        /\ u.asked = ui.asked /\ u.shown = ui.shown /\ u.wanted = wanted
        /\ u.page = ui.page /\ u.fetch = ui.fetch
    <2> HIDE DEF wanted
    <2> QED
      BY <1>2, <1>3, PaneFacts DEF Panes
  <1> HIDE DEF u, w
  <1>6. Matches(u)
    <2>1. PageMatches(u)
      BY <1>5, PaneFacts DEF PageMatches
    <2>2. RequestMatches(u)
      BY <1>5, PaneFacts DEF RequestMatches
    <2> QED
      BY <2>1, <2>2 DEF Matches
  <1>7. /\ PaneOK(v) /\ Matches(v)
        /\ v.list = rest /\ (v.wanted = wanted \/ v.wanted \in Range(rest))
    <2>1. Len(u.list) <= Len(Found) /\ IsInjective(u.list)
      BY <1>2, <1>5, PaneFacts
    <2>2. u.off = 0 \/ u.off + Half <= Len(u.list)
      BY <1>2, <1>5, PaneFacts, HalfWindow
    <2> QED
      BY <1>5, <1>6, <2>1, <2>2, RenderKeeps
  <1> HIDE DEF v
  <1>8. v.wanted # k
    BY <1>2, <1>3, <1>7
  <1>9. ASSUME v.page = k PROVE PaneOK(w) /\ Matches(w)
    <2> DEFINE fetch == Stale(v.fetch)
    <2>1. v \in Panes /\ v.fetch \in SUBSET Fetches
      BY <1>7 DEF PaneOK, Panes
    <2>2. fetch \in SUBSET Fetches /\ \A f \in fetch : ~f.live
      BY <2>1, OvertakenFacts DEF Stale, Fetches
    <2>3. w = [v EXCEPT !.page = None, !.fetch = fetch, !.shown = Blank]
      BY DEF w
    <2> HIDE DEF fetch
    <2>4. Blank \in Contents
      BY DEF Blank, Contents
    <2>5. /\ w \in Panes
          /\ w.list = v.list /\ w.off = v.off /\ w.asked = v.asked /\ w.wanted = v.wanted
          /\ w.page = None /\ w.fetch = fetch /\ w.shown = Blank
      BY <2>1, <2>2, <2>3, <2>4 DEF Panes
    <2>6. PageMatches(w)
      BY <2>2, <2>5 DEF PageMatches, Blank
    <2>7. RequestMatches(w)
      BY <1>7, <1>8, <1>9, <2>5 DEF Matches, RequestMatches
    <2> QED
      BY <1>7, <2>5, <2>6, <2>7 DEF PaneOK, Matches
  <1>10. PaneOK(ui') /\ Matches(ui')
    BY <1>4, <1>7, <1>9
  <1> QED
    BY <1>10, Counters DEF IInv, TypeOK, Drop, PaneOK

\* A rename loads the new name on top of what rendering the list has loaded.
LEMMA RenameStep ==
  ASSUME IInv, NEW k, NEW n \in Keys, Rename(k, n)
  PROVE  IInv'
  <1> DEFINE list == [i \in DOMAIN ui.list |-> IF ui.list[i] = k THEN n ELSE ui.list[i]]
             meta == ui.meta \ {k}
             u == [ui EXCEPT !.list = list, !.meta = meta]
             v == RenderKeyList(u)
  <1>1. DOMAIN ui.list = 1 .. Len(ui.list) /\ \A i \in 1 .. Len(ui.list) : ui.list[i] \in Keys
    BY PaneFacts, ListFacts
  <1>2. n \notin Range(ui.list) /\ meta \in SUBSET Keys
    BY PaneFacts DEF Rename
  <1>3. list \in Seq(Keys) /\ Len(list) = Len(ui.list)
    BY <1>1, PaneFacts
  <1>4. IsInjective(list)
    BY <1>1, <1>2, PaneFacts DEF IsInjective, Range
  <1>5. ui' = LoadMeta(v, n, 0)
    BY PaneFacts DEF Rename
  <1> HIDE DEF list, meta
  <1>6. /\ u \in Panes
        /\ u.list = list /\ u.off = ui.off
        /\ u.asked = ui.asked /\ u.shown = ui.shown /\ u.wanted = ui.wanted
        /\ u.page = ui.page /\ u.fetch = ui.fetch
    BY <1>2, <1>3, PaneFacts DEF Panes
  <1> HIDE DEF u
  <1>7. Matches(u)
    BY <1>6, PaneFacts, SameMatches
  <1>8. PaneOK(v) /\ Matches(v)
    <2>1. Len(u.list) <= Len(Found) /\ IsInjective(u.list)
      BY <1>3, <1>4, <1>6, PaneFacts
    <2>2. u.off = 0 \/ u.off + Half <= Len(u.list)
      BY <1>3, <1>6, PaneFacts, HalfWindow
    <2> QED
      BY <1>6, <1>7, <2>1, <2>2, RenderKeeps
  <1> HIDE DEF v
  <1>9. PaneOK(ui') /\ Matches(ui')
    BY <1>5, <1>8, PaneFacts, LoadMetaKeeps DEF Matches
  <1> QED
    BY <1>9, Counters DEF IInv, TypeOK, Rename, PaneOK

\* The debounce timer of the newest request starts its call; others just end.
LEMMA TimerStep ==
  ASSUME IInv, NEW a \in ui.asked, Timer(a)
  PROVE  IInv'
  <1> DEFINE b == [a EXCEPT !.st = "call"]
             asked == (ui.asked \ {a}) \cup IF a.newest THEN {b} ELSE {}
  <1>1. a \in Asked
    BY PaneFacts
  <1>2. b \in Asked /\ b.key = a.key /\ b.newest = a.newest
    BY <1>1 DEF Asked
  <1>3. asked \in SUBSET Asked
    BY <1>2, PaneFacts
  <1>4. ui' = [ui EXCEPT !.asked = asked] /\ UNCHANGED <<moves, sessions>>
    BY PaneFacts DEF Timer
  <1> HIDE DEF b
  <1>5. RequestMatches([ui EXCEPT !.asked = asked])
    <2> DEFINE v == [ui EXCEPT !.asked = asked]
    <2>1. v.asked = asked /\ v.wanted = ui.wanted /\ v.page = ui.page
      BY PaneFacts DEF Panes
    <2> HIDE DEF v
    <2>2. \A x, y \in asked : x.newest /\ y.newest => x = y
      BY <1>2, PaneFacts DEF RequestMatches
    <2>3. ui.wanted # None =>
            /\ \A x \in asked : x.newest => x.key = ui.wanted
            /\ ui.page = ui.wanted \/ \E x \in asked : x.newest /\ x.key = ui.wanted
      BY <1>2, PaneFacts DEF RequestMatches
    <2>4. RequestMatches(v)
      BY <2>1, <2>2, <2>3 DEF RequestMatches
    <2> QED
      BY <2>4 DEF v
  <1> HIDE DEF asked
  <1>6. /\ ui' \in Panes /\ RequestMatches(ui')
        /\ ui'.list = ui.list /\ ui'.off = ui.off /\ ui'.shown = ui.shown
        /\ ui'.page = ui.page /\ ui'.fetch = ui.fetch
    BY <1>3, <1>4, <1>5, PaneFacts DEF Panes
  <1>7. PageMatches(ui') /\ PaneOK(ui')
    BY <1>6, PaneFacts DEF PageMatches, PaneOK
  <1> QED
    BY <1>4, <1>6, <1>7, Counters DEF IInv, TypeOK, Matches

\* The call of the newest request opens its page; the others are dropped.
LEMMA MetaClosureStep ==
  ASSUME IInv, NEW a \in ui.asked, MetaClosure(a)
  PROVE  IInv'
  <1> DEFINE asked == ui.asked \ {a}
             meta == ui.meta \cup {a.key}
             u == [ui EXCEPT !.asked = asked]
             w == [u EXCEPT !.meta = meta]
             v == LoadValue(w, a.key)
  <1>1. a.key \in Keys /\ asked \in SUBSET Asked /\ meta \in SUBSET Keys
    BY PaneFacts DEF Asked
  <1>2. ui' = (IF a.newest THEN v ELSE u) /\ UNCHANGED <<moves, sessions>>
    <2>1. u.meta = ui.meta
      BY PaneFacts DEF Panes
    <2> QED
      BY <2>1 DEF MetaClosure
  <1> HIDE DEF asked, meta
  <1>3. /\ u \in Panes
        /\ u.list = ui.list /\ u.off = ui.off
        /\ u.asked = asked /\ u.shown = ui.shown /\ u.wanted = ui.wanted
        /\ u.page = ui.page /\ u.fetch = ui.fetch
    BY <1>1, PaneFacts DEF Panes
  <1>4. /\ w \in Panes
        /\ w.list = u.list /\ w.off = u.off
        /\ w.asked = u.asked /\ w.shown = u.shown /\ w.wanted = u.wanted
        /\ w.page = u.page /\ w.fetch = u.fetch
    <2> HIDE DEF u
    <2> QED
      BY <1>1, <1>3 DEF Panes
  <1> HIDE DEF u, w
  <1>5. ASSUME a.newest PROVE PaneOK(v) /\ Matches(v)
    <2>1. /\ v \in Panes /\ v.page = a.key
          /\ v.list = ui.list /\ v.off = ui.off /\ v.asked = asked /\ v.wanted = ui.wanted
          /\ v.fetch = Stale(ui.fetch) \cup {[key |-> a.key, live |-> TRUE]}
      BY <1>1, <1>3, <1>4, LoadValueFields
    <2>2. PICK f : f.key = a.key /\ f.live /\ v.fetch = Stale(ui.fetch) \cup {f}
      BY <2>1
    <2> HIDE DEF v
    <2>3. \A f2 \in Stale(ui.fetch) : ~f2.live
      BY PaneFacts, OvertakenFacts
    <2>4. PageMatches(v)
      BY <2>1, <2>2, <2>3 DEF PageMatches
    <2>5. RequestMatches(v)
      BY <1>5, <2>1, PaneFacts DEF RequestMatches, asked
    <2> QED
      BY <2>1, <2>4, <2>5, PaneFacts DEF PaneOK, Matches
  <1> HIDE DEF v
  <1>6. ASSUME ~a.newest PROVE PaneOK(u) /\ Matches(u)
    <2>1. PageMatches(u)
      BY <1>3, PaneFacts DEF PageMatches
    <2>2. RequestMatches(u)
      BY <1>3, <1>6, PaneFacts DEF RequestMatches, asked
    <2> QED
      BY <1>3, <2>1, <2>2, PaneFacts DEF PaneOK, Matches
  <1>7. PaneOK(ui') /\ Matches(ui')
    BY <1>2, <1>5, <1>6
  <1> QED
    BY <1>2, <1>7, Counters DEF IInv, TypeOK, PaneOK

\* A bulk answer renders the list and then selects the row it was asked for.
LEMMA PrefetchStep ==
  ASSUME IInv, NEW p \in ui.pre, PrefetchClosure(p) \/ PrefetchFails(p)
  PROVE  IInv'
  <1> DEFINE pre == ui.pre \ {p}
             meta == ui.meta \cup p.want
             u == [ui EXCEPT !.pre = pre, !.meta = meta]
             v == RenderKeyList(u)
             x == [ui EXCEPT !.pre = pre]
  <1>1. p.want \subseteq Keys /\ p.idx \in Rows
    BY PaneFacts DEF Prefetches
  <1>2. pre \in SUBSET Prefetches /\ meta \in SUBSET Keys
    BY <1>1, PaneFacts
  <1>3. \/ ui' = SelectRow(v, p.idx - v.off) /\ UNCHANGED <<moves, sessions>>
        \/ ui' = x /\ UNCHANGED <<moves, sessions>>
    BY PaneFacts DEF PrefetchClosure, PrefetchFails
  <1> HIDE DEF pre, meta
  <1>4. /\ u \in Panes
        /\ u.list = ui.list /\ u.off = ui.off
        /\ u.asked = ui.asked /\ u.shown = ui.shown /\ u.wanted = ui.wanted
        /\ u.page = ui.page /\ u.fetch = ui.fetch
    BY <1>2, PaneFacts DEF Panes
  <1>5. /\ x \in Panes
        /\ x.list = ui.list /\ x.off = ui.off
        /\ x.asked = ui.asked /\ x.shown = ui.shown /\ x.wanted = ui.wanted
        /\ x.page = ui.page /\ x.fetch = ui.fetch
    BY <1>2, PaneFacts DEF Panes
  <1> HIDE DEF u, x
  <1>6. PaneOK(v) /\ Matches(v)
    <2>1. Matches(u) /\ Len(u.list) <= Len(Found) /\ IsInjective(u.list)
      BY <1>4, PaneFacts, SameMatches
    <2>2. u.off = 0 \/ u.off + Half <= Len(u.list)
      BY <1>4, PaneFacts, HalfWindow
    <2> QED
      BY <1>4, <2>1, <2>2, RenderKeeps
  <1> HIDE DEF v
  <1>7. CASE ui' = SelectRow(v, p.idx - v.off) /\ UNCHANGED <<moves, sessions>>
    <2> DEFINE r == p.idx - v.off
    <2>1. /\ v.off \in Nat /\ Len(Found) \in Nat /\ v.list \in Seq(Keys)
          /\ v.off = 0 \/ v.off + Half < Len(v.list)
      BY <1>6, PaneFacts DEF PaneOK, Panes
    <2>2. v.list = << >> => v.off = 0
      BY <2>1, EmptySeq, HalfWindow
    <2>3. r \in Int /\ r <= Len(Found) /\ (v.off = 0 => r >= 0)
      BY <1>1, <2>1 DEF Rows
    <2> HIDE DEF r
    <2>4. PaneOK(SelectRow(v, r)) /\ Matches(SelectRow(v, r))
      BY <1>6, <2>2, <2>3, SelectRowKeeps
    <2>5. PaneOK(ui') /\ Matches(ui')
      BY <1>7, <2>4 DEF r
    <2> QED
      BY <1>7, <2>5, Counters DEF IInv, TypeOK, PaneOK
  <1>8. CASE ui' = x /\ UNCHANGED <<moves, sessions>>
    <2>1. PaneOK(x) /\ Matches(x)
      BY <1>5, PaneFacts, SameMatches DEF PaneOK
    <2> QED
      BY <1>8, <2>1, Counters DEF IInv, TypeOK, PaneOK
  <1> QED
    BY <1>3, <1>7, <1>8

\* An answered fetch fills its own page; a failed one, any page that is open.
LEMMA ValueStep ==
  ASSUME IInv, NEW f \in ui.fetch, ValueClosure(f) \/ ValueErr(f)
  PROVE  IInv'
  <1> DEFINE fetch == ui.fetch \ {f}
  <1>1. f.key \in Keys /\ fetch \in SUBSET Fetches
    BY PaneFacts DEF Fetches
  <1>2. ui.page # None \/ ~f.live
    BY <1>1, PaneFacts, SelectionAssumption DEF PageMatches
  <1>3. PICK c \in Contents :
          /\ ui' = [ui EXCEPT !.fetch = fetch, !.shown = c]
          /\ UNCHANGED <<moves, sessions>>
          /\ c.kind = "value" => (c = ui.shown /\ ~f.live) \/ (f.live /\ c.key = f.key)
    <2> DEFINE val == [kind |-> "value", key |-> f.key]
               err == [kind |-> "error", key |-> f.key]
    <2>1. val \in Contents /\ err \in Contents /\ ui.shown \in Contents
      BY <1>1, PaneFacts DEF Contents, Panes
    <2>2. CASE ValueClosure(f) /\ f.live
      <3>1. ui' = [ui EXCEPT !.fetch = fetch, !.shown = val]
        BY <2>2, PaneFacts DEF ValueClosure, Panes
      <3> QED
        BY <2>1, <2>2, <3>1 DEF ValueClosure
    <2>3. CASE ValueErr(f) /\ ui.page # None
      <3>1. ui' = [ui EXCEPT !.fetch = fetch, !.shown = err]
        BY <2>3, PaneFacts DEF ValueErr, Panes
      <3> QED
        BY <2>1, <2>3, <3>1 DEF ValueErr
    <2>4. CASE ~f.live /\ (ValueClosure(f) \/ (ValueErr(f) /\ ui.page = None))
      <3>1. ui' = [ui EXCEPT !.fetch = fetch, !.shown = ui.shown]
        BY <2>4, PaneFacts DEF ValueClosure, ValueErr, Panes
      <3> QED
        BY <2>1, <2>4, <3>1 DEF ValueClosure, ValueErr
    <2> QED
      BY <1>2, <2>2, <2>3, <2>4
  <1> HIDE DEF fetch
  <1>4. /\ ui' \in Panes
        /\ ui'.list = ui.list /\ ui'.off = ui.off
        /\ ui'.asked = ui.asked /\ ui'.shown = c /\ ui'.wanted = ui.wanted
        /\ ui'.page = ui.page /\ ui'.fetch = fetch
    BY <1>1, <1>3, PaneFacts DEF Panes
  <1>5. PageMatches(ui')
    BY <1>3, <1>4, PaneFacts DEF PageMatches, fetch
  <1>6. RequestMatches(ui') /\ PaneOK(ui')
    BY <1>4, PaneFacts DEF RequestMatches, PaneOK
  <1> QED
    BY <1>3, <1>4, <1>5, <1>6, Counters DEF IInv, TypeOK, Matches

\* Every key press, answered edit and answered call keeps the invariant.
LEMMA NextIInv == IInv /\ [Next]_vars => IInv'
  <1> SUFFICES ASSUME IInv, [Next]_vars PROVE IInv'
    OBVIOUS
  <1>1. CASE User
    BY <1>1, RescanStep, MoveStep, ReloadStep, DropStep, RenameStep DEF User
  <1>2. CASE ScanClosure
    BY <1>2, ScanClosureStep
  <1>3. CASE Answer
    BY <1>3, TimerStep, MetaClosureStep, PrefetchStep, ValueStep DEF Answer
  <1>4. CASE UNCHANGED vars
    BY <1>4 DEF vars, IInv, TypeOK, PaneOK, Matches, PageMatches, RequestMatches
  <1> QED
    BY <1>1, <1>2, <1>3, <1>4 DEF Next

\* The invariant holds of every run of the program.
LEMMA Inductive == Spec => []IInv
  BY InitIInv, NextIInv, PTL DEF Spec

\* The panes keep their types, and the cursor a row of the table
\* (app/keys.go, app/valuepane.go).
THEOREM TypeCorrect == Spec => []TypeOK
  <1>1. IInv => TypeOK
    BY DEF IInv
  <1> QED
    BY <1>1, Inductive, PTL

\* fetchValuePage's a.valPage != p keeps a value off every page but its own.
THEOREM ValueStaysOfPage == Spec => []ValueIsOfPage
  <1>1. IInv => ValueIsOfPage
    BY DEF IInv, Matches, PageMatches, ValueIsOfPage
  <1> QED
    BY <1>1, Inductive, PTL

\* A set whose members are all one has at most one.
LEMMA AtMostOne ==
  ASSUME NEW S, \A x, y \in S : x = y
  PROVE  Cardinality(S) <= 1
  <1>1. CASE S = {}
    BY <1>1, FS_EmptySet
  <1>2. CASE S # {}
    <2>1. PICK x \in S : S = {x}
      BY <1>2
    <2> QED
      BY <2>1, FS_Singleton
  <1> QED
    BY <1>1, <1>2

\* metaSeq: only the newest selection opens a page, and only one request and
\* one fetch are ever waited for.
THEOREM PageStaysNewest == Spec => []PageIsNewestRequest
  <1>1. ASSUME IInv PROVE PageIsNewestRequest
    <2>1. \A a, b \in {a \in ui.asked : a.newest} : a = b
      BY <1>1, PaneFacts DEF RequestMatches
    <2>2. \A f, g \in {f \in ui.fetch : f.live} : f = g
      BY <1>1, PaneFacts DEF PageMatches, Fetches
    <2>3. Cardinality({a \in ui.asked : a.newest}) <= 1
      BY <2>1, AtMostOne
    <2>4. Cardinality({f \in ui.fetch : f.live}) <= 1
      BY <2>2, AtMostOne
    <2> QED
      BY <1>1, <2>3, <2>4, PaneFacts DEF PageIsNewestRequest, RequestMatches
  <1> QED
    BY <1>1, Inductive, PTL
=============================================================================
