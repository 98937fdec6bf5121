--------------------------- MODULE WindowsProofs ---------------------------
(***************************************************************************)
(* Proofs about Windows: the types, that no window is visible while the    *)
(* stack is empty, and that until an answer comes under a window, or the   *)
(* alert dialog opens over the console, the stack is the screen and the    *)
(* keyboard is on top of it.                                               *)
(*                                                                         *)
(* The first needs that the visible windows are among the open ones; the   *)
(* others, that so far there is at most one window, that modalPrev is a    *)
(* pane, and that the console's page has not been removed, which depends   *)
(* on the console being left by its own keys only (FocusTyped).            *)
(***************************************************************************)
EXTENDS Windows, TLAPS, SequenceTheorems, FiniteSetTheorems

\* No window is on a stack twice, so one removal takes it off.
StacksAreSets == IsInjective(open) /\ IsInjective(shown)

\* What is visible is open.
ShownIsOpen == Range(shown) \subseteq Range(open)

\* The focus in a window is on a widget the window has, and so is modalPrev.
Typed(f) == f.in \in Windows => f.at \in Widgets(f.in)
FocusTyped == Typed(focus) /\ Typed(prev)

\* Before the first answer under a window: at most one window, over a pane.
Plain ==
  /\ open = shown
  /\ open = << >> \/ \E w \in Windows : open = <<w>>
  /\ focus.in = IF open = << >> THEN "main" ELSE open[1]
  /\ prev.in = "main"
  /\ console # "gone"

Calm == ~upset => Plain

\* The two stacks, without their bound, which follows.
StacksOK ==
  /\ open \in Seq(Windows) /\ shown \in Seq(Windows)
  /\ StacksAreSets /\ ShownIsOpen

\* TypeOK without the stacks.
RestOK ==
  /\ console \in {"none", "page", "gone"}
  /\ focus \in Focus
  /\ prev \in Focus \cup {NoFocus}
  /\ bar \in {"idle", "filter", "find"}
  /\ armed \in BOOLEAN /\ stopped \in BOOLEAN
  /\ asked \subseteq {"info", "connected"}
  /\ upset \in BOOLEAN

IInv == StacksOK /\ RestOK /\ FocusTyped /\ Calm

----------------------------------------------------------------------------
(* The stacks.                                                             *)

\* Taking a window out of a stack leaves the others, once each.
LEMMA WithoutKeeps ==
  ASSUME NEW s \in Seq(Windows), IsInjective(s), NEW w
  PROVE  /\ Without(s, w) \in Seq(Windows)
         /\ IsInjective(Without(s, w))
         /\ Range(Without(s, w)) = Range(s) \ {w}
  <1>1. CASE w \notin Range(s)
    BY <1>1 DEF Without
  <1>2. CASE w \in Range(s)
    <2> DEFINE k == CHOOSE i \in DOMAIN s : s[i] = w
               t == RemoveAt(s, k)
    <2>1. k \in 1 .. Len(s) /\ s[k] = w /\ Len(s) \in Nat
      BY <1>2, LenProperties DEF Range
    <2>2. Without(s, w) = t
      BY <1>2 DEF Without
    <2> HIDE DEF k
    <2>3. /\ t \in Seq(Windows) /\ Len(t) = Len(s) - 1
          /\ \A i \in 1 .. Len(s) - 1 : t[i] = IF i < k THEN s[i] ELSE s[i + 1]
      <3> DEFINE below == SubSeq(s, 1, k - 1)
                 above == SubSeq(s, k + 1, Len(s))
      <3>1. /\ below \in Seq(Windows) /\ Len(below) = k - 1
            /\ \A i \in 1 .. k - 1 : below[i] = s[i]
        BY <2>1
      <3>2. /\ above \in Seq(Windows) /\ Len(above) = Len(s) - k
            /\ \A i \in 1 .. Len(s) - k : above[i] = s[i + k]
        BY <2>1
      <3>3. t = below \o above
        BY DEF RemoveAt
      <3> HIDE DEF below, above
      <3>4. /\ below \o above \in Seq(Windows)
            /\ Len(below \o above) = Len(below) + Len(above)
            /\ \A i \in 1 .. Len(below) + Len(above) :
                 (below \o above)[i] = IF i <= Len(below) THEN below[i] ELSE above[i - Len(below)]
        BY <3>1, <3>2, ConcatProperties
      <3> HIDE DEF t
      <3>5. Len(t) = Len(s) - 1 /\ t \in Seq(Windows)
        BY <2>1, <3>1, <3>2, <3>3, <3>4
      <3>6. ASSUME NEW i \in 1 .. Len(s) - 1
            PROVE  t[i] = IF i < k THEN s[i] ELSE s[i + 1]
        <4>1. CASE i < k
          BY <2>1, <3>1, <3>2, <3>3, <3>4, <4>1
        <4>2. CASE i >= k
          <5>1. i - (k - 1) \in 1 .. Len(s) - k /\ i - (k - 1) + k = i + 1
            BY <2>1, <4>2
          <5> QED
            BY <2>1, <3>1, <3>2, <3>3, <3>4, <4>2, <5>1
        <4> QED
          BY <2>1, <4>1, <4>2
      <3> QED
        BY <3>5, <3>6
    <2>4. DOMAIN s = 1 .. Len(s) /\ DOMAIN t = 1 .. Len(s) - 1
      BY <2>3
    <2> HIDE DEF t
    <2>5. IsInjective(t)
      <3>1. \A i, j \in 1 .. Len(s) : s[i] = s[j] => i = j
        BY <2>4 DEF IsInjective
      <3>2. ASSUME NEW i \in 1 .. Len(s) - 1, NEW j \in 1 .. Len(s) - 1, t[i] = t[j]
            PROVE  i = j
        <4> DEFINE a == IF i < k THEN i ELSE i + 1
                   b == IF j < k THEN j ELSE j + 1
        <4>1. a \in 1 .. Len(s) /\ b \in 1 .. Len(s)
          BY <2>1
        <4>2. t[i] = s[a] /\ t[j] = s[b]
          BY <2>3
        <4>3. a = b
          BY <3>1, <3>2, <4>1, <4>2
        <4> QED
          BY <2>1, <4>3
      <3> QED
        BY <2>4, <3>2 DEF IsInjective
    <2>6. Range(t) \subseteq Range(s) \ {w}
      BY <2>1, <2>3, <2>4, SMTT(40) DEF Range, IsInjective
    <2>7. ASSUME NEW x \in Range(s) \ {w} PROVE x \in Range(t)
      <3>1. PICK i \in 1 .. Len(s) : s[i] = x /\ i # k
        BY <2>1, <2>4, <2>7 DEF Range
      <3>2. CASE i < k
        BY <2>1, <2>3, <2>4, <3>1, <3>2 DEF Range
      <3>3. CASE i > k
        <4>1. i - 1 \in 1 .. Len(s) - 1 /\ t[i - 1] = x
          BY <2>1, <2>3, <3>1, <3>3
        <4> QED
          BY <2>4, <4>1 DEF Range
      <3> QED
        BY <2>1, <3>1, <3>2, <3>3
    <2> QED
      BY <2>2, <2>3, <2>5, <2>6, <2>7
  <1> QED
    BY <1>1, <1>2

\* A window that is not on a stack goes on top of it.
LEMMA AppendKeeps ==
  ASSUME NEW s \in Seq(Windows), IsInjective(s), NEW w \in Windows, w \notin Range(s)
  PROVE  /\ Append(s, w) \in Seq(Windows)
         /\ IsInjective(Append(s, w))
         /\ Range(Append(s, w)) = Range(s) \cup {w}
  <1> DEFINE t == Append(s, w)
  <1>1. /\ t \in Seq(Windows) /\ Len(t) = Len(s) + 1 /\ Len(s) \in Nat
        /\ DOMAIN s = 1 .. Len(s) /\ DOMAIN t = 1 .. Len(s) + 1
        /\ t[Len(s) + 1] = w /\ \A i \in 1 .. Len(s) : t[i] = s[i]
    OBVIOUS
  <1> HIDE DEF t
  <1>2. \A i \in 1 .. Len(s) : s[i] # w
    BY <1>1 DEF Range
  <1>3. IsInjective(t)
    BY <1>1, <1>2 DEF IsInjective
  <1>4. Range(t) = Range(s) \cup {w}
    <2>1. Range(t) = {t[i] : i \in 1 .. Len(s) + 1} /\ Range(s) = {s[i] : i \in 1 .. Len(s)}
      BY <1>1 DEF Range
    <2>2. Len(s) + 1 \in 1 .. Len(s) + 1 /\ 1 .. Len(s) + 1 = (1 .. Len(s)) \cup {Len(s) + 1}
      BY <1>1
    <2> QED
      BY <1>1, <2>1, <2>2
  <1> QED
    BY <1>1, <1>3, <1>4 DEF t

\* pushModal keeps a stack a set.
LEMMA PushModalKeeps ==
  ASSUME NEW s \in Seq(Windows), IsInjective(s), NEW w \in Windows
  PROVE  /\ PushModal(s, w) \in Seq(Windows)
         /\ IsInjective(PushModal(s, w))
         /\ Range(PushModal(s, w)) = Range(s) \cup {w}
  BY AppendKeeps DEF PushModal

\* The only window of a stack leaves it empty.
LEMMA WithoutOnly ==
  ASSUME NEW w \in Windows
  PROVE  Without(<<w>>, w) = << >>
  <1>1. <<w>> \in Seq(Windows) /\ IsInjective(<<w>>) /\ Range(<<w>>) = {w}
    BY DEF IsInjective, Range
  <1>2. Without(<<w>>, w) \in Seq(Windows) /\ Range(Without(<<w>>, w)) = {}
    BY <1>1, WithoutKeeps
  <1> QED
    BY <1>2, RangeEquality DEF Range

\* A stack has at most as many windows as there are.
LEMMA StackBound ==
  ASSUME NEW s \in Seq(Windows), IsInjective(s)
  PROVE  Len(s) <= Cardinality(Windows)
  <1>1. IsFiniteSet(Windows)
    <2> DEFINE all == <<"connect", "settings", "help", "info", "confirm", "prompt",
                        "editor", "graph", "query", "splash">>
    <2>1. all \in Seq(Windows) /\ Len(all) = 10
      BY DEF Windows, Modals
    <2>2. \A w \in Windows : \E i \in 1 .. 10 : all[i] = w
      BY DEF Windows, Modals
    <2> QED
      BY <2>1, <2>2 DEF IsFiniteSet
  <1>2. s \in Injection(1 .. Len(s), Windows) /\ Len(s) \in Nat
    BY LenProperties DEF Injection
  <1>3. Cardinality(1 .. Len(s)) = Len(s)
    <2>1. 1 \in Int /\ Len(s) \in Int /\ (1 > Len(s) => Len(s) = 0)
      BY <1>2
    <2> QED
      BY <2>1, FS_Interval
  <1> QED
    BY <1>1, <1>2, <1>3, FS_Injection

----------------------------------------------------------------------------
(* The focus, and the helpers that open and close windows.                 *)

LEMMA FirstTyped ==
  ASSUME NEW w \in Windows
  PROVE  First(w) \in Focus /\ Typed(First(w)) /\ First(w).in = w
  BY DEF First, Focus, Typed, Widgets, Windows, Modals

LEMMA PaneTyped ==
  ASSUME NEW p \in Panes
  PROVE  Pane(p) \in Focus /\ Typed(Pane(p)) /\ Pane(p).in = "main"
  BY DEF Pane, Focus, Typed, Windows, Modals

\* A window that opens, or comes to the top, is on both stacks once.
LEMMA ShowStacks ==
  ASSUME StacksOK, NEW w \in Windows,
         open' = PushModal(open, w), shown' = Append(Without(shown, w), w)
  PROVE  StacksOK'
  <1>1. /\ open' \in Seq(Windows) /\ IsInjective(open')
        /\ Range(open') = Range(open) \cup {w}
    BY PushModalKeeps DEF StacksOK, StacksAreSets
  <1>2. /\ Without(shown, w) \in Seq(Windows) /\ IsInjective(Without(shown, w))
        /\ Range(Without(shown, w)) = Range(shown) \ {w}
    BY WithoutKeeps DEF StacksOK, StacksAreSets
  <1>3. /\ shown' \in Seq(Windows) /\ IsInjective(shown')
        /\ Range(shown') = (Range(shown) \ {w}) \cup {w}
    BY <1>2, AppendKeeps
  <1> QED
    BY <1>1, <1>3 DEF StacksOK, StacksAreSets, ShownIsOpen

\* A window that closes is on neither.
LEMMA CloseStacks ==
  ASSUME StacksOK, NEW w, open' = PopModal(open, w), shown' = Without(shown, w)
  PROVE  StacksOK'
  <1>1. /\ open' \in Seq(Windows) /\ IsInjective(open')
        /\ Range(open') = Range(open) \ {w}
    BY WithoutKeeps DEF StacksOK, StacksAreSets, PopModal
  <1>2. /\ shown' \in Seq(Windows) /\ IsInjective(shown')
        /\ Range(shown') = Range(shown) \ {w}
    BY WithoutKeeps DEF StacksOK, StacksAreSets
  <1> QED
    BY <1>1, <1>2 DEF StacksOK, StacksAreSets, ShownIsOpen

\* The first window puts the stack and the screen at <<w>>, and the focus in it.
LEMMA FirstWindow ==
  ASSUME IInv, NEW w \in Windows, open = << >>
  PROVE  /\ shown = << >>
         /\ PushModal(open, w) = <<w>>
         /\ Append(Without(shown, w), w) = <<w>>
  <1>1. Range(<< >>) = {}
    BY DEF Range
  <1>2. shown \in Seq(Windows) /\ Range(shown) = {}
    BY <1>1 DEF IInv, StacksOK, ShownIsOpen
  <1>3. shown = << >>
    BY <1>2, RangeEquality DEF Range
  <1>4. Append(<< >>, w) = <<w>>
    OBVIOUS
  <1>5. Without(<< >>, w) = << >> /\ PushModal(<< >>, w) = Append(<< >>, w)
    BY <1>1 DEF Without, PushModal
  <1> QED
    BY <1>3, <1>4, <1>5

\* showModal keeps the types and the order of the stacks.
LEMMA ShowModalKeeps ==
  ASSUME IInv, NEW w \in Windows, ShowModal(w)
  PROVE  /\ StacksOK'
         /\ focus' \in Focus /\ prev' \in Focus \cup {NoFocus} /\ FocusTyped'
  <1>1. StacksOK'
    BY ShowStacks DEF IInv, ShowModal, AddPage
  <1>2. focus \in Focus /\ prev \in Focus \cup {NoFocus} /\ Typed(focus) /\ Typed(prev)
    BY DEF IInv, RestOK, FocusTyped
  <1>3. focus' \in {focus, First(w)} /\ prev' \in {focus, prev}
    BY DEF ShowModal, AddPage
  <1>4. Typed(focus') /\ Typed(prev')
    BY <1>2, <1>3, FirstTyped
  <1> QED
    BY <1>1, <1>2, <1>3, <1>4, FirstTyped DEF FocusTyped, Typed

\* showModal over the bare panes is plain again.
LEMMA ShowModalPlain ==
  ASSUME IInv, Plain, NEW w \in Windows, open = << >>, ShowModal(w), console' = console
  PROVE  Plain'
  <1>1. open' = <<w>> /\ shown' = <<w>>
    BY FirstWindow DEF ShowModal, AddPage
  <1>2. focus' = First(w) /\ prev' = focus /\ focus.in = "main"
    BY DEF Plain, ShowModal, AddPage
  <1> QED
    BY <1>1, <1>2, FirstTyped DEF Plain

\* closeModal keeps the types and the order of the stacks.
LEMMA CloseModalKeeps ==
  ASSUME IInv, NEW w, CloseModal(w), prev' = prev
  PROVE  /\ StacksOK'
         /\ focus' \in Focus /\ FocusTyped'
         /\ console' \in {"none", "page", "gone"}
  <1>1. StacksOK'
    BY CloseStacks DEF IInv, CloseModal
  <1>2. prev \in Focus \cup {NoFocus} /\ Typed(prev)
    BY DEF IInv, RestOK, FocusTyped
  <1>3. focus' = IF prev = NoFocus THEN Pane("keys") ELSE prev
    BY DEF CloseModal
  <1>4. Pane("keys") \in Focus /\ Typed(Pane("keys"))
    BY PaneTyped DEF Panes
  <1>5. console' \in {"none", "page", "gone"}
    BY DEF IInv, RestOK, CloseModal
  <1> QED
    BY <1>1, <1>2, <1>3, <1>4, <1>5 DEF FocusTyped, Typed

\* closeModal of the only window, if it is not the console, leaves bare panes.
LEMMA CloseModalPlain ==
  ASSUME IInv, Plain, NEW w \in Windows, open = <<w>>, w # "query",
         CloseModal(w), prev' = prev
  PROVE  Plain'
  <1>1. open' = << >> /\ shown' = << >>
    BY WithoutOnly DEF Plain, CloseModal, PopModal
  <1>2. console' = console /\ console # "gone" /\ prev.in = "main"
    BY DEF Plain, CloseModal
  <1>3. focus'.in = "main"
    BY <1>2, PaneTyped DEF CloseModal, Panes
  <1> QED
    BY <1>1, <1>2, <1>3 DEF Plain

----------------------------------------------------------------------------
(* The inductive invariant.                                                *)

\* The types, with the bound the stacks have as sets.
LEMMA IInvTypes ==
  ASSUME IInv
  PROVE  TypeOK
  BY StackBound DEF IInv, StacksOK, StacksAreSets, RestOK, TypeOK

LEMMA InitIInv == Init => IInv
  <1> SUFFICES ASSUME Init PROVE IInv
    OBVIOUS
  <1>1. "splash" \in Windows
    BY DEF Windows
  <1>2. <<"splash">> \in Seq(Windows) /\ IsInjective(<<"splash">>)
    BY <1>1 DEF IsInjective
  <1>3. NoFocus.in = "main" /\ Typed(NoFocus)
    BY DEF NoFocus, Typed, Windows, Modals
  <1>4. StacksOK
    BY <1>2 DEF Init, StacksOK, StacksAreSets, ShownIsOpen
  <1>5. RestOK
    BY <1>1, FirstTyped DEF Init, RestOK
  <1>6. FocusTyped
    BY <1>1, <1>3, FirstTyped DEF Init, FocusTyped
  <1>7. Plain
    BY <1>1, <1>3, FirstTyped DEF Init, Plain
  <1> QED
    BY <1>4, <1>5, <1>6, <1>7 DEF IInv, Calm

\* What does not move a window or the focus keeps the invariant.
LEMMA SameWindows ==
  ASSUME IInv, RestOK', upset' = upset,
         UNCHANGED <<open, shown, console, focus, prev>>
  PROVE  IInv'
  BY DEF IInv, StacksOK, StacksAreSets, ShownIsOpen, FocusTyped, Typed, Calm, Plain

\* The focus moves between panes or within a window.
LEMMA FocusMoves ==
  ASSUME IInv, UNCHANGED <<open, shown, console, prev, armed, stopped, asked, upset>>,
         focus' \in Focus, Typed(focus'), focus'.in = focus.in,
         bar' \in {"idle", "filter", "find"}
  PROVE  IInv'
  BY DEF IInv, StacksOK, StacksAreSets, ShownIsOpen, RestOK, FocusTyped, Typed, Calm, Plain

\* A window is on top of a plain screen only if it is the only one.
LEMMA PlainTop ==
  ASSUME Plain, NEW w \in Windows, focus.in = w
  PROVE  open = <<w>>
  BY DEF Plain, Windows, Modals

LEMMA QuitKeyStep ==
  ASSUME IInv, QuitKey
  PROVE  IInv'
  <1>1. CASE open # << >>
    <2> DEFINE w == Last(open)
    <2>1. CloseModal(w) /\ UNCHANGED <<prev, bar, armed, stopped, asked, upset>>
      BY <1>1 DEF QuitKey
    <2>2. StacksOK' /\ RestOK' /\ FocusTyped'
      BY <2>1, CloseModalKeeps DEF IInv, RestOK
    <2>3. ASSUME ~upset PROVE Plain'
      <3>1. Plain
        BY <2>3 DEF IInv, Calm
      <3>2. PICK v \in Windows : open = <<v>>
        BY <1>1, <3>1 DEF Plain
      <3>3. w = v /\ focus.in = v
        BY <3>1, <3>2 DEF Plain, Last
      <3>4. v # "query"
        BY <3>3 DEF QuitKey, FieldFocused, IInv, FocusTyped, Typed, Widgets
      <3> QED
        BY <2>1, <3>1, <3>2, <3>3, <3>4, CloseModalPlain
    <2> QED
      BY <2>1, <2>2, <2>3 DEF IInv, Calm
  <1>2. CASE open = << >>
    <2>1. RestOK'
      BY <1>2 DEF IInv, RestOK, QuitKey
    <2> QED
      BY <1>2, <2>1, SameWindows DEF QuitKey
  <1> QED
    BY <1>1, <1>2

LEMMA ShortcutStep ==
  ASSUME IInv, Shortcut
  PROVE  IInv'
  <1>1. open = << >>
    BY DEF Shortcut, InTextInput
  <1>2. CASE \E w \in {"help", "settings", "connect"} :
               ShowModal(w) /\ UNCHANGED <<console, bar, asked, armed, stopped, upset>>
    <2>1. PICK w \in {"help", "settings", "connect"} :
            ShowModal(w) /\ UNCHANGED <<console, bar, asked, armed, stopped, upset>>
      BY <1>2
    <2>2. w \in Windows
      BY DEF Windows, Modals
    <2>3. StacksOK' /\ RestOK' /\ FocusTyped'
      BY <2>1, <2>2, ShowModalKeeps DEF IInv, RestOK
    <2>4. ~upset => Plain'
      BY <1>1, <2>1, <2>2, ShowModalPlain DEF IInv, Calm
    <2> QED
      BY <2>1, <2>3, <2>4 DEF IInv, Calm
  <1>3. CASE /\ asked' = asked \cup {"info"}
             /\ UNCHANGED <<open, shown, console, focus, prev, bar, armed, stopped, upset>>
    <2>1. RestOK'
      BY <1>3 DEF IInv, RestOK
    <2> QED
      BY <1>3, <2>1, SameWindows
  <1>4. CASE /\ bar' = "filter" /\ focus' = Pane("cmd")
             /\ UNCHANGED <<open, shown, console, prev, asked, armed, stopped, upset>>
    <2>1. "cmd" \in Panes /\ Pane("cmd") \in Focus /\ Typed(Pane("cmd")) /\ Pane("cmd").in = "main"
      BY PaneTyped DEF Panes
    <2>2. StacksOK' /\ RestOK' /\ FocusTyped'
      BY <1>4, <2>1 DEF IInv, StacksOK, StacksAreSets, ShownIsOpen, RestOK, FocusTyped, Typed
    <2>3. ~upset => Plain'
      BY <1>1, <1>4, <2>1 DEF IInv, Calm, Plain
    <2> QED
      BY <1>4, <2>2, <2>3 DEF IInv, Calm
  <1> QED
    BY <1>2, <1>3, <1>4 DEF Shortcut

LEMMA OpenQueryStep ==
  ASSUME IInv, OpenQuery
  PROVE  IInv'
  <1>1. open = << >> /\ "query" \in Windows
    BY DEF OpenQuery, InTextInput, Windows
  <1>2. /\ shown = << >> /\ open' = <<"query">>
        /\ shown' = IF console = "gone" THEN << >> ELSE <<"query">>
    <2>1. shown = << >> /\ PushModal(open, "query") = <<"query">>
      BY <1>1, FirstWindow
    <2>2. Append(<< >>, "query") = <<"query">>
      OBVIOUS
    <2> QED
      BY <2>1, <2>2 DEF OpenQuery
  <1>3. StacksOK'
    BY <1>1, <1>2 DEF StacksOK, StacksAreSets, ShownIsOpen, IsInjective, Range
  <1>4. focus' = First("query") /\ UNCHANGED <<prev, bar, armed, stopped, asked, upset>>
    BY DEF OpenQuery
  <1>5. RestOK' /\ FocusTyped'
    BY <1>1, <1>4, FirstTyped DEF IInv, RestOK, FocusTyped, Typed, OpenQuery
  <1>6. ~upset => Plain'
    BY <1>1, <1>2, <1>4, FirstTyped DEF IInv, Calm, Plain, OpenQuery
  <1> QED
    BY <1>3, <1>4, <1>5, <1>6 DEF IInv, Calm

\* A window that is closed by its own keys gives the focus to a pane.
LEMMA CloseToPane ==
  ASSUME IInv, NEW w \in Windows, NEW p \in Panes, focus.in = w \/ open = <<w>> \/ upset,
         open' = PopModal(open, w), shown' = Without(shown, w), focus' = Pane(p),
         UNCHANGED <<console, prev, bar, armed, stopped, asked, upset>>
  PROVE  IInv'
  <1>1. StacksOK'
    BY CloseStacks DEF IInv
  <1>2. RestOK' /\ FocusTyped'
    BY PaneTyped DEF IInv, RestOK, FocusTyped, Typed
  <1>3. ASSUME ~upset PROVE Plain'
    <2>1. Plain /\ open = <<w>>
      BY <1>3, PlainTop DEF IInv, Calm
    <2>2. open' = << >> /\ shown' = << >>
      BY <2>1, WithoutOnly DEF Plain, PopModal
    <2> QED
      BY <2>1, <2>2, PaneTyped DEF Plain
  <1> QED
    BY <1>1, <1>2, <1>3 DEF IInv, Calm

LEMMA CloseQueryStep ==
  ASSUME IInv, CloseQuery
  PROVE  IInv'
  <1>1. "query" \in Windows /\ "keys" \in Panes
    BY DEF Windows, Panes
  <1>2. focus.in = "query"
    BY <1>1, FirstTyped DEF CloseQuery
  <1> QED
    BY <1>1, <1>2, CloseToPane DEF CloseQuery

LEMMA CloseGraphStep ==
  ASSUME IInv, CloseGraph
  PROVE  IInv'
  <1>1. "graph" \in Windows /\ "value" \in Panes
    BY DEF Windows, Panes
  <1> QED
    BY <1>1, CloseToPane DEF CloseGraph

LEMMA RunHeldUpStep ==
  ASSUME IInv, RunHeldUp
  PROVE  IInv'
  <1>1. "confirm" \in Windows
    BY DEF Windows, Modals
  <1>2. StacksOK' /\ RestOK' /\ FocusTyped'
    BY <1>1, ShowModalKeeps DEF IInv, RestOK, RunHeldUp
  <1> QED
    BY <1>2 DEF IInv, Calm, RunHeldUp

LEMMA FocusSteps ==
  ASSUME IInv, CycleFocus \/ WidgetMove \/ BarDone \/ OpenFind
  PROVE  IInv'
  <1>1. CASE CycleFocus
    <2>1. PICK p \in Panes : focus' = Pane(p)
      BY <1>1 DEF CycleFocus
    <2> QED
      BY <1>1, <2>1, PaneTyped, FocusMoves DEF CycleFocus, FocusInPanes, IInv, RestOK
  <1>2. CASE WidgetMove
    <2>1. PICK x \in Widgets(focus.in) : focus' = [in |-> focus.in, at |-> x]
      BY <1>2 DEF WidgetMove
    <2>2. focus.in \in Windows
      BY <1>2 DEF WidgetMove, IInv, StacksOK, Range
    <2>3. x \in {"list", "field", "button"}
      BY <2>1 DEF Widgets
    <2>4. focus' \in Focus /\ Typed(focus') /\ focus'.in = focus.in
      BY <2>1, <2>2, <2>3 DEF Focus, Typed
    <2> QED
      BY <1>2, <2>4, FocusMoves DEF WidgetMove, IInv, RestOK
  <1>3. CASE BarDone
    <2>1. PICK p \in Panes : focus' = Pane(p)
      BY <1>3 DEF BarDone, Panes
    <2>2. focus.in = "main"
      BY <1>3, PaneTyped DEF BarDone, Panes
    <2> QED
      BY <1>3, <2>1, <2>2, PaneTyped, FocusMoves DEF BarDone
  <1>4. CASE OpenFind
    <2>1. "cmd" \in Panes /\ focus.in = "main"
      BY <1>4, PaneTyped DEF OpenFind, Panes
    <2> QED
      BY <1>4, <2>1, PaneTyped, FocusMoves DEF OpenFind
  <1> QED
    BY <1>1, <1>2, <1>3, <1>4

\* A pane has the focus of a plain screen only if no window is open.
LEMMA PlainPane ==
  ASSUME Plain, focus.in = "main"
  PROVE  open = << >>
  BY DEF Plain, Windows, Modals

LEMMA PaneKeyStep ==
  ASSUME IInv, PaneKey
  PROVE  IInv'
  <1>1. PICK w \in {"confirm", "prompt", "editor"} : ShowModal(w)
    BY DEF PaneKey
  <1>2. w \in Windows /\ UNCHANGED <<console, bar, armed, stopped, asked, upset>>
    BY DEF Windows, Modals, PaneKey
  <1>3. StacksOK' /\ RestOK' /\ FocusTyped'
    BY <1>1, <1>2, ShowModalKeeps DEF IInv, RestOK
  <1>4. focus.in = "main"
    BY PaneTyped DEF PaneKey, Panes
  <1>5. ~upset => Plain'
    BY <1>1, <1>2, <1>4, PlainPane, ShowModalPlain DEF IInv, Calm
  <1> QED
    BY <1>2, <1>3, <1>5 DEF IInv, Calm

LEMMA OpenGraphStep ==
  ASSUME IInv, OpenGraph
  PROVE  IInv'
  <1>1. "graph" \in Windows /\ focus.in = "main"
    BY PaneTyped DEF Windows, OpenGraph, Panes
  <1>2. StacksOK'
    BY <1>1, ShowStacks DEF IInv, OpenGraph
  <1>3. focus' = First("graph") /\ UNCHANGED <<console, prev, bar, armed, stopped, asked, upset>>
    BY DEF OpenGraph
  <1>4. RestOK' /\ FocusTyped'
    BY <1>1, <1>3, FirstTyped DEF IInv, RestOK, FocusTyped, Typed
  <1>5. ASSUME ~upset PROVE Plain'
    <2>1. Plain /\ open = << >>
      BY <1>1, <1>5, PlainPane DEF IInv, Calm
    <2>2. open' = <<"graph">> /\ shown' = <<"graph">>
      BY <1>1, <2>1, FirstWindow DEF OpenGraph
    <2> QED
      BY <1>1, <1>3, <2>1, <2>2, FirstTyped DEF Plain
  <1> QED
    BY <1>2, <1>3, <1>4, <1>5 DEF IInv, Calm

LEMMA LeaveStep ==
  ASSUME IInv, Leave
  PROVE  IInv'
  <1> DEFINE w == focus.in
  <1>1. w \in Windows /\ w # "query" /\ CloseModal(w)
    BY DEF Leave, Windows, Modals
  <1>2. UNCHANGED <<prev, bar, armed, stopped, upset>> /\ asked' \subseteq {"info", "connected"}
    BY DEF Leave, IInv, RestOK
  <1>3. StacksOK' /\ RestOK' /\ FocusTyped'
    BY <1>1, <1>2, CloseModalKeeps DEF IInv, RestOK
  <1>4. ~upset => Plain'
    BY <1>1, <1>2, PlainTop, CloseModalPlain DEF IInv, Calm
  <1> QED
    BY <1>2, <1>3, <1>4 DEF IInv, Calm

\* A window that is open on a plain screen is the only one.
LEMMA PlainOpen ==
  ASSUME Plain, NEW w \in Range(open)
  PROVE  open = <<w>>
  BY DEF Plain, Range

LEMMA SplashSteps ==
  ASSUME IInv, SplashFrame \/ DismissSplash
  PROVE  IInv'
  <1>1. "splash" \in Windows /\ "keys" \in Panes
    BY DEF Windows, Panes
  <1>2. ~upset => Plain /\ open = <<"splash">>
    BY PlainOpen DEF IInv, Calm, SplashFrame, DismissSplash
  <1>3. CASE SplashFrame
    <2>1. StacksOK' /\ RestOK' /\ FocusTyped'
      BY <1>1, <1>3, FirstTyped
         DEF SplashFrame, IInv, StacksOK, StacksAreSets, ShownIsOpen, RestOK, FocusTyped, Typed
    <2>2. ASSUME ~upset PROVE Plain'
      <3>1. focus'.in = "splash" /\ UNCHANGED <<open, shown, console, prev>>
        BY <1>1, <1>3, FirstTyped DEF SplashFrame
      <3>2. <<"splash">>[1] = "splash" /\ <<"splash">> # << >>
        OBVIOUS
      <3> QED
        BY <1>1, <1>2, <2>2, <3>1, <3>2 DEF Plain
    <2> QED
      BY <1>3, <2>1, <2>2 DEF SplashFrame, IInv, Calm
  <1>4. CASE DismissSplash
    BY <1>1, <1>2, <1>4, CloseToPane DEF DismissSplash, IInv, RestOK
  <1> QED
    BY <1>3, <1>4

LEMMA InfoArrivesStep ==
  ASSUME IInv, InfoArrives
  PROVE  IInv'
  <1>1. "info" \in Windows /\ ShowModal("info") /\ UNCHANGED <<console, bar, armed, stopped>>
    BY DEF Windows, Modals, InfoArrives
  <1>2. upset' = (upset \/ open # << >>) /\ asked' \subseteq asked
    BY DEF InfoArrives
  <1>3. StacksOK' /\ RestOK' /\ FocusTyped'
    BY <1>1, <1>2, ShowModalKeeps DEF IInv, RestOK
  <1>4. ~upset' => Plain'
    BY <1>1, <1>2, ShowModalPlain DEF IInv, Calm, RestOK
  <1> QED
    BY <1>3, <1>4 DEF IInv, Calm

LEMMA ConnectedStep ==
  ASSUME IInv, Connected
  PROVE  IInv'
  <1>1. "keys" \in Panes
    BY DEF Panes
  <1>2. /\ focus' = Pane("keys") /\ upset' = (upset \/ open # << >>) /\ asked' \subseteq asked
        /\ UNCHANGED <<open, shown, console, prev, bar, armed, stopped>>
    BY DEF Connected
  <1>3. StacksOK' /\ RestOK' /\ FocusTyped'
    BY <1>1, <1>2, PaneTyped
       DEF IInv, StacksOK, StacksAreSets, ShownIsOpen, RestOK, FocusTyped, Typed
  <1>4. ~upset' => Plain'
    BY <1>1, <1>2, PaneTyped DEF IInv, Calm, Plain, RestOK
  <1> QED
    BY <1>3, <1>4 DEF IInv, Calm

\* Every key, in every order, and every answer keeps the invariant.
LEMMA NextIInv == IInv /\ [Next]_vars => IInv'
  <1> SUFFICES ASSUME IInv, [Next]_vars PROVE IInv'
    OBVIOUS
  <1>1. CASE CtrlC \/ QuitWindowPasses
    <2>1. RestOK' /\ UNCHANGED <<open, shown, console, focus, prev, upset>>
      BY <1>1 DEF CtrlC, QuitWindowPasses, IInv, RestOK
    <2> QED
      BY <2>1, SameWindows
  <1>2. CASE Keyboard /\ ~CtrlC
    BY <1>2, QuitKeyStep, ShortcutStep, OpenQueryStep, CloseQueryStep, RunHeldUpStep,
       FocusSteps, PaneKeyStep, OpenGraphStep, CloseGraphStep, LeaveStep DEF Keyboard
  <1>3. CASE Background /\ ~QuitWindowPasses
    BY <1>3, SplashSteps, InfoArrivesStep, ConnectedStep DEF Background
  <1>4. CASE UNCHANGED vars
    <2>1. RestOK' /\ UNCHANGED <<open, shown, console, focus, prev, upset>>
      BY <1>4 DEF vars, IInv, RestOK
    <2> QED
      BY <2>1, SameWindows
  <1> QED
    BY <1>1, <1>2, <1>3, <1>4 DEF Next

\* The invariant holds of every run of the program.
LEMMA Inductive == Spec => []IInv
  BY InitIInv, NextIInv, PTL DEF Spec

\* The windows, the focus and the flags keep their types (app/app.go).
THEOREM TypeCorrect == Spec => []TypeOK
  BY Inductive, IInvTypes, PTL

\* pushModal, popModal and tview's Pages hold no window twice.
THEOREM StacksStaySets == Spec => []StacksAreSets
  <1>1. IInv => StacksAreSets
    BY DEF IInv, StacksOK
  <1> QED
    BY <1>1, Inductive, PTL

\* inTextInput is never fooled: with the stack empty no window is visible.
THEOREM BareScreenIsBare == Spec => []BareMeansBare
  <1>1. ASSUME IInv PROVE BareMeansBare
    BY <1>1, FirstWindow DEF BareMeansBare, Windows
  <1> QED
    BY <1>1, Inductive, PTL

\* Until an answer comes under a window, or the alert dialog opens over the
\* console, openModals is the screen.
THEOREM StackStaysScreen == Spec => []StackIsScreen
  <1>1. ASSUME IInv PROVE StackIsScreen
    BY <1>1 DEF IInv, Calm, Plain, StackIsScreen
  <1> QED
    BY <1>1, Inductive, PTL

\* So far, too, the keyboard is on the window on top.
THEOREM FocusStaysOnTop == Spec => []FocusOnTop
  <1>1. ASSUME IInv PROVE FocusOnTop
    BY <1>1 DEF IInv, Calm, Plain, FocusOnTop, Last
  <1> QED
    BY <1>1, Inductive, PTL

\* And q closes the window on top, which QuitClosesTop says of every screen.
THEOREM CalmQuitClosesTop ==
  Spec => [][~upset /\ QuitKey /\ shown # << >> => shown' = Front(shown)]_vars
  <1>1. ASSUME IInv, ~upset, QuitKey, shown # << >> PROVE shown' = Front(shown)
    <2>1. Plain
      BY <1>1 DEF IInv, Calm
    <2>2. PICK w \in Windows : open = <<w>> /\ shown = <<w>>
      BY <1>1, <2>1 DEF Plain
    <2>3. shown' = Without(<<w>>, w)
      BY <1>1, <2>2 DEF QuitKey, CloseModal, Last
    <2>4. Front(<<w>>) = << >>
      BY DEF Front
    <2> QED
      BY <2>2, <2>3, <2>4, WithoutOnly
  <1> QED
    BY <1>1, Inductive, PTL
=============================================================================
