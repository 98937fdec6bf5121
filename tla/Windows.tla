------------------------------ MODULE Windows ------------------------------
(***************************************************************************)
(* Windows, focus and the keys that open and close them: globalKeys,       *)
(* showModal, pushModal, popModal, closeModal, cycleFocus (app/app.go),    *)
(* openQuery, closeQuery and the alert confirmation (app/query.go),        *)
(* openGraph and closeGraph (app/graphview.go), the splash                 *)
(* (app/splash.go), and the answers that arrive while windows are open     *)
(* (openInfo in app/info.go, onConnected in app/connect.go).               *)
(*                                                                         *)
(* Every key press and every posted closure is one step of the UI loop.    *)
(* What tview's Pages does is modelled from how the program uses it: a     *)
(* page that is added takes the focus if some page had it, and a key goes  *)
(* to the widget that has the focus, visible or not.                       *)
(***************************************************************************)
EXTENDS Integers, Sequences, FiniteSets, SequencesExt

VARIABLES
  open,      \* openModals, bottom to top
  shown,     \* the visible pages above "main", bottom to top
  console,   \* a.query: "none", "page", or "gone" (the page was removed)
  focus,     \* where the keyboard goes, see Focus
  prev,      \* modalPrev
  bar,       \* what the command bar is for: "idle", "filter" or "find"
  armed,     \* a first q on the bare UI is younger than quitWindow
  stopped,   \* the application has quit
  asked,     \* answers under way, subset of {"info", "connected"}
  upset      \* history: an answer has come while a window was open, or the
             \* alert confirmation has opened over the console

vars == <<open, shown, console, focus, prev, bar, armed, stopped, asked, upset>>

Modals == {"connect", "settings", "help", "info", "confirm", "prompt", "editor"}
Windows == Modals \cup {"graph", "query", "splash"}
Panes == {"ns", "keys", "value", "cmd"}

\* A focused widget: a pane of the main page or a widget of a window.
Focus == [in : {"main"}, at : Panes] \cup [in : Windows, at : {"list", "field", "button"}]
Pane(p) == [in |-> "main", at |-> p]
NoFocus == [in |-> "main", at |-> "none"]

TypeOK ==
  /\ open \in Seq(Windows) /\ Len(open) <= Cardinality(Windows)
  /\ shown \in Seq(Windows) /\ Len(shown) <= Cardinality(Windows)
  /\ console \in {"none", "page", "gone"}
  /\ focus \in Focus
  /\ prev \in Focus \cup {NoFocus}
  /\ bar \in {"idle", "filter", "find"}
  /\ armed \in BOOLEAN /\ stopped \in BOOLEAN
  /\ asked \subseteq {"info", "connected"}
  /\ upset \in BOOLEAN

----------------------------------------------------------------------------

\* The widgets a window holds, and the one that is focused when it opens.
Widgets(w) ==
  CASE w = "connect" -> {"list", "field", "button"}
    [] w \in {"settings", "prompt", "editor"} -> {"field", "button"}
    [] w = "confirm" -> {"button"}
    [] w = "query" -> {"field"}
    [] OTHER -> {"list"}

First(w) ==
  [in |-> w,
   at |-> CASE w \in {"settings", "prompt", "editor", "query"} -> "field"
            [] w = "confirm" -> "button"
            [] OTHER -> "list"]

\* fieldFocused, or typingIn: letters belong to the focused widget.
FieldFocused == focus = Pane("cmd") \/ focus.at = "field"
TypingFocus == FieldFocused \/ focus.at = "button"
InTextInput == TypingFocus \/ open # << >>
FocusInPanes == focus.in = "main"

\* s with w taken out; a stack holds a window once, as WindowsProofs shows.
Without(s, w) ==
  IF w \in Range(s) THEN RemoveAt(s, CHOOSE i \in DOMAIN s : s[i] = w) ELSE s

PushModal(s, w) == IF w \in Range(s) THEN s ELSE Append(s, w)

\* Variant: the window on top is popped, whichever was closed.
PopTop(s, w) == IF s = << >> THEN s ELSE Front(s)

\* Variant: the window stays on the stack.
PopForgotten(s, w) == s

PopModal(s, w) == Without(s, w)

\* Pages.AddPage puts the page on top; the focus follows unless it is in no
\* page at all (the editor of a query page that was removed).
AddPage(w) ==
  /\ shown' = Append(Without(shown, w), w)
  /\ focus' = IF focus.in = "query" /\ console = "gone" THEN focus ELSE First(w)

ShowModal(w) ==
  /\ prev' = IF open = << >> THEN focus ELSE prev
  /\ open' = PushModal(open, w)
  /\ AddPage(w)

\* Variant: the focus is not given back.
CloseKeepsFocus(w) ==
  /\ open' = PopModal(open, w)
  /\ shown' = Without(shown, w)
  /\ focus' = focus
  /\ console' = IF w = "query" /\ console = "page" THEN "gone" ELSE console

CloseModal(w) ==
  /\ open' = PopModal(open, w)
  /\ shown' = Without(shown, w)
  /\ focus' = IF prev = NoFocus THEN Pane("keys") ELSE prev
  /\ console' = IF w = "query" /\ console = "page" THEN "gone" ELSE console

----------------------------------------------------------------------------

Init ==
  /\ open = <<"splash">> /\ shown = <<"splash">>
  /\ console = "none"
  /\ focus = First("splash")
  /\ prev = NoFocus
  /\ bar = "idle"
  /\ armed = FALSE /\ stopped = FALSE
  /\ asked \in {{}, {"connected"}}
  /\ upset = FALSE

\* A splash frame holds the focus; the last one removes the splash.
SplashFrame ==
  /\ "splash" \in Range(open)
  /\ focus' = First("splash")
  /\ UNCHANGED <<open, shown, console, prev, bar, armed, stopped, asked, upset>>

DismissSplash ==
  /\ "splash" \in Range(open)
  /\ open' = PopModal(open, "splash")
  /\ shown' = Without(shown, "splash")
  /\ focus' = Pane("keys")
  /\ UNCHANGED <<console, prev, bar, armed, stopped, asked, upset>>

\* q where it is not text: closes the top window, or quits on the second press.
QuitKey ==
  /\ "splash" \notin Range(open) /\ ~FieldFocused
  /\ IF open # << >>
     THEN CloseModal(Last(open)) /\ UNCHANGED <<armed, stopped>>
     ELSE /\ IF armed THEN stopped' = TRUE /\ UNCHANGED armed
                      ELSE armed' = TRUE /\ UNCHANGED stopped
          /\ UNCHANGED <<open, shown, console, focus>>
  /\ UNCHANGED <<prev, bar, asked, upset>>

CtrlC ==
  /\ stopped' = TRUE
  /\ UNCHANGED <<open, shown, console, focus, prev, bar, armed, asked, upset>>

QuitWindowPasses ==
  /\ armed
  /\ armed' = FALSE
  /\ UNCHANGED <<open, shown, console, focus, prev, bar, stopped, asked, upset>>

\* The single-letter global shortcuts.
Shortcut ==
  /\ ~InTextInput
  /\ \/ /\ \E w \in {"help", "settings", "connect"} : ShowModal(w)
        /\ UNCHANGED <<console, bar, asked>>
     \/ /\ asked' = asked \cup {"info"}
        /\ UNCHANGED <<open, shown, console, focus, prev, bar>>
     \/ /\ bar' = "filter" /\ focus' = Pane("cmd")
        /\ UNCHANGED <<open, shown, console, prev, asked>>
  /\ UNCHANGED <<armed, stopped, upset>>

\* ':' shows the page kept from the last time; a page that was removed is not
\* added again.
OpenQuery ==
  /\ ~InTextInput
  /\ console' = IF console = "none" THEN "page" ELSE console
  /\ open' = PushModal(open, "query")
  /\ shown' = IF console = "gone" THEN shown ELSE Append(shown, "query")
  /\ focus' = First("query")
  /\ UNCHANGED <<prev, bar, armed, stopped, asked, upset>>

\* Esc in the editor, or q while it is empty.
CloseQuery ==
  /\ focus = First("query") /\ console = "page"
  /\ open' = PopModal(open, "query")
  /\ shown' = Without(shown, "query")
  /\ focus' = Pane("keys")
  /\ UNCHANGED <<console, prev, bar, armed, stopped, asked, upset>>

\* ^R on a write while alert mode is on.
RunHeldUp ==
  /\ focus = First("query") /\ console = "page"
  /\ ShowModal("confirm")
  /\ upset' = TRUE
  /\ UNCHANGED <<console, bar, armed, stopped, asked>>

\* Tab and Backtab between the panes, or between the widgets of a window.
CycleFocus ==
  /\ FocusInPanes
  /\ focus' \in {Pane(p) : p \in Panes \ {focus.at}}
  /\ UNCHANGED <<open, shown, console, prev, bar, armed, stopped, asked, upset>>

WidgetMove ==
  /\ focus.in \in Range(shown)
  /\ focus' \in {[in |-> focus.in, at |-> x] : x \in Widgets(focus.in) \ {focus.at}}
  /\ UNCHANGED <<open, shown, console, prev, bar, armed, stopped, asked, upset>>

\* The command bar's Enter and Esc, when a mode has set them.
BarDone ==
  /\ focus = Pane("cmd") /\ bar # "idle"
  /\ focus' = Pane(IF bar = "find" THEN "value" ELSE "keys")
  /\ bar' = "idle"
  /\ UNCHANGED <<open, shown, console, prev, armed, stopped, asked, upset>>

\* d, t and m on the key list; d, e, n on the value pane: a key goes to the
\* pane that has the focus, whatever is open.
PaneKey ==
  /\ \/ focus = Pane("keys") /\ \E w \in {"confirm", "prompt"} : ShowModal(w)
     \/ focus = Pane("value") /\ \E w \in {"confirm", "editor"} : ShowModal(w)
  /\ UNCHANGED <<console, bar, armed, stopped, asked, upset>>

OpenFind ==
  /\ focus = Pane("value")
  /\ bar' = "find" /\ focus' = Pane("cmd")
  /\ UNCHANGED <<open, shown, console, prev, armed, stopped, asked, upset>>

OpenGraph ==
  /\ focus = Pane("value")
  /\ open' = PushModal(open, "graph")
  /\ shown' = Append(Without(shown, "graph"), "graph")
  /\ focus' = First("graph")
  /\ UNCHANGED <<console, prev, bar, armed, stopped, asked, upset>>

CloseGraph ==
  /\ focus.in = "graph"
  /\ open' = PopModal(open, "graph")
  /\ shown' = Without(shown, "graph")
  /\ focus' = Pane("value")
  /\ UNCHANGED <<console, prev, bar, armed, stopped, asked, upset>>

\* A modal's own Esc, Enter, save, cancel or close; connecting also dials.
Leave ==
  /\ focus.in \in Modals
  /\ CloseModal(focus.in)
  /\ \/ UNCHANGED asked
     \/ focus.in = "connect" /\ asked' = asked \cup {"connected"}
  /\ UNCHANGED <<prev, bar, armed, stopped, upset>>

\* INFO is answered.
InfoArrives ==
  /\ "info" \in asked
  /\ ShowModal("info")
  /\ asked' = asked \ {"info"}
  /\ upset' = (upset \/ open # << >>)
  /\ UNCHANGED <<console, bar, armed, stopped>>

\* A dial succeeds: onConnected moves the focus to the key list.
Connected ==
  /\ "connected" \in asked
  /\ focus' = Pane("keys")
  /\ asked' = asked \ {"connected"}
  /\ upset' = (upset \/ open # << >>)
  /\ UNCHANGED <<open, shown, console, prev, bar, armed, stopped>>

Keyboard ==
  \/ QuitKey \/ CtrlC \/ Shortcut \/ OpenQuery \/ CloseQuery \/ RunHeldUp
  \/ CycleFocus \/ WidgetMove \/ BarDone \/ PaneKey \/ OpenFind
  \/ OpenGraph \/ CloseGraph \/ Leave

Background ==
  SplashFrame \/ DismissSplash \/ QuitWindowPasses \/ InfoArrives \/ Connected

\* During the splash its card eats every key, unless the focus was taken.
Next ==
  \/ ~stopped /\ Keyboard
  \/ ~stopped /\ Background

Spec == Init /\ [][Next]_vars

----------------------------------------------------------------------------
(* Properties.                                                             *)

\* While no window is open as far as openModals knows, none is visible, so a
\* single-letter shortcut never acts underneath one (inTextInput).
BareMeansBare == open = << >> => shown = << >>

\* The stack q works on is what is on the screen, in the same order, through
\* every order of keys; a late answer or the alert confirmation can break it.
StackIsScreen == ~upset => open = shown

\* The keyboard goes to the window on top, or to the panes when there is none,
\* under the same proviso.
FocusOnTop == ~upset => focus.in = IF shown = << >> THEN "main" ELSE Last(shown)

\* "q is the universal exit: one press closes the top window; on the bare UI
\* a second press quits": the keyboard never goes to a page that is gone.
KeyboardIsHeard == focus.in \in {"main"} \cup Range(shown)

\* "modalPrev is the focused primitive when the first modal opened; closeModal
\* returns focus there": q gives the graph's focus back to the value pane.
GraphReturnsFocus ==
  [][QuitKey /\ shown = <<"graph">> => focus' = Pane("value")]_vars

\* "one press closes the top window": what q closes is what is on top.
QuitClosesTop ==
  [][QuitKey /\ shown # << >> => shown' = Front(shown)]_vars
=============================================================================
