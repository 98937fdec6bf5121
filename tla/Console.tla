------------------------------ MODULE Console ------------------------------
(***************************************************************************)
(* The query console: openQuery, closeQuery, keys, runSelection, exec and  *)
(* the history of app/query.go, the command table of cmdtable/table.go     *)
(* that alert mode asks, Exec (conn/exec.go), and the reconnect of         *)
(* app/connect.go underneath it.                                           *)
(*                                                                         *)
(* A command is a model value: quoting and colours are left out, and a     *)
(* line that does not parse runs nothing.  A text is a sequence of lines   *)
(* with one command each.  Which widget has the keyboard is the subject of *)
(* Windows: here the console's keys work whenever the page is shown.       *)
(***************************************************************************)
EXTENDS Integers, Sequences, FiniteSets, SequencesExt

CONSTANTS
  Cmds,          \* command lines
  Servers,       \* servers a profile can lead to
  WritesOf,      \* WritesOf[s]: the commands that server s flags "write"
  HistoryLimit,  \* maxLines of saveHistory (500 in the code)
  MaxLines,      \* bound: lines in the editor
  MaxConns,      \* bound: connections made
  MaxLoads,      \* bound: table loads under way
  MaxJobs,       \* bound: batches under way
  MaxRan         \* bound: commands handed out

ASSUME ConsoleAssumption ==
  /\ WritesOf \in [Servers -> SUBSET Cmds]
  /\ HistoryLimit \in Nat \ {0}
  /\ MaxLines \in Nat \ {0} /\ MaxConns \in Nat /\ MaxLoads \in Nat
  /\ MaxJobs \in Nat /\ MaxRan \in Nat

VARIABLES
  home,      \* home[i]: the server of the i-th connection; Len(home) is a.rc
  alert,     \* a.alert
  visible,   \* the query page is shown
  editor,    \* the editor's text
  mirror,    \* q.mirror
  table,     \* q.cmds: see Tables
  loads,     \* LoadCmdTable goroutines
  dialog,    \* the open alert dialog
  jobs,      \* exec goroutines
  history,   \* q.history
  histIdx,   \* q.histIdx
  ran        \* history: the commands handed to exec, in order

page == <<visible, editor, mirror>>
past == <<history, histIdx, ran>>
vars == <<home, alert, page, table, loads, dialog, jobs, past>>

Conns == 1 .. MaxConns
Batches == UNION {[1 .. n -> Cmds] : n \in 1 .. MaxLines}
Texts == Batches \cup {<< >>}

\* q.cmds: nil, the empty table of a failed COMMAND, or the table of a server.
Tables == {"nil", "empty"} \cup Servers
Class(t, c) == IF t \in Servers /\ c \in WritesOf[t] THEN "write" ELSE "other"
HasWrite(t, b) == \E i \in DOMAIN b : Class(t, b[i]) = "write"

\* A batch on its way: conn is where it will run.  The rest is history: the
\* connection, the alert mode and the table when ^R was pressed, and whether
\* a dialog was answered.
Held == [conn : Conns, cmds : Batches, pressed : Conns, armed : BOOLEAN, table : Tables,
         approved : BOOLEAN]
NoDialog == [cmds |-> << >>]

TypeOK ==
  /\ home \in Seq(Servers) /\ Len(home) <= MaxConns
  /\ alert \in BOOLEAN /\ visible \in BOOLEAN
  /\ editor \in Texts /\ mirror \in Texts
  /\ table \in Tables
  /\ loads \subseteq [conn : Conns, st : {"call", "full", "empty"}]
  /\ dialog \in Held \cup {NoDialog}
  /\ jobs \subseteq Held
  /\ history \in Seq(Cmds)
  /\ histIdx \in Nat
  /\ ran \in Seq(Cmds)

rc == Len(home)

----------------------------------------------------------------------------

Init ==
  /\ home = << >>
  /\ alert = FALSE /\ visible = FALSE
  /\ editor = << >> /\ mirror = << >>
  /\ table = "nil" /\ loads = {}
  /\ dialog = NoDialog /\ jobs = {}
  /\ history = << >> /\ histIdx = 0 /\ ran = << >>

\* A dial succeeds: the new connection takes over, the old one is closed.
Connected(s) ==
  /\ rc < MaxConns
  /\ home' = Append(home, s)
  /\ UNCHANGED <<alert, page, table, loads, dialog, jobs, past>>

\* ':' loads the table unless one with commands is there.
OpenQuery ==
  /\ rc > 0 /\ ~visible /\ Cardinality(loads) < MaxLoads
  /\ visible' = TRUE
  /\ loads' = IF table \in Servers THEN loads ELSE loads \cup {[conn |-> rc, st |-> "call"]}
  /\ UNCHANGED <<home, alert, editor, mirror, table, dialog, jobs, past>>

\* COMMAND is answered, or fails or times out: Load then gives an empty table.
LoadAnswered(l) ==
  /\ l.st = "call"
  /\ \E st \in {"full", "empty"} :
       /\ st = "full" => l.conn = rc
       /\ loads' = (loads \ {l}) \cup {[l EXCEPT !.st = st]}
  /\ UNCHANGED <<home, alert, page, table, dialog, jobs, past>>

\* The closure installs whatever came, over whatever is there.
LoadLands(l) ==
  /\ l.st # "call"
  /\ loads' = loads \ {l}
  /\ table' = IF l.st = "full" THEN home[l.conn] ELSE "empty"
  /\ UNCHANGED <<home, alert, page, dialog, jobs, past>>

\* ^A in the editor, a on the bare UI.
ToggleAlert ==
  /\ dialog = NoDialog
  /\ alert' = ~alert
  /\ UNCHANGED <<home, page, table, loads, dialog, jobs, past>>

\* SetChangedFunc: the mirror keeps the last text that was not empty.
SetText(t) ==
  /\ editor' = t
  /\ mirror' = IF t # << >> THEN t ELSE mirror

Editing == visible /\ dialog = NoDialog

Type(t) ==
  /\ Editing
  /\ t # editor
  /\ SetText(t)
  /\ UNCHANGED <<home, alert, visible, table, loads, dialog, jobs, past>>

\* q.text(): an empty editor is taken for one that lags behind.
Text == IF editor # << >> THEN editor ELSE mirror

\* Esc, and q while the text is empty.
CloseQuery ==
  /\ Editing
  /\ visible' = FALSE
  /\ UNCHANGED <<home, alert, editor, mirror, table, loads, dialog, jobs, past>>

PressQ == Text = << >> /\ CloseQuery

\* The lines ^R takes: the caret's, or those of a selection.  The caret of an
\* empty editor is on line 1.
Selected ==
  {SubSeq(Text, r[1], r[2]) :
     r \in {x \in (DOMAIN Text) \X (DOMAIN Text) : x[1] <= x[2] /\ (editor = << >> => x[2] = 1)}}

\* Variant: the list is cut before the new lines are added, at its front.
RememberFirst(b) ==
  /\ ran' = ran \o b
  /\ LET all == history \o b
     IN  /\ history' = SubSeq(all, 1, IF Len(all) < HistoryLimit THEN Len(all) ELSE HistoryLimit)
         /\ histIdx' = Len(all)

\* appendHistory, and saveHistory, which keeps the tail.
Remember(b) ==
  /\ ran' = ran \o b
  /\ LET all == history \o b
     IN  /\ history' = IF Len(all) > HistoryLimit
                       THEN SubSeq(all, Len(all) - HistoryLimit + 1, Len(all)) ELSE all
         /\ histIdx' = Len(all)

Exec(h) ==
  /\ Cardinality(jobs) < MaxJobs /\ Len(ran) + Len(h.cmds) <= MaxRan
  /\ jobs' = jobs \cup {h}
  /\ Remember(h.cmds)

\* Variant: only the first command of a selection is classified.
RunChecksFirst(b) ==
  LET h == [conn |-> rc, cmds |-> b, pressed |-> rc, armed |-> alert, table |-> table,
            approved |-> FALSE]
  IN  /\ Editing /\ rc > 0
      /\ b \in Selected
      /\ IF alert /\ HasWrite(table, SubSeq(b, 1, 1))
         THEN dialog' = h /\ UNCHANGED <<jobs, past>>
         ELSE Exec(h) /\ UNCHANGED dialog
      /\ UNCHANGED <<home, alert, page, table, loads>>

\* ^R: one dialog if alert mode finds any write.
RunSelection(b) ==
  LET h == [conn |-> rc, cmds |-> b, pressed |-> rc, armed |-> alert, table |-> table,
            approved |-> FALSE]
  IN  /\ Editing /\ rc > 0
      /\ b \in Selected
      /\ IF alert /\ HasWrite(table, b)
         THEN dialog' = h /\ UNCHANGED <<jobs, past>>
         ELSE Exec(h) /\ UNCHANGED dialog
      /\ UNCHANGED <<home, alert, page, table, loads>>

\* Variant: the connection is read when the dialog is answered.
ConfirmOnCurrent ==
  /\ dialog # NoDialog
  /\ Exec([dialog EXCEPT !.approved = TRUE, !.conn = rc])
  /\ dialog' = NoDialog
  /\ UNCHANGED <<home, alert, page, table, loads>>

Confirm ==
  /\ dialog # NoDialog
  /\ Exec([dialog EXCEPT !.approved = TRUE])
  /\ dialog' = NoDialog
  /\ UNCHANGED <<home, alert, page, table, loads>>

Dismiss ==
  /\ dialog # NoDialog
  /\ dialog' = NoDialog
  /\ UNCHANGED <<home, alert, page, table, loads, jobs, past>>

\* The goroutine has run the commands one after another, going on after one
\* that fails or meets a closed connection; its closure prints the replies.
JobEnds(j) ==
  /\ jobs' = jobs \ {j}
  /\ UNCHANGED <<home, alert, page, table, loads, dialog, past>>

\* Variant: the index may go below the oldest entry.
RecallBelowOldest(d) ==
  /\ Editing /\ history # << >>
  /\ LET i == histIdx + d
     IN  IF i >= Len(history)
         THEN histIdx' = Len(history) /\ SetText(<< >>)
         ELSE histIdx' = i /\ SetText(IF i < 0 THEN << >> ELSE <<history[i + 1]>>)
  /\ UNCHANGED <<home, alert, visible, table, loads, dialog, jobs, history, ran>>

\* ^P and ^N.
Recall(d) ==
  /\ Editing /\ history # << >>
  /\ LET i == IF histIdx + d < 0 THEN 0 ELSE histIdx + d
     IN  IF i >= Len(history)
         THEN histIdx' = Len(history) /\ SetText(<< >>)
         ELSE histIdx' = i /\ SetText(<<history[i + 1]>>)
  /\ UNCHANGED <<home, alert, visible, table, loads, dialog, jobs, history, ran>>

Next ==
  \/ \E s \in Servers : Connected(s)
  \/ OpenQuery \/ CloseQuery \/ PressQ \/ ToggleAlert
  \/ \E t \in Texts : Type(t)
  \/ \E b \in Batches : RunSelection(b)
  \/ Confirm \/ Dismiss
  \/ \E d \in {-1, 1} : Recall(d)
  \/ \E l \in loads : LoadAnswered(l) \/ LoadLands(l)
  \/ \E j \in jobs : JobEnds(j)

Spec == Init /\ [][Next]_vars

----------------------------------------------------------------------------
(* Properties.                                                             *)

\* What a job runs, it runs where the user asked for it: a dialog answered
\* after a reconnect does not move a write to another server.
RunsWhereAsked == \A j \in jobs : j.conn = j.pressed

\* In alert mode nothing that the table of that moment calls a write runs
\* without a dialog, wherever it stands in the selection (runSelection).
KnownWritesApproved ==
  \A j \in jobs :
    j.armed /\ HasWrite(j.table, j.cmds) => j.approved

\* The history is the last HistoryLimit commands, in the order they were
\* handed out, whatever dialogs came between.
HistoryIsTail ==
  LET n == IF Len(ran) < HistoryLimit THEN Len(ran) ELSE HistoryLimit
  IN  history = SubSeq(ran, Len(ran) - n + 1, Len(ran))

\* "every write command demands an explicit confirmation" in alert mode.
WritesAsked ==
  \A j \in jobs :
    j.armed /\ HasWrite(home[j.conn], j.cmds) => j.approved

\* "classification follows the server version": with no load under way, the
\* table that ^R would use is that of the server it would run on.
TableFollowsServer ==
  visible /\ table \in Servers /\ loads = {} => table = home[rc]

\* "runSelection executes the caret line, or every line in the selection":
\* from an empty editor, nothing.
EmptyEditorRunsNothing ==
  [][\A b \in Batches : RunSelection(b) => editor # << >>]_vars

\* "recallHistory steps through history (-1 = older, +1 = newer)": ^P puts a
\* command in the editor.
OlderRecallsCommand == [][Recall(-1) => editor' # << >>]_vars
=============================================================================
