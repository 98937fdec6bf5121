--------------------------- MODULE ConsoleProofs ---------------------------
(***************************************************************************)
(* Proofs about Console, for any commands, servers, table contents and     *)
(* bounds: the types, and that a batch runs on the connection where it was *)
(* asked for, and not without a dialog if the table calls it a write.      *)
(*                                                                         *)
(* The two properties speak of jobs; the inductive invariant says the same *)
(* of the dialog that may become one, in DialogKeeps, and LoadsKeep says   *)
(* that a table comes from a connection that has been made.  The history   *)
(* is inductive by itself: the last commands of (the last of s, and b) are *)
(* the last of s and b.                                                    *)
(***************************************************************************)
EXTENDS Console, TLAPS, SequenceTheorems

DialogKeeps == dialog # NoDialog => dialog.conn = dialog.pressed

LoadsKeep == \A l \in loads : l.conn <= Len(home)

IInv == TypeOK /\ DialogKeeps /\ LoadsKeep /\ RunsWhereAsked /\ KnownWritesApproved

\* A line by itself is a batch.
LEMMA LineIsBatch ==
  ASSUME NEW c \in Cmds
  PROVE  <<c>> \in Batches
  <1>1. <<c>> \in [1 .. 1 -> Cmds]
    OBVIOUS
  <1>2. 1 \in 1 .. MaxLines
    BY ConsoleAssumption
  <1> QED
    BY <1>1, <1>2 DEF Batches

\* A batch is a sequence of commands, and no dialog without commands is Held.
LEMMA BatchIsSeq ==
  ASSUME NEW b \in Batches
  PROVE  b \in Seq(Cmds) /\ b # << >>
  <1>1. PICK n \in 1 .. MaxLines : b \in [1 .. n -> Cmds]
    BY DEF Batches
  <1>2. n \in Nat /\ n > 0
    BY ConsoleAssumption
  <1>3. b \in Seq(Cmds) /\ Len(b) = n
    BY <1>1, <1>2
  <1> QED
    BY <1>2, <1>3

\* appendHistory keeps the types of what it writes.
LEMMA RememberKeepsTypes ==
  ASSUME NEW b \in Seq(Cmds), history \in Seq(Cmds), ran \in Seq(Cmds), Remember(b)
  PROVE  history' \in Seq(Cmds) /\ ran' \in Seq(Cmds) /\ histIdx' \in Nat
  <1> DEFINE all == history \o b
  <1>1. all \in Seq(Cmds) /\ Len(all) \in Nat /\ ran \o b \in Seq(Cmds)
    OBVIOUS
  <1>2. CASE Len(all) > HistoryLimit
    <2>1. Len(all) - HistoryLimit + 1 \in 1 .. Len(all)
      BY <1>1, <1>2, ConsoleAssumption
    <2>2. SubSeq(all, Len(all) - HistoryLimit + 1, Len(all)) \in Seq(Cmds)
      BY <1>1, <2>1
    <2> QED
      BY <1>1, <1>2, <2>2 DEF Remember
  <1>3. CASE ~(Len(all) > HistoryLimit)
    BY <1>1, <1>3 DEF Remember
  <1> QED
    BY <1>2, <1>3

\* Handing a batch over keeps the invariant, if the batch itself is in order.
LEMMA ExecKeepsIInv ==
  ASSUME IInv, NEW h \in Held, Exec(h), h.conn = h.pressed,
         h.armed /\ HasWrite(h.table, h.cmds) => h.approved,
         dialog' \in {dialog, NoDialog},
         UNCHANGED <<home, alert, page, table, loads>>
  PROVE  IInv'
  <1>1. h.cmds \in Seq(Cmds)
    BY BatchIsSeq DEF Held
  <1>2. history' \in Seq(Cmds) /\ ran' \in Seq(Cmds) /\ histIdx' \in Nat
    BY <1>1, RememberKeepsTypes DEF Exec, IInv, TypeOK
  <1>3. jobs' = jobs \cup {h}
    BY DEF Exec
  <1>4. TypeOK'
    BY <1>2, <1>3 DEF IInv, TypeOK, page
  <1>5. DialogKeeps' /\ LoadsKeep'
    BY DEF IInv, DialogKeeps, LoadsKeep
  <1>6. RunsWhereAsked'
    BY <1>3 DEF IInv, RunsWhereAsked
  <1>7. KnownWritesApproved'
    BY <1>3 DEF IInv, KnownWritesApproved, HasWrite, Class
  <1> QED
    BY <1>4, <1>5, <1>6, <1>7 DEF IInv

LEMMA InitEstablishesIInv == Init => IInv
  <1> SUFFICES ASSUME Init PROVE IInv
    OBVIOUS
  <1>1. TypeOK
    <2>1. home \in Seq(Servers) /\ Len(home) <= MaxConns
      BY ConsoleAssumption DEF Init
    <2>2. history \in Seq(Cmds) /\ histIdx \in Nat /\ ran \in Seq(Cmds)
      BY DEF Init
    <2>3. editor \in Texts /\ mirror \in Texts /\ table \in Tables
      BY DEF Init, Texts, Tables
    <2>4. loads = {} /\ jobs = {} /\ dialog = NoDialog /\ alert = FALSE /\ visible = FALSE
      BY DEF Init
    <2> QED
      BY <2>1, <2>2, <2>3, <2>4 DEF TypeOK
  <1>2. DialogKeeps /\ LoadsKeep /\ RunsWhereAsked /\ KnownWritesApproved
    BY DEF Init, DialogKeeps, LoadsKeep, RunsWhereAsked, KnownWritesApproved
  <1> QED
    BY <1>1, <1>2 DEF IInv

\* ^R either opens the dialog or hands the batch over.
LEMMA RunKeepsIInv ==
  ASSUME IInv, NEW b \in Batches, RunSelection(b)
  PROVE  IInv'
  <1> DEFINE h == [conn |-> rc, cmds |-> b, pressed |-> rc, armed |-> alert,
                   table |-> table, approved |-> FALSE]
  <1>1. rc \in Conns
    BY ConsoleAssumption DEF RunSelection, rc, Conns, IInv, TypeOK
  <1>2. h \in Held
    BY <1>1 DEF Held, IInv, TypeOK
  <1>3. CASE alert /\ HasWrite(table, b)
    <2>1. dialog' = h /\ UNCHANGED <<home, alert, page, table, loads, jobs, past>>
      BY <1>3 DEF RunSelection
    <2>2. TypeOK'
      BY <1>2, <2>1 DEF IInv, TypeOK, page, past
    <2>3. h.conn = h.pressed
      OBVIOUS
    <2>4. DialogKeeps' /\ LoadsKeep'
      BY <2>1, <2>3 DEF IInv, DialogKeeps, LoadsKeep
    <2>5. RunsWhereAsked' /\ KnownWritesApproved'
      BY <2>1 DEF IInv, RunsWhereAsked, KnownWritesApproved, HasWrite, Class
    <2> QED
      BY <2>2, <2>4, <2>5 DEF IInv
  <1>4. CASE ~(alert /\ HasWrite(table, b))
    <2>1. Exec(h) /\ UNCHANGED <<home, alert, page, table, loads, dialog>>
      BY <1>4 DEF RunSelection
    <2>2. h.conn = h.pressed /\ ~(h.armed /\ HasWrite(h.table, h.cmds))
      BY <1>4
    <2> QED
      BY <1>2, <2>1, <2>2, ExecKeepsIInv
  <1> QED
    BY <1>3, <1>4

LEMMA ConfirmKeepsIInv ==
  ASSUME IInv, Confirm
  PROVE  IInv'
  <1> DEFINE h == [dialog EXCEPT !.approved = TRUE]
  <1>1. dialog \in Held
    BY DEF Confirm, IInv, TypeOK
  <1>2. h \in Held /\ h.approved /\ h.conn = dialog.conn /\ h.pressed = dialog.pressed
    BY <1>1 DEF Held
  <1>3. h.conn = h.pressed
    BY <1>2 DEF Confirm, IInv, DialogKeeps
  <1>4. Exec(h) /\ dialog' = NoDialog /\ UNCHANGED <<home, alert, page, table, loads>>
    BY DEF Confirm
  <1> QED
    BY <1>2, <1>3, <1>4, ExecKeepsIInv

LEMMA RecallKeepsIInv ==
  ASSUME IInv, NEW d \in {-1, 1}, Recall(d)
  PROVE  IInv'
  <1> DEFINE i == IF histIdx + d < 0 THEN 0 ELSE histIdx + d
  <1>1. i \in Nat
    BY DEF IInv, TypeOK
  <1>2. histIdx' \in Nat /\ editor' \in Texts /\ mirror' \in Texts
    <2>1. CASE i >= Len(history)
      BY <2>1 DEF Recall, SetText, Texts, IInv, TypeOK
    <2>2. CASE ~(i >= Len(history))
      <3>1. history[i + 1] \in Cmds
        BY <1>1, <2>2 DEF IInv, TypeOK
      <3>2. <<history[i + 1]>> \in Texts
        BY <3>1, LineIsBatch DEF Texts
      <3> QED
        BY <1>1, <2>2, <3>2 DEF Recall, SetText, IInv, TypeOK
    <2> QED
      BY <2>1, <2>2
  <1>3. TypeOK'
    BY <1>2 DEF Recall, IInv, TypeOK
  <1> QED
    BY <1>3 DEF Recall, IInv, DialogKeeps, LoadsKeep, RunsWhereAsked, KnownWritesApproved,
                HasWrite, Class

LEMMA NextKeepsIInv == IInv /\ [Next]_vars => IInv'
  <1> SUFFICES ASSUME IInv, [Next]_vars PROVE IInv'
    OBVIOUS
  <1> USE DEF IInv
  <1>1. ASSUME NEW s \in Servers, Connected(s) PROVE IInv'
    <2>1. Append(home, s) \in Seq(Servers) /\ Len(Append(home, s)) = Len(home) + 1
      BY DEF TypeOK
    <2>2. TypeOK'
      BY <1>1, <2>1, ConsoleAssumption DEF Connected, TypeOK, page, past, rc
    <2> QED
      BY <1>1, <2>1, <2>2 DEF Connected, TypeOK, Conns, DialogKeeps, LoadsKeep,
          RunsWhereAsked, KnownWritesApproved, HasWrite, Class
  <1>2. CASE OpenQuery
    <2>1. TypeOK'
      BY <1>2, ConsoleAssumption DEF OpenQuery, TypeOK, past, rc, Conns
    <2> QED
      BY <1>2, <2>1 DEF OpenQuery, rc, DialogKeeps, LoadsKeep,
          RunsWhereAsked, KnownWritesApproved, HasWrite, Class
  <1>3. CASE CloseQuery \/ PressQ \/ ToggleAlert \/ Dismiss
    BY <1>3 DEF CloseQuery, PressQ, ToggleAlert, Dismiss, TypeOK, page, past, DialogKeeps,
                LoadsKeep, RunsWhereAsked, KnownWritesApproved, HasWrite, Class
  <1>4. ASSUME NEW t \in Texts, Type(t) PROVE IInv'
    BY <1>4 DEF Type, SetText, TypeOK, past, DialogKeeps, LoadsKeep, RunsWhereAsked,
                KnownWritesApproved, HasWrite, Class
  <1>5. ASSUME NEW b \in Batches, RunSelection(b) PROVE IInv'
    BY <1>5, RunKeepsIInv
  <1>6. CASE Confirm
    BY <1>6, ConfirmKeepsIInv
  <1>7. ASSUME NEW d \in {-1, 1}, Recall(d) PROVE IInv'
    BY <1>7, RecallKeepsIInv
  <1>8. ASSUME NEW l \in loads, LoadAnswered(l) PROVE IInv'
    <2>1. TypeOK'
      BY <1>8 DEF LoadAnswered, TypeOK, page, past
    <2>2. PICK st \in {"full", "empty"} : loads' = (loads \ {l}) \cup {[l EXCEPT !.st = st]}
      BY <1>8 DEF LoadAnswered
    <2>3. [l EXCEPT !.st = st].conn = l.conn
      BY DEF TypeOK
    <2>4. LoadsKeep'
      BY <1>8, <2>2, <2>3 DEF LoadAnswered, LoadsKeep
    <2> QED
      BY <1>8, <2>1, <2>4 DEF LoadAnswered, DialogKeeps,
          RunsWhereAsked, KnownWritesApproved, HasWrite, Class
  <1>9. ASSUME NEW l \in loads, LoadLands(l) PROVE IInv'
    <2>1. home[l.conn] \in Servers
      BY DEF TypeOK, LoadsKeep, Conns
    <2>2. table' \in Tables
      BY <1>9, <2>1 DEF LoadLands, Tables
    <2>3. TypeOK'
      BY <1>9, <2>2 DEF LoadLands, TypeOK, page, past
    <2> QED
      BY <1>9, <2>3 DEF LoadLands, DialogKeeps, LoadsKeep,
          RunsWhereAsked, KnownWritesApproved, HasWrite, Class
  <1>10. ASSUME NEW j \in jobs, JobEnds(j) PROVE IInv'
    BY <1>10 DEF JobEnds, TypeOK, page, past, DialogKeeps, LoadsKeep, RunsWhereAsked,
                 KnownWritesApproved, HasWrite, Class
  <1>11. CASE UNCHANGED vars
    BY <1>11 DEF vars, page, past, TypeOK, DialogKeeps, LoadsKeep, RunsWhereAsked,
                 KnownWritesApproved, HasWrite, Class
  <1> QED
    BY <1>1, <1>2, <1>3, <1>4, <1>5, <1>6, <1>7, <1>8, <1>9, <1>10, <1>11 DEF Next

\* The invariant, of every reachable state.
THEOREM Invariance == Spec => []IInv
  BY InitEstablishesIInv, NextKeepsIInv, PTL DEF Spec

\* Every variable of the console keeps its type.
THEOREM TypeCorrect == Spec => []TypeOK
  <1>1. IInv => TypeOK
    BY DEF IInv
  <1> QED
    BY <1>1, Invariance, PTL

\* A batch runs on the connection that was in use when ^R was pressed,
\* whatever reconnects pass while its dialog is open.
THEOREM BatchesRunWhereAsked == Spec => []RunsWhereAsked
  <1>1. IInv => RunsWhereAsked
    BY DEF IInv
  <1> QED
    BY <1>1, Invariance, PTL

\* In alert mode no batch with a command the table calls a write runs without
\* a dialog having been answered for it.
THEOREM KnownWritesAreApproved == Spec => []KnownWritesApproved
  <1>1. IInv => KnownWritesApproved
    BY DEF IInv
  <1> QED
    BY <1>1, Invariance, PTL

----------------------------------------------------------------------------
(* The history.                                                            *)

LastOf(s, n) == SubSeq(s, Len(s) - n + 1, Len(s))
Least(x, y) == IF x < y THEN x ELSE y

LEMMA LastOfItems ==
  ASSUME NEW s \in Seq(Cmds), NEW n \in Nat, n <= Len(s)
  PROVE  /\ LastOf(s, n) \in Seq(Cmds) /\ Len(LastOf(s, n)) = n
         /\ \A i \in 1 .. n : LastOf(s, n)[i] = s[Len(s) - n + i]
  <1> DEFINE m == Len(s) - n + 1
             t == SubSeq(s, m, Len(s))
  <1>1. Len(s) \in Nat
    BY LenProperties
  <1>2. m \in 1 .. Len(s) + 1 /\ Len(s) - m + 1 = n /\ (m <= Len(s) \/ n = 0)
    BY <1>1
  <1>3. \A i \in 1 .. n : m + i - 1 = Len(s) - n + i
    BY <1>1
  <1> HIDE DEF m
  <1>4. /\ t \in Seq(Cmds)
        /\ Len(t) = IF m <= Len(s) THEN Len(s) - m + 1 ELSE 0
        /\ \A i \in 1 .. Len(s) - m + 1 : t[i] = s[m + i - 1]
    <2>1. m \in Int /\ Len(s) \in Int /\ \A i \in m .. Len(s) : s[i] \in Cmds
      BY <1>1, <1>2, ElementOfSeq
    <2> QED
      BY <2>1, SubSeqProperties
  <1> HIDE DEF t
  <1>5. Len(t) = n
    <2>1. CASE m <= Len(s)
      BY <1>2, <1>4, <2>1
    <2>2. CASE ~(m <= Len(s))
      BY <1>2, <1>4, <2>2
    <2> QED
      BY <2>1, <2>2
  <1>6. \A i \in 1 .. n : t[i] = s[Len(s) - n + i]
    BY <1>2, <1>3, <1>4
  <1>7. LastOf(s, n) = t
    BY DEF LastOf, m, t
  <1> QED
    BY <1>4, <1>5, <1>6, <1>7

\* The last items of (the last of s, and b) are the last of s and b.
LEMMA LastOfLast ==
  ASSUME NEW s \in Seq(Cmds), NEW b \in Seq(Cmds), NEW L \in Nat,
         NEW h \in Seq(Cmds), h = LastOf(s, Least(Len(s), L))
  PROVE  (IF Len(h \o b) > L THEN LastOf(h \o b, L) ELSE h \o b)
           = LastOf(s \o b, Least(Len(s \o b), L))
  <1> DEFINE all == h \o b
             whole == s \o b
             n == Least(Len(s), L)
             k == Least(Len(whole), L)
             out == IF Len(all) > L THEN LastOf(all, L) ELSE all
  <1>1. Len(s) \in Nat /\ Len(b) \in Nat
    BY LenProperties
  <1>2. n \in Nat /\ n <= Len(s) /\ (n = Len(s) \/ n = L)
    BY <1>1 DEF Least
  <1>3. n <= L
    BY <1>1 DEF Least
  <1>4. h = LastOf(s, n)
    OBVIOUS
  <1> HIDE DEF n
  <1>5. h \in Seq(Cmds) /\ Len(h) = n /\ \A i \in 1 .. n : h[i] = s[Len(s) - n + i]
    <2>1. /\ LastOf(s, n) \in Seq(Cmds) /\ Len(LastOf(s, n)) = n
          /\ \A i \in 1 .. n : LastOf(s, n)[i] = s[Len(s) - n + i]
      BY <1>2, LastOfItems
    <2> QED
      BY <1>4, <2>1
  <1>6. /\ all \in Seq(Cmds) /\ Len(all) = n + Len(b)
        /\ \A i \in 1 .. n + Len(b) : all[i] = IF i <= n THEN h[i] ELSE b[i - n]
    <2>1. /\ all \in Seq(Cmds) /\ Len(all) = Len(h) + Len(b)
          /\ \A i \in 1 .. Len(h) + Len(b) : all[i] = IF i <= Len(h) THEN h[i] ELSE b[i - Len(h)]
      BY <1>5, ConcatProperties
    <2> HIDE DEF all
    <2> QED
      BY <1>5, <2>1
  <1>7. /\ whole \in Seq(Cmds) /\ Len(whole) = Len(s) + Len(b)
        /\ \A i \in 1 .. Len(s) + Len(b) : whole[i] = IF i <= Len(s) THEN s[i] ELSE b[i - Len(s)]
    BY ConcatProperties
  <1> HIDE DEF all, whole
  <1>8. ASSUME NEW i \in 1 .. n + Len(b) PROVE all[i] = whole[Len(s) - n + i]
    <2>1. Len(s) - n + i \in 1 .. Len(s) + Len(b)
      BY <1>1, <1>2
    <2>2. CASE i <= n
      <3>1. i \in 1 .. n /\ Len(s) - n + i <= Len(s)
        BY <1>1, <1>2, <2>2
      <3> QED
        BY <1>5, <1>6, <1>7, <2>1, <2>2, <3>1
    <2>3. CASE ~(i <= n)
      <3>1. ~(Len(s) - n + i <= Len(s)) /\ Len(s) - n + i - Len(s) = i - n
        BY <1>1, <1>2, <2>3
      <3>2. all[i] = b[i - n]
        BY <1>6, <2>3
      <3>3. whole[Len(s) - n + i] = b[Len(s) - n + i - Len(s)]
        <4>1. PICK j \in 1 .. Len(s) + Len(b) : j = Len(s) - n + i
          BY <2>1
        <4>2. whole[j] = b[j - Len(s)]
          BY <1>7, <3>1, <4>1
        <4> QED
          BY <1>1, <1>2, <4>1, <4>2
      <3> QED
        BY <3>1, <3>2, <3>3
    <2> QED
      BY <2>2, <2>3
  <1>9. /\ k \in Nat /\ k <= Len(whole)
        /\ k = IF n + Len(b) > L THEN L ELSE n + Len(b)
    <2>1. Len(whole) = Len(s) + Len(b)
      BY <1>7
    <2> QED
      BY <1>1, <1>2, <1>3, <2>1 DEF Least
  <1> HIDE DEF k
  <1>10. /\ LastOf(whole, k) \in Seq(Cmds) /\ Len(LastOf(whole, k)) = k
         /\ \A i \in 1 .. k : LastOf(whole, k)[i] = whole[Len(whole) - k + i]
    BY <1>7, <1>9, LastOfItems
  <1>11. /\ out \in Seq(Cmds) /\ Len(out) = k
         /\ \A i \in 1 .. k : out[i] = whole[Len(whole) - k + i]
    <2>1. CASE n + Len(b) > L
      <3>1. k = L /\ out = LastOf(all, L)
        BY <1>6, <1>9, <2>1
      <3>2. L <= Len(all)
        BY <1>1, <1>2, <1>6, <2>1
      <3>3. /\ LastOf(all, L) \in Seq(Cmds) /\ Len(LastOf(all, L)) = L
            /\ \A i \in 1 .. L : LastOf(all, L)[i] = all[Len(all) - L + i]
        BY <1>6, <3>2, LastOfItems
      <3>4. ASSUME NEW i \in 1 .. L PROVE all[Len(all) - L + i] = whole[Len(whole) - L + i]
        <4>1. Len(all) - L + i \in 1 .. n + Len(b)
          BY <1>1, <1>2, <1>6, <2>1
        <4>2. Len(s) - n + (Len(all) - L + i) = Len(whole) - L + i
          BY <1>1, <1>2, <1>6, <1>7
        <4> QED
          BY <1>8, <4>1, <4>2
      <3> QED
        BY <3>1, <3>3, <3>4
    <2>2. CASE ~(n + Len(b) > L)
      <3>1. k = n + Len(b) /\ out = all
        BY <1>6, <1>9, <2>2
      <3>2. ASSUME NEW i \in 1 .. k PROVE Len(whole) - k + i = Len(s) - n + i
        BY <1>1, <1>2, <1>7, <3>1
      <3> QED
        BY <1>6, <1>8, <3>1, <3>2
    <2> QED
      BY <2>1, <2>2
  <1>12. out = LastOf(whole, k)
    <2> HIDE DEF out
    <2> QED
      BY <1>10, <1>11, SeqEqual
  <1> QED
    BY <1>12 DEF all, whole, k, out

\* The history on file is the tail of what has been handed out.
THEOREM HistoryStaysTail == Spec => []HistoryIsTail
  <1> DEFINE Tailed == history = LastOf(ran, Least(Len(ran), HistoryLimit))
  <1>1. Init => Tailed
    <2> SUFFICES ASSUME Init PROVE Tailed
      OBVIOUS
    <2>1. ran = << >> /\ history = << >> /\ ran \in Seq(Cmds) /\ Len(ran) = 0
      BY DEF Init
    <2>2. Least(Len(ran), HistoryLimit) = 0
      BY <2>1, ConsoleAssumption DEF Least
    <2>3. LastOf(ran, 0) \in Seq(Cmds) /\ Len(LastOf(ran, 0)) = 0
      <3>1. 0 \in Nat /\ 0 <= Len(ran)
        BY <2>1
      <3> QED
        BY <2>1, <3>1, LastOfItems
    <2> QED
      BY <2>1, <2>2, <2>3, EmptySeq
  <1>2. TypeOK /\ Tailed /\ [Next]_vars => Tailed'
    <2> SUFFICES ASSUME TypeOK, Tailed, [Next]_vars PROVE Tailed'
      OBVIOUS
    <2>1. ASSUME NEW b \in Seq(Cmds), Remember(b) PROVE Tailed'
      <3>1. ran \in Seq(Cmds) /\ HistoryLimit \in Nat
        BY ConsoleAssumption DEF TypeOK
      <3>2. /\ ran' = ran \o b
            /\ history' = IF Len(history \o b) > HistoryLimit
                          THEN LastOf(history \o b, HistoryLimit) ELSE history \o b
        BY <2>1 DEF Remember, LastOf
      <3>3. PICK h : h = history
        OBVIOUS
      <3>4. h \in Seq(Cmds) /\ h = LastOf(ran, Least(Len(ran), HistoryLimit))
        BY <3>3 DEF TypeOK
      <3>5. (IF Len(h \o b) > HistoryLimit THEN LastOf(h \o b, HistoryLimit) ELSE h \o b)
             = LastOf(ran \o b, Least(Len(ran \o b), HistoryLimit))
        BY <2>1, <3>1, <3>4, LastOfLast
      <3>6. history' = LastOf(ran', Least(Len(ran'), HistoryLimit))
        BY <3>2, <3>3, <3>5
      <3> QED
        BY <3>6
    <2>2. ASSUME NEW h \in Held, Exec(h) PROVE Tailed'
      BY <2>1, <2>2, BatchIsSeq DEF Exec, Held
    <2>3. ASSUME UNCHANGED <<history, ran>> PROVE Tailed'
      BY <2>3
    <2>4. ASSUME NEW b \in Batches, RunSelection(b) PROVE Tailed'
      <3>1. b \in Seq(Cmds)
        BY BatchIsSeq
      <3>2. Remember(b) \/ UNCHANGED past
        BY <2>4 DEF RunSelection, Exec
      <3> QED
        BY <2>1, <2>3, <3>1, <3>2 DEF past
    <2>5. CASE Confirm
      <3>1. dialog \in Held
        BY <2>5 DEF Confirm, TypeOK
      <3>2. [dialog EXCEPT !.approved = TRUE] \in Held /\ Exec([dialog EXCEPT !.approved = TRUE])
        BY <2>5, <3>1 DEF Confirm, Held
      <3> QED
        BY <2>2, <3>2
    <2> HIDE DEF Tailed
    <2> QED
      BY <2>3, <2>4, <2>5 DEF Next, vars, past, Connected, OpenQuery, CloseQuery, PressQ,
         ToggleAlert, Type, Dismiss, Recall, LoadAnswered, LoadLands, JobEnds
  <1>3. Tailed => HistoryIsTail
    BY DEF HistoryIsTail, LastOf, Least
  <1>4. Spec => []TypeOK
    BY TypeCorrect
  <1> QED
    BY <1>1, <1>2, <1>3, <1>4, PTL DEF Spec
=============================================================================
