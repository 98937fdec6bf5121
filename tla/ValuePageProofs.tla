-------------------------- MODULE ValuePageProofs --------------------------
(***************************************************************************)
(* Proofs about ValuePage, for any values, page length and bounds: paging  *)
(* through a stream misses nothing, whatever this and other clients write  *)
(* meanwhile, and a list at rest is shown from p.start on, for a user who  *)
(* waits for each page.                                                    *)
(*                                                                         *)
(* Of a stream, Covered carries the promise from the page to the fetches   *)
(* under way: what a fetch starts after has been shown, and what it has    *)
(* read has no gaps.  Of a list, Fresh says that what has been read is     *)
(* what the server holds, unless a write is still to be refreshed.         *)
(***************************************************************************)
EXTENDS ValuePage, TLAPS, SequenceTheorems, FiniteSetTheorems

Row == [at : Int, val : Int]
Pages == [kind : {"list", "stream", "none"}, start : Nat, total : Nat, last : Nat,
          more : BOOLEAN, rows : Seq(Row)]
Fetches == [start : Nat, last : Nat, live : BOOLEAN, total : Nat, rows : Seq(Row),
            st : {"len", "range", "done"}]
Ops == [kind : {"LSET", "LREM", "XDEL", "RPUSH", "XADD"}, at : Int, val : Int, row : Int,
        st : {"sent", "done"}]

\* The shapes of the state, without bounds.
Shapes ==
  /\ kind \in Kinds
  /\ content \in Seq(Nat)
  /\ nextId \in Nat \ {0}
  /\ page \in Pages /\ page.kind \in {kind, "none"}
  /\ fetch \subseteq Fetches
  /\ ops \subseteq Ops
  /\ \A o \in ops : o.kind \in (IF kind = "list" THEN {"LSET", "LREM", "RPUSH"} ELSE {"XDEL", "XADD"})
                    /\ (o.kind \in {"LSET", "RPUSH"} => o.val \in Nat)
                    /\ (o.kind = "LSET" => o.at \in Nat)
  /\ reload \in BOOLEAN

Increasing(c) == \A i, j \in DOMAIN c : i < j => c[i] < c[j]

\* The entries of a stream, and those it held when the page was opened.
StreamIds ==
  kind = "stream" =>
    /\ Increasing(content)
    /\ Range(content) \subseteq 1 .. nextId - 1
    /\ old \subseteq 1 .. nextId - 1
    /\ \A f \in fetch : RowIds(f.rows) \subseteq 1 .. nextId - 1

\* What was there when the page was opened, and still is.
Kept == Range(content) \cap old

\* A fetch starts after what has been shown, and reads on without gaps.
Covered(f) ==
  /\ \A id \in Kept : id <= f.last => id \in seen
  /\ f.st = "done" /\ f.rows # << >> =>
       \A id \in Kept : f.last < id /\ id <= Last(f.rows).at => id \in RowIds(f.rows)

StreamInv ==
  kind = "stream" =>
    /\ \A id \in Kept : id <= page.last => id \in seen
    /\ \A f \in fetch : f.live => Covered(f)

IInv == Shapes /\ StreamIds /\ StreamInv

\* No write is still to be refreshed.
Fresh == ~reload /\ \A o \in ops : o.st # "done"

\* Of a list, and a user who waits: what is shown, or under way, is current.
ListInv ==
  kind = "list" /\ "list" \in Patient =>
    /\ \A f \in fetch : f.live => f.start = page.start
    /\ Fresh =>
         /\ \A f \in fetch : f.live /\ f.st = "done" => f.rows = ListRows(content, f.start)
         /\ \/ \E f \in fetch : f.live
            \/ page.kind # kind
            \/ page.rows = ListRows(content, page.start)

----------------------------------------------------------------------------
(* Sequences: the first position of something, and removals.               *)

\* A set of numbers that is not empty has a least one: the intervals up to
\* its members are finite sets, and inclusion of those is well founded.
LEMMA LeastNumber ==
  ASSUME NEW T \in SUBSET Nat, T # {}
  PROVE  \E n \in T : \A m \in T : n <= m
  <1> DEFINE ups == {1 .. n : n \in T}
  <1>1. ups \subseteq FiniteSubsetsOf(Nat) /\ ups # {}
    <2>1. \A n \in T : 1 .. n \in SUBSET Nat /\ IsFiniteSet(1 .. n)
      BY FS_Interval
    <2> QED
      BY <2>1 DEF FiniteSubsetsOf
  <1>2. IsWellFoundedOn(StrictSubsetOrdering(Nat), FiniteSubsetsOf(Nat))
    BY FS_StrictSubsetOrderingWellFounded
  <1>3. PICK x \in ups : \A y \in ups : ~(<<y, x>> \in StrictSubsetOrdering(Nat))
    <2> HIDE DEF ups
    <2> QED
      BY <1>1, <1>2, WFMin
  <1>4. PICK n \in T : x = 1 .. n
    BY <1>3
  <1>5. ASSUME NEW m \in T, m < n PROVE FALSE
    <2>1. 1 .. m \subseteq 1 .. n /\ n \in 1 .. n /\ n \notin 1 .. m
      BY <1>5
    <2>2. <<1 .. m, x>> \in StrictSubsetOrdering(Nat)
      BY <1>4, <2>1 DEF StrictSubsetOrdering
    <2> QED
      BY <1>3, <2>2
  <1> QED
    BY <1>5

\* FirstAt finds the first position of what is there.
LEMMA FirstAtExists ==
  ASSUME NEW c \in Seq(Nat), NEW v \in Range(c)
  PROVE  FirstAt(c, v) \in 1 .. Len(c) /\ c[FirstAt(c, v)] = v
  <1> DEFINE T == {i \in 1 .. Len(c) : c[i] = v}
  <1>1. DOMAIN c = 1 .. Len(c) /\ Len(c) \in Nat
    BY LenProperties
  <1>2. T \in SUBSET Nat /\ T # {}
    BY <1>1 DEF Range
  <1>3. PICK n \in T : \A m \in T : n <= m
    BY <1>2, LeastNumber
  <1>4. n \in DOMAIN c /\ c[n] = v /\ \A j \in 1 .. n - 1 : c[j] # v
    BY <1>1, <1>3
  <1> QED
    BY <1>1, <1>4 DEF FirstAt

\* XRANGE starts at the first id that is large enough.
LEMMA FromExists ==
  ASSUME NEW c \in Seq(Nat), Increasing(c), NEW last \in Nat
  PROVE  \E n \in 1 .. Len(c) + 1 : /\ \A i \in DOMAIN c : i >= n <=> c[i] >= last
                                  /\ From(c, last) = SubSeq(c, n, Len(c))
  <1> DEFINE T == {x \in 1 .. Len(c) + 1 : \A i \in DOMAIN c : i >= x => c[i] >= last}
  <1>1. DOMAIN c = 1 .. Len(c) /\ Len(c) \in Nat /\ \A i \in DOMAIN c : c[i] \in Nat
    BY LenProperties, ElementOfSeq
  <1>2. Len(c) + 1 \in T /\ T \in SUBSET Nat
    BY <1>1
  <1>3. PICK n \in T : \A m \in T : n <= m
    BY <1>2, LeastNumber
  <1>4. ASSUME NEW i \in DOMAIN c, c[i] >= last PROVE i >= n
    <2>1. \A j \in DOMAIN c : j >= i => c[j] >= last
      BY <1>1, <1>4 DEF Increasing
    <2>2. i \in T
      BY <1>1, <2>1
    <2> QED
      BY <1>3, <2>2
  <1>5. n \in 1 .. Len(c) + 1 /\ \A i \in DOMAIN c : i >= n <=> c[i] >= last
    BY <1>3, <1>4
  <1> DEFINE C == CHOOSE x \in 1 .. Len(c) + 1 : \A i \in DOMAIN c : i >= x <=> c[i] >= last
  <1>6. C \in 1 .. Len(c) + 1 /\ \A i \in DOMAIN c : i >= C <=> c[i] >= last
    BY <1>5
  <1>7. From(c, last) = SubSeq(c, C, Len(c))
    BY DEF From
  <1> HIDE DEF C
  <1> QED
    BY <1>6, <1>7

\* A removal leaves the others, in their order.
LEMMA RemovedKeeps ==
  ASSUME NEW c \in Seq(Nat), NEW v
  PROVE  /\ Removed(c, v) \in Seq(Nat)
         /\ Range(Removed(c, v)) \subseteq Range(c)
         /\ Increasing(c) => Increasing(Removed(c, v))
  <1>1. CASE v \notin Range(c)
    BY <1>1 DEF Removed
  <1>2. CASE v \in Range(c)
    <2> DEFINE i == FirstAt(c, v)
               below == SubSeq(c, 1, i - 1)
               above == SubSeq(c, i + 1, Len(c))
               t == below \o above
    <2>1. /\ Len(c) \in Nat /\ DOMAIN c = 1 .. Len(c) /\ i \in 1 .. Len(c)
          /\ i \in Int /\ i <= Len(c) /\ \A j \in 1 .. Len(c) : c[j] \in Nat
      BY <1>2, LenProperties, FirstAtExists, ElementOfSeq
    <2>2. Removed(c, v) = t
      BY <1>2 DEF Removed, RemoveAt
    <2> HIDE DEF i
    <2>3. /\ below \in Seq(Nat) /\ Len(below) = i - 1
          /\ \A j \in 1 .. i - 1 : below[j] = c[j]
      BY <2>1
    <2>4. /\ above \in Seq(Nat) /\ Len(above) = Len(c) - i
          /\ \A j \in 1 .. Len(c) - i : above[j] = c[j + i]
      <3>1. i + 1 \in Int /\ Len(c) \in Int /\ \A j \in i + 1 .. Len(c) : c[j] \in Nat
        BY <2>1
      <3>2. /\ above \in Seq(Nat)
            /\ Len(above) = IF i + 1 <= Len(c) THEN Len(c) - (i + 1) + 1 ELSE 0
            /\ \A j \in 1 .. Len(c) - (i + 1) + 1 : above[j] = c[(i + 1) + j - 1]
        BY <3>1, SubSeqProperties
      <3> HIDE DEF above
      <3>3. Len(above) = Len(c) - i
        <4>1. i \in Int /\ Len(c) \in Int /\ i <= Len(c)
          BY <2>1
        <4>2. (IF i + 1 <= Len(c) THEN Len(c) - (i + 1) + 1 ELSE 0) = Len(c) - i
          BY <4>1
        <4> QED
          BY <3>2, <4>2
      <3>4. ASSUME NEW j \in 1 .. Len(c) - i PROVE above[j] = c[j + i]
        <4>1. j \in 1 .. Len(c) - (i + 1) + 1 /\ (i + 1) + j - 1 = j + i
          BY <2>1
        <4> QED
          BY <3>2, <4>1
      <3> QED
        BY <3>2, <3>3, <3>4
    <2> HIDE DEF below, above
    <2>5. /\ t \in Seq(Nat) /\ Len(t) = Len(below) + Len(above)
          /\ \A j \in 1 .. Len(below) + Len(above) :
               t[j] = IF j <= Len(below) THEN below[j] ELSE above[j - Len(below)]
      BY <2>3, <2>4, ConcatProperties
    <2> HIDE DEF t
    <2>6. Len(t) = Len(c) - 1 /\ DOMAIN t = 1 .. Len(c) - 1
      <3>1. Len(t) = Len(c) - 1
        BY <2>1, <2>3, <2>4, <2>5
      <3> QED
        BY <2>5, <3>1, LenProperties
    <2>7. \A j \in 1 .. Len(c) - 1 : t[j] = c[IF j < i THEN j ELSE j + 1]
      <3> SUFFICES ASSUME NEW j \in 1 .. Len(c) - 1
                   PROVE  t[j] = c[IF j < i THEN j ELSE j + 1]
        OBVIOUS
      <3>0. Len(c) \in Nat /\ i \in 1 .. Len(c) /\ j \in 1 .. Len(below) + Len(above)
        BY <2>1, <2>3, <2>4
      <3>1. CASE j < i
        <4>1. j \in 1 .. i - 1 /\ j <= Len(below)
          BY <2>3, <3>0, <3>1
        <4>2. t[j] = below[j]
          BY <2>5, <3>0, <4>1
        <4> QED
          BY <2>3, <3>1, <4>1, <4>2
      <3>2. CASE j >= i
        <4>1. j - (i - 1) \in 1 .. Len(c) - i /\ j - (i - 1) + i = j + 1
          BY <3>0, <3>2
        <4>2. ~(j <= Len(below)) /\ ~(j < i)
          BY <2>3, <3>0, <3>2
        <4>3. t[j] = above[j - Len(below)]
          BY <2>5, <3>0, <4>2
        <4>4. above[j - (i - 1)] = c[j - (i - 1) + i]
          BY <2>4, <4>1
        <4> QED
          BY <2>3, <4>1, <4>2, <4>3, <4>4
      <3> QED
        BY <2>1, <3>1, <3>2
    <2>8. Range(t) \subseteq Range(c)
      <3> SUFFICES ASSUME NEW j \in 1 .. Len(c) - 1 PROVE t[j] \in Range(c)
        BY <2>6 DEF Range
      <3>1. (IF j < i THEN j ELSE j + 1) \in 1 .. Len(c)
        BY <2>1
      <3> QED
        BY <2>1, <2>7, <3>1 DEF Range
    <2>9. ASSUME Increasing(c) PROVE Increasing(t)
      <3> SUFFICES ASSUME NEW j \in 1 .. Len(c) - 1, NEW l \in 1 .. Len(c) - 1, j < l
                   PROVE  t[j] < t[l]
        BY <2>6 DEF Increasing
      <3> DEFINE a == IF j < i THEN j ELSE j + 1
                 b == IF l < i THEN l ELSE l + 1
      <3>1. a \in 1 .. Len(c) /\ b \in 1 .. Len(c) /\ a < b
        BY <2>1
      <3>2. t[j] = c[a] /\ t[l] = c[b]
        BY <2>7
      <3> QED
        BY <2>1, <2>9, <3>1, <3>2 DEF Increasing
    <2> QED
      BY <2>2, <2>5, <2>8, <2>9
  <1> QED
    BY <1>1, <1>2

\* An XRANGE page holds ids of the stream: those that follow last, and of
\* those none is missing up to the last one of the page.
LEMMA StreamRowsCover ==
  ASSUME NEW c \in Seq(Nat), Increasing(c), NEW last \in Nat,
         NEW r, r = StreamRows(c, last)
  PROVE  /\ r \in Seq(Row)
         /\ RowIds(r) \subseteq Range(c)
         /\ r # << >> => Last(r).at \in RowIds(r)
         /\ \A id \in Range(c) : r # << >> /\ last < id /\ id <= Last(r).at => id \in RowIds(r)
  <1>1. PICK n \in 1 .. Len(c) + 1 : /\ \A i \in DOMAIN c : i >= n <=> c[i] >= last
                                    /\ From(c, last) = SubSeq(c, n, Len(c))
    BY FromExists
  <1>2. /\ Len(c) \in Nat /\ DOMAIN c = 1 .. Len(c) /\ \A j \in 1 .. Len(c) : c[j] \in Nat
        /\ n \in 1 .. Len(c) + 1 /\ PageLen \in Nat \ {0, 1}
    BY LenProperties, ElementOfSeq, ValuePageAssumption
  <1> DEFINE after == SubSeq(c, n, Len(c))
             m == Min2(PageLen, Len(after))
             msgs == SubSeq(after, 1, m)
             drops == last # 0 /\ msgs # << >> /\ msgs[1] = last
             ids == IF drops THEN Tail(msgs) ELSE msgs
             off == IF drops THEN n + 1 ELSE n
             size == IF drops THEN m - 1 ELSE m
  <1>3. r = [i \in DOMAIN ids |-> [at |-> ids[i], val |-> ids[i]]]
    BY <1>1 DEF StreamRows
  <1>4. /\ after \in Seq(Nat) /\ Len(after) = Len(c) - n + 1
        /\ \A j \in 1 .. Len(c) - n + 1 : after[j] = c[n + j - 1]
    <2>1. /\ after \in Seq(Nat)
          /\ Len(after) = IF n <= Len(c) THEN Len(c) - n + 1 ELSE 0
          /\ \A j \in 1 .. Len(c) - n + 1 : after[j] = c[n + j - 1]
      <3>1. n \in Int /\ Len(c) \in Int /\ \A j \in n .. Len(c) : c[j] \in Nat
        BY <1>2
      <3> QED
        BY <3>1, SubSeqProperties
    <2> HIDE DEF after
    <2>2. Len(after) = Len(c) - n + 1
      <3>1. Len(c) \in Nat /\ n \in 1 .. Len(c) + 1
        BY <1>2
      <3>2. (IF n <= Len(c) THEN Len(c) - n + 1 ELSE 0) = Len(c) - n + 1
        BY <3>1
      <3> QED
        BY <2>1, <3>2
    <2> QED
      BY <2>1, <2>2
  <1> HIDE DEF after
  <1>5. m \in Nat /\ m <= Len(after) /\ m <= Len(c) - n + 1 /\ Len(after) \in Nat
    <2>1. Len(after) \in Nat
      BY <1>4, LenProperties
    <2> QED
      BY <1>2, <1>4, <2>1 DEF Min2
  <1> HIDE DEF m
  <1>6. /\ msgs \in Seq(Nat) /\ Len(msgs) = m
        /\ \A j \in 1 .. m : msgs[j] = c[n + j - 1]
    <2>1. /\ msgs \in Seq(Nat)
          /\ Len(msgs) = IF 1 <= m THEN m - 1 + 1 ELSE 0
          /\ \A j \in 1 .. m - 1 + 1 : msgs[j] = after[1 + j - 1]
      <3>1. 1 \in Int /\ m \in Int /\ \A j \in 1 .. m : after[j] \in Nat
        BY <1>4, <1>5, ElementOfSeq
      <3> QED
        BY <3>1, SubSeqProperties
    <2> HIDE DEF msgs
    <2>2. (IF 1 <= m THEN m - 1 + 1 ELSE 0) = m
      BY <1>5
    <2>3. ASSUME NEW j \in 1 .. m PROVE msgs[j] = c[n + j - 1]
      <3>1. j \in 1 .. m - 1 + 1 /\ 1 + j - 1 = j
        BY <1>5
      <3>2. j \in 1 .. Len(c) - n + 1
        BY <1>2, <1>5
      <3> QED
        BY <1>4, <2>1, <3>1, <3>2
    <2> QED
      BY <2>1, <2>2, <2>3
  <1> HIDE DEF msgs
  <1>7. drops => msgs # << >> /\ m >= 1 /\ c[n] = last
    <2> SUFFICES ASSUME drops PROVE msgs # << >> /\ m >= 1 /\ c[n] = last
      OBVIOUS
    <2>1. msgs # << >> /\ msgs[1] = last
      OBVIOUS
    <2>2. m # 0
      BY <1>6, <2>1, EmptySeq
    <2>3. 1 \in 1 .. m /\ n + 1 - 1 = n
      BY <1>2, <1>5, <2>2
    <2> QED
      BY <1>5, <1>6, <2>1, <2>2, <2>3
  <1> HIDE DEF drops
  <1>8. /\ size \in Nat /\ off \in Nat /\ off + size = n + m
        /\ ids \in Seq(Nat) /\ Len(ids) = size
        /\ \A j \in 1 .. size : ids[j] = c[off + j - 1]
    <2>1. CASE drops
      <3>1. /\ Tail(msgs) \in Seq(Nat) /\ Len(Tail(msgs)) = Len(msgs) - 1
            /\ \A j \in 1 .. Len(Tail(msgs)) : Tail(msgs)[j] = msgs[j + 1]
        BY <1>6, <1>7, <2>1, HeadTailProperties
      <3>2. ASSUME NEW j \in 1 .. m - 1 PROVE Tail(msgs)[j] = c[(n + 1) + j - 1]
        <4>1. j + 1 \in 1 .. m /\ n + (j + 1) - 1 = (n + 1) + j - 1
          BY <1>2, <1>5
        <4> QED
          BY <1>6, <3>1, <4>1
      <3>3. m - 1 \in Nat /\ n + 1 \in Nat /\ n + 1 + (m - 1) = n + m
        BY <1>2, <1>5, <1>7, <2>1
      <3> QED
        BY <1>6, <2>1, <3>1, <3>2, <3>3
    <2>2. CASE ~drops
      BY <1>2, <1>5, <1>6, <2>2
    <2> QED
      BY <2>1, <2>2
  <1>9. drops => off = n + 1 /\ c[n] = last
    BY <1>7
  <1>10. ~drops => off = n
    OBVIOUS
  <1> HIDE DEF ids, off, size
  <1>11. DOMAIN ids = 1 .. size
    BY <1>8, LenProperties
  <1>12. ASSUME NEW j \in 1 .. size PROVE off + j - 1 \in 1 .. Len(c)
    BY <1>2, <1>5, <1>8, <1>9, <1>10
  <1>13. r \in Seq(Row) /\ Len(r) = size /\ DOMAIN r = 1 .. size
    <2>1. \A j \in 1 .. size : [at |-> ids[j], val |-> ids[j]] \in Row
      BY <1>8, <1>11, ElementOfSeq DEF Row
    <2>2. r \in [1 .. size -> Row]
      BY <1>3, <1>11, <2>1
    <2> QED
      BY <1>8, <2>2, SeqDef, LenProperties
  <1>14. \A j \in 1 .. size : r[j].at = c[off + j - 1]
    BY <1>3, <1>8, <1>11
  <1>15. RowIds(r) \subseteq Range(c)
    <2> SUFFICES ASSUME NEW j \in 1 .. size PROVE r[j].at \in Range(c)
      BY <1>13 DEF RowIds
    <2> QED
      BY <1>2, <1>12, <1>14 DEF Range
  <1>16. ASSUME r # << >>
         PROVE  size >= 1 /\ Last(r).at = c[off + size - 1] /\ Last(r).at \in RowIds(r)
    <2>1. size # 0
      BY <1>13, <1>16, EmptySeq
    <2>2. size \in 1 .. size /\ size >= 1
      BY <1>8, <2>1
    <2>3. Last(r) = r[size]
      BY <1>13 DEF Last
    <2> QED
      BY <1>13, <1>14, <2>2, <2>3 DEF RowIds
  <1>17. ASSUME NEW id \in Range(c), r # << >>, last < id, id <= Last(r).at
         PROVE  id \in RowIds(r)
    <2>1. PICK x \in 1 .. Len(c) : id = c[x]
      BY <1>2 DEF Range
    <2>2. x >= n
      BY <1>1, <1>2, <1>17, <2>1, SMTT(40)
    <2>3. x >= off
      <3>1. drops => x # n
        BY <1>2, <1>9, <1>17, <2>1
      <3> QED
        BY <1>2, <1>9, <1>10, <2>2, <3>1
    <2>4. x <= off + size - 1
      <3>1. size \in 1 .. size
        BY <1>8, <1>16, <1>17
      <3>2. off + size - 1 \in 1 .. Len(c)
        BY <1>12, <3>1
      <3>3. c[x] <= c[off + size - 1] /\ c[x] \in Nat /\ c[off + size - 1] \in Nat
        BY <1>2, <1>16, <1>17, <2>1, <3>2
      <3>4. off + size - 1 < x => c[off + size - 1] < c[x]
        BY <1>2, <3>2 DEF Increasing
      <3> QED
        BY <3>2, <3>3, <3>4
    <2>5. x - off + 1 \in 1 .. size /\ off + (x - off + 1) - 1 = x
      BY <1>8, <2>3, <2>4
    <2>6. r[x - off + 1].at = c[x]
      BY <1>14, <2>5
    <2> QED
      BY <1>13, <2>1, <2>5, <2>6 DEF RowIds
  <1> QED
    BY <1>13, <1>15, <1>16, <1>17

\* A page of a list is a sequence of rows.
LEMMA ListRowsAreRows ==
  ASSUME NEW c \in Seq(Nat), NEW start \in Nat
  PROVE  ListRows(c, start) \in Seq(Row)
  <1> DEFINE n == Max2(0, Min2(PageLen, Len(c) - start))
             items == [i \in 1 .. n |-> [at |-> start + i - 1, val |-> c[start + i]]]
  <1>1. Len(c) \in Nat /\ PageLen \in Nat
    BY LenProperties, ValuePageAssumption
  <1>2. n \in Nat /\ (n = 0 \/ start + n <= Len(c))
    BY <1>1 DEF Max2, Min2
  <1>3. ListRows(c, start) = IF start > 0 THEN <<[at |-> Anchor, val |-> NoValue]>> \o items ELSE items
    BY DEF ListRows
  <1> HIDE DEF n
  <1>4. \A i \in 1 .. n : [at |-> start + i - 1, val |-> c[start + i]] \in Row
    <2> SUFFICES ASSUME NEW i \in 1 .. n
                 PROVE  [at |-> start + i - 1, val |-> c[start + i]] \in Row
      OBVIOUS
    <2>1. start + i \in 1 .. Len(c) /\ start + i - 1 \in Int
      BY <1>1, <1>2
    <2>2. c[start + i] \in Nat
      BY <2>1, ElementOfSeq
    <2> QED
      BY <2>1, <2>2 DEF Row
  <1>5. items \in Seq(Row)
    <2>1. items \in [1 .. n -> Row]
      BY <1>4
    <2> QED
      BY <1>2, <2>1, SeqDef, ZenonT(60)
  <1> HIDE DEF items
  <1>6. <<[at |-> Anchor, val |-> NoValue]>> \in Seq(Row)
    BY DEF Row, Anchor, NoValue
  <1> QED
    BY <1>3, <1>5, <1>6, ConcatProperties

----------------------------------------------------------------------------
(* Pages and fetches.                                                      *)

LEMMA NewPageFacts ==
  ASSUME NEW k \in {"list", "stream", "none"}
  PROVE  /\ NewPage(k) \in Pages
         /\ NewPage(k).kind = k /\ NewPage(k).start = 0 /\ NewPage(k).last = 0
         /\ NewPage(k).rows = << >>
  <1>1. << >> \in Seq(Row)
    BY EmptySeq
  <1> QED
    BY <1>1 DEF NewPage, Pages

\* A fetch starts where the page it is for does, and has read nothing.
LEMMA FetchOfFacts ==
  ASSUME NEW p \in Pages
  PROVE  /\ FetchOf(p) \in Fetches
         /\ FetchOf(p).start = p.start /\ FetchOf(p).last = p.last
         /\ FetchOf(p).live /\ FetchOf(p).st # "done"
         /\ RowIds(FetchOf(p).rows) = {}
  <1> DEFINE st == IF kind = "list" THEN "len" ELSE "range"
  <1>1. st \in {"len", "range"} /\ << >> \in Seq(Row)
    BY EmptySeq
  <1>2. FetchOf(p) = [start |-> p.start, last |-> p.last, live |-> TRUE, total |-> 0,
                      rows |-> << >>, st |-> st]
    BY DEF FetchOf
  <1> HIDE DEF st
  <1>3. p.start \in Nat /\ p.last \in Nat
    BY DEF Pages
  <1>4. [start |-> p.start, last |-> p.last, live |-> TRUE, total |-> 0,
         rows |-> << >>, st |-> st] \in Fetches
    BY <1>1, <1>3 DEF Fetches
  <1>5. FetchOf(p).rows = << >>
    BY <1>2
  <1>6. RowIds(FetchOf(p).rows) = {}
    BY <1>5 DEF RowIds
  <1> QED
    BY <1>1, <1>2, <1>4, <1>6

\* Staleness changes nothing else.
LEMMA StaleFacts ==
  ASSUME NEW fs \in SUBSET Fetches
  PROVE  /\ Stale(fs) \in SUBSET Fetches
         /\ \A f \in Stale(fs) : ~f.live
         /\ \A f \in Stale(fs) : \E g \in fs : f.rows = g.rows
  <1> SUFFICES ASSUME NEW g \in fs
               PROVE  LET f == [g EXCEPT !.live = FALSE]
                      IN  f \in Fetches /\ ~f.live /\ f.rows = g.rows
    BY DEF Stale
  <1> QED
    BY DEF Fetches

\* The answer of a read.
LEMMA ReadFacts ==
  ASSUME Shapes, StreamIds, NEW f \in fetch
  PROVE  /\ LET g == [f EXCEPT !.total = Len(content), !.st = "range"]
            IN  /\ g \in Fetches /\ g.st # "done"
                /\ g.start = f.start /\ g.last = f.last /\ g.live = f.live /\ g.rows = f.rows
         /\ \A rows \in Seq(Row) :
              LET g == [f EXCEPT !.st = "done", !.rows = rows]
              IN  /\ g \in Fetches
                  /\ g.start = f.start /\ g.last = f.last /\ g.live = f.live /\ g.rows = rows
         /\ (IF kind = "list" THEN ListRows(content, f.start) ELSE StreamRows(content, f.last))
              \in Seq(Row)
  <1>1. f \in Fetches /\ Len(content) \in Nat
    BY LenProperties DEF Shapes
  <1>2. f.start \in Nat /\ f.last \in Nat
    BY <1>1 DEF Fetches
  <1>3. kind # "list" => StreamRows(content, f.last) \in Seq(Row)
    BY <1>2, StreamRowsCover, ValuePageAssumption DEF Shapes, StreamIds
  <1>4. kind = "list" => ListRows(content, f.start) \in Seq(Row)
    BY <1>2, ListRowsAreRows DEF Shapes
  <1>5. LET g == [f EXCEPT !.total = Len(content), !.st = "range"]
        IN  /\ g \in Fetches /\ g.st # "done"
            /\ g.start = f.start /\ g.last = f.last /\ g.live = f.live /\ g.rows = f.rows
    BY <1>1 DEF Fetches
  <1>6. ASSUME NEW rows \in Seq(Row)
        PROVE  LET g == [f EXCEPT !.st = "done", !.rows = rows]
               IN  /\ g \in Fetches
                   /\ g.start = f.start /\ g.last = f.last /\ g.live = f.live /\ g.rows = rows
    BY <1>1 DEF Fetches
  <1> QED
    BY <1>3, <1>4, <1>5, <1>6

\* What the landing closure makes of the page.
LEMMA LandFacts ==
  ASSUME Shapes, StreamIds, NEW f \in fetch, Land(f), f.live
  PROVE  /\ page' \in Pages
         /\ page'.kind = page.kind /\ page'.start = page.start /\ page'.rows = f.rows
         /\ kind = "stream" =>
              page'.last = (IF f.rows # << >> THEN Last(f.rows).at ELSE f.last)
         /\ f.rows # << >> => Last(f.rows).at \in RowIds(f.rows)
  <1> DEFINE n == IF f.start > 0 THEN Len(f.rows) - 1 ELSE Len(f.rows)
             more == IF kind = "list" THEN f.start + n < f.total ELSE f.rows # << >>
             total == IF kind = "list" THEN f.total ELSE page.total
             last == IF kind = "stream" /\ f.rows # << >> THEN Last(f.rows).at
                     ELSE IF kind = "stream" THEN f.last ELSE page.last
  <1>1. /\ page \in Pages /\ f \in Fetches /\ page.total \in Nat /\ page.last \in Nat
        /\ f.total \in Nat /\ f.last \in Nat /\ f.rows \in Seq(Row)
    BY DEF Shapes, Pages, Fetches
  <1>2. f.rows # << >> => Last(f.rows).at \in RowIds(f.rows)
    <2> SUFFICES ASSUME f.rows # << >> PROVE Last(f.rows).at \in RowIds(f.rows)
      OBVIOUS
    <2>1. Len(f.rows) \in DOMAIN f.rows
      BY <1>1, LenProperties, EmptySeq
    <2>2. Last(f.rows) = f.rows[Len(f.rows)]
      BY DEF Last
    <2> QED
      BY <2>1, <2>2 DEF RowIds
  <1>3. last \in Nat
    <2>1. CASE kind = "stream" /\ f.rows # << >>
      <3>1. RowIds(f.rows) \subseteq 1 .. nextId - 1 /\ nextId \in Nat
        BY <2>1 DEF Shapes, StreamIds
      <3>2. Last(f.rows).at \in Nat
        BY <1>2, <2>1, <3>1
      <3> QED
        BY <2>1, <3>2
    <2> QED
      BY <1>1, <2>1
  <1>4. more \in BOOLEAN /\ total \in Nat
    <2>1. total \in Nat
      BY <1>1
    <2>2. (f.start + n < f.total) \in BOOLEAN
      OBVIOUS
    <2>3. CASE kind = "list"
      BY <2>1, <2>2, <2>3
    <2>4. CASE kind # "list"
      BY <2>1, <2>4
    <2> QED
      BY <2>3, <2>4
  <1>5. page' = [page EXCEPT !.rows = f.rows, !.more = more, !.total = total, !.last = last]
    BY DEF Land
  <1>6. kind = "stream" => last = (IF f.rows # << >> THEN Last(f.rows).at ELSE f.last)
    OBVIOUS
  <1> HIDE DEF more, total, last
  <1>7. /\ page' \in Pages
        /\ page'.kind = page.kind /\ page'.start = page.start /\ page'.rows = f.rows
        /\ page'.last = last
    BY <1>1, <1>3, <1>4, <1>5 DEF Pages
  <1> QED
    BY <1>2, <1>6, <1>7

----------------------------------------------------------------------------
(* Writes.                                                                 *)

\* A new entry goes to the end, with an id above all others.
LEMMA AppendKeeps ==
  ASSUME NEW c \in Seq(Nat), NEW n \in Nat \ {0}
  PROVE  /\ Append(c, n) \in Seq(Nat)
         /\ Range(Append(c, n)) = Range(c) \cup {n}
         /\ Increasing(c) /\ Range(c) \subseteq 1 .. n - 1 => Increasing(Append(c, n))
  <1> DEFINE t == Append(c, n)
  <1>1. /\ t \in Seq(Nat) /\ Len(t) = Len(c) + 1
        /\ \A i \in 1 .. Len(c) : t[i] = c[i]
        /\ t[Len(c) + 1] = n
    BY AppendProperties
  <1> HIDE DEF t
  <1>2. Len(c) \in Nat /\ DOMAIN c = 1 .. Len(c) /\ DOMAIN t = 1 .. Len(c) + 1
    BY <1>1, LenProperties
  <1>3. Range(t) = Range(c) \cup {n}
    <2>1. \A i \in 1 .. Len(c) + 1 : i \in 1 .. Len(c) \/ i = Len(c) + 1
      BY <1>2
    <2>2. 1 .. Len(c) \subseteq 1 .. Len(c) + 1 /\ Len(c) + 1 \in 1 .. Len(c) + 1
      BY <1>2
    <2>3. Range(t) \subseteq Range(c) \cup {n}
      BY <1>1, <1>2, <2>1 DEF Range
    <2>4. Range(c) \cup {n} \subseteq Range(t)
      BY <1>1, <1>2, <2>2 DEF Range
    <2> QED
      BY <2>3, <2>4
  <1>4. ASSUME Increasing(c), Range(c) \subseteq 1 .. n - 1 PROVE Increasing(t)
    <2> SUFFICES ASSUME NEW i \in 1 .. Len(c) + 1, NEW j \in 1 .. Len(c) + 1, i < j
                 PROVE  t[i] < t[j]
      BY <1>2 DEF Increasing
    <2>1. i \in 1 .. Len(c)
      BY <1>2
    <2>2. c[i] \in 1 .. n - 1
      BY <1>2, <1>4, <2>1 DEF Range
    <2>3. CASE j = Len(c) + 1
      BY <1>1, <2>1, <2>2, <2>3
    <2>4. CASE j # Len(c) + 1
      <3>1. j \in 1 .. Len(c)
        BY <1>2, <2>4
      <3> QED
        BY <1>1, <1>2, <1>4, <2>1, <3>1 DEF Increasing
    <2> QED
      BY <2>3, <2>4
  <1> QED
    BY <1>1, <1>3, <1>4 DEF t

\* A command leaves a list of numbers, and of a stream the order.
LEMMA WrittenKeeps ==
  ASSUME Shapes, NEW o \in ops, o.kind = "LSET" => o.at < Len(content)
  PROVE  /\ Written(content, o) \in Seq(Nat)
         /\ kind = "stream" /\ StreamIds =>
              /\ Increasing(Written(content, o))
              /\ Range(Written(content, o)) \subseteq
                   Range(content) \cup (IF o.kind = "XADD" THEN {nextId} ELSE {})
  <1>1. /\ content \in Seq(Nat) /\ nextId \in Nat \ {0} /\ kind \in {"list", "stream"}
        /\ o.kind \in (IF kind = "list" THEN {"LSET", "LREM", "RPUSH"} ELSE {"XDEL", "XADD"})
        /\ o.kind \in {"LSET", "RPUSH"} => o.val \in Nat
        /\ o.kind = "LSET" => o.at \in Nat
    BY ValuePageAssumption DEF Shapes
  <1>2. CASE o.kind = "LSET"
    <2>1. Written(content, o) = [content EXCEPT ![o.at + 1] = o.val]
      BY <1>2 DEF Written
    <2>2. o.at + 1 \in 1 .. Len(content) /\ o.val \in Nat
      BY <1>1, <1>2, LenProperties
    <2>3. Written(content, o) \in Seq(Nat)
      BY <1>1, <2>1, <2>2, ExceptSeq
    <2> QED
      BY <1>1, <1>2, <2>3
  <1>3. CASE o.kind = "LREM"
    <2>1. Written(content, o) = Removed(content, o.val)
      BY <1>3 DEF Written
    <2> QED
      BY <1>1, <1>3, <2>1, RemovedKeeps
  <1>4. CASE o.kind = "XDEL"
    <2>1. Written(content, o) = Removed(content, o.at)
      BY <1>4 DEF Written
    <2> QED
      BY <1>1, <1>4, <2>1, RemovedKeeps DEF StreamIds
  <1>5. CASE o.kind = "RPUSH"
    <2>1. Written(content, o) = Append(content, o.val)
      BY <1>5 DEF Written
    <2> QED
      BY <1>1, <1>5, <2>1, AppendProperties
  <1>6. CASE o.kind = "XADD"
    <2>1. Written(content, o) = Append(content, nextId)
      BY <1>6 DEF Written
    <2> QED
      BY <1>1, <1>6, <2>1, AppendKeeps DEF StreamIds
  <1> QED
    BY <1>1, <1>2, <1>3, <1>4, <1>5, <1>6

LEMMA OtherClientKeeps ==
  ASSUME Shapes, StreamIds, OtherClient
  PROVE  /\ content' \in Seq(Nat) /\ Increasing(content')
         /\ nextId' \in {nextId, nextId + 1}
         /\ Range(content') \subseteq Range(content) \cup (IF nextId' = nextId THEN {} ELSE {nextId})
  <1>1. /\ content \in Seq(Nat) /\ nextId \in Nat \ {0} /\ kind = "stream"
        /\ Increasing(content) /\ Range(content) \subseteq 1 .. nextId - 1
    BY DEF Shapes, StreamIds, OtherClient
  <1>2. CASE content' = Append(content, nextId) /\ nextId' = nextId + 1
    <2>1. nextId + 1 # nextId
      BY <1>1
    <2> QED
      BY <1>1, <1>2, <2>1, AppendKeeps
  <1>3. CASE (\E d \in Range(content) : content' = Removed(content, d)) /\ nextId' = nextId
    BY <1>1, <1>3, RemovedKeeps
  <1> QED
    BY <1>2, <1>3 DEF OtherClient

----------------------------------------------------------------------------
(* The shapes of the state.                                                *)

LEMMA InitHolds ==
  ASSUME Init
  PROVE  IInv /\ ListInv
  <1> DEFINE p == NewPage(kind)
  <1>1. /\ kind \in Kinds /\ kind \in {"list", "stream", "none"} /\ content = Initial[kind]
        /\ nextId = Len(Initial[kind]) + 1 /\ page = p /\ fetch = {FetchOf(p)}
        /\ ops = {} /\ reload = FALSE /\ seen = {} /\ old = Range(content)
    BY ValuePageAssumption DEF Init, Size
  <1>2. /\ p \in Pages /\ p.kind = kind /\ p.start = 0 /\ p.last = 0
    BY <1>1, NewPageFacts
  <1> HIDE DEF p
  <1>3. /\ FetchOf(p) \in Fetches /\ FetchOf(p).start = 0 /\ FetchOf(p).last = 0
        /\ FetchOf(p).live /\ FetchOf(p).st # "done" /\ RowIds(FetchOf(p).rows) = {}
    BY <1>2, FetchOfFacts
  <1>4. content \in Seq(Nat \ {0}) /\ content \in Seq(Nat)
    <2>1. content \in Seq(Nat \ {0})
      BY <1>1, ValuePageAssumption
    <2> QED
      BY <2>1
  <1>5. Len(content) \in Nat /\ DOMAIN content = 1 .. Len(content) /\ nextId = Len(content) + 1
    BY <1>1, <1>4, LenProperties
  <1>6. Shapes
    <2>1. nextId \in Nat \ {0}
      BY <1>5
    <2> QED
      BY <1>1, <1>2, <1>3, <1>4, <2>1 DEF Shapes
  <1>7. StreamIds
    <2> SUFFICES ASSUME kind = "stream"
                 PROVE  Increasing(content) /\ Range(content) \subseteq 1 .. nextId - 1
      BY <1>1, <1>3 DEF StreamIds
    <2>1. \A i \in 1 .. Len(content) : content[i] = i
      BY <1>1, <1>5, ValuePageAssumption
    <2> QED
      BY <1>5, <2>1 DEF Increasing, Range
  <1>8. StreamInv
    <2> SUFFICES ASSUME kind = "stream"
                 PROVE  \A id \in Kept : ~(id <= 0)
      BY <1>1, <1>2, <1>3 DEF StreamInv, Covered
    <2>1. Kept \subseteq 1 .. nextId - 1 /\ nextId \in Nat
      BY <1>5, <1>7 DEF StreamIds, Kept
    <2> QED
      BY <2>1
  <1>9. ListInv
    BY <1>1, <1>2, <1>3 DEF ListInv
  <1> QED
    BY <1>6, <1>7, <1>8, <1>9 DEF IInv

\* A write that is sent off changes no more than ops.
LEMMA SendKeeps ==
  ASSUME Shapes, NEW o \in Ops, Send(o),
         o.kind \in (IF kind = "list" THEN {"LSET", "LREM", "RPUSH"} ELSE {"XDEL", "XADD"}),
         o.kind \in {"LSET", "RPUSH"} => o.val \in Nat,
         o.kind = "LSET" => o.at \in Nat,
         o.st = "sent"
  PROVE  /\ Shapes' /\ UNCHANGED <<kind, content, nextId, page, fetch, reload, seen, old>>
         /\ Fresh' <=> Fresh
  <1>1. /\ UNCHANGED <<kind, content, nextId, page, fetch, reload, seen, old>>
        /\ ops' = ops \cup {o}
    BY DEF Send
  <1>2. Shapes'
    BY <1>1 DEF Shapes
  <1>3. Fresh' <=> Fresh
    BY <1>1 DEF Fresh
  <1> QED
    BY <1>1, <1>2, <1>3

\* The user's writes.
LEMMA UserWrites ==
  ASSUME Shapes,
         NewItem \/ \E i \in DOMAIN page.rows : EditItem(i) \/ DelItem(i)
  PROVE  /\ Shapes' /\ UNCHANGED <<kind, content, nextId, page, fetch, reload, seen, old>>
         /\ Fresh' <=> Fresh
  <1> DEFINE Done == /\ Shapes' /\ UNCHANGED <<kind, content, nextId, page, fetch, reload, seen, old>>
                     /\ Fresh' <=> Fresh
  <1>1. /\ page.rows \in Seq(Row) /\ kind \in {"list", "stream"} /\ page.kind \in {kind, "none"}
        /\ \A i \in DOMAIN page.rows : page.rows[i].at \in Int /\ page.rows[i].val \in Int
    <2>1. page.rows \in Seq(Row)
      BY DEF Shapes, Pages
    <2>2. \A i \in DOMAIN page.rows : page.rows[i] \in Row
      BY <2>1, LenProperties, ElementOfSeq
    <2> QED
      BY <2>1, <2>2, ValuePageAssumption DEF Shapes, Row
  <1>2. \A cmd \in {"LSET", "LREM", "XDEL", "RPUSH", "XADD"}, at \in Int, val \in Int, row \in Int :
          LET o == Op(cmd, at, val, row)
          IN  o \in Ops /\ o.kind = cmd /\ o.at = at /\ o.val = val /\ o.st = "sent"
    BY DEF Op, Ops
  <1>3. ASSUME NEW i \in DOMAIN page.rows, EditItem(i) PROVE Done
    <2> DEFINE at == Max2(0, page.rows[i].at)
    <2>1. at \in Nat /\ kind = "list"
      BY <1>1, <1>3 DEF Max2, EditItem
    <2>2. PICK v \in Values : Send(Op("LSET", at, v, page.rows[i].at))
      BY <1>3 DEF EditItem
    <2>3. v \in Nat
      BY ValuePageAssumption
    <2> HIDE DEF at, Done
    <2> DEFINE row == page.rows[i].at
               o == Op("LSET", at, v, row)
    <2>4. o \in Ops /\ o.kind = "LSET" /\ o.at = at /\ o.val = v /\ o.st = "sent"
      <3>1. at \in Int /\ v \in Int /\ row \in Int
        BY <1>1, <2>1, <2>3
      <3> HIDE DEF row
      <3> QED
        BY <1>2, <3>1
    <2> HIDE DEF o
    <2>5. Send(o)
      BY <2>2 DEF o
    <2> QED
      BY <2>1, <2>3, <2>4, <2>5, SendKeeps DEF Done
  <1>4. ASSUME NEW i \in DOMAIN page.rows, DelItem(i) PROVE Done
    <2> DEFINE cmd == IF kind = "list" THEN "LREM" ELSE "XDEL"
               o == Op(cmd, page.rows[i].at, page.rows[i].val, page.rows[i].at)
    <2>1. Send(o)
      BY <1>4 DEF DelItem
    <2> HIDE DEF Done
    <2>2. o \in Ops /\ o.kind = cmd /\ o.st = "sent"
      <3> DEFINE at == page.rows[i].at
                 val == page.rows[i].val
      <3>1. at \in Int /\ val \in Int /\ cmd \in {"LREM", "XDEL"}
        BY <1>1
      <3> HIDE DEF at, val, cmd
      <3>2. LET x == Op(cmd, at, val, at) IN x \in Ops /\ x.kind = cmd /\ x.st = "sent"
        BY <1>2, <3>1
      <3> QED
        BY <3>2 DEF at, val
    <2> HIDE DEF o
    <2>3. cmd \notin {"LSET", "RPUSH"}
          /\ cmd \in (IF kind = "list" THEN {"LSET", "LREM", "RPUSH"} ELSE {"XDEL", "XADD"})
      OBVIOUS
    <2> QED
      BY <2>1, <2>2, <2>3, SendKeeps DEF Done
  <1>5. ASSUME kind = "list", NEW v \in Values, Send(Op("RPUSH", 0, v, 0)) PROVE Done
    <2> DEFINE o == Op("RPUSH", 0, v, 0)
    <2>1. v \in Nat
      BY ValuePageAssumption
    <2> HIDE DEF Done
    <2>2. o \in Ops /\ o.kind = "RPUSH" /\ o.val = v /\ o.st = "sent"
      BY <1>2, <2>1
    <2>3. Send(o)
      BY <1>5
    <2> HIDE DEF o
    <2> QED
      BY <1>5, <2>1, <2>2, <2>3, SendKeeps DEF Done
  <1>6. ASSUME kind = "stream", Send(Op("XADD", 0, NoValue, 0)) PROVE Done
    <2> DEFINE o == Op("XADD", 0, NoValue, 0)
    <2>1. NoValue \in Int
      BY DEF NoValue
    <2> HIDE DEF Done
    <2>2. o \in Ops /\ o.kind = "XADD" /\ o.st = "sent"
      BY <1>2, <2>1
    <2>3. Send(o)
      BY <1>6
    <2> HIDE DEF o
    <2> QED
      BY <1>6, <2>2, <2>3, SendKeeps DEF Done
  <1> QED
    BY <1>3, <1>4, <1>5, <1>6 DEF NewItem

\* Paging moves the page and starts a fetch for it.
LEMMA PagingFacts ==
  ASSUME Shapes, NextPage \/ PrevPage
  PROVE  /\ page' \in Pages /\ page'.kind = page.kind
         /\ kind = "stream" => page' = page
         /\ fetch' = fetch \cup {FetchOf(page')}
         /\ kind \in Patient => fetch = {}
         /\ UNCHANGED <<kind, content, nextId, ops, reload, seen, old>>
  <1>1. page \in Pages /\ PageLen \in Nat /\ page.start \in Nat /\ kind \in {"list", "stream"}
    BY ValuePageAssumption DEF Shapes, Pages
  <1>2. /\ fetch' = fetch \cup {FetchOf(page')}
        /\ kind \in Patient => fetch = {}
        /\ UNCHANGED <<kind, content, nextId, ops, reload, seen, old>>
    BY DEF NextPage, PrevPage, Start, Ready
  <1>3. CASE kind = "list" /\ page' = [page EXCEPT !.start = @ + PageLen]
    <2>1. page.start + PageLen \in Nat
      BY <1>1
    <2>2. page' = [page EXCEPT !.start = page.start + PageLen]
      BY <1>3
    <2>3. page' \in Pages /\ page'.kind = page.kind
      BY <1>1, <2>1, <2>2 DEF Pages
    <2> QED
      BY <1>2, <1>3, <2>3
  <1>4. CASE kind = "stream" /\ page' = page
    BY <1>1, <1>2, <1>4
  <1>5. CASE kind = "list" /\ page' = [page EXCEPT !.start = Max2(0, @ - PageLen), !.last = 0]
    <2> DEFINE to == Max2(0, page.start - PageLen)
    <2>1. to \in Nat
      BY <1>1 DEF Max2
    <2>2. page' = [page EXCEPT !.start = to, !.last = 0]
      BY <1>5
    <2> HIDE DEF to
    <2>3. page' \in Pages /\ page'.kind = page.kind
      BY <1>1, <2>1, <2>2 DEF Pages
    <2> QED
      BY <1>2, <1>5, <2>3
  <1> QED
    BY <1>3, <1>4, <1>5 DEF NextPage, PrevPage

\* The page that the reloaded metadata opens.
LEMMA ReloadFacts ==
  ASSUME Shapes, Reload
  PROVE  /\ page' \in Pages /\ page'.kind \in {kind, "none"} /\ page'.last = 0
         /\ \A f \in fetch' : f \in Stale(fetch) \/ (page'.kind = kind /\ f = FetchOf(page'))
         /\ page'.kind = kind => FetchOf(page') \in fetch'
         /\ reload' = FALSE /\ seen' = {} /\ old' = Range(content)
         /\ UNCHANGED <<kind, content, nextId, ops>>
  <1> DEFINE k == IF kind = "list" /\ content = << >> THEN "none" ELSE kind
             p == NewPage(k)
  <1>1. k \in {kind, "none"} /\ k \in {"list", "stream", "none"}
    BY ValuePageAssumption DEF Shapes
  <1> HIDE DEF k
  <1>2. /\ page' = p /\ reload' = FALSE /\ seen' = {} /\ old' = Range(content)
        /\ fetch' = Stale(fetch) \cup (IF p.kind = kind THEN {FetchOf(p)} ELSE {})
        /\ UNCHANGED <<kind, content, nextId, ops>>
    BY DEF Reload, k
  <1>3. p \in Pages /\ p.kind = k /\ p.last = 0
    BY <1>1, NewPageFacts
  <1> QED
    BY <1>1, <1>2, <1>3

\* A refresh fetches the page again, whatever is under way.
LEMMA RefreshFacts ==
  ASSUME Shapes, NEW o \in ops, Refresh(o)
  PROVE  /\ fetch' = fetch \cup {FetchOf(page)} /\ reload' = TRUE /\ ops' \subseteq ops
         /\ UNCHANGED <<kind, content, nextId, page, seen, old>>
  BY DEF Refresh, Start

LEMMA ShapesStep ==
  ASSUME Shapes, StreamIds, [Next]_vars
  PROVE  Shapes' /\ StreamIds'
  <1>1. /\ page \in Pages /\ fetch \in SUBSET Fetches /\ content \in Seq(Nat)
        /\ nextId \in Nat \ {0} /\ page.kind \in {kind, "none"}
        /\ kind \in Kinds /\ kind \in {"list", "stream"}
    BY ValuePageAssumption DEF Shapes
  <1>2. ASSUME UNCHANGED <<kind, content, nextId, page, fetch, seen, old>>, Shapes'
        PROVE  Shapes' /\ StreamIds'
    BY <1>2 DEF StreamIds
  <1>3. ASSUME UNCHANGED <<kind, content, nextId, ops, old>>, page' \in Pages,
               page'.kind \in {kind, "none"}, reload' \in BOOLEAN,
               fetch' \subseteq Fetches,
               \A f \in fetch' : RowIds(f.rows) = {} \/ \E g \in fetch : f.rows = g.rows
        PROVE  Shapes' /\ StreamIds'
    <2>1. Shapes'
      BY <1>1, <1>3 DEF Shapes
    <2>2. StreamIds'
      BY <1>3 DEF StreamIds
    <2> QED
      BY <2>1, <2>2
  <1>4. CASE NextPage \/ PrevPage
    <2>1. FetchOf(page') \in Fetches /\ RowIds(FetchOf(page').rows) = {}
      BY <1>4, PagingFacts, FetchOfFacts
    <2>2. reload' \in BOOLEAN
      BY <1>4, PagingFacts DEF Shapes
    <2> QED
      BY <1>1, <1>3, <1>4, <2>1, <2>2, PagingFacts
  <1>5. CASE NewItem \/ \E i \in DOMAIN page.rows : EditItem(i) \/ DelItem(i)
    BY <1>2, <1>5, UserWrites
  <1>6. ASSUME NEW f \in fetch, ReadLen(f) PROVE Shapes' /\ StreamIds'
    <2> DEFINE g == [f EXCEPT !.total = Len(content), !.st = "range"]
    <2>1. g \in Fetches /\ g.rows = f.rows
      BY ReadFacts
    <2> HIDE DEF g
    <2>2. fetch' = (fetch \ {f}) \cup {g} /\ UNCHANGED <<kind, content, nextId, page, ops, reload, old>>
      BY <1>6 DEF ReadLen, g
    <2>3. reload' \in BOOLEAN
      BY <2>2 DEF Shapes
    <2> QED
      BY <1>1, <1>3, <2>1, <2>2, <2>3
  <1>7. ASSUME NEW f \in fetch, ReadRange(f) PROVE Shapes' /\ StreamIds'
    <2> DEFINE rows == IF kind = "list" THEN ListRows(content, f.start) ELSE StreamRows(content, f.last)
               g == [f EXCEPT !.st = "done", !.rows = rows]
    <2>1. rows \in Seq(Row)
      BY ReadFacts
    <2>2. kind = "stream" => RowIds(rows) \subseteq Range(content)
      <3>1. f.last \in Nat
        BY <1>1 DEF Fetches
      <3> QED
        BY <1>1, <3>1, StreamRowsCover DEF StreamIds
    <2>3. fetch' = (fetch \ {f}) \cup {g} /\ UNCHANGED <<kind, content, nextId, page, ops, reload, old>>
      BY <1>7 DEF ReadRange
    <2> HIDE DEF rows
    <2>4. g \in Fetches /\ g.rows = rows
      BY <2>1, ReadFacts
    <2> HIDE DEF g
    <2>5. Shapes'
      BY <1>1, <2>3, <2>4 DEF Shapes
    <2>6. StreamIds'
      BY <2>2, <2>3, <2>4 DEF StreamIds
    <2> QED
      BY <2>5, <2>6
  <1>8. ASSUME NEW f \in fetch, Land(f) PROVE Shapes' /\ StreamIds'
    <2>1. page' \in Pages /\ page'.kind \in {kind, "none"}
      BY <1>1, <1>8, LandFacts DEF Land
    <2>2. /\ fetch' \subseteq fetch /\ UNCHANGED <<kind, content, nextId, ops, reload, old>>
      BY <1>8 DEF Land
    <2>3. reload' \in BOOLEAN
      BY <2>2 DEF Shapes
    <2> QED
      BY <1>1, <1>3, <2>1, <2>2, <2>3
  <1>9. ASSUME NEW o \in ops, Exec(o) PROVE Shapes' /\ StreamIds'
    <2>1. /\ nextId' = IF o.kind = "XADD" THEN nextId + 1 ELSE nextId
          /\ UNCHANGED <<kind, page, fetch, reload, seen, old>>
      BY <1>9 DEF Exec
    <2>2. /\ content' \in Seq(Nat)
          /\ kind = "stream" =>
               /\ Increasing(content')
               /\ Range(content') \subseteq Range(content) \cup (IF o.kind = "XADD" THEN {nextId} ELSE {})
      <3>1. CASE o.kind = "LSET" /\ o.at >= Len(content)
        BY <1>1, <1>9, <3>1 DEF Exec, StreamIds
      <3>2. CASE ~(o.kind = "LSET" /\ o.at >= Len(content))
        <4>1. content' = Written(content, o)
          BY <1>9, <3>2 DEF Exec
        <4>2. o.kind = "LSET" => o.at < Len(content)
          BY <1>1, <3>2, LenProperties DEF Shapes
        <4> QED
          BY <4>1, <4>2, WrittenKeeps
      <3> QED
        BY <3>1, <3>2
    <2>3. Shapes'
      <3>1. [o EXCEPT !.st = "done"] \in Ops /\ [o EXCEPT !.st = "done"].kind = o.kind
            /\ [o EXCEPT !.st = "done"].val = o.val /\ [o EXCEPT !.st = "done"].at = o.at
        BY DEF Shapes, Ops
      <3> DEFINE d == [o EXCEPT !.st = "done"]
      <3>2. ops' = ops \ {o} \/ ops' = (ops \ {o}) \cup {d}
        BY <1>9 DEF Exec
      <3> HIDE DEF d
      <3>3. /\ ops' \subseteq Ops
            /\ \A x \in ops' : x.kind \in (IF kind = "list" THEN {"LSET", "LREM", "RPUSH"} ELSE {"XDEL", "XADD"})
                              /\ (x.kind \in {"LSET", "RPUSH"} => x.val \in Nat)
                              /\ (x.kind = "LSET" => x.at \in Nat)
        BY <3>1, <3>2 DEF Shapes, d
      <3>4. nextId' \in Nat \ {0}
        BY <1>1, <2>1
      <3> QED
        BY <2>1, <2>2, <3>3, <3>4 DEF Shapes
    <2>4. StreamIds'
      <3>1. nextId' \in Nat /\ 1 .. nextId - 1 \subseteq 1 .. nextId' - 1
            /\ (o.kind = "XADD" => nextId \in 1 .. nextId' - 1)
        BY <1>1, <2>1
      <3> QED
        BY <2>1, <2>2, <3>1 DEF StreamIds
    <2> QED
      BY <2>3, <2>4
  <1>10. ASSUME NEW o \in ops, Refresh(o) PROVE Shapes' /\ StreamIds'
    <2>1. FetchOf(page) \in Fetches /\ RowIds(FetchOf(page).rows) = {}
      BY <1>1, FetchOfFacts
    <2>2. Shapes'
      BY <1>1, <1>10, <2>1, RefreshFacts DEF Shapes
    <2>3. StreamIds'
      BY <1>10, <2>1, RefreshFacts DEF StreamIds
    <2> QED
      BY <2>2, <2>3
  <1>11. CASE Reload
    <2>1. FetchOf(page') \in Fetches /\ RowIds(FetchOf(page').rows) = {}
      BY <1>11, ReloadFacts, FetchOfFacts
    <2>2. fetch' \subseteq Fetches
          /\ \A f \in fetch' : RowIds(f.rows) = {} \/ \E g \in fetch : f.rows = g.rows
      BY <1>1, <1>11, <2>1, ReloadFacts, StaleFacts
    <2>3. Shapes'
      BY <1>11, <2>2, ReloadFacts DEF Shapes
    <2>4. StreamIds'
      <3>1. UNCHANGED <<kind, content, nextId>> /\ old' = Range(content)
        BY <1>11, ReloadFacts
      <3>2. kind = "stream" => \A f \in fetch' : RowIds(f.rows) \subseteq 1 .. nextId - 1
        BY <2>2 DEF StreamIds
      <3> QED
        BY <3>1, <3>2 DEF StreamIds
    <2> QED
      BY <2>3, <2>4
  <1>12. CASE OtherClient
    <2>1. UNCHANGED <<kind, page, fetch, ops, reload, seen, old>>
      BY <1>12 DEF OtherClient
    <2>2. /\ content' \in Seq(Nat) /\ Increasing(content')
          /\ nextId' \in {nextId, nextId + 1}
          /\ Range(content') \subseteq Range(content) \cup (IF nextId' = nextId THEN {} ELSE {nextId})
      BY <1>12, OtherClientKeeps
    <2>3. nextId' \in Nat \ {0}
      BY <1>1, <2>2
    <2>4. /\ 1 .. nextId - 1 \subseteq 1 .. nextId' - 1
          /\ nextId' # nextId => nextId \in 1 .. nextId' - 1
      <3>1. nextId \in Nat \ {0}
        BY <1>1
      <3>2. CASE nextId' = nextId
        BY <3>1, <3>2
      <3>3. CASE nextId' = nextId + 1
        BY <3>1, <3>3
      <3> QED
        BY <2>2, <3>2, <3>3
    <2>5. Shapes'
      BY <2>1, <2>2, <2>3 DEF Shapes
    <2>6. StreamIds'
      BY <2>1, <2>2, <2>4 DEF StreamIds
    <2> QED
      BY <2>5, <2>6
  <1>13. CASE UNCHANGED vars
    <2>1. Shapes'
      BY <1>13 DEF vars, Shapes
    <2> QED
      BY <1>13, <2>1 DEF vars, StreamIds
  <1> QED
    BY <1>4, <1>5, <1>6, <1>7, <1>8, <1>9, <1>10, <1>11, <1>12, <1>13
    DEF Next, User, Fetching, Writing

----------------------------------------------------------------------------
(* Paging through a stream.                                                *)

\* A step that shows no less, and after which no more was there from the
\* start, keeps the promise.
LEMMA StreamKept ==
  ASSUME kind = "stream" => /\ Kept' \subseteq Kept /\ seen \subseteq seen'
                            /\ \A id \in Kept' : id <= page'.last => id \in seen'
                            /\ \A f \in fetch' : f.live => f \in fetch \/ Covered(f)',
         StreamInv, UNCHANGED kind
  PROVE  StreamInv'
  <1> SUFFICES ASSUME kind = "stream", NEW f \in fetch, f.live, f \in fetch'
               PROVE  Covered(f)'
    BY DEF StreamInv
  <1>1. Covered(f) /\ Kept' \subseteq Kept /\ seen \subseteq seen'
    BY DEF StreamInv
  <1> QED
    BY <1>1 DEF Covered

LEMMA StreamStep ==
  ASSUME Shapes, StreamIds, StreamInv, [Next]_vars
  PROVE  StreamInv'
  <1>1. /\ page \in Pages /\ fetch \in SUBSET Fetches /\ content \in Seq(Nat)
        /\ nextId \in Nat \ {0} /\ kind \in {"list", "stream"}
    BY ValuePageAssumption DEF Shapes
  <1>2. kind = "stream" => /\ Increasing(content) /\ Range(content) \subseteq 1 .. nextId - 1
                           /\ old \subseteq 1 .. nextId - 1 /\ nextId \notin old
    BY <1>1 DEF StreamIds
  <1>3. Kept \subseteq Range(content)
    BY DEF Kept
  <1>4. ASSUME kind = "stream"
        PROVE  /\ \A id \in Kept : id <= page.last => id \in seen
               /\ \A f \in fetch : f.live => Covered(f)
    BY <1>4 DEF StreamInv
  <1>5. ASSUME kind = "stream", NEW f, f.last = page.last, RowIds(f.rows) = {} , f.st # "done",
               UNCHANGED <<content, old, seen>>
        PROVE  Covered(f)'
    BY <1>4, <1>5 DEF Covered, Kept
  <1>6. CASE NextPage \/ PrevPage
    <2>1. /\ FetchOf(page').last = page'.last /\ FetchOf(page').st # "done"
          /\ RowIds(FetchOf(page').rows) = {}
      BY <1>6, PagingFacts, FetchOfFacts
    <2>2. /\ kind = "stream" => page' = page
          /\ fetch' = fetch \cup {FetchOf(page')}
          /\ UNCHANGED <<kind, content, seen, old>>
      BY <1>6, PagingFacts
    <2>3. PICK g : g = FetchOf(page')
      OBVIOUS
    <2>4. kind = "stream" => Covered(g)'
      BY <1>5, <2>1, <2>2, <2>3
    <2> QED
      BY <1>4, <2>2, <2>3, <2>4, StreamKept DEF Kept
  <1>7. CASE NewItem \/ \E i \in DOMAIN page.rows : EditItem(i) \/ DelItem(i)
    <2>1. UNCHANGED <<kind, content, nextId, page, fetch, seen, old>>
      BY <1>7, UserWrites
    <2> QED
      BY <2>1 DEF StreamInv, Covered, Kept
  <1>8. ASSUME NEW f \in fetch, ReadLen(f) PROVE StreamInv'
    <2>1. PICK g : g = [f EXCEPT !.total = Len(content), !.st = "range"]
      OBVIOUS
    <2>2. /\ fetch' = (fetch \ {f}) \cup {g} /\ UNCHANGED <<kind, content, page, seen, old>>
          /\ g.last = f.last /\ g.live = f.live /\ g.st # "done"
      BY <1>8, <2>1, ReadFacts DEF ReadLen
    <2>3. kind = "stream" /\ g.live => Covered(g)'
      BY <1>4, <2>2 DEF Covered, Kept
    <2> QED
      BY <1>4, <2>2, <2>3, StreamKept DEF Kept
  <1>9. ASSUME NEW f \in fetch, ReadRange(f) PROVE StreamInv'
    <2>0. PICK rows : rows = IF kind = "list" THEN ListRows(content, f.start) ELSE StreamRows(content, f.last)
      OBVIOUS
    <2>1. /\ rows \in Seq(Row)
          /\ kind = "stream" =>
               \A id \in Range(content) : rows # << >> /\ f.last < id /\ id <= Last(rows).at => id \in RowIds(rows)
      <3>1. f.last \in Nat
        BY <1>1 DEF Fetches
      <3> QED
        BY <1>1, <1>2, <2>0, <3>1, ReadFacts, StreamRowsCover
    <2>2. PICK g : g = [f EXCEPT !.st = "done", !.rows = rows]
      OBVIOUS
    <2>3. /\ fetch' = (fetch \ {f}) \cup {g} /\ UNCHANGED <<kind, content, page, seen, old>>
          /\ g.last = f.last /\ g.live = f.live /\ g.rows = rows
      BY <1>9, <2>0, <2>1, <2>2, ReadFacts, ZenonT(60) DEF ReadRange
    <2>4. kind = "stream" /\ g.live => Covered(g)'
      BY <1>3, <1>4, <2>1, <2>3 DEF Covered, Kept
    <2> QED
      BY <1>4, <2>3, <2>4, StreamKept DEF Kept
  <1>10. ASSUME NEW f \in fetch, Land(f) PROVE StreamInv'
    <2>1. fetch' = fetch \ {f} /\ UNCHANGED <<kind, content, old>> /\ f.st = "done"
      BY <1>10 DEF Land
    <2>2. CASE ~f.live
      <3>1. UNCHANGED <<page, seen>>
        BY <1>10, <2>2 DEF Land
      <3> QED
        BY <1>4, <2>1, <3>1, StreamKept DEF Kept
    <2>3. CASE f.live
      <3> SUFFICES ASSUME kind = "stream"
                   PROVE  /\ seen \subseteq seen'
                          /\ \A id \in Kept : id <= page'.last => id \in seen'
        BY <2>1, StreamKept DEF Kept
      <3>1. seen' = seen \cup RowIds(f.rows)
        BY <1>10, <2>3 DEF Land
      <3>2. /\ page'.last = (IF f.rows # << >> THEN Last(f.rows).at ELSE f.last)
            /\ f.rows # << >> => Last(f.rows).at \in RowIds(f.rows)
        BY <1>10, <2>3, LandFacts
      <3>3. Covered(f)
        BY <1>4, <2>3
      <3>4. ASSUME NEW id \in Kept, id <= page'.last PROVE id \in seen'
        <4>1. id \in Nat /\ f.last \in Nat
          BY <1>1, <1>2, <1>3 DEF Fetches
        <4>2. CASE id <= f.last
          BY <3>1, <3>3, <4>2 DEF Covered
        <4>3. CASE f.last < id
          <5>1. f.rows # << >>
            BY <3>2, <3>4, <4>1, <4>3
          <5> QED
            BY <2>1, <3>1, <3>2, <3>3, <3>4, <4>3, <5>1 DEF Covered
        <4> QED
          BY <4>1, <4>2, <4>3
      <3> QED
        BY <3>1, <3>4
    <2> QED
      BY <2>2, <2>3
  <1>11. ASSUME NEW o \in ops, Exec(o) PROVE StreamInv'
    <2>1. UNCHANGED <<kind, page, fetch, seen, old>>
      BY <1>11 DEF Exec
    <2>2. kind = "stream" => Range(content') \subseteq Range(content) \cup {nextId}
      <3>1. CASE o.kind = "LSET" /\ o.at >= Len(content)
        BY <1>11, <3>1 DEF Exec
      <3>2. CASE ~(o.kind = "LSET" /\ o.at >= Len(content))
        <4>1. content' = Written(content, o)
          BY <1>11, <3>2 DEF Exec
        <4>2. o.kind = "LSET" => o.at < Len(content)
          BY <1>1, <3>2, LenProperties DEF Shapes
        <4> QED
          BY <4>1, <4>2, WrittenKeeps
      <3> QED
        BY <3>1, <3>2
    <2>3. kind = "stream" => Kept' \subseteq Kept
      BY <1>2, <2>1, <2>2 DEF Kept
    <2> QED
      BY <1>4, <2>1, <2>3, StreamKept
  <1>12. ASSUME NEW o \in ops, Refresh(o) PROVE StreamInv'
    <2>1. PICK g : g = FetchOf(page)
      OBVIOUS
    <2>2. /\ fetch' = fetch \cup {g} /\ UNCHANGED <<kind, content, page, seen, old>>
          /\ g.last = page.last /\ g.st # "done" /\ RowIds(g.rows) = {}
      BY <1>1, <1>12, <2>1, FetchOfFacts, RefreshFacts
    <2>3. kind = "stream" => Covered(g)'
      BY <1>5, <2>2
    <2> QED
      BY <1>4, <2>2, <2>3, StreamKept DEF Kept
  <1>13. CASE Reload
    <2> SUFFICES ASSUME kind = "stream" PROVE StreamInv'
      BY <1>13, ReloadFacts DEF StreamInv
    <2>1. page'.last = 0 /\ old' = Range(content) /\ UNCHANGED <<kind, content>>
      BY <1>13, ReloadFacts
    <2>2. \A id \in Kept' : ~(id <= 0)
      BY <1>2, <1>1, <2>1 DEF Kept
    <2>3. /\ FetchOf(page').last = 0 /\ FetchOf(page').st # "done"
      BY <1>13, <2>1, ReloadFacts, FetchOfFacts
    <2>4. \A f \in fetch' : f.live => f.last = 0 /\ f.st # "done"
      BY <1>1, <1>13, <2>3, ReloadFacts, StaleFacts
    <2>5. \A f \in fetch' : f.live => Covered(f)'
      BY <2>2, <2>4 DEF Covered
    <2> QED
      BY <2>1, <2>2, <2>5 DEF StreamInv
  <1>14. CASE OtherClient
    <2>1. UNCHANGED <<kind, page, fetch, seen, old>>
      BY <1>14 DEF OtherClient
    <2>2. Range(content') \subseteq Range(content) \cup {nextId}
      BY <1>14, OtherClientKeeps
    <2>3. kind = "stream" => Kept' \subseteq Kept
      BY <1>2, <2>1, <2>2 DEF Kept
    <2> QED
      BY <1>4, <2>1, <2>3, StreamKept
  <1>15. CASE UNCHANGED vars
    BY <1>15 DEF vars, StreamInv, Covered, Kept
  <1> QED
    BY <1>6, <1>7, <1>8, <1>9, <1>10, <1>11, <1>12, <1>13, <1>14, <1>15
    DEF Next, User, Fetching, Writing

\* Paging through a stream misses nothing, with any number of fetches under
\* way, and whatever this client and another write meanwhile.
THEOREM StreamShowsAll == Spec => []StreamMissesNothing
  <1>1. IInv /\ [Next]_vars => IInv'
    BY ShapesStep, StreamStep DEF IInv
  <1>2. IInv => StreamMissesNothing
    BY DEF IInv, StreamInv, StreamMissesNothing, Kept
  <1>3. Init => IInv
    BY InitHolds
  <1> QED
    BY <1>1, <1>2, <1>3, PTL DEF Spec

----------------------------------------------------------------------------
(* A list, for a user who waits for each page.                             *)

\* A step that leaves list, page and refreshes as they are keeps what is
\* under way for the page, or shows it.
LEMMA ListKept ==
  ASSUME ListInv, UNCHANGED <<kind, content>>, Fresh' => Fresh,
         page'.start = page.start, page'.kind = page.kind,
         kind = "list" => \A f \in fetch' : f.live =>
           \/ f \in fetch
           \/ /\ f.start = page.start
              /\ Fresh /\ f.st = "done" => f.rows = ListRows(content, f.start),
         kind = "list" /\ "list" \in Patient /\ Fresh =>
           \/ page' = page /\ ((\E f \in fetch : f.live) => \E f \in fetch' : f.live)
           \/ page'.rows = ListRows(content, page.start)
  PROVE  ListInv'
  <1> SUFFICES ASSUME kind = "list", "list" \in Patient
               PROVE  /\ \A f \in fetch' : f.live => f.start = page'.start
                      /\ Fresh' =>
                           /\ \A f \in fetch' : f.live /\ f.st = "done" => f.rows = ListRows(content, f.start)
                           /\ \/ \E f \in fetch' : f.live
                              \/ page'.kind # kind
                              \/ page'.rows = ListRows(content, page'.start)
    BY DEF ListInv, ListRows
  <1>1. /\ \A f \in fetch : f.live => f.start = page.start
        /\ Fresh =>
             /\ \A f \in fetch : f.live /\ f.st = "done" => f.rows = ListRows(content, f.start)
             /\ \/ \E f \in fetch : f.live
                \/ page.kind # kind
                \/ page.rows = ListRows(content, page.start)
    BY DEF ListInv
  <1>2. \A f \in fetch' : f.live => f.start = page'.start
    BY <1>1
  <1>3. ASSUME Fresh', NEW f \in fetch', f.live, f.st = "done"
        PROVE  f.rows = ListRows(content, f.start)
    BY <1>1, <1>3
  <1>4. ASSUME Fresh'
        PROVE  \/ \E f \in fetch' : f.live
               \/ page'.kind # kind
               \/ page'.rows = ListRows(content, page'.start)
    BY <1>1, <1>4
  <1> QED
    BY <1>2, <1>3, <1>4

LEMMA ListStep ==
  ASSUME Shapes, StreamIds, ListInv, [Next]_vars
  PROVE  ListInv'
  <1>1. page \in Pages /\ fetch \in SUBSET Fetches /\ kind \in {"list", "stream"}
    BY ValuePageAssumption DEF Shapes
  <1>2. CASE NextPage \/ PrevPage
    <2>1. PICK g : g = FetchOf(page')
      OBVIOUS
    <2>2. g.start = page'.start /\ g.live /\ g.st # "done"
      BY <1>2, <2>1, PagingFacts, FetchOfFacts
    <2>3. /\ fetch' = fetch \cup {g} /\ kind' = kind
          /\ kind \in Patient => fetch = {}
      BY <1>2, <2>1, PagingFacts
    <2> QED
      BY <2>2, <2>3 DEF ListInv
  <1>3. CASE NewItem \/ \E i \in DOMAIN page.rows : EditItem(i) \/ DelItem(i)
    <2>1. UNCHANGED <<kind, content, page, fetch>> /\ (Fresh' <=> Fresh)
      BY <1>3, UserWrites
    <2> QED
      BY <2>1, ListKept
  <1>4. ASSUME NEW f \in fetch, ReadLen(f) PROVE ListInv'
    <2>1. PICK g : g = [f EXCEPT !.total = Len(content), !.st = "range"]
      OBVIOUS
    <2>2. /\ fetch' = (fetch \ {f}) \cup {g} /\ UNCHANGED <<kind, content, page, reload, ops>>
          /\ g.start = f.start /\ g.live = f.live /\ g.st # "done"
      BY <1>4, <2>1, ReadFacts DEF ReadLen
    <2>3. Fresh' <=> Fresh
      BY <2>2 DEF Fresh
    <2>4. kind = "list" /\ "list" \in Patient /\ g.live => g.start = page.start
      BY <2>2 DEF ListInv
    <2>5. (\E x \in fetch : x.live) => \E x \in fetch' : x.live
      BY <2>2
    <2>6. CASE kind = "list" /\ "list" \in Patient
      BY <2>2, <2>3, <2>4, <2>5, <2>6, ListKept
    <2>7. CASE ~(kind = "list" /\ "list" \in Patient)
      BY <2>2, <2>7 DEF ListInv
    <2> QED
      BY <2>6, <2>7
  <1>5. ASSUME NEW f \in fetch, ReadRange(f) PROVE ListInv'
    <2>0. PICK rows : rows = IF kind = "list" THEN ListRows(content, f.start) ELSE StreamRows(content, f.last)
      OBVIOUS
    <2>1. rows \in Seq(Row)
      BY <2>0, ReadFacts
    <2>2. PICK g : g = [f EXCEPT !.st = "done", !.rows = rows]
      OBVIOUS
    <2>3. /\ fetch' = (fetch \ {f}) \cup {g} /\ UNCHANGED <<kind, content, page, reload, ops>>
          /\ g.start = f.start /\ g.live = f.live /\ g.rows = rows
      BY <1>5, <2>0, <2>1, <2>2, ReadFacts, ZenonT(60) DEF ReadRange
    <2>4. Fresh' <=> Fresh
      BY <2>3 DEF Fresh
    <2>5. kind = "list" /\ "list" \in Patient /\ g.live => g.start = page.start
      BY <2>3 DEF ListInv
    <2>6. (\E x \in fetch : x.live) => \E x \in fetch' : x.live
      BY <2>3
    <2>7. CASE kind = "list" /\ "list" \in Patient
      <3>1. g.rows = ListRows(content, g.start)
        BY <2>0, <2>3, <2>7
      <3> QED
        BY <2>3, <2>4, <2>5, <2>6, <2>7, <3>1, ListKept
    <2>8. CASE ~(kind = "list" /\ "list" \in Patient)
      BY <2>3, <2>8 DEF ListInv
    <2> QED
      BY <2>7, <2>8
  <1>6. ASSUME NEW f \in fetch, Land(f) PROVE ListInv'
    <2>1. fetch' = fetch \ {f} /\ UNCHANGED <<kind, content, reload, ops>> /\ f.st = "done"
      BY <1>6 DEF Land
    <2>2. Fresh' <=> Fresh
      BY <2>1 DEF Fresh
    <2>3. CASE ~f.live
      <3>1. UNCHANGED page
        BY <1>6, <2>3 DEF Land
      <3>2. (\E x \in fetch : x.live) => \E x \in fetch' : x.live
        BY <2>1, <2>3
      <3> QED
        BY <2>1, <2>2, <3>1, <3>2, ListKept
    <2>4. CASE f.live
      <3>1. page'.start = page.start /\ page'.kind = page.kind /\ page'.rows = f.rows
        BY <1>6, <2>4, LandFacts
      <3>2. kind = "list" /\ "list" \in Patient /\ Fresh => f.rows = ListRows(content, page.start)
        BY <2>1, <2>4 DEF ListInv
      <3> QED
        BY <2>1, <2>2, <3>1, <3>2, ListKept
    <2> QED
      BY <2>3, <2>4
  <1>7. ASSUME NEW o \in ops, Exec(o) PROVE ListInv'
    <2>1. UNCHANGED <<kind, page, fetch, reload>> /\ o.st = "sent"
      BY <1>7 DEF Exec
    <2>2. CASE o.kind = "LSET" /\ o.at >= Len(content)
      <3>1. ops' = ops \ {o} /\ UNCHANGED content
        BY <1>7, <2>2 DEF Exec
      <3>2. Fresh' => Fresh
        BY <2>1, <3>1 DEF Fresh
      <3> QED
        BY <2>1, <3>1, <3>2, ListKept
    <2>3. CASE ~(o.kind = "LSET" /\ o.at >= Len(content))
      <3>1. ops' = (ops \ {o}) \cup {[o EXCEPT !.st = "done"]}
        BY <1>7, <2>3 DEF Exec
      <3>2. [o EXCEPT !.st = "done"].st = "done"
        BY DEF Shapes, Ops
      <3>3. ~Fresh'
        BY <3>1, <3>2 DEF Fresh
      <3> QED
        BY <2>1, <3>3 DEF ListInv
    <2> QED
      BY <2>2, <2>3
  <1>8. ASSUME NEW o \in ops, Refresh(o) PROVE ListInv'
    <2>1. PICK g : g = FetchOf(page)
      OBVIOUS
    <2>2. /\ fetch' = fetch \cup {g} /\ reload' = TRUE /\ UNCHANGED <<kind, page>>
          /\ g.start = page.start
      BY <1>1, <1>8, <2>1, FetchOfFacts, RefreshFacts
    <2>3. ~Fresh'
      BY <2>2 DEF Fresh
    <2> QED
      BY <2>2, <2>3 DEF ListInv
  <1>9. CASE Reload
    <2>1. PICK g : g = FetchOf(page')
      OBVIOUS
    <2>2. g.start = page'.start /\ g.live /\ g.st # "done"
      BY <1>9, <2>1, ReloadFacts, FetchOfFacts
    <2>3. \A f \in fetch' : f.live => f = g
      BY <1>1, <1>9, <2>1, ReloadFacts, StaleFacts
    <2>4. page'.kind = kind => g \in fetch'
      BY <1>9, <2>1, ReloadFacts
    <2>5. kind' = kind
      BY <1>9, ReloadFacts
    <2> QED
      BY <2>2, <2>3, <2>4, <2>5 DEF ListInv
  <1>10. CASE OtherClient
    BY <1>10 DEF OtherClient, ListInv
  <1>11. CASE UNCHANGED vars
    <2>1. UNCHANGED <<kind, content, page, fetch, reload, ops>>
      BY <1>11 DEF vars
    <2>2. Fresh' <=> Fresh
      BY <2>1 DEF Fresh
    <2> QED
      BY <2>1, <2>2, ListKept
  <1> QED
    BY <1>2, <1>3, <1>4, <1>5, <1>6, <1>7, <1>8, <1>9, <1>10, <1>11
    DEF Next, User, Fetching, Writing

\* At rest the rows of a list are the items from p.start on, if the user
\* waits for each page before asking for the next.
THEOREM ListRestsOnPosition == "list" \in Patient => (Spec => []RowsMatchPosition)
  <1> SUFFICES ASSUME "list" \in Patient PROVE Spec => []RowsMatchPosition
    OBVIOUS
  <1>1. IInv /\ ListInv /\ [Next]_vars => (IInv /\ ListInv)'
    BY ShapesStep, StreamStep, ListStep DEF IInv
  <1>2. IInv /\ ListInv => RowsMatchPosition
    BY DEF ListInv, RowsMatchPosition, Fresh
  <1>3. Init => IInv /\ ListInv
    BY InitHolds
  <1> QED
    BY <1>1, <1>2, <1>3, PTL DEF Spec
=============================================================================
