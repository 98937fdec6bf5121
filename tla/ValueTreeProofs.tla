-------------------------- MODULE ValueTreeProofs --------------------------
(***************************************************************************)
(* Proofs about ValueTree and GraphView, for any documents, texts, names   *)
(* and bounds.                                                             *)
(*                                                                         *)
(* The pane and the edits.  Inv says three things together.  TreesInv:     *)
(* what the server, the calls, the page and the editor hold are trees, and *)
(* a hash keeps its members, so that a node to be replaced is there.       *)
(* PaneInv: a page that nothing will replace shows what is stored, and a   *)
(* fetch that will replace it has read that.  EditInv: an editor of a user *)
(* who waits is on the document that is due, and each node he has saved is *)
(* in it.  The step that matters is a save: what it sends, put into the    *)
(* place it is sent to, is the document with the edit in it (SentIs),      *)
(* which holds because Marshal, Subtree and Replace commute where they     *)
(* should (MarshalOfSubtree, PutIntoPlace, SubtreeApart).                  *)
(*                                                                         *)
(* The order of the rows.  InOrder is a sequence by rank; that it lists    *)
(* every path of a finite set once is InOrderIs, by induction over the     *)
(* ranks, from Before being a strict total order.                          *)
(*                                                                         *)
(* The diagram.  layout is a recursion over the tree; that it has exactly  *)
(* one result is an induction over the levels (LayoutExists,               *)
(* LayoutUnique).  A node is drawn between two of its leaves (Between),    *)
(* and what lies under one node of a level comes before what lies under    *)
(* the next (UnderInOrder), so the cards of a level are apart.             *)
(***************************************************************************)
EXTENDS ValueTree, TLAPS, SequenceTheorems, FiniteSetTheorems, WellFoundedInduction

----------------------------------------------------------------------------
(* Paths and documents.                                                    *)

Paths == Seq(Nat \ {0})
Rest(a, p) == SubSeq(p, Len(a) + 1, Len(p))

\* A path has a length.
LEMMA PathLen ==
  ASSUME NEW a \in Paths
  PROVE  Len(a) \in Nat
  BY DEF Paths

\* Paths of one length with the same places are one path.
LEMMA SamePath ==
  ASSUME NEW a \in Paths, NEW b \in Paths, Len(a) = Len(b), \A i \in 1 .. Len(a) : a[i] = b[i]
  PROVE  a = b
  BY SeqEqual DEF Paths

\* The first n parts of a path.
LEMMA CutPoints ==
  ASSUME NEW p \in Paths, NEW n \in 0 .. Len(p)
  PROVE  /\ SubSeq(p, 1, n) \in Paths /\ Len(SubSeq(p, 1, n)) = n
         /\ \A i \in 1 .. n : SubSeq(p, 1, n)[i] = p[i]
  <1>1. n \in Nat /\ \A i \in 1 .. n : p[i] \in Nat \ {0}
    BY DEF Paths
  <1>2. /\ SubSeq(p, 1, n) \in Seq(Nat \ {0})
        /\ Len(SubSeq(p, 1, n)) = IF 1 <= n THEN n - 1 + 1 ELSE 0
        /\ \A i \in 1 .. n - 1 + 1 : SubSeq(p, 1, n)[i] = p[1 + i - 1]
    BY <1>1, SubSeqProperties
  <1>3. ASSUME NEW i \in 1 .. n PROVE SubSeq(p, 1, n)[i] = p[i]
    <2>1. i \in 1 .. n - 1 + 1 /\ 1 + i - 1 = i
      BY <1>1
    <2> QED
      BY <1>2, <2>1
  <1>4. Len(SubSeq(p, 1, n)) = n
    BY <1>1, <1>2
  <1> QED
    BY <1>2, <1>3, <1>4 DEF Paths

\* A prefix, place by place.
LEMMA PrefixPoints ==
  ASSUME NEW a \in Paths, NEW b \in Paths
  PROVE  IsPrefix(a, b) <=> Len(a) <= Len(b) /\ \A i \in 1 .. Len(a) : a[i] = b[i]
  <1>1. Len(a) \in Nat /\ Len(b) \in Nat
    BY DEF Paths
  <1>2. SubSeq(a, 1, Len(a)) = a
    BY SubSeqFull DEF Paths
  <1>3. ASSUME Len(a) <= Len(b)
        PROVE  /\ SubSeq(b, 1, Len(a)) \in Paths /\ Len(SubSeq(b, 1, Len(a))) = Len(a)
               /\ \A i \in 1 .. Len(a) : SubSeq(b, 1, Len(a))[i] = b[i]
    <2>1. Len(a) \in 0 .. Len(b)
      BY <1>1, <1>3
    <2> QED
      BY <2>1, CutPoints
  <1>4. ASSUME Len(a) <= Len(b), \A i \in 1 .. Len(a) : a[i] = b[i]
        PROVE  a = SubSeq(b, 1, Len(a))
    BY <1>3, <1>4, SamePath
  <1>5. ASSUME Len(a) <= Len(b), a = SubSeq(b, 1, Len(a))
        PROVE  \A i \in 1 .. Len(a) : a[i] = b[i]
    BY <1>3, <1>5
  <1> QED
    BY <1>2, <1>4, <1>5 DEF IsPrefix

\* What follows the first places of a path.
LEMMA RestIs ==
  ASSUME NEW a \in Paths, NEW p \in Paths, Len(a) <= Len(p)
  PROVE  /\ Rest(a, p) \in Paths /\ Len(Rest(a, p)) = Len(p) - Len(a)
         /\ \A i \in 1 .. Len(p) - Len(a) : Rest(a, p)[i] = p[Len(a) + i]
  <1>1. Len(a) \in Nat /\ Len(p) \in Nat
    BY DEF Paths
  <1>2. \A i \in Len(a) + 1 .. Len(p) : p[i] \in Nat \ {0}
    BY <1>1 DEF Paths
  <1>3. /\ SubSeq(p, Len(a) + 1, Len(p)) \in Seq(Nat \ {0})
        /\ Len(SubSeq(p, Len(a) + 1, Len(p))) =
             IF Len(a) + 1 <= Len(p) THEN Len(p) - (Len(a) + 1) + 1 ELSE 0
        /\ \A i \in 1 .. Len(p) - (Len(a) + 1) + 1 :
             SubSeq(p, Len(a) + 1, Len(p))[i] = p[(Len(a) + 1) + i - 1]
    BY <1>1, <1>2, SubSeqProperties
  <1>4. ASSUME NEW i \in 1 .. Len(p) - Len(a) PROVE SubSeq(p, Len(a) + 1, Len(p))[i] = p[Len(a) + i]
    <2>1. i \in 1 .. Len(p) - (Len(a) + 1) + 1 /\ (Len(a) + 1) + i - 1 = Len(a) + i
      BY <1>1
    <2> QED
      BY <1>3, <2>1
  <1>5. Len(SubSeq(p, Len(a) + 1, Len(p))) = Len(p) - Len(a)
    BY <1>1, <1>3
  <1> QED
    BY <1>3, <1>4, <1>5 DEF Paths, Rest

\* Two paths joined, place by place.
LEMMA ConcatPoints ==
  ASSUME NEW a \in Paths, NEW q \in Paths
  PROVE  /\ a \o q \in Paths /\ Len(a \o q) = Len(a) + Len(q)
         /\ \A i \in 1 .. Len(a) + Len(q) :
              (a \o q)[i] = IF i <= Len(a) THEN a[i] ELSE q[i - Len(a)]
  BY ConcatProperties DEF Paths

\* What is joined to a path lies under it.
LEMMA Joined ==
  ASSUME NEW a \in Paths, NEW q \in Paths
  PROVE  a \o q \in Paths /\ IsPrefix(a, a \o q) /\ Rest(a, a \o q) = q
  <1>1. PICK x : x = a \o q
    OBVIOUS
  <1>2. /\ x \in Paths /\ Len(x) = Len(a) + Len(q)
        /\ \A i \in 1 .. Len(a) + Len(q) : x[i] = IF i <= Len(a) THEN a[i] ELSE q[i - Len(a)]
    BY <1>1, ConcatPoints
  <1>3. Len(a) \in Nat /\ Len(q) \in Nat
    BY PathLen
  <1>4. Len(a) <= Len(x) /\ Len(x) - Len(a) = Len(q) /\ \A i \in 1 .. Len(a) : a[i] = x[i]
    BY <1>2, <1>3
  <1>5. IsPrefix(a, x)
    BY <1>2, <1>4, PrefixPoints
  <1>6. /\ Rest(a, x) \in Paths /\ Len(Rest(a, x)) = Len(x) - Len(a)
        /\ \A i \in 1 .. Len(x) - Len(a) : Rest(a, x)[i] = x[Len(a) + i]
    BY <1>2, <1>4, RestIs
  <1>7. \A i \in 1 .. Len(q) : x[Len(a) + i] = q[i]
    BY <1>2, <1>3
  <1>8. Rest(a, x) = q
    BY <1>4, <1>6, <1>7, SamePath
  <1> QED
    BY <1>1, <1>2, <1>5, <1>8

\* What lies under a path is that path and the rest.
LEMMA Split ==
  ASSUME NEW a \in Paths, NEW p \in Paths, IsPrefix(a, p)
  PROVE  Rest(a, p) \in Paths /\ p = a \o Rest(a, p)
  <1>1. Len(a) <= Len(p) /\ \A i \in 1 .. Len(a) : a[i] = p[i]
    BY PrefixPoints
  <1>2. Len(a) \in Nat /\ Len(p) \in Nat
    BY PathLen
  <1>3. PICK r : r = Rest(a, p)
    OBVIOUS
  <1>4. /\ r \in Paths /\ Len(r) = Len(p) - Len(a)
        /\ \A i \in 1 .. Len(p) - Len(a) : r[i] = p[Len(a) + i]
    BY <1>1, <1>3, RestIs
  <1>5. PICK x : x = a \o r
    OBVIOUS
  <1>6. /\ x \in Paths /\ Len(x) = Len(a) + Len(r)
        /\ \A i \in 1 .. Len(a) + Len(r) : x[i] = IF i <= Len(a) THEN a[i] ELSE r[i - Len(a)]
    BY <1>4, <1>5, ConcatPoints
  <1>7. Len(x) = Len(p)
    BY <1>2, <1>4, <1>6
  <1>8. ASSUME NEW i \in 1 .. Len(x) PROVE x[i] = p[i]
    <2>1. i \in 1 .. Len(a) + Len(r)
      BY <1>6
    <2>2. CASE i <= Len(a)
      <3>1. i \in 1 .. Len(a)
        BY <1>2, <2>2
      <3> QED
        BY <1>1, <1>6, <2>1, <2>2, <3>1
    <2>3. CASE ~(i <= Len(a))
      <3>1. i - Len(a) \in 1 .. Len(p) - Len(a) /\ Len(a) + (i - Len(a)) = i
        BY <1>2, <1>7, <2>3
      <3> QED
        BY <1>4, <1>6, <2>1, <2>3, <3>1
    <2> QED
      BY <2>2, <2>3
  <1>9. x = p
    BY <1>6, <1>7, <1>8, SamePath
  <1> QED
    BY <1>3, <1>4, <1>5, <1>9

\* Prefixes are an order on paths, and those of one path a chain.
LEMMA PrefixRefl ==
  ASSUME NEW a \in Paths
  PROVE  IsPrefix(a, a)
  BY PrefixPoints, PathLen

LEMMA PrefixTrans ==
  ASSUME NEW a \in Paths, NEW b \in Paths, NEW c \in Paths, IsPrefix(a, b), IsPrefix(b, c)
  PROVE  IsPrefix(a, c)
  BY PrefixPoints, PathLen

LEMMA PrefixAnti ==
  ASSUME NEW a \in Paths, NEW b \in Paths, IsPrefix(a, b), Len(a) >= Len(b)
  PROVE  a = b
  BY PrefixPoints, PathLen, SamePath

LEMMA PrefixChain ==
  ASSUME NEW a \in Paths, NEW b \in Paths, NEW c \in Paths, IsPrefix(a, c), IsPrefix(b, c)
  PROVE  Len(a) <= Len(b) => IsPrefix(a, b)
  BY PrefixPoints, PathLen

\* Prefixes under one path are those of the rests.
LEMMA PrefixUnder ==
  ASSUME NEW a \in Paths, NEW b \in Paths, NEW c \in Paths
  PROVE  IsPrefix(a \o b, a \o c) <=> IsPrefix(b, c)
  <1>1. PICK x, y : x = a \o b /\ y = a \o c
    OBVIOUS
  <1>2. /\ x \in Paths /\ Len(x) = Len(a) + Len(b)
        /\ \A i \in 1 .. Len(a) + Len(b) : x[i] = IF i <= Len(a) THEN a[i] ELSE b[i - Len(a)]
    BY <1>1, ConcatPoints
  <1>3. /\ y \in Paths /\ Len(y) = Len(a) + Len(c)
        /\ \A i \in 1 .. Len(a) + Len(c) : y[i] = IF i <= Len(a) THEN a[i] ELSE c[i - Len(a)]
    BY <1>1, ConcatPoints
  <1>4. Len(a) \in Nat /\ Len(b) \in Nat /\ Len(c) \in Nat
    BY PathLen
  <1>5. ASSUME IsPrefix(x, y) PROVE IsPrefix(b, c)
    <2>1. Len(x) <= Len(y) /\ \A i \in 1 .. Len(x) : x[i] = y[i]
      BY <1>2, <1>3, <1>5, PrefixPoints
    <2>2. Len(b) <= Len(c)
      BY <1>2, <1>3, <1>4, <2>1
    <2>3. ASSUME NEW i \in 1 .. Len(b) PROVE b[i] = c[i]
      <3>1. Len(a) + i \in 1 .. Len(a) + Len(b) /\ Len(a) + i \in 1 .. Len(a) + Len(c)
        BY <1>4, <2>2
      <3>2. x[Len(a) + i] = y[Len(a) + i]
        BY <1>2, <2>1, <3>1
      <3>3. x[Len(a) + i] = b[i] /\ y[Len(a) + i] = c[i]
        BY <1>2, <1>3, <1>4, <3>1
      <3> QED
        BY <3>2, <3>3
    <2> QED
      BY <2>2, <2>3, PrefixPoints
  <1>6. ASSUME IsPrefix(b, c) PROVE IsPrefix(x, y)
    <2>1. Len(b) <= Len(c) /\ \A i \in 1 .. Len(b) : b[i] = c[i]
      BY <1>6, PrefixPoints
    <2>2. Len(x) <= Len(y)
      BY <1>2, <1>3, <1>4, <2>1
    <2>3. ASSUME NEW i \in 1 .. Len(x) PROVE x[i] = y[i]
      <3>1. i \in 1 .. Len(a) + Len(b) /\ i \in 1 .. Len(a) + Len(c)
        BY <1>2, <1>3, <1>4, <2>1
      <3>2. CASE i <= Len(a)
        BY <1>2, <1>3, <3>1, <3>2
      <3>3. CASE ~(i <= Len(a))
        <4>1. i - Len(a) \in 1 .. Len(b)
          BY <1>4, <3>1, <3>3
        <4> QED
          BY <1>2, <1>3, <2>1, <3>1, <3>3, <4>1
      <3> QED
        BY <3>2, <3>3
    <2> QED
      BY <1>2, <1>3, <2>2, <2>3, PrefixPoints
  <1> QED
    BY <1>1, <1>5, <1>6

\* What is above a place: its first parts.
LEMMA CutIs ==
  ASSUME NEW p \in Paths, NEW n \in 0 .. Len(p)
  PROVE  SubSeq(p, 1, n) \in Paths /\ Len(SubSeq(p, 1, n)) = n /\ IsPrefix(SubSeq(p, 1, n), p)
  <1>1. PICK x \in Paths : x = SubSeq(p, 1, n) /\ Len(x) = n /\ \A i \in 1 .. n : x[i] = p[i]
    BY CutPoints
  <1>2. n <= Len(p)
    BY PathLen
  <1>3. IsPrefix(x, p)
    BY <1>1, <1>2, PrefixPoints
  <1> QED
    BY <1>1, <1>3

\* A prefix is what is cut off at its length.
LEMMA PrefixIsCut ==
  ASSUME NEW q \in Paths, NEW p \in Paths, IsPrefix(q, p)
  PROVE  Len(q) \in 0 .. Len(p) /\ q = SubSeq(p, 1, Len(q))
  <1>1. Len(q) \in 0 .. Len(p)
    BY PathLen, PrefixPoints
  <1>2. PICK x : x = SubSeq(p, 1, Len(q))
    OBVIOUS
  <1>3. x \in Paths /\ Len(x) = Len(q) /\ IsPrefix(x, p)
    BY <1>1, <1>2, CutIs
  <1>4. IsPrefix(q, x)
    BY <1>1, <1>3, PrefixChain
  <1>5. Len(q) >= Len(x)
    BY <1>1, <1>3
  <1> QED
    BY <1>1, <1>2, <1>3, <1>4, <1>5, PrefixAnti

----------------------------------------------------------------------------
(* Documents, as sets of paths.                                            *)

Shaped(t) ==
  t = [p \in DOMAIN t |-> [kind |-> t[p].kind, label |-> t[p].label, value |-> t[p].value]]
Rooted(t) ==
  \A p \in DOMAIN t, q \in Paths : IsPrefix(q, p) => q \in DOMAIN t /\ (q # p => IsBranch(t, q))

\* Document, in the parts that the proofs use.
LEMMA DocumentIs ==
  ASSUME NEW t
  PROVE  Document(t) <=> /\ IsFiniteSet(DOMAIN t) /\ DOMAIN t \subseteq Paths /\ << >> \in DOMAIN t
                         /\ Shaped(t) /\ Rooted(t)
  <1>1. ASSUME Document(t) PROVE Rooted(t)
    <2>1. SUFFICES ASSUME NEW p \in DOMAIN t, NEW q \in Paths, IsPrefix(q, p)
                   PROVE  q \in DOMAIN t /\ (q # p => IsBranch(t, q))
      BY DEF Rooted
    <2>2. p \in Paths
      BY <1>1 DEF Document, Paths
    <2>3. Len(q) \in 0 .. Len(p) /\ q = SubSeq(p, 1, Len(q))
      BY <2>1, <2>2, PrefixIsCut
    <2>4. CASE Len(q) = Len(p)
      <3>1. Len(q) >= Len(p)
        BY <2>2, <2>4, PathLen
      <3> QED
        BY <2>1, <2>2, <3>1, PrefixAnti
    <2>5. CASE Len(q) # Len(p)
      <3>1. Len(q) \in 0 .. Len(p) - 1
        BY <2>2, <2>3, <2>5, PathLen
      <3> QED
        BY <1>1, <2>3, <3>1 DEF Document
    <2> QED
      BY <2>4, <2>5
  <1>2. ASSUME DOMAIN t \subseteq Paths, Rooted(t), NEW p \in DOMAIN t, NEW n \in 0 .. Len(p) - 1
        PROVE  SubSeq(p, 1, n) \in DOMAIN t /\ IsBranch(t, SubSeq(p, 1, n))
    <2>1. p \in Paths /\ n \in 0 .. Len(p) /\ n # Len(p)
      BY <1>2, PathLen
    <2>2. PICK q : q = SubSeq(p, 1, n)
      OBVIOUS
    <2>3. q \in Paths /\ Len(q) = n /\ IsPrefix(q, p)
      BY <2>1, <2>2, CutIs
    <2>4. q # p
      BY <2>1, <2>3
    <2> QED
      BY <1>2, <2>2, <2>3, <2>4 DEF Rooted
  <1> QED
    BY <1>1, <1>2 DEF Document, Paths, Shaped

\* Functions that agree everywhere are one function.
LEMMA SameFunction ==
  ASSUME NEW f, NEW g, f = [x \in DOMAIN f |-> f[x]], g = [x \in DOMAIN g |-> g[x]],
         \A x : x \in DOMAIN f <=> x \in DOMAIN g,
         \A x \in DOMAIN f : f[x] = g[x]
  PROVE  f = g
  <1>1. DOMAIN f = DOMAIN g
    OBVIOUS
  <1> QED
    BY <1>1

\* What a function yields on a finite set is finite.
LEMMA ImageFinite ==
  ASSUME NEW f, IsFiniteSet(DOMAIN f)
  PROVE  IsFiniteSet({f[x] : x \in DOMAIN f})
  <1>1. [x \in DOMAIN f |-> f[x]] \in Surjection(DOMAIN f, {f[x] : x \in DOMAIN f})
    BY DEF Surjection
  <1> QED
    BY <1>1, FS_Surjection

\* The root.
LEMMA EmptyPath == << >> \in Paths /\ Len(<< >>) = 0
  BY DEF Paths

LEMMA RootIsPrefix ==
  ASSUME NEW p \in Paths
  PROVE  IsPrefix(<< >>, p) /\ << >> \o p = p /\ p \o << >> = p
  <1>1. << >> \o p = p /\ p \o << >> = p
    BY ConcatEmptySeq DEF Paths
  <1> QED
    BY <1>1, EmptyPath, Joined

\* As many paths lie under a place as there are rests.
LEMMA JoinedFinite ==
  ASSUME NEW a, NEW S, IsFiniteSet(S)
  PROVE  IsFiniteSet({a \o q : q \in S})
  <1>1. PICK f : f = [x \in S |-> a \o x]
    OBVIOUS
  <1>2. IsFiniteSet({f[x] : x \in DOMAIN f})
    BY <1>1, ImageFinite
  <1>3. {f[x] : x \in DOMAIN f} = {a \o q : q \in S}
    BY <1>1
  <1> QED
    BY <1>2, <1>3

\* Subtree, node by node.
LEMMA SubtreeIs ==
  ASSUME NEW t, Document(t), NEW at \in Paths
  PROVE  /\ \A q : q \in DOMAIN Subtree(t, at) <=> q \in Paths /\ at \o q \in DOMAIN t
         /\ \A q \in DOMAIN Subtree(t, at) : Subtree(t, at)[q] = t[at \o q]
         /\ Subtree(t, at) = [q \in DOMAIN Subtree(t, at) |-> Subtree(t, at)[q]]
  <1>1. DOMAIN t \subseteq Paths
    BY DocumentIs
  <1>2. PICK D : D = {Rest(at, q) : q \in {x \in DOMAIN t : IsPrefix(at, x)}}
    OBVIOUS
  <1>3. Subtree(t, at) = [p \in D |-> t[at \o p]]
    BY <1>2 DEF Subtree, Rest
  <1>4. ASSUME NEW q \in D PROVE q \in Paths /\ at \o q \in DOMAIN t
    <2>1. PICK x \in DOMAIN t : IsPrefix(at, x) /\ q = Rest(at, x)
      BY <1>2
    <2> QED
      BY <1>1, <2>1, Split
  <1>5. ASSUME NEW q \in Paths, at \o q \in DOMAIN t PROVE q \in D
    <2>1. IsPrefix(at, at \o q) /\ Rest(at, at \o q) = q
      BY Joined
    <2> QED
      BY <1>2, <1>5, <2>1
  <1> QED
    BY <1>3, <1>4, <1>5

\* A subtree is a document.
LEMMA SubtreeDocument ==
  ASSUME NEW t, Document(t), NEW at \in DOMAIN t
  PROVE  Document(Subtree(t, at))
  <1>1. /\ DOMAIN t \subseteq Paths /\ at \in Paths /\ IsFiniteSet(DOMAIN t)
        /\ Shaped(t) /\ Rooted(t)
    BY DocumentIs
  <1>2. PICK s : s = Subtree(t, at)
    OBVIOUS
  <1>3. /\ \A q : q \in DOMAIN s <=> q \in Paths /\ at \o q \in DOMAIN t
        /\ \A q \in DOMAIN s : s[q] = t[at \o q]
        /\ s = [q \in DOMAIN s |-> s[q]]
    BY <1>1, <1>2, SubtreeIs
  <1>4. IsFiniteSet(DOMAIN s)
    <2>1. IsFiniteSet({Rest(at, x) : x \in DOMAIN t})
      <3>1. PICK f : f = [x \in DOMAIN t |-> Rest(at, x)]
        OBVIOUS
      <3>2. IsFiniteSet({f[x] : x \in DOMAIN f})
        BY <1>1, <3>1, ImageFinite
      <3>3. {f[x] : x \in DOMAIN f} = {Rest(at, x) : x \in DOMAIN t}
        BY <3>1
      <3> QED
        BY <3>2, <3>3
    <2>2. ASSUME NEW q \in DOMAIN s PROVE q \in {Rest(at, x) : x \in DOMAIN t}
      BY <1>1, <1>3, Joined
    <2> QED
      BY <2>1, <2>2, FS_Subset
  <1>5. << >> \in DOMAIN s
    BY <1>1, <1>3, EmptyPath, RootIsPrefix
  <1>6. Shaped(s)
    BY <1>1, <1>3 DEF Shaped
  <1>7. Rooted(s)
    <2>1. SUFFICES ASSUME NEW p \in DOMAIN s, NEW q \in Paths, IsPrefix(q, p)
                   PROVE  q \in DOMAIN s /\ (q # p => IsBranch(s, q))
      BY DEF Rooted
    <2>2. p \in Paths /\ at \o p \in DOMAIN t /\ at \o q \in Paths
      BY <1>1, <1>3, Joined
    <2>3. IsPrefix(at \o q, at \o p)
      BY <1>1, <2>1, <2>2, PrefixUnder
    <2>4. at \o q \in DOMAIN t /\ (at \o q # at \o p => IsBranch(t, at \o q))
      BY <1>1, <2>2, <2>3 DEF Rooted
    <2>5. q # p => at \o q # at \o p
      BY <1>1, <2>2, Joined
    <2> QED
      BY <1>3, <2>4, <2>5 DEF IsBranch
  <1> QED
    BY <1>2, <1>3, <1>4, <1>5, <1>6, <1>7, DocumentIs

----------------------------------------------------------------------------
(* Replace.                                                                *)

Named(r, l) == [r EXCEPT ![<< >>].label = l]

\* A document whose root takes a label, node by node.
LEMMA NamedIs ==
  ASSUME NEW r, Document(r), NEW l
  PROVE  /\ Document(Named(r, l)) /\ DOMAIN Named(r, l) = DOMAIN r
         /\ \A q \in DOMAIN r : /\ Named(r, l)[q].kind = r[q].kind /\ Named(r, l)[q].value = r[q].value
                                 /\ q # << >> => Named(r, l)[q] = r[q]
         /\ Named(r, l)[<< >>] = [kind |-> r[<< >>].kind, label |-> l, value |-> r[<< >>].value]
  <1>1. /\ IsFiniteSet(DOMAIN r) /\ DOMAIN r \subseteq Paths /\ << >> \in DOMAIN r
        /\ Shaped(r) /\ Rooted(r)
    BY DocumentIs
  <1>2. PICK s : s = Named(r, l)
    OBVIOUS
  <1>3. r[<< >>] = [kind |-> r[<< >>].kind, label |-> r[<< >>].label, value |-> r[<< >>].value]
    BY <1>1 DEF Shaped
  <1>4. /\ DOMAIN s = DOMAIN r
        /\ \A q \in DOMAIN r : q # << >> => s[q] = r[q]
        /\ s[<< >>] = [r[<< >>] EXCEPT !.label = l]
        /\ s = [q \in DOMAIN s |-> s[q]]
    BY <1>1, <1>2 DEF Named
  <1>5. s[<< >>] = [kind |-> r[<< >>].kind, label |-> l, value |-> r[<< >>].value]
    BY <1>3, <1>4
  <1>6. \A q \in DOMAIN r : s[q].kind = r[q].kind /\ s[q].value = r[q].value
    BY <1>4, <1>5
  <1>7. Shaped(s)
    <2>1. \A q \in DOMAIN s : s[q] = [kind |-> s[q].kind, label |-> s[q].label, value |-> s[q].value]
      BY <1>1, <1>4, <1>5 DEF Shaped
    <2> QED
      BY <1>4, <2>1 DEF Shaped
  <1>8. Rooted(s)
    BY <1>1, <1>4, <1>6 DEF Rooted, IsBranch
  <1>9. Document(s)
    BY <1>1, <1>4, <1>7, <1>8, DocumentIs
  <1> QED
    BY <1>2, <1>4, <1>5, <1>6, <1>9

LEMMA NamedAt ==
  ASSUME NEW r, Document(r), NEW l, NEW q \in DOMAIN r
  PROVE  /\ q \in DOMAIN Named(r, l)
         /\ Named(r, l)[q].kind = r[q].kind /\ Named(r, l)[q].value = r[q].value
         /\ q # << >> => Named(r, l)[q] = r[q]
  <1>1. PICK s : s = Named(r, l)
    OBVIOUS
  <1>2. << >> \in DOMAIN r /\ Shaped(r)
    BY DocumentIs
  <1>3. r[<< >>] = [kind |-> r[<< >>].kind, label |-> r[<< >>].label, value |-> r[<< >>].value]
    BY <1>2 DEF Shaped
  <1>4. /\ DOMAIN s = DOMAIN r
        /\ q # << >> => s[q] = r[q]
        /\ s[<< >>] = [r[<< >>] EXCEPT !.label = l]
    BY <1>1, <1>2 DEF Named
  <1>5. s[<< >>] = [kind |-> r[<< >>].kind, label |-> l, value |-> r[<< >>].value]
    BY <1>3, <1>4
  <1>6. s[q].kind = r[q].kind /\ s[q].value = r[q].value
    BY <1>4, <1>5
  <1> QED
    BY <1>1, <1>4, <1>6

\* What a replaced node leaves, and what it brings.
ReplacedAt(t, at, r, p) ==
  \/ p \in DOMAIN t /\ ~IsPrefix(at, p)
  \/ p \in Paths /\ IsPrefix(at, p) /\ Rest(at, p) \in DOMAIN r

\* Node.Replace, node by node.
LEMMA ReplaceIs ==
  ASSUME NEW t, Document(t), NEW at \in DOMAIN t, NEW r, Document(r)
  PROVE  /\ \A p : p \in DOMAIN Replace(t, at, r) <=> ReplacedAt(t, at, r, p)
         /\ \A p \in DOMAIN Replace(t, at, r) :
              Replace(t, at, r)[p] = IF IsPrefix(at, p) THEN Named(r, t[at].label)[Rest(at, p)] ELSE t[p]
         /\ Replace(t, at, r) = [p \in DOMAIN Replace(t, at, r) |-> Replace(t, at, r)[p]]
  <1>1. DOMAIN t \subseteq Paths /\ DOMAIN r \subseteq Paths /\ at \in Paths
    BY DocumentIs
  <1>2. PICK kept : kept = {p \in DOMAIN t : ~IsPrefix(at, p)}
    OBVIOUS
  <1>3. PICK D : D = kept \cup {at \o q : q \in DOMAIN r}
    OBVIOUS
  <1>4. Replace(t, at, r) = [p \in D |-> IF p \in kept THEN t[p] ELSE Named(r, t[at].label)[Rest(at, p)]]
    BY <1>2, <1>3 DEF Replace, Named, Rest
  <1>5. ASSUME NEW p \in D PROVE ReplacedAt(t, at, r, p) /\ (p \in kept <=> ~IsPrefix(at, p))
    <2>1. CASE p \in kept
      BY <1>2, <2>1 DEF ReplacedAt
    <2>2. CASE p \notin kept
      <3>1. PICK q \in DOMAIN r : p = at \o q
        BY <1>3, <2>2
      <3>2. p \in Paths /\ IsPrefix(at, p) /\ Rest(at, p) = q
        BY <1>1, <3>1, Joined
      <3> QED
        BY <2>2, <3>2 DEF ReplacedAt
    <2> QED
      BY <2>1, <2>2
  <1>6. ASSUME NEW p, ReplacedAt(t, at, r, p) PROVE p \in D
    <2>1. CASE p \in DOMAIN t /\ ~IsPrefix(at, p)
      BY <1>2, <1>3, <2>1
    <2>2. CASE p \in Paths /\ IsPrefix(at, p) /\ Rest(at, p) \in DOMAIN r
      BY <1>1, <1>3, <2>2, Split
    <2> QED
      BY <1>6, <2>1, <2>2 DEF ReplacedAt
  <1> QED
    BY <1>4, <1>5, <1>6

\* A tree with a node replaced is a tree.
LEMMA ReplaceDocument ==
  ASSUME NEW t, Document(t), NEW at \in DOMAIN t, NEW r, Document(r)
  PROVE  Document(Replace(t, at, r))
  <1>1. /\ IsFiniteSet(DOMAIN t) /\ DOMAIN t \subseteq Paths /\ << >> \in DOMAIN t
        /\ Shaped(t) /\ Rooted(t) /\ at \in Paths
    BY DocumentIs
  <1>2. PICK n : n = Named(r, t[at].label)
    OBVIOUS
  <1>3. Document(n) /\ DOMAIN n = DOMAIN r
    BY <1>2, NamedIs
  <1>4. IsFiniteSet(DOMAIN n) /\ DOMAIN n \subseteq Paths /\ << >> \in DOMAIN n /\ Shaped(n) /\ Rooted(n)
    BY <1>3, DocumentIs
  <1>5. PICK s : s = Replace(t, at, r)
    OBVIOUS
  <1>6. /\ \A p : p \in DOMAIN s <=> ReplacedAt(t, at, r, p)
        /\ \A p \in DOMAIN s : s[p] = IF IsPrefix(at, p) THEN n[Rest(at, p)] ELSE t[p]
        /\ s = [p \in DOMAIN s |-> s[p]]
    BY <1>2, <1>5, ReplaceIs
  <1>7. IsFiniteSet(DOMAIN s)
    <2>1. IsFiniteSet({at \o q : q \in DOMAIN r})
      BY <1>3, <1>4, JoinedFinite
    <2>2. IsFiniteSet(DOMAIN t \cup {at \o q : q \in DOMAIN r})
      BY <1>1, <2>1, FS_Union
    <2>3. \A p \in DOMAIN s : p \in DOMAIN t \cup {at \o q : q \in DOMAIN r}
      BY <1>1, <1>6, Split DEF ReplacedAt
    <2> QED
      BY <2>2, <2>3, FS_Subset
  <1>8. DOMAIN s \subseteq Paths
    BY <1>1, <1>6 DEF ReplacedAt
  <1>9. Shaped(s)
    <2>1. \A p \in DOMAIN s : s[p] = [kind |-> s[p].kind, label |-> s[p].label, value |-> s[p].value]
      BY <1>1, <1>3, <1>4, <1>6 DEF Shaped, ReplacedAt
    <2> QED
      BY <1>6, <2>1 DEF Shaped
  <1>10. Rooted(s)
    <2>1. SUFFICES ASSUME NEW p \in DOMAIN s, NEW q \in Paths, IsPrefix(q, p)
                   PROVE  q \in DOMAIN s /\ (q # p => IsBranch(s, q))
      BY DEF Rooted
    <2>2. p \in Paths
      BY <1>8
    <2>3. CASE ~IsPrefix(at, p)
      <3>1. p \in DOMAIN t
        BY <1>6, <2>3 DEF ReplacedAt
      <3>2. q \in DOMAIN t /\ (q # p => IsBranch(t, q))
        BY <1>1, <2>1, <3>1 DEF Rooted
      <3>3. ~IsPrefix(at, q)
        BY <1>1, <2>1, <2>2, <2>3, PrefixTrans
      <3> QED
        BY <1>6, <3>2, <3>3 DEF ReplacedAt, IsBranch
    <2>4. CASE IsPrefix(at, p)
      <3>1. Rest(at, p) \in DOMAIN n /\ Rest(at, p) \in Paths /\ p = at \o Rest(at, p)
        BY <1>1, <1>3, <1>6, <2>2, <2>4, Split DEF ReplacedAt
      <3>2. CASE IsPrefix(at, q)
        <4>1. Rest(at, q) \in Paths /\ q = at \o Rest(at, q)
          BY <1>1, <3>2, Split
        <4>2. IsPrefix(Rest(at, q), Rest(at, p))
          BY <1>1, <2>1, <3>1, <4>1, PrefixUnder
        <4>3. Rest(at, q) \in DOMAIN n /\ (Rest(at, q) # Rest(at, p) => IsBranch(n, Rest(at, q)))
          BY <1>4, <3>1, <4>1, <4>2 DEF Rooted
        <4>4. q \in DOMAIN s /\ s[q] = n[Rest(at, q)]
          BY <1>3, <1>6, <3>2, <4>3 DEF ReplacedAt
        <4> QED
          BY <3>1, <4>1, <4>3, <4>4 DEF IsBranch
      <3>3. CASE ~IsPrefix(at, q)
        <4>1. IsPrefix(q, at) /\ q # at
          <5>1. Len(q) <= Len(at) \/ Len(at) <= Len(q)
            BY <1>1, PathLen
          <5> QED
            BY <1>1, <2>1, <2>2, <2>4, <3>3, <5>1, PrefixChain, PrefixRefl
        <4>2. q \in DOMAIN t /\ IsBranch(t, q)
          BY <1>1, <4>1 DEF Rooted
        <4> QED
          BY <1>6, <3>3, <4>2 DEF ReplacedAt, IsBranch
      <3> QED
        BY <3>2, <3>3
    <2> QED
      BY <2>3, <2>4
  <1>11. << >> \in DOMAIN s
    <2>1. PICK p \in DOMAIN s : TRUE
      <3>1. at \o << >> \in Paths /\ IsPrefix(at, at \o << >>) /\ Rest(at, at \o << >>) = << >>
        BY <1>1, EmptyPath, Joined
      <3> QED
        BY <1>3, <1>4, <1>6, <3>1 DEF ReplacedAt
    <2> QED
      BY <1>8, <1>10, <2>1, EmptyPath, RootIsPrefix DEF Rooted
  <1> QED
    BY <1>5, <1>7, <1>8, <1>9, <1>10, <1>11, DocumentIs

----------------------------------------------------------------------------
(* Marshal.                                                                *)

\* A tree as the user may leave it: a number leaf holds any JSON.
Held(t) == Document(t) /\ \A n \in Numbers(t) : t[n].value \in DOMAIN JSONOf

\* What the text of a number leaf stands for.
Meant(t, n) == JSONOf[t[n].value]

\* A number leaf stands for the document that its text is read as.
LEMMA MeantIsRead ==
  ASSUME NEW t, Held(t), NEW n \in Numbers(t)
  PROVE  AsRead(Meant(t, n)) /\ Document(Meant(t, n)) /\ Spelled(t, n) = Named(Meant(t, n), t[n].label)
  <1>1. t[n].value \in DOMAIN JSONOf
    BY DEF Held
  <1>2. AsRead(JSONOf[t[n].value])
    BY <1>1, ValueTreeAssumption
  <1> QED
    BY <1>2 DEF AsRead, Meant, Spelled, Named

\* Nothing lies under a number leaf, so two of them lie apart.
LEMMA NumberIsLeaf ==
  ASSUME NEW t, Document(t), NEW n \in Numbers(t), NEW p \in DOMAIN t, IsPrefix(n, p)
  PROVE  p = n
  <1>1. n \in DOMAIN t /\ n \in Paths /\ t[n].kind = "number" /\ Rooted(t)
    BY DocumentIs DEF Numbers
  <1>2. n # p => IsBranch(t, n)
    BY <1>1 DEF Rooted
  <1> QED
    BY <1>1, <1>2 DEF IsBranch, Branches

LEMMA NumbersApart ==
  ASSUME NEW t, Document(t), NEW n \in Numbers(t), NEW m \in Numbers(t), NEW p \in Paths,
         IsPrefix(n, p), IsPrefix(m, p)
  PROVE  n = m
  <1>1. n \in DOMAIN t /\ n \in Paths /\ m \in DOMAIN t /\ m \in Paths
    BY DocumentIs DEF Numbers
  <1>2. Len(n) <= Len(m) \/ Len(m) <= Len(n)
    BY <1>1, PathLen
  <1>3. IsPrefix(n, m) \/ IsPrefix(m, n)
    BY <1>1, <1>2, PrefixChain
  <1> QED
    BY <1>1, <1>3, NumberIsLeaf

Plain(t, p) == p \in DOMAIN t /\ p \notin Numbers(t)
Spelling(t, n, p) ==
  n \in Numbers(t) /\ p \in Paths /\ IsPrefix(n, p) /\ Rest(n, p) \in DOMAIN Meant(t, n)

\* Marshal, node by node: a node is plain, or part of the spelling of a number.
LEMMA MarshalIs ==
  ASSUME NEW t, Held(t)
  PROVE  /\ \A p : p \in DOMAIN Marshal(t) <=> Plain(t, p) \/ \E n : Spelling(t, n, p)
         /\ \A p : Plain(t, p) => Marshal(t)[p] = t[p]
         /\ \A p, n : Spelling(t, n, p) =>
              ~Plain(t, p) /\ Marshal(t)[p] = Named(Meant(t, n), t[n].label)[Rest(n, p)]
         /\ Marshal(t) = [p \in DOMAIN Marshal(t) |-> Marshal(t)[p]]
  <1>1. Document(t) /\ DOMAIN t \subseteq Paths
    BY DocumentIs DEF Held
  <1>2. PICK D : D = (DOMAIN t \ Numbers(t))
                       \cup UNION {{n \o q : q \in DOMAIN Meant(t, n)} : n \in Numbers(t)}
    OBVIOUS
  <1>3. Marshal(t) = [p \in D |->
          IF p \in DOMAIN t \ Numbers(t) THEN t[p]
          ELSE Spelled(t, CHOOSE n \in Numbers(t) : IsPrefix(n, p))
                 [Rest(CHOOSE n \in Numbers(t) : IsPrefix(n, p), p)]]
    BY <1>2 DEF Marshal, Meant, Rest
  <1>4. ASSUME NEW p, NEW n, Spelling(t, n, p)
        PROVE  ~Plain(t, p) /\ (CHOOSE m \in Numbers(t) : IsPrefix(m, p)) = n
    <2>1. n \in Numbers(t) /\ p \in Paths /\ IsPrefix(n, p)
      BY <1>4 DEF Spelling
    <2>2. \A m \in Numbers(t) : IsPrefix(m, p) => m = n
      BY <1>1, <2>1, NumbersApart
    <2>3. p \in DOMAIN t => p = n
      BY <1>1, <2>1, NumberIsLeaf
    <2> QED
      BY <2>1, <2>2, <2>3 DEF Plain
  <1>5. ASSUME NEW p \in D, ~Plain(t, p) PROVE \E n : Spelling(t, n, p)
    <2>1. PICK n \in Numbers(t) : p \in {n \o q : q \in DOMAIN Meant(t, n)}
      BY <1>2, <1>5 DEF Plain
    <2>2. PICK q \in DOMAIN Meant(t, n) : p = n \o q
      BY <2>1
    <2>3. n \in Paths /\ q \in Paths
      BY <1>1, <2>2, MeantIsRead, DocumentIs DEF Numbers
    <2>4. p \in Paths /\ IsPrefix(n, p) /\ Rest(n, p) = q
      BY <2>2, <2>3, Joined
    <2> QED
      BY <2>2, <2>4 DEF Spelling
  <1>6. ASSUME NEW p, NEW n, Spelling(t, n, p) PROVE p \in D
    <2>1. n \in Numbers(t) /\ p \in Paths /\ IsPrefix(n, p) /\ Rest(n, p) \in DOMAIN Meant(t, n) /\ n \in Paths
      BY <1>1, <1>6 DEF Spelling, Numbers
    <2>2. p = n \o Rest(n, p)
      BY <2>1, Split
    <2>3. p \in {n \o q : q \in DOMAIN Meant(t, n)}
      BY <2>1, <2>2
    <2> QED
      BY <1>2, <2>1, <2>3
  <1>7. \A p : Plain(t, p) => p \in D /\ p \in DOMAIN t \ Numbers(t)
    BY <1>2 DEF Plain
  <1>8. ASSUME NEW p, NEW n, Spelling(t, n, p)
        PROVE  Marshal(t)[p] = Named(Meant(t, n), t[n].label)[Rest(n, p)]
    <2>1. p \in D /\ p \notin DOMAIN t \ Numbers(t)
      BY <1>4, <1>6, <1>8 DEF Plain
    <2>2. Marshal(t)[p] = Spelled(t, n)[Rest(n, p)]
      BY <1>3, <1>4, <1>8, <2>1
    <2>3. n \in Numbers(t)
      BY <1>8 DEF Spelling
    <2> QED
      BY <2>2, <2>3, MeantIsRead
  <1>9. DOMAIN Marshal(t) = D /\ Marshal(t) = [p \in DOMAIN Marshal(t) |-> Marshal(t)[p]]
    BY <1>3
  <1>10. \A p : Plain(t, p) => Marshal(t)[p] = t[p]
    BY <1>3, <1>7
  <1> QED
    BY <1>4, <1>5, <1>6, <1>7, <1>8, <1>9, <1>10

\* What Marshal writes is a document.
LEMMA MarshalDocument ==
  ASSUME NEW t, Held(t)
  PROVE  Document(Marshal(t))
  <1>1. /\ Document(t) /\ DOMAIN t \subseteq Paths /\ IsFiniteSet(DOMAIN t) /\ << >> \in DOMAIN t
        /\ Shaped(t) /\ Rooted(t)
    BY DocumentIs DEF Held
  <1>2. PICK s : s = Marshal(t)
    OBVIOUS
  <1>3. /\ \A p : p \in DOMAIN s <=> Plain(t, p) \/ \E n : Spelling(t, n, p)
        /\ \A p : Plain(t, p) => s[p] = t[p]
        /\ \A p, n : Spelling(t, n, p) =>
             ~Plain(t, p) /\ s[p] = Named(Meant(t, n), t[n].label)[Rest(n, p)]
        /\ s = [p \in DOMAIN s |-> s[p]]
    BY <1>2, MarshalIs
  <1>4. DOMAIN s \subseteq Paths
    BY <1>1, <1>3 DEF Plain, Spelling
  <1>5. IsFiniteSet(DOMAIN s)
    <2>1. PICK U : U = {{n \o q : q \in DOMAIN Meant(t, n)} : n \in Numbers(t)}
      OBVIOUS
    <2>2. IsFiniteSet(Numbers(t))
      BY <1>1, FS_Subset DEF Numbers
    <2>3. IsFiniteSet(U)
      <3>1. PICK f : f = [n \in Numbers(t) |-> {n \o q : q \in DOMAIN Meant(t, n)}]
        OBVIOUS
      <3>2. IsFiniteSet({f[x] : x \in DOMAIN f})
        BY <2>2, <3>1, ImageFinite
      <3>3. {f[x] : x \in DOMAIN f} = U
        BY <2>1, <3>1
      <3> QED
        BY <3>2, <3>3
    <2>4. \A T \in U : IsFiniteSet(T)
      BY <2>1, MeantIsRead, DocumentIs, JoinedFinite
    <2>5. IsFiniteSet(UNION U)
      BY <2>3, <2>4, FS_UNION
    <2>6. IsFiniteSet(DOMAIN t \cup UNION U)
      BY <1>1, <2>5, FS_Union
    <2>7. ASSUME NEW p \in DOMAIN s PROVE p \in DOMAIN t \cup UNION U
      <3>1. CASE Plain(t, p)
        BY <3>1 DEF Plain
      <3>2. ASSUME NEW n, Spelling(t, n, p) PROVE p \in UNION U
        <4>1. p = n \o Rest(n, p) /\ n \in Numbers(t) /\ Rest(n, p) \in DOMAIN Meant(t, n)
          BY <1>1, <3>2, Split DEF Spelling, Numbers
        <4> QED
          BY <2>1, <4>1
      <3> QED
        BY <1>3, <3>1, <3>2
    <2> QED
      BY <2>6, <2>7, FS_Subset
  <1>6. Shaped(s)
    <2>1. ASSUME NEW p \in DOMAIN s
          PROVE  s[p] = [kind |-> s[p].kind, label |-> s[p].label, value |-> s[p].value]
      <3>1. CASE Plain(t, p)
        BY <1>1, <1>3, <3>1 DEF Shaped, Plain
      <3>2. ASSUME NEW n, Spelling(t, n, p)
            PROVE  s[p] = [kind |-> s[p].kind, label |-> s[p].label, value |-> s[p].value]
        <4>1. PICK m : m = Named(Meant(t, n), t[n].label)
          OBVIOUS
        <4>2. Document(m) /\ DOMAIN m = DOMAIN Meant(t, n)
          BY <3>2, <4>1, MeantIsRead, NamedIs DEF Spelling
        <4>3. Rest(n, p) \in DOMAIN m /\ s[p] = m[Rest(n, p)]
          BY <1>3, <3>2, <4>1, <4>2 DEF Spelling
        <4> QED
          BY <4>2, <4>3, DocumentIs DEF Shaped
      <3> QED
        BY <1>3, <3>1, <3>2
    <2> QED
      BY <1>3, <2>1 DEF Shaped
  <1>7. Rooted(s)
    <2>1. SUFFICES ASSUME NEW p \in DOMAIN s, NEW q \in Paths, IsPrefix(q, p)
                   PROVE  q \in DOMAIN s /\ (q # p => IsBranch(s, q))
      BY DEF Rooted
    <2>2. p \in Paths
      BY <1>4
    <2>3. ASSUME q \in DOMAIN t, IsBranch(t, q) PROVE q \in DOMAIN s /\ IsBranch(s, q)
      <3>1. Plain(t, q)
        BY <2>3 DEF Plain, Numbers, IsBranch, Branches
      <3> QED
        BY <1>3, <2>3, <3>1 DEF IsBranch
    <2>4. CASE Plain(t, p)
      <3>1. q \in DOMAIN t /\ (q # p => IsBranch(t, q))
        BY <1>1, <2>1, <2>4 DEF Plain, Rooted
      <3> QED
        BY <2>1, <2>3, <3>1
    <2>5. ASSUME NEW n, Spelling(t, n, p) PROVE q \in DOMAIN s /\ (q # p => IsBranch(s, q))
      <3>1. n \in Numbers(t) /\ n \in Paths /\ n \in DOMAIN t /\ IsPrefix(n, p) /\ Rest(n, p) \in DOMAIN Meant(t, n)
        BY <1>1, <2>5 DEF Spelling, Numbers
      <3>2. PICK m : m = Named(Meant(t, n), t[n].label)
        OBVIOUS
      <3>3. Document(m) /\ DOMAIN m = DOMAIN Meant(t, n) /\ Rooted(m)
        BY <3>1, <3>2, MeantIsRead, NamedIs, DocumentIs
      <3>4. CASE IsPrefix(n, q)
        <4>1. /\ Rest(n, q) \in Paths /\ q = n \o Rest(n, q)
              /\ Rest(n, p) \in Paths /\ p = n \o Rest(n, p)
          BY <2>2, <3>1, <3>4, Split
        <4>2. IsPrefix(Rest(n, q), Rest(n, p))
          BY <2>1, <3>1, <4>1, PrefixUnder
        <4>3. Rest(n, q) \in DOMAIN m /\ (Rest(n, q) # Rest(n, p) => IsBranch(m, Rest(n, q)))
          BY <3>1, <3>3, <4>1, <4>2 DEF Rooted
        <4>4. Spelling(t, n, q)
          BY <3>1, <3>3, <3>4, <4>3 DEF Spelling
        <4>5. q \in DOMAIN s /\ s[q] = m[Rest(n, q)]
          BY <1>3, <3>2, <4>4
        <4> QED
          BY <4>1, <4>3, <4>5 DEF IsBranch
      <3>5. CASE ~IsPrefix(n, q)
        <4>1. IsPrefix(q, n) /\ q # n
          <5>1. Len(q) <= Len(n) \/ Len(n) <= Len(q)
            BY <3>1, PathLen
          <5> QED
            BY <2>1, <2>2, <3>1, <3>5, <5>1, PrefixChain, PrefixRefl
        <4>2. q \in DOMAIN t /\ IsBranch(t, q)
          BY <1>1, <3>1, <4>1 DEF Rooted
        <4> QED
          BY <2>3, <4>2
      <3> QED
        BY <3>4, <3>5
    <2> QED
      BY <1>3, <2>4, <2>5
  <1>8. << >> \in DOMAIN s
    <2>1. CASE Plain(t, << >>)
      BY <1>3, <2>1
    <2>2. CASE ~Plain(t, << >>)
      <3>1. << >> \in Numbers(t)
        BY <1>1, <2>2 DEF Plain
      <3>2. << >> \in DOMAIN Meant(t, << >>)
        BY <3>1, MeantIsRead, DocumentIs
      <3>3. IsPrefix(<< >>, << >>) /\ Rest(<< >>, << >>) = << >>
        <4>1. << >> \o << >> = << >>
          BY EmptyPath, RootIsPrefix
        <4> QED
          BY <4>1, EmptyPath, Joined
      <3>4. Spelling(t, << >>, << >>)
        BY <3>1, <3>2, <3>3, EmptyPath DEF Spelling
      <3> QED
        BY <1>3, <3>4
    <2> QED
      BY <2>1, <2>2
  <1> QED
    BY <1>2, <1>4, <1>5, <1>6, <1>7, <1>8, DocumentIs

\* What is sent is what the server's document then is read as.
LEMMA MarshalIsRead ==
  ASSUME NEW t, Held(t)
  PROVE  AsRead(Marshal(t))
  <1>1. PICK s : s = Marshal(t)
    OBVIOUS
  <1>2. /\ \A p : p \in DOMAIN s <=> Plain(t, p) \/ \E n : Spelling(t, n, p)
        /\ \A p : Plain(t, p) => s[p] = t[p]
        /\ \A p, n : Spelling(t, n, p) => s[p] = Named(Meant(t, n), t[n].label)[Rest(n, p)]
    BY <1>1, MarshalIs
  <1>3. ASSUME NEW p \in Numbers(s)
        PROVE  /\ s[p].value \in DOMAIN JSONOf
               /\ DOMAIN JSONOf[s[p].value] = {<< >>} /\ JSONOf[s[p].value][<< >>].kind = "number"
               /\ JSONOf[s[p].value][<< >>].value = s[p].value
    <2>1. p \in DOMAIN s /\ s[p].kind = "number"
      BY <1>3 DEF Numbers
    <2>2. ~Plain(t, p)
      BY <1>2, <2>1 DEF Plain, Numbers
    <2>3. PICK n : Spelling(t, n, p)
      BY <1>2, <2>1, <2>2
    <2>4. AsRead(Meant(t, n)) /\ Document(Meant(t, n)) /\ Rest(n, p) \in DOMAIN Meant(t, n)
      BY <2>3, MeantIsRead DEF Spelling
    <2>5. /\ s[p].kind = Meant(t, n)[Rest(n, p)].kind /\ s[p].value = Meant(t, n)[Rest(n, p)].value
      <3>1. PICK m : m = Named(Meant(t, n), t[n].label)
        OBVIOUS
      <3>2. s[p] = m[Rest(n, p)]
        BY <1>2, <2>3, <3>1
      <3>3. \A q \in DOMAIN Meant(t, n) : m[q].kind = Meant(t, n)[q].kind /\ m[q].value = Meant(t, n)[q].value
        BY <2>4, <3>1, NamedAt
      <3> QED
        BY <2>4, <3>2, <3>3
    <2>6. Rest(n, p) \in Numbers(Meant(t, n))
      BY <2>1, <2>4, <2>5 DEF Numbers
    <2> QED
      BY <2>4, <2>5, <2>6 DEF AsRead
  <1> QED
    BY <1>1, <1>3, MarshalDocument DEF AsRead

\* Marshal leaves what was read from JSON as it is.
LEMMA MarshalOfRead ==
  ASSUME NEW t, AsRead(t)
  PROVE  Held(t) /\ Marshal(t) = t
  <1>1. Held(t)
    BY DEF Held, AsRead
  <1>2. Document(t) /\ DOMAIN t \subseteq Paths /\ Shaped(t)
    BY DocumentIs DEF AsRead
  <1>3. PICK s : s = Marshal(t)
    OBVIOUS
  <1>4. /\ \A p : p \in DOMAIN s <=> Plain(t, p) \/ \E n : Spelling(t, n, p)
        /\ \A p : Plain(t, p) => s[p] = t[p]
        /\ \A p, n : Spelling(t, n, p) => s[p] = Named(Meant(t, n), t[n].label)[Rest(n, p)]
        /\ s = [p \in DOMAIN s |-> s[p]]
    BY <1>1, <1>3, MarshalIs
  <1>5. ASSUME NEW n \in Numbers(t)
        PROVE  /\ n \in DOMAIN t /\ Spelling(t, n, n) /\ s[n] = t[n]
               /\ \A p : Spelling(t, n, p) => p = n
    <2>1. DOMAIN Meant(t, n) = {<< >>} /\ Meant(t, n)[<< >>].kind = "number" /\ Meant(t, n)[<< >>].value = t[n].value
      BY DEF AsRead, Meant
    <2>2. n \in DOMAIN t /\ n \in Paths /\ t[n].kind = "number"
      BY <1>2 DEF Numbers
    <2>3. n \o << >> = n /\ IsPrefix(n, n) /\ Rest(n, n) = << >>
      BY <2>2, EmptyPath, RootIsPrefix, Joined
    <2>4. Spelling(t, n, n)
      BY <2>1, <2>2, <2>3 DEF Spelling
    <2>5. s[n] = [kind |-> "number", label |-> t[n].label, value |-> t[n].value]
      BY <1>1, <1>4, <2>1, <2>3, <2>4, MeantIsRead, NamedIs
    <2>6. s[n] = t[n]
      BY <1>2, <2>2, <2>5 DEF Shaped
    <2>7. ASSUME NEW p, Spelling(t, n, p) PROVE p = n
      <3>1. Rest(n, p) = << >> /\ p = n \o Rest(n, p)
        BY <2>1, <2>2, <2>7, Split DEF Spelling
      <3> QED
        BY <2>3, <3>1
    <2> QED
      BY <2>2, <2>4, <2>6, <2>7
  <1>6. \A p, n : Spelling(t, n, p) => n \in Numbers(t)
    BY DEF Spelling
  <1>7. \A p : p \in DOMAIN s <=> p \in DOMAIN t
    BY <1>4, <1>5, <1>6 DEF Plain
  <1>8. \A p \in DOMAIN s : s[p] = t[p]
    BY <1>4, <1>5, <1>6, <1>7 DEF Plain
  <1>9. t = [p \in DOMAIN t |-> t[p]]
    BY <1>2 DEF Shaped
  <1> QED
    BY <1>1, <1>3, <1>4, <1>7, <1>8, <1>9, SameFunction

----------------------------------------------------------------------------
(* What Marshal, Subtree and Replace make of each other.                   *)

\* Joining paths is associative.
LEMMA JoinAssoc ==
  ASSUME NEW a \in Paths, NEW b \in Paths, NEW c \in Paths
  PROVE  (a \o b) \o c = a \o (b \o c)
  BY ConcatAssociative DEF Paths

\* What lies under a place, seen from there.
LEMMA RestUnder ==
  ASSUME NEW a \in Paths, NEW b \in Paths, NEW c \in Paths, IsPrefix(b, c)
  PROVE  Rest(a \o b, a \o c) = Rest(b, c)
  <1>1. PICK r \in Paths : r = Rest(b, c) /\ c = b \o r
    BY Split
  <1>2. a \o b \in Paths
    BY Joined
  <1>4. a \o c = (a \o b) \o r
    <2>1. (a \o b) \o r = a \o (b \o r)
      BY JoinAssoc
    <2> QED
      BY <1>1, <2>1
  <1>3. Rest(a \o b, (a \o b) \o r) = r
    BY <1>1, <1>2, Joined
  <1> QED
    BY <1>1, <1>3, <1>4

\* A part of a tree the user may leave is one too, and its numbers are those of the tree.
LEMMA SubtreeHeld ==
  ASSUME NEW t, Held(t), NEW at \in DOMAIN t
  PROVE  /\ Held(Subtree(t, at))
         /\ \A m : m \in Numbers(Subtree(t, at)) <=> m \in Paths /\ at \o m \in Numbers(t)
  <1>1. Document(t) /\ at \in Paths
    BY DocumentIs DEF Held
  <1>2. PICK u : u = Subtree(t, at)
    OBVIOUS
  <1>3. /\ \A q : q \in DOMAIN u <=> q \in Paths /\ at \o q \in DOMAIN t
        /\ \A q \in DOMAIN u : u[q] = t[at \o q]
    BY <1>1, <1>2, SubtreeIs
  <1>4. Document(u)
    BY <1>1, <1>2, SubtreeDocument
  <1>5. \A m : m \in Numbers(u) <=> m \in Paths /\ at \o m \in Numbers(t)
    BY <1>3 DEF Numbers
  <1>6. \A m \in Numbers(u) : u[m].value \in DOMAIN JSONOf
    BY <1>3, <1>5 DEF Held, Numbers
  <1> QED
    BY <1>2, <1>4, <1>5, <1>6 DEF Held

\* To write a part of a tree is to take that part of what is written.
LEMMA MarshalOfSubtree ==
  ASSUME NEW t, Held(t), NEW at \in DOMAIN t
  PROVE  Subtree(Marshal(t), at) = Marshal(Subtree(t, at))
  <1>1. Document(t) /\ at \in Paths
    BY DocumentIs DEF Held
  <1>2. PICK s : s = Marshal(t)
    OBVIOUS
  <1>3. PICK u : u = Subtree(t, at)
    OBVIOUS
  <1>4. /\ \A p : p \in DOMAIN s <=> Plain(t, p) \/ \E n : Spelling(t, n, p)
        /\ \A p : Plain(t, p) => s[p] = t[p]
        /\ \A p, n : Spelling(t, n, p) => s[p] = Named(Meant(t, n), t[n].label)[Rest(n, p)]
    BY <1>2, MarshalIs
  <1>5. /\ \A q : q \in DOMAIN u <=> q \in Paths /\ at \o q \in DOMAIN t
        /\ \A q \in DOMAIN u : u[q] = t[at \o q]
    BY <1>1, <1>3, SubtreeIs
  <1>6. Held(u) /\ \A m : m \in Numbers(u) <=> m \in Paths /\ at \o m \in Numbers(t)
    BY <1>3, SubtreeHeld
  <1>7. PICK v : v = Marshal(u)
    OBVIOUS
  <1>8. /\ \A p : p \in DOMAIN v <=> Plain(u, p) \/ \E n : Spelling(u, n, p)
        /\ \A p : Plain(u, p) => v[p] = u[p]
        /\ \A p, n : Spelling(u, n, p) => v[p] = Named(Meant(u, n), u[n].label)[Rest(n, p)]
        /\ v = [p \in DOMAIN v |-> v[p]]
    BY <1>6, <1>7, MarshalIs
  <1>9. PICK w : w = Subtree(s, at)
    OBVIOUS
  <1>10. /\ \A q : q \in DOMAIN w <=> q \in Paths /\ at \o q \in DOMAIN s
         /\ \A q \in DOMAIN w : w[q] = s[at \o q]
         /\ w = [q \in DOMAIN w |-> w[q]]
    BY <1>1, <1>2, <1>9, MarshalDocument, SubtreeIs
  <1>11. \A q : Plain(u, q) <=> q \in Paths /\ Plain(t, at \o q)
    BY <1>5, <1>6 DEF Plain
  <1>12. ASSUME NEW q \in Paths, NEW m, Spelling(u, m, q)
         PROVE  Spelling(t, at \o m, at \o q) /\ s[at \o q] = v[q]
    <2>1. m \in Paths /\ at \o m \in Numbers(t) /\ m \in DOMAIN u /\ IsPrefix(m, q) /\ Rest(m, q) \in DOMAIN Meant(u, m)
      BY <1>6, <1>12 DEF Spelling, Numbers
    <2>2. u[m] = t[at \o m]
      BY <1>5, <2>1
    <2>3. Meant(u, m) = Meant(t, at \o m) /\ u[m].label = t[at \o m].label
      BY <2>2 DEF Meant
    <2>4. at \o q \in Paths /\ IsPrefix(at \o m, at \o q) /\ Rest(at \o m, at \o q) = Rest(m, q)
      BY <1>1, <2>1, PrefixUnder, RestUnder, Joined
    <2>5. Spelling(t, at \o m, at \o q)
      BY <2>1, <2>3, <2>4 DEF Spelling
    <2>6. PICK n : n = at \o m
      OBVIOUS
    <2>7. s[at \o q] = Named(Meant(t, n), t[n].label)[Rest(n, at \o q)]
      BY <1>4, <2>5, <2>6
    <2>8. v[q] = Named(Meant(u, m), u[m].label)[Rest(m, q)]
      BY <1>8, <1>12
    <2> QED
      BY <2>3, <2>4, <2>5, <2>6, <2>7, <2>8
  <1>13. ASSUME NEW q \in Paths, NEW n, Spelling(t, n, at \o q)
         PROVE  \E m : Spelling(u, m, q)
    <2>1. /\ n \in Numbers(t) /\ n \in DOMAIN t /\ n \in Paths /\ IsPrefix(n, at \o q)
          /\ Rest(n, at \o q) \in DOMAIN Meant(t, n)
      BY <1>1, <1>13, DocumentIs DEF Spelling, Numbers
    <2>2. at \o q \in Paths /\ IsPrefix(at, at \o q)
      BY <1>1, Joined
    <2>3. IsPrefix(at, n)
      <3>1. Len(at) <= Len(n) \/ Len(n) <= Len(at)
        BY <1>1, <2>1, PathLen
      <3>2. IsPrefix(at, n) \/ IsPrefix(n, at)
        BY <1>1, <2>1, <2>2, <3>1, PrefixChain
      <3>3. CASE IsPrefix(n, at)
        <4>1. at = n
          BY <1>1, <2>1, <3>3, NumberIsLeaf
        <4> QED
          BY <1>1, <4>1, PrefixRefl
      <3> QED
        BY <3>2, <3>3
    <2>4. PICK m \in Paths : n = at \o m
      BY <1>1, <2>1, <2>3, Split
    <2>5. IsPrefix(m, q)
      BY <1>1, <2>1, <2>4, PrefixUnder
    <2>6. m \in Numbers(u) /\ m \in DOMAIN u /\ u[m] = t[n]
      BY <1>5, <1>6, <2>1, <2>4
    <2>7. Meant(u, m) = Meant(t, n) /\ Rest(n, at \o q) = Rest(m, q)
      BY <1>1, <2>4, <2>5, <2>6, RestUnder DEF Meant
    <2>8. Spelling(u, m, q)
      BY <2>1, <2>5, <2>6, <2>7 DEF Spelling
    <2> QED
      BY <2>8
  <1>14. \A q : (\E m : Spelling(u, m, q)) => q \in Paths
    BY DEF Spelling
  <1>15. \A q : q \in DOMAIN w <=> q \in DOMAIN v
    BY <1>4, <1>8, <1>10, <1>11, <1>12, <1>13, <1>14
  <1>16. ASSUME NEW q \in DOMAIN w PROVE w[q] = v[q]
    <2>1. q \in Paths /\ w[q] = s[at \o q] /\ q \in DOMAIN v
      BY <1>10, <1>15
    <2>2. CASE Plain(u, q)
      <3>1. Plain(t, at \o q) /\ q \in DOMAIN u
        BY <1>11, <2>2 DEF Plain
      <3> QED
        BY <1>4, <1>5, <1>8, <2>1, <2>2, <3>1
    <2>3. ASSUME NEW m, Spelling(u, m, q) PROVE w[q] = v[q]
      BY <1>12, <2>1, <2>3
    <2> QED
      BY <1>8, <2>1, <2>2, <2>3
  <1> QED
    BY <1>2, <1>3, <1>7, <1>8, <1>9, <1>10, <1>15, <1>16, SameFunction

----------------------------------------------------------------------------
(* Edits.                                                                  *)

\* Two trees that differ under a place at most.
AgreeApart(d, e, at) ==
  \A p \in Paths : ~IsPrefix(at, p) => /\ p \in DOMAIN d <=> p \in DOMAIN e
                                       /\ p \in DOMAIN d => d[p] = e[p]

\* Marshal changes nothing apart from the numbers: trees that agree outside of a node
\* are written the same there.
LEMMA MarshalApart ==
  ASSUME NEW d, Held(d), NEW e, Held(e), NEW at \in Paths, AgreeApart(d, e, at)
  PROVE  AgreeApart(Marshal(d), Marshal(e), at)
  <1>1. DOMAIN d \subseteq Paths /\ DOMAIN e \subseteq Paths
    BY DocumentIs DEF Held
  <1>2. PICK s : s = Marshal(d)
    OBVIOUS
  <1>3. PICK r : r = Marshal(e)
    OBVIOUS
  <1>4. /\ \A p : p \in DOMAIN s <=> Plain(d, p) \/ \E n : Spelling(d, n, p)
        /\ \A p : Plain(d, p) => s[p] = d[p]
        /\ \A p, n : Spelling(d, n, p) => s[p] = Named(Meant(d, n), d[n].label)[Rest(n, p)]
    BY <1>2, MarshalIs
  <1>5. /\ \A p : p \in DOMAIN r <=> Plain(e, p) \/ \E n : Spelling(e, n, p)
        /\ \A p : Plain(e, p) => r[p] = e[p]
        /\ \A p, n : Spelling(e, n, p) => r[p] = Named(Meant(e, n), e[n].label)[Rest(n, p)]
    BY <1>3, MarshalIs
  <1>6. SUFFICES ASSUME NEW p \in Paths, ~IsPrefix(at, p)
                 PROVE  (p \in DOMAIN s <=> p \in DOMAIN r) /\ (p \in DOMAIN s => s[p] = r[p])
    BY <1>2, <1>3 DEF AgreeApart
  <1>7. Plain(d, p) <=> Plain(e, p)
    BY <1>6 DEF AgreeApart, Plain, Numbers
  <1>8. Plain(d, p) => d[p] = e[p]
    BY <1>6 DEF AgreeApart, Plain
  <1>9. ASSUME NEW n, Spelling(d, n, p) \/ Spelling(e, n, p)
        PROVE  Spelling(d, n, p) /\ Spelling(e, n, p) /\ d[n] = e[n]
    <2>1. n \in Paths /\ IsPrefix(n, p)
      BY <1>1, <1>9 DEF Spelling, Numbers
    <2>2. ~IsPrefix(at, n)
      BY <1>6, <2>1, PrefixTrans
    <2>3. (n \in DOMAIN d <=> n \in DOMAIN e) /\ (n \in DOMAIN d => d[n] = e[n])
      BY <2>1, <2>2 DEF AgreeApart
    <2> QED
      BY <1>9, <2>3 DEF Spelling, Numbers, Meant
  <1>10. \A n : Spelling(d, n, p) => Meant(d, n) = Meant(e, n) /\ d[n].label = e[n].label
    BY <1>9 DEF Meant
  <1>11. ASSUME NEW n, Spelling(d, n, p) PROVE s[p] = r[p]
    <2>1. Spelling(e, n, p) /\ Meant(d, n) = Meant(e, n) /\ d[n].label = e[n].label
      BY <1>9, <1>10, <1>11
    <2>2. s[p] = Named(Meant(d, n), d[n].label)[Rest(n, p)]
      BY <1>4, <1>11
    <2>3. r[p] = Named(Meant(e, n), e[n].label)[Rest(n, p)]
      BY <1>5, <2>1
    <2> QED
      BY <2>1, <2>2, <2>3
  <1>12. Plain(d, p) => s[p] = r[p]
    BY <1>4, <1>5, <1>7, <1>8
  <1> QED
    BY <1>4, <1>5, <1>7, <1>9, <1>11, <1>12

\* The label of a node is written as it is.
LEMMA MarshalLabel ==
  ASSUME NEW t, Held(t), NEW at \in DOMAIN t
  PROVE  at \in DOMAIN Marshal(t) /\ Marshal(t)[at].label = t[at].label
  <1>1. PICK s : s = Marshal(t)
    OBVIOUS
  <1>2. /\ \A p : p \in DOMAIN s <=> Plain(t, p) \/ \E n : Spelling(t, n, p)
        /\ \A p : Plain(t, p) => s[p] = t[p]
        /\ \A p, n : Spelling(t, n, p) => s[p] = Named(Meant(t, n), t[n].label)[Rest(n, p)]
    BY <1>1, MarshalIs
  <1>3. CASE Plain(t, at)
    BY <1>1, <1>2, <1>3
  <1>4. CASE at \in Numbers(t)
    <2>1. at \in Paths
      BY DocumentIs DEF Held
    <2>2. IsPrefix(at, at) /\ Rest(at, at) = << >>
      BY <2>1, EmptyPath, RootIsPrefix, Joined
    <2>3. PICK m, l : m = Meant(t, at) /\ l = t[at].label
      OBVIOUS
    <2>4. Document(m)
      BY <1>4, <2>3, MeantIsRead
    <2>5. << >> \in DOMAIN m /\ Named(m, l)[<< >>].label = l
      <3>1. << >> \in DOMAIN m
        BY <2>4, DocumentIs
      <3>2. Named(m, l)[<< >>] = [kind |-> m[<< >>].kind, label |-> l, value |-> m[<< >>].value]
        BY <2>4, NamedIs
      <3> QED
        BY <3>1, <3>2
    <2>6. Spelling(t, at, at)
      BY <1>4, <2>1, <2>2, <2>3, <2>5 DEF Spelling
    <2>7. s[at] = Named(m, l)[<< >>]
      BY <1>2, <2>2, <2>3, <2>6
    <2> QED
      BY <1>1, <1>2, <2>3, <2>5, <2>6, <2>7
  <1> QED
    BY <1>3, <1>4 DEF Plain

\* What is written for a place, put into what was written before, is what the
\* edited tree is written as.
LEMMA PutIntoPlace ==
  ASSUME NEW d, Held(d), NEW e, Held(e), NEW top \in DOMAIN d, top \in DOMAIN e,
         AgreeApart(d, e, top), d[top].label = e[top].label
  PROVE  Replace(Marshal(d), top, Marshal(Subtree(e, top))) = Marshal(e)
  <1>1. PICK s : s = Marshal(d)
    OBVIOUS
  <1>2. PICK r : r = Marshal(e)
    OBVIOUS
  <1>3. PICK w : w = Marshal(Subtree(e, top))
    OBVIOUS
  <1>4. top \in Paths /\ Document(s) /\ Document(r) /\ top \in DOMAIN s /\ s[top].label = e[top].label
    BY <1>1, <1>2, MarshalDocument, MarshalLabel, DocumentIs DEF Held
  <1>5. w = Subtree(r, top)
    BY <1>2, <1>3, MarshalOfSubtree
  <1>6. /\ \A q : q \in DOMAIN w <=> q \in Paths /\ top \o q \in DOMAIN r
        /\ \A q \in DOMAIN w : w[q] = r[top \o q]
    BY <1>4, <1>5, SubtreeIs
  <1>7. top \in DOMAIN r /\ r[top].label = e[top].label
    BY <1>2, MarshalLabel
  <1>8. Document(w)
    BY <1>4, <1>5, <1>7, SubtreeDocument
  <1>9. << >> \in DOMAIN w /\ w[<< >>].label = s[top].label
    BY <1>4, <1>6, <1>7, EmptyPath, RootIsPrefix
  <1>10. \A q \in DOMAIN w : Named(w, s[top].label)[q] = w[q]
    <2>1. PICK l : l = s[top].label
      OBVIOUS
    <2>2. w[<< >>] = [kind |-> w[<< >>].kind, label |-> w[<< >>].label, value |-> w[<< >>].value]
      BY <1>8, <1>9, DocumentIs DEF Shaped
    <2>3. Named(w, l)[<< >>] = [kind |-> w[<< >>].kind, label |-> l, value |-> w[<< >>].value]
      BY <1>8, NamedIs
    <2>4. \A q \in DOMAIN w : q # << >> => Named(w, l)[q] = w[q]
      BY <1>8, NamedAt
    <2> QED
      BY <1>9, <2>1, <2>2, <2>3, <2>4
  <1>11. PICK x : x = Replace(s, top, w)
    OBVIOUS
  <1>12. /\ \A p : p \in DOMAIN x <=> ReplacedAt(s, top, w, p)
         /\ \A p \in DOMAIN x : x[p] = IF IsPrefix(top, p) THEN Named(w, s[top].label)[Rest(top, p)] ELSE s[p]
         /\ x = [p \in DOMAIN x |-> x[p]]
    BY <1>4, <1>8, <1>11, ReplaceIs
  <1>13. AgreeApart(s, r, top)
    BY <1>1, <1>2, <1>4, MarshalApart
  <1>14. DOMAIN s \subseteq Paths /\ DOMAIN r \subseteq Paths /\ r = [p \in DOMAIN r |-> r[p]]
    BY <1>4, DocumentIs DEF Shaped
  <1>15. ASSUME NEW p \in Paths, IsPrefix(top, p)
         PROVE  (p \in DOMAIN x <=> p \in DOMAIN r) /\ (p \in DOMAIN x => x[p] = r[p])
    <2>1. PICK q \in Paths : q = Rest(top, p) /\ p = top \o q
      BY <1>4, <1>15, Split
    <2>2. p \in DOMAIN x <=> q \in DOMAIN w
      BY <1>12, <1>15, <2>1 DEF ReplacedAt
    <2>3. p \in DOMAIN x => x[p] = w[q]
      BY <1>10, <1>12, <1>15, <2>1, <2>2
    <2> QED
      BY <1>6, <2>1, <2>2, <2>3
  <1>16. ASSUME NEW p \in Paths, ~IsPrefix(top, p)
         PROVE  (p \in DOMAIN x <=> p \in DOMAIN r) /\ (p \in DOMAIN x => x[p] = r[p])
    BY <1>12, <1>13, <1>16 DEF AgreeApart, ReplacedAt
  <1>17. DOMAIN x \subseteq Paths
    BY <1>12, <1>14 DEF ReplacedAt
  <1>18. \A p : p \in DOMAIN x <=> p \in DOMAIN r
    BY <1>14, <1>15, <1>16, <1>17
  <1>19. \A p \in DOMAIN x : x[p] = r[p]
    BY <1>15, <1>16, <1>17
  <1>20. x = r
    BY <1>12, <1>14, <1>18, <1>19, SameFunction
  <1> QED
    BY <1>1, <1>2, <1>3, <1>11, <1>20

\* A part that lies apart from a place is the same in both.
LEMMA SubtreeApart ==
  ASSUME NEW d, Document(d), NEW e, Document(e), NEW at \in Paths, AgreeApart(d, e, at),
         NEW b \in Paths, ~IsPrefix(at, b), ~IsPrefix(b, at)
  PROVE  Subtree(d, b) = Subtree(e, b)
  <1>1. PICK u : u = Subtree(d, b)
    OBVIOUS
  <1>2. PICK v : v = Subtree(e, b)
    OBVIOUS
  <1>3. /\ \A q : q \in DOMAIN u <=> q \in Paths /\ b \o q \in DOMAIN d
        /\ \A q \in DOMAIN u : u[q] = d[b \o q]
        /\ u = [q \in DOMAIN u |-> u[q]]
    BY <1>1, SubtreeIs
  <1>4. /\ \A q : q \in DOMAIN v <=> q \in Paths /\ b \o q \in DOMAIN e
        /\ \A q \in DOMAIN v : v[q] = e[b \o q]
        /\ v = [q \in DOMAIN v |-> v[q]]
    BY <1>2, SubtreeIs
  <1>5. ASSUME NEW q \in Paths PROVE b \o q \in Paths /\ ~IsPrefix(at, b \o q)
    <2>1. b \o q \in Paths /\ IsPrefix(b, b \o q)
      BY Joined
    <2>2. Len(at) <= Len(b) \/ Len(b) <= Len(at)
      BY PathLen
    <2> QED
      BY <2>1, <2>2, PrefixChain
  <1>6. ASSUME NEW q \in Paths
        PROVE  (q \in DOMAIN u <=> q \in DOMAIN v) /\ (q \in DOMAIN u => u[q] = v[q])
    <2>1. PICK p : p = b \o q
      OBVIOUS
    <2>2. p \in Paths /\ ~IsPrefix(at, p)
      BY <1>5, <2>1
    <2>3. (p \in DOMAIN d <=> p \in DOMAIN e) /\ (p \in DOMAIN d => d[p] = e[p])
      BY <2>2 DEF AgreeApart
    <2> QED
      BY <1>3, <1>4, <2>1, <2>3
  <1>7. \A q : q \in DOMAIN u <=> q \in DOMAIN v
    BY <1>3, <1>4, <1>6
  <1>8. \A q \in DOMAIN u : u[q] = v[q]
    BY <1>3, <1>6
  <1> QED
    BY <1>1, <1>2, <1>3, <1>4, <1>7, <1>8, SameFunction

----------------------------------------------------------------------------
(* The order of a walk.                                                    *)

\* The least element of a set of numbers, and induction from it.
LEMMA LeastNat ==
  ASSUME NEW T, T \subseteq Nat, T # {}
  PROVE  \E x \in T : \A y \in T : x <= y
  <1>1. IsWellFoundedOn({p \in Nat \X Nat : p[1] < p[2]}, Nat)
    BY NatLessThanWellFounded DEF OpToRel
  <1>2. PICK x \in T : \A y \in T : <<y, x>> \notin {p \in Nat \X Nat : p[1] < p[2]}
    BY <1>1, WFMin
  <1>3. ASSUME NEW y \in T PROVE x <= y
    <2>1. <<y, x>> \in Nat \X Nat /\ ~(y < x)
      BY <1>2
    <2> QED
      BY <2>1
  <1> QED
    BY <1>3

LEMMA NatInduct ==
  ASSUME NEW S, 0 \in S, \A n \in Nat : n \in S => n + 1 \in S
  PROVE  Nat \subseteq S
  <1> SUFFICES ASSUME Nat \ S # {} PROVE FALSE
    OBVIOUS
  <1>1. PICK x \in Nat \ S : \A y \in Nat \ S : x <= y
    BY LeastNat
  <1>2. x # 0 /\ x - 1 \in Nat
    BY <1>1
  <1>3. x - 1 \in S
    BY <1>1, <1>2
  <1> QED
    BY <1>2, <1>3

----------------------------------------------------------------------------
(* The order of the tree.                                                  *)

\* Two paths part at a place where the first goes further left.
LeftOf(p, q, i) ==
  i \in 1 .. Len(p) /\ i \in 1 .. Len(q) /\ p[i] < q[i] /\ \A j \in 1 .. i - 1 : p[j] = q[j]

\* Before is the order of a walk: a prefix first, else the first place that differs.
LEMMA BeforePoints ==
  ASSUME NEW p \in Paths, NEW q \in Paths
  PROVE  Before(p, q) <=> (IsPrefix(p, q) /\ p # q) \/ \E i \in Nat : LeftOf(p, q, i)
  <1>1. DOMAIN p = 1 .. Len(p) /\ DOMAIN q = 1 .. Len(q) /\ Len(p) \in Nat /\ Len(q) \in Nat
    BY DEF Paths
  <1>2. (\E i \in DOMAIN p \cap DOMAIN q : p[i] < q[i] /\ \A j \in 1 .. i - 1 : p[j] = q[j])
          <=> \E i \in Nat : LeftOf(p, q, i)
    BY <1>1 DEF LeftOf
  <1> QED
    BY <1>2 DEF Before, IsStrictPrefix

LEMMA PartsAreNumbers ==
  ASSUME NEW p \in Paths, NEW i \in 1 .. Len(p)
  PROVE  p[i] \in Nat
  BY DEF Paths

\* Before is a strict total order on paths.
LEMMA BeforeIrreflexive ==
  ASSUME NEW p \in Paths
  PROVE  ~Before(p, p)
  <1>1. \A i \in Nat : ~LeftOf(p, p, i)
    BY PartsAreNumbers DEF LeftOf
  <1> QED
    BY <1>1, BeforePoints

LEMMA BeforeTotal ==
  ASSUME NEW p \in Paths, NEW q \in Paths, p # q
  PROVE  Before(p, q) \/ Before(q, p)
  <1>1. PICK T : T = {i \in 1 .. Len(p) : i <= Len(q) /\ p[i] # q[i]}
    OBVIOUS
  <1>2. Len(p) \in Nat /\ Len(q) \in Nat
    BY PathLen
  <1>3. CASE T = {}
    <2>1. \A i \in 1 .. Len(p) : i <= Len(q) => p[i] = q[i]
      BY <1>1, <1>3
    <2>2. CASE Len(p) <= Len(q)
      <3>1. \A i \in 1 .. Len(p) : p[i] = q[i]
        BY <1>2, <2>1, <2>2
      <3> QED
        BY <2>2, <3>1, PrefixPoints, BeforePoints
    <2>3. CASE Len(q) <= Len(p)
      <3>1. \A i \in 1 .. Len(q) : q[i] = p[i]
        BY <1>2, <2>1, <2>3
      <3> QED
        BY <2>3, <3>1, PrefixPoints, BeforePoints
    <2> QED
      BY <1>2, <2>2, <2>3
  <1>4. CASE T # {}
    <2>1. T \subseteq Nat
      BY <1>1
    <2>2. PICK x \in T : \A y \in T : x <= y
      BY <1>4, <2>1, LeastNat
    <2>3. x \in 1 .. Len(p) /\ x \in 1 .. Len(q) /\ p[x] # q[x]
      BY <1>1, <1>2, <2>2
    <2>4. ASSUME NEW j \in 1 .. x - 1 PROVE p[j] = q[j]
      <3>1. j \in 1 .. Len(p) /\ j <= Len(q) /\ ~(x <= j)
        BY <1>2, <2>3
      <3> QED
        BY <1>1, <2>2, <3>1
    <2>5. p[x] \in Nat /\ q[x] \in Nat
      BY <2>3, PartsAreNumbers
    <2>6. p[x] < q[x] \/ q[x] < p[x]
      BY <2>3, <2>5
    <2>7. LeftOf(p, q, x) \/ LeftOf(q, p, x)
      BY <2>3, <2>4, <2>6 DEF LeftOf
    <2> QED
      BY <2>1, <2>2, <2>7, BeforePoints
  <1> QED
    BY <1>3, <1>4

LEMMA BeforeTransitive ==
  ASSUME NEW p \in Paths, NEW q \in Paths, NEW r \in Paths, Before(p, q), Before(q, r)
  PROVE  Before(p, r)
  <1>1. Len(p) \in Nat /\ Len(q) \in Nat /\ Len(r) \in Nat
    BY PathLen
  <1>2. CASE IsPrefix(p, q) /\ p # q /\ IsPrefix(q, r) /\ q # r
    <2>1. IsPrefix(p, r)
      BY <1>2, PrefixTrans
    <2>2. p # r
      <3> SUFFICES ASSUME p = r PROVE FALSE
        OBVIOUS
      <3>1. Len(q) <= Len(p)
        BY <1>2, PrefixPoints
      <3> QED
        BY <1>1, <1>2, <3>1, PrefixAnti
    <2> QED
      BY <2>1, <2>2, BeforePoints
  <1>3. ASSUME IsPrefix(p, q), NEW i \in Nat, LeftOf(q, r, i) PROVE Before(p, r)
    <2>1. Len(p) <= Len(q) /\ \A j \in 1 .. Len(p) : p[j] = q[j]
      BY <1>3, PrefixPoints
    <2>2. i \in 1 .. Len(q) /\ i \in 1 .. Len(r) /\ q[i] < r[i] /\ \A j \in 1 .. i - 1 : q[j] = r[j]
      BY <1>3 DEF LeftOf
    <2>3. CASE i <= Len(p)
      <3>1. i \in 1 .. Len(p) /\ p[i] < r[i] /\ \A j \in 1 .. i - 1 : p[j] = r[j]
        BY <1>1, <2>1, <2>2, <2>3
      <3>2. LeftOf(p, r, i)
        BY <2>2, <3>1 DEF LeftOf
      <3> QED
        BY <3>2, BeforePoints
    <2>4. CASE ~(i <= Len(p))
      <3>1. Len(p) <= Len(r) /\ Len(p) # Len(r) /\ \A j \in 1 .. Len(p) : p[j] = r[j]
        BY <1>1, <2>1, <2>2, <2>4
      <3>2. IsPrefix(p, r) /\ p # r
        BY <3>1, PrefixPoints
      <3> QED
        BY <3>2, BeforePoints
    <2> QED
      BY <2>3, <2>4
  <1>4. ASSUME NEW i \in Nat, LeftOf(p, q, i), IsPrefix(q, r) PROVE Before(p, r)
    <2>1. Len(q) <= Len(r) /\ \A j \in 1 .. Len(q) : q[j] = r[j]
      BY <1>4, PrefixPoints
    <2>2. i \in 1 .. Len(p) /\ i \in 1 .. Len(q) /\ p[i] < q[i] /\ \A j \in 1 .. i - 1 : p[j] = q[j]
      BY <1>4 DEF LeftOf
    <2>3. i \in 1 .. Len(r) /\ p[i] < r[i] /\ \A j \in 1 .. i - 1 : p[j] = r[j]
      BY <1>1, <2>1, <2>2
    <2>4. LeftOf(p, r, i)
      BY <2>2, <2>3 DEF LeftOf
    <2> QED
      BY <2>4, BeforePoints
  <1>5. ASSUME NEW i \in Nat, LeftOf(p, q, i), NEW k \in Nat, LeftOf(q, r, k) PROVE Before(p, r)
    <2>1. i \in 1 .. Len(p) /\ i \in 1 .. Len(q) /\ p[i] < q[i] /\ \A j \in 1 .. i - 1 : p[j] = q[j]
      BY <1>5 DEF LeftOf
    <2>2. k \in 1 .. Len(q) /\ k \in 1 .. Len(r) /\ q[k] < r[k] /\ \A j \in 1 .. k - 1 : q[j] = r[j]
      BY <1>5 DEF LeftOf
    <2>3. CASE i < k
      <3>1. i \in 1 .. Len(r) /\ p[i] < r[i] /\ \A j \in 1 .. i - 1 : p[j] = r[j]
        BY <1>1, <2>1, <2>2, <2>3
      <3>2. LeftOf(p, r, i)
        BY <2>1, <3>1 DEF LeftOf
      <3> QED
        BY <3>2, BeforePoints
    <2>4. CASE k < i
      <3>1. k \in 1 .. Len(p) /\ p[k] < r[k] /\ \A j \in 1 .. k - 1 : p[j] = r[j]
        BY <1>1, <2>1, <2>2, <2>4
      <3>2. LeftOf(p, r, k)
        BY <2>2, <3>1 DEF LeftOf
      <3> QED
        BY <3>2, BeforePoints
    <2>5. CASE i = k
      <3>1. p[i] \in Nat /\ q[i] \in Nat /\ r[i] \in Nat
        BY <2>1, <2>2, <2>5, PartsAreNumbers
      <3>2. p[i] < r[i] /\ \A j \in 1 .. i - 1 : p[j] = r[j]
        BY <2>1, <2>2, <2>5, <3>1
      <3>3. LeftOf(p, r, i)
        BY <2>1, <2>2, <2>5, <3>2 DEF LeftOf
      <3> QED
        BY <3>3, BeforePoints
    <2> QED
      BY <2>3, <2>4, <2>5
  <1> QED
    BY <1>2, <1>3, <1>4, <1>5, BeforePoints

\* How many of a set come before a path.
RankIn(S, p) == Cardinality({q \in S : Before(q, p)})

\* The ranks in a set of paths grow along the order, from 0 to the size less one.
LEMMA RankGrows ==
  ASSUME NEW S, IsFiniteSet(S), S \subseteq Paths, NEW p \in S, NEW q \in S, Before(p, q)
  PROVE  RankIn(S, p) \in Nat /\ RankIn(S, q) \in Nat /\ RankIn(S, p) < RankIn(S, q)
  <1>1. PICK A : A = {x \in S : Before(x, p)}
    OBVIOUS
  <1>2. PICK B : B = {x \in S : Before(x, q)}
    OBVIOUS
  <1>3. A \subseteq B
    BY <1>1, <1>2, BeforeTransitive
  <1>4. p \in B /\ p \notin A
    BY <1>1, <1>2, BeforeIrreflexive
  <1>5. IsFiniteSet(B)
    BY <1>2, FS_Subset
  <1>6. IsFiniteSet(A) /\ Cardinality(A) \in Nat /\ Cardinality(B) \in Nat /\ Cardinality(A) <= Cardinality(B)
        /\ (Cardinality(A) = Cardinality(B) => A = B)
    BY <1>3, <1>5, FS_Subset, FS_CardinalityType
  <1>7. Cardinality(A) < Cardinality(B)
    BY <1>4, <1>6
  <1> QED
    BY <1>1, <1>2, <1>6, <1>7 DEF RankIn

LEMMA RankRange ==
  ASSUME NEW S, IsFiniteSet(S), S \subseteq Paths, NEW p \in S
  PROVE  Cardinality(S) \in Nat /\ RankIn(S, p) \in 0 .. Cardinality(S) - 1
  <1>1. PICK A : A = {x \in S : Before(x, p)}
    OBVIOUS
  <1>2. A \subseteq S /\ p \notin A
    BY <1>1, BeforeIrreflexive
  <1>3. Cardinality(S) \in Nat /\ Cardinality(A) \in Nat /\ Cardinality(A) <= Cardinality(S)
        /\ (Cardinality(A) = Cardinality(S) => A = S)
    BY <1>2, FS_Subset, FS_CardinalityType
  <1>4. Cardinality(A) \in 0 .. Cardinality(S) - 1
    BY <1>2, <1>3
  <1> QED
    BY <1>1, <1>3, <1>4 DEF RankIn

\* Every place of the order is taken by one path.
LEMMA InOrderIs ==
  ASSUME NEW S, IsFiniteSet(S), S \subseteq Paths
  PROVE  /\ Cardinality(S) \in Nat /\ DOMAIN InOrder(S) = 1 .. Cardinality(S)
         /\ InOrder(S) \in Seq(S) /\ Len(InOrder(S)) = Cardinality(S)
         /\ \A i \in 1 .. Cardinality(S) : InOrder(S)[i] \in S /\ RankIn(S, InOrder(S)[i]) = i - 1
         /\ \A p \in S : \E i \in 1 .. Cardinality(S) : InOrder(S)[i] = p
  <1>1. PICK n : n = Cardinality(S)
    OBVIOUS
  <1>2. n \in Nat
    BY <1>1, FS_CardinalityType
  <1>3. PICK f : f = [p \in S |-> RankIn(S, p) + 1]
    OBVIOUS
  <1>4. \A p \in S : f[p] = RankIn(S, p) + 1 /\ RankIn(S, p) \in 0 .. n - 1
    BY <1>1, <1>3, RankRange
  <1>5. \A p \in S, q \in S : f[p] = f[q] => p = q
    <2> SUFFICES ASSUME NEW p \in S, NEW q \in S, p # q PROVE f[p] # f[q]
      OBVIOUS
    <2>1. Before(p, q) \/ Before(q, p)
      BY BeforeTotal
    <2>2. CASE Before(p, q)
      <3>1. RankIn(S, p) < RankIn(S, q)
        BY <2>2, RankGrows
      <3> QED
        BY <1>4, <3>1
    <2>3. CASE Before(q, p)
      <3>1. RankIn(S, q) < RankIn(S, p)
        BY <2>3, RankGrows
      <3> QED
        BY <1>4, <3>1
    <2> QED
      BY <2>1, <2>2, <2>3
  <1>6. f \in [S -> 1 .. n]
    BY <1>2, <1>3, <1>4
  <1>7. f \in Injection(S, 1 .. n)
    BY <1>5, <1>6 DEF Injection, IsInjective
  <1>8. IsFiniteSet(1 .. n) /\ Cardinality(1 .. n) = n
    BY <1>2, FS_Interval
  <1>9. f \in Surjection(S, 1 .. n)
    BY <1>1, <1>7, <1>8, FS_Injection
  <1>10. \A i \in 1 .. n : \E p \in S : RankIn(S, p) = i - 1
    <2> SUFFICES ASSUME NEW i \in 1 .. n PROVE \E p \in S : RankIn(S, p) = i - 1
      OBVIOUS
    <2>1. PICK p \in S : f[p] = i
      BY <1>9 DEF Surjection
    <2> QED
      BY <1>4, <2>1
  <1>11. PICK rank : rank = [p \in S |-> Cardinality({q \in S : Before(q, p)})]
    OBVIOUS
  <1>12. \A p \in S : rank[p] = RankIn(S, p)
    BY <1>11 DEF RankIn
  <1>13. PICK s : s = [i \in 1 .. n |-> CHOOSE p \in S : rank[p] = i - 1]
    OBVIOUS
  <1>14. InOrder(S) = s
    BY <1>1, <1>11, <1>13 DEF InOrder
  <1>15. \A i \in 1 .. n : s[i] \in S /\ rank[s[i]] = i - 1
    <2> SUFFICES ASSUME NEW i \in 1 .. n PROVE s[i] \in S /\ rank[s[i]] = i - 1
      OBVIOUS
    <2>1. \E p \in S : rank[p] = i - 1
      BY <1>10, <1>12
    <2>2. s[i] = CHOOSE p \in S : rank[p] = i - 1
      BY <1>13
    <2> QED
      BY <2>1, <2>2
  <1>16. ASSUME NEW p \in S PROVE \E i \in 1 .. n : s[i] = p
    <2>1. f[p] \in 1 .. n /\ f[p] - 1 = RankIn(S, p)
      BY <1>2, <1>4
    <2>2. PICK i : i = f[p]
      OBVIOUS
    <2>3. s[i] \in S /\ RankIn(S, s[i]) = RankIn(S, p)
      BY <1>12, <1>15, <2>1, <2>2
    <2>4. f[s[i]] = f[p]
      BY <1>4, <2>3
    <2> QED
      BY <1>5, <2>1, <2>2, <2>3, <2>4
  <1>17. DOMAIN s = 1 .. n /\ s \in Seq(S) /\ Len(s) = n
    <2>1. s \in [1 .. n -> S]
      BY <1>13, <1>15
    <2> QED
      BY <1>2, <1>13, <2>1
  <1> QED
    BY <1>1, <1>2, <1>12, <1>14, <1>15, <1>16, <1>17

----------------------------------------------------------------------------
(* The rows of a page, and the jump to a match.                            *)

IsPage(p) ==
  p = [doc |-> p.doc, flags |-> p.flags, rows |-> p.rows, term |-> p.term, pos |-> p.pos, count |-> p.count]
IsRow(r) == r = [at |-> r.at, branch |-> r.branch, linked |-> r.linked] /\ r.linked \in BOOLEAN
GoodRows(p) ==
  \A i \in DOMAIN p.rows : IsRow(p.rows[i]) /\ (p.rows[i].linked => p.rows[i].at \in DOMAIN p.doc \ {<< >>})
GoodPage(p) == IsPage(p) /\ Held(p.doc) /\ p.pos \in Nat /\ p.count \in Nat /\ GoodRows(p)
Shown(p) == GoodPage(p) /\ p.rows = RowsOf(p.doc, p.flags)

OpenNodes(t, f) == {p \in DOMAIN t \ {<< >>} : \A q \in Ancestors(p) : Descended(t, f, q)}
Matching(t, term) ==
  {p \in DOMAIN t \ {<< >>} : t[p].label = term \/ (~IsBranch(t, p) /\ t[p].value = term)}

\* The rows of a page are its open nodes, each once.
LEMMA RowsAre ==
  ASSUME NEW t, Document(t), NEW f
  PROVE  /\ \A i \in DOMAIN RowsOf(t, f) : /\ RowsOf(t, f)[i].at \in OpenNodes(t, f)
                                           /\ IsRow(RowsOf(t, f)[i])
         /\ \A p \in OpenNodes(t, f) : \E i \in DOMAIN RowsOf(t, f) : RowsOf(t, f)[i].at = p
         /\ DOMAIN RowsOf(t, f) \subseteq Nat \ {0} /\ RowsOf(t, f) \in Seq(Range(RowsOf(t, f)))
  <1>1. PICK S : S = OpenNodes(t, f)
    OBVIOUS
  <1>2. IsFiniteSet(S) /\ S \subseteq Paths
    <2>1. IsFiniteSet(DOMAIN t) /\ DOMAIN t \subseteq Paths /\ S \subseteq DOMAIN t
      BY <1>1, DocumentIs DEF OpenNodes
    <2> QED
      BY <2>1, FS_Subset
  <1>3. PICK s : s = InOrder(S)
    OBVIOUS
  <1>4. /\ Cardinality(S) \in Nat /\ DOMAIN s = 1 .. Cardinality(S)
        /\ \A i \in 1 .. Cardinality(S) : s[i] \in S
        /\ \A p \in S : \E i \in 1 .. Cardinality(S) : s[i] = p
    BY <1>2, <1>3, InOrderIs
  <1>5. RowsOf(t, f) = [i \in DOMAIN s |-> [at |-> s[i], branch |-> IsBranch(t, s[i]), linked |-> TRUE]]
    BY <1>1, <1>3 DEF RowsOf, Rows, OpenNodes
  <1>6. PICK r : r = RowsOf(t, f)
    OBVIOUS
  <1>7. /\ DOMAIN r = 1 .. Cardinality(S)
        /\ \A i \in DOMAIN r : r[i].at = s[i] /\ IsRow(r[i])
    <2>1. DOMAIN r = 1 .. Cardinality(S)
      BY <1>4, <1>5, <1>6
    <2>2. ASSUME NEW i \in DOMAIN r PROVE r[i].at = s[i] /\ IsRow(r[i])
      <3>1. PICK b : b = IsBranch(t, s[i])
        OBVIOUS
      <3>2. r[i] = [at |-> s[i], branch |-> b, linked |-> TRUE]
        BY <1>4, <1>5, <1>6, <2>1, <2>2, <3>1
      <3> QED
        BY <3>2 DEF IsRow
    <2> QED
      BY <2>1, <2>2
  <1>8. r \in Seq(Range(r))
    <2>1. r \in [1 .. Cardinality(S) -> Range(r)]
      BY <1>5, <1>6, <1>7 DEF Range
    <2> QED
      BY <1>4, <2>1
  <1>9. DOMAIN r \subseteq Nat \ {0}
    BY <1>4, <1>7
  <1> QED
    BY <1>1, <1>4, <1>6, <1>7, <1>8, <1>9

\* Render makes a page whose rows show its tree.
LEMMA RenderShows ==
  ASSUME NEW p, IsPage(p), Held(p.doc), p.pos \in Nat, p.count \in Nat
  PROVE  /\ Shown(Render(p))
         /\ Render(p).doc = p.doc /\ Render(p).flags = p.flags /\ Render(p).term = p.term
         /\ Render(p).pos = p.pos /\ Render(p).count = p.count
  <1>1. PICK r : r = RowsOf(p.doc, p.flags)
    OBVIOUS
  <1>2. \A i \in DOMAIN r : IsRow(r[i]) /\ r[i].at \in DOMAIN p.doc \ {<< >>}
    BY <1>1, RowsAre DEF OpenNodes, Held
  <1>3. PICK s : s = Render(p)
    OBVIOUS
  <1>4. s = [doc |-> p.doc, flags |-> p.flags, rows |-> r, term |-> p.term, pos |-> p.pos, count |-> p.count]
    BY <1>1, <1>3 DEF Render, IsPage
  <1>5. /\ s.doc = p.doc /\ s.flags = p.flags /\ s.rows = r /\ s.term = p.term
        /\ s.pos = p.pos /\ s.count = p.count /\ IsPage(s)
    BY <1>4 DEF IsPage
  <1>6. GoodRows(s)
    BY <1>2, <1>5 DEF GoodRows
  <1> QED
    BY <1>1, <1>3, <1>5, <1>6 DEF Shown, GoodPage

\* The matches are nodes below the root.
LEMMA MatchesAre ==
  ASSUME NEW t, Document(t), NEW term
  PROVE  /\ Len(CollectMatches(t, term)) \in Nat
         /\ CollectMatches(t, term) # << >> => Len(CollectMatches(t, term)) > 0
         /\ \A i \in 1 .. Len(CollectMatches(t, term)) : CollectMatches(t, term)[i] \in DOMAIN t \ {<< >>}
  <1>1. PICK S : S = Matching(t, term)
    OBVIOUS
  <1>2. IsFiniteSet(S) /\ S \subseteq Paths /\ S \subseteq DOMAIN t \ {<< >>}
    <2>1. IsFiniteSet(DOMAIN t) /\ DOMAIN t \subseteq Paths /\ S \subseteq DOMAIN t \ {<< >>}
      BY <1>1, DocumentIs DEF Matching
    <2> QED
      BY <2>1, FS_Subset
  <1>3. PICK s : s = InOrder(S)
    OBVIOUS
  <1>4. /\ Cardinality(S) \in Nat /\ s \in Seq(S) /\ Len(s) = Cardinality(S)
        /\ \A i \in 1 .. Cardinality(S) : s[i] \in S
    BY <1>2, <1>3, InOrderIs
  <1>5. s # << >> => Len(s) > 0
    BY <1>4
  <1>6. CollectMatches(t, term) = s
    BY <1>1, <1>3 DEF CollectMatches, Matching
  <1> QED
    BY <1>2, <1>4, <1>5, <1>6

\* The way to a node is opened.
LEMMA WayIsOpen ==
  ASSUME NEW t, Document(t), NEW f, NEW m \in DOMAIN t \ {<< >>}
  PROVE  m \in OpenNodes(t, ExpandTo(t, f, m))
  <1>1. m \in Paths /\ DOMAIN t \subseteq Paths
    BY DocumentIs
  <1>2. ASSUME NEW q \in Ancestors(m) PROVE Descended(t, ExpandTo(t, f, m), q)
    <2>1. PICK n \in 1 .. Len(m) - 1 : q = SubSeq(m, 1, n)
      BY <1>2 DEF Ancestors
    <2>2. n \in 0 .. Len(m) - 1
      BY <2>1
    <2>3. q \in DOMAIN t
      BY <2>1, <2>2 DEF Document
    <2>4. ExpandTo(t, f, m)[q] = [expanded |-> TRUE, inline |-> FALSE]
      BY <1>2, <2>3 DEF ExpandTo
    <2> QED
      BY <2>4 DEF Descended
  <1> QED
    BY <1>2 DEF OpenNodes

\* After findJump the page shows its tree, and the cursor is on the current match.
LEMMA FindJumpShows ==
  ASSUME NEW p, IsPage(p), Held(p.doc), p.pos \in Nat, FindJump(p)
  PROVE  /\ Shown(page') /\ page'.doc = p.doc /\ page'.term = p.term
         /\ cursor' \in Nat
         /\ CollectMatches(p.doc, p.term) # << >> =>
              page'.rows[cursor'].at = CollectMatches(p.doc, p.term)[page'.pos + 1]
  <1>1. PICK t, term : t = p.doc /\ term = p.term
    OBVIOUS
  <1>2. PICK matches : matches = CollectMatches(t, term)
    OBVIOUS
  <1>3. /\ Document(t) /\ Len(matches) \in Nat /\ (matches # << >> => Len(matches) > 0)
        /\ \A i \in 1 .. Len(matches) : matches[i] \in DOMAIN t \ {<< >>}
    BY <1>1, <1>2, MatchesAre DEF Held
  <1>4. PICK at : at = IF p.pos >= Len(matches) THEN 0 ELSE p.pos
    OBVIOUS
  <1>5. at \in Nat /\ (matches # << >> => at + 1 \in 1 .. Len(matches))
    BY <1>3, <1>4
  <1>6. PICK counted : counted = [p EXCEPT !.count = Len(matches), !.pos = at]
    OBVIOUS
  <1>7. counted = [doc |-> p.doc, flags |-> p.flags, rows |-> p.rows, term |-> p.term,
                   pos |-> at, count |-> Len(matches)]
    BY <1>6 DEF IsPage
  <1>8. /\ IsPage(counted) /\ counted.doc = t /\ counted.term = term /\ counted.pos = at
        /\ counted.count = Len(matches) /\ counted.rows = p.rows /\ counted.flags = p.flags
    BY <1>1, <1>7 DEF IsPage
  <1>9. PICK way : way = [counted EXCEPT !.flags = ExpandTo(t, p.flags, matches[at + 1])]
    OBVIOUS
  <1>10. /\ IsPage(way) /\ way.doc = t /\ way.term = term /\ way.pos = at /\ way.count = Len(matches)
         /\ way.flags = ExpandTo(t, p.flags, matches[at + 1])
    <2>1. way = [doc |-> p.doc, flags |-> ExpandTo(t, p.flags, matches[at + 1]), rows |-> p.rows,
                 term |-> p.term, pos |-> at, count |-> Len(matches)]
      BY <1>7, <1>9
    <2> QED
      BY <1>1, <2>1 DEF IsPage
  <1>11. PICK shown : shown = IF matches = << >> THEN Render(counted) ELSE Render(way)
    OBVIOUS
  <1>12. Shown(shown) /\ shown.doc = t /\ shown.term = term /\ shown.pos = at
         /\ (matches # << >> => shown.flags = ExpandTo(t, p.flags, matches[at + 1]))
    <2>1. Held(t)
      BY <1>1
    <2>2. CASE matches = << >>
      BY <1>3, <1>5, <1>8, <1>11, <2>1, <2>2, RenderShows
    <2>3. CASE matches # << >>
      BY <1>3, <1>5, <1>10, <1>11, <2>1, <2>3, RenderShows
    <2> QED
      BY <2>2, <2>3
  <1>13. /\ page' = shown
         /\ (\E i \in DOMAIN shown.rows : matches # << >> /\ shown.rows[i].at = matches[at + 1]) =>
              cursor' \in DOMAIN shown.rows /\ shown.rows[cursor'].at = matches[at + 1]
         /\ ~(\E i \in DOMAIN shown.rows : matches # << >> /\ shown.rows[i].at = matches[at + 1]) => cursor' = 1
    <2> DEFINE found == CollectMatches(p.doc, p.term)
               place == IF p.pos >= Len(found) THEN 0 ELSE p.pos
               told  == [p EXCEPT !.count = Len(found), !.pos = place]
               drawn == IF found = << >> THEN Render(told)
                        ELSE Render([told EXCEPT !.flags = ExpandTo(p.doc, @, found[place + 1])])
    <2>1. page' = drawn
      BY DEF FindJump
    <2>2. /\ (\E i \in DOMAIN drawn.rows : found # << >> /\ drawn.rows[i].at = found[place + 1]) =>
               cursor' \in DOMAIN drawn.rows /\ drawn.rows[cursor'].at = found[place + 1]
          /\ ~(\E i \in DOMAIN drawn.rows : found # << >> /\ drawn.rows[i].at = found[place + 1]) => cursor' = 1
      <3>1. cursor' = IF \E i \in DOMAIN drawn.rows : found # << >> /\ drawn.rows[i].at = found[place + 1]
                      THEN CHOOSE i \in DOMAIN drawn.rows : drawn.rows[i].at = found[place + 1]
                      ELSE 1
        BY DEF FindJump
      <3> HIDE DEF found, place, told, drawn
      <3> QED
        BY <3>1
    <2>3. found = matches
      BY <1>1, <1>2
    <2>4. place = at
      BY <1>4, <2>3
    <2>5. told = counted
      BY <1>6, <2>3, <2>4
    <2>6. drawn = shown
      <3>1. [told EXCEPT !.flags = ExpandTo(p.doc, @, found[place + 1])] = way
        <4> HIDE DEF found, place, told
        <4> QED
          BY <1>1, <1>8, <1>9, <2>3, <2>4, <2>5
      <3> HIDE DEF found, place, told
      <3> QED
        BY <1>11, <2>3, <2>5, <3>1
    <2> HIDE DEF found, place, told, drawn
    <2> QED
      BY <2>1, <2>2, <2>3, <2>4, <2>6
  <1>14. DOMAIN shown.rows \subseteq Nat
    BY <1>3, <1>12, RowsAre DEF Shown
  <1>15. cursor' \in Nat
    BY <1>13, <1>14
  <1>16. ASSUME matches # << >> PROVE shown.rows[cursor'].at = matches[at + 1]
    <2>1. matches[at + 1] \in OpenNodes(t, shown.flags)
      BY <1>3, <1>5, <1>12, <1>16, WayIsOpen
    <2>2. \E i \in DOMAIN shown.rows : shown.rows[i].at = matches[at + 1]
      BY <1>3, <1>12, <2>1, RowsAre DEF Shown
    <2> QED
      BY <1>13, <1>16, <2>2
  <1> QED
    BY <1>1, <1>2, <1>12, <1>13, <1>15, <1>16

----------------------------------------------------------------------------
(* One edit.                                                               *)

Relabelled(t, at, l) == [t EXCEPT ![at].label = l]

\* A node takes a new label, and nothing else changes.
LEMMA RelabelIs ==
  ASSUME NEW t, Document(t), NEW at \in DOMAIN t, NEW l
  PROVE  /\ Document(Relabelled(t, at, l)) /\ DOMAIN Relabelled(t, at, l) = DOMAIN t
         /\ \A q \in DOMAIN t : q # at => Relabelled(t, at, l)[q] = t[q]
         /\ Relabelled(t, at, l)[at].kind = t[at].kind /\ Relabelled(t, at, l)[at].value = t[at].value
  <1>1. IsFiniteSet(DOMAIN t) /\ DOMAIN t \subseteq Paths /\ << >> \in DOMAIN t /\ Shaped(t) /\ Rooted(t)
    BY DocumentIs
  <1>2. PICK s : s = Relabelled(t, at, l)
    OBVIOUS
  <1>3. t[at] = [kind |-> t[at].kind, label |-> t[at].label, value |-> t[at].value]
    BY <1>1 DEF Shaped
  <1>4. /\ DOMAIN s = DOMAIN t
        /\ \A q \in DOMAIN t : q # at => s[q] = t[q]
        /\ s[at] = [t[at] EXCEPT !.label = l]
        /\ s = [q \in DOMAIN s |-> s[q]]
    BY <1>1, <1>2 DEF Relabelled
  <1>5. s[at] = [kind |-> t[at].kind, label |-> l, value |-> t[at].value]
    BY <1>3, <1>4
  <1>6. s[at].kind = t[at].kind /\ s[at].value = t[at].value
    BY <1>5
  <1>7. \A q \in DOMAIN t : s[q].kind = t[q].kind
    BY <1>4, <1>6
  <1>8. Shaped(s)
    <2>1. \A q \in DOMAIN s : s[q] = [kind |-> s[q].kind, label |-> s[q].label, value |-> s[q].value]
      BY <1>1, <1>4, <1>5 DEF Shaped
    <2> QED
      BY <1>4, <2>1 DEF Shaped
  <1>9. Rooted(s)
    BY <1>1, <1>4, <1>7 DEF Rooted, IsBranch
  <1>10. Document(s)
    BY <1>1, <1>4, <1>8, <1>9, DocumentIs
  <1> QED
    BY <1>2, <1>4, <1>6, <1>10

\* What scalarFromEdit makes is a tree.
LEMMA LeafHeld ==
  ASSUME NEW k, NEW text, k = "number" => text \in DOMAIN JSONOf
  PROVE  Held(Leaf(k, text))
  <1>1. PICK t : t = Leaf(k, text)
    OBVIOUS
  <1>2. t = [p \in {<< >>} |-> [kind |-> k, label |-> Blank, value |-> text]]
    BY <1>1 DEF Leaf
  <1>3. DOMAIN t = {<< >>} /\ t[<< >>].kind = k /\ t[<< >>].value = text
        /\ t[<< >>] = [kind |-> t[<< >>].kind, label |-> t[<< >>].label, value |-> t[<< >>].value]
    BY <1>2
  <1>4. Shaped(t)
    BY <1>2, <1>3 DEF Shaped
  <1>5. IsFiniteSet(DOMAIN t) /\ DOMAIN t \subseteq Paths
    BY <1>3, EmptyPath, FS_Singleton
  <1>6. Rooted(t)
    <2>1. SUFFICES ASSUME NEW q \in Paths, IsPrefix(q, << >>) PROVE q = << >>
      BY <1>3 DEF Rooted
    <2>2. IsPrefix(<< >>, q) /\ Len(<< >>) >= Len(q)
      BY <2>1, EmptyPath, RootIsPrefix, PrefixPoints
    <2> QED
      BY <2>2, EmptyPath, PrefixAnti
  <1>7. Document(t)
    BY <1>3, <1>4, <1>5, <1>6, DocumentIs
  <1> QED
    BY <1>1, <1>3, <1>7 DEF Held, Numbers

\* A tree is not nil.
LEMMA NoDocIsNone ==
  ASSUME NEW t, Document(t)
  PROVE  t # NoDoc
  BY DEF Document, NoDoc

\* Whatever is accepted for a node is a tree.
LEMMA ReplHeld ==
  ASSUME NEW node, NEW text, Repl(node, text) # NoDoc
  PROVE  Held(Repl(node, text))
  <1>1. ASSUME FromJSON(text) # NoDoc PROVE text \in DOMAIN JSONOf /\ Held(FromJSON(text))
    <2>1. text \in DOMAIN JSONOf /\ FromJSON(text) = JSONOf[text]
      BY <1>1 DEF FromJSON
    <2>2. AsRead(JSONOf[text])
      BY <2>1, ValueTreeAssumption
    <2> QED
      BY <2>1, <2>2, MarshalOfRead
  <1>2. CASE node.kind \in Branches
    BY <1>1, <1>2 DEF Repl
  <1>3. CASE node.kind \notin Branches
    <2>1. Repl(node, text) = ScalarFromEdit(node.kind, text)
      BY <1>3 DEF Repl
    <2>2. CASE node.kind = "string"
      <3>1. Repl(node, text) = Leaf("string", text)
        BY <2>1, <2>2 DEF ScalarFromEdit
      <3> QED
        BY <3>1, LeafHeld
    <2>3. CASE node.kind = "number"
      <3>1. FromJSON(text) # NoDoc /\ Repl(node, text) = Leaf("number", text)
        BY <2>1, <2>3 DEF ScalarFromEdit
      <3> QED
        BY <1>1, <3>1, LeafHeld
    <2>4. CASE node.kind # "string" /\ node.kind # "number"
      <3>1. Repl(node, text) = FromJSON(text)
        BY <2>1, <2>4 DEF ScalarFromEdit
      <3> QED
        BY <1>1, <3>1
    <2> QED
      BY <2>2, <2>3, <2>4
  <1> QED
    BY <1>2, <1>3

\* The members of a hash: the nodes under the root.
Members(d) == {p \in DOMAIN d : Len(p) = 1}

\* An edit below a member leaves the members of the hash.
LEMMA MembersKept ==
  ASSUME NEW t, Document(t), NEW at \in DOMAIN t, Len(at) >= 1, NEW r, Document(r)
  PROVE  Members(Replace(t, at, r)) = Members(t)
  <1>1. DOMAIN t \subseteq Paths /\ at \in Paths /\ << >> \in DOMAIN r
    BY DocumentIs
  <1>2. PICK s : s = Replace(t, at, r)
    OBVIOUS
  <1>3. \A p : p \in DOMAIN s <=> ReplacedAt(t, at, r, p)
    BY <1>2, ReplaceIs
  <1>4. ASSUME NEW p \in Paths, Len(p) = 1, IsPrefix(at, p) PROVE p = at /\ Rest(at, p) = << >>
    <2>1. p = at
      BY <1>1, <1>4, PathLen, PrefixAnti
    <2>2. Rest(at, at) = << >>
      BY <1>1, EmptyPath, RootIsPrefix, Joined
    <2> QED
      BY <2>1, <2>2
  <1>5. \A p \in Paths : Len(p) = 1 => (p \in DOMAIN s <=> p \in DOMAIN t)
    BY <1>1, <1>3, <1>4 DEF ReplacedAt
  <1>6. DOMAIN s \subseteq Paths
    BY <1>1, <1>3 DEF ReplacedAt
  <1> QED
    BY <1>1, <1>2, <1>5, <1>6 DEF Members

\* What an edit leaves on the page.
Put(d, at, r, l) == [Replace(d, at, r) EXCEPT ![at].label = l]

\* The tree with an edit in it: it differs from the one before under the node alone.
LEMMA PutIs ==
  ASSUME NEW d, Held(d), NEW at \in DOMAIN d, at # << >>, NEW r, Held(r), NEW l
  PROVE  /\ Held(Put(d, at, r, l)) /\ AgreeApart(d, Put(d, at, r, l), at) /\ at \in DOMAIN Put(d, at, r, l)
         /\ Members(Put(d, at, r, l)) = Members(d)
  <1>1. Document(d) /\ Document(r) /\ at \in Paths /\ DOMAIN d \subseteq Paths /\ << >> \in DOMAIN r
    BY DocumentIs DEF Held
  <1>2. PICK s : s = Replace(d, at, r)
    OBVIOUS
  <1>3. /\ \A p : p \in DOMAIN s <=> ReplacedAt(d, at, r, p)
        /\ \A p \in DOMAIN s : s[p] = IF IsPrefix(at, p) THEN Named(r, d[at].label)[Rest(at, p)] ELSE d[p]
        /\ Document(s)
    BY <1>1, <1>2, ReplaceIs, ReplaceDocument
  <1>4. IsPrefix(at, at) /\ Rest(at, at) = << >>
    BY <1>1, EmptyPath, RootIsPrefix, Joined
  <1>5. at \in DOMAIN s
    BY <1>1, <1>3, <1>4 DEF ReplacedAt
  <1>6. PICK e : e = Relabelled(s, at, l)
    OBVIOUS
  <1>7. /\ Document(e) /\ DOMAIN e = DOMAIN s
        /\ \A q \in DOMAIN s : q # at => e[q] = s[q]
        /\ e[at].kind = s[at].kind /\ e[at].value = s[at].value
    BY <1>3, <1>5, <1>6, RelabelIs
  <1>8. ASSUME NEW n \in Numbers(e) PROVE e[n].value \in DOMAIN JSONOf
    <2>1. n \in DOMAIN s /\ s[n].kind = "number" /\ e[n].value = s[n].value
      BY <1>5, <1>7 DEF Numbers
    <2>2. CASE ~IsPrefix(at, n)
      <3>1. n \in DOMAIN d /\ s[n] = d[n]
        BY <1>3, <2>1, <2>2 DEF ReplacedAt
      <3> QED
        BY <2>1, <3>1 DEF Held, Numbers
    <2>3. CASE IsPrefix(at, n)
      <3>1. PICK q : q = Rest(at, n)
        OBVIOUS
      <3>2. PICK w : w = d[at].label
        OBVIOUS
      <3>3. q \in DOMAIN r /\ s[n] = Named(r, w)[q]
        BY <1>3, <2>1, <2>3, <3>1, <3>2 DEF ReplacedAt
      <3>4. s[n].kind = r[q].kind /\ s[n].value = r[q].value
        BY <1>1, <3>3, NamedAt
      <3> QED
        BY <2>1, <3>3, <3>4 DEF Held, Numbers
    <2> QED
      BY <2>2, <2>3
  <1>9. Held(e)
    BY <1>7, <1>8 DEF Held
  <1>10. AgreeApart(d, e, at)
    <2>1. SUFFICES ASSUME NEW p \in Paths, ~IsPrefix(at, p)
                   PROVE  (p \in DOMAIN d <=> p \in DOMAIN e) /\ (p \in DOMAIN d => d[p] = e[p])
      BY DEF AgreeApart
    <2>2. p # at
      BY <1>4, <2>1
    <2>3. p \in DOMAIN d <=> p \in DOMAIN s
      BY <1>3, <2>1 DEF ReplacedAt
    <2>4. p \in DOMAIN s => s[p] = d[p]
      BY <1>3, <2>1
    <2> QED
      BY <1>7, <2>2, <2>3, <2>4
  <1>11. Members(e) = Members(d)
    <2>1. Len(at) >= 1
      <3>1. Len(at) \in Nat
        BY <1>1, PathLen
      <3>2. CASE Len(at) = 0
        BY <1>1, <3>2, EmptyPath, RootIsPrefix, PrefixAnti
      <3> QED
        BY <3>1, <3>2
    <2>2. Members(s) = Members(d)
      BY <1>1, <1>2, <2>1, MembersKept
    <2> QED
      BY <1>7, <2>2 DEF Members
  <1>12. e = Put(d, at, r, l)
    BY <1>2, <1>6 DEF Put, Relabelled
  <1> QED
    BY <1>5, <1>7, <1>9, <1>10, <1>11, <1>12

\* The place that is written for an edit: the root, or the member above it.
TopOf(at) == IF kind = "hash" THEN SubSeq(at, 1, 1) ELSE << >>

\* The document, or the member, that a save sends.
LEMMA TopIs ==
  ASSUME NEW d, Document(d), NEW at \in DOMAIN d, at # << >>, kind = "hash" => Len(at) > 1
  PROVE  /\ TopOf(at) \in DOMAIN d /\ TopOf(at) \in Paths /\ IsPrefix(TopOf(at), at) /\ ~IsPrefix(at, TopOf(at))
         /\ IF kind = "hash" THEN TopOf(at) \in Members(d) ELSE TopOf(at) = << >>
  <1>1. at \in Paths /\ DOMAIN d \subseteq Paths /\ << >> \in DOMAIN d /\ Rooted(d) /\ Len(at) \in Nat
    BY DocumentIs, PathLen
  <1>2. PICK top : top = TopOf(at)
    OBVIOUS
  <1>3. /\ top \in Paths /\ IsPrefix(top, at) /\ top # at
        /\ kind = "hash" => Len(top) = 1
        /\ kind # "hash" => top = << >>
    <2>1. CASE kind = "hash"
      <3>1. 1 \in 0 .. Len(at)
        BY <1>1, <2>1
      <3>2. SubSeq(at, 1, 1) \in Paths /\ Len(SubSeq(at, 1, 1)) = 1 /\ IsPrefix(SubSeq(at, 1, 1), at)
        BY <1>1, <3>1, CutIs
      <3>3. top = SubSeq(at, 1, 1)
        BY <1>2, <2>1 DEF TopOf
      <3>4. top \in Paths /\ IsPrefix(top, at) /\ Len(top) = 1
        BY <3>2, <3>3
      <3>5. top # at
        <4>1. ASSUME top = at PROVE FALSE
          <5>1. Len(at) = 1
            BY <3>4, <4>1
          <5>2. Len(at) > 1
            BY <2>1
          <5> QED
            BY <5>1, <5>2
        <4> QED
          BY <4>1
      <3> QED
        BY <2>1, <3>4, <3>5
    <2>2. CASE kind # "hash"
      <3>1. top = << >>
        BY <1>2, <2>2 DEF TopOf
      <3> QED
        BY <1>1, <2>2, <3>1, EmptyPath, RootIsPrefix
    <2> QED
      BY <2>1, <2>2
  <1>4. top \in DOMAIN d
    BY <1>1, <1>3 DEF Rooted
  <1>5. ~IsPrefix(at, top)
    <2> SUFFICES ASSUME IsPrefix(at, top) PROVE FALSE
      OBVIOUS
    <2>1. Len(at) >= Len(top)
      BY <1>1, <1>3, PrefixPoints
    <2>2. at = top
      BY <1>1, <1>3, <2>1, PrefixAnti
    <2> QED
      BY <1>3, <2>2
  <1> QED
    BY <1>2, <1>3, <1>4, <1>5 DEF Members

\* What a save sends, put into what the page was read from, is what the page
\* then is written as; nodes apart from it are as they were.
LEMMA SentIs ==
  ASSUME NEW d, Held(d), NEW at \in DOMAIN d, at # << >>, kind = "hash" => Len(at) > 1,
         NEW r, Held(r), NEW l, NEW put, put = Put(d, at, r, l)
  PROVE  /\ AsRead(Sent(put, at).doc) /\ Sent(put, at).at = TopOf(at)
         /\ Replace(Marshal(d), TopOf(at), Sent(put, at).doc) = Marshal(put)
         /\ Subtree(Marshal(put), at) = Marshal(Subtree(put, at))
         /\ \A b \in Paths : ~IsPrefix(at, b) /\ ~IsPrefix(b, at) =>
              Subtree(Marshal(put), b) = Subtree(Marshal(d), b)
  <1>1. Document(d) /\ at \in Paths
    BY DocumentIs DEF Held
  <1>2. Held(put) /\ AgreeApart(d, put, at) /\ at \in DOMAIN put /\ Document(put)
    BY PutIs DEF Held
  <1>3. PICK top : top = TopOf(at)
    OBVIOUS
  <1>4. top \in DOMAIN d /\ top \in Paths /\ IsPrefix(top, at) /\ ~IsPrefix(at, top)
    BY <1>1, <1>3, TopIs
  <1>5. AgreeApart(d, put, top)
    <2>1. SUFFICES ASSUME NEW p \in Paths, ~IsPrefix(top, p)
                   PROVE  (p \in DOMAIN d <=> p \in DOMAIN put) /\ (p \in DOMAIN d => d[p] = put[p])
      BY DEF AgreeApart
    <2>2. ~IsPrefix(at, p)
      BY <1>1, <1>4, <2>1, PrefixTrans
    <2> QED
      BY <1>2, <2>2 DEF AgreeApart
  <1>6. top \in DOMAIN put /\ d[top] = put[top]
    BY <1>2, <1>4 DEF AgreeApart
  <1>7. Sent(put, at) = [at |-> top, doc |-> Marshal(Subtree(put, top))]
    BY <1>3 DEF Sent, TopOf
  <1>8. Sent(put, at).at = top /\ Sent(put, at).doc = Marshal(Subtree(put, top))
    BY <1>7
  <1>9. Replace(Marshal(d), top, Marshal(Subtree(put, top))) = Marshal(put)
    BY <1>2, <1>4, <1>5, <1>6, PutIntoPlace
  <1>10. AsRead(Marshal(Subtree(put, top)))
    BY <1>2, <1>6, SubtreeHeld, MarshalIsRead
  <1>11. Subtree(Marshal(put), at) = Marshal(Subtree(put, at))
    BY <1>2, MarshalOfSubtree
  <1>12. ASSUME NEW b \in Paths, ~IsPrefix(at, b), ~IsPrefix(b, at)
         PROVE  Subtree(Marshal(put), b) = Subtree(Marshal(d), b)
    <2>1. AgreeApart(Marshal(d), Marshal(put), at)
      BY <1>1, <1>2, MarshalApart
    <2>2. Document(Marshal(d)) /\ Document(Marshal(put))
      BY <1>2, MarshalDocument
    <2> QED
      BY <1>1, <1>12, <2>1, <2>2, SubtreeApart
  <1> QED
    BY <1>3, <1>8, <1>9, <1>10, <1>11, <1>12

----------------------------------------------------------------------------
(* The invariant: what the server, the page and the editor hold are trees, *)
(* and a hash keeps its members.                                           *)

IsFetch(f) == f = [live |-> f.live, read |-> f.read, doc |-> f.doc] /\ f.live \in BOOLEAN /\ f.read \in BOOLEAN
IsEditor(e) ==
  /\ e = [open |-> TRUE, at |-> e.at, linked |-> e.linked, current |-> e.current, doc |-> e.doc]
  /\ e.linked \in BOOLEAN /\ e.current \in BOOLEAN

Fits(d) == kind = "hash" => Members(d) = Members(stored)

ServerInv ==
  /\ AsRead(stored)
  /\ \A w \in writes : /\ AsRead(w.doc)
                       /\ IF kind = "hash" THEN w.at \in Members(stored) ELSE w.at = << >>
  /\ \A f \in fetches : IsFetch(f) /\ (f.read => AsRead(f.doc) /\ Fits(f.doc))

PageInv == page = NewPage \/ (GoodPage(page) /\ Fits(page.doc))

Editable(d, at) ==
  Held(d) /\ Fits(d) /\ at \in DOMAIN d \ {<< >>} /\ (kind = "hash" => Len(at) > 1)
EditorInv == editor = Closed \/ (IsEditor(editor) /\ (editor.linked => Editable(EditedDoc, editor.at)))

TreesInv == ServerInv /\ PageInv /\ EditorInv

\* What is shown, or will be when the calls under way have answered.
PaneInv ==
  ~reload /\ ~failed =>
    /\ \A f \in fetches : f.live /\ f.read => f.doc = stored
    /\ writes = {} /\ (\A f \in fetches : ~f.live) =>
         page # NewPage /\ Marshal(page.doc) = stored /\ page.rows = RowsOf(page.doc, page.flags)

\* What an edit is made on, and what has become of the earlier ones.
EditInv ==
  ~hurried /\ ~failed =>
    /\ \A v, w \in writes : v = w
    /\ editor.open /\ editor.linked => Marshal(EditedDoc) = Due
    /\ \A m \in mine : m.at \in Paths /\ Subtree(Due, m.at) = Marshal(m.doc)

Inv == TreesInv /\ PaneInv /\ EditInv

\* What the definitions say of a page, an editor and the calls, for the proofs.
LEMMA LoadedIs ==
  ASSUME PageInv
  PROVE  Loaded <=> page # NewPage
  <1>1. NewPage.doc = NoDoc
    BY DEF NewPage
  <1>2. GoodPage(page) => page.doc # NoDoc
    BY NoDocIsNone DEF GoodPage, Held
  <1> QED
    BY <1>1, <1>2 DEF Loaded, PageInv

LEMMA ClosedIs == Closed.open = FALSE
  BY DEF Closed

LEMMA DueIs ==
  /\ writes = {} => Due = stored
  /\ \A w \in writes : (\A v \in writes : v = w) => Due = Replace(stored, w.at, w.doc)
  <1>1. writes = {} => Due = stored
    BY DEF Due
  <1>2. ASSUME NEW w \in writes, \A v \in writes : v = w PROVE Due = Replace(stored, w.at, w.doc)
    <2>1. writes # {} /\ (CHOOSE v \in writes : TRUE) = w
      BY <1>2
    <2> QED
      BY <2>1 DEF Due
  <1> QED
    BY <1>1, <1>2

\* The invariant holds at the start.
LEMMA InitTrees == Init => Inv
  <1> SUFFICES ASSUME Init PROVE Inv
    OBVIOUS
  <1>1. AsRead(stored) /\ page = NewPage /\ editor = Closed /\ fetches = {Asked} /\ writes = {} /\ mine = {}
    BY ValueTreeAssumption DEF Init
  <1>2. IsFetch(Asked) /\ ~Asked.read /\ Asked.live
    BY DEF IsFetch, Asked
  <1>3. TreesInv
    BY <1>1, <1>2 DEF TreesInv, ServerInv, PageInv, EditorInv
  <1>4. PaneInv
    BY <1>1, <1>2 DEF PaneInv
  <1>5. EditInv
    BY <1>1, ClosedIs DEF EditInv
  <1> QED
    BY <1>3, <1>4, <1>5 DEF Inv

\* Nothing of it changes when the cursor moves, or in the diagram.
LEMMA ElsewhereKeeps ==
  ASSUME Inv, UNCHANGED <<kind, stored, page, editor, fetches, writes, reload, mine, hurried, failed>>
  PROVE  Inv'
  <1>1. ServerInv' /\ PageInv'
    BY DEF Inv, TreesInv, ServerInv, PageInv, Fits
  <1>2. EditorInv'
    BY DEF Inv, TreesInv, EditorInv, EditedDoc, Editable, Fits
  <1>3. PaneInv'
    BY DEF Inv, PaneInv
  <1>4. EditInv'
    BY DEF Inv, EditInv, Due, EditedDoc
  <1> QED
    BY <1>1, <1>2, <1>3, <1>4 DEF Inv, TreesInv

\* Nor when the editor is closed.
LEMMA ClosingKeeps ==
  ASSUME Inv, editor' = Closed, UNCHANGED <<kind, stored, page, fetches, writes, reload, mine, hurried, failed>>
  PROVE  Inv'
  <1>1. ServerInv' /\ PageInv'
    BY DEF Inv, TreesInv, ServerInv, PageInv, Fits
  <1>2. EditorInv'
    BY DEF EditorInv
  <1>3. PaneInv'
    BY DEF Inv, PaneInv
  <1>4. EditInv'
    BY ClosedIs DEF Inv, EditInv, Due
  <1> QED
    BY <1>1, <1>2, <1>3, <1>4 DEF Inv, TreesInv

\* Nor when the rows are drawn anew, from the same tree.
LEMMA DrawingKeeps ==
  ASSUME Inv, page # NewPage, ~editor.open, Shown(page'), page'.doc = page.doc,
         UNCHANGED <<kind, stored, editor, fetches, writes, reload, mine, hurried, failed>>
  PROVE  Inv'
  <1>1. ServerInv'
    BY DEF Inv, TreesInv, ServerInv, Fits
  <1>2. PageInv'
    BY DEF Inv, TreesInv, PageInv, Shown, Fits
  <1>3. editor = Closed
    BY DEF Inv, TreesInv, EditorInv, IsEditor
  <1>4. EditorInv'
    BY <1>3 DEF EditorInv
  <1>5. page' # NewPage
    BY NoDocIsNone DEF Shown, GoodPage, Held, NewPage
  <1>6. PaneInv'
    BY <1>5 DEF Inv, PaneInv, Shown
  <1>7. EditInv'
    BY <1>3, ClosedIs DEF Inv, EditInv, Due
  <1> QED
    BY <1>1, <1>2, <1>4, <1>6, <1>7 DEF Inv, TreesInv

\* The keys of the pane keep the invariant.
LEMMA ToggleKeeps ==
  ASSUME Inv, ValueToggle
  PROVE  Inv'
  <1>1. /\ ~editor.open /\ RowUnderCursor
        /\ page' = Render(IF Row.linked THEN [page EXCEPT !.flags = Toggled(page.doc, @, Row.at)] ELSE page)
        /\ UNCHANGED <<kind, stored, editor, fetches, writes, reload, mine, hurried, failed>>
    BY DEF ValueToggle, OnPane, Server
  <1>2. page # NewPage
    BY <1>1 DEF RowUnderCursor, NewPage
  <1>3. GoodPage(page)
    BY <1>2 DEF Inv, TreesInv, PageInv
  <1>4. PICK f : f = Toggled(page.doc, page.flags, Row.at)
    OBVIOUS
  <1>5. PICK p : p = IF Row.linked THEN [page EXCEPT !.flags = f] ELSE page
    OBVIOUS
  <1>6. IsPage(p) /\ p.doc = page.doc /\ p.pos = page.pos /\ p.count = page.count
    <2>1. page = [doc |-> page.doc, flags |-> page.flags, rows |-> page.rows, term |-> page.term,
                  pos |-> page.pos, count |-> page.count]
      BY <1>3 DEF GoodPage, IsPage
    <2>2. [page EXCEPT !.flags = f] = [doc |-> page.doc, flags |-> f, rows |-> page.rows, term |-> page.term,
                                       pos |-> page.pos, count |-> page.count]
      BY <2>1
    <2> QED
      BY <1>5, <2>1, <2>2 DEF IsPage
  <1>7. page' = Render(p)
    BY <1>1, <1>4, <1>5
  <1>8. Shown(page') /\ page'.doc = page.doc
    BY <1>3, <1>6, <1>7, RenderShows DEF GoodPage
  <1> QED
    BY <1>1, <1>2, <1>8, DrawingKeeps

LEMMA FindKeeps ==
  ASSUME Inv, NEW term, Find(term)
  PROVE  Inv'
  <1>1. /\ ~editor.open /\ Loaded
        /\ UNCHANGED <<kind, stored, editor, fetches, writes, reload, mine, hurried, failed>>
    BY DEF Find, OnPane, JSONView, Server
  <1>2. page # NewPage /\ GoodPage(page)
    BY <1>1, LoadedIs DEF Inv, TreesInv, PageInv
  <1>3. PICK p : p = [page EXCEPT !.term = term, !.pos = 0]
    OBVIOUS
  <1>4. p = [doc |-> page.doc, flags |-> page.flags, rows |-> page.rows, term |-> term, pos |-> 0, count |-> page.count]
    BY <1>2, <1>3 DEF GoodPage, IsPage
  <1>5. IsPage(p) /\ p.doc = page.doc /\ p.pos = 0 /\ Held(p.doc)
    BY <1>2, <1>4 DEF IsPage, GoodPage
  <1>6. CASE term = Blank
    <2>1. PICK q : q = [p EXCEPT !.count = 0]
      OBVIOUS
    <2>2. IsPage(q) /\ q.doc = page.doc /\ q.pos = 0 /\ q.count = 0
      BY <1>4, <2>1 DEF IsPage
    <2>3. page' = Render(q)
      BY <1>3, <1>6, <2>1 DEF Find
    <2>4. Shown(page') /\ page'.doc = page.doc
      BY <1>5, <2>2, <2>3, RenderShows
    <2> QED
      BY <1>1, <1>2, <2>4, DrawingKeeps
  <1>7. CASE term # Blank
    <2>1. FindJump(p)
      BY <1>3, <1>7 DEF Find
    <2>2. Shown(page') /\ page'.doc = page.doc
      BY <1>5, <2>1, FindJumpShows
    <2> QED
      BY <1>1, <1>2, <2>2, DrawingKeeps
  <1> QED
    BY <1>6, <1>7

LEMMA FindNextKeeps ==
  ASSUME Inv, NEW dir \in {1, -1}, FindNext(dir)
  PROVE  Inv'
  <1>1. /\ ~editor.open /\ Loaded /\ page.count > 0
        /\ UNCHANGED <<kind, stored, editor, fetches, writes, reload, mine, hurried, failed>>
    BY DEF FindNext, OnPane, Server
  <1>2. page # NewPage /\ GoodPage(page)
    BY <1>1, LoadedIs DEF Inv, TreesInv, PageInv
  <1>3. PICK n : n = (page.pos + dir + page.count) % page.count
    OBVIOUS
  <1>4. n \in Nat
    BY <1>1, <1>2, <1>3 DEF GoodPage
  <1>5. PICK p : p = [page EXCEPT !.pos = n]
    OBVIOUS
  <1>6. p = [doc |-> page.doc, flags |-> page.flags, rows |-> page.rows, term |-> page.term, pos |-> n,
             count |-> page.count]
    BY <1>2, <1>5 DEF GoodPage, IsPage
  <1>7. IsPage(p) /\ p.doc = page.doc /\ p.pos = n /\ Held(p.doc)
    BY <1>2, <1>6 DEF IsPage, GoodPage
  <1>8. FindJump(p)
    BY <1>3, <1>5 DEF FindNext
  <1>9. Shown(page') /\ page'.doc = page.doc
    BY <1>4, <1>7, <1>8, FindJumpShows
  <1> QED
    BY <1>1, <1>2, <1>9, DrawingKeeps

\* So does an editor: unless the page is Behind, it edits what is due.
LEMMA OpenEditorKeeps ==
  ASSUME Inv, OpenEditor
  PROVE  Inv'
  <1>1. /\ ~editor.open /\ RowUnderCursor
        /\ kind = "hash" /\ Row.linked => Len(Row.at) > 1
        /\ editor' = [open |-> TRUE, at |-> Row.at, linked |-> Row.linked, current |-> TRUE, doc |-> NoDoc]
        /\ hurried' = (hurried \/ Behind)
        /\ UNCHANGED <<kind, stored, page, fetches, writes, reload, mine, failed>>
    BY DEF OpenEditor, OnPane
  <1>2. page # NewPage
    BY <1>1 DEF RowUnderCursor, NewPage
  <1>3. GoodPage(page) /\ Fits(page.doc)
    BY <1>2 DEF Inv, TreesInv, PageInv
  <1>4. Row.linked \in BOOLEAN /\ (Row.linked => Row.at \in DOMAIN page.doc \ {<< >>})
    BY <1>1, <1>3 DEF GoodPage, GoodRows, IsRow, Row, RowUnderCursor
  <1>5. PICK at, linked : at = Row.at /\ linked = Row.linked
    OBVIOUS
  <1>6. /\ IsEditor(editor') /\ editor'.open /\ editor'.at = at /\ editor'.linked = linked /\ editor'.current
    BY <1>1, <1>4, <1>5 DEF IsEditor
  <1>7. EditedDoc' = page.doc
    BY <1>1, <1>6 DEF EditedDoc
  <1>8. linked => Editable(page.doc, at)
    BY <1>1, <1>3, <1>4, <1>5 DEF Editable, GoodPage
  <1>9. EditorInv'
    BY <1>1, <1>6, <1>7, <1>8 DEF EditorInv, Editable, Fits
  <1>10. ServerInv' /\ PageInv'
    BY <1>1 DEF Inv, TreesInv, ServerInv, PageInv, Fits
  <1>11. PaneInv'
    BY <1>1 DEF Inv, PaneInv
  <1>12. Due' = Due
    BY <1>1 DEF Due
  <1>13. EditInv'
    <2>1. ASSUME ~hurried' PROVE ~hurried /\ Marshal(page.doc) = Due
      BY <1>1, <2>1 DEF Behind
    <2> QED
      BY <1>1, <1>7, <1>12, <2>1 DEF Inv, EditInv
  <1> QED
    BY <1>9, <1>10, <1>11, <1>13 DEF Inv, TreesInv

\* So does a save: what it sends puts the edit into what is due, and the nodes that were
\* saved before lie apart from it or are forgotten.
LEMMA SaveKeeps ==
  ASSUME Inv, NEW name, NEW text, Save(name, text)
  PROVE  Inv'
  <1>1. PICK d, at : d = EditedDoc /\ at = editor.at
    OBVIOUS
  <1>2. PICK r : r = Repl(d[at], text)
    OBVIOUS
  <1>3. PICK put : put = Put(d, at, r, name)
    OBVIOUS
  <1>4. PICK w : w = Sent(put, at)
    OBVIOUS
  <1>5. /\ editor.open /\ editor.linked /\ r # NoDoc
        /\ writes' = writes \cup {w}
        /\ mine' = (mine \ {m \in mine : IsPrefix(m.at, at) \/ IsPrefix(at, m.at)})
                     \cup {[at |-> at, doc |-> Subtree(put, at)]}
        /\ page' = IF ~editor.current THEN page
                   ELSE [page EXCEPT
                     !.doc = put,
                     !.flags = [p \in DOMAIN put |->
                                  IF IsPrefix(at, p) THEN Parsed(put)[p] ELSE @[p]],
                     !.rows = [i \in DOMAIN @ |->
                                 IF IsPrefix(at, @[i].at) THEN [@[i] EXCEPT !.linked = FALSE] ELSE @[i]]]
        /\ editor' = Closed
        /\ hurried' = (hurried \/ writes # {} \/ fetches # {} \/ reload)
        /\ UNCHANGED <<kind, stored, fetches, reload, failed>>
    BY <1>1, <1>2, <1>3, <1>4 DEF Save, Accepted, Put
  <1>6. editor # Closed /\ IsEditor(editor) /\ Editable(d, at)
    BY <1>1, <1>5, ClosedIs DEF Inv, TreesInv, EditorInv
  <1>7. Held(d) /\ Fits(d) /\ at \in DOMAIN d /\ at # << >> /\ (kind = "hash" => Len(at) > 1) /\ Document(d)
    BY <1>6 DEF Editable, Held
  <1>8. Held(r)
    <2>1. PICK n : n = d[at]
      OBVIOUS
    <2> QED
      BY <1>2, <1>5, <2>1, ReplHeld
  <1>9. Held(put) /\ AgreeApart(d, put, at) /\ at \in DOMAIN put /\ Members(put) = Members(d)
    BY <1>3, <1>7, <1>8, PutIs
  <1>10. PICK top : top = TopOf(at)
    OBVIOUS
  <1>11. /\ AsRead(w.doc) /\ w.at = top
         /\ Replace(Marshal(d), top, w.doc) = Marshal(put)
         /\ Subtree(Marshal(put), at) = Marshal(Subtree(put, at))
         /\ \A b \in Paths : ~IsPrefix(at, b) /\ ~IsPrefix(b, at) =>
              Subtree(Marshal(put), b) = Subtree(Marshal(d), b)
    BY <1>3, <1>4, <1>7, <1>8, <1>10, SentIs
  <1>12. IF kind = "hash" THEN top \in Members(d) ELSE top = << >>
    BY <1>7, <1>10, TopIs
  <1>13. IF kind = "hash" THEN w.at \in Members(stored) ELSE w.at = << >>
    BY <1>7, <1>11, <1>12 DEF Fits
  <1>14. ServerInv'
    BY <1>5, <1>11, <1>13 DEF Inv, TreesInv, ServerInv, Fits
  <1>15. EditorInv'
    BY <1>5 DEF EditorInv
  <1>16. PageInv'
    <2>1. CASE ~editor.current
      BY <1>5, <2>1 DEF Inv, TreesInv, PageInv, Fits
    <2>2. CASE editor.current
      <3>1. d = page.doc
        BY <1>1, <2>2 DEF EditedDoc
      <3>2. GoodPage(page)
        <4>1. Loaded
          BY <1>7, <3>1, NoDocIsNone DEF Loaded
        <4> QED
          BY <4>1, LoadedIs DEF Inv, TreesInv, PageInv
      <3>3. page = [doc |-> page.doc, flags |-> page.flags, rows |-> page.rows, term |-> page.term,
                    pos |-> page.pos, count |-> page.count]
        BY <3>2 DEF GoodPage, IsPage
      <3>4. PICK rows : rows = [i \in DOMAIN page.rows |->
                                  IF IsPrefix(at, page.rows[i].at) THEN [page.rows[i] EXCEPT !.linked = FALSE]
                                  ELSE page.rows[i]]
        OBVIOUS
      <3>5. PICK flags : flags = [p \in DOMAIN put |->
                                    IF IsPrefix(at, p) THEN Parsed(put)[p] ELSE page.flags[p]]
        OBVIOUS
      <3>6. page' = [page EXCEPT !.doc = put, !.flags = flags, !.rows = rows]
        BY <1>5, <2>2, <3>4, <3>5
      <3>7. page' = [doc |-> put, flags |-> flags, rows |-> rows, term |-> page.term, pos |-> page.pos,
                     count |-> page.count]
        BY <3>3, <3>6
      <3>8. /\ IsPage(page') /\ page'.doc = put /\ page'.rows = rows /\ page'.pos = page.pos
            /\ page'.count = page.count
        BY <3>7 DEF IsPage
      <3>9. ASSUME NEW i \in DOMAIN rows
            PROVE  IsRow(rows[i]) /\ (rows[i].linked => rows[i].at \in DOMAIN put \ {<< >>})
        <4>1. PICK x : x = page.rows[i]
          OBVIOUS
        <4>2. /\ x = [at |-> x.at, branch |-> x.branch, linked |-> x.linked] /\ x.linked \in BOOLEAN
              /\ x.linked => x.at \in DOMAIN d \ {<< >>}
          BY <3>1, <3>2, <3>4, <3>9, <4>1 DEF GoodPage, GoodRows, IsRow
        <4>3. CASE IsPrefix(at, x.at)
          <5>1. rows[i] = [x EXCEPT !.linked = FALSE]
            BY <3>4, <3>9, <4>1, <4>3
          <5>2. rows[i] = [at |-> x.at, branch |-> x.branch, linked |-> FALSE]
            BY <4>2, <5>1
          <5> QED
            BY <5>2 DEF IsRow
        <4>4. CASE ~IsPrefix(at, x.at)
          <5>1. rows[i] = x
            BY <3>4, <3>9, <4>1, <4>4
          <5>2. DOMAIN d \subseteq Paths
            BY <1>7, DocumentIs
          <5>3. x.linked => x.at \in DOMAIN put \ {<< >>}
            BY <1>9, <4>2, <4>4, <5>2 DEF AgreeApart
          <5> QED
            BY <4>2, <5>1, <5>3 DEF IsRow
        <4> QED
          BY <4>3, <4>4
      <3>10. GoodRows(page')
        BY <3>8, <3>9 DEF GoodRows
      <3>11. GoodPage(page')
        BY <1>9, <3>2, <3>8, <3>10 DEF GoodPage
      <3>12. Fits(page.doc)
        BY <1>7, <3>1
      <3>13. kind' = "hash" => Members(page'.doc) = Members(stored')
        BY <1>5, <1>9, <3>1, <3>8, <3>12 DEF Fits
      <3> QED
        BY <3>11, <3>13 DEF PageInv, Fits
    <2> QED
      BY <2>1, <2>2
  <1>17. PaneInv'
    BY <1>5 DEF Inv, PaneInv
  <1>18. EditInv'
    <2>1. SUFFICES ASSUME ~hurried', ~failed'
                   PROVE  /\ \A v, u \in writes' : v = u
                          /\ \A m \in mine' : m.at \in Paths /\ Subtree(Due', m.at) = Marshal(m.doc)
      BY <1>5, ClosedIs DEF EditInv
    <2>2. ~hurried /\ ~failed /\ writes = {}
      BY <1>5, <2>1
    <2>3. writes' = {w}
      BY <1>5, <2>2
    <2>4. Marshal(d) = stored
      BY <1>1, <1>5, <2>2, DueIs DEF Inv, EditInv
    <2>5. Due' = Marshal(put)
      <3>1. w \in writes' /\ \A v \in writes' : v = w
        BY <2>3
      <3>2. writes' # {} /\ (CHOOSE v \in writes' : TRUE) = w
        BY <3>1
      <3>3. Due' = Replace(stored', w.at, w.doc)
        BY <3>2 DEF Due
      <3> QED
        BY <1>5, <1>11, <2>4, <3>3
    <2>6. ASSUME NEW m \in mine' PROVE m.at \in Paths /\ Subtree(Due', m.at) = Marshal(m.doc)
      <3>1. at \in Paths
        BY <1>7, DocumentIs
      <3>2. CASE m = [at |-> at, doc |-> Subtree(put, at)]
        BY <1>11, <2>5, <3>1, <3>2
      <3>3. CASE m \in mine /\ ~IsPrefix(m.at, at) /\ ~IsPrefix(at, m.at)
        <4>1. m.at \in Paths /\ Subtree(stored, m.at) = Marshal(m.doc)
          BY <2>2, <3>3, DueIs DEF Inv, EditInv
        <4>2. Subtree(Marshal(put), m.at) = Subtree(Marshal(d), m.at)
          BY <1>11, <3>3, <4>1
        <4> QED
          BY <2>4, <2>5, <4>1, <4>2
      <3> QED
        BY <1>5, <2>6, <3>2, <3>3
    <2> QED
      BY <2>3, <2>6
  <1> QED
    BY <1>14, <1>15, <1>16, <1>17, <1>18 DEF Inv, TreesInv

\* What was read, with a part of it replaced by another that was read.
LEMMA ReplaceAsRead ==
  ASSUME NEW t, AsRead(t), NEW at \in DOMAIN t, NEW r, AsRead(r)
  PROVE  AsRead(Replace(t, at, r))
  <1>1. Document(t) /\ Document(r)
    BY DEF AsRead
  <1>2. PICK s : s = Replace(t, at, r)
    OBVIOUS
  <1>3. /\ \A p : p \in DOMAIN s <=> ReplacedAt(t, at, r, p)
        /\ \A p \in DOMAIN s : s[p] = IF IsPrefix(at, p) THEN Named(r, t[at].label)[Rest(at, p)] ELSE t[p]
        /\ Document(s)
    BY <1>1, <1>2, ReplaceIs, ReplaceDocument
  <1>4. ASSUME NEW n \in Numbers(s)
        PROVE  (n \in Numbers(t) /\ t[n].value = s[n].value)
               \/ \E q \in Numbers(r) : r[q].value = s[n].value
    <2>1. n \in DOMAIN s /\ s[n].kind = "number"
      BY DEF Numbers
    <2>2. CASE ~IsPrefix(at, n)
      BY <1>3, <2>1, <2>2 DEF ReplacedAt, Numbers
    <2>3. CASE IsPrefix(at, n)
      <3>1. PICK q : q = Rest(at, n)
        OBVIOUS
      <3>2. PICK l : l = t[at].label
        OBVIOUS
      <3>3. q \in DOMAIN r /\ s[n] = Named(r, l)[q]
        BY <1>3, <2>1, <2>3, <3>1, <3>2 DEF ReplacedAt
      <3>4. s[n].kind = r[q].kind /\ s[n].value = r[q].value
        BY <1>1, <3>3, NamedAt
      <3> QED
        BY <2>1, <3>3, <3>4 DEF Numbers
    <2> QED
      BY <2>2, <2>3
  <1>5. ASSUME NEW n \in Numbers(s)
        PROVE  /\ s[n].value \in DOMAIN JSONOf
               /\ DOMAIN JSONOf[s[n].value] = {<< >>} /\ JSONOf[s[n].value][<< >>].kind = "number"
               /\ JSONOf[s[n].value][<< >>].value = s[n].value
    BY <1>4 DEF AsRead
  <1> QED
    BY <1>2, <1>3, <1>5 DEF AsRead

\* What a write leaves on the server.
LEMMA WrittenIs ==
  ASSUME ServerInv, NEW w \in writes
  PROVE  /\ AsRead(Replace(stored, w.at, w.doc))
         /\ kind = "hash" => Members(Replace(stored, w.at, w.doc)) = Members(stored)
  <1>1. AsRead(stored) /\ AsRead(w.doc) /\ (IF kind = "hash" THEN w.at \in Members(stored) ELSE w.at = << >>)
    BY DEF ServerInv
  <1>2. w.at \in DOMAIN stored
    BY <1>1, DocumentIs DEF AsRead, Members
  <1>3. AsRead(Replace(stored, w.at, w.doc))
    BY <1>1, <1>2, ReplaceAsRead
  <1>4. ASSUME kind = "hash" PROVE Members(Replace(stored, w.at, w.doc)) = Members(stored)
    <2>1. Len(w.at) >= 1
      <3>1. Len(w.at) = 1
        BY <1>1, <1>4 DEF Members
      <3> QED
        BY <3>1
    <2> QED
      BY <1>1, <1>2, <2>1, MembersKept DEF AsRead
  <1> QED
    BY <1>3, <1>4

\* With it the page, the editor and what was read are still of the same members.
LEMMA StoringKeeps ==
  ASSUME Inv, AsRead(stored'), kind = "hash" => Members(stored') = Members(stored),
         writes' \subseteq writes, UNCHANGED <<kind, page, editor>>,
         \A f \in fetches' : f \in fetches \/ f = Asked
  PROVE  TreesInv'
  <1>1. \A d : Fits(d) => (kind' = "hash" => Members(d) = Members(stored'))
    BY DEF Fits
  <1>2. IsFetch(Asked) /\ ~Asked.read
    BY DEF IsFetch, Asked
  <1>3. ServerInv'
    <2>1. \A w \in writes' : /\ AsRead(w.doc)
                             /\ IF kind' = "hash" THEN w.at \in Members(stored') ELSE w.at = << >>
      BY DEF Inv, TreesInv, ServerInv
    <2>2. \A f \in fetches' : IsFetch(f) /\ (f.read => AsRead(f.doc) /\ (kind' = "hash" => Members(f.doc) = Members(stored')))
      BY <1>1, <1>2 DEF Inv, TreesInv, ServerInv
    <2> QED
      BY <2>1, <2>2 DEF ServerInv, Fits
  <1>4. PageInv'
    BY <1>1 DEF Inv, TreesInv, PageInv, Fits
  <1>5. EditedDoc' = EditedDoc
    BY DEF EditedDoc
  <1>6. EditorInv'
    BY <1>1, <1>5 DEF Inv, TreesInv, EditorInv, Editable, Fits
  <1> QED
    BY <1>3, <1>4, <1>6 DEF TreesInv

\* The calls and their closures keep the invariant.
LEMMA WriteOKKeeps ==
  ASSUME Inv, NEW w \in writes, WriteOK(w)
  PROVE  Inv'
  <1>1. /\ writes' = writes \ {w} /\ stored' = Replace(stored, w.at, w.doc)
        /\ fetches' = fetches \cup {Asked} /\ reload'
        /\ UNCHANGED <<kind, page, editor, failed, mine, hurried>>
    BY DEF WriteOK, Calls
  <1>2. AsRead(stored') /\ (kind = "hash" => Members(stored') = Members(stored))
    BY <1>1, WrittenIs DEF Inv, TreesInv
  <1>3. TreesInv'
    BY <1>1, <1>2, StoringKeeps
  <1>4. PaneInv'
    BY <1>1 DEF PaneInv
  <1>5. EditInv'
    <2>1. SUFFICES ASSUME ~hurried, ~failed
                   PROVE  /\ writes' = {}
                          /\ editor.open /\ editor.linked => Marshal(EditedDoc') = Due'
                          /\ \A m \in mine : m.at \in Paths /\ Subtree(Due', m.at) = Marshal(m.doc)
      BY <1>1 DEF EditInv
    <2>2. \A v \in writes : v = w
      BY <2>1 DEF Inv, EditInv
    <2>3. writes' = {}
      BY <1>1, <2>2
    <2>4. Due' = stored'
      BY <2>3 DEF Due
    <2>5. Due' = Due
      BY <1>1, <2>2, <2>4, DueIs
    <2>6. EditedDoc' = EditedDoc
      BY <1>1 DEF EditedDoc
    <2> QED
      BY <2>1, <2>3, <2>5, <2>6 DEF Inv, EditInv
  <1> QED
    BY <1>3, <1>4, <1>5 DEF Inv

LEMMA WriteFailsKeeps ==
  ASSUME Inv, NEW w \in writes, WriteFails(w)
  PROVE  Inv'
  <1>1. /\ writes' = writes \ {w} /\ stored' \in {stored, Replace(stored, w.at, w.doc)}
        /\ failed' /\ UNCHANGED <<kind, page, editor, fetches>>
    BY DEF WriteFails, Calls
  <1>2. AsRead(stored') /\ (kind = "hash" => Members(stored') = Members(stored))
    BY <1>1, WrittenIs DEF Inv, TreesInv, ServerInv
  <1>3. TreesInv'
    BY <1>1, <1>2, StoringKeeps
  <1> QED
    BY <1>1, <1>3 DEF Inv, PaneInv, EditInv

LEMMA ReloadKeeps ==
  ASSUME Inv, Reload
  PROVE  Inv'
  <1>1. /\ ~reload' /\ page' = NewPage
        /\ fetches' = {[f EXCEPT !.live = FALSE] : f \in fetches} \cup {Asked}
        /\ editor' = IF editor.open /\ editor.current
                     THEN [editor EXCEPT !.current = FALSE, !.doc = page.doc] ELSE editor
        /\ UNCHANGED <<kind, stored, writes, failed, mine, hurried>>
    BY DEF Reload, Calls
  <1>2. Asked.live /\ ~Asked.read /\ IsFetch(Asked)
    BY DEF Asked, IsFetch
  <1>3. ASSUME NEW g \in fetches', g # Asked
        PROVE  IsFetch(g) /\ ~g.live /\ (g.read => AsRead(g.doc) /\ Fits(g.doc))
    <2>1. PICK f \in fetches : g = [f EXCEPT !.live = FALSE]
      BY <1>1, <1>3
    <2>2. IsFetch(f) /\ (f.read => AsRead(f.doc) /\ Fits(f.doc))
      BY DEF Inv, TreesInv, ServerInv
    <2>3. g = [live |-> FALSE, read |-> f.read, doc |-> f.doc]
      BY <2>1, <2>2 DEF IsFetch
    <2> QED
      BY <2>2, <2>3 DEF IsFetch
  <1>4. ServerInv'
    BY <1>1, <1>2, <1>3 DEF Inv, TreesInv, ServerInv, Fits
  <1>5. PageInv' /\ PaneInv'
    <2>1. Asked \in fetches' /\ \A g \in fetches' : ~(g.live /\ g.read)
      BY <1>1, <1>2, <1>3
    <2> QED
      BY <1>1, <1>2, <2>1 DEF PageInv, PaneInv
  <1>6. CASE editor = Closed
    <2>1. editor' = Closed
      BY <1>1, <1>6, ClosedIs
    <2>2. EditorInv'
      BY <2>1 DEF EditorInv
    <2>3. EditInv'
      BY <1>1, <2>1, ClosedIs DEF Inv, EditInv, Due
    <2> QED
      BY <1>4, <1>5, <2>2, <2>3 DEF Inv, TreesInv
  <1>7. CASE editor # Closed
    <2>1. IsEditor(editor) /\ editor.open
      BY <1>7 DEF Inv, TreesInv, EditorInv, IsEditor
    <2>2. /\ IsEditor(editor') /\ editor'.open /\ editor'.at = editor.at /\ editor'.linked = editor.linked
          /\ ~editor'.current /\ editor'.doc = EditedDoc
      <3>1. CASE editor.current
        <4>1. editor' = [open |-> TRUE, at |-> editor.at, linked |-> editor.linked, current |-> FALSE,
                         doc |-> page.doc]
          BY <1>1, <2>1, <3>1 DEF IsEditor
        <4>2. EditedDoc = page.doc
          BY <3>1 DEF EditedDoc
        <4> QED
          BY <2>1, <4>1, <4>2 DEF IsEditor
      <3>2. CASE ~editor.current
        BY <1>1, <2>1, <3>2 DEF EditedDoc
      <3> QED
        BY <3>1, <3>2
    <2>3. EditedDoc' = EditedDoc
      BY <2>2 DEF EditedDoc
    <2>4. EditorInv'
      BY <1>1, <1>7, <2>1, <2>2, <2>3 DEF Inv, TreesInv, EditorInv, Editable, Fits
    <2>5. EditInv'
      BY <1>1, <2>1, <2>2, <2>3 DEF Inv, EditInv, Due
    <2> QED
      BY <1>4, <1>5, <2>4, <2>5 DEF Inv, TreesInv
  <1> QED
    BY <1>6, <1>7

LEMMA ReadKeeps ==
  ASSUME Inv, NEW f \in fetches, Read(f)
  PROVE  Inv'
  <1>1. PICK g : g = [f EXCEPT !.read = TRUE, !.doc = stored]
    OBVIOUS
  <1>2. /\ fetches' = (fetches \ {f}) \cup {g}
        /\ UNCHANGED <<kind, stored, page, editor, writes, reload, failed, mine, hurried>>
    BY <1>1 DEF Read, Calls
  <1>3. g = [live |-> f.live, read |-> TRUE, doc |-> stored] /\ f.live \in BOOLEAN
    <2>1. f = [live |-> f.live, read |-> f.read, doc |-> f.doc] /\ f.live \in BOOLEAN
      BY DEF Inv, TreesInv, ServerInv, IsFetch
    <2>2. PICK u, v, x, s : u = f.live /\ v = f.read /\ x = f.doc /\ s = stored
      OBVIOUS
    <2>3. f = [live |-> u, read |-> v, doc |-> x] /\ g = [f EXCEPT !.read = TRUE, !.doc = s]
      BY <1>1, <2>1, <2>2
    <2>4. g = [live |-> u, read |-> TRUE, doc |-> s]
      BY <2>3
    <2> QED
      BY <2>1, <2>2, <2>4
  <1>4. IsFetch(g) /\ g.doc = stored /\ AsRead(g.doc) /\ Fits(g.doc) /\ g.live = f.live
    BY <1>3 DEF Inv, TreesInv, ServerInv, IsFetch, Fits
  <1>5. ServerInv' /\ PageInv'
    BY <1>2, <1>4 DEF Inv, TreesInv, ServerInv, PageInv, Fits
  <1>6. EditorInv'
    BY <1>2 DEF Inv, TreesInv, EditorInv, EditedDoc, Editable, Fits
  <1>7. PaneInv'
    BY <1>2, <1>4 DEF Inv, PaneInv
  <1>8. EditInv'
    BY <1>2 DEF Inv, EditInv, Due, EditedDoc
  <1> QED
    BY <1>5, <1>6, <1>7, <1>8 DEF Inv, TreesInv

LEMMA FetchFailsKeeps ==
  ASSUME Inv, NEW f \in fetches, FetchFails(f)
  PROVE  Inv'
  <1>1. /\ fetches' = fetches \ {f} /\ failed'
        /\ UNCHANGED <<kind, stored, page, editor, writes>>
    BY DEF FetchFails, Calls
  <1>2. ServerInv' /\ PageInv'
    BY <1>1 DEF Inv, TreesInv, ServerInv, PageInv, Fits
  <1>3. EditorInv'
    BY <1>1 DEF Inv, TreesInv, EditorInv, EditedDoc, Editable, Fits
  <1> QED
    BY <1>1, <1>2, <1>3 DEF Inv, TreesInv, PaneInv, EditInv

\* A page that lands shows what was read, and goes on with the find.
LEMMA LandingShows ==
  ASSUME Inv, NEW f \in fetches, Land(f), f.live
  PROVE  /\ Shown(page') /\ page'.doc = f.doc /\ AsRead(f.doc) /\ page'.term = page.term
         /\ page.term # Blank /\ CollectMatches(f.doc, page.term) # << >> =>
              page'.rows[cursor'].at = CollectMatches(f.doc, page.term)[page'.pos + 1]
  <1>1. PICK flags : flags = Parsed(f.doc)
    OBVIOUS
  <1>2. PICK q : q = [page EXCEPT !.doc = f.doc, !.flags = flags]
    OBVIOUS
  <1>3. PICK p : p = Render(q)
    OBVIOUS
  <1>4. IF p.term # Blank THEN FindJump(p) ELSE page' = p /\ cursor' = 1
    BY <1>1, <1>2, <1>3 DEF Land
  <1>5. AsRead(f.doc) /\ Held(f.doc)
    BY MarshalOfRead DEF Land, Inv, TreesInv, ServerInv
  <1>6. IsPage(page) /\ page.pos \in Nat /\ page.count \in Nat
    BY DEF Inv, TreesInv, PageInv, GoodPage, NewPage, IsPage
  <1>7. q = [doc |-> f.doc, flags |-> flags, rows |-> page.rows, term |-> page.term, pos |-> page.pos,
             count |-> page.count]
    BY <1>2, <1>6 DEF IsPage
  <1>8. IsPage(q) /\ q.doc = f.doc /\ q.pos = page.pos /\ q.count = page.count /\ q.term = page.term
    BY <1>7 DEF IsPage
  <1>9. Shown(p) /\ p.doc = f.doc /\ p.term = page.term
    BY <1>3, <1>5, <1>6, <1>8, RenderShows
  <1>10. CASE page.term # Blank
    <2>1. FindJump(p) /\ IsPage(p) /\ Held(p.doc) /\ p.pos \in Nat
      BY <1>4, <1>9, <1>10 DEF Shown, GoodPage
    <2>2. /\ Shown(page') /\ page'.doc = p.doc /\ page'.term = p.term
          /\ CollectMatches(p.doc, p.term) # << >> =>
               page'.rows[cursor'].at = CollectMatches(p.doc, p.term)[page'.pos + 1]
      BY <2>1, FindJumpShows
    <2> QED
      BY <1>5, <1>9, <2>2
  <1>11. CASE page.term = Blank
    BY <1>4, <1>5, <1>9, <1>11
  <1> QED
    BY <1>10, <1>11

LEMMA LandKeeps ==
  ASSUME Inv, NEW f \in fetches, Land(f)
  PROVE  Inv'
  <1>1. /\ f.read /\ fetches' = fetches \ {f}
        /\ UNCHANGED <<kind, stored, writes, reload, mine, hurried, failed>>
    BY DEF Land
  <1>2. ServerInv'
    BY <1>1 DEF Inv, TreesInv, ServerInv, Fits
  <1>3. CASE ~f.live
    <2>1. UNCHANGED <<page, editor>>
      BY <1>3 DEF Land
    <2>2. PageInv'
      BY <1>1, <2>1 DEF Inv, TreesInv, PageInv, Fits
    <2>3. EditorInv'
      BY <1>1, <2>1 DEF Inv, TreesInv, EditorInv, EditedDoc, Editable, Fits
    <2>4. PaneInv'
      BY <1>1, <1>3, <2>1 DEF Inv, PaneInv
    <2>5. EditInv'
      BY <1>1, <2>1 DEF Inv, EditInv, Due, EditedDoc
    <2> QED
      BY <1>2, <2>2, <2>3, <2>4, <2>5 DEF Inv, TreesInv
  <1>4. CASE f.live
    <2>1. Shown(page') /\ page'.doc = f.doc /\ AsRead(f.doc)
      BY <1>4, LandingShows
    <2>2. Fits(f.doc)
      BY <1>1 DEF Inv, TreesInv, ServerInv
    <2>3. PageInv' /\ page' # NewPage
      <3>1. page' # NewPage
        BY <2>1, NoDocIsNone DEF Shown, GoodPage, Held, NewPage
      <3> QED
        BY <1>1, <2>1, <2>2, <3>1 DEF PageInv, Shown, Fits
    <2>4. PaneInv'
      <3>1. SUFFICES ASSUME ~reload, ~failed PROVE f.doc = stored /\ \A g \in fetches' : g.live /\ g.read => g.doc = stored
        BY <1>1, <2>1, <2>3, MarshalOfRead DEF PaneInv, Shown
      <3> QED
        BY <1>1, <1>4, <3>1 DEF Inv, PaneInv
    <2>5. editor' = IF editor.open /\ editor.current THEN [editor EXCEPT !.linked = FALSE] ELSE editor
      BY <1>4 DEF Land
    <2>6. EditorInv' /\ EditInv'
      <3>1. CASE editor = Closed
        <4>1. editor' = Closed
          BY <2>5, <3>1, ClosedIs
        <4> QED
          BY <1>1, <4>1, ClosedIs DEF Inv, EditorInv, EditInv, Due
      <3>2. CASE editor # Closed
        <4>1. IsEditor(editor) /\ editor.open
          BY <3>2 DEF Inv, TreesInv, EditorInv, IsEditor
        <4>2. CASE editor.current
          <5>1. editor' = [open |-> TRUE, at |-> editor.at, linked |-> FALSE, current |-> TRUE, doc |-> editor.doc]
            BY <2>5, <4>1, <4>2 DEF IsEditor
          <5>2. IsEditor(editor') /\ ~editor'.linked
            BY <5>1 DEF IsEditor
          <5> QED
            BY <1>1, <5>2 DEF Inv, EditorInv, EditInv, Due
        <4>3. CASE ~editor.current
          <5>1. editor' = editor /\ EditedDoc' = EditedDoc
            BY <2>5, <4>3 DEF EditedDoc
          <5> QED
            BY <1>1, <5>1 DEF Inv, TreesInv, EditorInv, EditInv, Due, Editable, Fits
        <4> QED
          BY <4>2, <4>3
      <3> QED
        BY <3>1, <3>2
    <2> QED
      BY <1>2, <2>3, <2>4, <2>6 DEF Inv, TreesInv
  <1> QED
    BY <1>3, <1>4

\* Every step keeps the invariant.
LEMMA NextKeeps == Inv /\ [Next]_vars => Inv'
  <1> SUFFICES ASSUME Inv, [Next]_vars PROVE Inv'
    OBVIOUS
  <1>1. CASE UNCHANGED vars
    BY <1>1, ElsewhereKeeps DEF vars
  <1>2. CASE \E r \in DOMAIN page.rows : Move(r)
    BY <1>2, ElsewhereKeeps DEF Move, Server
  <1>3. CASE OpenGraph \/ GraphMove \/ GraphFold \/ GraphValues \/ CloseGraph
    BY <1>3, ElsewhereKeeps DEF OpenGraph, GraphMove, GraphFold, GraphValues, CloseGraph, GraphKey, Server
  <1>4. CASE ValueToggle
    BY <1>4, ToggleKeeps
  <1>5. CASE \E term \in Terms \cup {Blank} : Find(term)
    BY <1>5, FindKeeps
  <1>6. CASE FindNext(1) \/ FindNext(-1)
    BY <1>6, FindNextKeeps
  <1>7. CASE OpenEditor
    BY <1>7, OpenEditorKeeps
  <1>8. CASE Cancel
    BY <1>8, ClosingKeeps DEF Cancel, Server
  <1>9. ASSUME NEW name, NEW text, Save(name, text) \/ SaveRefused(name, text) PROVE Inv'
    <2>1. CASE Save(name, text)
      BY <2>1, SaveKeeps
    <2>2. CASE SaveRefused(name, text)
      BY <2>2, ClosingKeeps DEF SaveRefused, Server
    <2> QED
      BY <1>9, <2>1, <2>2
  <1>10. ASSUME NEW w \in writes, WriteOK(w) \/ WriteFails(w) PROVE Inv'
    BY <1>10, WriteOKKeeps, WriteFailsKeeps
  <1>11. CASE Reload
    BY <1>11, ReloadKeeps
  <1>12. ASSUME NEW f \in fetches, Read(f) \/ Land(f) \/ FetchFails(f) PROVE Inv'
    BY <1>12, ReadKeeps, LandKeeps, FetchFailsKeeps
  <1> QED
    BY <1>1, <1>2, <1>3, <1>4, <1>5, <1>6, <1>7, <1>8, <1>9, <1>10, <1>11, <1>12 DEF Next, User, Answer

\* It is an invariant of every behaviour.
LEMMA Invariance == Spec => []Inv
  <1>1. Init => Inv
    BY InitTrees
  <1>2. Inv /\ [Next]_vars => Inv'
    BY NextKeeps
  <1> QED
    BY <1>1, <1>2, PTL DEF Spec

\* renderValue, and the two refreshes of a write: when no call is under way and none has
\* failed, the pane shows the value on the server row by row, after any keys and edits.
THEOREM ShowsServer == Spec => []PaneShowsServer
  <1>1. Inv => PaneShowsServer
    <2> SUFFICES ASSUME Inv, writes = {}, fetches = {}, ~reload, ~failed
                 PROVE  Loaded /\ Marshal(page.doc) = stored /\ page.rows = RowsOf(page.doc, page.flags)
      BY DEF PaneShowsServer, AtRest
    <2>1. page # NewPage /\ Marshal(page.doc) = stored /\ page.rows = RowsOf(page.doc, page.flags)
      BY DEF Inv, PaneInv
    <2> QED
      BY <2>1, LoadedIs DEF Inv, TreesInv
  <1> QED
    BY <1>1, Invariance, PTL

\* saveMemberDoc: what a user who waits for each answer has saved is on the server, node
\* by node, also when the tree was rebuilt or the page replaced under an open editor.
THEOREM EditsSurvive == Spec => []OwnEditsSurvive
  <1>1. Inv => OwnEditsSurvive
    BY DueIs DEF Inv, EditInv, OwnEditsSurvive
  <1> QED
    BY <1>1, Invariance, PTL

\* findJump: after a search, a next, or a page that lands during a search, the cursor is on
\* the row of the current match, whatever edits and toggles have changed.
THEOREM LandsOnMatch == Spec => FindLandsOnMatch
  <1>1. ASSUME Inv
        PROVE  (\/ \E term \in Terms : Find(term)
                \/ FindNext(1) \/ FindNext(-1)
                \/ \E f \in fetches : f.live /\ page.term # Blank /\ Land(f)
                => LET matches == CollectMatches(page'.doc, page'.term)
                   IN  matches # << >> => page'.rows[cursor'].at = matches[page'.pos + 1])
    <2>1. ASSUME NEW p, IsPage(p), Held(p.doc), p.pos \in Nat, FindJump(p)
          PROVE  CollectMatches(page'.doc, page'.term) # << >> =>
                   page'.rows[cursor'].at = CollectMatches(page'.doc, page'.term)[page'.pos + 1]
      BY <2>1, FindJumpShows
    <2>2. ASSUME NEW term \in Terms, Find(term)
          PROVE  CollectMatches(page'.doc, page'.term) # << >> =>
                   page'.rows[cursor'].at = CollectMatches(page'.doc, page'.term)[page'.pos + 1]
      <3>1. GoodPage(page)
        BY <1>1, <2>2, LoadedIs DEF Find, JSONView, Inv, TreesInv, PageInv
      <3>2. PICK p : p = [page EXCEPT !.term = term, !.pos = 0]
        OBVIOUS
      <3>3. p = [doc |-> page.doc, flags |-> page.flags, rows |-> page.rows, term |-> term, pos |-> 0,
                 count |-> page.count]
        BY <3>1, <3>2 DEF GoodPage, IsPage
      <3>4. IsPage(p) /\ Held(p.doc) /\ p.pos = 0
        BY <3>1, <3>3 DEF GoodPage, IsPage
      <3>5. FindJump(p)
        BY <2>2, <3>2, ValueTreeAssumption DEF Find
      <3> QED
        BY <2>1, <3>4, <3>5
    <2>3. ASSUME NEW dir \in {1, -1}, FindNext(dir)
          PROVE  CollectMatches(page'.doc, page'.term) # << >> =>
                   page'.rows[cursor'].at = CollectMatches(page'.doc, page'.term)[page'.pos + 1]
      <3>1. GoodPage(page) /\ page.count > 0
        BY <1>1, <2>3, LoadedIs DEF FindNext, Inv, TreesInv, PageInv
      <3>2. PICK n : n = (page.pos + dir + page.count) % page.count
        OBVIOUS
      <3>3. n \in Nat
        BY <3>1, <3>2 DEF GoodPage
      <3>4. PICK p : p = [page EXCEPT !.pos = n]
        OBVIOUS
      <3>5. p = [doc |-> page.doc, flags |-> page.flags, rows |-> page.rows, term |-> page.term, pos |-> n,
                 count |-> page.count]
        BY <3>1, <3>4 DEF GoodPage, IsPage
      <3>6. IsPage(p) /\ Held(p.doc) /\ p.pos = n
        BY <3>1, <3>5 DEF GoodPage, IsPage
      <3>7. FindJump(p)
        BY <2>3, <3>2, <3>4 DEF FindNext
      <3> QED
        BY <2>1, <3>3, <3>6, <3>7
    <2>4. ASSUME NEW f \in fetches, f.live, page.term # Blank, Land(f)
          PROVE  CollectMatches(page'.doc, page'.term) # << >> =>
                   page'.rows[cursor'].at = CollectMatches(page'.doc, page'.term)[page'.pos + 1]
      BY <1>1, <2>4, LandingShows
    <2> QED
      BY <2>2, <2>3, <2>4
  <1> QED
    BY <1>1, Invariance, PTL DEF FindLandsOnMatch

----------------------------------------------------------------------------
(* The diagram: what is drawn.                                             *)

IsGraph(g) ==
  /\ g = [t |-> g.t, folded |-> g.folded, cursor |-> g.cursor, showValues |-> g.showValues,
          offX |-> g.offX, offY |-> g.offY]
  /\ Document(g.t) /\ g.showValues \in BOOLEAN /\ g.offX \in Int /\ g.offY \in Int
  /\ g.cursor \in VisibleNodes(g)

\* The nodes that are drawn are a finite set of paths.
LEMMA VisibleIs ==
  ASSUME NEW g, Document(g.t)
  PROVE  VisibleNodes(g) \subseteq DOMAIN g.t /\ VisibleNodes(g) \subseteq Paths /\ IsFiniteSet(VisibleNodes(g))
  <1>1. DOMAIN g.t \subseteq Paths /\ IsFiniteSet(DOMAIN g.t)
    BY DocumentIs
  <1>2. VisibleNodes(g) \subseteq DOMAIN g.t
    BY DEF VisibleNodes
  <1> QED
    BY <1>1, <1>2, FS_Subset

\* What is above a path is above what lies under it.
LEMMA CutOfCut ==
  ASSUME NEW q \in Paths, NEW p \in Paths, IsPrefix(p, q), NEW n \in 0 .. Len(p)
  PROVE  n \in 0 .. Len(q) /\ SubSeq(q, 1, n) = SubSeq(p, 1, n)
  <1>1. Len(p) \in Nat /\ Len(q) \in Nat /\ Len(p) <= Len(q)
    BY PathLen, PrefixPoints
  <1>2. n \in 0 .. Len(q)
    BY <1>1
  <1>3. PICK x, y : x = SubSeq(q, 1, n) /\ y = SubSeq(p, 1, n)
    OBVIOUS
  <1>4. x \in Paths /\ Len(x) = n /\ IsPrefix(x, q)
    BY <1>2, <1>3, CutIs
  <1>5. y \in Paths /\ Len(y) = n /\ IsPrefix(y, p)
    BY <1>3, CutIs
  <1>6. IsPrefix(y, q)
    BY <1>5, PrefixTrans
  <1>7. Len(x) <= Len(y) /\ Len(x) >= Len(y)
    BY <1>4, <1>5
  <1>8. IsPrefix(x, y)
    BY <1>4, <1>5, <1>6, <1>7, PrefixChain
  <1>9. x = y
    BY <1>4, <1>5, <1>7, <1>8, PrefixAnti
  <1> QED
    BY <1>2, <1>3, <1>9

\* The children of what is drawn are drawn.
LEMMA KidsVisible ==
  ASSUME NEW g, Document(g.t), NEW p \in VisibleNodes(g), NEW q \in VisibleKids(g, p)
  PROVE  q \in VisibleNodes(g) /\ q \in Paths /\ p \in Paths /\ Len(q) = Len(p) + 1 /\ IsPrefix(p, q)
  <1>1. p \notin g.folded /\ q \in DOMAIN g.t /\ Len(q) = Len(p) + 1 /\ IsPrefix(p, q)
    BY DEF VisibleKids, Kids
  <1>2. p \in Paths /\ q \in Paths /\ Len(p) \in Nat /\ Len(q) \in Nat
    BY <1>1, VisibleIs, DocumentIs, PathLen
  <1>3. ASSUME NEW n \in 0 .. Len(q) - 1 PROVE SubSeq(q, 1, n) \notin g.folded
    <2>1. n \in 0 .. Len(p) /\ (n = Len(p) \/ n \in 0 .. Len(p) - 1)
      BY <1>1, <1>2
    <2>2. SubSeq(q, 1, n) = SubSeq(p, 1, n)
      BY <1>1, <1>2, <2>1, CutOfCut
    <2>3. CASE n = Len(p)
      <3>1. SubSeq(p, 1, n) = p
        BY <1>2, <2>3, PrefixRefl, PrefixIsCut
      <3> QED
        BY <1>1, <2>2, <3>1
    <2>4. CASE n \in 0 .. Len(p) - 1
      BY <2>2, <2>4 DEF VisibleNodes
    <2> QED
      BY <2>1, <2>3, <2>4
  <1> QED
    BY <1>1, <1>2, <1>3 DEF VisibleNodes

\* A finite set of numbers has a bound.
LEMMA BoundedNat ==
  ASSUME NEW T, T \subseteq Nat, IsFiniteSet(T)
  PROVE  \E b \in Nat : \A x \in T : x <= b
  <1>1. PICK n \in Nat : ExistsSurjection(1 .. n, T)
    BY FS_NatSurjection
  <1>2. PICK f \in Surjection(1 .. n, T) : TRUE
    BY <1>1 DEF ExistsSurjection
  <1>3. f \in [1 .. n -> T] /\ \A x \in T : \E i \in 1 .. n : f[i] = x
    BY <1>2 DEF Surjection
  <1>4. PICK K : K = {k \in Nat : \E b \in Nat : \A i \in 1 .. n : i <= k => f[i] <= b}
    OBVIOUS
  <1>5. 0 \in K
    BY <1>4
  <1>6. ASSUME NEW k \in Nat, k \in K PROVE k + 1 \in K
    <2>1. PICK b \in Nat : \A i \in 1 .. n : i <= k => f[i] <= b
      BY <1>4, <1>6
    <2>2. CASE k + 1 \in 1 .. n
      <3>1. f[k + 1] \in Nat
        BY <1>3, <2>2
      <3>2. PICK c \in Nat : b <= c /\ f[k + 1] <= c
        BY <2>1, <3>1
      <3>3. \A i \in 1 .. n : i <= k + 1 => f[i] <= c
        <4> SUFFICES ASSUME NEW i \in 1 .. n, i <= k + 1 PROVE f[i] <= c
          OBVIOUS
        <4>1. f[i] \in Nat
          BY <1>3
        <4>2. CASE i = k + 1
          BY <3>2, <4>2
        <4>3. CASE i <= k
          BY <2>1, <3>2, <4>1, <4>3
        <4> QED
          BY <4>2, <4>3
      <3> QED
        BY <1>4, <3>3
    <2>3. CASE k + 1 \notin 1 .. n
      <3>1. \A i \in 1 .. n : i <= k + 1 => i <= k
        BY <2>3
      <3>2. \A i \in 1 .. n : i <= k + 1 => f[i] <= b
        BY <2>1, <3>1
      <3> QED
        BY <1>4, <3>2
    <2> QED
      BY <2>2, <2>3
  <1>7. n \in K
    BY <1>5, <1>6, NatInduct
  <1>8. PICK b \in Nat : \A i \in 1 .. n : i <= n => f[i] <= b
    BY <1>4, <1>7
  <1>9. \A i \in 1 .. n : f[i] <= b
    BY <1>8
  <1>10. \A x \in T : x <= b
    BY <1>3, <1>9
  <1> QED
    BY <1>10

\* A row of children has a first and a last.
LEMMA EndsOf ==
  ASSUME NEW S, S # {}, IsFiniteSet(S), S \subseteq Paths, \A q \in S : Len(q) >= 1
  PROVE  FirstOf(S) \in S /\ LastOf(S) \in S
  <1>1. \A q \in S : ChildNo(q) \in Nat
    <2> SUFFICES ASSUME NEW q \in S PROVE ChildNo(q) \in Nat
      OBVIOUS
    <2>1. q \in Paths /\ Len(q) \in Nat /\ Len(q) >= 1
      BY PathLen
    <2>2. Len(q) \in 1 .. Len(q)
      BY <2>1
    <2> QED
      BY <2>1, <2>2, PartsAreNumbers DEF ChildNo
  <1>2. PICK f : f = [q \in S |-> ChildNo(q)]
    OBVIOUS
  <1>3. PICK T : T = {f[q] : q \in DOMAIN f}
    OBVIOUS
  <1>4. T \subseteq Nat /\ T # {} /\ IsFiniteSet(T) /\ \A q \in S : ChildNo(q) \in T
    BY <1>1, <1>2, <1>3, ImageFinite
  <1>5. \A x \in T : \E q \in S : ChildNo(q) = x
    BY <1>2, <1>3
  <1>6. \E p \in S : \A q \in S : ChildNo(p) <= ChildNo(q)
    <2>1. PICK x \in T : \A y \in T : x <= y
      BY <1>4, LeastNat
    <2>2. PICK p \in S : ChildNo(p) = x
      BY <1>5
    <2> QED
      BY <1>4, <2>1, <2>2
  <1>7. \E p \in S : \A q \in S : ChildNo(p) >= ChildNo(q)
    <2>1. PICK b \in Nat : \A x \in T : x <= b
      BY <1>4, BoundedNat
    <2>2. PICK U : U = {b - x : x \in T}
      OBVIOUS
    <2>3. U \subseteq Nat /\ U # {}
      <3>1. \A x \in T : b - x \in Nat
        BY <1>4, <2>1
      <3>2. PICK x : x \in T
        BY <1>4
      <3>3. b - x \in U
        BY <2>2, <3>2
      <3> QED
        BY <2>2, <3>1, <3>3
    <2>4. PICK u \in U : \A v \in U : u <= v
      BY <2>3, LeastNat
    <2>5. PICK x \in T : u = b - x
      BY <2>2
    <2>6. \A y \in T : x >= y
      <3> SUFFICES ASSUME NEW y \in T PROVE x >= y
        OBVIOUS
      <3>1. b - y \in U
        BY <2>2
      <3>2. b - x <= b - y
        BY <2>4, <2>5, <3>1
      <3> QED
        BY <1>4, <2>1, <3>2
    <2>7. PICK p \in S : ChildNo(p) = x
      BY <1>5
    <2> QED
      BY <1>4, <2>6, <2>7
  <1> QED
    BY <1>6, <1>7 DEF FirstOf, LastOf

LEMMA KidsEnds ==
  ASSUME NEW g, Document(g.t), NEW p \in VisibleNodes(g), VisibleKids(g, p) # {}
  PROVE  FirstOf(VisibleKids(g, p)) \in VisibleKids(g, p) /\ LastOf(VisibleKids(g, p)) \in VisibleKids(g, p)
  <1>1. PICK S : S = VisibleKids(g, p)
    OBVIOUS
  <1>2. S \subseteq Paths /\ S \subseteq VisibleNodes(g) /\ \A q \in S : Len(q) = Len(p) + 1
    BY <1>1, KidsVisible
  <1>3. IsFiniteSet(S)
    BY <1>2, VisibleIs, FS_Subset
  <1>4. Len(p) \in Nat
    BY VisibleIs, PathLen
  <1>5. \A q \in S : Len(q) >= 1
    BY <1>2, <1>4
  <1> QED
    BY <1>1, <1>2, <1>3, <1>5, EndsOf

LeafNodes(g) == {p \in VisibleNodes(g) : VisibleKids(g, p) = {}}
SlotOf(g, p) == RankIn(LeafNodes(g), p)

\* What layout computes for a node, when it has done its children.
CentreFrom(g, c, p) ==
  IF p \in LeafNodes(g) THEN (SlotOf(g, p) * 20) + 9
  ELSE (c[FirstOf(VisibleKids(g, p))] + c[LastOf(VisibleKids(g, p))]) \div 2
LaidOut(g, c) == c = [p \in VisibleNodes(g) |-> CentreFrom(g, c, p)]

\* A leaf has a slot.
LEMMA SlotsAre ==
  ASSUME NEW g, Document(g.t)
  PROVE  \A p \in LeafNodes(g) : SlotOf(g, p) \in Nat
  <1>1. IsFiniteSet(LeafNodes(g)) /\ LeafNodes(g) \subseteq Paths
    BY VisibleIs, FS_Subset DEF LeafNodes
  <1> QED
    BY <1>1, RankRange DEF SlotOf

\* The nodes of a tree do not go deeper than some level.
LEMMA DepthBound ==
  ASSUME NEW g, Document(g.t)
  PROVE  \E b \in Nat : \A p \in VisibleNodes(g) : Len(p) <= b
  <1>1. VisibleNodes(g) \subseteq Paths /\ IsFiniteSet(VisibleNodes(g))
    BY VisibleIs
  <1>2. PICK f : f = [p \in VisibleNodes(g) |-> Len(p)]
    OBVIOUS
  <1>3. PICK T : T = {f[p] : p \in DOMAIN f}
    OBVIOUS
  <1>4. IsFiniteSet(T)
    BY <1>1, <1>2, <1>3, ImageFinite
  <1>5. \A p \in VisibleNodes(g) : Len(p) \in Nat
    BY <1>1, PathLen
  <1>6. T \subseteq Nat /\ \A p \in VisibleNodes(g) : Len(p) \in T
    BY <1>2, <1>3, <1>5
  <1>7. PICK b \in Nat : \A x \in T : x <= b
    BY <1>4, <1>6, BoundedNat
  <1> QED
    BY <1>6, <1>7

\* The levels from the deepest up.
Deep(g, b, k) == {p \in VisibleNodes(g) : Len(p) + k >= b}

\* layout has one result: level by level, from the deepest up.
LEMMA LayoutExists ==
  ASSUME NEW g, Document(g.t)
  PROVE  \E c : LaidOut(g, c)
  <1>1. PICK b \in Nat : \A p \in VisibleNodes(g) : Len(p) <= b
    BY DepthBound
  <1>2. PICK K : K = {k \in Nat : \E c : c = [p \in Deep(g, b + 1, k) |-> CentreFrom(g, c, p)]}
    OBVIOUS
  <1>3. VisibleNodes(g) \subseteq Paths /\ \A p \in VisibleNodes(g) : Len(p) \in Nat
    BY VisibleIs, PathLen
  <1>4. 0 \in K
    <2>1. Deep(g, b + 1, 0) = {}
      BY <1>1, <1>3 DEF Deep
    <2>2. PICK c : c = [p \in {} |-> 0]
      OBVIOUS
    <2>3. c = [p \in Deep(g, b + 1, 0) |-> CentreFrom(g, c, p)]
      BY <2>1, <2>2
    <2> QED
      BY <1>2, <2>3
  <1>5. ASSUME NEW k \in Nat, k \in K PROVE k + 1 \in K
    <2>1. PICK D, E : D = Deep(g, b + 1, k) /\ E = Deep(g, b + 1, k + 1)
      OBVIOUS
    <2>2. PICK c : c = [p \in D |-> CentreFrom(g, c, p)]
      BY <1>2, <1>5, <2>1
    <2>3. PICK d : d = [p \in E |-> CentreFrom(g, c, p)]
      OBVIOUS
    <2>4. D \subseteq E /\ E \subseteq VisibleNodes(g)
      BY <1>3, <2>1 DEF Deep
    <2>5. \A p \in D : d[p] = c[p]
      BY <2>2, <2>3, <2>4
    <2>6. ASSUME NEW p \in E PROVE CentreFrom(g, d, p) = CentreFrom(g, c, p)
      <3>1. CASE p \in LeafNodes(g)
        BY <3>1 DEF CentreFrom
      <3>2. CASE p \notin LeafNodes(g)
        <4>1. p \in VisibleNodes(g) /\ VisibleKids(g, p) # {}
          BY <2>4, <3>2 DEF LeafNodes
        <4>2. PICK x, y : x = FirstOf(VisibleKids(g, p)) /\ y = LastOf(VisibleKids(g, p))
          OBVIOUS
        <4>3. x \in VisibleKids(g, p) /\ y \in VisibleKids(g, p)
          BY <4>1, <4>2, KidsEnds
        <4>4. x \in VisibleNodes(g) /\ y \in VisibleNodes(g) /\ Len(x) = Len(p) + 1 /\ Len(y) = Len(p) + 1
          BY <4>1, <4>3, KidsVisible
        <4>5. Len(p) + (k + 1) >= b + 1
          BY <2>1 DEF Deep
        <4>6. Len(x) + k >= b + 1 /\ Len(y) + k >= b + 1
          BY <1>3, <4>1, <4>4, <4>5
        <4>7. x \in D /\ y \in D
          BY <2>1, <4>4, <4>6 DEF Deep
        <4>8. d[x] = c[x] /\ d[y] = c[y]
          BY <2>5, <4>7
        <4> QED
          BY <3>2, <4>2, <4>8 DEF CentreFrom
      <3> QED
        BY <3>1, <3>2
    <2>7. d = [p \in E |-> CentreFrom(g, d, p)]
      BY <2>3, <2>6
    <2> QED
      BY <1>2, <2>1, <2>7
  <1>6. b + 1 \in K
    BY <1>4, <1>5, NatInduct
  <1>7. Deep(g, b + 1, b + 1) = VisibleNodes(g)
    BY <1>3 DEF Deep
  <1> QED
    BY <1>2, <1>6, <1>7 DEF LaidOut

LEMMA LayoutUnique ==
  ASSUME NEW g, Document(g.t), NEW c, LaidOut(g, c), NEW d, LaidOut(g, d)
  PROVE  c = d
  <1>1. PICK b \in Nat : \A p \in VisibleNodes(g) : Len(p) <= b
    BY DepthBound
  <1>2. PICK K : K = {k \in Nat : \A p \in Deep(g, b + 1, k) : c[p] = d[p]}
    OBVIOUS
  <1>3. VisibleNodes(g) \subseteq Paths /\ \A p \in VisibleNodes(g) : Len(p) \in Nat
    BY VisibleIs, PathLen
  <1>4. 0 \in K
    BY <1>1, <1>2, <1>3 DEF Deep
  <1>5. ASSUME NEW k \in Nat, k \in K PROVE k + 1 \in K
    <2>1. ASSUME NEW p \in Deep(g, b + 1, k + 1) PROVE c[p] = d[p]
      <3>1. p \in VisibleNodes(g) /\ Len(p) + (k + 1) >= b + 1
        BY <2>1 DEF Deep
      <3>2. c[p] = CentreFrom(g, c, p) /\ d[p] = CentreFrom(g, d, p)
        BY <3>1 DEF LaidOut
      <3>3. CASE p \in LeafNodes(g)
        BY <3>2, <3>3 DEF CentreFrom
      <3>4. CASE p \notin LeafNodes(g)
        <4>1. VisibleKids(g, p) # {}
          BY <3>1, <3>4 DEF LeafNodes
        <4>2. PICK x, y : x = FirstOf(VisibleKids(g, p)) /\ y = LastOf(VisibleKids(g, p))
          OBVIOUS
        <4>3. x \in VisibleKids(g, p) /\ y \in VisibleKids(g, p)
          BY <3>1, <4>1, <4>2, KidsEnds
        <4>4. x \in VisibleNodes(g) /\ y \in VisibleNodes(g) /\ Len(x) = Len(p) + 1 /\ Len(y) = Len(p) + 1
          BY <3>1, <4>3, KidsVisible
        <4>5. Len(x) + k >= b + 1 /\ Len(y) + k >= b + 1
          BY <1>3, <3>1, <4>4
        <4>6. c[x] = d[x] /\ c[y] = d[y]
          BY <1>2, <1>5, <4>4, <4>5 DEF Deep
        <4> QED
          BY <3>2, <3>4, <4>2, <4>6 DEF CentreFrom
      <3> QED
        BY <3>3, <3>4
    <2> QED
      BY <1>2, <2>1
  <1>6. b + 1 \in K
    BY <1>4, <1>5, NatInduct
  <1>7. \A p \in VisibleNodes(g) : c[p] = d[p]
    BY <1>2, <1>3, <1>6 DEF Deep
  <1>8. c = [p \in DOMAIN c |-> c[p]] /\ d = [p \in DOMAIN d |-> d[p]] /\ DOMAIN c = VisibleNodes(g) /\ DOMAIN d = VisibleNodes(g)
    BY DEF LaidOut
  <1> QED
    BY <1>7, <1>8

\* Centres is what layout computes.
LEMMA CentresAre ==
  ASSUME NEW g, Document(g.t)
  PROVE  LaidOut(g, Centres(g))
  <1>1. PICK S : S = LeafNodes(g)
    OBVIOUS
  <1>2. IsFiniteSet(S) /\ S \subseteq Paths
    BY <1>1, VisibleIs, FS_Subset DEF LeafNodes
  <1>3. PICK leaves : leaves = InOrder(S)
    OBVIOUS
  <1>4. /\ Cardinality(S) \in Nat /\ DOMAIN leaves = 1 .. Cardinality(S)
        /\ \A i \in 1 .. Cardinality(S) : leaves[i] \in S /\ RankIn(S, leaves[i]) = i - 1
        /\ \A p \in S : \E i \in 1 .. Cardinality(S) : leaves[i] = p
    BY <1>2, <1>3, InOrderIs
  <1>5. Range(leaves) = S
    BY <1>4 DEF Range
  <1>6. PICK slot : slot = [p \in Range(leaves) |-> (CHOOSE i \in DOMAIN leaves : leaves[i] = p) - 1]
    OBVIOUS
  <1>7. DOMAIN slot = S
    BY <1>5, <1>6
  <1>8. ASSUME NEW p \in S PROVE slot[p] = SlotOf(g, p)
    <2>1. PICK i : i = CHOOSE j \in DOMAIN leaves : leaves[j] = p
      OBVIOUS
    <2>2. i \in DOMAIN leaves /\ leaves[i] = p
      BY <1>4, <2>1
    <2>3. slot[p] = i - 1
      BY <1>5, <1>6, <2>1
    <2> QED
      BY <1>1, <1>4, <2>2, <2>3 DEF SlotOf
  <1> DEFINE Rec(c) ==
    c = [p \in VisibleNodes(g) |->
           IF p \in DOMAIN slot THEN (slot[p] * (cardW + cardGap)) + (cardW \div 2)
           ELSE (c[FirstOf(VisibleKids(g, p))] + c[LastOf(VisibleKids(g, p))]) \div 2]
  <1>9. Centres(g) = CHOOSE c : Rec(c)
    BY <1>1, <1>3, <1>6 DEF Centres, LeafNodes
  <1>10. cardW + cardGap = 20 /\ cardW \div 2 = 9
    BY DEF cardW, cardGap
  <1>11. ASSUME NEW c, NEW p \in VisibleNodes(g)
         PROVE  CentreFrom(g, c, p) =
                  IF p \in DOMAIN slot THEN (slot[p] * (cardW + cardGap)) + (cardW \div 2)
                  ELSE (c[FirstOf(VisibleKids(g, p))] + c[LastOf(VisibleKids(g, p))]) \div 2
    <2>1. CASE p \in S
      <3>1. slot[p] = SlotOf(g, p)
        BY <1>8, <2>1
      <3> QED
        BY <1>1, <1>7, <1>10, <2>1, <3>1 DEF CentreFrom
    <2>2. CASE p \notin S
      BY <1>1, <1>7, <2>2 DEF CentreFrom
    <2> QED
      BY <2>1, <2>2
  <1>12. ASSUME NEW c PROVE Rec(c) <=> LaidOut(g, c)
    BY <1>11 DEF LaidOut
  <1> HIDE DEF Rec
  <1>13. \E c : Rec(c)
    BY <1>12, LayoutExists
  <1>14. Rec(CHOOSE c : Rec(c))
    BY <1>13
  <1> QED
    BY <1>9, <1>12, <1>14

Middle(g, l) == (SlotOf(g, l) * 20) + 9

\* Of two nodes of one level, what lies under the first comes first.
LEMMA UnderInOrder ==
  ASSUME NEW p \in Paths, NEW q \in Paths, Len(p) = Len(q), p # q, Before(p, q),
         NEW l \in Paths, IsPrefix(p, l), NEW m \in Paths, IsPrefix(q, m)
  PROVE  Before(l, m)
  <1>1. Len(p) \in Nat /\ Len(q) \in Nat /\ Len(l) \in Nat /\ Len(m) \in Nat
    BY PathLen
  <1>2. ~IsPrefix(p, q)
    BY <1>1, PrefixAnti
  <1>3. PICK i \in Nat : LeftOf(p, q, i)
    BY <1>2, BeforePoints
  <1>4. Len(p) <= Len(l) /\ \A j \in 1 .. Len(p) : p[j] = l[j]
    BY PrefixPoints
  <1>5. Len(q) <= Len(m) /\ \A j \in 1 .. Len(q) : q[j] = m[j]
    BY PrefixPoints
  <1>6. LeftOf(l, m, i)
    BY <1>1, <1>3, <1>4, <1>5 DEF LeftOf
  <1> QED
    BY <1>6, BeforePoints

\* A node is drawn between two of the leaves under it.
LEMMA Between ==
  ASSUME NEW g, Document(g.t), NEW c, LaidOut(g, c), NEW p \in VisibleNodes(g)
  PROVE  /\ c[p] \in Int
         /\ \E l \in LeafNodes(g) : IsPrefix(p, l) /\ Middle(g, l) <= c[p]
         /\ \E l \in LeafNodes(g) : IsPrefix(p, l) /\ c[p] <= Middle(g, l)
  <1> DEFINE Midway(x) == /\ c[x] \in Int
                          /\ \E l \in LeafNodes(g) : IsPrefix(x, l) /\ Middle(g, l) <= c[x]
                          /\ \E l \in LeafNodes(g) : IsPrefix(x, l) /\ c[x] <= Middle(g, l)
  <1>1. PICK b \in Nat : \A x \in VisibleNodes(g) : Len(x) <= b
    BY DepthBound
  <1>2. PICK K : K = {k \in Nat : \A x \in Deep(g, b + 1, k) : Midway(x)}
    OBVIOUS
  <1>3. VisibleNodes(g) \subseteq Paths /\ \A x \in VisibleNodes(g) : Len(x) \in Nat
    BY VisibleIs, PathLen
  <1>4. 0 \in K
    <2>1. Deep(g, b + 1, 0) = {}
      BY <1>1, <1>3 DEF Deep
    <2> QED
      BY <1>2, <2>1
  <1>5. ASSUME NEW k \in Nat, k \in K PROVE k + 1 \in K
    <2>1. ASSUME NEW x \in Deep(g, b + 1, k + 1) PROVE Midway(x)
      <3>1. x \in VisibleNodes(g) /\ Len(x) + (k + 1) >= b + 1 /\ x \in Paths /\ Len(x) \in Nat
        BY <1>3, <2>1 DEF Deep
      <3>2. c[x] = CentreFrom(g, c, x)
        BY <3>1 DEF LaidOut
      <3>3. CASE x \in LeafNodes(g)
        <4>1. c[x] = Middle(g, x) /\ SlotOf(g, x) \in Nat
          BY <3>2, <3>3, SlotsAre DEF CentreFrom, Middle
        <4>2. Middle(g, x) \in Int
          BY <4>1 DEF Middle
        <4>3. IsPrefix(x, x)
          BY <3>1, PrefixRefl
        <4>4. Middle(g, x) <= c[x] /\ c[x] <= Middle(g, x) /\ c[x] \in Int
          BY <4>1, <4>2
        <4> QED
          BY <3>3, <4>3, <4>4
      <3>4. CASE x \notin LeafNodes(g)
        <4>1. VisibleKids(g, x) # {}
          BY <3>1, <3>4 DEF LeafNodes
        <4>2. PICK y, z : y = FirstOf(VisibleKids(g, x)) /\ z = LastOf(VisibleKids(g, x))
          OBVIOUS
        <4>3. y \in VisibleKids(g, x) /\ z \in VisibleKids(g, x)
          BY <3>1, <4>1, <4>2, KidsEnds
        <4>4. /\ y \in VisibleNodes(g) /\ y \in Paths /\ IsPrefix(x, y) /\ Len(y) = Len(x) + 1
              /\ z \in VisibleNodes(g) /\ z \in Paths /\ IsPrefix(x, z) /\ Len(z) = Len(x) + 1
          BY <3>1, <4>3, KidsVisible
        <4>5. Len(y) + k >= b + 1 /\ Len(z) + k >= b + 1
          BY <1>3, <3>1, <4>4
        <4>6. Midway(y) /\ Midway(z)
          BY <1>2, <1>5, <4>4, <4>5 DEF Deep
        <4>7. c[x] = (c[y] + c[z]) \div 2
          BY <3>2, <3>4, <4>2 DEF CentreFrom
        <4>8. ASSUME NEW l \in LeafNodes(g) PROVE l \in Paths /\ Middle(g, l) \in Int
          <5>1. l \in Paths /\ SlotOf(g, l) \in Nat
            BY <1>3, SlotsAre DEF LeafNodes
          <5> QED
            BY <5>1 DEF Middle
        <4>9. c[x] \in Int /\ (c[y] <= c[z] => c[y] <= c[x] /\ c[x] <= c[z])
                           /\ (c[z] <= c[y] => c[z] <= c[x] /\ c[x] <= c[y])
          BY <4>6, <4>7
        <4>10. c[y] \in Int /\ c[z] \in Int
          BY <4>6
        <4>11. PICK l1 \in LeafNodes(g), m1 \in LeafNodes(g) :
                 IsPrefix(y, l1) /\ Middle(g, l1) <= c[y] /\ IsPrefix(y, m1) /\ c[y] <= Middle(g, m1)
          BY <4>6
        <4>12. PICK l2 \in LeafNodes(g), m2 \in LeafNodes(g) :
                 IsPrefix(z, l2) /\ Middle(g, l2) <= c[z] /\ IsPrefix(z, m2) /\ c[z] <= Middle(g, m2)
          BY <4>6
        <4>13. IsPrefix(x, l1) /\ IsPrefix(x, l2) /\ IsPrefix(x, m1) /\ IsPrefix(x, m2)
          BY <3>1, <4>4, <4>8, <4>11, <4>12, PrefixTrans
        <4>14. /\ Middle(g, l1) \in Int /\ Middle(g, m1) \in Int
               /\ Middle(g, l2) \in Int /\ Middle(g, m2) \in Int
          BY <4>8
        <4>15. Middle(g, l1) <= c[x] \/ Middle(g, l2) <= c[x]
          BY <4>9, <4>10, <4>11, <4>12, <4>14
        <4>16. c[x] <= Middle(g, m1) \/ c[x] <= Middle(g, m2)
          BY <4>9, <4>10, <4>11, <4>12, <4>14
        <4> QED
          BY <4>9, <4>13, <4>15, <4>16
      <3> QED
        BY <3>3, <3>4
    <2> HIDE DEF Midway
    <2> QED
      BY <1>2, <2>1
  <1>6. b + 1 \in K
    BY <1>4, <1>5, NatInduct
  <1>7. p \in Deep(g, b + 1, b + 1)
    BY <1>3 DEF Deep
  <1> QED
    BY <1>2, <1>6, <1>7

\* Two nodes of one level are a card and a gap apart.
LEMMA LevelApart ==
  ASSUME NEW g, Document(g.t), NEW c, LaidOut(g, c), NEW p \in VisibleNodes(g), NEW q \in VisibleNodes(g),
         Len(p) = Len(q), p # q, Before(p, q)
  PROVE  c[p] \in Int /\ c[q] \in Int /\ c[p] + 20 <= c[q]
  <1>1. PICK l \in LeafNodes(g) : IsPrefix(p, l) /\ c[p] <= Middle(g, l)
    BY Between
  <1>2. PICK m \in LeafNodes(g) : IsPrefix(q, m) /\ Middle(g, m) <= c[q]
    BY Between
  <1>3. IsFiniteSet(LeafNodes(g)) /\ LeafNodes(g) \subseteq Paths /\ p \in Paths /\ q \in Paths
    BY VisibleIs, FS_Subset DEF LeafNodes
  <1>4. Before(l, m)
    BY <1>1, <1>2, <1>3, UnderInOrder
  <1>5. SlotOf(g, l) \in Nat /\ SlotOf(g, m) \in Nat /\ SlotOf(g, l) < SlotOf(g, m)
    BY <1>3, <1>4, RankGrows DEF SlotOf
  <1>6. c[p] \in Int /\ c[q] \in Int
    BY Between
  <1> QED
    BY <1>1, <1>2, <1>5, <1>6 DEF Middle

\* What layout makes of a graph.
LEMMA CardsAre ==
  ASSUME NEW g, Document(g.t)
  PROVE  \E c : /\ LaidOut(g, c) /\ DOMAIN Cards(g) = VisibleNodes(g)
                /\ \A p \in VisibleNodes(g) :
                     /\ c[p] \in Int /\ Len(p) \in Nat
                     /\ Cards(g)[p].x = c[p] - 9 /\ Cards(g)[p].w = 18
                     /\ Cards(g)[p].h = CardHeight(g) /\ Cards(g)[p].y = Len(p) * (CardHeight(g) + 2)
  <1>1. PICK c : c = Centres(g)
    OBVIOUS
  <1>2. LaidOut(g, c)
    BY <1>1, CentresAre
  <1>3. DOMAIN c = VisibleNodes(g)
    BY <1>2 DEF LaidOut
  <1>4. cardW = 18 /\ cardW \div 2 = 9
    BY DEF cardW
  <1>5. Cards(g) = [p \in VisibleNodes(g) |-> [x |-> c[p] - 9, y |-> Len(p) * (CardHeight(g) + 2),
                                               w |-> 18, h |-> CardHeight(g)]]
    BY <1>1, <1>3, <1>4 DEF Cards
  <1>6. \A p \in VisibleNodes(g) : c[p] \in Int
    BY <1>2, Between
  <1>7. \A p \in VisibleNodes(g) : Len(p) \in Nat
    BY VisibleIs, PathLen
  <1> QED
    BY <1>2, <1>5, <1>6, <1>7

\* Two cards are apart: in height on different levels, in width on the same.
LEMMA CardsDisjoint ==
  ASSUME NEW g, Document(g.t), NEW p \in VisibleNodes(g), NEW q \in VisibleNodes(g), p # q
  PROVE  \/ Cards(g)[p].y + Cards(g)[p].h <= Cards(g)[q].y \/ Cards(g)[q].y + Cards(g)[q].h <= Cards(g)[p].y
         \/ Cards(g)[p].x + Cards(g)[p].w <= Cards(g)[q].x \/ Cards(g)[q].x + Cards(g)[q].w <= Cards(g)[p].x
  <1>1. PICK c : /\ LaidOut(g, c)
                 /\ \A x \in VisibleNodes(g) :
                     /\ c[x] \in Int /\ Len(x) \in Nat
                     /\ Cards(g)[x].x = c[x] - 9 /\ Cards(g)[x].w = 18
                     /\ Cards(g)[x].h = CardHeight(g) /\ Cards(g)[x].y = Len(x) * (CardHeight(g) + 2)
    BY CardsAre
  <1>2. PICK m, n : m = Len(p) /\ n = Len(q)
    OBVIOUS
  <1>3. m \in Nat /\ n \in Nat
    BY <1>1, <1>2
  <1>4. PICK h : h = CardHeight(g)
    OBVIOUS
  <1>5. h = 2 \/ h = 3
    BY <1>4 DEF CardHeight
  <1>6. CASE m # n
    <2>1. m + 1 <= n \/ n + 1 <= m
      BY <1>3, <1>6
    <2>2. (m * (h + 2)) + h <= n * (h + 2) \/ (n * (h + 2)) + h <= m * (h + 2)
      <3>1. CASE h = 2
        BY <1>3, <2>1, <3>1
      <3>2. CASE h = 3
        BY <1>3, <2>1, <3>2
      <3> QED
        BY <1>5, <3>1, <3>2
    <2> QED
      BY <1>1, <1>2, <1>4, <2>2
  <1>7. CASE m = n
    <2>1. p \in Paths /\ q \in Paths
      BY VisibleIs
    <2>2. Before(p, q) \/ Before(q, p)
      BY <2>1, BeforeTotal
    <2>3. c[p] + 20 <= c[q] \/ c[q] + 20 <= c[p]
      BY <1>1, <1>2, <1>7, <2>2, LevelApart
    <2>4. c[p] \in Int /\ c[q] \in Int
      BY <1>1
    <2>5. (c[p] - 9) + 18 <= c[q] - 9 \/ (c[q] - 9) + 18 <= c[p] - 9
      BY <2>3, <2>4
    <2> QED
      BY <1>1, <2>5
  <1> QED
    BY <1>6, <1>7

GraphInv == graph # NoGraph => IsGraph(graph)

\* The keys of the diagram keep its cursor on a node that is drawn.
LEMMA NewGraphIs ==
  ASSUME NEW t, Document(t)
  PROVE  IsGraph(NewGraph(t))
  <1>1. PICK g : g = NewGraph(t)
    OBVIOUS
  <1>2. /\ g = [t |-> g.t, folded |-> g.folded, cursor |-> g.cursor, showValues |-> g.showValues,
                offX |-> g.offX, offY |-> g.offY]
        /\ g.t = t /\ g.cursor = << >> /\ g.folded = {} /\ g.showValues \in BOOLEAN /\ g.offX = 0 /\ g.offY = 0
    BY <1>1 DEF NewGraph
  <1>3. << >> \in DOMAIN t
    BY DocumentIs
  <1>4. << >> \in VisibleNodes(g)
    BY <1>2, <1>3 DEF VisibleNodes
  <1> QED
    BY <1>1, <1>2, <1>4 DEF IsGraph

\* Where the cursor may go, and that it goes there.
LEMMA StepsAreDrawn ==
  ASSUME NEW g, IsGraph(g), NEW S \in GraphSteps(g)
  PROVE  /\ S \subseteq VisibleNodes(g)
         /\ (IF Cardinality(S) = 1 THEN CHOOSE p \in S : TRUE ELSE FirstOf(S)) \in VisibleNodes(g)
  <1>1. Document(g.t) /\ g.cursor \in VisibleNodes(g)
    BY DEF IsGraph
  <1>2. VisibleNodes(g) \subseteq Paths /\ IsFiniteSet(VisibleNodes(g))
    BY <1>1, VisibleIs
  <1>3. S # {}
    BY DEF GraphSteps
  <1>4. CASE S = ChildOf(g)
    <2>1. \A q \in S : q \in VisibleNodes(g) /\ Len(q) = Len(g.cursor) + 1
      BY <1>1, <1>4, KidsVisible DEF ChildOf
    <2>2. Len(g.cursor) \in Nat
      BY <1>1, <1>2, PathLen
    <2>3. \A q \in S : Len(q) >= 1
      BY <2>1, <2>2
    <2>4. S \subseteq VisibleNodes(g) /\ S \subseteq Paths
      BY <1>2, <2>1
    <2>5. IsFiniteSet(S)
      BY <1>2, <2>4, FS_Subset
    <2>6. FirstOf(S) \in S
      BY <1>3, <2>3, <2>4, <2>5, EndsOf
    <2> QED
      BY <1>3, <2>4, <2>6
  <1>5. CASE S = ParentOf(g)
    <2>1. S \subseteq VisibleNodes(g)
      BY <1>5 DEF ParentOf
    <2>2. ASSUME NEW p \in S, NEW q \in S PROVE p = q
      <3>1. g.cursor \in VisibleKids(g, p) /\ g.cursor \in VisibleKids(g, q)
        BY <1>5, <2>2 DEF ParentOf
      <3>2. /\ p \in Paths /\ IsPrefix(p, g.cursor) /\ Len(g.cursor) = Len(p) + 1
            /\ q \in Paths /\ IsPrefix(q, g.cursor) /\ Len(g.cursor) = Len(q) + 1
        BY <1>1, <2>1, <3>1, KidsVisible
      <3>3. Len(p) = Len(q) /\ Len(p) <= Len(q) /\ Len(p) >= Len(q)
        BY <3>2, PathLen
      <3>4. g.cursor \in Paths
        BY <1>1, <1>2
      <3>5. IsPrefix(p, q)
        BY <3>2, <3>3, <3>4, PrefixChain
      <3> QED
        BY <3>2, <3>3, <3>5, PrefixAnti
    <2>3. PICK p : p \in S
      BY <1>3
    <2>4. S = {p}
      BY <2>2, <2>3
    <2>5. Cardinality(S) = 1
      BY <2>4, FS_Singleton
    <2> QED
      BY <1>3, <2>1, <2>5
  <1>6. ASSUME NEW delta, S = SiblingOf(g, delta)
        PROVE  /\ S \subseteq VisibleNodes(g) /\ FirstOf(S) \in S
    <2>1. ASSUME NEW q \in S PROVE q \in VisibleNodes(g) /\ q \in Paths /\ Len(q) >= 1
      <3>1. PICK p \in VisibleNodes(g) : q \in VisibleKids(g, p)
        BY <1>6, <2>1 DEF SiblingOf, ParentOf
      <3>2. q \in VisibleNodes(g) /\ q \in Paths /\ p \in Paths /\ Len(q) = Len(p) + 1
        BY <1>1, <3>1, KidsVisible
      <3> QED
        BY <3>2, PathLen
    <2>2. IsFiniteSet(S)
      BY <1>2, <2>1, FS_Subset
    <2>3. FirstOf(S) \in S
      BY <1>3, <2>1, <2>2, EndsOf
    <2> QED
      BY <2>1, <2>3
  <1>7. CASE \E delta : S = SiblingOf(g, delta)
    BY <1>3, <1>6, <1>7
  <1> QED
    BY <1>4, <1>5, <1>7 DEF GraphSteps

\* What is drawn depends on the tree and the folds, and its height on the values too.
LEMMA SameDrawing ==
  ASSUME NEW g, NEW h, g.t = h.t, g.folded = h.folded
  PROVE  VisibleNodes(g) = VisibleNodes(h) /\ \A c : LaidOut(g, c) <=> LaidOut(h, c)
  <1>1. VisibleNodes(g) = VisibleNodes(h)
    BY DEF VisibleNodes
  <1>2. ASSUME NEW p PROVE VisibleKids(g, p) = VisibleKids(h, p)
    BY DEF VisibleKids
  <1>3. LeafNodes(g) = LeafNodes(h)
    BY <1>1, <1>2 DEF LeafNodes
  <1>4. ASSUME NEW p PROVE SlotOf(g, p) = SlotOf(h, p)
    BY <1>3 DEF SlotOf
  <1>5. ASSUME NEW c, NEW p PROVE CentreFrom(g, c, p) = CentreFrom(h, c, p)
    BY <1>2, <1>3, <1>4 DEF CentreFrom
  <1> QED
    BY <1>1, <1>5 DEF LaidOut

\* One axis of scrollIntoView.
LEMMA ScrollFits ==
  ASSUME NEW at \in Int, NEW size \in Nat, NEW off \in Int, NEW view \in Nat, view >= size,
         NEW edge, edge = (IF at < off THEN at ELSE off),
         NEW to, to = (IF at + size > edge + view THEN at + size - view ELSE edge)
  PROVE  to \in Int /\ at >= to /\ at + size <= to + view
  <1>1. edge \in Int /\ edge <= at
    OBVIOUS
  <1> QED
    BY <1>1

\* A move: the node is drawn, and its card is inside the window.
LEMMA MovedIs ==
  ASSUME NEW g, IsGraph(g), NEW S \in GraphSteps(g)
  PROVE  /\ IsGraph(GraphMoved(g, S))
         /\ LET p == Cards(GraphMoved(g, S))[GraphMoved(g, S).cursor]
            IN  /\ p.x >= GraphMoved(g, S).offX /\ p.x + p.w <= GraphMoved(g, S).offX + ViewW
                /\ p.y >= GraphMoved(g, S).offY /\ p.y + p.h <= GraphMoved(g, S).offY + ViewH
  <1>1. PICK at : at = (IF Cardinality(S) = 1 THEN CHOOSE p \in S : TRUE ELSE FirstOf(S))
    OBVIOUS
  <1>2. at \in VisibleNodes(g)
    BY <1>1, StepsAreDrawn
  <1>3. PICK m : m = [g EXCEPT !.cursor = at]
    OBVIOUS
  <1>4. /\ m = [t |-> g.t, folded |-> g.folded, cursor |-> at, showValues |-> g.showValues,
                offX |-> g.offX, offY |-> g.offY]
        /\ Document(g.t) /\ g.showValues \in BOOLEAN /\ g.offX \in Int /\ g.offY \in Int
    BY <1>3 DEF IsGraph
  <1>5. /\ m.t = g.t /\ m.folded = g.folded /\ m.cursor = at /\ m.showValues = g.showValues
        /\ m.offX \in Int /\ m.offY \in Int /\ Document(m.t)
    BY <1>4
  <1>6. at \in VisibleNodes(m)
    BY <1>2, <1>5, SameDrawing
  <1>7. PICK n : n = GraphMoved(g, S)
    OBVIOUS
  <1>8. n = ScrollIntoView(m)
    BY <1>1, <1>3, <1>7 DEF GraphMoved
  <1>9. PICK p : p = Cards(m)[at]
    OBVIOUS
  <1>10. PICK c : /\ LaidOut(m, c)
                  /\ \A x \in VisibleNodes(m) :
                     /\ c[x] \in Int /\ Len(x) \in Nat
                     /\ Cards(m)[x].x = c[x] - 9 /\ Cards(m)[x].w = 18
                     /\ Cards(m)[x].h = CardHeight(m) /\ Cards(m)[x].y = Len(x) * (CardHeight(m) + 2)
    BY <1>5, CardsAre
  <1>11. PICK h : h = CardHeight(m)
    OBVIOUS
  <1>12. (h = 2 \/ h = 3)
    BY <1>11 DEF CardHeight
  <1>13. p.x = c[at] - 9 /\ c[at] \in Int /\ p.w = 18 /\ p.h = h /\ p.y = Len(at) * (h + 2) /\ Len(at) \in Nat
    BY <1>6, <1>9, <1>10, <1>11
  <1>14. p.x \in Int /\ p.y \in Int
    <2>1. CASE h = 2
      BY <1>13, <2>1
    <2>2. CASE h = 3
      BY <1>13, <2>2
    <2> QED
      BY <1>12, <2>1, <2>2
  <1>15. PICK left, top, x, y :
           /\ left = (IF p.x < m.offX THEN p.x ELSE m.offX)
           /\ top = (IF p.y < m.offY THEN p.y ELSE m.offY)
           /\ x = (IF p.x + cardW > left + ViewW THEN p.x + cardW - ViewW ELSE left)
           /\ y = (IF p.y + p.h > top + ViewH THEN p.y + p.h - ViewH ELSE top)
    OBVIOUS
  <1>16. n = [m EXCEPT !.offX = x, !.offY = y]
    BY <1>5, <1>6, <1>8, <1>9, <1>15 DEF ScrollIntoView
  <1>17. n = [t |-> g.t, folded |-> g.folded, cursor |-> at, showValues |-> g.showValues,
              offX |-> x, offY |-> y]
    BY <1>4, <1>16
  <1>18. /\ n.t = g.t /\ n.folded = g.folded /\ n.cursor = at /\ n.showValues = g.showValues
         /\ n.offX = x /\ n.offY = y
    BY <1>17
  <1>19. cardW = 18 /\ ViewW \in Nat /\ ViewH \in Nat /\ ViewW >= 18 /\ ViewH >= 3
    BY ValueTreeAssumption DEF cardW
  <1>20. x \in Int /\ p.x >= x /\ p.x + 18 <= x + ViewW
    <2>1. PICK px, off : px = p.x /\ off = m.offX
      OBVIOUS
    <2>2. px \in Int /\ off \in Int
      BY <1>5, <1>14, <2>1
    <2>3. /\ left = (IF px < off THEN px ELSE off)
          /\ x = (IF px + 18 > left + ViewW THEN px + 18 - ViewW ELSE left)
      BY <1>15, <1>19, <2>1
    <2>4. x \in Int /\ px >= x /\ px + 18 <= x + ViewW
      BY <1>19, <2>2, <2>3, ScrollFits
    <2> QED
      BY <2>1, <2>4
  <1>21. y \in Int /\ p.y >= y /\ p.y + h <= y + ViewH
    <2>1. PICK py, off : py = p.y /\ off = m.offY
      OBVIOUS
    <2>2. py \in Int /\ off \in Int /\ h \in Nat /\ ViewH >= h
      BY <1>5, <1>12, <1>14, <1>19, <2>1
    <2>3. /\ top = (IF py < off THEN py ELSE off)
          /\ y = (IF py + h > top + ViewH THEN py + h - ViewH ELSE top)
      BY <1>13, <1>15, <2>1
    <2>4. y \in Int /\ py >= y /\ py + h <= y + ViewH
      BY <1>19, <2>2, <2>3, ScrollFits
    <2> QED
      BY <2>1, <2>4
  <1>22. at \in VisibleNodes(n) /\ Document(n.t)
    BY <1>4, <1>5, <1>6, <1>18, SameDrawing
  <1>23. IsGraph(n)
    BY <1>4, <1>17, <1>18, <1>20, <1>21, <1>22 DEF IsGraph
  <1>24. PICK d : /\ LaidOut(n, d)
                  /\ \A z \in VisibleNodes(n) :
                     /\ d[z] \in Int /\ Len(z) \in Nat
                     /\ Cards(n)[z].x = d[z] - 9 /\ Cards(n)[z].w = 18
                     /\ Cards(n)[z].h = CardHeight(n) /\ Cards(n)[z].y = Len(z) * (CardHeight(n) + 2)
    BY <1>22, CardsAre
  <1>25. LaidOut(m, d)
    BY <1>5, <1>18, <1>24, SameDrawing
  <1>26. c = d
    BY <1>5, <1>10, <1>25, LayoutUnique
  <1>27. CardHeight(n) = h
    BY <1>5, <1>11, <1>18 DEF CardHeight
  <1>28. PICK q : q = Cards(n)[n.cursor]
    OBVIOUS
  <1>29. q.x = p.x /\ q.w = 18 /\ q.h = h /\ q.y = p.y
    BY <1>13, <1>18, <1>22, <1>24, <1>26, <1>27, <1>28
  <1>30. q.x >= n.offX /\ q.x + q.w <= n.offX + ViewW /\ q.y >= n.offY /\ q.y + q.h <= n.offY + ViewH
    BY <1>18, <1>20, <1>21, <1>29
  <1> QED
    BY <1>7, <1>23, <1>28, <1>30

\* Folding hides what lies under the cursor, and not the cursor.
LEMMA FoldedIs ==
  ASSUME NEW g, IsGraph(g)
  PROVE  IsGraph(Folded(g))
  <1>1. PICK F : F = (IF g.cursor \in g.folded THEN g.folded \ {g.cursor} ELSE g.folded \cup {g.cursor})
    OBVIOUS
  <1>2. PICK n : n = Folded(g)
    OBVIOUS
  <1>3. n = [t |-> g.t, folded |-> F, cursor |-> g.cursor, showValues |-> g.showValues,
             offX |-> g.offX, offY |-> g.offY]
    BY <1>1, <1>2 DEF Folded, IsGraph
  <1>4. /\ n.t = g.t /\ n.folded = F /\ n.cursor = g.cursor /\ n.showValues = g.showValues
        /\ n.offX = g.offX /\ n.offY = g.offY
    BY <1>3
  <1>5. g.cursor \in VisibleNodes(g) /\ Document(g.t) /\ g.cursor \in Paths
    BY VisibleIs DEF IsGraph
  <1>6. ASSUME NEW k \in 0 .. Len(g.cursor) - 1 PROVE SubSeq(g.cursor, 1, k) \notin F
    <2>1. SubSeq(g.cursor, 1, k) \notin g.folded
      BY <1>5 DEF VisibleNodes
    <2>2. Len(g.cursor) \in Nat /\ k \in 0 .. Len(g.cursor) /\ k # Len(g.cursor)
      BY <1>5, PathLen
    <2>3. Len(SubSeq(g.cursor, 1, k)) = k
      BY <1>5, <2>2, CutIs
    <2>4. SubSeq(g.cursor, 1, k) # g.cursor
      BY <2>2, <2>3
    <2> QED
      BY <1>1, <2>1, <2>4
  <1>7. g.cursor \in VisibleNodes(n)
    BY <1>4, <1>5, <1>6 DEF VisibleNodes
  <1> QED
    BY <1>2, <1>3, <1>4, <1>7 DEF IsGraph

\* Every step keeps the diagram a diagram.
LEMMA GraphKeeps == Inv /\ GraphInv /\ [Next]_vars => GraphInv'
  <1> SUFFICES ASSUME Inv, GraphInv, [Next]_vars PROVE GraphInv'
    OBVIOUS
  <1>1. ASSUME UNCHANGED graph PROVE GraphInv'
    BY <1>1 DEF GraphInv
  <1>2. CASE OpenGraph
    <2>1. Document(page.doc)
      BY <1>2, LoadedIs DEF OpenGraph, Inv, TreesInv, PageInv, GoodPage, Held
    <2>2. IsGraph(NewGraph(page.doc)) /\ graph' = NewGraph(page.doc)
      BY <1>2, <2>1, NewGraphIs DEF OpenGraph
    <2> QED
      BY <2>2 DEF GraphInv
  <1>3. CASE GraphMove
    <2>1. IsGraph(graph)
      BY <1>3 DEF GraphMove, GraphKey, GraphInv
    <2>2. PICK S \in GraphSteps(graph) : graph' = GraphMoved(graph, S)
      BY <1>3 DEF GraphMove
    <2> QED
      BY <2>1, <2>2, MovedIs DEF GraphInv
  <1>4. CASE GraphFold
    BY <1>4, FoldedIs DEF GraphFold, GraphKey, GraphInv
  <1>5. CASE GraphValues
    <2>1. IsGraph(graph) /\ graph' = [graph EXCEPT !.showValues = ~@]
      BY <1>5 DEF GraphValues, GraphKey, GraphInv
    <2>2. PICK g, n : g = graph /\ n = graph'
      OBVIOUS
    <2>3. IsGraph(g) /\ n = [g EXCEPT !.showValues = ~@]
      BY <2>1, <2>2
    <2>4. n = [t |-> g.t, folded |-> g.folded, cursor |-> g.cursor, showValues |-> ~g.showValues,
               offX |-> g.offX, offY |-> g.offY]
      BY <2>3 DEF IsGraph
    <2>5. /\ n.t = g.t /\ n.folded = g.folded /\ n.cursor = g.cursor /\ n.showValues \in BOOLEAN
          /\ n.offX = g.offX /\ n.offY = g.offY
      BY <2>3, <2>4 DEF IsGraph
    <2>6. n.cursor \in VisibleNodes(n)
      BY <2>3, <2>5, SameDrawing DEF IsGraph
    <2>7. IsGraph(n)
      BY <2>3, <2>4, <2>5, <2>6 DEF IsGraph
    <2> QED
      BY <2>2, <2>7 DEF GraphInv
  <1>6. CASE CloseGraph
    BY <1>6 DEF CloseGraph, GraphInv
  <1>7. CASE \/ \E r \in DOMAIN page.rows : Move(r)
             \/ ValueToggle
             \/ \E term \in Terms \cup {Blank} : Find(term)
             \/ FindNext(1) \/ FindNext(-1)
             \/ OpenEditor \/ Cancel
             \/ \E name \in Names \cup {Blank}, text \in Texts : Save(name, text) \/ SaveRefused(name, text)
    <2>1. UNCHANGED graph
      BY <1>7 DEF Move, ValueToggle, Find, FindNext, OpenEditor, Cancel, Save, Accepted, SaveRefused
    <2> QED
      BY <1>1, <2>1
  <1>8. CASE Answer
    <2>1. UNCHANGED graph
      BY <1>8 DEF Answer, WriteOK, WriteFails, Reload, Read, Land, FetchFails, Calls
    <2> QED
      BY <1>1, <2>1
  <1>9. CASE UNCHANGED vars
    BY <1>1, <1>9 DEF vars
  <1> QED
    BY <1>2, <1>3, <1>4, <1>5, <1>6, <1>7, <1>8, <1>9 DEF Next, User

LEMMA DrawingInvariance == Spec => []GraphInv
  <1>1. Init => GraphInv
    BY DEF Init, GraphInv
  <1> QED
    BY <1>1, GraphKeeps, Invariance, PTL DEF Spec

\* layout and toggleFold: the cursor is on a card that is drawn, and no two cards overlap,
\* for any tree and whatever is folded.
THEOREM NeverOverlap == Spec => []CardsApart
  <1>1. GraphInv => CardsApart
    <2> SUFFICES ASSUME GraphInv, graph # NoGraph
                 PROVE  /\ graph.cursor \in DOMAIN Cards(graph)
                        /\ \A p, q \in DOMAIN Cards(graph) :
                           p # q => \/ Cards(graph)[p].y + Cards(graph)[p].h <= Cards(graph)[q].y
                                    \/ Cards(graph)[q].y + Cards(graph)[q].h <= Cards(graph)[p].y
                                    \/ Cards(graph)[p].x + Cards(graph)[p].w <= Cards(graph)[q].x
                                    \/ Cards(graph)[q].x + Cards(graph)[q].w <= Cards(graph)[p].x
      BY DEF CardsApart
    <2>1. Document(graph.t) /\ graph.cursor \in VisibleNodes(graph)
      BY DEF GraphInv, IsGraph
    <2>2. DOMAIN Cards(graph) = VisibleNodes(graph)
      BY <2>1, CardsAre
    <2> QED
      BY <2>1, <2>2, CardsDisjoint
  <1> QED
    BY <1>1, DrawingInvariance, PTL

\* moveCursor, scrollIntoView: after a move the card under the cursor is inside the window,
\* wherever folding and the value lines had left the viewport.
THEOREM CursorIsShown == Spec => MoveShowsCard
  <1>1. ASSUME GraphInv
        PROVE  GraphMove => LET p == Cards(graph')[graph'.cursor]
                            IN  /\ p.x >= graph'.offX /\ p.x + p.w <= graph'.offX + ViewW
                                /\ p.y >= graph'.offY /\ p.y + p.h <= graph'.offY + ViewH
    <2> SUFFICES ASSUME GraphMove
                 PROVE  LET p == Cards(graph')[graph'.cursor]
                        IN  /\ p.x >= graph'.offX /\ p.x + p.w <= graph'.offX + ViewW
                            /\ p.y >= graph'.offY /\ p.y + p.h <= graph'.offY + ViewH
      OBVIOUS
    <2>1. IsGraph(graph)
      BY <1>1 DEF GraphMove, GraphKey, GraphInv
    <2>2. PICK S \in GraphSteps(graph) : graph' = GraphMoved(graph, S)
      BY DEF GraphMove
    <2> QED
      BY <2>1, <2>2, MovedIs
  <1> QED
    BY <1>1, DrawingInvariance, PTL DEF MoveShowsCard
=============================================================================
