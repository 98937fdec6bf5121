-------------------------- MODULE DiscoveryProofs --------------------------
(***************************************************************************)
(* Proofs about the discovery of keys: ScanSession, for every set of keys, *)
(* patterns, profiles and mutation goroutines and for every bound, and the *)
(* index of the keys it finds, KeyTree, for every set of key names and     *)
(* every fold level.                                                       *)
(*                                                                         *)
(* The inductive invariant Inv of the sessions adds to the properties what *)
(* the scan goroutine knows between two of its steps (Progress: what SCAN  *)
(* returned is listed or waits in the batch; a final cursor means nothing  *)
(* is owed) and that sessions not yet started are untouched (Fresh).       *)
(*                                                                         *)
(* The operations of the tree are operators on a value, so its invariant   *)
(* is a predicate Good(t) that Add, Remove and Toggle each preserve; a     *)
(* rename, which applies two of them in one step, needs nothing new.  What *)
(* the index holds plays no part in the counts: Indexes(t) says it apart,  *)
(* and needs Good(t), by which a node with an empty first part has the     *)
(* node <<Empty>> above it.                                                *)
(***************************************************************************)
EXTENDS ScanSession, KeyTree, FiniteSetTheorems, SequenceTheorems, TLAPS


Fresh ==
  \A s \in Sessions : s > cur =>
    /\ pc[s] = "new" /\ got[s] = {} /\ seen[s] = {}
    /\ ~done[s] /\ ~failed[s]
    /\ rows[s] = [k \in Keys |-> 0]

Progress ==
  cur > 0 =>
    /\ pc[cur] # "batch" => got[cur] = {}
    /\ done[cur] => pc[cur] = "over"
    /\ (held \cap returned) \ touched \subseteq Listed(cur) \cup got[cur]
    /\ ~failed[cur] /\ pc[cur] \in {"batch", "check"} /\ last[cur] => held \subseteq returned
    /\ ~failed[cur] /\ pc[cur] \in {"finish", "over"} => held \subseteq returned

BatchesMatch == \A s \in Sessions : got[s] \subseteq Match[pat[s]]

Inv ==
  /\ TypeOK
  /\ Fresh
  /\ SeenIsShown
  /\ BatchesMatch
  /\ FilteredList
  /\ OneRowPerSeenKey
  /\ Progress

----------------------------------------------------------------------------
(* Type correctness.                                                       *)

\* The initial states are well typed.
LEMMA InitType == Init => TypeOK
  <1> SUFFICES ASSUME Init PROVE TypeOK
    OBVIOUS
  <1> USE ConstantsAssumption DEF Init, Sessions
  <1>1. 0 \in 0 .. MaxSessions
    OBVIOUS
  <1>2. [k \in Keys |-> 0] \in [Keys -> Nat]
    OBVIOUS
  <1>3. home \in Seq(Profiles)
    OBVIOUS
  <1> QED
    BY <1>1, <1>2, <1>3 DEF TypeOK, Asks, Muts, NoClient

\* Starting a session keeps the state well typed, whatever client it gets.
LEMMA BeginType ==
  ASSUME TypeOK, NEW p \in Patterns, NEW c \in Nat, NEW q \in Profiles, Begin(p, c, q)
  PROVE  /\ cur' \in 0 .. MaxSessions
         /\ pat' \in [Sessions -> Patterns]
         /\ cli' \in [Sessions -> Nat]
         /\ pc' \in [Sessions -> {"new", "scan", "batch", "check", "finish", "over"}]
         /\ title' \in 0 .. MaxSessions
         /\ held' \subseteq Keys /\ returned' \subseteq Keys
         /\ touched' \subseteq Keys /\ named' \subseteq Keys
         /\ UNCHANGED <<got, last, failed, done>>
  BY ConstantsAssumption DEF Begin, TypeOK, Sessions

\* Changing a server's keys keeps the state well typed.
LEMMA StoreType ==
  ASSUME TypeOK, NEW p, NEW ks, p \in Profiles => ks \subseteq Keys, Store(p, ks)
  PROVE  store' \in [Profiles -> SUBSET Keys] /\ held' \subseteq Keys
  BY DEF Store, TypeOK

\* The four list functions keep their types under a mutation's closure.
LEMMA ClosureType ==
  ASSUME TypeOK, NEW k \in Keys, NEW n \in Keys, cur \in Sessions,
         DropKeyLocal(k) \/ RenameLocal(k, n)
  PROVE  /\ seen' \in [Sessions -> SUBSET Keys]
         /\ tree' \in [Sessions -> SUBSET Keys]
         /\ rows' \in [Sessions -> [Keys -> Nat]]
         /\ touched' \subseteq Keys /\ named' \subseteq Keys
         /\ title' \in 0 .. MaxSessions
  <1>1. CASE DropKeyLocal(k)
    <2>1. (IF rows[cur][k] > 0 THEN rows[cur][k] - 1 ELSE 0) \in Nat
      BY DEF TypeOK
    <2> QED
      BY <1>1, <2>1 DEF DropKeyLocal, TypeOK
  <1>2. CASE RenameLocal(k, n)
    <2>1. CASE rows[cur][k] > 0
      <3>1. rows[cur] \in [Keys -> Nat]
        BY DEF TypeOK
      <3>2. MoveRow(rows[cur], k, n) \in [Keys -> Nat]
        BY <2>1, <3>1 DEF MoveRow
      <3>3. rows' = [rows EXCEPT ![cur] = MoveRow(rows[cur], k, n)]
        BY <1>2, <2>1 DEF RenameLocal
      <3>4. rows' \in [Sessions -> [Keys -> Nat]]
        BY <3>2, <3>3 DEF TypeOK
      <3> QED
        BY <1>2, <3>4 DEF RenameLocal, TypeOK
    <2>2. CASE ~(rows[cur][k] > 0)
      BY <1>2, <2>2 DEF RenameLocal, TypeOK
    <2> QED
      BY <2>1, <2>2
  <1> QED
    BY <1>1, <1>2

\* Every step of the next-state relation preserves the types.
LEMMA NextType == TypeOK /\ [Next]_vars => TypeOK'
  <1> SUFFICES ASSUME TypeOK, [Next]_vars PROVE TypeOK'
    OBVIOUS
  <1> USE ConstantsAssumption
  <1>1. ASSUME NEW p \in Patterns, StartScan(p) PROVE TypeOK'
    <2>1. rc \in Nat /\ home[rc] \in Profiles
      BY <1>1 DEF TypeOK, StartScan, rc, NoClient
    <2>2. Begin(p, rc, home[rc])
      BY <1>1 DEF StartScan
    <2>3. UNCHANGED <<server, home, lists, ask, mut>>
      BY <1>1 DEF StartScan
    <2> QED
      BY BeginType, <2>1, <2>2, <2>3 DEF TypeOK, server, lists
  <1>2. ASSUME NEW p \in Profiles, Connected(p) PROVE TypeOK'
    <2>1. rc + 1 \in Nat
      BY DEF TypeOK, rc
    <2>2. Begin(All, rc + 1, p) /\ All \in Patterns
      BY <1>2 DEF Connected
    <2>3. home' \in Seq(Profiles)
      BY <1>2 DEF TypeOK, Connected
    <2>4. UNCHANGED <<server, lists, ask, mut>>
      BY <1>2 DEF Connected
    <2> QED
      BY BeginType, <2>1, <2>2, <2>3, <2>4 DEF TypeOK, server, lists
  <1>3. ASSUME NEW p \in Profiles, OtherClient(p) PROVE TypeOK'
    <2>1. PICK ks \in SUBSET Keys : Store(p, ks)
      <3>1. PICK k \in Keys : Store(p, store[p] \cup {k}) \/ Store(p, store[p] \ {k})
        BY <1>3 DEF OtherClient
      <3>2. store[p] \cup {k} \in SUBSET Keys /\ store[p] \ {k} \in SUBSET Keys
        BY DEF TypeOK
      <3> QED
        BY <3>1, <3>2
    <2>2. store' \in [Profiles -> SUBSET Keys] /\ held' \subseteq Keys
      BY StoreType, <2>1
    <2> QED
      BY <1>3, <2>2 DEF OtherClient, TypeOK, scans, lists
  <1>4. ASSUME NEW s \in Sessions, ScanStep(s) PROVE TypeOK'
    <2>1. CASE ScanReply(s)
      <3>1. PICK b \in SUBSET (store[SpaceOf(s)] \cap Match[pat[s]]), final \in BOOLEAN :
              /\ got' = [got EXCEPT ![s] = b]
              /\ last' = [last EXCEPT ![s] = final]
              /\ returned' = IF s = cur THEN returned \cup b ELSE returned
              /\ pc' = [pc EXCEPT ![s] = IF b # {} THEN "batch"
                                         ELSE IF final THEN "finish" ELSE "scan"]
        BY <2>1 DEF ScanReply
      <3>2. b \subseteq Keys
        BY DEF TypeOK
      <3> QED
        BY <2>1, <3>1, <3>2 DEF ScanReply, TypeOK, server, lists
    <2>2. CASE ScanError(s)
      BY <2>2 DEF ScanError, TypeOK, server, lists, hist
    <2>3. CASE BatchClosure(s)
      <3>1. rows[s] \in [Keys -> Nat] /\ s \in 0 .. MaxSessions
        BY DEF TypeOK, Sessions
      <3>2. [k \in Keys |-> IF k \in got[s] \ seen[s] THEN rows[s][k] + 1 ELSE rows[s][k]]
              \in [Keys -> Nat]
        BY <3>1
      <3> QED
        BY <2>3, <3>1, <3>2 DEF BatchClosure, AddBatch, TypeOK, server, hist
    <2>4. CASE CheckCtx(s)
      BY <2>4 DEF CheckCtx, TypeOK, server, lists, hist
    <2>5. CASE FinalClosure(s)
      <3>1. s \in 0 .. MaxSessions
        BY DEF Sessions
      <3> QED
        BY <2>5, <3>1 DEF FinalClosure, TypeOK, server, lists, hist
    <2> QED
      BY <1>4, <2>1, <2>2, <2>3, <2>4, <2>5 DEF ScanStep
  <1>5. ASSUME NEW kind \in {"del", "ren"}, NEW k \in Keys, NEW n \in Keys, NEW c \in Nat,
               Spawn(kind, k, n, c)
        PROVE  mut' \in [Slots -> Muts]
    BY <1>5 DEF Spawn, TypeOK, Muts
  <1>6. rc \in Nat
    BY DEF TypeOK, rc
  <1>7. ASSUME UserStep PROVE TypeOK'
    <2>1. ASSUME NEW k \in Keys, DeleteKey(k) PROVE TypeOK'
      <3>1. ask' \in Asks /\ mut' \in [Slots -> Muts]
        BY <1>5, <1>6, <2>1 DEF DeleteKey, TypeOK, Asks
      <3> QED
        BY <2>1, <3>1 DEF DeleteKey, TypeOK, server, scans, lists, hist
    <2>2. ASSUME NEW k \in Keys, AskRename(k) PROVE TypeOK'
      <3>1. ask' \in Asks
        BY <2>2 DEF AskRename, Asks, NoClient
      <3> QED
        BY <2>2, <3>1 DEF AskRename, TypeOK, server, scans, lists, hist
    <2>3. ASSUME NEW n \in Keys, ConfirmRename(n) PROVE TypeOK'
      <3>1. ask.key \in Keys
        BY <2>3 DEF ConfirmRename, TypeOK, Asks, NoAsk
      <3>2. mut' \in [Slots -> Muts]
        BY <1>5, <1>6, <2>3, <3>1 DEF ConfirmRename
      <3>3. ask' \in Asks
        BY <2>3 DEF ConfirmRename, Asks
      <3> QED
        BY <2>3, <3>2, <3>3 DEF ConfirmRename, TypeOK, server, scans, lists, hist
    <2>4. ASSUME ConfirmDelete PROVE TypeOK'
      <3>1. ask.key \in Keys /\ ask.cli \in Nat
        BY <2>4 DEF ConfirmDelete, TypeOK, Asks, NoAsk
      <3>2. mut' \in [Slots -> Muts]
        BY <1>5, <2>4, <3>1 DEF ConfirmDelete
      <3>3. ask' \in Asks
        BY <2>4 DEF ConfirmDelete, Asks
      <3> QED
        BY <2>4, <3>2, <3>3 DEF ConfirmDelete, TypeOK, server, scans, lists, hist
    <2>5. ASSUME Dismiss PROVE TypeOK'
      BY <2>5 DEF Dismiss, Asks, TypeOK, server, scans, lists, hist
    <2> QED
      BY <1>1, <1>7, <2>1, <2>2, <2>3, <2>4, <2>5 DEF UserStep
  <1>8. ASSUME NEW m \in Slots, MutationStep(m) PROVE TypeOK'
    <2>0. mut[m] \in Muts
      BY DEF TypeOK
    <2>1. ASSUME mut[m].st \in {"sent", "ok"}, NEW st \in {"ok", "over"},
                 mut' = [mut EXCEPT ![m].st = st]
          PROVE  /\ mut[m].key \in Keys /\ mut[m].name \in Keys
                 /\ mut' \in [Slots -> Muts]
      <3>1. mut[m].key \in Keys /\ mut[m].name \in Keys
        BY <2>0, <2>1 DEF Muts, FreeMut
      <3>2. [mut[m] EXCEPT !.st = st] \in Muts
        BY <2>0, <2>1 DEF Muts, FreeMut
      <3>3. mut' = [mut EXCEPT ![m] = [mut[m] EXCEPT !.st = st]]
        BY <2>1 DEF TypeOK
      <3> QED
        BY <3>1, <3>2, <3>3 DEF TypeOK
    <2>2. CASE Applied(m)
      <3>1. PICK st \in {"ok", "over"} : mut' = [mut EXCEPT ![m].st = st]
        BY <2>2 DEF Applied
      <3>2. mut[m].key \in Keys /\ mut[m].name \in Keys /\ mut' \in [Slots -> Muts]
        BY <2>1, <2>2, <3>1 DEF Applied
      <3> DEFINE q == home[rc]
                 ks == Effect(mut[m], store[q])
      <3>3. q \in Profiles => ks \subseteq Keys
        BY <3>2 DEF Effect, TypeOK
      <3>4. Store(q, ks)
        BY <2>2 DEF Applied
      <3> HIDE DEF q, ks
      <3>5. store' \in [Profiles -> SUBSET Keys] /\ held' \subseteq Keys
        BY StoreType, <3>3, <3>4
      <3> QED
        BY <2>2, <3>2, <3>5 DEF Applied, TypeOK, scans, lists
    <2>3. CASE NotApplied(m)
      <3>1. mut' \in [Slots -> Muts]
        BY <2>1, <2>3 DEF NotApplied
      <3> QED
        BY <2>3, <3>1 DEF NotApplied, TypeOK, server, scans, lists, hist
    <2>4. CASE MutationClosure(m)
      <3>1. mut[m].key \in Keys /\ mut[m].name \in Keys /\ mut' \in [Slots -> Muts]
        BY <2>1, <2>4 DEF MutationClosure
      <3>2. CASE cur \in Sessions
        <4>1. DropKeyLocal(mut[m].key) \/ RenameLocal(mut[m].key, mut[m].name)
          BY <2>4 DEF MutationClosure
        <4> QED
          BY ClosureType, <2>4, <3>1, <3>2, <4>1 DEF MutationClosure, TypeOK, server, scans
      <3>3. CASE cur \notin Sessions  \* nothing to write to
        <4>1. seen' = seen /\ tree' = tree
          BY <2>4, <3>3 DEF MutationClosure, DropKeyLocal, RenameLocal, TypeOK
        <4>2. rows' = rows
          BY <2>4, <3>3 DEF MutationClosure, DropKeyLocal, RenameLocal, TypeOK
        <4>3. touched' \subseteq Keys /\ named' \subseteq Keys /\ title' \in 0 .. MaxSessions
          BY <2>4, <3>1 DEF MutationClosure, DropKeyLocal, RenameLocal, TypeOK
        <4> QED
          BY <2>4, <3>1, <4>1, <4>2, <4>3 DEF MutationClosure, TypeOK, server, scans
      <3> QED
        BY <3>2, <3>3
    <2> QED
      BY <1>8, <2>2, <2>3, <2>4 DEF MutationStep
  <1>9. CASE UNCHANGED vars
    BY <1>9 DEF TypeOK, vars, server, scans, lists, hist
  <1> QED
    BY <1>2, <1>3, <1>4, <1>7, <1>8, <1>9 DEF Next

\* Every reachable state of ScanSession is well typed.
THEOREM TypeCorrect == Spec => []TypeOK
  BY InitType, NextType, PTL DEF Spec

----------------------------------------------------------------------------
(* The list properties.                                                    *)

Lists == Fresh /\ SeenIsShown /\ BatchesMatch /\ FilteredList /\ OneRowPerSeenKey /\ Progress

\* The initial states satisfy the invariant: there is no session.
LEMMA InitLists == Init => Lists
  BY ConstantsAssumption
     DEF Init, Lists, Fresh, SeenIsShown, BatchesMatch, FilteredList, OneRowPerSeenKey,
         Progress, Listed, Sessions

\* Dialogs, mutations that have not landed and other clients leave the lists
\* alone; all they can do is take keys out of held.
LEMMA ElsewhereKeepsLists ==
  ASSUME TypeOK, Lists, held' \subseteq held,
         UNCHANGED <<cur, scans, lists, returned, touched, named>>
  PROVE  Lists'
  <1> USE DEF scans, lists
  <1>1. \A s : Listed(s)' = Listed(s)
    BY DEF Listed
  <1>2. Fresh' /\ BatchesMatch' /\ OneRowPerSeenKey'
    BY DEF Lists, Fresh, BatchesMatch, OneRowPerSeenKey
  <1>3. SeenIsShown' /\ FilteredList'
    BY <1>1 DEF Lists, SeenIsShown, FilteredList
  <1>4. Progress'
    BY <1>1 DEF Lists, Progress
  <1> QED
    BY <1>2, <1>3, <1>4 DEF Lists

\* A new session starts with an empty list and owes every key held.
LEMMA BeginKeepsLists ==
  ASSUME TypeOK, Lists, NEW p \in Patterns, NEW c \in Nat, NEW q \in Profiles,
         Begin(p, c, q), UNCHANGED lists
  PROVE  Lists'
  <1> USE ConstantsAssumption DEF Begin, lists
  <1>1. cur' = cur + 1 /\ cur' \in Sessions /\ cur \in Nat
    BY DEF TypeOK, Sessions
  <1>2. cur' > cur
    BY <1>1
  <1>3. /\ pc'[cur'] = "scan" /\ got'[cur'] = {} /\ ~done'[cur']
        /\ rows[cur'] = [k \in Keys |-> 0] /\ seen[cur'] = {}
    BY <1>1, <1>2 DEF TypeOK, Lists, Fresh
  <1>4. Fresh'
    BY <1>1 DEF TypeOK, Lists, Fresh, Sessions
  <1>5. SeenIsShown'
    BY DEF Lists, SeenIsShown, Listed
  <1>6. BatchesMatch'
    BY <1>1, <1>3 DEF TypeOK, Lists, BatchesMatch
  <1>7. FilteredList' /\ OneRowPerSeenKey'
    BY <1>3 DEF FilteredList, OneRowPerSeenKey, Listed
  <1>8. Progress'
    BY <1>3 DEF Progress
  <1> QED
    BY <1>4, <1>5, <1>6, <1>7, <1>8 DEF Lists

\* Each step of a scan goroutine keeps the lists right.
LEMMA ScanKeepsLists ==
  ASSUME TypeOK, Lists, NEW s \in Sessions, ScanStep(s)
  PROVE  Lists'
  <1> USE ConstantsAssumption
  <1>0. cur \in 0 .. MaxSessions /\ s \in Nat /\ s > 0
    BY DEF TypeOK, Sessions
  <1>1. CASE ScanReply(s)
    <2>1. PICK b \in SUBSET (store[SpaceOf(s)] \cap Match[pat[s]]), final \in BOOLEAN :
            /\ final => Owed(s) \subseteq b
            /\ got' = [got EXCEPT ![s] = b]
            /\ last' = [last EXCEPT ![s] = final]
            /\ returned' = IF s = cur THEN returned \cup b ELSE returned
            /\ pc' = [pc EXCEPT ![s] = IF b # {} THEN "batch"
                                       ELSE IF final THEN "finish" ELSE "scan"]
      BY <1>1 DEF ScanReply
    <2>2. UNCHANGED <<cur, pat, failed, done, lists, held, touched, named>> /\ pc[s] = "scan"
      BY <1>1 DEF ScanReply
    <2>3. \A t : Listed(t)' = Listed(t)
      BY <2>2 DEF lists, Listed
    <2>4. Fresh'
      BY <2>1, <2>2 DEF TypeOK, Lists, Fresh, lists
    <2>5. SeenIsShown' /\ FilteredList' /\ OneRowPerSeenKey'
      BY <2>2, <2>3 DEF Lists, SeenIsShown, FilteredList, OneRowPerSeenKey, lists
    <2>6. BatchesMatch'
      BY <2>1, <2>2 DEF TypeOK, Lists, BatchesMatch
    <2>7. Progress'
      <3>1. CASE s = cur
        BY <2>1, <2>2, <2>3, <3>1 DEF TypeOK, Lists, Progress, Owed
      <3>2. CASE s # cur
        BY <2>1, <2>2, <2>3, <3>2 DEF TypeOK, Lists, Progress
      <3> QED
        BY <3>1, <3>2
    <2> QED
      BY <2>4, <2>5, <2>6, <2>7 DEF Lists
  <1>2. CASE ScanError(s)
    <2>1. \A t : Listed(t)' = Listed(t)
      BY <1>2 DEF ScanError, lists, Listed
    <2>2. Fresh' /\ BatchesMatch'
      BY <1>2 DEF ScanError, TypeOK, Lists, Fresh, BatchesMatch, lists
    <2>3. SeenIsShown' /\ FilteredList' /\ OneRowPerSeenKey'
      BY <1>2, <2>1
         DEF ScanError, Lists, SeenIsShown, FilteredList, OneRowPerSeenKey, lists, hist
    <2>4. Progress'
      BY <1>2, <2>1 DEF ScanError, TypeOK, Lists, Progress, lists, hist
    <2> QED
      BY <2>2, <2>3, <2>4 DEF Lists
  <1>3. CASE BatchClosure(s)
    <2>1. UNCHANGED <<cur, pat, failed, done, last, hist>> /\ pc[s] = "batch" /\ s <= cur
      BY <1>0, <1>3 DEF BatchClosure, Lists, Fresh
    <2>2. /\ seen' = [seen EXCEPT ![s] = @ \cup got[s]]
          /\ tree' = [tree EXCEPT ![s] = @ \cup got[s]]
          /\ rows' = [rows EXCEPT ![s] =
                        [k \in Keys |-> IF k \in got[s] \ seen[s] THEN @[k] + 1 ELSE @[k]]]
          /\ got' = [got EXCEPT ![s] = {}]
          /\ pc' = [pc EXCEPT ![s] = "check"]
      BY <1>3 DEF BatchClosure, AddBatch
    <2>3. \A k \in Keys : rows'[s][k] = IF k \in got[s] \ seen[s] THEN rows[s][k] + 1
                                                               ELSE rows[s][k]
      BY <2>2 DEF TypeOK
    <2>4. \A t \in Sessions \ {s} : Listed(t)' = Listed(t) /\ rows'[t] = rows[t]
      BY <2>2 DEF TypeOK, Listed
    <2>5. Listed(s)' = Listed(s) \cup got[s]
      <3>1. seen[s] \subseteq Listed(s) /\ got[s] \subseteq Keys
        BY DEF Lists, SeenIsShown, TypeOK
      <3>2. \A k \in Keys : rows[s][k] \in Nat
        BY DEF TypeOK
      <3> QED
        BY <2>3, <3>1, <3>2 DEF Listed
    <2>6. Fresh'
      BY <1>0, <2>1, <2>2 DEF TypeOK, Lists, Fresh
    <2>7. SeenIsShown'
      <3>1. seen'[s] = seen[s] \cup got[s] /\ tree'[s] = tree[s] \cup got[s]
        BY <2>2 DEF TypeOK
      <3>2. \A t \in Sessions \ {s} : seen'[t] = seen[t] /\ tree'[t] = tree[t]
        BY <2>2 DEF TypeOK
      <3> QED
        BY <2>4, <2>5, <3>1, <3>2 DEF Lists, SeenIsShown
    <2>8. BatchesMatch'
      BY <2>1, <2>2 DEF TypeOK, Lists, BatchesMatch
    <2>9. FilteredList'
      <3>1. CASE s = cur
        BY <1>0, <2>1, <2>5, <3>1 DEF Lists, FilteredList, BatchesMatch, hist
      <3>2. CASE s # cur /\ cur > 0
        BY <1>0, <2>1, <2>4, <3>2 DEF Lists, FilteredList, hist, Sessions
      <3> QED
        BY <1>0, <2>1, <3>1, <3>2 DEF FilteredList
    <2>10. OneRowPerSeenKey'
      <3>1. CASE s = cur
        <4>1. seen'[cur] = seen[cur] \cup got[cur]
          BY <2>2, <3>1 DEF TypeOK
        <4> QED
          BY <1>0, <2>1, <2>3, <3>1, <4>1 DEF Lists, OneRowPerSeenKey, hist
      <3>2. CASE s # cur
        BY <2>1, <2>2, <3>2 DEF TypeOK, Lists, OneRowPerSeenKey, hist
      <3> QED
        BY <3>1, <3>2
    <2>11. Progress'
      <3>1. CASE s = cur
        <4>1. /\ got'[cur] = {} /\ pc'[cur] = "check"
              /\ Listed(cur)' = Listed(cur) \cup got[cur]
          BY <2>1, <2>2, <2>5, <3>1 DEF TypeOK, Listed
        <4>2. ~done[cur]
          BY <1>0, <2>1, <3>1 DEF Lists, Progress
        <4> QED
          BY <1>0, <2>1, <3>1, <4>1, <4>2 DEF Lists, Progress, hist
      <3>2. CASE s # cur /\ cur > 0
        <4>1. cur \in Sessions \ {s}
          BY <1>0, <3>2 DEF Sessions
        <4>2. got'[cur] = got[cur] /\ pc'[cur] = pc[cur] /\ Listed(cur)' = Listed(cur)
          BY <2>1, <2>2, <2>4, <4>1 DEF TypeOK, Listed
        <4> QED
          BY <2>1, <3>2, <4>2 DEF Lists, Progress, hist
      <3> QED
        BY <1>0, <2>1, <3>1, <3>2 DEF Progress
    <2> QED
      BY <2>6, <2>7, <2>8, <2>9, <2>10, <2>11 DEF Lists
  <1>4. CASE CheckCtx(s)
    <2>1. \A t : Listed(t)' = Listed(t)
      BY <1>4 DEF CheckCtx, lists, Listed
    <2>2. Fresh' /\ BatchesMatch'
      BY <1>4 DEF CheckCtx, TypeOK, Lists, Fresh, BatchesMatch, lists
    <2>3. SeenIsShown' /\ FilteredList' /\ OneRowPerSeenKey'
      BY <1>4, <2>1
         DEF CheckCtx, Lists, SeenIsShown, FilteredList, OneRowPerSeenKey, lists, hist
    <2>4. Progress'
      BY <1>0, <1>4, <2>1 DEF CheckCtx, Cancelled, TypeOK, Lists, Progress, lists, hist
    <2> QED
      BY <2>2, <2>3, <2>4 DEF Lists
  <1>5. CASE FinalClosure(s)
    <2>1. \A t : Listed(t)' = Listed(t)
      BY <1>5 DEF FinalClosure, lists, Listed
    <2>2. Fresh' /\ BatchesMatch'
      BY <1>5 DEF FinalClosure, TypeOK, Lists, Fresh, BatchesMatch, lists
    <2>3. SeenIsShown' /\ FilteredList' /\ OneRowPerSeenKey'
      BY <1>5, <2>1
         DEF FinalClosure, Lists, SeenIsShown, FilteredList, OneRowPerSeenKey, lists, hist
    <2>4. Progress'
      BY <1>5, <2>1 DEF FinalClosure, TypeOK, Lists, Progress, lists, hist
    <2> QED
      BY <2>2, <2>3, <2>4 DEF Lists
  <1> QED
    BY <1>1, <1>2, <1>3, <1>4, <1>5 DEF ScanStep

\* The success closures of deletes and renames keep the lists right: the row,
\* the tree entry and the seen mark of the old name go together.
LEMMA ClosureKeepsLists ==
  ASSUME TypeOK, Lists, NEW k \in Keys, NEW n \in Keys, cur \in Sessions,
         UNCHANGED <<cur, scans, held, returned>>,
         DropKeyLocal(k) \/ RenameLocal(k, n)
  PROVE  Lists'
  <1> DEFINE r == rows[cur]
             r2 == rows'[cur]
             new == named' \ named
  <1>1. r \in [Keys -> Nat] /\ cur > 0 /\ cur \in Nat
    BY ConstantsAssumption DEF TypeOK, Sessions
  <1>2. /\ seen' = [seen EXCEPT ![cur] = @ \ {k}]
        /\ touched' = touched \cup {k}
        /\ UNCHANGED <<cur, pat, pc, got, last, failed, done, held, returned>>
    BY DEF DropKeyLocal, RenameLocal, scans
  <1>3. /\ \A t \in Sessions \ {cur} : rows'[t] = rows[t]
        /\ \A x \in Keys \ {k} : r2[x] > 0 => r[x] > 0 \/ x \in named'
        /\ \A x \in Keys \ {k} : r[x] > 0 => r2[x] > 0
        /\ r2[k] > 0 => r[k] > 0 \/ k \in named'
        /\ \A x \in Keys \ named' :
              r2[x] = IF x = k THEN (IF r[k] > 0 THEN r[k] - 1 ELSE 0) ELSE r[x]
        /\ named \subseteq named'
    <2>1. CASE DropKeyLocal(k)
      BY <1>1, <2>1 DEF DropKeyLocal, TypeOK
    <2>2. CASE RenameLocal(k, n) /\ r[k] > 0
      <3>1. r2 = MoveRow(r, k, n) /\ named' = named \cup {n}
        BY <2>2 DEF RenameLocal, TypeOK
      <3>2. \A t \in Sessions \ {cur} : rows'[t] = rows[t]
        BY <2>2 DEF RenameLocal, TypeOK
      <3> QED
        BY <1>1, <2>2, <3>1, <3>2 DEF MoveRow
    <2>3. CASE RenameLocal(k, n) /\ ~(r[k] > 0)
      BY <1>1, <2>3 DEF RenameLocal
    <2> QED
      BY <2>1, <2>2, <2>3
  <1>4. \A t \in Sessions \ {cur} : Listed(t)' = Listed(t)
    BY <1>3 DEF Listed
  <1>5. Listed(cur) \ {k} \subseteq Listed(cur)'
    BY <1>2, <1>3 DEF Listed
  <1>6. Listed(cur)' \subseteq Listed(cur) \cup named'
    BY <1>2, <1>3 DEF Listed
  <1>7. Fresh'
    BY <1>1, <1>2, <1>3 DEF TypeOK, Lists, Fresh
  <1>8. SeenIsShown'
    <2>1. \A t \in Sessions \ {cur} : seen'[t] = seen[t] /\ tree'[t] = tree[t]
      BY <1>2 DEF DropKeyLocal, RenameLocal, TypeOK
    <2>2. seen'[cur] = seen[cur] \ {k} /\ tree[cur] \ {k} \subseteq tree'[cur]
      BY <1>2 DEF DropKeyLocal, RenameLocal, TypeOK
    <2>3. seen'[cur] \subseteq {x \in Keys : rows'[cur][x] > 0} \cap tree'[cur]
      BY <1>3, <2>2 DEF Lists, SeenIsShown, Listed
    <2> QED
      BY <1>4, <2>1, <2>3 DEF Lists, SeenIsShown, Listed
  <1>9. BatchesMatch'
    BY <1>2 DEF Lists, BatchesMatch
  <1>10. FilteredList'
    BY <1>1, <1>2, <1>3, <1>6 DEF Lists, FilteredList
  <1>11. OneRowPerSeenKey'
    BY <1>1, <1>2, <1>3 DEF TypeOK, Lists, OneRowPerSeenKey
  <1>12. Progress'
    BY <1>1, <1>2, <1>5 DEF Lists, Progress
  <1> QED
    BY <1>7, <1>8, <1>9, <1>10, <1>11, <1>12 DEF Lists

\* Every step preserves the invariant.
LEMMA NextLists == TypeOK /\ Lists /\ [Next]_vars => Lists'
  <1> SUFFICES ASSUME TypeOK, Lists, [Next]_vars PROVE Lists'
    OBVIOUS
  <1>1. ASSUME NEW p \in Patterns, StartScan(p) PROVE Lists'
    <2>1. rc \in Nat /\ home[rc] \in Profiles
      BY <1>1 DEF TypeOK, StartScan, rc, NoClient
    <2> QED
      BY BeginKeepsLists, <1>1, <2>1 DEF StartScan
  <1>2. ASSUME NEW p \in Profiles, Connected(p) PROVE Lists'
    <2>1. rc + 1 \in Nat /\ All \in Patterns
      BY ConstantsAssumption DEF TypeOK, rc
    <2> QED
      BY BeginKeepsLists, <1>2, <2>1 DEF Connected
  <1>3. ASSUME NEW p \in Profiles, OtherClient(p) PROVE Lists'
    BY ElsewhereKeepsLists, <1>3 DEF OtherClient, Store
  <1>4. ASSUME UserStep PROVE Lists'
    <2>1. CASE \E p \in Patterns : StartScan(p)
      BY <1>1, <2>1
    <2>2. CASE ~ \E p \in Patterns : StartScan(p)
      <3>1. UNCHANGED <<cur, scans, lists, hist>>
        BY <1>4, <2>2
           DEF UserStep, DeleteKey, AskRename, ConfirmRename, ConfirmDelete, Dismiss
      <3> QED
        BY ElsewhereKeepsLists, <3>1 DEF hist
    <2> QED
      BY <2>1, <2>2
  <1>5. ASSUME NEW m \in Slots, MutationStep(m) PROVE Lists'
    <2>1. CASE Applied(m)
      BY ElsewhereKeepsLists, <2>1 DEF Applied, Store
    <2>2. CASE NotApplied(m)
      BY ElsewhereKeepsLists, <2>2 DEF NotApplied, hist
    <2>3. CASE MutationClosure(m)
      <3>1. mut[m].key \in Keys /\ mut[m].name \in Keys
        BY <2>3 DEF MutationClosure, TypeOK, Muts, FreeMut
      <3>2. DropKeyLocal(mut[m].key) \/ RenameLocal(mut[m].key, mut[m].name)
        BY <2>3 DEF MutationClosure
      <3>3. UNCHANGED <<cur, scans, held, returned>>
        BY <2>3 DEF MutationClosure
      <3>4. CASE cur \in Sessions
        BY ClosureKeepsLists, <3>1, <3>2, <3>3, <3>4
      <3>5. CASE cur \notin Sessions
        <4>1. cur = 0
          BY ConstantsAssumption, <3>5 DEF TypeOK, Sessions
        <4>2. UNCHANGED <<seen, rows, tree>>
          BY <3>2, <3>5 DEF DropKeyLocal, RenameLocal, TypeOK
        <4> QED
          BY <3>3, <4>1, <4>2
             DEF Lists, Fresh, SeenIsShown, BatchesMatch, FilteredList, OneRowPerSeenKey,
                 Progress, Listed, scans
      <3> QED
        BY <3>4, <3>5
    <2> QED
      BY <1>5, <2>1, <2>2, <2>3 DEF MutationStep
  <1>6. CASE UNCHANGED vars
    BY ElsewhereKeepsLists, <1>6 DEF vars, hist
  <1> QED
    BY ScanKeepsLists, <1>2, <1>3, <1>4, <1>5, <1>6 DEF Next

\* Inv, the conjunction of the types and the list properties, holds in every
\* reachable state.
THEOREM Invariance == Spec => []Inv
  <1>1. Init => TypeOK /\ Lists
    BY InitType, InitLists
  <1>2. TypeOK /\ Lists /\ [Next]_vars => (TypeOK /\ Lists)'
    BY NextType, NextLists
  <1>3. TypeOK /\ Lists => Inv
    BY DEF Inv, Lists
  <1> QED
    BY <1>1, <1>2, <1>3, PTL DEF Spec

\* A key marked seen, which later batches skip, is listed and in the tree.
THEOREM SeenKeysAreShown == Spec => []SeenIsShown
  <1>1. Inv => SeenIsShown
    BY DEF Inv
  <1> QED
    BY <1>1, Invariance, PTL

\* The list shows only keys of the session's pattern and renamed keys.
THEOREM ListIsFiltered == Spec => []FilteredList
  <1>1. Inv => FilteredList
    BY DEF Inv
  <1> QED
    BY <1>1, Invariance, PTL

\* A key no rename produced has exactly one row if it is seen, else none.
THEOREM RowsFollowSeen == Spec => []OneRowPerSeenKey
  <1>1. Inv => OneRowPerSeenKey
    BY DEF Inv
  <1> QED
    BY <1>1, Invariance, PTL

\* A finished scan lists every key that was on the server throughout: from
\* Progress, once the scan is done nothing is owed and no batch is waiting.
THEOREM FinishedScanIsComplete == Spec => []CompleteWhenDone
  <1>1. Inv => CompleteWhenDone
    BY DEF Inv, Progress, CompleteWhenDone
  <1> QED
    BY <1>1, Invariance, PTL

\* The late batch of a superseded scan leaves the list on screen alone.
THEOREM SupersededScanIsInert == Spec => SupersededIsInert
  <1>1. ASSUME TypeOK, NEW s \in Sessions, BatchClosure(s), Cancelled(s)
        PROVE  <<seen[cur], rows[cur], tree[cur]>>' = <<seen[cur], rows[cur], tree[cur]>>
    <2>1. cur \in Sessions \ {s} /\ cur' = cur
      BY <1>1, ConstantsAssumption DEF TypeOK, Sessions, Cancelled, BatchClosure
    <2>2. /\ seen' = [seen EXCEPT ![s] = @ \cup got[s]]
          /\ tree' = [tree EXCEPT ![s] = @ \cup got[s]]
          /\ rows'[cur] = rows[cur]
      BY <1>1, <2>1 DEF TypeOK, BatchClosure, AddBatch
    <2> QED
      BY <2>1, <2>2 DEF TypeOK
  <1>2. TypeOK /\ [Next]_vars =>
          [\A s \in Sessions : BatchClosure(s) /\ Cancelled(s) =>
             <<seen[cur], rows[cur], tree[cur]>>' = <<seen[cur], rows[cur], tree[cur]>>]_vars
    BY <1>1
  <1> QED
    BY <1>2, TypeCorrect, PTL DEF Spec, SupersededIsInert

----------------------------------------------------------------------------
(* The namespace tree.                                                    *)


Shape(t) ==
  /\ t = [seen |-> t.seen, total |-> t.total, nodes |-> t.nodes, expanded |-> t.expanded,
          count |-> t.count, index |-> t.index]
  /\ t.seen \subseteq KeyNames
  /\ t.total \in Int
  /\ t.nodes \subseteq Nodes
  /\ t.count \in [Nodes -> Int]

Counted(t) ==
  /\ \A n \in Nodes : t.count[n] = Cardinality(Beneath(t, n))
  /\ t.total = Cardinality(t.seen)

Good(t) ==
  /\ Shape(t)
  /\ IsFiniteSet(t.seen)
  /\ Counted(t)
  /\ \A k \in t.seen : Path(k) \subseteq t.nodes
  /\ \A n \in t.nodes : Top(n) \/ Beneath(t, n) # {}
  /\ t.expanded \subseteq t.nodes

\* The nodes of a key are nodes, and the key is the last of them.
LEMMA PathIsNodes == \A k \in KeyNames : Path(k) \subseteq Nodes /\ k \in Path(k)
  BY DEF Nodes, Path

\* Paths are closed under taking the parent: below the top level, the node
\* above a node of k's path is on k's path.
LEMMA PathHasParents ==
  ASSUME NEW k \in KeyNames, NEW n \in Path(k), Len(n) > 1
  PROVE  Parent(n) \in Path(k)
  <1>1. k \in Seq(Parts) /\ Len(k) \in Nat /\ MaxFold \in Nat \ {0}
    BY TreeAssumption
  <1>2. CASE n = k
    <2> DEFINE j == IF Len(k) > MaxFold THEN MaxFold ELSE Len(k) - 1
    <2>1. j \in 1 .. Len(k) /\ j <= MaxFold
      BY <1>1, <1>2
    <2> QED
      BY <1>2, <2>1 DEF Path, Parent
  <1>3. CASE n # k
    <2>1. PICK i \in 1 .. Len(k) : i <= MaxFold /\ n = SubSeq(k, 1, i)
      BY <1>3 DEF Path
    <2>2. Len(n) = i /\ n \in Seq(Parts)
      BY <1>1, <2>1, SubSeqProperties
    <2>3. Parent(n) = SubSeq(n, 1, i - 1) /\ i > 1
      BY <1>1, <2>1, <2>2 DEF Parent
    <2>4. SubSeq(n, 1, i - 1) = SubSeq(k, 1, i - 1)
      <3>1. 1 \in 1 .. Len(k) /\ 1 \in 1 .. i - 1 + 1 /\ i - 1 \in 1 .. i - 1 + 1
        BY <1>1, <2>1, <2>3
      <3>2. SubSeq(SubSeq(k, 1, i), 1, i - 1) = SubSeq(k, 1 + 1 - 1, 1 + (i - 1) - 1)
        BY <1>1, <2>1, <3>1, SubSeqOfSubSeq
      <3> QED
        BY <2>1, <3>2
    <2> QED
      BY <1>1, <2>1, <2>3, <2>4 DEF Path
  <1> QED
    BY <1>2, <1>3

\* In a good tree the keys beneath a node are finitely many.
LEMMA BeneathFinite ==
  ASSUME NEW t, IsFiniteSet(t.seen), NEW n
  PROVE  IsFiniteSet(Beneath(t, n)) /\ Cardinality(Beneath(t, n)) \in Nat
  <1>1. Beneath(t, n) \in SUBSET t.seen
    BY DEF Beneath
  <1> QED
    BY <1>1, FS_Subset, FS_CardinalityType

\* The empty tree is good.
LEMMA EmptyGood == Good(EmptyTree)
  <1>1. \A n : Beneath(EmptyTree, n) = {}
    BY DEF EmptyTree, Beneath
  <1> QED
    BY <1>1, FS_EmptySet DEF Good, EmptyTree, Shape, Counted

\* Add keeps a tree good: exactly the nodes on the key's path gain one key.
LEMMA AddGood ==
  ASSUME NEW t, Good(t), NEW k \in KeyNames
  PROVE  Good(Add(t, k))
  <1> DEFINE u == Add(t, k)
  <1>1. CASE k \in t.seen
    BY <1>1 DEF Add
  <1>2. CASE k \notin t.seen
    <2>1. /\ u.seen = t.seen \cup {k} /\ u.total = t.total + 1
          /\ u.nodes = t.nodes \cup Path(k) /\ u.expanded = t.expanded
          /\ u.count = [n \in Nodes |-> IF n \in Path(k) THEN t.count[n] + 1 ELSE t.count[n]]
          /\ Shape(u)
      <3>1. u = [seen |-> t.seen \cup {k}, total |-> t.total + 1, nodes |-> t.nodes \cup Path(k),
                 expanded |-> t.expanded,
                 count |-> [n \in Nodes |-> IF n \in Path(k) THEN t.count[n] + 1 ELSE t.count[n]],
                 index |-> Indexed(t.index, Path(k) \ t.nodes)]
        BY <1>2 DEF Add, Good, Shape
      <3> HIDE DEF u
      <3>2. /\ u.seen = t.seen \cup {k} /\ u.total = t.total + 1
            /\ u.nodes = t.nodes \cup Path(k) /\ u.expanded = t.expanded
            /\ u.count = [n \in Nodes |-> IF n \in Path(k) THEN t.count[n] + 1 ELSE t.count[n]]
            /\ u.index = Indexed(t.index, Path(k) \ t.nodes)
        BY <3>1
      <3>3. Shape(u)
        BY <3>1, <3>2, PathIsNodes DEF Good, Shape
      <3> QED
        BY <3>2, <3>3
    <2> HIDE DEF u
    <2>2. IsFiniteSet(u.seen) /\ Cardinality(u.seen) = Cardinality(t.seen) + 1
      BY <1>2, <2>1, FS_AddElement DEF Good
    <2>3. \A n \in Path(k) : Beneath(u, n) = Beneath(t, n) \cup {k}
      BY <2>1 DEF Beneath
    <2>4. \A n : n \notin Path(k) => Beneath(u, n) = Beneath(t, n)
      BY <2>1 DEF Beneath
    <2>5. Counted(u)
      <3>1. \A n \in Path(k) : Cardinality(Beneath(u, n)) = Cardinality(Beneath(t, n)) + 1
        <4> TAKE n \in Path(k)
        <4>1. IsFiniteSet(Beneath(t, n)) /\ k \notin Beneath(t, n)
          BY <1>2, BeneathFinite DEF Good, Beneath
        <4> QED
          BY <2>3, <4>1, FS_AddElement
      <3> QED
        BY <2>1, <2>2, <2>4, <3>1 DEF Good, Counted
    <2>6. \A x \in u.seen : Path(x) \subseteq u.nodes
      BY <2>1 DEF Good
    <2>7. \A n \in u.nodes : Top(n) \/ Beneath(u, n) # {}
      BY <2>1, <2>3, <2>4 DEF Good
    <2>8. Good(u)
      BY <2>1, <2>2, <2>5, <2>6, <2>7 DEF Good
    <2> QED
      BY <2>8 DEF u
  <1> QED
    BY <1>1, <1>2

\* Remove keeps a tree good: a node that is pruned had no other key beneath.
LEMMA RemoveGood ==
  ASSUME NEW t, Good(t), NEW k \in KeyNames
  PROVE  Good(Remove(t, k))
  <1> DEFINE u == Remove(t, k)
  <1>1. CASE k \notin t.seen
    BY <1>1 DEF Remove
  <1>2. CASE k \in t.seen
    <2>1. /\ u.seen = t.seen \ {k} /\ u.total = t.total - 1
          /\ u.nodes = t.nodes \ Pruned(t, k) /\ u.expanded = t.expanded \ Pruned(t, k)
          /\ u.count = [n \in Nodes |-> IF n \in Path(k) THEN t.count[n] - 1 ELSE t.count[n]]
          /\ Shape(u)
      <3>1. Path(k) \subseteq t.nodes
        BY <1>2 DEF Good
      <3>2. u = [seen |-> t.seen \ {k}, total |-> t.total - 1, nodes |-> t.nodes \ Pruned(t, k),
                 expanded |-> t.expanded \ Pruned(t, k),
                 count |-> [n \in Nodes |-> IF n \in Path(k) THEN t.count[n] - 1 ELSE t.count[n]],
                 index |-> u.index]
        BY <1>2, <3>1 DEF Remove, Good, Shape
      <3> HIDE DEF u
      <3>3. /\ u.seen = t.seen \ {k} /\ u.total = t.total - 1
            /\ u.nodes = t.nodes \ Pruned(t, k) /\ u.expanded = t.expanded \ Pruned(t, k)
            /\ u.count = [n \in Nodes |-> IF n \in Path(k) THEN t.count[n] - 1 ELSE t.count[n]]
        BY <3>2
      <3>4. Shape(u)
        BY <3>2, <3>3 DEF Good, Shape
      <3> QED
        BY <3>3, <3>4
    <2> HIDE DEF u
    <2>2. IsFiniteSet(u.seen) /\ Cardinality(u.seen) = Cardinality(t.seen) - 1
      BY <1>2, <2>1, FS_RemoveElement DEF Good
    <2>3. \A n \in Path(k) : Beneath(u, n) = Beneath(t, n) \ {k} /\ k \in Beneath(t, n)
      BY <1>2, <2>1 DEF Beneath
    <2>4. \A n : n \notin Path(k) => Beneath(u, n) = Beneath(t, n)
      BY <2>1 DEF Beneath
    <2>5. \A n \in Path(k) : Cardinality(Beneath(u, n)) = t.count[n] - 1
      <3>1. \A n \in Path(k) : t.count[n] = Cardinality(Beneath(t, n))
        BY PathIsNodes DEF Good, Counted
      <3> QED
        BY <2>3, <3>1, BeneathFinite, FS_RemoveElement DEF Good
    <2>6. Counted(u)
      BY <2>1, <2>2, <2>4, <2>5 DEF Good, Counted
    <2>7. \A n \in Pruned(t, k) : Beneath(u, n) = {}
      <3> TAKE n \in Pruned(t, k)
      <3>1. n \in Path(k) /\ n \in Nodes /\ t.count[n] <= 1 /\ t.count[n] \in Int
        BY PathIsNodes DEF Pruned, Good, Shape
      <3>2. IsFiniteSet(Beneath(u, n)) /\ Cardinality(Beneath(u, n)) \in Nat
        BY <2>2, BeneathFinite
      <3>3. Cardinality(Beneath(u, n)) = 0
        BY <2>5, <3>1, <3>2
      <3> QED
        BY <3>2, <3>3, FS_EmptySet
    <2>8. \A x \in u.seen : Path(x) \subseteq u.nodes
      BY <2>1, <2>7 DEF Good, Beneath
    <2>9. \A n \in u.nodes : Top(n) \/ Beneath(u, n) # {}
      <3> TAKE n \in u.nodes
      <3>1. CASE n \in Path(k)
        <4>1. Top(n) \/ ~(t.count[n] <= 1)
          BY <2>1, <3>1 DEF Pruned
        <4>2. n \in Nodes /\ t.count[n] \in Int
          BY <3>1, PathIsNodes DEF Good, Shape
        <4>3. ~(t.count[n] <= 1) => Cardinality(Beneath(u, n)) # 0
          BY <2>5, <3>1, <4>2
        <4> QED
          BY <4>1, <4>3, FS_EmptySet
      <3>2. CASE n \notin Path(k)
        BY <2>1, <2>4, <3>2 DEF Good
      <3> QED
        BY <3>1, <3>2
    <2>10. u.expanded \subseteq u.nodes
      BY <2>1 DEF Good
    <2>11. Good(u)
      BY <2>1, <2>2, <2>6, <2>8, <2>9, <2>10 DEF Good
    <2> QED
      BY <2>11 DEF u
  <1> QED
    BY <1>1, <1>2

\* Toggle keeps a tree good: what it expands is the parent of a node.
LEMMA ToggleGood ==
  ASSUME NEW t, Good(t), NEW x
  PROVE  Good(Toggle(t, x))
  <1> DEFINE n == IF x \in Prefixes THEN t.index[x] ELSE NoNode
  <1>1. CASE n = NoNode \/ ~Folder(t, n)
    BY <1>1 DEF Toggle
  <1>2. CASE n # NoNode /\ Folder(t, n)
    <2>1. PICK c \in t.nodes : Len(c) > 1 /\ Parent(c) = n
      BY <1>2 DEF Folder
    <2>2. Beneath(t, c) # {}
      <3>1. ~Top(c)
        BY <2>1 DEF Top
      <3> QED
        BY <2>1, <3>1 DEF Good
    <2>3. PICK k \in t.seen : c \in Path(k)
      BY <2>2 DEF Beneath
    <2>4. n \in t.nodes
      BY <2>1, <2>3, PathHasParents DEF Good, Shape
    <2> DEFINE e == IF n \in t.expanded THEN t.expanded \ {n} ELSE t.expanded \cup {n}
    <2>5. Toggle(t, x) = [t EXCEPT !.expanded = e]
      BY <1>2 DEF Toggle
    <2>6. e \subseteq t.nodes
      BY <2>4 DEF Good
    <2> HIDE DEF e, n
    <2> DEFINE u == [t EXCEPT !.expanded = e]
    <2>7. /\ u.seen = t.seen /\ u.total = t.total /\ u.nodes = t.nodes
          /\ u.count = t.count /\ u.expanded = e /\ Shape(u)
      BY <2>6 DEF Good, Shape
    <2> HIDE DEF u
    <2>8. \A o : Beneath(u, o) = Beneath(t, o)
      BY <2>7 DEF Beneath
    <2>9. Good(u)
      BY <2>6, <2>7, <2>8 DEF Good, Counted
    <2> QED
      BY <2>5, <2>9 DEF u
  <1> QED
    BY <1>1, <1>2

\* The tree is good in every reachable state.
THEOREM TreeStaysGood == TreeSpec => []Good(namespace)
  <1>1. TreeInit => Good(namespace)
    BY EmptyGood DEF TreeInit
  <1>2. Good(namespace) /\ [TreeNext]_namespace => Good(namespace)'
    <2> SUFFICES ASSUME Good(namespace), [TreeNext]_namespace PROVE Good(namespace')
      OBVIOUS
    <2>1. ASSUME NEW k \in KeyNames, AddKey(k) PROVE Good(namespace')
      BY <2>1, AddGood DEF AddKey
    <2>2. ASSUME NEW k \in KeyNames, RemoveKey(k) PROVE Good(namespace')
      BY <2>2, RemoveGood DEF RemoveKey
    <2>3. ASSUME NEW k \in KeyNames, NEW n \in KeyNames, RenameKey(k, n) PROVE Good(namespace')
      <3>1. Good(Remove(namespace, k))
        BY RemoveGood
      <3> QED
        BY <2>3, <3>1, AddGood DEF RenameKey
    <2>4. ASSUME NEW n \in Nodes, ToggleRow(n) PROVE Good(namespace')
      BY <2>4, ToggleGood DEF ToggleRow
    <2>5. ASSUME NEW n \in Nodes, TreeEnter(n) PROVE Good(namespace')
      BY <2>5, EmptyGood DEF TreeEnter
    <2>6. CASE UNCHANGED namespace
      BY <2>6
    <2> QED
      BY <2>1, <2>2, <2>3, <2>4, <2>5, <2>6 DEF TreeNext
  <1> QED
    BY <1>1, <1>2, PTL DEF TreeSpec

\* Each node's count is the number of keys at or below it, always.
THEOREM CountsAreExact == TreeSpec => []CountsExact
  <1>1. Good(namespace) => CountsExact
    BY DEF Good, Counted, CountsExact
  <1> QED
    BY <1>1, TreeStaysGood, PTL

\* The early return of Remove marked "should not happen" never happens.
THEOREM PathsArePresent == TreeSpec => []PathsPresent
  <1>1. Good(namespace) => PathsPresent
    BY DEF Good, PathsPresent
  <1> QED
    BY <1>1, TreeStaysGood, PTL

\* Below the top level pruning is complete.
THEOREM InnerNodesAreUsed == TreeSpec => []InnerNodesUsed
  <1>1. Good(namespace) => InnerNodesUsed
    BY DEF Good, InnerNodesUsed
  <1> QED
    BY <1>1, TreeStaysGood, PTL

----------------------------------------------------------------------------
(* The index.                                                              *)

Indexes(t) ==
  <<Empty>> \notin t.nodes =>
    /\ \A n \in t.nodes : t.index[PrefixOf(n)] = n
    /\ \A x \in Prefixes : t.index[x] # NoNode => t.index[x] \in t.nodes /\ PrefixOf(t.index[x]) = x

\* The nodes of a key begin as the key does, its top node included.
LEMMA PathBegins ==
  ASSUME NEW k \in KeyNames
  PROVE  /\ <<k[1]>> \in Path(k)
         /\ \A n \in Path(k) : n \in Seq(Parts) /\ Len(n) \in Nat \ {0} /\ n[1] = k[1]
  <1>1. k \in Seq(Parts) /\ k # << >> /\ MaxFold \in Nat \ {0}
    BY TreeAssumption
  <1>2. Len(k) \in Nat \ {0} /\ \A i \in 1 .. Len(k) : k[i] \in Parts
    BY <1>1, LenProperties, EmptySeq, ElementOfSeq
  <1>3. ASSUME NEW i \in 1 .. Len(k)
        PROVE  LET n == SubSeq(k, 1, i) IN n \in Seq(Parts) /\ Len(n) = i /\ n[1] = k[1]
    <2> DEFINE n == SubSeq(k, 1, i)
    <2>1. /\ n \in Seq(Parts) /\ Len(n) = IF 1 <= i THEN i - 1 + 1 ELSE 0
          /\ \A j \in 1 .. i - 1 + 1 : n[j] = k[1 + j - 1]
      <3>1. 1 \in Int /\ i \in Int /\ \A j \in 1 .. i : k[j] \in Parts
        BY <1>2
      <3> QED
        BY <3>1, SubSeqProperties
    <2> HIDE DEF n
    <2>2. 1 <= i /\ i - 1 + 1 = i /\ 1 \in 1 .. i - 1 + 1 /\ 1 + 1 - 1 = 1
      BY <1>2
    <2>3. n \in Seq(Parts) /\ Len(n) = i /\ n[1] = k[1]
      BY <2>1, <2>2
    <2> QED
      BY <2>3 DEF n
  <1>4. <<k[1]>> \in Path(k)
    <2>1. 1 \in 1 .. Len(k) /\ 1 <= MaxFold
      BY <1>1, <1>2
    <2> DEFINE n == SubSeq(k, 1, 1)
    <2>2. n \in Seq(Parts) /\ Len(n) = 1 /\ n[1] = k[1]
      BY <1>3, <2>1
    <2>3. n \in Path(k)
      BY <2>1 DEF Path
    <2> HIDE DEF n
    <2>4. n = <<k[1]>>
      BY <2>2
    <2> QED
      BY <2>3, <2>4
  <1>5. ASSUME NEW n \in Path(k)
        PROVE  n \in Seq(Parts) /\ Len(n) \in Nat \ {0} /\ n[1] = k[1]
    <2>1. CASE n = k
      BY <1>1, <1>2, <2>1
    <2>2. CASE n # k
      <3>1. PICK i \in 1 .. Len(k) : n = SubSeq(k, 1, i)
        BY <2>2 DEF Path
      <3>2. n \in Seq(Parts) /\ Len(n) = i /\ n[1] = k[1] /\ i \in Nat \ {0}
        BY <1>2, <1>3, <3>1
      <3> QED
        BY <3>2
    <2> QED
      BY <2>1, <2>2
  <1> QED
    BY <1>4, <1>5

\* While the node <<Empty>> is not there, each node is its own prefix.
LEMMA NodeIsPrefix ==
  ASSUME NEW t, Good(t), <<Empty>> \notin t.nodes, NEW n \in t.nodes
  PROVE  PrefixOf(n) = n /\ n \in Nodes /\ PrefixOf(n) \in Prefixes /\ Len(n) \in Nat /\ n # NoNode
  <1>1. n \in Nodes
    BY DEF Good, Shape
  <1>2. PICK k \in KeyNames : n \in Path(k)
    BY <1>1 DEF Nodes
  <1>3. n \in Seq(Parts) /\ Len(n) \in Nat \ {0} /\ MaxFold \in Nat \ {0}
    BY <1>2, PathBegins, TreeAssumption
  <1>4. n[1] # Empty
    <2>1. CASE Top(n)
      <3>1. n = <<n[1]>>
        BY <1>3, <2>1 DEF Top
      <3> QED
        BY <3>1
    <2>2. CASE ~Top(n)
      <3>1. PICK x \in t.seen : n \in Path(x)
        BY <2>2 DEF Good, Beneath
      <3>2. <<x[1]>> \in t.nodes /\ n[1] = x[1]
        BY <3>1, PathBegins DEF Good, Shape
      <3> QED
        BY <3>2
    <2> QED
      BY <2>1, <2>2
  <1>5. Lead(n) = 0
    <2> DEFINE P(i) == /\ i <= MaxFold
                       /\ \A j \in 1 .. i : n[j] = Empty
                       /\ i < Len(n) /\ i < MaxFold => n[i + 1] # Empty
    <2>1. 0 \in 0 .. Len(n) /\ P(0)
      BY <1>3, <1>4
    <2>2. \A i \in 0 .. Len(n) : P(i) => i = 0
      <3> SUFFICES ASSUME NEW i \in 0 .. Len(n), P(i), i # 0 PROVE FALSE
        OBVIOUS
      <3>1. 1 \in 1 .. i
        BY <1>3
      <3> QED
        BY <1>4, <3>1
    <2>3. Lead(n) = CHOOSE i \in 0 .. Len(n) : P(i)
      BY DEF Lead
    <2> HIDE DEF P
    <2> QED
      BY <2>1, <2>2, <2>3
  <1>6. SubSeq(n, 1, Len(n)) = n
    BY <1>3, SubSeqFull
  <1>7. PrefixOf(n) = Text(n)
    <2>1. Lead(n) + 1 = 1
      BY <1>5
    <2> QED
      BY <1>6, <2>1 DEF PrefixOf
  <1>8. n # <<Empty>> /\ n # << >>
    BY <1>3, <1>4
  <1> QED
    BY <1>1, <1>3, <1>7, <1>8 DEF Text, Prefixes, NoNode

LEMMA EmptyIndexes == Indexes(EmptyTree)
  BY DEF Indexes, EmptyTree

LEMMA AddIndexes ==
  ASSUME NEW t, Good(t), Indexes(t), NEW k \in KeyNames
  PROVE  Indexes(Add(t, k))
  <1>1. CASE k \in t.seen
    BY <1>1 DEF Add
  <1>2. CASE k \notin t.seen
    <2> DEFINE u == Add(t, k)
               new == Path(k) \ t.nodes
    <2>1. u.nodes = t.nodes \cup Path(k) /\ u.index = Indexed(t.index, new)
      BY <1>2 DEF Add, Good, Shape
    <2>2. Good(u)
      BY AddGood
    <2> HIDE DEF u
    <2> SUFFICES ASSUME <<Empty>> \notin u.nodes
                 PROVE  /\ \A n \in u.nodes : u.index[PrefixOf(n)] = n
                        /\ \A x \in Prefixes : u.index[x] # NoNode =>
                             u.index[x] \in u.nodes /\ PrefixOf(u.index[x]) = x
      BY DEF Indexes, u
    <2>3. \A n \in u.nodes : PrefixOf(n) = n /\ n \in Prefixes /\ Len(n) \in Nat
      BY <2>2, NodeIsPrefix
    <2>4. /\ \A n \in t.nodes : t.index[PrefixOf(n)] = n
          /\ \A x \in Prefixes : t.index[x] # NoNode => t.index[x] \in t.nodes /\ PrefixOf(t.index[x]) = x
      BY <2>1 DEF Indexes
    <2>5. ASSUME NEW x \in Prefixes
          PROVE  u.index[x] = IF x \in new THEN x ELSE t.index[x]
      <3> DEFINE made == {n \in new : PrefixOf(n) = x}
      <3>1. u.index[x] = IF made = {} THEN t.index[x]
                         ELSE CHOOSE n \in made : \A o \in made : Len(o) <= Len(n)
        BY <2>1 DEF Indexed
      <3>2. made = IF x \in new THEN {x} ELSE {}
        BY <2>1, <2>3
      <3> HIDE DEF made
      <3>3. CASE x \in new
        <4>1. Len(x) \in Nat /\ made = {x}
          BY <2>1, <2>3, <3>2, <3>3
        <4>2. (CHOOSE n \in made : \A o \in made : Len(o) <= Len(n)) = x
          BY <4>1
        <4> QED
          BY <3>1, <3>3, <4>1, <4>2
      <3>4. CASE x \notin new
        BY <3>1, <3>2, <3>4
      <3> QED
        BY <3>3, <3>4
    <2> QED
      BY <2>1, <2>3, <2>4, <2>5, ZenonT(60)
  <1> QED
    BY <1>1, <1>2

LEMMA RemoveIndexes ==
  ASSUME NEW t, Good(t), Indexes(t), NEW k \in KeyNames
  PROVE  Indexes(Remove(t, k))
  <1>1. CASE k \notin t.seen
    BY <1>1 DEF Remove
  <1>2. CASE k \in t.seen
    <2> DEFINE u == Remove(t, k)
    <2>1. Path(k) \subseteq t.nodes
      BY <1>2 DEF Good
    <2>2. /\ u.nodes = t.nodes \ Pruned(t, k)
          /\ u.index = [x \in Prefixes |->
                          IF \E n \in Pruned(t, k) : PrefixOf(n) = x THEN NoNode ELSE t.index[x]]
      BY <1>2, <2>1 DEF Remove, Good, Shape
    <2> HIDE DEF u
    <2> SUFFICES ASSUME <<Empty>> \notin u.nodes
                 PROVE  /\ \A n \in u.nodes : u.index[PrefixOf(n)] = n
                        /\ \A x \in Prefixes : u.index[x] # NoNode =>
                             u.index[x] \in u.nodes /\ PrefixOf(u.index[x]) = x
      BY DEF Indexes, u
    <2>3. <<Empty>> \notin t.nodes
      <3>1. Top(<<Empty>>)
        BY DEF Top
      <3> QED
        BY <2>2, <3>1 DEF Pruned
    <2>4. \A n \in t.nodes : PrefixOf(n) = n /\ n \in Prefixes
      BY <2>3, NodeIsPrefix
    <2>5. /\ \A n \in t.nodes : t.index[PrefixOf(n)] = n
          /\ \A x \in Prefixes : t.index[x] # NoNode => t.index[x] \in t.nodes /\ PrefixOf(t.index[x]) = x
      BY <2>3 DEF Indexes
    <2>6. Pruned(t, k) \subseteq t.nodes
      BY <2>1 DEF Pruned
    <2>7. \A x \in Prefixes : u.index[x] = IF x \in Pruned(t, k) THEN NoNode ELSE t.index[x]
      BY <2>2, <2>4, <2>6
    <2> QED
      BY <2>2, <2>4, <2>5, <2>7
  <1> QED
    BY <1>1, <1>2

LEMMA ToggleIndexes ==
  ASSUME NEW t, Good(t), Indexes(t), NEW x
  PROVE  Indexes(Toggle(t, x))
  <1>1. Toggle(t, x).nodes = t.nodes /\ Toggle(t, x).index = t.index
    BY DEF Toggle, Good, Shape
  <1> QED
    BY <1>1 DEF Indexes

\* From the prefix of a node the index leads to that node, and to no other.
THEOREM IndexStaysFaithful == TreeSpec => []IndexFaithful
  <1>1. TreeInit => Indexes(namespace)
    BY EmptyIndexes DEF TreeInit
  <1>2. Good(namespace) /\ Indexes(namespace) /\ [TreeNext]_namespace => Indexes(namespace)'
    <2> SUFFICES ASSUME Good(namespace), Indexes(namespace), [TreeNext]_namespace PROVE Indexes(namespace')
      OBVIOUS
    <2>1. ASSUME NEW k \in KeyNames, AddKey(k) PROVE Indexes(namespace')
      BY <2>1, AddIndexes DEF AddKey
    <2>2. ASSUME NEW k \in KeyNames, RemoveKey(k) PROVE Indexes(namespace')
      BY <2>2, RemoveIndexes DEF RemoveKey
    <2>3. ASSUME NEW k \in KeyNames, NEW n \in KeyNames, RenameKey(k, n) PROVE Indexes(namespace')
      <3>1. Good(Remove(namespace, k)) /\ Indexes(Remove(namespace, k))
        BY RemoveGood, RemoveIndexes
      <3> QED
        BY <2>3, <3>1, AddIndexes DEF RenameKey
    <2>4. ASSUME NEW n \in Nodes, ToggleRow(n) PROVE Indexes(namespace')
      BY <2>4, ToggleIndexes DEF ToggleRow
    <2>5. ASSUME NEW n \in Nodes, TreeEnter(n) PROVE Indexes(namespace')
      BY <2>5, EmptyIndexes DEF TreeEnter
    <2>6. CASE UNCHANGED namespace
      BY <2>6
    <2> QED
      BY <2>1, <2>2, <2>3, <2>4, <2>5, <2>6 DEF TreeNext
  <1>3. Indexes(namespace) => IndexFaithful
    BY DEF Indexes, IndexFaithful, PrefixesDiffer
  <1> QED
    BY <1>1, <1>2, <1>3, TreeStaysGood, PTL DEF TreeSpec
=============================================================================
