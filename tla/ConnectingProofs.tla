-------------------------- MODULE ConnectingProofs --------------------------
(***************************************************************************)
(* Proofs about the two sides of connecting: Connection, the dials, and    *)
(* Profiles, what is dialled.                                              *)
(*                                                                         *)
(* Connection, for any number of dials and any profiles: whatever order    *)
(* dials end in, nothing is left open but what is in use, and what is in   *)
(* use is alive.  Neither is inductive alone: that a dial which has just   *)
(* succeeded is alive depends on what each earlier stage has opened, and   *)
(* StageFacts says that.  From the same invariant follows that Connection  *)
(* implements Handover, one action of it after the other.                  *)
(*                                                                         *)
(* Profiles, for any names, hosts, files and bounds: what the user has     *)
(* entered is in the file, a connection keeps the profile of its client,   *)
(* and a tunnel goes where the first line that applies says.  The first    *)
(* two are about pointers.  Formed says that everything in use             *)
(* points into the heap and that the names of the configuration are those  *)
(* of its objects; Grown, that no step but a start or an end takes from an *)
(* object what it is known by.  Entered says of the configuration in       *)
(* memory what EnteredIsStored says of the file: the next save writes it.  *)
(* The third is about an algorithm: two folds, over the lines and over the *)
(* blocks they make, against a search of the lines.  Follows is the        *)
(* invariant of the first fold, Found that of the second; both go by       *)
(* induction over the places of a sequence, which the least element of a   *)
(* set of numbers gives (NatInduct).                                       *)
(***************************************************************************)
EXTENDS Connection, Profiles, TLAPS, SequenceTheorems, FiniteSetTheorems, WellFoundedInduction

----------------------------------------------------------------------------
(* The dials.                                                              *)

StageFacts ==
  \A d \in Dials :
    /\ stage[d] = "tunnel" => profile[d].ssh
    /\ stage[d] \in {"idle", "tunnel"} => client[d] = "none" /\ tunnel[d] = "none"
    /\ stage[d] = "check" => client[d] = "none"
    /\ stage[d] \in {"ping", "ok"} => client[d] = "open" /\ ~profile[d].refused
    /\ stage[d] \in {"check", "ping", "ok"} => (profile[d].ssh => tunnel[d] = "open")
    /\ d > started => stage[d] = "idle"
    /\ d = rc => stage[d] = "done"
    /\ profile[d].refused => client[d] = "none"

DialInv == DialTypeOK /\ StageFacts /\ NothingLeaks /\ InUseIsAlive

LEMMA DialInitInv == DialInit => DialInv
  <1> SUFFICES ASSUME DialInit PROVE DialInv
    OBVIOUS
  <1>1. MaxDials \in Nat /\ Profiles \subseteq [ssh : BOOLEAN, refused : BOOLEAN]
    BY ConnectionAssumption
  <1>2. DialTypeOK
    BY <1>1 DEF DialInit, DialTypeOK, Dials, Stages, Life
  <1>3. StageFacts /\ NothingLeaks /\ InUseIsAlive
    BY <1>1 DEF DialInit, StageFacts, NothingLeaks, InUseIsAlive, UnderWay, Dials
  <1> QED
    BY <1>2, <1>3 DEF DialInv

\* Each dial's steps, and its closures, keep the invariant.
LEMMA DialingKeepsInv ==
  ASSUME DialInv, NEW d \in Dials, Dialing(d)
  PROVE  DialInv'
  <1> USE ConnectionAssumption DEF DialInv, DialTypeOK, Dials, Stages, Life, Goto
  <1>1. CASE TunnelOpens(d)
    <2>1. DialTypeOK'
      BY <1>1 DEF TunnelOpens, StageFacts
    <2>2. StageFacts'
      BY <1>1 DEF TunnelOpens, StageFacts
    <2>3. NothingLeaks'
      BY <1>1 DEF TunnelOpens, NothingLeaks, UnderWay
    <2>4. InUseIsAlive'
      BY <1>1 DEF TunnelOpens, StageFacts, InUseIsAlive
    <2> QED
      BY <2>1, <2>2, <2>3, <2>4
  <1>2. CASE TunnelFails(d)
    BY <1>2 DEF TunnelFails, StageFacts, NothingLeaks, InUseIsAlive, UnderWay
  <1>3. CASE Check(d)
    <2>1. DialTypeOK'
      BY <1>3 DEF Check, StageFacts
    <2>2. StageFacts'
      BY <1>3 DEF Check, StageFacts
    <2>3. NothingLeaks'
      BY <1>3 DEF Check, NothingLeaks, UnderWay
    <2>4. InUseIsAlive'
      BY <1>3 DEF Check, StageFacts, InUseIsAlive
    <2> QED
      BY <2>1, <2>2, <2>3, <2>4
  <1>4. CASE PingAnswers(d)
    BY <1>4 DEF PingAnswers, StageFacts, NothingLeaks, InUseIsAlive, UnderWay
  <1>5. CASE PingFails(d)
    BY <1>5 DEF PingFails, Closed, StageFacts, NothingLeaks, InUseIsAlive, UnderWay
  <1> QED
    BY <1>1, <1>2, <1>3, <1>4, <1>5 DEF Dialing

LEMMA ClosureKeepsInv ==
  ASSUME DialInv, NEW d \in Dials, Closure(d)
  PROVE  DialInv'
  <1> USE ConnectionAssumption DEF DialInv, DialTypeOK, Dials, Stages, Life, Goto
  <1>1. CASE OnConnected(d)
    BY <1>1 DEF OnConnected, Closed, StageFacts, NothingLeaks, InUseIsAlive, UnderWay
  <1>2. CASE Failed(d)
    BY <1>2 DEF Failed, StageFacts, NothingLeaks, InUseIsAlive, UnderWay
  <1> QED
    BY <1>1, <1>2 DEF Closure

LEMMA DialNextInv == DialInv /\ [DialNext]_dialVars => DialInv'
  <1> SUFFICES ASSUME DialInv, [DialNext]_dialVars PROVE DialInv'
    OBVIOUS
  <1>1. CASE ConnectAsync
    BY <1>1, ConnectionAssumption
    DEF ConnectAsync, Goto, DialInv, DialTypeOK, StageFacts, NothingLeaks, InUseIsAlive, UnderWay,
        Dials, Stages, Life
  <1>2. ASSUME NEW d \in Dials, Dialing(d) PROVE DialInv'
    BY <1>2, DialingKeepsInv
  <1>3. ASSUME NEW d \in Dials, Closure(d) PROVE DialInv'
    BY <1>3, ClosureKeepsInv
  <1>4. CASE UNCHANGED dialVars
    BY <1>4 DEF dialVars, DialInv, DialTypeOK, StageFacts, NothingLeaks, InUseIsAlive, UnderWay
  <1> QED
    BY <1>1, <1>2, <1>3, <1>4 DEF DialNext

\* Type correctness and the strengthening, of every reachable state.
THEOREM DialInvariance == DialSpec => []DialInv
  BY DialInitInv, DialNextInv, PTL DEF DialSpec

\* After any number of dials that end in any order (rc.Swap and the Close of
\* what it returns), only the connection in use and dials under way hold a
\* client or a tunnel.
THEOREM NothingIsLeaked == DialSpec => []NothingLeaks
  <1>1. DialInv => NothingLeaks
    BY DEF DialInv
  <1> QED
    BY <1>1, DialInvariance, PTL

\* The connection in use, its tunnel and the running scan belong together and
\* are open.
THEOREM ConnectionInUseIsAlive == DialSpec => []InUseIsAlive
  <1>1. DialInv => InUseIsAlive
    BY DEF DialInv
  <1> QED
    BY <1>1, DialInvariance, PTL

\* No step brings a closed connection back into use.
THEOREM ClosedConnectionsStayOut == DialSpec => ClosedStaysOut
  <1>1. DialInv /\ [DialNext]_dialVars => [\A d \in Dials : client[d] = "closed" => rc' # d]_dialVars
    <2> SUFFICES ASSUME DialInv, [DialNext]_dialVars, NEW d \in Dials, client[d] = "closed"
                 PROVE  rc' # d
      OBVIOUS
    <2>1. rc # d
      BY DEF DialInv, InUseIsAlive, DialTypeOK, Dials, Life
    <2>2. ASSUME NEW e \in Dials, OnConnected(e) PROVE rc' # d
      BY <2>2 DEF OnConnected, DialInv, StageFacts
    <2>3. rc' = rc \/ \E e \in Dials : OnConnected(e)
      BY DEF DialNext, ConnectAsync, Dialing, TunnelOpens, TunnelFails, Check, PingAnswers,
             PingFails, Closure, Failed, dialVars
    <2> QED
      BY <2>1, <2>2, <2>3
  <1> QED
    BY <1>1, DialInvariance, PTL DEF DialSpec, ClosedStaysOut

----------------------------------------------------------------------------

\* The handles of Handover, in the state of Connection.
Tried == {d \in Dials : stage[d] \notin {"idle", "done"}}
Alive == {d \in Dials : client[d] = "open"}
Spent == {d \in Dials : stage[d] = "done" /\ d # rc}
Stutters == UNCHANGED <<Tried, Alive, rc, Spent>>

\* A client is open only in use or under way, whatever the profile.
LEMMA OpenInUseOrTried ==
  ASSUME DialInv, NEW d \in Dials, client[d] = "open"
  PROVE  d = rc \/ stage[d] \in {"check", "ping", "ok"}
  <1>1. ~profile[d].refused
    BY DEF DialInv, StageFacts
  <1>2. d = rc \/ UnderWay(d)
    BY <1>1 DEF DialInv, NothingLeaks
  <1> QED
    BY <1>2 DEF UnderWay, DialInv, StageFacts

LEMMA InitMaps == DialInit => Pool!Init
  <1> SUFFICES ASSUME DialInit PROVE Pool!Init
    OBVIOUS
  <1>1. \A d \in Dials : stage[d] = "idle" /\ client[d] = "none"
    BY DEF DialInit
  <1> QED
    BY <1>1 DEF DialInit, Pool!Init

\* A dial that starts is a handle that is tried.
LEMMA StartMaps ==
  ASSUME DialInv, ConnectAsync
  PROVE  Pool!Next
  <1>0. PICK d \in Dials : d = started + 1
    BY ConnectionAssumption DEF ConnectAsync, DialInv, DialTypeOK, Dials
  <1>1. d \in Dials /\ stage[d] = "idle" /\ d # rc
    BY <1>0, ConnectionAssumption DEF ConnectAsync, DialInv, DialTypeOK, StageFacts, Dials
  <1>2. stage' = [stage EXCEPT ![d] = stage'[d]] /\ stage'[d] \in {"tunnel", "check"}
    BY <1>0, <1>1 DEF ConnectAsync, Goto, DialInv, DialTypeOK
  <1>3. Tried' = Tried \cup {d} /\ Spent' = Spent
    BY <1>1, <1>2 DEF Tried, Spent, ConnectAsync, DialInv, DialTypeOK
  <1>4. Pool!Try(d)
    BY <1>1, <1>3 DEF Pool!Try, Tried, Spent, ConnectAsync
  <1> QED
    BY <1>1, <1>4 DEF Pool!Next

\* The stages of a dial open the handle, drop it, or change nothing of it.
LEMMA DialingMaps ==
  ASSUME DialInv, NEW d \in Dials, Dialing(d)
  PROVE  Pool!Next \/ Stutters
  <1> USE DEF Goto, Tried, Alive, Spent
  <1>0. stage \in [Dials -> Stages] /\ client \in [Dials -> Life]
    BY DEF DialInv, DialTypeOK
  <1>1. CASE TunnelOpens(d) \/ TunnelFails(d) \/ PingAnswers(d)
    BY <1>0, <1>1 DEF TunnelOpens, TunnelFails, PingAnswers, Stutters
  <1>2. CASE Check(d) /\ profile[d].refused
    BY <1>0, <1>2 DEF Check, Stutters
  <1>3. CASE Check(d) /\ ~profile[d].refused
    <2>1. Pool!Open(d)
      BY <1>0, <1>3 DEF Check, Pool!Open
    <2> QED
      BY <2>1 DEF Pool!Next
  <1>4. CASE PingFails(d)
    <2>1. client' = [client EXCEPT ![d] = "closed"]
      BY <1>0, <1>4 DEF PingFails, Closed, DialInv, StageFacts
    <2>2. Pool!Drop(d)
      BY <1>0, <1>4, <2>1 DEF PingFails, Pool!Drop
    <2> QED
      BY <2>2 DEF Pool!Next
  <1> QED
    BY <1>1, <1>2, <1>3, <1>4 DEF Dialing

\* The closure of a dial takes over, or gives up a handle that is not open.
LEMMA ClosureMaps ==
  ASSUME DialInv, NEW d \in Dials, Closure(d)
  PROVE  Pool!Next
  <1> USE DEF Goto
  <1>0. stage \in [Dials -> Stages] /\ client \in [Dials -> Life] /\ 0 \notin Dials
        /\ (rc = 0 \/ rc \in Dials)
    BY ConnectionAssumption DEF DialInv, DialTypeOK, Dials
  <1>1. CASE OnConnected(d)
    <2>1. d # rc /\ client[d] = "open" /\ (rc # 0 => client[rc] = "open" /\ stage[rc] = "done")
      BY <1>0, <1>1 DEF OnConnected, DialInv, StageFacts, InUseIsAlive
    <2>2. client' = IF rc = 0 THEN client ELSE [client EXCEPT ![rc] = "closed"]
      BY <1>1, <2>1 DEF OnConnected, Closed
    <2>3. Tried' = Tried \ {d} /\ d \in Tried
      BY <1>0, <1>1 DEF OnConnected, Tried
    <2>4. Alive' = Alive \ {rc} /\ d \in Alive
      BY <1>0, <2>1, <2>2 DEF Alive
    <2>5. Spent' = Spent \cup ({rc} \ {0})
      BY <1>0, <1>1, <2>1 DEF OnConnected, Spent
    <2>6. Pool!TakeOver(d)
      BY <1>1, <2>3, <2>4, <2>5 DEF Pool!TakeOver, OnConnected, Tried, Alive, Spent
    <2> QED
      BY <2>6 DEF Pool!Next
  <1>2. CASE Failed(d)
    <2>1. d # rc /\ client[d] # "open"
      BY <1>2, OpenInUseOrTried DEF Failed, DialInv, StageFacts
    <2>2. Tried' = Tried \ {d} /\ d \in Tried /\ Spent' = Spent \cup {d}
      BY <1>0, <1>2, <2>1 DEF Failed, Tried, Spent
    <2>3. Pool!GiveUp(d)
      BY <1>2, <2>1, <2>2 DEF Pool!GiveUp, Failed, Tried, Spent
    <2> QED
      BY <2>3 DEF Pool!Next
  <1> QED
    BY <1>1, <1>2 DEF Closure

\* Connection implements Handover: dials that overlap hand the connection over
\* in single steps (the closure of ConnectAsync), whatever order they end in.
THEOREM ConnectionImplementsHandover == DialSpec => HandsOver
  <1>1. DialInv /\ [DialNext]_dialVars => [Pool!Next]_(Pool!vars)
    <2> SUFFICES ASSUME DialInv, [DialNext]_dialVars PROVE [Pool!Next]_(Pool!vars)
      OBVIOUS
    <2>1. Pool!Next \/ Stutters
      <3>1. ASSUME NEW d \in Dials, Dialing(d) PROVE Pool!Next \/ Stutters
        BY <3>1, DialingMaps
      <3>2. ASSUME NEW d \in Dials, Closure(d) PROVE Pool!Next
        BY <3>2, ClosureMaps
      <3>3. CASE UNCHANGED dialVars
        BY <3>3 DEF dialVars, Stutters, Tried, Alive, Spent
      <3> QED
        BY <3>1, <3>2, <3>3, StartMaps DEF DialNext
    <2> QED
      BY <2>1 DEF Stutters, Pool!vars, Tried, Alive, Spent
  <1> QED
    BY <1>1, DialInvariance, InitMaps, PTL DEF DialSpec, HandsOver, Pool!Spec

----------------------------------------------------------------------------
(* The profiles.                                                           *)

\* None is no tunnel, and what a save has written in full is neither of the
\* two that a save cut short may leave.
Apart ==
  /\ \A s : [s EXCEPT !.port = 22] # None
  /\ \A s, ps : [sep |-> s, profiles |-> ps] \notin {Empty, Torn}

\* Induction over the natural numbers, from the least element of a set.
LEMMA LeastNat ==
  ASSUME NEW T, T \subseteq Nat, T # {}
  PROVE  \E x \in T : \A y \in T : x <= y
  <1>1. IsWellFoundedOn({p \in Nat \X Nat : p[1] < p[2]}, Nat)
    BY NatLessThanWellFounded DEF OpToRel
  <1>2. PICK x \in T : \A y \in T : <<y, x>> \notin {p \in Nat \X Nat : p[1] < p[2]}
    BY <1>1, WFMin
  <1>3. ASSUME NEW y \in T PROVE x <= y
    <2>1. <<y, x>> \in Nat \X Nat /\ ~(y < x)
      BY <1>2
    <2> QED
      BY <2>1
  <1> QED
    BY <1>3

LEMMA NatInduct ==
  ASSUME NEW S, 0 \in S, \A n \in Nat : n \in S => n + 1 \in S
  PROVE  Nat \subseteq S
  <1> SUFFICES ASSUME Nat \ S # {} PROVE FALSE
    OBVIOUS
  <1>1. PICK x \in Nat \ S : \A y \in Nat \ S : x <= y
    BY LeastNat
  <1>2. x # 0 /\ x - 1 \in Nat
    BY <1>1
  <1>3. x - 1 \in S
    BY <1>1, <1>2
  <1> QED
    BY <1>2, <1>3

----------------------------------------------------------------------------
(* What a fold over a sequence computes, place by place.                   *)

\* Max is the greatest place of a set of places.
LEMMA MaxIs ==
  ASSUME NEW n \in Nat, NEW s, s \subseteq 1 .. n, s # {}
  PROVE  Max(s) \in s /\ \A y \in s : Max(s) >= y
  <1>1. PICK T : T = {n - x : x \in s}
    OBVIOUS
  <1>2. T \subseteq Nat /\ T # {}
    <2>1. \A x \in s : x \in Nat /\ n - x \in Nat
      OBVIOUS
    <2> QED
      BY <1>1, <2>1
  <1>3. PICK t \in T : \A u \in T : t <= u
    BY <1>2, LeastNat
  <1>4. PICK x \in s : t = n - x
    BY <1>1, <1>3
  <1>5. \A y \in s : x >= y
    <2> TAKE y \in s
    <2>1. n - y \in T /\ x \in Nat /\ y \in Nat
      BY <1>1
    <2>2. n - x <= n - y
      BY <1>3, <1>4, <2>1
    <2> QED
      BY <2>1, <2>2
  <1>6. \E z \in s : \A y \in s : z >= y
    BY <1>5
  <1> QED
    BY <1>6 DEF Max

\* The last of the first n + 1 places, and the ones before it.
LEMMA MaxOfInterval ==
  ASSUME NEW n \in Nat
  PROVE  Max(1 .. n + 1) = n + 1 /\ (1 .. n + 1) \ {n + 1} = 1 .. n
  <1>2. PICK s : s = 1 .. n + 1
    OBVIOUS
  <1>3. n + 1 \in Nat /\ s \subseteq 1 .. n + 1 /\ s # {} /\ n + 1 \in s
    BY <1>2
  <1>4. Max(s) \in s /\ \A y \in s : Max(s) >= y
    BY <1>3, MaxIs
  <1>1. Max(s) = n + 1
    BY <1>2, <1>3, <1>4
  <1> QED
    BY <1>1, <1>2

\* g is what the fold of ParseLine computes for the sets of the first n places.
ParseTable(g, lines, n) ==
  g = [s \in SUBSET (1 .. n) |-> IF s = {} THEN << >> ELSE ParseLine(g[s \ {Max(s)}], lines[Max(s)])]

\* One place more: the table for n places serves for n + 1.
LEMMA ParseTableNext ==
  ASSUME NEW lines, NEW n \in Nat, NEW g, ParseTable(g, lines, n)
  PROVE  \E h : ParseTable(h, lines, n + 1)
  <1> DEFINE h == [s \in SUBSET (1 .. n + 1) |->
                     IF n + 1 \in s THEN ParseLine(g[s \ {n + 1}], lines[n + 1]) ELSE g[s]]
  <1>1. \A s \in SUBSET (1 .. n + 1) :
          h[s] = IF s = {} THEN << >> ELSE ParseLine(h[s \ {Max(s)}], lines[Max(s)])
    <2> TAKE s \in SUBSET (1 .. n + 1)
    <2>1. CASE s = {}
      BY <2>1 DEF ParseTable
    <2>2. CASE s # {} /\ n + 1 \in s
      <3>5. n + 1 \in Nat /\ s \subseteq 1 .. n + 1 /\ s # {}
        BY <2>2
      <3>1. Max(s) \in s /\ \A y \in s : Max(s) >= y
        BY <3>5, MaxIs
      <3>6. PICK m : m = Max(s)
        OBVIOUS
      <3>7. m \in 1 .. n + 1 /\ m >= n + 1
        BY <2>2, <3>1, <3>5, <3>6
      <3>2. Max(s) = n + 1
        BY <3>6, <3>7
      <3>3. s \ {n + 1} \in SUBSET (1 .. n) /\ s \ {n + 1} \in SUBSET (1 .. n + 1)
        OBVIOUS
      <3>4. h[s \ {n + 1}] = g[s \ {n + 1}]
        BY <3>3
      <3> QED
        BY <2>2, <3>2, <3>4
    <2>3. CASE s # {} /\ n + 1 \notin s
      <3>3. s \subseteq 1 .. n
        BY <2>3
      <3>1. s \in SUBSET (1 .. n) /\ Max(s) \in s
        BY <2>3, <3>3, MaxIs
      <3>2. h[s] = g[s] /\ h[s \ {Max(s)}] = g[s \ {Max(s)}]
        BY <2>3, <3>1
      <3> QED
        BY <2>3, <3>1, <3>2 DEF ParseTable
    <2> QED
      BY <2>1, <2>2, <2>3
  <1>2. ParseTable(h, lines, n + 1)
    BY <1>1 DEF ParseTable
  <1> QED
    BY <1>2

\* So there is one, and FoldLeft computes what it says.
LEMMA ParseTableIs ==
  ASSUME NEW lines, NEW n \in Nat
  PROVE  \E g : ParseTable(g, lines, n)
  <1>1. PICK S : S = {m \in Nat : \E g : ParseTable(g, lines, m)}
    OBVIOUS
  <1>2. 0 \in S
    <2>1. ParseTable([s \in SUBSET (1 .. 0) |-> << >>], lines, 0)
      BY DEF ParseTable
    <2> QED
      BY <1>1, <2>1
  <1>3. \A m \in Nat : m \in S => m + 1 \in S
    BY <1>1, ParseTableNext
  <1>4. Nat \subseteq S
    BY <1>2, <1>3, NatInduct
  <1> QED
    BY <1>1, <1>4

\* r[n] is what parseSSHConfig has after n lines.
ParseRun(r, lines) ==
  /\ r[0] = << >>
  /\ \A n \in 0 .. Len(lines) - 1 : r[n + 1] = ParseLine(r[n], lines[n + 1])
  /\ r[Len(lines)] = ParseSSH(lines)

LEMMA ParseRuns ==
  ASSUME NEW lines, Len(lines) \in Nat, DOMAIN lines = 1 .. Len(lines)
  PROVE  \E r : ParseRun(r, lines)
  <1>1. PICK N \in Nat : N = Len(lines)
    OBVIOUS
  <1>2. \E g : g = [s \in SUBSET DOMAIN lines |-> IF s = {} THEN << >>
                                               ELSE ParseLine(g[s \ {Max(s)}], lines[Max(s)])]
    <2>1. PICK g : ParseTable(g, lines, N)
      BY ParseTableIs
    <2>2. g = [s \in SUBSET DOMAIN lines |-> IF s = {} THEN << >>
                                         ELSE ParseLine(g[s \ {Max(s)}], lines[Max(s)])]
      BY <1>1, <2>1 DEF ParseTable
    <2> QED
      BY <2>2
  <1>3. PICK it : it = CHOOSE g : g = [s \in SUBSET DOMAIN lines |-> IF s = {} THEN << >>
                                               ELSE ParseLine(g[s \ {Max(s)}], lines[Max(s)])]
    OBVIOUS
  <1>4. it = [s \in SUBSET DOMAIN lines |-> IF s = {} THEN << >> ELSE ParseLine(it[s \ {Max(s)}], lines[Max(s)])]
    BY <1>2, <1>3
  <1>5. ParseSSH(lines) = it[DOMAIN lines]
    BY <1>3 DEF ParseSSH, FoldLeft, MapThenFoldSet
  <1> DEFINE r == [n \in 0 .. N |-> it[1 .. n]]
  <1>6. r[0] = << >>
    BY <1>1, <1>4
  <1>7. \A n \in 0 .. N - 1 : r[n + 1] = ParseLine(r[n], lines[n + 1])
    <2> TAKE n \in 0 .. N - 1
    <2>4. n \in Nat /\ n + 1 \in 1 .. N
      BY <1>1
    <2>1. Max(1 .. n + 1) = n + 1 /\ (1 .. n + 1) \ {n + 1} = 1 .. n
      BY <2>4, MaxOfInterval
    <2>2. 1 .. n + 1 \in SUBSET DOMAIN lines /\ 1 .. n + 1 # {}
      BY <1>1, <2>4
    <2>3. it[1 .. n + 1] = ParseLine(it[1 .. n], lines[n + 1])
      BY <1>4, <2>1, <2>2
    <2> QED
      BY <2>3
  <1>8. ParseRun(r, lines)
    BY <1>1, <1>5, <1>6, <1>7 DEF ParseRun
  <1> QED
    BY <1>8

\* The same of the fold over the blocks.
MergeTable(alias, g, blocks, n) ==
  g = [s \in SUBSET (1 .. n) |->
         IF s = {} THEN [hostname |-> alias, user |-> Unset, port |-> 0, identityfile |-> Unset]
         ELSE Merge(alias, g[s \ {Max(s)}], blocks[Max(s)])]

\* One block more.
LEMMA MergeTableNext ==
  ASSUME NEW alias, NEW blocks, NEW n \in Nat, NEW g, MergeTable(alias, g, blocks, n)
  PROVE  \E h : MergeTable(alias, h, blocks, n + 1)
  <1> DEFINE h == [s \in SUBSET (1 .. n + 1) |->
                     IF n + 1 \in s THEN Merge(alias, g[s \ {n + 1}], blocks[n + 1]) ELSE g[s]]
  <1>1. \A s \in SUBSET (1 .. n + 1) :
          h[s] = IF s = {} THEN [hostname |-> alias, user |-> Unset, port |-> 0, identityfile |-> Unset]
                 ELSE Merge(alias, h[s \ {Max(s)}], blocks[Max(s)])
    <2> TAKE s \in SUBSET (1 .. n + 1)
    <2>1. CASE s = {}
      BY <2>1 DEF MergeTable
    <2>2. CASE s # {} /\ n + 1 \in s
      <3>5. n + 1 \in Nat /\ s \subseteq 1 .. n + 1 /\ s # {}
        BY <2>2
      <3>1. Max(s) \in s /\ \A y \in s : Max(s) >= y
        BY <3>5, MaxIs
      <3>6. PICK m : m = Max(s)
        OBVIOUS
      <3>7. m \in 1 .. n + 1 /\ m >= n + 1
        BY <2>2, <3>1, <3>5, <3>6
      <3>2. Max(s) = n + 1
        BY <3>6, <3>7
      <3>3. s \ {n + 1} \in SUBSET (1 .. n) /\ s \ {n + 1} \in SUBSET (1 .. n + 1)
        OBVIOUS
      <3>4. h[s \ {n + 1}] = g[s \ {n + 1}]
        BY <3>3
      <3> QED
        BY <2>2, <3>2, <3>4
    <2>3. CASE s # {} /\ n + 1 \notin s
      <3>3. s \subseteq 1 .. n
        BY <2>3
      <3>1. s \in SUBSET (1 .. n) /\ Max(s) \in s
        BY <2>3, <3>3, MaxIs
      <3>2. h[s] = g[s] /\ h[s \ {Max(s)}] = g[s \ {Max(s)}]
        BY <2>3, <3>1
      <3> QED
        BY <2>3, <3>1, <3>2 DEF MergeTable
    <2> QED
      BY <2>1, <2>2, <2>3
  <1>2. MergeTable(alias, h, blocks, n + 1)
    BY <1>1 DEF MergeTable
  <1> QED
    BY <1>2

LEMMA MergeTableIs ==
  ASSUME NEW alias, NEW blocks, NEW n \in Nat
  PROVE  \E g : MergeTable(alias, g, blocks, n)
  <1>1. PICK S : S = {m \in Nat : \E g : MergeTable(alias, g, blocks, m)}
    OBVIOUS
  <1>2. 0 \in S
    <2>1. MergeTable(alias, [s \in SUBSET (1 .. 0) |->
                               [hostname |-> alias, user |-> Unset, port |-> 0, identityfile |-> Unset]],
                     blocks, 0)
      BY DEF MergeTable
    <2> QED
      BY <1>1, <2>1
  <1>3. \A m \in Nat : m \in S => m + 1 \in S
    BY <1>1, MergeTableNext
  <1>4. Nat \subseteq S
    BY <1>2, <1>3, NatInduct
  <1> QED
    BY <1>1, <1>4

\* r[n] is what lookupSSHConfig has found after n blocks.
MergeRun(r, alias, blocks) ==
  /\ r[0] = [hostname |-> alias, user |-> Unset, port |-> 0, identityfile |-> Unset]
  /\ \A n \in 0 .. Len(blocks) - 1 : r[n + 1] = Merge(alias, r[n], blocks[n + 1])

LEMMA MergeRuns ==
  ASSUME NEW alias, NEW lines, Len(ParseSSH(lines)) \in Nat, DOMAIN ParseSSH(lines) = 1 .. Len(ParseSSH(lines))
  PROVE  \E r : MergeRun(r, alias, ParseSSH(lines)) /\ r[Len(ParseSSH(lines))] = LookupSSH(lines, alias)
  <1>0. PICK blocks : blocks = ParseSSH(lines)
    OBVIOUS
  <1>1. PICK N \in Nat : N = Len(blocks) /\ DOMAIN blocks = 1 .. N
    BY <1>0
  <1>2. \E g : g = [s \in SUBSET DOMAIN blocks |->
                      IF s = {} THEN [hostname |-> alias, user |-> Unset, port |-> 0, identityfile |-> Unset]
                      ELSE Merge(alias, g[s \ {Max(s)}], blocks[Max(s)])]
    <2>1. PICK g : MergeTable(alias, g, blocks, N)
      BY MergeTableIs
    <2>2. g = [s \in SUBSET DOMAIN blocks |->
                 IF s = {} THEN [hostname |-> alias, user |-> Unset, port |-> 0, identityfile |-> Unset]
                 ELSE Merge(alias, g[s \ {Max(s)}], blocks[Max(s)])]
      BY <1>1, <2>1 DEF MergeTable
    <2> QED
      BY <2>2
  <1>3. PICK it : it = CHOOSE g : g = [s \in SUBSET DOMAIN blocks |->
                      IF s = {} THEN [hostname |-> alias, user |-> Unset, port |-> 0, identityfile |-> Unset]
                      ELSE Merge(alias, g[s \ {Max(s)}], blocks[Max(s)])]
    OBVIOUS
  <1>4. it = [s \in SUBSET DOMAIN blocks |->
                IF s = {} THEN [hostname |-> alias, user |-> Unset, port |-> 0, identityfile |-> Unset]
                ELSE Merge(alias, it[s \ {Max(s)}], blocks[Max(s)])]
    BY <1>2, <1>3
  <1>5. LookupSSH(lines, alias) = it[DOMAIN blocks]
    BY <1>0, <1>3 DEF LookupSSH, FoldLeft, MapThenFoldSet
  <1> DEFINE r == [n \in 0 .. N |-> it[1 .. n]]
  <1>6. r[0] = [hostname |-> alias, user |-> Unset, port |-> 0, identityfile |-> Unset]
    BY <1>1, <1>4
  <1>7. \A n \in 0 .. N - 1 : r[n + 1] = Merge(alias, r[n], blocks[n + 1])
    <2> TAKE n \in 0 .. N - 1
    <2>4. n \in Nat /\ n + 1 \in 1 .. N
      BY <1>1
    <2>1. Max(1 .. n + 1) = n + 1 /\ (1 .. n + 1) \ {n + 1} = 1 .. n
      BY <2>4, MaxOfInterval
    <2>2. 1 .. n + 1 \in SUBSET DOMAIN blocks /\ 1 .. n + 1 # {}
      <3>1. DOMAIN blocks = 1 .. N /\ n + 1 \in 1 .. n + 1 /\ 1 .. n + 1 \subseteq 1 .. N
        BY <1>1, <2>4
      <3> QED
        BY ONLY <3>1
    <2>3. it[1 .. n + 1] = Merge(alias, it[1 .. n], blocks[n + 1])
      BY <1>4, <2>1, <2>2
    <2> QED
      BY <2>3
  <1>8. MergeRun(r, alias, blocks) /\ r[N] = LookupSSH(lines, alias)
    BY <1>1, <1>5, <1>6, <1>7 DEF MergeRun
  <1> QED
    BY <1>0, <1>1, <1>8

----------------------------------------------------------------------------
(* The blocks, line by line.                                               *)

\* A block has a value, or Unset, for each option.
BlockOK(b) == b = [match |-> b.match, opt |-> b.opt] /\ b.opt = [o \in Options |-> b.opt[o]]
BlocksOK(bs) == bs \in Seq(Range(bs)) /\ \A k \in DOMAIN bs : BlockOK(bs[k])

LEMMA BlocksLen ==
  ASSUME NEW bs, BlocksOK(bs)
  PROVE  Len(bs) \in Nat /\ DOMAIN bs = 1 .. Len(bs) /\ (bs = << >> <=> Len(bs) = 0)
  BY DEF BlocksOK

\* A Host line begins a block.
Begun(bs, line, cs) ==
  /\ Len(cs) = Len(bs) + 1 /\ \A k \in 1 .. Len(bs) : cs[k] = bs[k]
  /\ cs[Len(bs) + 1].match = line.val /\ \A o \in Options : cs[Len(bs) + 1].opt[o] = Unset

LEMMA HostLine ==
  ASSUME NEW bs, BlocksOK(bs), NEW line, line.key = "host"
  PROVE  BlocksOK(ParseLine(bs, line)) /\ Begun(bs, line, ParseLine(bs, line))
  <1>1. PICK b : b = [match |-> line.val, opt |-> NoOptions]
    OBVIOUS
  <1>2. b.match = line.val /\ b.opt = NoOptions /\ \A o \in Options : b.opt[o] = Unset
    BY <1>1 DEF NoOptions
  <1>3. BlockOK(b)
    BY <1>1, <1>2 DEF BlockOK, NoOptions
  <1>4. PICK cs : cs = Append(bs, b)
    OBVIOUS
  <1>5. cs = ParseLine(bs, line)
    <2>1. line.key \notin Options
      BY DEF Options
    <2> QED
      BY <1>1, <1>4, <2>1 DEF ParseLine
  <1>6. bs \in Seq(Range(bs) \cup {b}) /\ b \in Range(bs) \cup {b}
    BY DEF BlocksOK
  <1>7. PICK n \in Nat : n = Len(bs)
    BY <1>6
  <1>8. /\ cs \in Seq(Range(bs) \cup {b}) /\ Len(cs) = n + 1 /\ cs[n + 1] = b
        /\ \A i \in 1 .. n : cs[i] = bs[i]
    BY <1>4, <1>6, <1>7
  <1>9. DOMAIN cs = 1 .. n + 1 /\ DOMAIN bs = 1 .. n
    BY <1>6, <1>7, <1>8
  <1>10. cs \in Seq(Range(cs))
    <2>1. cs = [i \in 1 .. n + 1 |-> cs[i]]
      BY <1>8, <1>9
    <2>2. cs \in [1 .. n + 1 -> Range(cs)]
      BY <1>9, <2>1 DEF Range
    <2> QED
      BY <2>2
  <1>11. \A k \in DOMAIN cs : BlockOK(cs[k])
    BY <1>3, <1>8, <1>9 DEF BlocksOK
  <1> QED
    BY <1>2, <1>5, <1>7, <1>8, <1>10, <1>11 DEF BlocksOK, Begun

\* An option goes to the last block, unless it has it already.
Optioned(bs, line, cs) ==
  /\ Len(cs) = Len(bs) /\ \A k \in 1 .. Len(bs) - 1 : cs[k] = bs[k]
  /\ cs[Len(bs)].match = bs[Len(bs)].match
  /\ \A o \in Options :
       cs[Len(bs)].opt[o] = IF o = line.key /\ bs[Len(bs)].opt[o] = Unset THEN line.val ELSE bs[Len(bs)].opt[o]

LEMMA OptionLine ==
  ASSUME NEW bs, BlocksOK(bs), Len(bs) # 0, NEW line, line.key \in Options
  PROVE  BlocksOK(ParseLine(bs, line)) /\ Optioned(bs, line, ParseLine(bs, line))
  <1>1. PICK n \in Nat : n = Len(bs) /\ DOMAIN bs = 1 .. n /\ bs # << >> /\ n \in 1 .. n
    BY BlocksLen
  <1>2. PICK b : b = bs[n]
    OBVIOUS
  <1>3. b = [match |-> b.match, opt |-> b.opt] /\ b.opt = [o \in Options |-> b.opt[o]]
    BY <1>1, <1>2 DEF BlocksOK, BlockOK
  <1>4. PICK v : v = IF b.opt[line.key] = Unset THEN line.val ELSE b.opt[line.key]
    OBVIOUS
  <1>5. PICK opt : opt = [b.opt EXCEPT ![line.key] = v]
    OBVIOUS
  <1>6. opt = [o \in Options |-> opt[o]]
        /\ \A o \in Options : opt[o] = IF o = line.key /\ b.opt[o] = Unset THEN line.val ELSE b.opt[o]
    BY <1>3, <1>4, <1>5
  <1>7. PICK c : c = [b EXCEPT !.opt = opt]
    OBVIOUS
  <1>8. c = [match |-> b.match, opt |-> opt] /\ c.match = b.match /\ c.opt = opt
    BY <1>3, <1>7
  <1>9. BlockOK(c)
    BY <1>6, <1>8 DEF BlockOK
  <1>10. PICK cs : cs = [bs EXCEPT ![n] = c]
    OBVIOUS
  <1>11. cs = ParseLine(bs, line)
    <2>1. line.key # "host"
      BY DEF Options
    <2> QED
      BY <1>1, <1>2, <1>4, <1>5, <1>7, <1>10, <2>1 DEF ParseLine
  <1>12. bs = [i \in 1 .. n |-> bs[i]]
    BY <1>1 DEF BlocksOK
  <1>13. /\ DOMAIN cs = 1 .. n /\ cs = [i \in 1 .. n |-> cs[i]] /\ cs[n] = c
         /\ \A k \in 1 .. n : k # n => cs[k] = bs[k]
    BY <1>1, <1>10, <1>12
  <1>14. cs \in Seq(Range(cs)) /\ Len(cs) = n
    <2>1. cs \in [1 .. n -> Range(cs)]
      BY <1>13 DEF Range
    <2> QED
      BY <2>1
  <1>15. \A k \in DOMAIN cs : BlockOK(cs[k])
    BY <1>1, <1>9, <1>13 DEF BlocksOK
  <1>16. BlocksOK(cs)
    BY <1>14, <1>15 DEF BlocksOK
  <1>17. Optioned(bs, line, cs)
    BY <1>1, <1>2, <1>6, <1>8, <1>13, <1>14 DEF Optioned
  <1> QED
    BY <1>11, <1>16, <1>17

\* Any other line leaves the blocks alone.
LEMMA OtherLine ==
  ASSUME NEW bs, BlocksOK(bs), NEW line, line.key # "host", line.key \in Options => Len(bs) = 0
  PROVE  ParseLine(bs, line) = bs
  <1>1. ~(line.key \in Options /\ bs # << >>)
    BY BlocksLen
  <1> QED
    BY <1>1 DEF ParseLine

----------------------------------------------------------------------------
(* The first block that gives an option is the one of the first line that  *)
(* gives it.                                                               *)

\* The patterns mean for an alias what they mean to OpenSSH.
PatternsAgree(lines, alias) ==
  \A i \in DOMAIN lines : lines[i].key = "host" =>
    \A pattern \in lines[i].val : HostPatternMatch(pattern, alias) <=> Glob(pattern, alias)

\* Of the blocks that apply the first with option o gives v; none has it.
Gives(bs, alias, o, v) ==
  \E k \in 1 .. Len(bs) : /\ Applies(alias, bs[k]) /\ bs[k].opt[o] = v /\ v # Unset
                         /\ \A j \in 1 .. k - 1 : Applies(alias, bs[j]) => bs[j].opt[o] = Unset
Lacks(bs, alias, o) == \A k \in 1 .. Len(bs) : Applies(alias, bs[k]) => bs[k].opt[o] = Unset

\* The same of the first n lines.
Counts(lines, alias, o, i) == lines[i].key = o /\ lines[i].val # Unset /\ InScope(lines, alias, i)
LineGives(lines, n, alias, o, v) ==
  \E i \in 1 .. n : /\ Counts(lines, alias, o, i) /\ lines[i].val = v
                   /\ \A j \in 1 .. i - 1 : ~Counts(lines, alias, o, j)
NoLine(lines, n, alias, o) == \A i \in 1 .. n : ~Counts(lines, alias, o, i)

\* The invariant of the fold over the lines.
Follows(bs, lines, n, alias) ==
  /\ BlocksOK(bs)
  /\ InScope(lines, alias, n) <=> Len(bs) # 0 /\ Applies(alias, bs[Len(bs)])
  /\ \A o \in Options : /\ NoLine(lines, n, alias, o) => Lacks(bs, alias, o)
                       /\ \A v : LineGives(lines, n, alias, o, v) => Gives(bs, alias, o, v)

\* A Host line opens or closes the scope of an alias; no other line does.
LEMMA ScopeStep ==
  ASSUME NEW lines, NEW alias, NEW n \in Nat
  PROVE  InScope(lines, alias, n + 1) <=>
           IF lines[n + 1].key = "host" THEN \E pattern \in lines[n + 1].val : Glob(pattern, alias)
           ELSE InScope(lines, alias, n)
  <1>1. CASE lines[n + 1].key = "host"
    <2>1. ASSUME InScope(lines, alias, n + 1)
          PROVE  \E pattern \in lines[n + 1].val : Glob(pattern, alias)
      <3>1. PICK h \in 1 .. n + 1 : /\ \E pattern \in lines[h].val : Glob(pattern, alias)
                                   /\ \A j \in h + 1 .. n + 1 : lines[j].key # "host"
        BY <2>1 DEF InScope
      <3>2. h = n + 1
        BY <1>1, <3>1
      <3> QED
        BY <3>1, <3>2
    <2>2. ASSUME \E pattern \in lines[n + 1].val : Glob(pattern, alias)
          PROVE  InScope(lines, alias, n + 1)
      <3>1. n + 1 \in 1 .. n + 1 /\ \A j \in (n + 1) + 1 .. n + 1 : lines[j].key # "host"
        OBVIOUS
      <3> QED
        BY <1>1, <2>2, <3>1 DEF InScope
    <2> QED
      BY <1>1, <2>1, <2>2
  <1>2. CASE lines[n + 1].key # "host"
    <2>1. ASSUME InScope(lines, alias, n + 1)
          PROVE  InScope(lines, alias, n)
      <3>1. PICK h \in 1 .. n + 1 : /\ lines[h].key = "host"
                                   /\ \E pattern \in lines[h].val : Glob(pattern, alias)
                                   /\ \A j \in h + 1 .. n + 1 : lines[j].key # "host"
        BY <2>1 DEF InScope
      <3>2. h \in 1 .. n /\ \A j \in h + 1 .. n : lines[j].key # "host"
        BY <1>2, <3>1
      <3> QED
        BY <3>1, <3>2 DEF InScope
    <2>2. ASSUME InScope(lines, alias, n)
          PROVE  InScope(lines, alias, n + 1)
      <3>1. PICK h \in 1 .. n : /\ lines[h].key = "host"
                               /\ \E pattern \in lines[h].val : Glob(pattern, alias)
                               /\ \A j \in h + 1 .. n : lines[j].key # "host"
        BY <2>2 DEF InScope
      <3>2. h \in 1 .. n + 1 /\ \A j \in h + 1 .. n + 1 : lines[j].key # "host"
        <4>1. \A j \in h + 1 .. n + 1 : j = n + 1 \/ j \in h + 1 .. n
          OBVIOUS
        <4> QED
          BY <1>2, <3>1, <4>1
      <3> QED
        BY <3>1, <3>2 DEF InScope
    <2> QED
      BY <1>2, <2>1, <2>2
  <1> QED
    BY <1>1, <1>2

\* A Host line and its block begin with no option.
LEMMA FollowsHost ==
  ASSUME NEW lines, NEW n \in Nat, n + 1 \in DOMAIN lines, NEW alias, PatternsAgree(lines, alias),
         NEW bs, Follows(bs, lines, n, alias), lines[n + 1].key = "host"
  PROVE  Follows(ParseLine(bs, lines[n + 1]), lines, n + 1, alias)
  <1>1. PICK cs : cs = ParseLine(bs, lines[n + 1])
    OBVIOUS
  <1>2. BlocksOK(bs) /\ BlocksOK(cs) /\ Begun(bs, lines[n + 1], cs)
    BY <1>1, HostLine DEF Follows
  <1>3. Len(bs) \in Nat /\ Len(cs) = Len(bs) + 1
    BY <1>2, BlocksLen DEF Begun
  <1>4. InScope(lines, alias, n + 1) <=> Applies(alias, cs[Len(cs)])
    <2>1. InScope(lines, alias, n + 1) <=> \E pattern \in lines[n + 1].val : Glob(pattern, alias)
      BY ScopeStep
    <2>2. cs[Len(cs)].match = lines[n + 1].val
      BY <1>2, <1>3 DEF Begun
    <2> QED
      BY <2>1, <2>2 DEF Applies, PatternsAgree
  <1>5. ASSUME NEW o \in Options
        PROVE  /\ NoLine(lines, n + 1, alias, o) => Lacks(cs, alias, o)
               /\ \A v : LineGives(lines, n + 1, alias, o, v) => Gives(cs, alias, o, v)
    <2>1. ~Counts(lines, alias, o, n + 1)
      BY DEF Counts, Options
    <2>2. \A k \in 1 .. Len(bs) : cs[k] = bs[k]
      BY <1>2 DEF Begun
    <2>3. ASSUME NoLine(lines, n + 1, alias, o)
          PROVE  Lacks(cs, alias, o)
      <3>1. NoLine(lines, n, alias, o)
        BY <2>3 DEF NoLine
      <3>2. Lacks(bs, alias, o)
        BY <3>1 DEF Follows
      <3>3. cs[Len(bs) + 1].opt[o] = Unset
        BY <1>2 DEF Begun
      <3> QED
        BY <1>3, <2>2, <3>2, <3>3 DEF Lacks
    <2>4. ASSUME NEW v, LineGives(lines, n + 1, alias, o, v)
          PROVE  Gives(cs, alias, o, v)
      <3>1. LineGives(lines, n, alias, o, v)
        <4>1. PICK i \in 1 .. n + 1 : /\ Counts(lines, alias, o, i) /\ lines[i].val = v
                                     /\ \A j \in 1 .. i - 1 : ~Counts(lines, alias, o, j)
          BY <2>4 DEF LineGives
        <4>2. i \in 1 .. n
          BY <2>1, <4>1
        <4> QED
          BY <4>1, <4>2 DEF LineGives
      <3>2. Gives(bs, alias, o, v)
        BY <3>1 DEF Follows
      <3>3. PICK k \in 1 .. Len(bs) :
                /\ Applies(alias, bs[k]) /\ bs[k].opt[o] = v /\ v # Unset
                /\ \A j \in 1 .. k - 1 : Applies(alias, bs[j]) => bs[j].opt[o] = Unset
        BY <3>2 DEF Gives
      <3>4. k \in 1 .. Len(cs) /\ cs[k] = bs[k] /\ \A j \in 1 .. k - 1 : cs[j] = bs[j]
        BY <1>3, <2>2
      <3> QED
        BY <3>3, <3>4 DEF Gives
    <2> QED
      BY <2>3, <2>4
  <1> QED
    BY <1>1, <1>2, <1>3, <1>4, <1>5 DEF Follows

\* An option line in a block.
LEMMA FollowsOption ==
  ASSUME NEW lines, NEW n \in Nat, NEW alias,
         NEW bs, Follows(bs, lines, n, alias), lines[n + 1].key \in Options, Len(bs) # 0
  PROVE  Follows(ParseLine(bs, lines[n + 1]), lines, n + 1, alias)
  <1>1. PICK cs : cs = ParseLine(bs, lines[n + 1])
    OBVIOUS
  <1>2. BlocksOK(bs) /\ BlocksOK(cs) /\ Optioned(bs, lines[n + 1], cs)
    BY <1>1, OptionLine DEF Follows
  <1>3. PICK m : m = Len(bs)
    OBVIOUS
  <1>4. m \in Nat \ {0} /\ Len(cs) = m /\ m \in 1 .. m
    BY <1>2, <1>3, BlocksLen DEF Optioned
  <1>5. /\ \A k \in 1 .. m - 1 : cs[k] = bs[k]
        /\ cs[m].match = bs[m].match
        /\ \A o \in Options :
             cs[m].opt[o] = IF o = lines[n + 1].key /\ bs[m].opt[o] = Unset THEN lines[n + 1].val ELSE bs[m].opt[o]
    BY <1>2, <1>3 DEF Optioned
  <1>6. \A k \in 1 .. m : Applies(alias, cs[k]) <=> Applies(alias, bs[k])
    <2> TAKE k \in 1 .. m
    <2>1. cs[k].match = bs[k].match
      BY <1>4, <1>5
    <2> QED
      BY <2>1 DEF Applies
  <1>7. InScope(lines, alias, n + 1) <=> InScope(lines, alias, n)
    <2>1. lines[n + 1].key # "host"
      BY DEF Options
    <2> QED
      BY <2>1, ScopeStep
  <1>8. InScope(lines, alias, n) <=> Applies(alias, bs[m])
    BY <1>3, <1>4 DEF Follows
  <1>9. ASSUME NEW o \in Options
        PROVE  /\ NoLine(lines, n + 1, alias, o) => Lacks(cs, alias, o)
               /\ \A v : LineGives(lines, n + 1, alias, o, v) => Gives(cs, alias, o, v)
    <2>1. Counts(lines, alias, o, n + 1) <=>
            o = lines[n + 1].key /\ lines[n + 1].val # Unset /\ Applies(alias, bs[m])
      BY <1>7, <1>8 DEF Counts
    <2>2. ASSUME NoLine(lines, n + 1, alias, o)
          PROVE  Lacks(cs, alias, o)
      <3>1. NoLine(lines, n, alias, o) /\ ~Counts(lines, alias, o, n + 1)
        BY <2>2 DEF NoLine
      <3>2. \A k \in 1 .. m : Applies(alias, bs[k]) => bs[k].opt[o] = Unset
        BY <1>3, <3>1 DEF Follows, Lacks
      <3>3. Applies(alias, cs[m]) => cs[m].opt[o] = Unset
        BY <1>4, <1>5, <1>6, <2>1, <3>1, <3>2
      <3>4. \A k \in 1 .. m : Applies(alias, cs[k]) => cs[k].opt[o] = Unset
        <4> TAKE k \in 1 .. m
        <4>1. k = m \/ cs[k] = bs[k]
          BY <1>4, <1>5
        <4> QED
          BY <1>6, <3>2, <3>3, <4>1
      <3> QED
        BY <1>4, <3>4 DEF Lacks
    <2>3. ASSUME NEW v, LineGives(lines, n + 1, alias, o, v)
          PROVE  Gives(cs, alias, o, v)
      <3>1. PICK i \in 1 .. n + 1 : /\ Counts(lines, alias, o, i) /\ lines[i].val = v
                                   /\ \A j \in 1 .. i - 1 : ~Counts(lines, alias, o, j)
        BY <2>3 DEF LineGives
      <3>2. CASE i = n + 1
        <4>1. NoLine(lines, n, alias, o)
          BY <3>1, <3>2 DEF NoLine
        <4>2. \A k \in 1 .. m : Applies(alias, bs[k]) => bs[k].opt[o] = Unset
          BY <1>3, <4>1 DEF Follows, Lacks
        <4>3. o = lines[n + 1].key /\ v # Unset /\ Applies(alias, bs[m]) /\ lines[n + 1].val = v
          BY <2>1, <3>1, <3>2
        <4>4. Applies(alias, cs[m]) /\ cs[m].opt[o] = v
          BY <1>4, <1>5, <1>6, <4>2, <4>3
        <4>5. \A j \in 1 .. m - 1 : Applies(alias, cs[j]) => cs[j].opt[o] = Unset
          BY <1>4, <1>5, <4>2
        <4> QED
          BY <1>4, <4>3, <4>4, <4>5 DEF Gives
      <3>3. CASE i # n + 1
        <4>1. i \in 1 .. n
          BY <3>3
        <4>2. LineGives(lines, n, alias, o, v)
          BY <3>1, <4>1 DEF LineGives
        <4>3. Gives(bs, alias, o, v)
          BY <4>2 DEF Follows
        <4>4. PICK k \in 1 .. m :
                  /\ Applies(alias, bs[k]) /\ bs[k].opt[o] = v /\ v # Unset
                  /\ \A j \in 1 .. k - 1 : Applies(alias, bs[j]) => bs[j].opt[o] = Unset
          BY <1>3, <4>3 DEF Gives
        <4>5. cs[k].opt[o] = v /\ Applies(alias, cs[k])
          <5>1. k = m \/ cs[k] = bs[k]
            BY <1>4, <1>5
          <5> QED
            BY <1>4, <1>5, <1>6, <4>4, <5>1
        <4>6. \A j \in 1 .. k - 1 : cs[j] = bs[j]
          BY <1>4, <1>5
        <4> QED
          BY <1>4, <4>4, <4>5, <4>6 DEF Gives
      <3> QED
        BY <3>2, <3>3
    <2> QED
      BY <2>2, <2>3
  <1>10. InScope(lines, alias, n + 1) <=> Len(cs) # 0 /\ Applies(alias, cs[Len(cs)])
    BY <1>4, <1>6, <1>7, <1>8
  <1> QED
    BY <1>1, <1>2, <1>9, <1>10 DEF Follows

\* Any other line.
LEMMA FollowsOther ==
  ASSUME NEW lines, NEW n \in Nat, NEW alias,
         NEW bs, Follows(bs, lines, n, alias), lines[n + 1].key # "host",
         lines[n + 1].key \in Options => Len(bs) = 0
  PROVE  Follows(ParseLine(bs, lines[n + 1]), lines, n + 1, alias)
  <1>1. ParseLine(bs, lines[n + 1]) = bs
    BY OtherLine DEF Follows
  <1>2. InScope(lines, alias, n + 1) <=> InScope(lines, alias, n)
    BY ScopeStep
  <1>3. ASSUME NEW o \in Options
        PROVE  /\ NoLine(lines, n + 1, alias, o) => Lacks(bs, alias, o)
               /\ \A v : LineGives(lines, n + 1, alias, o, v) => Gives(bs, alias, o, v)
    <2>1. ~Counts(lines, alias, o, n + 1)
      BY <1>2 DEF Counts, Follows
    <2>2. NoLine(lines, n + 1, alias, o) => NoLine(lines, n, alias, o)
      BY DEF NoLine
    <2>3. ASSUME NEW v, LineGives(lines, n + 1, alias, o, v)
          PROVE  LineGives(lines, n, alias, o, v)
      <3>1. PICK i \in 1 .. n + 1 : /\ Counts(lines, alias, o, i) /\ lines[i].val = v
                                   /\ \A j \in 1 .. i - 1 : ~Counts(lines, alias, o, j)
        BY <2>3 DEF LineGives
      <3>2. i \in 1 .. n
        BY <2>1, <3>1
      <3> QED
        BY <3>1, <3>2 DEF LineGives
    <2> QED
      BY <2>2, <2>3 DEF Follows
  <1> QED
    BY <1>1, <1>2, <1>3 DEF Follows

\* After any number of lines, and so after all, the blocks follow the lines.
LEMMA ParseFollows ==
  ASSUME NEW lines, Len(lines) \in Nat, DOMAIN lines = 1 .. Len(lines), NEW alias, PatternsAgree(lines, alias)
  PROVE  Follows(ParseSSH(lines), lines, Len(lines), alias)
  <1>1. PICK r : ParseRun(r, lines)
    BY ParseRuns
  <1>2. PICK S : S = {n \in Nat : n <= Len(lines) => Follows(r[n], lines, n, alias)}
    OBVIOUS
  <1>3. Follows(r[0], lines, 0, alias)
    <2>1. r[0] = << >> /\ Len(<< >>) = 0 /\ DOMAIN << >> = {}
      BY <1>1 DEF ParseRun
    <2>2. BlocksOK(<< >>)
      BY DEF BlocksOK
    <2>3. ~InScope(lines, alias, 0)
      BY DEF InScope
    <2>4. \A o \in Options : \A v : Lacks(<< >>, alias, o) /\ ~LineGives(lines, 0, alias, o, v)
      BY <2>1 DEF Lacks, LineGives
    <2> QED
      BY <2>1, <2>2, <2>3, <2>4 DEF Follows
  <1>4. ASSUME NEW n \in Nat, n \in S
        PROVE  n + 1 \in S
    <2> SUFFICES ASSUME n + 1 <= Len(lines)
                 PROVE  Follows(r[n + 1], lines, n + 1, alias)
      BY <1>2
    <2>1. Follows(r[n], lines, n, alias) /\ n + 1 \in DOMAIN lines
      BY <1>2, <1>4
    <2>2. r[n + 1] = ParseLine(r[n], lines[n + 1])
      BY <1>1 DEF ParseRun
    <2>3. CASE lines[n + 1].key = "host"
      BY <2>1, <2>2, <2>3, FollowsHost
    <2>4. CASE lines[n + 1].key \in Options /\ Len(r[n]) # 0
      BY <2>1, <2>2, <2>4, FollowsOption
    <2>5. CASE lines[n + 1].key # "host" /\ ~(lines[n + 1].key \in Options /\ Len(r[n]) # 0)
      BY <2>1, <2>2, <2>5, FollowsOther
    <2> QED
      BY <2>3, <2>4, <2>5
  <1>5. Nat \subseteq S
    BY <1>2, <1>3, <1>4, NatInduct
  <1>6. Follows(r[Len(lines)], lines, Len(lines), alias)
    BY <1>2, <1>5
  <1> QED
    BY <1>1, <1>6 DEF ParseRun

----------------------------------------------------------------------------
(* What the fold over the blocks finds is what the first block gives.      *)

GivesTo(bs, n, alias, o, v) ==
  \E k \in 1 .. n : /\ Applies(alias, bs[k]) /\ bs[k].opt[o] = v /\ v # Unset
                   /\ \A j \in 1 .. k - 1 : Applies(alias, bs[j]) => bs[j].opt[o] = Unset
LacksTo(bs, n, alias, o) == \A k \in 1 .. n : Applies(alias, bs[k]) => bs[k].opt[o] = Unset

NowGives(bs, n, alias, o, v) ==
  LacksTo(bs, n, alias, o) /\ Applies(alias, bs[n + 1]) /\ bs[n + 1].opt[o] = v

\* What one block more can change.
LEMMA GivesStep ==
  ASSUME NEW bs, NEW n \in Nat, NEW alias, NEW o
  PROVE  /\ LacksTo(bs, n + 1, alias, o) =>
              LacksTo(bs, n, alias, o) /\ (Applies(alias, bs[n + 1]) => bs[n + 1].opt[o] = Unset)
         /\ \A v : GivesTo(bs, n + 1, alias, o, v) =>
              v # Unset /\ (GivesTo(bs, n, alias, o, v) \/ NowGives(bs, n, alias, o, v))
  <1>1. ASSUME LacksTo(bs, n + 1, alias, o)
        PROVE  LacksTo(bs, n, alias, o) /\ (Applies(alias, bs[n + 1]) => bs[n + 1].opt[o] = Unset)
    BY <1>1 DEF LacksTo
  <1>2. ASSUME NEW v, GivesTo(bs, n + 1, alias, o, v)
        PROVE  v # Unset /\ (GivesTo(bs, n, alias, o, v) \/ NowGives(bs, n, alias, o, v))
    <2>1. PICK k \in 1 .. n + 1 :
              /\ Applies(alias, bs[k]) /\ bs[k].opt[o] = v /\ v # Unset
              /\ \A j \in 1 .. k - 1 : Applies(alias, bs[j]) => bs[j].opt[o] = Unset
      BY <1>2 DEF GivesTo
    <2>2. CASE k = n + 1
      BY <2>1, <2>2 DEF LacksTo, NowGives
    <2>3. CASE k # n + 1
      <3>1. k \in 1 .. n
        BY <2>3
      <3> QED
        BY <2>1, <3>1 DEF GivesTo
    <2> QED
      BY <2>2, <2>3
  <1> QED
    BY <1>1, <1>2

\* The invariant of the fold over the blocks.
Found(f, bs, n, alias) ==
  /\ LacksTo(bs, n, alias, "hostname") => f.hostname = alias
  /\ \A v : GivesTo(bs, n, alias, "hostname", v) /\ v # alias => f.hostname = v
  /\ LacksTo(bs, n, alias, "user") => f.user = Unset
  /\ \A v : GivesTo(bs, n, alias, "user", v) => f.user = v
  /\ LacksTo(bs, n, alias, "port") => f.port = 0
  /\ \A v \in DOMAIN PortOf : GivesTo(bs, n, alias, "port", v) => f.port = PortOf[v]
  /\ LacksTo(bs, n, alias, "identityfile") => f.identityfile = Unset
  /\ \A v : GivesTo(bs, n, alias, "identityfile", v) => f.identityfile = v

\* Merge takes a value only where no earlier block has given one.
LEMMA FoundStep ==
  ASSUME NEW bs, NEW n \in Nat, NEW alias, NEW f, Found(f, bs, n, alias)
  PROVE  Found(Merge(alias, f, bs[n + 1]), bs, n + 1, alias)
  <1>1. PICK b : b = bs[n + 1]
    OBVIOUS
  <1>2. PICK g : g = Merge(alias, f, b)
    OBVIOUS
  <1>3. CASE ~Applies(alias, b)
    <2>1. g = f
      BY <1>2, <1>3 DEF Merge
    <2>2. \A o : LacksTo(bs, n + 1, alias, o) => LacksTo(bs, n, alias, o)
      BY GivesStep
    <2>3. \A o, v : GivesTo(bs, n + 1, alias, o, v) => GivesTo(bs, n, alias, o, v)
      BY <1>1, <1>3, GivesStep DEF NowGives
    <2>4. Found(f, bs, n + 1, alias)
      BY <2>2, <2>3 DEF Found
    <2> QED
      BY <1>1, <1>2, <2>1, <2>4
  <1>4. CASE Applies(alias, b)
    <2>1. /\ g.hostname = IF f.hostname = alias /\ b.opt["hostname"] # Unset THEN b.opt["hostname"] ELSE f.hostname
          /\ g.user = IF f.user = Unset THEN b.opt["user"] ELSE f.user
          /\ g.port = IF f.port = 0 /\ b.opt["port"] \in DOMAIN PortOf THEN PortOf[b.opt["port"]] ELSE f.port
          /\ g.identityfile = IF f.identityfile = Unset THEN b.opt["identityfile"] ELSE f.identityfile
      BY <1>2, <1>4 DEF Merge
    <2>2. \A o : LacksTo(bs, n + 1, alias, o) => LacksTo(bs, n, alias, o) /\ b.opt[o] = Unset
      BY <1>1, <1>4, GivesStep
    <2>3. \A o, v : GivesTo(bs, n + 1, alias, o, v) =>
                     v # Unset /\ (GivesTo(bs, n, alias, o, v) \/ NowGives(bs, n, alias, o, v))
      BY GivesStep
    <2>13. \A o, v : NowGives(bs, n, alias, o, v) => LacksTo(bs, n, alias, o) /\ b.opt[o] = v
      BY <1>1 DEF NowGives
    <2>4. LacksTo(bs, n + 1, alias, "hostname") => g.hostname = alias
      BY <2>1, <2>2 DEF Found
    <2>5. ASSUME NEW v, GivesTo(bs, n + 1, alias, "hostname", v), v # alias
          PROVE  g.hostname = v
      <3>1. CASE GivesTo(bs, n, alias, "hostname", v)
        <4>1. f.hostname = v
          BY <2>5, <3>1 DEF Found
        <4> QED
          BY <2>1, <2>5, <4>1
      <3>2. CASE NowGives(bs, n, alias, "hostname", v)
        <4>2. LacksTo(bs, n, alias, "hostname") /\ b.opt["hostname"] = v
          BY <2>13, <3>2
        <4>1. f.hostname = alias /\ v # Unset
          BY <2>3, <2>5, <4>2 DEF Found
        <4> QED
          BY <2>1, <4>1, <4>2
      <3> QED
        BY <2>3, <2>5, <3>1, <3>2
    <2>6. LacksTo(bs, n + 1, alias, "user") => g.user = Unset
      BY <2>1, <2>2 DEF Found
    <2>7. ASSUME NEW v, GivesTo(bs, n + 1, alias, "user", v)
          PROVE  g.user = v
      BY <2>1, <2>3, <2>7, <2>13 DEF Found
    <2>8. LacksTo(bs, n + 1, alias, "port") => g.port = 0
      BY <2>1, <2>2, SshConfigAssumption DEF Found
    <2>9. ASSUME NEW v \in DOMAIN PortOf, GivesTo(bs, n + 1, alias, "port", v)
          PROVE  g.port = PortOf[v]
      BY <2>1, <2>3, <2>9, <2>13, SshConfigAssumption DEF Found
    <2>10. LacksTo(bs, n + 1, alias, "identityfile") => g.identityfile = Unset
      BY <2>1, <2>2 DEF Found
    <2>11. ASSUME NEW v, GivesTo(bs, n + 1, alias, "identityfile", v)
           PROVE  g.identityfile = v
      BY <2>1, <2>3, <2>11, <2>13 DEF Found
    <2>12. Found(g, bs, n + 1, alias)
      BY <2>4, <2>5, <2>6, <2>7, <2>8, <2>9, <2>10, <2>11 DEF Found
    <2> QED
      BY <1>1, <1>2, <2>12
  <1> QED
    BY <1>3, <1>4

\* So does the fold over all blocks.
LEMMA LookupFinds ==
  ASSUME NEW lines, NEW alias, BlocksOK(ParseSSH(lines))
  PROVE  Found(LookupSSH(lines, alias), ParseSSH(lines), Len(ParseSSH(lines)), alias)
  <1>1. PICK bs : bs = ParseSSH(lines)
    OBVIOUS
  <1>2. Len(bs) \in Nat /\ DOMAIN bs = 1 .. Len(bs)
    BY <1>1, BlocksLen
  <1>3. PICK r : MergeRun(r, alias, bs) /\ r[Len(bs)] = LookupSSH(lines, alias)
    BY <1>1, <1>2, MergeRuns
  <1>4. PICK S : S = {n \in Nat : n <= Len(bs) => Found(r[n], bs, n, alias)}
    OBVIOUS
  <1>5. Found(r[0], bs, 0, alias)
    <2>1. \A o, v : ~GivesTo(bs, 0, alias, o, v)
      BY DEF GivesTo
    <2>2. r[0] = [hostname |-> alias, user |-> Unset, port |-> 0, identityfile |-> Unset]
      BY <1>3 DEF MergeRun
    <2> QED
      BY <2>1, <2>2 DEF Found
  <1>6. ASSUME NEW n \in Nat, n \in S
        PROVE  n + 1 \in S
    <2> SUFFICES ASSUME n + 1 <= Len(bs)
                 PROVE  Found(r[n + 1], bs, n + 1, alias)
      BY <1>4
    <2>1. Found(r[n], bs, n, alias)
      BY <1>2, <1>4, <1>6
    <2>2. r[n + 1] = Merge(alias, r[n], bs[n + 1])
      BY <1>2, <1>3 DEF MergeRun
    <2> QED
      BY <2>1, <2>2, FoundStep
  <1>7. Nat \subseteq S
    BY <1>2, <1>4, <1>5, <1>6, NatInduct
  <1>8. Found(r[Len(bs)], bs, Len(bs), alias)
    BY <1>2, <1>4, <1>7
  <1> QED
    BY <1>1, <1>3, <1>8

\* First is the value of the first line that counts.
LEMMA FirstIs ==
  ASSUME NEW lines, Len(lines) \in Nat, DOMAIN lines = 1 .. Len(lines), NEW alias, NEW o
  PROVE  \/ First(lines, alias, o) = Unset /\ NoLine(lines, Len(lines), alias, o)
         \/ First(lines, alias, o) # Unset /\ LineGives(lines, Len(lines), alias, o, First(lines, alias, o))
  <1>1. PICK L : L = {i \in DOMAIN lines : Counts(lines, alias, o, i)}
    OBVIOUS
  <1>2. FirstLine(lines, alias, o) = IF L = {} THEN 0 ELSE CHOOSE i \in L : \A j \in L : i <= j
    BY <1>1 DEF FirstLine, Counts
  <1>3. CASE L = {}
    <2>1. First(lines, alias, o) = Unset
      BY <1>2, <1>3 DEF First
    <2>2. NoLine(lines, Len(lines), alias, o)
      BY <1>1, <1>3 DEF NoLine
    <2> QED
      BY <2>1, <2>2
  <1>4. CASE L # {}
    <2>1. L \subseteq Nat /\ L \subseteq 1 .. Len(lines)
      BY <1>1
    <2>2. \E i \in L : \A j \in L : i <= j
      BY <1>4, <2>1, LeastNat
    <2>3. PICK i : i = FirstLine(lines, alias, o)
      OBVIOUS
    <2>4. i \in L /\ \A j \in L : i <= j
      BY <1>2, <1>4, <2>2, <2>3
    <2>5. i \in 1 .. Len(lines) /\ Counts(lines, alias, o, i)
      BY <1>1, <2>1, <2>4
    <2>6. First(lines, alias, o) = lines[i].val /\ lines[i].val # Unset
      BY <2>3, <2>5 DEF First, Counts
    <2>7. \A j \in 1 .. i - 1 : ~Counts(lines, alias, o, j)
      BY <1>1, <2>4, <2>5
    <2>8. LineGives(lines, Len(lines), alias, o, lines[i].val)
      BY <2>5, <2>7 DEF LineGives
    <2> QED
      BY <2>6, <2>8
  <1> QED
    BY <1>3, <1>4

\* The lookup by blocks is the search by lines.
LEMMA LookupIsFirst ==
  ASSUME NEW lines, Len(lines) \in Nat, DOMAIN lines = 1 .. Len(lines), NEW alias, PatternsAgree(lines, alias),
         NEW found, found = LookupSSH(lines, alias)
  PROVE  /\ found.user = First(lines, alias, "user")
         /\ found.identityfile = First(lines, alias, "identityfile")
         /\ First(lines, alias, "hostname") \in {Unset, alias} \/ found.hostname = First(lines, alias, "hostname")
         /\ First(lines, alias, "hostname") = Unset => found.hostname = alias
         /\ First(lines, alias, "port") = Unset => found.port = 0
         /\ First(lines, alias, "port") \in DOMAIN PortOf => found.port = PortOf[First(lines, alias, "port")]
  <1>1. PICK bs : bs = ParseSSH(lines)
    OBVIOUS
  <1>2. Follows(bs, lines, Len(lines), alias)
    BY <1>1, ParseFollows
  <1>3. Found(found, bs, Len(bs), alias)
    BY <1>1, <1>2, LookupFinds DEF Follows
  <1>4. \A o \in Options :
          \/ First(lines, alias, o) = Unset /\ LacksTo(bs, Len(bs), alias, o)
          \/ First(lines, alias, o) # Unset /\ GivesTo(bs, Len(bs), alias, o, First(lines, alias, o))
    <2> TAKE o \in Options
    <2>1. \/ First(lines, alias, o) = Unset /\ NoLine(lines, Len(lines), alias, o)
          \/ First(lines, alias, o) # Unset /\ LineGives(lines, Len(lines), alias, o, First(lines, alias, o))
      BY FirstIs
    <2>2. NoLine(lines, Len(lines), alias, o) => LacksTo(bs, Len(bs), alias, o)
      BY <1>2 DEF Follows, Lacks, LacksTo
    <2>3. \A v : LineGives(lines, Len(lines), alias, o, v) => GivesTo(bs, Len(bs), alias, o, v)
      BY <1>2 DEF Follows, Gives, GivesTo
    <2> QED
      BY <2>1, <2>2, <2>3
  <1>5. "hostname" \in Options /\ "user" \in Options /\ "port" \in Options /\ "identityfile" \in Options
    BY DEF Options
  <1>6. found.user = First(lines, alias, "user") /\ found.identityfile = First(lines, alias, "identityfile")
    BY <1>3, <1>4, <1>5 DEF Found
  <1>7. /\ First(lines, alias, "hostname") \in {Unset, alias} \/ found.hostname = First(lines, alias, "hostname")
        /\ First(lines, alias, "hostname") = Unset => found.hostname = alias
    BY <1>3, <1>4, <1>5 DEF Found
  <1>8. /\ First(lines, alias, "port") = Unset => found.port = 0
        /\ First(lines, alias, "port") \in DOMAIN PortOf => found.port = PortOf[First(lines, alias, "port")]
    BY <1>3, <1>4, <1>5, SshConfigAssumption DEF Found
  <1> QED
    BY <1>6, <1>7, <1>8

----------------------------------------------------------------------------
(* The heap.                                                               *)

\* A heap is a sequence of profiles with all their fields.
HeapOK(h) == h \in Seq(Range(h)) /\ \A i \in DOMAIN h : DOMAIN h[i] = Fields

\* No object goes away or loses what a profile is known by, or its separator.
Grows(h, g) ==
  /\ DOMAIN h \subseteq DOMAIN g
  /\ \A i \in DOMAIN h :
       /\ g[i].name = h[i].name /\ g[i].host = h[i].host /\ g[i].ssh = h[i].ssh
       /\ h[i].sep # "" => g[i].sep = h[i].sep
SameDB(h, g) == \A i \in DOMAIN h : g[i].db = h[i].db

\* A function on 1 .. n is a sequence.
LEMMA IsSeq ==
  ASSUME NEW n \in Nat, NEW h, DOMAIN h = 1 .. n, h = [i \in 1 .. n |-> h[i]]
  PROVE  h \in Seq(Range(h)) /\ Len(h) = n
  <1>1. h \in [1 .. n -> Range(h)]
    BY DEF Range
  <1> QED
    BY <1>1

LEMMA HeapDomain ==
  ASSUME NEW h, HeapOK(h)
  PROVE  Len(h) \in Nat /\ DOMAIN h = 1 .. Len(h)
  BY DEF HeapOK

\* A new object takes the next place.
LEMMA Appended ==
  ASSUME NEW h, HeapOK(h), NEW x, DOMAIN x = Fields
  PROVE  /\ HeapOK(Append(h, x)) /\ Len(Append(h, x)) = Len(h) + 1
         /\ DOMAIN Append(h, x) = DOMAIN h \cup {Len(h) + 1} /\ Len(h) + 1 \notin DOMAIN h
         /\ Append(h, x)[Len(h) + 1] = x /\ \A i \in DOMAIN h : Append(h, x)[i] = h[i]
  <1>1. h \in Seq(Range(h) \cup {x}) /\ x \in Range(h) \cup {x}
    BY DEF HeapOK
  <1>2. PICK n \in Nat : n = Len(h)
    BY <1>1
  <1>3. PICK g : g = Append(h, x)
    OBVIOUS
  <1>4. /\ g \in Seq(Range(h) \cup {x}) /\ Len(g) = n + 1 /\ g[n + 1] = x
        /\ \A i \in 1 .. n : g[i] = h[i]
    BY <1>1, <1>2, <1>3
  <1>5. DOMAIN g = 1 .. n + 1 /\ DOMAIN h = 1 .. n
    BY <1>1, <1>2, <1>4
  <1>6. g \in Seq(Range(g))
    BY <1>4, <1>5, IsSeq
  <1>7. \A i \in DOMAIN g : DOMAIN g[i] = Fields
    BY <1>4, <1>5 DEF HeapOK
  <1> QED
    BY <1>2, <1>3, <1>4, <1>5, <1>6, <1>7 DEF HeapOK

\* A change of one object.
LEMMA ObjectSet ==
  ASSUME NEW h, HeapOK(h), NEW p \in DOMAIN h, NEW g, DOMAIN g = DOMAIN h,
         g = [i \in DOMAIN h |-> g[i]], \A i \in DOMAIN h : i # p => g[i] = h[i], DOMAIN g[p] = Fields
  PROVE  HeapOK(g)
  <1>1. Len(h) \in Nat /\ DOMAIN h = 1 .. Len(h)
    BY HeapDomain
  <1>2. g \in Seq(Range(g))
    BY <1>1, IsSeq
  <1> QED
    BY <1>2 DEF HeapOK

\* connProfile completes an object, and changes no other.
LEMMA Completes ==
  ASSUME NEW h, HeapOK(h), NEW p \in DOMAIN h
  PROVE  /\ HeapOK(Completed(h, p)) /\ DOMAIN Completed(h, p) = DOMAIN h
         /\ Grows(h, Completed(h, p)) /\ SameDB(h, Completed(h, p))
         /\ Completed(h, p)[p].sep # ""
  <1>9. PICK g : g = Completed(h, p)
    OBVIOUS
  <1>1. PICK v : v = IF h[p].sep = "" THEN ":" ELSE h[p].sep
    OBVIOUS
  <1>2. PICK r : r = [h[p] EXCEPT !.sep = v]
    OBVIOUS
  <1>3. DOMAIN h[p] = Fields
    BY DEF HeapOK
  <1>4. /\ DOMAIN r = Fields /\ r.name = h[p].name /\ r.host = h[p].host /\ r.ssh = h[p].ssh
        /\ r.db = h[p].db /\ r.sep = v
    BY <1>2, <1>3 DEF Fields
  <1>5. g = [h EXCEPT ![p] = r]
    BY <1>1, <1>2, <1>9 DEF Completed
  <1>6. /\ DOMAIN g = DOMAIN h /\ g = [i \in DOMAIN h |-> g[i]] /\ g[p] = r
        /\ \A i \in DOMAIN h : i # p => g[i] = h[i]
    <2>1. h = [i \in DOMAIN h |-> h[i]]
      <3>1. h \in Seq(Range(h))
        BY DEF HeapOK
      <3> QED
        BY <3>1
    <2> QED
      BY <1>5, <2>1
  <1>7. v # "" /\ (h[p].sep # "" => v = h[p].sep)
    BY <1>1
  <1>8. HeapOK(g)
    BY <1>4, <1>6, ObjectSet
  <1>10. Grows(h, g) /\ SameDB(h, g)
    BY <1>4, <1>6, <1>7 DEF Grows, SameDB
  <1> QED
    BY <1>4, <1>6, <1>7, <1>8, <1>9, <1>10

\* switchDB writes the database into the object.
LEMMA Browses ==
  ASSUME NEW h, HeapOK(h), NEW p \in DOMAIN h, NEW d, NEW g, g = [h EXCEPT ![p].db = d]
  PROVE  HeapOK(g) /\ DOMAIN g = DOMAIN h /\ Grows(h, g)
  <1>2. PICK r : r = [h[p] EXCEPT !.db = d]
    OBVIOUS
  <1>3. DOMAIN h[p] = Fields
    BY DEF HeapOK
  <1>4. /\ DOMAIN r = Fields /\ r.name = h[p].name /\ r.host = h[p].host /\ r.ssh = h[p].ssh
        /\ r.sep = h[p].sep
    BY <1>2, <1>3 DEF Fields
  <1>5. g = [h EXCEPT ![p] = r]
    BY <1>2
  <1>6. /\ DOMAIN g = DOMAIN h /\ g = [i \in DOMAIN h |-> g[i]] /\ g[p] = r
        /\ \A i \in DOMAIN h : i # p => g[i] = h[i]
    <2>1. h = [i \in DOMAIN h |-> h[i]]
      <3>1. h \in Seq(Range(h))
        BY DEF HeapOK
      <3> QED
        BY <3>1
    <2> QED
      BY <1>5, <2>1
  <1>8. HeapOK(g)
    BY <1>4, <1>6, ObjectSet
  <1> QED
    BY <1>4, <1>6, <1>8 DEF Grows

\* normalize leaves what the user entered.
Filled(q, p) ==
  /\ DOMAIN q = Fields /\ q.name = p.name /\ q.host = p.host /\ q.db = p.db
  /\ (q.ssh = None) <=> (p.ssh = None)
  /\ p.sep # "" => q.sep = p.sep

LEMMA Normalizes ==
  ASSUME Apart, NEW sep, NEW p, DOMAIN p = Fields
  PROVE  Filled(Normalized(sep, p), p)
  <1>1. PICK s : s = IF p.sep = "" THEN sep ELSE p.sep
    OBVIOUS
  <1>2. PICK t : t = IF p.ssh # None /\ p.ssh.port = 0 THEN [p.ssh EXCEPT !.port = 22] ELSE p.ssh
    OBVIOUS
  <1>3. t = None <=> p.ssh = None
    <2>1. \A x : [x EXCEPT !.port = 22] # None
      BY DEF Apart
    <2> QED
      BY <1>2, <2>1
  <1>4. PICK q : q = [p EXCEPT !.sep = s, !.ssh = t]
    OBVIOUS
  <1>5. q = Normalized(sep, p)
    BY <1>1, <1>2, <1>4 DEF Normalized, Fields
  <1>6. q.ssh = t /\ q.sep = s /\ DOMAIN q = Fields /\ q.name = p.name /\ q.host = p.host /\ q.db = p.db
    BY <1>4 DEF Fields
  <1>7. Filled(q, p)
    BY <1>1, <1>3, <1>6 DEF Filled
  <1> QED
    BY <1>5, <1>7

----------------------------------------------------------------------------
(* What is well formed.                                                    *)

\* The configuration names objects of the heap by the names they have.
CfgOK(c, h) ==
  /\ c = [sep |-> c.sep, profiles |-> c.profiles]
  /\ DOMAIN c.profiles \subseteq NameSet
  /\ \A n \in DOMAIN c.profiles : c.profiles[n] \in DOMAIN h /\ h[c.profiles[n]].name = n

\* So does the file, if it can be parsed.
FileOK(x) ==
  x \notin {Empty, Torn} =>
    /\ DOMAIN x.profiles \subseteq NameSet
    /\ \A n \in DOMAIN x.profiles : x.profiles[n].name = n /\ DOMAIN x.profiles[n] = Fields

ConnOK(c, h) ==
  c # None => /\ c = [p |-> c.p, made |-> c.made, via |-> c.via]
              /\ c.p \in DOMAIN h /\ h[c.p].sep # ""

FormOK(f) ==
  f # None => /\ f = [name |-> f.name, host |-> f.host, db |-> f.db, ssh |-> f.ssh]
              /\ f.name \in NameSet \cup {""}

\* Every pointer points into the heap, and only a process has any.
Formed ==
  /\ HeapOK(objs) /\ CfgOK(cfg, objs) /\ FileOK(file) /\ ConnOK(conn, objs) /\ FormOK(form)
  /\ dial # None => dial \in DOMAIN objs
  /\ ~up => conn = None /\ dial = None /\ form = None

\* The names that profiles may get.
LEMMA NoNameIsEmpty == "" \notin NameSet /\ IsFiniteSet(NameSet)
  <1>1. PICK S : S = STRING \ {""}
    OBVIOUS
  <1>2. Names \in Seq(S) /\ "" \notin S
    BY <1>1, ProfilesAssumption
  <1>3. Len(Names) \in Nat /\ DOMAIN Names = 1 .. Len(Names) /\ Names \in [1 .. Len(Names) -> S]
    BY <1>2, LenProperties
  <1>4. NameSet = {Names[i] : i \in 1 .. Len(Names)}
    BY <1>3 DEF NameSet, Range
  <1>5. "" \notin NameSet
    BY <1>2, <1>3, <1>4
  <1>6. Names \in Surjection(1 .. Len(Names), NameSet)
    BY <1>3, <1>4 DEF Surjection
  <1>7. IsFiniteSet(NameSet)
    BY <1>3, <1>6, FS_NatSurjection DEF ExistsSurjection
  <1> QED
    BY <1>5, <1>7

\* What Save writes in full.
LEMMA SavedIs ==
  ASSUME Apart, NEW h, HeapOK(h), NEW c, CfgOK(c, h), NEW x, x = Saved(c, h)
  PROVE  /\ x \notin {Empty, Torn} /\ DOMAIN x.profiles = DOMAIN c.profiles
         /\ \A n \in DOMAIN c.profiles : x.profiles[n] = h[c.profiles[n]]
         /\ FileOK(x)
  <1>1. PICK ps : ps = [n \in DOMAIN c.profiles |-> h[c.profiles[n]]]
    OBVIOUS
  <1>2. x = [sep |-> c.sep, profiles |-> ps]
    BY <1>1 DEF Saved
  <1>3. x.profiles = ps
    BY <1>2
  <1>4. x \notin {Empty, Torn}
    BY <1>2 DEF Apart
  <1>5. \A n \in DOMAIN c.profiles : DOMAIN h[c.profiles[n]] = Fields /\ h[c.profiles[n]].name = n
    BY DEF HeapOK, CfgOK
  <1> QED
    BY <1>1, <1>3, <1>4, <1>5 DEF FileOK, CfgOK

\* What it may leave.
LEMMA PartOK ==
  ASSUME Apart, NEW h, HeapOK(h), NEW c, CfgOK(c, h), NEW x \in Parts(c, h)
  PROVE  FileOK(x)
  <1>1. CASE x \in {Empty, Torn}
    BY <1>1 DEF FileOK
  <1>2. CASE x \notin {Empty, Torn}
    <2>1. PICK y : y = Saved(c, h)
      OBVIOUS
    <2>2. y.profiles = [n \in DOMAIN c.profiles |-> h[c.profiles[n]]] /\ "profiles" \in DOMAIN y
      BY <2>1 DEF Saved
    <2>3. PICK s \in SUBSET DOMAIN c.profiles : x = [y EXCEPT !.profiles = Restrict(@, s)]
      BY <1>2, <2>1 DEF Parts
    <2>4. x.profiles = Restrict(y.profiles, s)
      BY <2>2, <2>3
    <2>5. DOMAIN x.profiles = s /\ \A n \in s : x.profiles[n] = y.profiles[n]
      BY <2>2, <2>4 DEF Restrict
    <2>6. FileOK(y)
      BY <2>1, SavedIs
    <2>7. y \notin {Empty, Torn} /\ DOMAIN y.profiles = DOMAIN c.profiles
      BY <2>1, SavedIs
    <2> QED
      BY <2>5, <2>6, <2>7 DEF FileOK
  <1> QED
    BY <1>1, <1>2

\* A save, whole or cut short, leaves a file that Load can read or refuse.
LEMMA SaveKeepsFile ==
  ASSUME Apart, NEW h, HeapOK(h), NEW c, CfgOK(c, h), FileOK(file),
         SaveWorks(c, h) \/ SaveFails(c, h)
  PROVE  FileOK(file')
  <1>1. CASE SaveWorks(c, h)
    BY <1>1, SavedIs DEF SaveWorks
  <1>2. CASE SaveFails(c, h)
    BY <1>2, PartOK DEF SaveFails
  <1> QED
    BY <1>1, <1>2

\* What SaveProfile makes of the heap and of the configuration.
Put(h, c, f) ==
  /\ HeapOK(h) /\ CfgOK(c, h) /\ DOMAIN h = DOMAIN objs \cup {Len(h)}
  /\ \A i \in DOMAIN objs : h[i] = objs[i]
  /\ h[Len(h)] = Collected(f)
  /\ DOMAIN c.profiles = DOMAIN cfg.profiles \cup {f.name}
  /\ c.profiles[f.name] = Len(h)
  /\ \A n \in DOMAIN cfg.profiles \ {f.name} : c.profiles[n] = cfg.profiles[n]

LEMMA Upserted ==
  ASSUME HeapOK(objs), CfgOK(cfg, objs), NEW f, f.name \in NameSet,
         NEW h, h = Append(objs, Collected(f)),
         NEW c, c = [cfg EXCEPT !.profiles = WithEntry(@, f.name, Len(h))]
  PROVE  Put(h, c, f)
  <1>1. PICK x : x = Collected(f)
    OBVIOUS
  <1>2. DOMAIN x = Fields /\ x.name = f.name
    BY <1>1 DEF Collected, Fields
  <1>3. /\ HeapOK(h) /\ Len(h) = Len(objs) + 1 /\ DOMAIN h = DOMAIN objs \cup {Len(h)}
        /\ Len(h) \notin DOMAIN objs /\ h[Len(h)] = x
        /\ \A i \in DOMAIN objs : h[i] = objs[i]
    BY <1>1, <1>2, Appended
  <1>4. PICK ps : ps = WithEntry(cfg.profiles, f.name, Len(h))
    OBVIOUS
  <1>5. /\ DOMAIN ps = DOMAIN cfg.profiles \cup {f.name} /\ ps[f.name] = Len(h)
        /\ \A n \in DOMAIN cfg.profiles \ {f.name} : ps[n] = cfg.profiles[n]
    BY <1>4 DEF WithEntry
  <1>6. cfg = [sep |-> cfg.sep, profiles |-> cfg.profiles]
    BY DEF CfgOK
  <1>7. c = [sep |-> cfg.sep, profiles |-> ps]
    BY <1>4, <1>6
  <1>8. c.profiles = ps /\ c.sep = cfg.sep
    BY <1>7
  <1>9. DOMAIN ps \subseteq NameSet
    BY <1>5 DEF CfgOK
  <1>10. \A n \in DOMAIN ps : ps[n] \in DOMAIN h /\ h[ps[n]].name = n
    <2> TAKE n \in DOMAIN ps
    <2>1. CASE n = f.name
      BY <2>1, <1>2, <1>3, <1>5
    <2>2. CASE n # f.name
      BY <2>2, <1>3, <1>5 DEF CfgOK
    <2> QED
      BY <2>1, <2>2
  <1>11. CfgOK(c, h)
    BY <1>7, <1>8, <1>9, <1>10 DEF CfgOK
  <1> QED
    BY <1>1, <1>3, <1>5, <1>8, <1>11 DEF Put

\* SetToSeq lists a finite set.
LEMMA SetToSeqIs ==
  ASSUME NEW S, IsFiniteSet(S), NEW s, s = SetToSeq(S)
  PROVE  /\ Cardinality(S) \in Nat /\ s \in [1 .. Cardinality(S) -> S]
         /\ \A x \in S : \E i \in 1 .. Cardinality(S) : s[i] = x
  <1>1. PICK n \in Nat : n = Cardinality(S)
    BY FS_CardinalityType
  <1>2. \E f : f \in Bijection(1 .. n, S)
    BY <1>1, FS_CardinalityType DEF ExistsBijection
  <1>3. \E f \in [1 .. n -> S] : IsInjective(f)
    BY <1>2 DEF Bijection, Injection, IsInjective
  <1>4. s \in [1 .. n -> S] /\ IsInjective(s)
    BY <1>1, <1>3 DEF SetToSeq
  <1>5. IsFiniteSet(1 .. n) /\ Cardinality(1 .. n) = n
    BY FS_Interval
  <1>6. s \in Injection(1 .. n, S)
    BY <1>4 DEF Injection, IsInjective
  <1>7. s \in Surjection(1 .. n, S)
    BY <1>1, <1>5, <1>6, FS_Injection
  <1> QED
    BY <1>1, <1>4, <1>7 DEF Surjection

\* Load: one object for each profile of the file.
Reads(c, h) ==
  /\ HeapOK(h) /\ CfgOK(c, h) /\ DOMAIN c.profiles = DOMAIN Stored.profiles
  /\ \A n \in DOMAIN Stored.profiles : Filled(h[c.profiles[n]], Stored.profiles[n])

LEMMA Loaded ==
  ASSUME Apart, FileOK(file), file # Torn,
         NEW names, names = SetToSeq(DOMAIN Stored.profiles),
         NEW h, h = [i \in DOMAIN names |-> Normalized(Stored.sep, Stored.profiles[names[i]])],
         NEW c, c = [sep |-> Stored.sep,
                     profiles |-> [n \in DOMAIN Stored.profiles |-> CHOOSE i \in DOMAIN names : names[i] = n]]
  PROVE  Reads(c, h)
  <1>1. PICK ps : ps = Stored.profiles
    OBVIOUS
  <1>2. DOMAIN ps \subseteq NameSet /\ \A n \in DOMAIN ps : ps[n].name = n /\ DOMAIN ps[n] = Fields
    <2>1. CASE file = Empty
      <3>1. ps = << >>
        BY <1>1, <2>1 DEF Stored, DefaultCfg
      <3>2. DOMAIN ps = {}
        BY <3>1
      <3> QED
        BY <3>2
    <2>2. CASE file # Empty
      BY <1>1, <2>2 DEF Stored, FileOK
    <2> QED
      BY <2>1, <2>2
  <1>3. IsFiniteSet(DOMAIN ps)
    BY <1>2, NoNameIsEmpty, FS_Subset
  <1>4. PICK k \in Nat : k = Cardinality(DOMAIN ps)
    BY <1>3, FS_CardinalityType
  <1>5. names \in [1 .. k -> DOMAIN ps] /\ \A x \in DOMAIN ps : \E i \in 1 .. k : names[i] = x
    BY <1>1, <1>3, <1>4, SetToSeqIs
  <1>6. PICK at : at = [n \in DOMAIN ps |-> CHOOSE i \in DOMAIN names : names[i] = n]
    OBVIOUS
  <1>7. c = [sep |-> Stored.sep, profiles |-> at]
    BY <1>1, <1>6
  <1>8. c.profiles = at /\ DOMAIN at = DOMAIN ps
    BY <1>6, <1>7
  <1>9. \A n \in DOMAIN ps : at[n] \in DOMAIN names /\ names[at[n]] = n
    BY <1>5, <1>6
  <1>10. DOMAIN names = 1 .. k /\ DOMAIN h = 1 .. k
         /\ \A i \in 1 .. k : names[i] \in DOMAIN ps /\ h[i] = Normalized(Stored.sep, ps[names[i]])
    BY <1>1, <1>5
  <1>11. h = [i \in 1 .. k |-> h[i]]
    BY <1>10
  <1>12. \A i \in 1 .. k : DOMAIN h[i] = Fields /\ h[i].name = names[i] /\ Filled(h[i], ps[names[i]])
    <2> TAKE i \in 1 .. k
    <2>1. PICK p : p = ps[names[i]]
      OBVIOUS
    <2>2. DOMAIN p = Fields /\ p.name = names[i] /\ h[i] = Normalized(Stored.sep, p)
      BY <1>2, <1>10, <2>1
    <2>3. Filled(h[i], p)
      BY <2>2, Normalizes
    <2> QED
      BY <2>1, <2>2, <2>3 DEF Filled
  <1>13. HeapOK(h)
    BY <1>10, <1>11, <1>12, IsSeq DEF HeapOK
  <1>14. CfgOK(c, h)
    <2>1. c = [sep |-> c.sep, profiles |-> c.profiles]
      BY <1>7
    <2>2. \A n \in DOMAIN at : at[n] \in DOMAIN h /\ h[at[n]].name = n
      BY <1>8, <1>9, <1>10, <1>12
    <2> QED
      BY <1>2, <1>8, <2>1, <2>2 DEF CfgOK
  <1>15. \A n \in DOMAIN ps : DOMAIN ps[n] = Fields /\ Filled(h[at[n]], ps[n])
    BY <1>2, <1>9, <1>10, <1>12
  <1> QED
    BY <1>1, <1>8, <1>9, <1>13, <1>14, <1>15 DEF Reads

----------------------------------------------------------------------------
(* Steps keep it so, and no step takes back what an object says.           *)

Grown == Grows(objs, objs') /\ (SameDB(objs, objs') \/ "browsed" \in past')

\* What the user may type is a form.
LEMMA TypedOK ==
  ASSUME FormOK(form), form # None, NEW f \in Typed
  PROVE  FormOK(f) /\ (f.name = "" \/ f.name \in NameSet)
  <1>1. form = [name |-> form.name, host |-> form.host, db |-> form.db, ssh |-> form.ssh]
        /\ form.name \in NameSet \cup {""}
    BY DEF FormOK
  <1>2. PICK n \in NameSet \cup {form.name}, h \in Hosts \cup {form.host}, t \in SSHs \cup {form.ssh} :
           f = Filling(n, h, t)
    BY DEF Typed
  <1>3. f = [name |-> n, host |-> h, db |-> form.db, ssh |-> t]
    BY <1>1, <1>2 DEF Filling
  <1>4. f.name = n /\ f.host = h /\ f.db = form.db /\ f.ssh = t
    BY <1>3
  <1> QED
    BY <1>1, <1>2, <1>3, <1>4 DEF FormOK

\* So is what the cursor fills in,
LEMMA FormOfOK ==
  ASSUME NEW h, HeapOK(h), NEW c, CfgOK(c, h), NEW n \in DOMAIN c.profiles
  PROVE  FormOK(FormOf(h[c.profiles[n]]))
  <1>1. PICK p : p = h[c.profiles[n]]
    OBVIOUS
  <1>2. p.name \in NameSet
    BY <1>1 DEF CfgOK
  <1>3. PICK f : f = [name |-> p.name, host |-> p.host, db |-> p.db, ssh |-> p.ssh]
    OBVIOUS
  <1>4. f.name = p.name /\ f.host = p.host /\ f.db = p.db /\ f.ssh = p.ssh
    BY <1>3
  <1>5. FormOK(f)
    BY <1>2, <1>3, <1>4 DEF FormOK
  <1> QED
    BY <1>1, <1>3, <1>5 DEF FormOf

\* The list has a first row once it has one.
LEMMA TopOK ==
  ASSUME NEW S \in SUBSET NameSet, S # {}
  PROVE  TopName(S) \in S
  <1>1. PICK T : T = STRING \ {""}
    OBVIOUS
  <1>2. Names \in Seq(T)
    BY <1>1, ProfilesAssumption
  <1>3. Len(Names) \in Nat /\ DOMAIN Names = 1 .. Len(Names)
    BY <1>2, LenProperties
  <1>4. PICK I : I = {i \in DOMAIN Names : Names[i] \in S}
    OBVIOUS
  <1>5. I \subseteq Nat /\ I # {}
    BY <1>3, <1>4 DEF NameSet, Range
  <1>6. PICK m \in I : \A j \in I : m <= j
    BY <1>5, LeastNat
  <1>7. \E i \in DOMAIN Names : Names[i] \in S /\ \A j \in 1 .. i - 1 : Names[j] \notin S
    <2>1. m \in DOMAIN Names /\ Names[m] \in S
      BY <1>4, <1>6
    <2>2. \A j \in 1 .. m - 1 : Names[j] \notin S
      BY <1>3, <1>4, <1>6, <2>1
    <2> QED
      BY <2>1, <2>2
  <1> QED
    BY <1>7 DEF TopName

\* and what the list does when it is filled again.
LEMMA ReloadedOK ==
  ASSUME NEW h, HeapOK(h), NEW c, CfgOK(c, h), DOMAIN c.profiles # {}
  PROVE  FormOK(Reloaded(c, h))
  <1>1. PICK n : n = TopName(DOMAIN c.profiles)
    OBVIOUS
  <1>2. n \in DOMAIN c.profiles
    BY <1>1, TopOK DEF CfgOK
  <1>3. FormOK(FormOf(h[c.profiles[n]]))
    BY <1>2, FormOfOK
  <1> QED
    BY <1>1, <1>3 DEF Reloaded

\* A heap that has grown serves the configuration and the connection as before.
LEMMA Serves ==
  ASSUME Formed, NEW h, Grows(objs, h)
  PROVE  CfgOK(cfg, h) /\ ConnOK(conn, h)
  BY DEF Grows, Formed, CfgOK, ConnOK

LEMMA InitFormed == Init => Formed
  <1> SUFFICES ASSUME Init PROVE Formed
    OBVIOUS
  <1>1. HeapOK(objs)
    <2>1. objs = << >> /\ DOMAIN objs = {}
      BY DEF Init
    <2> QED
      BY <2>1 DEF HeapOK
  <1>2. CfgOK(cfg, objs)
    <2>1. cfg = [sep |-> ":", profiles |-> << >>]
      BY DEF Init, DefaultCfg
    <2>2. cfg.profiles = << >> /\ cfg.sep = ":"
      BY <2>1
    <2>3. DOMAIN cfg.profiles = {}
      BY <2>2
    <2> QED
      BY <2>1, <2>2, <2>3 DEF CfgOK
  <1>3. FileOK(file)
    BY ProfilesAssumption DEF Init, FileOK, NameSet
  <1> QED
    BY <1>1, <1>2, <1>3 DEF Init, Formed, ConnOK, FormOK

\* The heap a process starts with, and its dial.
Begins(h) ==
  \/ objs' = h /\ dial' \in {None} \cup DOMAIN h
  \/ \E u \in URLs : objs' = Append(h, u) /\ dial' = Len(h) + 1

\* A start reads the file into a heap of its own.
LEMMA StartReads ==
  ASSUME Apart, Formed, Start
  PROVE  \E h : Reads(cfg', h) /\ Begins(h)
  <1>1. PICK names : names = SetToSeq(DOMAIN Stored.profiles)
    OBVIOUS
  <1>2. PICK h : h = [i \in DOMAIN names |-> Normalized(Stored.sep, Stored.profiles[names[i]])]
    OBVIOUS
  <1>3. /\ cfg' = [sep |-> Stored.sep,
                   profiles |-> [n \in DOMAIN Stored.profiles |-> CHOOSE i \in DOMAIN names : names[i] = n]]
        /\ \/ objs' = h /\ dial' \in {None} \cup DOMAIN h
           \/ \E u \in URLs : objs' = Append(h, u) /\ dial' = Len(h) + 1
    BY <1>1, <1>2 DEF Start
  <1>4. FileOK(file) /\ file # Torn
    BY DEF Formed, Start
  <1>6. PICK c : c = [sep |-> Stored.sep,
                      profiles |-> [n \in DOMAIN Stored.profiles |-> CHOOSE i \in DOMAIN names : names[i] = n]]
    OBVIOUS
  <1>7. Reads(c, h)
    BY <1>1, <1>2, <1>4, <1>6, Loaded
  <1>5. Reads(cfg', h)
    BY <1>3, <1>6, <1>7
  <1> QED
    BY <1>3, <1>5 DEF Begins

\* An object more is no change of the others.
LEMMA BeginsWith ==
  ASSUME NEW h, HeapOK(h), Begins(h)
  PROVE  HeapOK(objs') /\ DOMAIN h \subseteq DOMAIN objs' /\ (\A i \in DOMAIN h : objs'[i] = h[i])
         /\ (dial' # None => dial' \in DOMAIN objs')
  <1>1. CASE objs' = h /\ dial' \in {None} \cup DOMAIN h
    BY <1>1
  <1>2. CASE \E u \in URLs : objs' = Append(h, u) /\ dial' = Len(h) + 1
    <2>1. PICK u \in URLs : objs' = Append(h, u) /\ dial' = Len(h) + 1
      BY <1>2
    <2>2. DOMAIN u = Fields
      BY ProfilesAssumption
    <2>3. /\ HeapOK(objs') /\ DOMAIN objs' = DOMAIN h \cup {Len(h) + 1}
          /\ \A i \in DOMAIN h : objs'[i] = h[i]
      BY <2>1, <2>2, Appended
    <2> QED
      BY <2>1, <2>3
  <1> QED
    BY <1>1, <1>2 DEF Begins

LEMMA StartFormed ==
  ASSUME Apart, Formed, Start
  PROVE  Formed'
  <1>1. PICK h : Reads(cfg', h) /\ Begins(h)
    BY StartReads
  <1>2. HeapOK(h) /\ CfgOK(cfg', h)
    BY <1>1 DEF Reads
  <1>3. HeapOK(objs') /\ DOMAIN h \subseteq DOMAIN objs' /\ (\A i \in DOMAIN h : objs'[i] = h[i])
        /\ (dial' # None => dial' \in DOMAIN objs')
    BY <1>1, <1>2, BeginsWith
  <1>4. CfgOK(cfg', objs')
    BY <1>2, <1>3 DEF CfgOK
  <1>5. UNCHANGED <<file, form, conn>> /\ up' = TRUE /\ conn = None /\ form = None
    BY DEF Start, Disk, Formed
  <1> QED
    BY <1>3, <1>4, <1>5 DEF Formed, ConnOK, FormOK

\* A process that ends takes its heap with it.
LEMMA StopFormed ==
  ASSUME Stop, FileOK(file')
  PROVE  Formed'
  <1>1. HeapOK(objs')
    <2>1. objs' = << >> /\ DOMAIN objs' = {}
      BY DEF Stop
    <2> QED
      BY <2>1 DEF HeapOK
  <1>2. CfgOK(cfg', objs')
    <2>1. cfg' = [sep |-> ":", profiles |-> << >>]
      BY DEF Stop, DefaultCfg
    <2>2. cfg'.profiles = << >> /\ cfg'.sep = ":"
      BY <2>1
    <2>3. DOMAIN cfg'.profiles = {}
      BY <2>2
    <2> QED
      BY <2>1, <2>2, <2>3 DEF CfgOK
  <1> QED
    BY <1>1, <1>2 DEF Stop, Formed, ConnOK, FormOK

\* Nothing happens to the heap.
LEMMA SameHeap ==
  ASSUME Formed, UNCHANGED objs
  PROVE  Grown
  BY DEF Grown, Grows, SameDB

LEMMA ConnectedFormed ==
  ASSUME Formed, Connected
  PROVE  Formed' /\ Grown
  <1>1. dial \in DOMAIN objs /\ HeapOK(objs)
    BY DEF Formed, Connected
  <1>2. objs' = Completed(objs, dial)
    BY DEF Connected
  <1>3. /\ HeapOK(objs') /\ DOMAIN objs' = DOMAIN objs /\ objs'[dial].sep # ""
        /\ Grows(objs, objs') /\ SameDB(objs, objs')
    BY <1>1, <1>2, Completes
  <1>4. CfgOK(cfg, objs')
    BY <1>3, Serves
  <1>5. PICK v : conn' = [p |-> dial, made |-> objs[dial], via |-> v]
    BY DEF Connected
  <1>6. ConnOK(conn', objs')
    BY <1>1, <1>3, <1>5 DEF ConnOK
  <1>7. UNCHANGED <<file, up, cfg, form>> /\ dial' = None /\ up
    BY DEF Connected, Disk, Formed
  <1> QED
    BY <1>3, <1>4, <1>6, <1>7 DEF Formed, Grown

LEMMA SwitchDBFormed ==
  ASSUME Formed, NEW d, SwitchDB(d)
  PROVE  Formed' /\ Grown
  <1>1. conn.p \in DOMAIN objs /\ HeapOK(objs)
    BY DEF Formed, SwitchDB, ConnOK
  <1>2. PICK g : g = [objs EXCEPT ![conn.p].db = d]
    OBVIOUS
  <1>3. objs' = Completed(g, conn.p)
    BY <1>2 DEF SwitchDB
  <1>4. HeapOK(g) /\ DOMAIN g = DOMAIN objs /\ Grows(objs, g)
    BY <1>1, <1>2, Browses
  <1>5. HeapOK(objs') /\ DOMAIN objs' = DOMAIN g /\ Grows(g, objs')
    BY <1>1, <1>3, <1>4, Completes
  <1>8. Grows(objs, objs')
    BY <1>4, <1>5 DEF Grows
  <1>6. CfgOK(cfg, objs') /\ ConnOK(conn, objs')
    BY <1>8, Serves
  <1>7. UNCHANGED <<file, up, cfg, form, dial, conn>> /\ "browsed" \in past'
    BY DEF SwitchDB, Disk
  <1> QED
    BY <1>4, <1>5, <1>6, <1>7, <1>8 DEF Formed, Grown

\* The steps of the connection manager that do not save.
LEMMA ManagerFormed ==
  ASSUME Formed,
         OpenConnect \/ Close \/ ConnectFails \/ \E n \in NameSet : Select(n) \/ ListConnect(n)
  PROVE  Formed' /\ Grown
  <1>1. CASE OpenConnect
    <2>1. form' = [name |-> "", host |-> "", db |-> 0, ssh |-> None]
      BY <1>1 DEF OpenConnect, BlankForm
    <2>2. FormOK(form')
      BY <2>1 DEF FormOK
    <2> QED
      BY <1>1, <2>2, SameHeap DEF OpenConnect, Disk, Formed
  <1>2. CASE Close \/ ConnectFails
    BY <1>2, SameHeap DEF Close, ConnectFails, Disk, Formed, FormOK
  <1>3. CASE \E n \in NameSet : Select(n)
    <2>1. PICK n \in NameSet : Select(n)
      BY <1>3
    <2>2. n \in DOMAIN cfg.profiles /\ form' = FormOf(objs[cfg.profiles[n]])
      BY <2>1 DEF Select
    <2>3. FormOK(form')
      BY <2>2, FormOfOK DEF Formed
    <2> QED
      BY <2>1, <2>3, SameHeap DEF Select, Disk, Formed
  <1>4. CASE \E n \in NameSet : ListConnect(n)
    <2>1. PICK n \in NameSet : ListConnect(n)
      BY <1>4
    <2>2. dial' \in DOMAIN objs /\ form' = None /\ up
      BY <2>1 DEF ListConnect, Formed, CfgOK
    <2>3. FormOK(form')
      BY <2>2 DEF FormOK
    <2>4. UNCHANGED <<file, up, objs, cfg, conn>>
      BY <2>1 DEF ListConnect, Disk
    <2> QED
      BY <2>2, <2>3, <2>4, SameHeap DEF Formed
  <1> QED
    BY <1>1, <1>2, <1>3, <1>4

\* What the buttons save is formed.
LEMMA SaveFormed ==
  ASSUME Apart, Formed, form # None, NEW f \in Typed, NEW connect, SaveProfile(connect, f)
  PROVE  Formed' /\ Grown
  <1>1. FormOK(f) /\ f.name \in NameSet
    BY TypedOK DEF Formed, SaveProfile
  <1>2. PICK h : h = Append(objs, Collected(f))
    OBVIOUS
  <1>3. PICK c : c = [cfg EXCEPT !.profiles = WithEntry(@, f.name, Len(h))]
    OBVIOUS
  <1>0. HeapOK(objs) /\ CfgOK(cfg, objs)
    BY DEF Formed
  <1>13. Put(h, c, f)
    BY <1>0, <1>1, <1>2, <1>3, Upserted
  <1>4. /\ HeapOK(h) /\ CfgOK(c, h) /\ DOMAIN h = DOMAIN objs \cup {Len(h)}
        /\ \A i \in DOMAIN objs : h[i] = objs[i]
        /\ DOMAIN c.profiles = DOMAIN cfg.profiles \cup {f.name}
    BY <1>13 DEF Put
  <1>5. /\ objs' = h /\ cfg' = c
        /\ \/ /\ SaveWorks(c, h)
              /\ form' = IF connect THEN None ELSE Reloaded(c, h)
              /\ dial' = IF connect THEN Len(h) ELSE dial
           \/ /\ SaveFails(c, h) /\ form' = f /\ UNCHANGED dial
    BY <1>2, <1>3 DEF SaveProfile
  <1>6. FileOK(file')
    BY <1>4, <1>5, SaveKeepsFile DEF Formed
  <1>7. CfgOK(cfg', objs') /\ HeapOK(objs')
    BY <1>4, <1>5
  <1>8. ConnOK(conn, objs')
    BY <1>4, <1>5, Serves DEF Grows
  <1>9. FormOK(form')
    <2>1. FormOK(None)
      BY DEF FormOK
    <2>2. FormOK(Reloaded(c, h))
      BY <1>4, ReloadedOK
    <2> QED
      BY <1>1, <1>5, <2>1, <2>2
  <1>10. dial' # None => dial' \in DOMAIN objs'
    BY <1>4, <1>5 DEF Formed
  <1>11. up /\ UNCHANGED <<up, conn>>
    BY DEF SaveProfile, Formed
  <1>12. Grown
    BY <1>4, <1>5 DEF Grown, Grows, SameDB
  <1> QED
    BY <1>6, <1>7, <1>8, <1>9, <1>10, <1>11, <1>12 DEF Formed

\* A deletion takes one name out of the configuration.
Without(c, d, name) ==
  DOMAIN c.profiles = DOMAIN d.profiles \ {name} /\ \A n \in DOMAIN c.profiles : c.profiles[n] = d.profiles[n]

LEMMA Restricted ==
  ASSUME NEW h, NEW d, CfgOK(d, h), NEW name,
         NEW c, c = [d EXCEPT !.profiles = Restrict(@, DOMAIN @ \ {name})]
  PROVE  CfgOK(c, h) /\ Without(c, d, name)
  <1>1. PICK ps : ps = [n \in DOMAIN d.profiles \ {name} |-> d.profiles[n]]
    OBVIOUS
  <1>2. d = [sep |-> d.sep, profiles |-> d.profiles]
    BY DEF CfgOK
  <1>3. c = [sep |-> d.sep, profiles |-> ps]
    BY <1>1, <1>2 DEF Restrict
  <1>4. c.profiles = ps /\ c.sep = d.sep
    BY <1>3
  <1>5. /\ DOMAIN ps = DOMAIN d.profiles \ {name} /\ \A n \in DOMAIN ps : ps[n] = d.profiles[n]
        /\ DOMAIN ps \subseteq DOMAIN d.profiles
    BY <1>1
  <1>6. c = [sep |-> c.sep, profiles |-> c.profiles]
    BY <1>3, <1>4
  <1> QED
    BY <1>4, <1>5, <1>6 DEF CfgOK, Without

LEMMA DeleteFormed ==
  ASSUME Apart, Formed, form # None, NEW name, DeleteProfile(name)
  PROVE  Formed' /\ Grown
  <1>1. PICK c : c = [cfg EXCEPT !.profiles = Restrict(@, DOMAIN @ \ {name})]
    OBVIOUS
  <1>2. CfgOK(c, objs) /\ HeapOK(objs) /\ FileOK(file)
    BY <1>1, Restricted DEF Formed
  <1>3. cfg' = c /\ (SaveWorks(c, objs) \/ SaveFails(c, objs)) /\ form' = BlankForm
        /\ UNCHANGED <<up, objs, dial, conn>>
    BY <1>1 DEF DeleteProfile
  <1>4. FileOK(file')
    BY <1>2, <1>3, SaveKeepsFile
  <1>5. FormOK(form')
    <2>1. form' = [name |-> "", host |-> "", db |-> 0, ssh |-> None]
      BY <1>3 DEF BlankForm
    <2> QED
      BY <2>1 DEF FormOK
  <1>6. up
    BY DEF Formed
  <1> QED
    BY <1>2, <1>3, <1>4, <1>5, <1>6, SameHeap DEF Formed

LEMMA SettingsFormed ==
  ASSUME Apart, Formed, NEW sep, SaveSettings(sep)
  PROVE  Formed' /\ Grown
  <1>1. PICK c : c = [cfg EXCEPT !.sep = sep]
    OBVIOUS
  <1>2. CfgOK(c, objs) /\ c.profiles = cfg.profiles
    <2>1. cfg = [sep |-> cfg.sep, profiles |-> cfg.profiles] /\ CfgOK(cfg, objs)
      BY DEF CfgOK, Formed
    <2>2. c = [sep |-> sep, profiles |-> cfg.profiles]
      BY <1>1, <2>1
    <2>3. c.sep = sep /\ c.profiles = cfg.profiles
      BY <2>2
    <2> QED
      BY <2>1, <2>2, <2>3 DEF CfgOK
  <1>3. cfg' = c /\ (SaveWorks(c, objs) \/ SaveFails(c, objs)) /\ UNCHANGED <<up, form, dial>> /\ up
    BY <1>1 DEF SaveSettings
  <1>4. FileOK(file') /\ HeapOK(objs)
    BY <1>2, <1>3, SaveKeepsFile DEF Formed
  <1>5. CASE UNCHANGED <<objs, conn>>
    BY <1>2, <1>3, <1>4, <1>5, SameHeap DEF Formed
  <1>6. CASE ~UNCHANGED <<objs, conn>>
    <2>1. PICK p : p = IF objs[conn.p].name \in DOMAIN cfg.profiles THEN cfg.profiles[objs[conn.p].name]
                       ELSE conn.p
      OBVIOUS
    <2>2. conn # None /\ conn' = [conn EXCEPT !.p = p] /\ objs' = Completed(objs, p)
      BY <1>6, <2>1 DEF SaveSettings
    <2>3. p \in DOMAIN objs
      BY <2>1, <2>2 DEF Formed, CfgOK, ConnOK
    <2>4. /\ HeapOK(objs') /\ DOMAIN objs' = DOMAIN objs /\ objs'[p].sep # ""
          /\ Grows(objs, objs') /\ SameDB(objs, objs')
      BY <1>4, <2>2, <2>3, Completes
    <2>5. CfgOK(cfg', objs')
      BY <1>2, <1>3, <2>4 DEF CfgOK, Grows
    <2>6. conn = [p |-> conn.p, made |-> conn.made, via |-> conn.via]
      BY <2>2 DEF Formed, ConnOK
    <2>7. conn' = [p |-> p, made |-> conn.made, via |-> conn.via]
      BY <2>2, <2>6
    <2>8. ConnOK(conn', objs')
      BY <2>3, <2>4, <2>7 DEF ConnOK
    <2> QED
      BY <1>3, <1>4, <2>4, <2>5, <2>8 DEF Formed, Grown
  <1> QED
    BY <1>5, <1>6

\* Every step keeps what is formed; all but a start or an end let the heap grow.
LEMMA NextFormed ==
  ASSUME Apart, Formed, Next
  PROVE  Formed' /\ (Start \/ Quit \/ CrashInSave \/ Grown)
  <1>1. CASE Start
    BY <1>1, StartFormed
  <1>2. CASE Quit
    BY <1>2, StopFormed DEF Quit, Disk, Formed
  <1>3. CASE CrashInSave
    <2>1. FileOK(file')
      BY <1>3, PartOK DEF CrashInSave, Formed
    <2> QED
      BY <1>3, <2>1, StopFormed DEF CrashInSave
  <1>4. CASE Connected
    BY <1>4, ConnectedFormed
  <1>5. CASE OpenConnect \/ Close \/ ConnectFails \/ \E n \in NameSet : Select(n) \/ ListConnect(n)
    BY <1>5, ManagerFormed
  <1>6. CASE \E d \in DBs : SwitchDB(d)
    BY <1>6, SwitchDBFormed
  <1>7. CASE form # None /\ \E connect \in BOOLEAN, f \in Typed : SaveProfile(connect, f)
    BY <1>7, SaveFormed
  <1>8. CASE form # None /\ \E name \in NameSet \cup {form.name} : DeleteProfile(name)
    BY <1>8, DeleteFormed
  <1>9. CASE \E sep \in Seps : SaveSettings(sep)
    BY <1>9, SettingsFormed
  <1> QED
    BY <1>1, <1>2, <1>3, <1>4, <1>5, <1>6, <1>7, <1>8, <1>9 DEF Next

----------------------------------------------------------------------------
(* The connection and its profile.                                         *)

\* One step per action: only the settings swap the profile, and say so.
LEMMA SameProfile ==
  ASSUME Apart, Formed, ProfileIsClients, Next
  PROVE  ProfileIsClients'
  <1> SUFFICES ASSUME conn' # None, "swapped" \notin past'
               PROVE  objs'[conn'.p].host = conn'.made.host
    BY DEF ProfileIsClients
  <1>1. CASE Start \/ Quit \/ CrashInSave
    BY <1>1 DEF Start, Quit, CrashInSave, Stop, Formed
  <1>2. CASE ~(Start \/ Quit \/ CrashInSave)
    <2>1. Grows(objs, objs')
      BY <1>2, NextFormed DEF Grown
    <2>2. CASE Connected
      <3>1. PICK v : conn' = [p |-> dial, made |-> objs[dial], via |-> v]
        BY <2>2 DEF Connected
      <3>2. conn'.p = dial /\ conn'.made = objs[dial] /\ dial \in DOMAIN objs
        BY <2>2, <3>1 DEF Connected, Formed
      <3> QED
        BY <2>1, <3>2 DEF Grows
    <2>3. CASE UNCHANGED conn /\ (UNCHANGED past \/ \E x : past' = past \cup {x})
      <3>1. conn # None /\ "swapped" \notin past /\ conn.p \in DOMAIN objs
        BY <2>3 DEF Formed, ConnOK
      <3>2. objs[conn.p].host = conn.made.host
        BY <3>1 DEF ProfileIsClients
      <3> QED
        BY <2>1, <2>3, <3>1, <3>2 DEF Grows
    <2>4. CASE \E sep \in Seps : SaveSettings(sep)
      <3>1. PICK sep \in Seps : SaveSettings(sep)
        BY <2>4
      <3>2. CASE UNCHANGED conn
        <4>1. conn # None /\ "swapped" \notin past /\ conn.p \in DOMAIN objs
          BY <3>1, <3>2 DEF SaveSettings, Formed, ConnOK
        <4>2. objs[conn.p].host = conn.made.host
          BY <4>1 DEF ProfileIsClients
        <4> QED
          BY <2>1, <3>2, <4>1, <4>2 DEF Grows
      <3>3. CASE ~UNCHANGED conn
        <4>1. PICK p : /\ conn # None /\ conn' = [conn EXCEPT !.p = p]
                       /\ past' = past \cup (IF p # conn.p THEN {"swapped"} ELSE {})
          BY <3>1, <3>3 DEF SaveSettings
        <4>2. p = conn.p
          BY <4>1
        <4>3. conn = [p |-> conn.p, made |-> conn.made, via |-> conn.via]
          BY <4>1 DEF Formed, ConnOK
        <4>4. conn' = conn
          BY <4>1, <4>2, <4>3
        <4> QED
          BY <3>3, <4>4
      <3> QED
        BY <3>2, <3>3
    <2>5. \/ Connected \/ \E sep \in Seps : SaveSettings(sep)
          \/ UNCHANGED conn /\ (UNCHANGED past \/ \E x : past' = past \cup {x})
      BY <1>2 DEF Next, ConnectFails, SwitchDB, OpenConnect, Close, Select, ListConnect, SaveProfile, DeleteProfile
    <2> QED
      BY <2>2, <2>3, <2>4, <2>5
  <1> QED
    BY <1>1, <1>2

----------------------------------------------------------------------------
(* What the user has entered.  b says whether browsing may have changed it. *)

KeptAs(q, w, b) ==
  /\ q.host = w.host /\ (q.ssh = None <=> w.ssh = None)
  /\ q.db = w.db \/ b
  /\ w.sep # "" => q.sep = w.sep

InFile(f, w, b) ==
  /\ f \notin {Empty, Torn} /\ DOMAIN f.profiles = DOMAIN w
  /\ \A n \in DOMAIN w : KeptAs(f.profiles[n], w[n], b)
InMemory(c, h, w, b) ==
  /\ DOMAIN c.profiles = DOMAIN w
  /\ \A n \in DOMAIN w : KeptAs(h[c.profiles[n]], w[n], b)

\* A restart needs the file, and the next save what is in memory.
Entered ==
  "save cut short" \notin past =>
    /\ InFile(file, wanted, "browsed" \in past)
    /\ up => InMemory(cfg, objs, wanted, "browsed" \in past)

\* What is in memory is in the file once it is saved.
LEMMA MemorySaved ==
  ASSUME Apart, NEW h, HeapOK(h), NEW c, CfgOK(c, h), NEW w, NEW b, InMemory(c, h, w, b)
  PROVE  InFile(Saved(c, h), w, b)
  <1>1. PICK x : x = Saved(c, h)
    OBVIOUS
  <1>2. /\ x \notin {Empty, Torn} /\ DOMAIN x.profiles = DOMAIN c.profiles
        /\ \A n \in DOMAIN c.profiles : x.profiles[n] = h[c.profiles[n]]
    BY <1>1, SavedIs
  <1> QED
    BY <1>1, <1>2 DEF InFile, InMemory

\* A heap that has grown says the same.
LEMMA MemoryGrows ==
  ASSUME Formed, NEW w, InMemory(cfg, objs, w, "browsed" \in past), "browsed" \in past => "browsed" \in past',
         Grown
  PROVE  InMemory(cfg, objs', w, "browsed" \in past')
  BY DEF Formed, CfgOK, InMemory, KeptAs, Grown, Grows, SameDB

LEMMA InitEntered == Init => Entered
  <1> SUFFICES ASSUME Init PROVE Entered
    OBVIOUS
  <1>1. file \in Files /\ wanted = file.profiles /\ up = FALSE
    BY DEF Init
  <1>2. file \notin {Empty, Torn}
    BY <1>1, ProfilesAssumption
  <1>3. InFile(file, wanted, "browsed" \in past)
    BY <1>1, <1>2 DEF InFile, KeptAs
  <1> QED
    BY <1>1, <1>3 DEF Entered

LEMMA StartEntered ==
  ASSUME Apart, Formed, Entered, Start
  PROVE  Entered'
  <1>0. UNCHANGED <<file, wanted, past>>
    BY DEF Start, Disk
  <1> SUFFICES ASSUME "save cut short" \notin past
               PROVE  InFile(file, wanted, "browsed" \in past)
                      /\ InMemory(cfg', objs', wanted, "browsed" \in past)
    BY <1>0 DEF Entered
  <1>1. InFile(file, wanted, "browsed" \in past)
    BY DEF Entered
  <1>2. Stored = file /\ FileOK(file) /\ file # Torn
    BY <1>1 DEF Stored, InFile, Formed
  <1>3. PICK h : Reads(cfg', h) /\ Begins(h)
    BY StartReads
  <1>6. /\ HeapOK(h) /\ CfgOK(cfg', h) /\ DOMAIN cfg'.profiles = DOMAIN Stored.profiles
        /\ \A n \in DOMAIN Stored.profiles : Filled(h[cfg'.profiles[n]], Stored.profiles[n])
    BY <1>3 DEF Reads
  <1>7. \A i \in DOMAIN h : objs'[i] = h[i]
    BY <1>3, <1>6, BeginsWith
  <1>8. \A n \in DOMAIN wanted : KeptAs(objs'[cfg'.profiles[n]], wanted[n], "browsed" \in past)
    <2> TAKE n \in DOMAIN wanted
    <2>1. KeptAs(file.profiles[n], wanted[n], "browsed" \in past) /\ n \in DOMAIN file.profiles
      BY <1>1 DEF InFile
    <2>2. cfg'.profiles[n] \in DOMAIN h /\ Filled(h[cfg'.profiles[n]], file.profiles[n])
      BY <1>2, <1>6, <2>1 DEF CfgOK
    <2>3. Filled(objs'[cfg'.profiles[n]], file.profiles[n])
      BY <1>7, <2>2
    <2> QED
      BY <2>1, <2>3 DEF KeptAs, Filled
  <1>9. DOMAIN cfg'.profiles = DOMAIN wanted
    BY <1>1, <1>2, <1>6 DEF InFile
  <1> QED
    BY <1>1, <1>8, <1>9 DEF InMemory

LEMMA SaveEntered ==
  ASSUME Apart, Formed, Entered, form # None, NEW f \in Typed, NEW connect, SaveProfile(connect, f)
  PROVE  Entered'
  <1>1. f.name \in NameSet
    BY TypedOK DEF Formed, SaveProfile
  <1>2. PICK h : h = Append(objs, Collected(f))
    OBVIOUS
  <1>3. PICK c : c = [cfg EXCEPT !.profiles = WithEntry(@, f.name, Len(h))]
    OBVIOUS
  <1>0. HeapOK(objs) /\ CfgOK(cfg, objs)
    BY DEF Formed
  <1>11. Put(h, c, f)
    BY <1>0, <1>1, <1>2, <1>3, Upserted
  <1>4. /\ HeapOK(h) /\ CfgOK(c, h)
        /\ \A i \in DOMAIN objs : h[i] = objs[i]
        /\ h[Len(h)] = Collected(f)
        /\ DOMAIN c.profiles = DOMAIN cfg.profiles \cup {f.name}
        /\ c.profiles[f.name] = Len(h)
        /\ \A n \in DOMAIN cfg.profiles \ {f.name} : c.profiles[n] = cfg.profiles[n]
    BY <1>11 DEF Put
  <1>5. /\ objs' = h /\ cfg' = c /\ wanted' = WithEntry(wanted, f.name, Collected(f)) /\ up /\ up'
        /\ \/ SaveWorks(c, h) /\ past' = past
           \/ past' = past \cup {"save cut short"}
    BY <1>2, <1>3 DEF SaveProfile, Formed
  <1> SUFFICES ASSUME "save cut short" \notin past'
               PROVE  InFile(file', wanted', "browsed" \in past')
                      /\ InMemory(cfg', objs', wanted', "browsed" \in past')
    BY DEF Entered
  <1>6. file' = Saved(c, h) /\ past' = past
    BY <1>5 DEF SaveWorks
  <1>7. InMemory(cfg, objs, wanted, "browsed" \in past)
    BY <1>5, <1>6 DEF Entered
  <1>8. /\ DOMAIN wanted' = DOMAIN wanted \cup {f.name} /\ wanted'[f.name] = Collected(f)
        /\ \A n \in DOMAIN wanted \ {f.name} : wanted'[n] = wanted[n]
    BY <1>5 DEF WithEntry
  <1>9. \A n \in DOMAIN wanted' : KeptAs(h[c.profiles[n]], wanted'[n], "browsed" \in past)
    <2> TAKE n \in DOMAIN wanted'
    <2>1. CASE n = f.name
      <3>1. h[c.profiles[n]] = wanted'[n]
        BY <1>4, <1>8, <2>1
      <3> QED
        BY <3>1 DEF KeptAs
    <2>2. CASE n # f.name
      <3>1. n \in DOMAIN wanted \ {f.name} /\ n \in DOMAIN cfg.profiles \ {f.name}
        BY <1>7, <1>8, <2>2 DEF InMemory
      <3>2. c.profiles[n] = cfg.profiles[n] /\ cfg.profiles[n] \in DOMAIN objs
        BY <1>4, <3>1 DEF Formed, CfgOK
      <3>3. h[c.profiles[n]] = objs[cfg.profiles[n]] /\ wanted'[n] = wanted[n]
        BY <1>4, <1>8, <3>1, <3>2
      <3> QED
        BY <1>7, <3>1, <3>3 DEF InMemory
    <2> QED
      BY <2>1, <2>2
  <1>10. InMemory(c, h, wanted', "browsed" \in past)
    BY <1>4, <1>7, <1>8, <1>9 DEF InMemory
  <1> QED
    BY <1>4, <1>5, <1>6, <1>10, MemorySaved

LEMMA DeleteEntered ==
  ASSUME Apart, Formed, Entered, form # None, NEW name, DeleteProfile(name)
  PROVE  Entered'
  <1>1. PICK c : c = [cfg EXCEPT !.profiles = Restrict(@, DOMAIN @ \ {name})]
    OBVIOUS
  <1>0. CfgOK(cfg, objs) /\ HeapOK(objs)
    BY DEF Formed
  <1>4. CfgOK(c, objs) /\ Without(c, cfg, name)
    BY <1>0, <1>1, Restricted
  <1>2. /\ CfgOK(c, objs) /\ DOMAIN c.profiles = DOMAIN cfg.profiles \ {name}
        /\ \A n \in DOMAIN c.profiles : c.profiles[n] = cfg.profiles[n]
    BY <1>4 DEF Without
  <1>3. /\ cfg' = c /\ UNCHANGED <<up, objs>> /\ up
        /\ wanted' = [n \in DOMAIN wanted \ {name} |-> wanted[n]]
        /\ \/ SaveWorks(c, objs) /\ past' = past
           \/ past' = past \cup {"save cut short"}
    BY <1>1 DEF DeleteProfile, Formed, Restrict
  <1> SUFFICES ASSUME "save cut short" \notin past'
               PROVE  InFile(file', wanted', "browsed" \in past')
                      /\ InMemory(cfg', objs', wanted', "browsed" \in past')
    BY DEF Entered
  <1>6. file' = Saved(c, objs) /\ past' = past
    BY <1>3 DEF SaveWorks
  <1>7. InMemory(cfg, objs, wanted, "browsed" \in past)
    BY <1>3, <1>6 DEF Entered
  <1>8. InMemory(c, objs, wanted', "browsed" \in past)
    BY <1>2, <1>3, <1>7 DEF InMemory
  <1> QED
    BY <1>0, <1>2, <1>3, <1>6, <1>8, MemorySaved

LEMMA SettingsEntered ==
  ASSUME Apart, Formed, Entered, NEW sep, SaveSettings(sep)
  PROVE  Entered'
  <1>1. PICK c : c = [cfg EXCEPT !.sep = sep]
    OBVIOUS
  <1>2. CfgOK(c, objs) /\ c.profiles = cfg.profiles /\ HeapOK(objs)
    <2>1. cfg = [sep |-> cfg.sep, profiles |-> cfg.profiles] /\ CfgOK(cfg, objs) /\ HeapOK(objs)
      BY DEF CfgOK, Formed
    <2>2. c = [sep |-> sep, profiles |-> cfg.profiles]
      BY <1>1, <2>1
    <2>3. c.sep = sep /\ c.profiles = cfg.profiles
      BY <2>2
    <2> QED
      BY <2>1, <2>2, <2>3 DEF CfgOK
  <1>3. /\ cfg' = c /\ UNCHANGED wanted /\ up
        /\ \/ SaveWorks(c, objs) \/ past' = past \cup {"save cut short"}
    BY <1>1 DEF SaveSettings
  <1> SUFFICES ASSUME "save cut short" \notin past'
               PROVE  InFile(file', wanted', "browsed" \in past')
                      /\ InMemory(cfg', objs', wanted', "browsed" \in past')
    BY DEF Entered
  <1>4. file' = Saved(c, objs)
    BY <1>3 DEF SaveWorks
  <1>5. past' = past \/ past' = past \cup {"swapped"} \/ past' = past \cup {} \/ past' = past \cup {"save cut short"}
    BY DEF SaveSettings
  <1>6. "save cut short" \notin past /\ ("browsed" \in past' <=> "browsed" \in past)
    BY <1>5
  <1>7. InMemory(cfg, objs, wanted, "browsed" \in past)
    BY <1>3, <1>6 DEF Entered
  <1>8. InMemory(c, objs, wanted, "browsed" \in past)
    BY <1>2, <1>7 DEF InMemory
  <1>9. InFile(file', wanted, "browsed" \in past)
    BY <1>2, <1>4, <1>8, MemorySaved
  <1>10. Grown
    BY SettingsFormed
  <1>11. InMemory(cfg, objs', wanted, "browsed" \in past')
    BY <1>6, <1>7, <1>10, MemoryGrows
  <1>12. InMemory(cfg', objs', wanted, "browsed" \in past')
    BY <1>2, <1>3, <1>11 DEF InMemory
  <1>13. InFile(file', wanted, "browsed" \in past')
    BY <1>6, <1>9 DEF InFile, KeptAs
  <1> QED
    BY <1>3, <1>12, <1>13

\* The steps that write neither the file nor the configuration.
LEMMA OtherEntered ==
  ASSUME Apart, Formed, Entered, Grown, UNCHANGED <<file, wanted, up, cfg>>,
         past' \in {past, past \ {"swapped"}, past \cup {"browsed"}}
  PROVE  Entered'
  <1> SUFFICES ASSUME "save cut short" \notin past'
               PROVE  InFile(file, wanted, "browsed" \in past')
                      /\ (up => InMemory(cfg, objs', wanted, "browsed" \in past'))
    BY DEF Entered
  <1>1. "save cut short" \notin past /\ ("browsed" \in past => "browsed" \in past')
    OBVIOUS
  <1>2. InFile(file, wanted, "browsed" \in past')
    BY <1>1 DEF Entered, InFile, KeptAs
  <1>3. up => InMemory(cfg, objs', wanted, "browsed" \in past')
    BY <1>1, MemoryGrows DEF Entered
  <1> QED
    BY <1>2, <1>3

LEMMA NextEntered ==
  ASSUME Apart, Formed, Entered, Next
  PROVE  Entered'
  <1>1. CASE Start
    BY <1>1, StartEntered
  <1>2. CASE Quit
    BY <1>2 DEF Quit, Stop, Disk, Entered
  <1>3. CASE CrashInSave
    BY <1>3 DEF CrashInSave, Entered
  <1>7. CASE form # None /\ \E connect \in BOOLEAN, f \in Typed : SaveProfile(connect, f)
    BY <1>7, SaveEntered
  <1>8. CASE form # None /\ \E name \in NameSet \cup {form.name} : DeleteProfile(name)
    BY <1>8, DeleteEntered
  <1>9. CASE \E sep \in Seps : SaveSettings(sep)
    BY <1>9, SettingsEntered
  <1>4. CASE Connected \/ ConnectFails \/ (\E d \in DBs : SwitchDB(d)) \/ OpenConnect \/ Close
             \/ \E n \in NameSet : Select(n) \/ ListConnect(n)
    <2>1. Grown
      BY <1>4, ConnectedFormed, SwitchDBFormed, ManagerFormed
    <2>2. UNCHANGED <<file, wanted, up, cfg>> /\ past' \in {past, past \ {"swapped"}, past \cup {"browsed"}}
      BY <1>4 DEF Connected, ConnectFails, SwitchDB, OpenConnect, Close, Select, ListConnect, Disk
    <2> QED
      BY <2>1, <2>2, OtherEntered
  <1> QED
    BY <1>1, <1>2, <1>3, <1>4, <1>7, <1>8, <1>9 DEF Next

----------------------------------------------------------------------------
(* The tunnel.                                                             *)

Tunnelled == sshFile \in SSHFiles /\ (conn # None => conn.via = Via(conn.made))

LEMMA NextTunnelled ==
  ASSUME Apart, Formed, Tunnelled, Next
  PROVE  Tunnelled'
  <1>1. UNCHANGED sshFile
    BY DEF Next, Start, Quit, CrashInSave, Connected, ConnectFails, SwitchDB, OpenConnect, Close, Select,
           ListConnect, SaveProfile, DeleteProfile, SaveSettings, Disk
  <1> SUFFICES ASSUME conn' # None PROVE conn'.via = Via(conn'.made)
    BY <1>1 DEF Tunnelled, Via
  <1>2. CASE Connected
    <2>1. conn' = [p |-> dial, made |-> objs[dial], via |-> Via(objs[dial])]
      BY <1>2 DEF Connected
    <2>2. conn'.via = Via(objs[dial]) /\ conn'.made = objs[dial]
      BY <2>1
    <2> QED
      BY <2>2
  <1>3. CASE UNCHANGED conn
    BY <1>3 DEF Tunnelled
  <1>4. CASE \E sep \in Seps : SaveSettings(sep) /\ ~UNCHANGED conn
    <2>1. PICK p : conn # None /\ conn' = [conn EXCEPT !.p = p]
      BY <1>4 DEF SaveSettings
    <2>2. conn = [p |-> conn.p, made |-> conn.made, via |-> conn.via]
      BY <2>1 DEF Formed, ConnOK
    <2>3. conn'.made = conn.made /\ conn'.via = conn.via
      BY <2>1, <2>2
    <2> QED
      BY <2>1, <2>3 DEF Tunnelled
  <1>5. Connected \/ UNCHANGED conn \/ \E sep \in Seps : SaveSettings(sep)
    BY DEF Next, Start, Quit, CrashInSave, Stop, ConnectFails, SwitchDB, OpenConnect, Close, Select,
           ListConnect, SaveProfile, DeleteProfile, Formed
  <1> QED
    BY <1>2, <1>3, <1>4, <1>5

\* The code's patterns mean what OpenSSH's mean, for the jump host in use.
PatternsMeant == conn # None /\ conn.via # None => PatternsAgree(sshFile, conn.made.ssh.host)

\* The tunnel of a connection, by the lookup, is the one by the first lines.
LEMMA TunnelledIsFirst ==
  ASSUME Tunnelled, PatternsMeant
  PROVE  TunnelIsFirstMatch
  <1> SUFFICES ASSUME conn # None, conn.via # None
               PROVE  LET first == FirstTunnel(sshFile, conn.made.ssh)
                      IN  /\ conn.via.user = first.user /\ conn.via.key = first.key
                          /\ conn.via.host = first.host \/ first.host = conn.made.ssh.host
                          /\ conn.via.port = first.port
                             \/ First(sshFile, conn.made.ssh.host, "port") \notin DOMAIN PortOf \cup {Unset}
    BY DEF TunnelIsFirstMatch
  <1>1. PICK ssh : ssh = conn.made.ssh
    OBVIOUS
  <1>2. PICK a : a = ssh.host
    OBVIOUS
  <1>3. conn.via = Tunnel(sshFile, ssh)
    BY <1>1 DEF Tunnelled, Via
  <1>4. Len(sshFile) \in Nat /\ DOMAIN sshFile = 1 .. Len(sshFile)
    <2>1. sshFile \in Seq(Range(sshFile))
      BY ProfilesAssumption DEF Tunnelled
    <2> QED
      BY <2>1
  <1>5. PICK found : found = LookupSSH(sshFile, a)
    OBVIOUS
  <1>6. PatternsAgree(sshFile, a)
    BY <1>1, <1>2 DEF PatternsMeant
  <1>7. /\ found.user = First(sshFile, a, "user")
        /\ found.identityfile = First(sshFile, a, "identityfile")
        /\ First(sshFile, a, "hostname") \in {Unset, a} \/ found.hostname = First(sshFile, a, "hostname")
        /\ First(sshFile, a, "hostname") = Unset => found.hostname = a
        /\ First(sshFile, a, "port") = Unset => found.port = 0
        /\ First(sshFile, a, "port") \in DOMAIN PortOf => found.port = PortOf[First(sshFile, a, "port")]
    BY <1>4, <1>5, <1>6, LookupIsFirst
  <1>8. PICK via : via = conn.via
    OBVIOUS
  <1>9. /\ via.host = found.hostname
        /\ via.user = IF ssh.user # Unset THEN ssh.user ELSE found.user
        /\ via.port = IF ssh.port # 0 THEN ssh.port ELSE IF found.port # 0 THEN found.port ELSE 22
        /\ via.key = IF ssh.key # Unset THEN ssh.key ELSE found.identityfile
    BY <1>2, <1>3, <1>5, <1>8 DEF Tunnel
  <1>10. PICK first : first = FirstTunnel(sshFile, ssh)
    OBVIOUS
  <1>11. /\ first.host = IF First(sshFile, a, "hostname") = Unset THEN a ELSE First(sshFile, a, "hostname")
         /\ first.user = IF ssh.user # Unset THEN ssh.user ELSE First(sshFile, a, "user")
         /\ first.port = IF ssh.port # 0 THEN ssh.port
                         ELSE IF First(sshFile, a, "port") \in DOMAIN PortOf
                              THEN PortOf[First(sshFile, a, "port")] ELSE 22
         /\ first.key = IF ssh.key # Unset THEN ssh.key ELSE First(sshFile, a, "identityfile")
    BY <1>2, <1>10 DEF FirstTunnel
  <1>12. via.user = first.user /\ via.key = first.key /\ (via.host = first.host \/ first.host = a)
    BY <1>7, <1>9, <1>11
  <1>13. via.port = first.port \/ First(sshFile, a, "port") \notin DOMAIN PortOf \cup {Unset}
    <2>1. CASE First(sshFile, a, "port") = Unset
      BY <1>7, <1>9, <1>11, <2>1, SshConfigAssumption
    <2>2. CASE First(sshFile, a, "port") \in DOMAIN PortOf
      <3>1. PICK q : q = PortOf[First(sshFile, a, "port")]
        OBVIOUS
      <3>2. q # 0 /\ found.port = q
        BY <1>7, <2>2, <3>1, SshConfigAssumption
      <3> QED
        BY <1>9, <1>11, <2>2, <3>1, <3>2
    <2> QED
      BY <2>1, <2>2
  <1> QED
    BY <1>1, <1>2, <1>8, <1>10, <1>12, <1>13

----------------------------------------------------------------------------
(* The theorems.                                                           *)

\* The inductive invariant.
IInv == Formed /\ ProfileIsClients /\ Entered /\ Tunnelled

\* Whatever is entered, saved, deleted, connected and cut short: what is in use
\* is well formed, and memory and file say what the user entered.
THEOREM ProfilesInvariant ==
  ASSUME Apart
  PROVE  Spec => []IInv
  <1>1. Init => IInv
    <2> SUFFICES ASSUME Init PROVE IInv
      OBVIOUS
    <2>1. ProfileIsClients /\ Tunnelled
      BY DEF Init, ProfileIsClients, Tunnelled
    <2> QED
      BY <2>1, InitFormed, InitEntered DEF IInv
  <1>2. IInv /\ [Next]_vars => IInv'
    <2> SUFFICES ASSUME IInv, [Next]_vars PROVE IInv'
      OBVIOUS
    <2>1. CASE Next
      BY <2>1, NextFormed, SameProfile, NextEntered, NextTunnelled DEF IInv
    <2>2. CASE UNCHANGED vars
      <3>1. UNCHANGED <<file, sshFile, up, objs, cfg, form, dial, conn, wanted, past>>
        BY <2>2 DEF vars
      <3> QED
        BY <3>1 DEF IInv, Formed, ProfileIsClients, Entered, Tunnelled, Via
    <2> QED
      BY <2>1, <2>2
  <1> QED
    BY <1>1, <1>2, PTL DEF Spec

\* Every pointer points to an object, and every name is that of its object.
THEOREM TypeCorrect ==
  ASSUME Apart
  PROVE  Spec => []TypeOK
  <1>1. IInv => TypeOK
    BY DEF IInv, Formed, CfgOK, ConnOK, TypeOK
  <1> QED
    BY <1>1, ProfilesInvariant, PTL

\* The panes show the profile that the client was made with, until the
\* settings swap it.
THEOREM KeepsItsProfile ==
  ASSUME Apart
  PROVE  Spec => []ProfileIsClients
  <1>1. IInv => ProfileIsClients
    BY DEF IInv
  <1> QED
    BY <1>1, ProfilesInvariant, PTL

\* What the user has entered is in the file at every moment, unless a save was
\* cut short.
THEOREM StoresWhatIsEntered ==
  ASSUME Apart
  PROVE  Spec => []EnteredIsStored
  <1>1. IInv => EnteredIsStored
    BY DEF IInv, Entered, InFile, KeptAs, EnteredIsStored, Parsed
  <1> QED
    BY <1>1, ProfilesInvariant, PTL

\* Whenever the patterns of ~/.ssh/config mean for the jump host what they mean
\* to OpenSSH, the tunnel goes where the first line that applies says.
THEOREM TunnelsByFirstMatch ==
  ASSUME Apart
  PROVE  Spec => [](PatternsMeant => TunnelIsFirstMatch)
  <1>1. IInv => (PatternsMeant => TunnelIsFirstMatch)
    BY TunnelledIsFirst DEF IInv
  <1> QED
    BY <1>1, ProfilesInvariant, PTL
=============================================================================
