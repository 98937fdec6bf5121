---------------------------- MODULE ScanSession ----------------------------
(***************************************************************************)
(* The key-discovery sessions of tedis: app/keys.go (resetScan, startScanF,*)
(* the goroutine around scanner.Scan), the key-level mutations of          *)
(* app/keyops.go (deleteKey, dropKeyLocal, renameKey, runAsync) and the    *)
(* part of app/connect.go that replaces the connection.                    *)
(*                                                                         *)
(* One UI goroutine owns all application state and runs closures handed to *)
(* QueueUpdateDraw one at a time; QueueUpdateDraw blocks its caller until  *)
(* the closure ran, so a goroutine never has two closures waiting.  Each   *)
(* scan and each mutation is a goroutine with a program counter; an action *)
(* is what it does between two points where another goroutine can run.     *)
(*                                                                         *)
(* Session cur is a.scan; a session s < cur has been cancelled, because    *)
(* only resetScan cancels and it installs the next session at once.        *)
(* Client Len(home) is a.rc; every earlier client has been closed.         *)
(***************************************************************************)
EXTENDS Integers, Sequences, FiniteSets

CONSTANTS
  Keys,         \* key names
  Patterns,     \* MATCH patterns the user can ask for
  All,          \* the pattern "*"
  Match,        \* Match[p]: the keys pattern p selects
  Profiles,     \* connection profiles, each with a server of its own
  SkipConfirm,  \* profiles with SkipDeleteConfirm set
  Starts,       \* what the servers may hold at the start
  Slots,        \* mutation goroutines, one use each
  MaxSessions,  \* bound: scan sessions started
  MaxConns,     \* bound: connections made
  MaxEnv        \* bound: keys other clients add or remove

ASSUME ConstantsAssumption ==
  /\ All \in Patterns
  /\ Match \in [Patterns -> SUBSET Keys]
  /\ SkipConfirm \subseteq Profiles
  /\ Starts \subseteq [Profiles -> SUBSET Keys]
  /\ MaxSessions \in Nat
  /\ MaxConns \in Nat
  /\ MaxEnv \in Nat

Sessions == 1 .. MaxSessions
NoClient == 0

VARIABLES
  store,     \* the keys each profile's server holds
  env,       \* changes other clients have made so far
  home,      \* home[i]: the profile of the i-th client connected
  cur,       \* the session a.scan points to, 0 before the first
  pat,       \* scanState.pattern
  cli,       \* the client the scan goroutine captured
  pc,        \* where the scan goroutine is
  got,       \* the batch its closure will add
  last,      \* the reply carried cursor 0
  failed,    \* Scan returned an error
  done,      \* scanState.done
  seen,      \* scanState.seen
  rows,      \* scanState.keys, as the number of rows each key has
  tree,      \* the keys indexed in scanState.tree
  title,     \* the session that wrote the key pane's title
  ask,       \* the open delete or rename dialog
  mut,       \* the mutation goroutines
  held,      \* history of cur: on the server without a break since it began
  returned,  \* history of cur: keys SCAN has returned to it
  touched,   \* history of cur: keys a mutation took off its list
  named      \* history of cur: keys a rename put on its list

server == <<store, env>>
scans  == <<pat, cli, pc, got, last, failed, done>>
lists  == <<seen, rows, tree>>
hist   == <<held, returned, touched, named>>
vars   == <<server, home, cur, scans, lists, hist, title, ask, mut>>

----------------------------------------------------------------------------
(* The connection and the visible list.                                    *)

rc == Len(home)
SpaceOf(s) == home[cli[s]]
Listed(s) == {k \in Keys : rows[s][k] > 0}
Cancelled(s) == s < cur

NoAsk == [kind |-> "none", key |-> {}, cli |-> NoClient]
Asks == [kind : {"del", "ren"}, key : Keys, cli : Nat] \cup {NoAsk}

FreeMut == [st |-> "free", kind |-> "none", key |-> {}, name |-> {}, cli |-> NoClient]
Muts == [st : {"sent", "ok", "over"}, kind : {"del", "ren"},
         key : Keys, name : Keys, cli : Nat] \cup {FreeMut}

TypeOK ==
  /\ store \in [Profiles -> SUBSET Keys]
  /\ env \in Nat
  /\ home \in Seq(Profiles)
  /\ cur \in 0 .. MaxSessions
  /\ pat \in [Sessions -> Patterns]
  /\ cli \in [Sessions -> Nat]
  /\ pc \in [Sessions -> {"new", "scan", "batch", "check", "finish", "over"}]
  /\ got \in [Sessions -> SUBSET Keys]
  /\ last \in [Sessions -> BOOLEAN]
  /\ failed \in [Sessions -> BOOLEAN]
  /\ done \in [Sessions -> BOOLEAN]
  /\ seen \in [Sessions -> SUBSET Keys]
  /\ rows \in [Sessions -> [Keys -> Nat]]
  /\ tree \in [Sessions -> SUBSET Keys]
  /\ title \in 0 .. MaxSessions
  /\ ask \in Asks
  /\ mut \in [Slots -> Muts]
  /\ held \subseteq Keys
  /\ returned \subseteq Keys
  /\ touched \subseteq Keys
  /\ named \subseteq Keys

Init ==
  /\ store \in Starts
  /\ env = 0
  /\ home = << >>
  /\ cur = 0
  /\ pat = [s \in Sessions |-> All]
  /\ cli = [s \in Sessions |-> NoClient]
  /\ pc = [s \in Sessions |-> "new"]
  /\ got = [s \in Sessions |-> {}]
  /\ last = [s \in Sessions |-> FALSE]
  /\ failed = [s \in Sessions |-> FALSE]
  /\ done = [s \in Sessions |-> FALSE]
  /\ seen = [s \in Sessions |-> {}]
  /\ rows = [s \in Sessions |-> [k \in Keys |-> 0]]
  /\ tree = [s \in Sessions |-> {}]
  /\ title = 0
  /\ ask = NoAsk
  /\ mut = [m \in Slots |-> FreeMut]
  /\ held = {}
  /\ returned = {}
  /\ touched = {}
  /\ named = {}

----------------------------------------------------------------------------
(* Starting a session: resetScan installs a fresh scanState and cancels    *)
(* the old one, the title changes, the goroutine starts on client c.       *)

Begin(p, c, profile) ==
  /\ cur < MaxSessions
  /\ cur' = cur + 1
  /\ pat' = [pat EXCEPT ![cur + 1] = p]
  /\ cli' = [cli EXCEPT ![cur + 1] = c]
  /\ pc' = [pc EXCEPT ![cur + 1] = "scan"]
  /\ title' = cur + 1
  /\ held' = store[profile] \cap Match[p]
  /\ returned' = {}
  /\ touched' = {}
  /\ named' = {}
  /\ UNCHANGED <<got, last, failed, done>>

\* r, the filter bar and Enter on the namespace tree, with no dialog open.
StartScan(p) ==
  /\ rc # NoClient
  /\ ask = NoAsk
  /\ Begin(p, rc, home[rc])
  /\ UNCHANGED <<server, home, lists, ask, mut>>

\* The closure ConnectAsync posts: swap the client, close the old one, scan.
Connected(profile) ==
  /\ rc < MaxConns
  /\ home' = Append(home, profile)
  /\ Begin(All, rc + 1, profile)
  /\ UNCHANGED <<server, lists, ask, mut>>

----------------------------------------------------------------------------
(* The scan goroutine.  The server side is Redis' SCAN guarantee: a reply  *)
(* holds keys that exist, in any order, repeated at will, and the iteration*)
(* ends only when every key held throughout it has been returned.          *)

Owed(s) == IF s = cur THEN held \ returned ELSE {}

ScanReply(s) ==
  /\ pc[s] = "scan"
  /\ cli[s] = rc
  /\ \E b \in SUBSET (store[SpaceOf(s)] \cap Match[pat[s]]), final \in BOOLEAN :
       /\ final => Owed(s) \subseteq b
       /\ got' = [got EXCEPT ![s] = b]
       /\ last' = [last EXCEPT ![s] = final]
       /\ returned' = IF s = cur THEN returned \cup b ELSE returned
       /\ pc' = [pc EXCEPT ![s] = IF b # {} THEN "batch"
                                  ELSE IF final THEN "finish" ELSE "scan"]
  /\ UNCHANGED <<server, home, cur, pat, cli, failed, done, lists, held, touched, named,
                 title, ask, mut>>

\* Variant: an error is retried where it should end the iteration.
ScanErrorRetried(s) ==
  /\ pc[s] = "scan"
  /\ failed' = [failed EXCEPT ![s] = TRUE]
  /\ UNCHANGED <<server, home, cur, pat, cli, pc, got, last, done, lists, hist, title, ask, mut>>

\* A server error, a cancelled context or a closed client.
ScanError(s) ==
  /\ pc[s] = "scan"
  /\ failed' = [failed EXCEPT ![s] = TRUE]
  /\ pc' = [pc EXCEPT ![s] = "finish"]
  /\ UNCHANGED <<server, home, cur, pat, cli, got, last, done,
                 lists, hist, title, ask, mut>>

\* Variant: the closure writes a.scan instead of the session it captured.
AddBatchToCurrent(s) ==
  /\ seen' = [seen EXCEPT ![cur] = @ \cup got[s]]
  /\ tree' = [tree EXCEPT ![cur] = @ \cup got[s]]
  /\ rows' = [rows EXCEPT ![cur] =
                [k \in Keys |-> IF k \in got[s] \ seen[cur] THEN @[k] + 1 ELSE @[k]]]

\* Variant: the closure appends without looking at seen.
AddBatchUnchecked(s) ==
  /\ seen' = [seen EXCEPT ![s] = @ \cup got[s]]
  /\ tree' = [tree EXCEPT ![s] = @ \cup got[s]]
  /\ rows' = [rows EXCEPT ![s] = [k \in Keys |-> IF k \in got[s] THEN @[k] + 1 ELSE @[k]]]

\* The closure posted for a batch.  It writes the session it was started
\* for, but the one title there is.
AddBatch(s) ==
  /\ seen' = [seen EXCEPT ![s] = @ \cup got[s]]
  /\ tree' = [tree EXCEPT ![s] = @ \cup got[s]]
  /\ rows' = [rows EXCEPT ![s] =
                [k \in Keys |-> IF k \in got[s] \ seen[s] THEN @[k] + 1 ELSE @[k]]]

BatchClosure(s) ==
  /\ pc[s] = "batch"
  /\ AddBatch(s)
  /\ title' = s
  /\ got' = [got EXCEPT ![s] = {}]
  /\ pc' = [pc EXCEPT ![s] = "check"]
  /\ UNCHANGED <<server, home, cur, pat, cli, last, failed, done, hist, ask, mut>>

\* Variant: the first batch ends the scan whatever cursor it carried.
CheckCtxStopsEarly(s) ==
  /\ pc[s] = "check"
  /\ pc' = [pc EXCEPT ![s] = "finish"]
  /\ UNCHANGED <<server, home, cur, pat, cli, got, last, failed, done, lists, hist, title, ask, mut>>

\* Back in the goroutine: fn returns ctx.Err() == nil.
CheckCtx(s) ==
  /\ pc[s] = "check"
  /\ pc' = [pc EXCEPT ![s] = IF Cancelled(s) \/ last[s] THEN "finish" ELSE "scan"]
  /\ UNCHANGED <<server, home, cur, pat, cli, got, last, failed, done,
                 lists, hist, title, ask, mut>>

FinalClosure(s) ==
  /\ pc[s] = "finish"
  /\ done' = [done EXCEPT ![s] = TRUE]
  /\ title' = s
  /\ pc' = [pc EXCEPT ![s] = "over"]
  /\ UNCHANGED <<server, home, cur, pat, cli, got, last, failed,
                 lists, hist, ask, mut>>

----------------------------------------------------------------------------
(* Deleting and renaming a listed key.                                     *)

Spawn(kind, k, n, c) ==
  \E m \in Slots :
    /\ mut[m] = FreeMut
    /\ mut' = [mut EXCEPT ![m] =
                 [st |-> "sent", kind |-> kind, key |-> k, name |-> n, cli |-> c]]

\* d on the key list: the client is read now, the dialog answered later.
DeleteKey(k) ==
  /\ rc # NoClient
  /\ ask = NoAsk
  /\ k \in Listed(cur)
  /\ IF home[rc] \in SkipConfirm
     THEN Spawn("del", k, k, rc) /\ UNCHANGED ask
     ELSE ask' = [kind |-> "del", key |-> k, cli |-> rc] /\ UNCHANGED mut
  /\ UNCHANGED <<server, home, cur, scans, lists, hist, title>>

AskRename(k) ==
  /\ rc # NoClient
  /\ ask = NoAsk
  /\ k \in Listed(cur)
  /\ ask' = [kind |-> "ren", key |-> k, cli |-> NoClient]
  /\ UNCHANGED <<server, home, cur, scans, lists, hist, title, mut>>

ConfirmDelete ==
  /\ ask.kind = "del"
  /\ Spawn("del", ask.key, ask.key, ask.cli)
  /\ ask' = NoAsk
  /\ UNCHANGED <<server, home, cur, scans, lists, hist, title>>

\* The rename dialog reads the client when it is answered.
ConfirmRename(n) ==
  /\ ask.kind = "ren"
  /\ n # ask.key
  /\ Spawn("ren", ask.key, n, rc)
  /\ ask' = NoAsk
  /\ UNCHANGED <<server, home, cur, scans, lists, hist, title>>

Dismiss ==
  /\ ask # NoAsk
  /\ ask' = NoAsk
  /\ UNCHANGED <<server, home, cur, scans, lists, hist, title, mut>>

\* The keys of profile p become ks.
Store(p, ks) ==
  /\ store' = [store EXCEPT ![p] = ks]
  /\ held' = IF cur > 0 /\ home[rc] = p THEN held \cap ks ELSE held

Effect(u, ks) == IF u.kind = "del" THEN ks \ {u.key} ELSE (ks \ {u.key}) \cup {u.name}

\* The server runs the command; the answer arrives, or is lost on the way.
Applied(m) ==
  /\ mut[m].st = "sent"
  /\ mut[m].cli = rc
  /\ mut[m].kind = "ren" => mut[m].key \in store[home[rc]]
  /\ Store(home[rc], Effect(mut[m], store[home[rc]]))
  /\ \E st \in {"ok", "over"} : mut' = [mut EXCEPT ![m].st = st]
  /\ UNCHANGED <<env, home, cur, scans, lists, returned, touched, named, title, ask>>

\* It is refused, or times out or meets a closed client before it ran.
NotApplied(m) ==
  /\ mut[m].st = "sent"
  /\ mut' = [mut EXCEPT ![m].st = "over"]
  /\ UNCHANGED <<server, home, cur, scans, lists, hist, title, ask>>

\* Variant: the row is deleted without the i >= 0 check.
DropKeyUnchecked(k) ==
  /\ tree' = [tree EXCEPT ![cur] = @ \ {k}]
  /\ seen' = [seen EXCEPT ![cur] = @ \ {k}]
  /\ rows' = [rows EXCEPT ![cur][k] = @ - 1]
  /\ touched' = touched \cup {k}
  /\ title' = cur
  /\ UNCHANGED named

\* dropKeyLocal: on a.scan as it is when the reply is handled.
DropKeyLocal(k) ==
  /\ tree' = [tree EXCEPT ![cur] = @ \ {k}]
  /\ seen' = [seen EXCEPT ![cur] = @ \ {k}]
  /\ rows' = [rows EXCEPT ![cur][k] = IF @ > 0 THEN @ - 1 ELSE 0]
  /\ touched' = touched \cup {k}
  /\ title' = cur
  /\ UNCHANGED named

MoveRow(r, k, n) ==
  [x \in Keys |-> IF x = k THEN r[x] - 1 ELSE IF x = n THEN r[x] + 1 ELSE r[x]]

\* Variant: the old name stays marked seen.
RenameKeepsSeen(k, n) ==
  /\ tree' = [tree EXCEPT ![cur] = (@ \ {k}) \cup {n}]
  /\ rows' = IF rows[cur][k] > 0 THEN [rows EXCEPT ![cur] = MoveRow(@, k, n)] ELSE rows
  /\ touched' = touched \cup {k}
  /\ named' = named \cup {n}
  /\ UNCHANGED <<seen, title>>

\* The success closure of renameKey: seen loses the old name and does not
\* learn the new one; the row is renamed only if the old key has one.
RenameLocal(k, n) ==
  /\ tree' = [tree EXCEPT ![cur] = (@ \ {k}) \cup {n}]
  /\ seen' = [seen EXCEPT ![cur] = @ \ {k}]
  /\ rows' = IF rows[cur][k] > 0 THEN [rows EXCEPT ![cur] = MoveRow(@, k, n)] ELSE rows
  /\ touched' = touched \cup {k}
  /\ named' = named \cup {n}
  /\ UNCHANGED title

MutationClosure(m) ==
  /\ mut[m].st = "ok"
  /\ mut' = [mut EXCEPT ![m].st = "over"]
  /\ \/ mut[m].kind = "del" /\ DropKeyLocal(mut[m].key)
     \/ mut[m].kind = "ren" /\ RenameLocal(mut[m].key, mut[m].name)
  /\ UNCHANGED <<server, home, cur, scans, held, returned, ask>>

----------------------------------------------------------------------------
(* Other clients of the servers.                                           *)

OtherClient(p) ==
  /\ env < MaxEnv
  /\ env' = env + 1
  /\ \E k \in Keys :
       \/ k \notin store[p] /\ Store(p, store[p] \cup {k})
       \/ k \in store[p] /\ Store(p, store[p] \ {k})
  /\ UNCHANGED <<home, cur, scans, lists, returned, touched, named, title, ask, mut>>

----------------------------------------------------------------------------

ScanStep(s) ==
  ScanReply(s) \/ ScanError(s) \/ BatchClosure(s) \/ CheckCtx(s) \/ FinalClosure(s)

MutationStep(m) == Applied(m) \/ NotApplied(m) \/ MutationClosure(m)

UserStep ==
  \/ \E p \in Patterns : StartScan(p)
  \/ \E k \in Keys : DeleteKey(k) \/ AskRename(k)
  \/ \E n \in Keys : ConfirmRename(n)
  \/ ConfirmDelete
  \/ Dismiss

Next ==
  \/ UserStep
  \/ \E p \in Profiles : Connected(p) \/ OtherClient(p)
  \/ \E s \in Sessions : ScanStep(s)
  \/ \E m \in Slots : MutationStep(m)

Spec == Init /\ [][Next]_vars

\* A last reply is one that carries cursor 0.
LastReply(s) == ScanReply(s) /\ last'[s]

\* What the program does of itself.
Runs(s) ==
  BatchClosure(s) \/ CheckCtx(s) \/ FinalClosure(s)
    \/ (ScanError(s) /\ (Cancelled(s) \/ cli[s] # rc))

\* The runtime goes on as long as there is something to run, the UI loop a
\* posted closure or a goroutine its next line; a call on a cancelled context
\* or a closed client returns; Redis ends every SCAN iteration that is driven
\* on.
Fairness ==
  /\ WF_vars(\E s \in Sessions : Runs(s))
  /\ \A s \in Sessions : SF_vars(LastReply(s))

LiveSpec == Spec /\ Fairness

----------------------------------------------------------------------------
(* Properties.                                                             *)

\* A key the session has marked seen, so that a later batch skips it, is in
\* the key list and in the namespace tree (the skip in startScanF's batch
\* closure never hides a key that deletes and renames took away).
SeenIsShown ==
  \A s \in Sessions : seen[s] \subseteq Listed(s) \cap tree[s]

\* A scan that ended without error and was not superseded lists every
\* matching key that stayed on the server all along, unless the user deleted
\* or renamed it meanwhile (startScanF, scanner.Scan).
CompleteWhenDone ==
  cur > 0 /\ done[cur] /\ ~failed[cur] => held \ touched \subseteq Listed(cur)

\* Whatever order batches, deletes and new scans land in, the list shows only
\* keys the session's own pattern selects, plus the new names of renames (a
\* superseded scan's late batch goes to its own session).
FilteredList ==
  cur > 0 => Listed(cur) \subseteq Match[pat[cur]] \cup named

\* Apart from names a rename introduced, a key has one row if it is marked
\* seen and none otherwise: a repeated SCAN answer adds no second row.
OneRowPerSeenKey ==
  cur > 0 => \A k \in Keys \ named : rows[cur][k] = IF k \in seen[cur] THEN 1 ELSE 0

\* A superseded scan leaves the list of the session on screen alone: only a
\* mutation or the session's own batch changes it.
SupersededIsInert ==
  [][\A s \in Sessions : BatchClosure(s) /\ Cancelled(s) =>
       <<seen[cur], rows[cur], tree[cur]>>' = <<seen[cur], rows[cur], tree[cur]>>]_vars

\* Every scan goroutine ends, superseded or not, and reports done: none is
\* left running against a closed client (startScanF).
ScanEnds ==
  \A s \in Sessions : pc[s] = "scan" ~> done[s]

\* A batch never adds a second row for a key that is already listed: "SCAN
\* can return duplicates; count once" (scanner/tree.go).
ScanCountsOnce ==
  [][\A s \in Sessions, k \in Keys :
       BatchClosure(s) /\ rows[s][k] > 0 => rows'[s][k] = rows[s][k]]_vars

\* dropKeyLocal takes a row off the list only "after the key is gone on the
\* server" whose keys the list shows (app/keyops.go).
DropsOnlyGoneKeys ==
  [][\A m \in Slots, k \in Keys :
       MutationClosure(m) /\ mut[m].kind = "del" /\ rows'[cur][k] < rows[cur][k]
         => k \notin store[SpaceOf(cur)]]_vars

\* The title over the key list is the one of the session it shows: switching
\* the filter cancels the old scan.
TitleIsCurrent == title = cur
=============================================================================
