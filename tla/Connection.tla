----------------------------- MODULE Connection -----------------------------
(***************************************************************************)
(* Connecting and reconnecting: ConnectAsync and onConnected               *)
(* (app/connect.go), Connect and Close (conn/conn.go), with the SSH tunnel *)
(* of sshClient (conn/ssh.go).                                             *)
(*                                                                         *)
(* A dial is a goroutine that goes through Connect and posts a closure; it *)
(* is named by its number.  The user may start another while one is under  *)
(* way, so dials finish in any order.  A profile is the part of it that    *)
(* Connect branches on.                                                    *)
(***************************************************************************)
EXTENDS Integers, FiniteSets

CONSTANTS
  Profiles,   \* [ssh, refused : BOOLEAN]: refused = the CA file cannot be used,
              \* or the profile is a cluster with a database other than 0
  MaxDials    \* bound: dials started

ASSUME ConnectionAssumption ==
  /\ Profiles \subseteq [ssh : BOOLEAN, refused : BOOLEAN]
  /\ MaxDials \in Nat

VARIABLES
  started,   \* dials started so far
  profile,   \* the profile of each dial
  stage,     \* where each dial is in ConnectAsync
  tunnel,    \* c.ssh of each dial
  client,    \* c.Client of each dial
  rc,        \* the connection in use, 0 for none
  scanOn     \* the connection the running scan uses, 0 for none

dialVars == <<started, profile, stage, tunnel, client, rc, scanOn>>

Dials == 1 .. MaxDials
Stages == {"idle", "tunnel", "check", "ping", "ok", "error", "done"}
Life == {"none", "open", "closed"}

DialTypeOK ==
  /\ started \in 0 .. MaxDials
  /\ profile \in [Dials -> Profiles]
  /\ stage \in [Dials -> Stages]
  /\ tunnel \in [Dials -> Life]
  /\ client \in [Dials -> Life]
  /\ \A d \in Dials : ~profile[d].ssh => tunnel[d] = "none"
  /\ rc \in 0 .. MaxDials
  /\ scanOn \in 0 .. MaxDials

----------------------------------------------------------------------------

DialInit ==
  /\ started = 0
  /\ profile \in [Dials -> Profiles]   \* drawn beforehand, read from ConnectAsync on
  /\ stage = [d \in Dials |-> "idle"]
  /\ tunnel = [d \in Dials |-> "none"]
  /\ client = [d \in Dials |-> "none"]
  /\ rc = 0 /\ scanOn = 0

Goto(d, s) == stage' = [stage EXCEPT ![d] = s]

\* The parts of Close: what was opened is closed.
Closed(life, d) == IF life[d] = "open" THEN [life EXCEPT ![d] = "closed"] ELSE life

\* The user connects: from the form, the profile list, or at start-up.
ConnectAsync ==
  /\ started < MaxDials
  /\ started' = started + 1
  /\ Goto(started + 1, IF profile[started + 1].ssh THEN "tunnel" ELSE "check")
  /\ UNCHANGED <<profile, tunnel, client, rc, scanOn>>

\* sshClient; its Dial has no deadline, so nothing says it ends.
TunnelOpens(d) ==
  /\ stage[d] = "tunnel"
  /\ tunnel' = [tunnel EXCEPT ![d] = "open"]
  /\ Goto(d, "check")
  /\ UNCHANGED <<started, profile, client, rc, scanOn>>

TunnelFails(d) ==
  /\ stage[d] = "tunnel"
  /\ Goto(d, "error")
  /\ UNCHANGED <<started, profile, tunnel, client, rc, scanOn>>

\* TLS and cluster settings; an error returns at once, and leaves c.ssh open.
Check(d) ==
  /\ stage[d] = "check"
  /\ IF profile[d].refused
     THEN Goto(d, "error") /\ UNCHANGED client
     ELSE Goto(d, "ping") /\ client' = [client EXCEPT ![d] = "open"]
  /\ UNCHANGED <<started, profile, tunnel, rc, scanOn>>

PingAnswers(d) ==
  /\ stage[d] = "ping"
  /\ Goto(d, "ok")
  /\ UNCHANGED <<started, profile, tunnel, client, rc, scanOn>>

\* Variant: an error returns without closing.
PingFailsOpen(d) ==
  /\ stage[d] = "ping"
  /\ Goto(d, "error")
  /\ UNCHANGED <<started, profile, tunnel, client, rc, scanOn>>

PingFails(d) ==
  /\ stage[d] = "ping"
  /\ Goto(d, "error")
  /\ client' = Closed(client, d)
  /\ tunnel' = Closed(tunnel, d)
  /\ UNCHANGED <<started, profile, rc, scanOn>>

\* Variant: the new connection is not swapped in before the old is closed.
ConnectedNoSwap(d) ==
  /\ stage[d] = "ok"
  /\ Goto(d, "done")
  /\ rc' = IF rc = 0 THEN d ELSE rc
  /\ client' = IF rc = 0 THEN client ELSE Closed(client, rc)
  /\ tunnel' = IF rc = 0 THEN tunnel ELSE Closed(tunnel, rc)
  /\ scanOn' = d
  /\ UNCHANGED <<started, profile>>

\* Variant: the old connection is dropped without being closed.
ConnectedLeaksOld(d) ==
  /\ stage[d] = "ok"
  /\ Goto(d, "done")
  /\ rc' = d /\ scanOn' = d
  /\ UNCHANGED <<started, profile, tunnel, client>>

\* The closure of a dial that worked: rc.Swap, close the old one, onConnected
\* restarts the scan on the new one.
OnConnected(d) ==
  /\ stage[d] = "ok"
  /\ Goto(d, "done")
  /\ rc' = d
  /\ client' = IF rc = 0 THEN client ELSE Closed(client, rc)
  /\ tunnel' = IF rc = 0 THEN tunnel ELSE Closed(tunnel, rc)
  /\ scanOn' = d
  /\ UNCHANGED <<started, profile>>

\* Variant: the failure leaves the dial as it is.
FailedStays(d) ==
  /\ stage[d] = "error"
  /\ UNCHANGED dialVars

\* The closure of a dial that failed only flashes; the old connection stays.
Failed(d) ==
  /\ stage[d] = "error"
  /\ Goto(d, "done")
  /\ UNCHANGED <<started, profile, tunnel, client, rc, scanOn>>

Dialing(d) ==
  TunnelOpens(d) \/ TunnelFails(d) \/ Check(d) \/ PingAnswers(d) \/ PingFails(d)

Closure(d) == OnConnected(d) \/ Failed(d)

DialNext == ConnectAsync \/ \E d \in Dials : Dialing(d) \/ Closure(d)

DialSpec == DialInit /\ [][DialNext]_dialVars

\* The commands of Connect run under the 15 s context, and the UI loop runs
\* the closures; the tunnel's dial is under no deadline.
DialLiveSpec ==
  /\ DialSpec
  /\ \A d \in Dials : WF_dialVars(Check(d) \/ PingAnswers(d) \/ PingFails(d)) /\ WF_dialVars(Closure(d))

----------------------------------------------------------------------------
(* Properties.                                                             *)

UnderWay(d) == stage[d] \in {"tunnel", "check", "ping", "ok"}

\* Whatever order dials end in, nothing stays open but the connection in use
\* and what a dial under way has opened; a profile that Connect refuses after
\* the tunnel is up is the exception, see Check.
NothingLeaks ==
  \A d \in Dials : ~profile[d].refused /\ "open" \in {client[d], tunnel[d]} =>
    d = rc \/ UnderWay(d)

\* The connection in use is alive, its tunnel too, and it is what the scan
\* runs on: no swap leaves rc on a closed client.
InUseIsAlive ==
  rc # 0 => /\ client[rc] = "open"
            /\ profile[rc].ssh => tunnel[rc] = "open"
            /\ scanOn = rc

\* A connection that was closed never comes back into use.
ClosedStaysOut == [][\A d \in Dials : client[d] = "closed" => rc' # d]_dialVars

\* What the rest of the program relies on: a handle is a dial with its client.
Pool == INSTANCE Handover WITH
  Handles <- Dials,
  tried <- {d \in Dials : stage[d] \notin {"idle", "done"}},
  open <- {d \in Dials : client[d] = "open"},
  inUse <- rc,
  spent <- {d \in Dials : stage[d] = "done" /\ d # rc}

\* Dials that overlap hand the connection over in single steps: one client is
\* in use from the first success on, the old one closes as the new one takes
\* over, and a dial that failed holds no client when it reports.
HandsOver == Pool!Spec

\* A dial without a tunnel ends: in use, replaced, or with its error shown.
DialEnds ==
  \A d \in Dials : (stage[d] # "idle" /\ ~profile[d].ssh) ~> (stage[d] = "done")
=============================================================================
