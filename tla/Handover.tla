------------------------------ MODULE Handover ------------------------------
(***************************************************************************)
(* What a program that keeps one handle in use promises, whatever way it   *)
(* makes handles and in whatever order they get ready: a handle is opened  *)
(* while it is tried, one that is open takes over from the one in use,     *)
(* which closes in the same step, and a handle that is closed or given up  *)
(* is never used again.  Connection implements it.                         *)
(***************************************************************************)
EXTENDS Integers

CONSTANT Handles   \* without 0

VARIABLES
  tried,   \* the handles that are being made
  open,    \* the handles that hold something open
  inUse,   \* the handle in use, 0 for none
  spent    \* the handles that are over

vars == <<tried, open, inUse, spent>>

Init == tried = {} /\ open = {} /\ inUse = 0 /\ spent = {}

Try(h) ==
  /\ h \notin tried \cup spent \cup {inUse}
  /\ tried' = tried \cup {h}
  /\ UNCHANGED <<open, inUse, spent>>

Open(h) ==
  /\ h \in tried
  /\ open' = open \cup {h}
  /\ UNCHANGED <<tried, inUse, spent>>

Drop(h) ==
  /\ h \in tried
  /\ open' = open \ {h}
  /\ UNCHANGED <<tried, inUse, spent>>

GiveUp(h) ==
  /\ h \in tried /\ h \notin open
  /\ tried' = tried \ {h} /\ spent' = spent \cup {h}
  /\ UNCHANGED <<open, inUse>>

TakeOver(h) ==
  /\ h \in tried /\ h \in open
  /\ tried' = tried \ {h} /\ inUse' = h
  /\ open' = open \ {inUse}
  /\ spent' = spent \cup ({inUse} \ {0})

Next == \E h \in Handles : Try(h) \/ Open(h) \/ Drop(h) \/ GiveUp(h) \/ TakeOver(h)

Spec == Init /\ [][Next]_vars
=============================================================================
