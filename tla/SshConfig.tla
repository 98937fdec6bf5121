----------------------------- MODULE SshConfig -----------------------------
(***************************************************************************)
(* What ~/.ssh/config says of a jump host: parseSSHConfig, lookupSSHConfig *)
(* (conn/sshconfig.go), and what sshClient (conn/ssh.go) makes of it.      *)
(*                                                                         *)
(* The file is a sequence of directives [key, val], without its comments.  *)
(* The value of a Host directive is a set of patterns; patterns and host   *)
(* names are sequences of characters, other values are names.              *)
(***************************************************************************)
EXTENDS Integers, Sequences, SequencesExt

CONSTANTS
  Unset,       \* an empty option
  PortOf       \* [ports written as numbers -> the numbers]

\* 0 is no port: the code takes it for an empty option.
ASSUME SshConfigAssumption ==
  /\ Unset \notin DOMAIN PortOf
  /\ \A p \in DOMAIN PortOf : PortOf[p] \in Nat \ {0}

Options == {"hostname", "user", "port", "identityfile"}
NoOptions == [o \in Options |-> Unset]

\* parseSSHConfig: directives before the first Host, and directives that it
\* does not know, are skipped; in a block the first value of an option counts.
ParseLine(blocks, line) ==
  CASE line.key = "host" -> Append(blocks, [match |-> line.val, opt |-> NoOptions])
    [] line.key \in Options /\ blocks # << >> ->
         [blocks EXCEPT ![Len(blocks)].opt[line.key] = IF @ = Unset THEN line.val ELSE @]
    [] OTHER -> blocks
ParseSSH(file) == FoldLeft(ParseLine, << >>, file)

\* hostPatternMatch: with a star, what is before the first one and what is
\* after it have to be there literally; without one, '?' is any character.
HostPatternMatch(pattern, host) ==
  \/ pattern \in {<<"*">>, host}
  \/ /\ "*" \in Range(pattern)
     /\ LET star == SelectInSeq(pattern, LAMBDA ch : ch = "*")
        IN  /\ IsPrefix(SubSeq(pattern, 1, star - 1), host)
            /\ IsSuffix(SubSeq(pattern, star + 1, Len(pattern)), host)
  \/ /\ "*" \notin Range(pattern) /\ "?" \in Range(pattern)
     /\ Len(host) = Len(pattern)
     /\ \A k \in DOMAIN pattern : pattern[k] \in {"?", host[k]}

Applies(alias, block) == \E pattern \in block.match : HostPatternMatch(pattern, alias)

\* Variant: a later block overrides an earlier one.
MergeLast(alias, found, block) ==
  IF ~Applies(alias, block) THEN found
  ELSE [hostname |-> IF block.opt["hostname"] # Unset THEN block.opt["hostname"] ELSE found.hostname,
        user |-> IF block.opt["user"] # Unset THEN block.opt["user"] ELSE found.user,
        port |-> IF block.opt["port"] \in DOMAIN PortOf THEN PortOf[block.opt["port"]] ELSE found.port,
        identityfile |-> IF block.opt["identityfile"] # Unset THEN block.opt["identityfile"]
                         ELSE found.identityfile]

\* One matching block: an option that is still empty is taken, a port only if
\* it is a number; the host name is empty as long as it is the alias.
Merge(alias, found, block) ==
  IF ~Applies(alias, block) THEN found
  ELSE [hostname |-> IF found.hostname = alias /\ block.opt["hostname"] # Unset
                     THEN block.opt["hostname"] ELSE found.hostname,
        user |-> IF found.user = Unset THEN block.opt["user"] ELSE found.user,
        port |-> IF found.port = 0 /\ block.opt["port"] \in DOMAIN PortOf
                 THEN PortOf[block.opt["port"]] ELSE found.port,
        identityfile |-> IF found.identityfile = Unset THEN block.opt["identityfile"]
                         ELSE found.identityfile]

LookupSSH(file, alias) ==
  FoldLeft(LAMBDA found, block : Merge(alias, found, block),
           [hostname |-> alias, user |-> Unset, port |-> 0, identityfile |-> Unset],
           ParseSSH(file))

\* sshClient: what the profile sets goes first, and 22 is the last resort.
Tunnel(file, ssh) ==
  LET found == LookupSSH(file, ssh.host)
  IN  [host |-> found.hostname,
       user |-> IF ssh.user # Unset THEN ssh.user ELSE found.user,
       port |-> IF ssh.port # 0 THEN ssh.port ELSE IF found.port # 0 THEN found.port ELSE 22,
       key  |-> IF ssh.key # Unset THEN ssh.key ELSE found.identityfile]

----------------------------------------------------------------------------
(* "OpenSSH semantics kept: first match wins per option, in file order".   *)

\* What a pattern stands for: rest[i, k] says that the pattern from its i-th
\* character on matches the host from its k-th on.
Glob(pattern, host) ==
  LET rest[i \in 1 .. Len(pattern) + 1, k \in 1 .. Len(host) + 1] ==
        IF i > Len(pattern) THEN k > Len(host)
        ELSE IF pattern[i] = "*" THEN \E m \in k .. Len(host) + 1 : rest[i + 1, m]
        ELSE k <= Len(host) /\ pattern[i] \in {"?", host[k]} /\ rest[i + 1, k + 1]
  IN  rest[1, 1]

\* The lines of the blocks that match.
InScope(file, alias, i) ==
  \E h \in 1 .. i : /\ file[h].key = "host"
                    /\ \E pattern \in file[h].val : Glob(pattern, alias)
                    /\ \A j \in h + 1 .. i : file[j].key # "host"

\* The first line that gives an option to an alias, 0 if there is none.
FirstLine(file, alias, option) ==
  LET lines == {i \in DOMAIN file : /\ file[i].key = option /\ file[i].val # Unset
                                    /\ InScope(file, alias, i)}
  IN  IF lines = {} THEN 0 ELSE CHOOSE i \in lines : \A j \in lines : i <= j
First(file, alias, option) ==
  LET i == FirstLine(file, alias, option) IN IF i = 0 THEN Unset ELSE file[i].val

FirstTunnel(file, ssh) ==
  LET host == First(file, ssh.host, "hostname")
      port == First(file, ssh.host, "port")
  IN  [host |-> IF host = Unset THEN ssh.host ELSE host,
       user |-> IF ssh.user # Unset THEN ssh.user ELSE First(file, ssh.host, "user"),
       port |-> IF ssh.port # 0 THEN ssh.port
                ELSE IF port \in DOMAIN PortOf THEN PortOf[port] ELSE 22,
       key  |-> IF ssh.key # Unset THEN ssh.key ELSE First(file, ssh.host, "identityfile")]
=============================================================================
