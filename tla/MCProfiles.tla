----------------------------- MODULE MCProfiles -----------------------------
(* Finite instances of Profiles.                                           *)
EXTENDS Profiles

Line(k, v) == [key |-> k, val |-> v]
alias == <<"j", "1">>
Jump(port) == [host |-> alias, user |-> Unset, port |-> port, key |-> Unset]
Profile(n, h, s, ssh) == [name |-> n, host |-> h, db |-> 0, ssh |-> ssh, sep |-> s]

TwoNames == <<"a", "b">>
Numbers == "2222" :> 2222 @@ "99" :> 99
ATunnel == {Jump(0)}
AURL == {Profile("", "h2", "", None)}

\* No profile, or one with a separator of its own and one without.
SomeFiles ==
  {[sep |-> ":", profiles |-> << >>],
   [sep |-> ":", profiles |-> "a" :> Profile("a", "h1", "/", None)
                           @@ "b" :> Profile("b", "h1", "", Jump(0))]}

\* Blocks for one host and for several, in either order; a host name that is
\* the alias, a port that is no number, and a line that no Host is above of.
One == <<Line("host", {alias}), Line("hostname", <<"i">>), Line("port", "2222"),
         Line("port", "99"), Line("other", "x")>>
All(patterns) ==
  <<Line("host", patterns), Line("user", "u2"), Line("port", "99"),
    Line("identityfile", "k2"), Line("hostname", <<"o">>)>>
SomeSSHFiles ==
  {One \o All({<<"*">>}),
   <<Line("user", "u0")>> \o All({<<"j", "?">>, <<"d">>}) \o One,
   <<Line("host", {<<"?", "?", "?">>}), Line("user", "u1"),
     Line("host", {<<"j", "*">>}), Line("hostname", alias), Line("port", "ssh")>> \o All({<<"*", "1">>})}

\* Patterns whose parts overlap, or with a '?' beside a star.
OddSSHFiles == {All({<<"j", "1", "*", "1">>}), All({<<"?", "1", "*">>}), All({<<"*", "j", "*">>})}
=============================================================================
