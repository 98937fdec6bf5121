---------------------------- MODULE MCValueTree ----------------------------
(* Finite instances of ValueTree.                                          *)
EXTENDS ValueTree

Node(k, l, v) == [kind |-> k, label |-> l, value |-> v]

\* {"a": {"a": 1, "b": null}, "b": [1, {"c": "x"}]}
Nested ==
  << >> :> Node("object", Blank, Blank)
    @@ <<1>> :> Node("object", "a", Blank)
    @@ <<1, 1>> :> Node("number", "a", "1")
    @@ <<1, 2>> :> Node("null", "b", Blank)
    @@ <<2>> :> Node("array", "b", Blank)
    @@ <<2, 1>> :> Node("number", "0", "1")
    @@ <<2, 2>> :> Node("object", "1", Blank)
    @@ <<2, 2, 1>> :> Node("string", "c", "x")

\* 1 and [1] as the user may type them; "x" is no JSON.
Number == << >> :> Node("number", Blank, "1")
List == << >> :> Node("array", Blank, Blank) @@ <<1>> :> Node("number", "0", "1")
Parses == ("1" :> Number) @@ ("[1]" :> List)

OneDoc == {Nested}
=============================================================================
