------------------------------ MODULE MCEdits ------------------------------
(* Finite instances of Edits.                                              *)
EXTENDS Edits

Raw(f, b) == [forms |-> f, body |-> b]

\* A gzipped JSON string and a serialised PHP value; a hash with a field that
\* cannot be decoded and one of bytes, and a hash with a single field.
SomeValues ==
  [string |-> {"body" :> Raw(<<"gzip", "json">>, "a")},
   hash |-> {("f" :> Raw(<<"phplike">>, "a")) @@ ("g" :> Raw(<<"binary">>, "b")),
             "f" :> Raw(<<"msgpack">>, "a")}]

OneValue == [string |-> {"body" :> Raw(<<"text">>, "a")}, hash |-> {"f" :> Raw(<<"text">>, "a")}]

SomeTexts == {[lang |-> "text", body |-> "c"]}
=============================================================================
