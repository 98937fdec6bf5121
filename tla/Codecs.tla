------------------------------- MODULE Codecs -------------------------------
(***************************************************************************)
(* Detection, decoding and encoding of stored values (encode/encode.go)    *)
(* with the codec that detection picks, and what the editor makes of a     *)
(* value (decodeField, editValueItem in app/keyops.go).                    *)
(*                                                                         *)
(* A stored value is a body in layers of forms, the outermost first: "gzip"*)
(* around one of "json", "msgpack" (a container), "php", "binary" (no      *)
(* UTF-8), "dump" (the text of a hex dump), "phplike" (a text that starts  *)
(* like a PHP value, as in "s:1"), or any other "text".  A text on the     *)
(* screen has a body and a language.                                       *)
(***************************************************************************)
EXTENDS Integers, Sequences, SequencesExt

CONSTANT NoText   \* decoding, or encoding, has failed

\* Detect, by the outermost form: JSON, gzip, msgpack, PHP, UTF-8, hex.
Detect(raw) ==
  CASE Head(raw.forms) = "phplike" -> "php"
    [] Head(raw.forms) = "dump" -> "text"
    [] Head(raw.forms) = "binary" -> "hex"
    [] OTHER -> Head(raw.forms)

\* gzip's Decode detects again what it has unpacked.
Unpacked(raw) ==
  LET n == CHOOSE i \in DOMAIN raw.forms :
             raw.forms[i] # "gzip" /\ \A j \in 1 .. i - 1 : raw.forms[j] = "gzip"
  IN  raw.forms[n]

\* Format: msgpack and PHP are shown as JSON, bytes as a hex dump.
Format(raw) ==
  LET form == Unpacked(raw)
  IN  CASE form \in {"json", "msgpack", "php"} -> [lang |-> "json", body |-> raw.body]
        [] form \in {"binary", "dump"} -> [lang |-> "dump", body |-> raw.body]
        [] form = "text" -> [lang |-> "text", body |-> raw.body]
        [] form = "phplike" -> NoText

\* The bytes of a text.
Bytes(text) == [forms |-> <<text.lang>>, body |-> text.body]

\* Encode; json.Compact and json.Unmarshal want JSON, PHP and hex are read-only.
Encode(codec, text) ==
  CASE codec = "gzip" -> [forms |-> <<"gzip">> \o Bytes(text).forms, body |-> text.body]
    [] codec = "msgpack" /\ text.lang = "json" -> [forms |-> <<"msgpack">>, body |-> text.body]
    [] codec = "json" /\ text.lang = "json" -> Bytes(text)
    [] codec = "text" -> Bytes(text)
    [] OTHER -> NoText

\* Variant: what cannot be encoded is dropped.
SavedOrEmpty(raw, text) ==
  IF Encode(Detect(raw), text) = NoText THEN [forms |-> <<"text">>, body |-> "empty"]
  ELSE Encode(Detect(raw), text)

\* What a save writes over a value: its codec's encoding, or else the text.
Saved(raw, text) ==
  IF Encode(Detect(raw), text) = NoText THEN Bytes(text) ELSE Encode(Detect(raw), text)

\* decodeField: a value that cannot be decoded is edited, and written, as it
\* is stored.
Decoded(raw) ==
  IF Format(raw) = NoText THEN [lang |-> Head(raw.forms), body |-> raw.body] ELSE Format(raw)
Written(raw, text) == IF Format(raw) = NoText THEN Bytes(text) ELSE Saved(raw, text)

\* The texts of the editor, and the values that it shows as such; not those,
\* for one, that only read like PHP under a layer of gzip.
Texts == [lang : {"json", "text", "dump", "phplike"}, body : STRING]
Legible(raw) ==
  /\ Decoded(raw) \in Texts
  /\ Decoded(raw).lang = "phplike" => Format(raw) = NoText
=============================================================================
