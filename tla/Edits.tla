------------------------------- MODULE Edits -------------------------------
(***************************************************************************)
(* What an edit writes, where, and with which expiry: the member editors   *)
(* and saveStringKeepTTL (app/keyops.go), editKeyTTL, the refresh after a  *)
(* write (runMutation, reloadMeta, loadMeta, loadValue), and switchDB      *)
(* (app/info.go), for one key that is there in every database.             *)
(*                                                                         *)
(* A goroutine is a script of commands.  Each command takes a link from    *)
(* the client's pool, is answered on it, and gives it back; its closure    *)
(* comes when the script is done.  The pool is that of go-redis: the link  *)
(* given back last is taken first, a pool without idle links dials one, on *)
(* the database of the profile that was connected, and a command whose     *)
(* link is lost is sent again on another.  SELECT acts on one link.        *)
(*                                                                         *)
(* A hash is a function from its fields to values; a string is a hash with *)
(* the one field "body".  Sorted sets and, but for an unchanged member,    *)
(* sets are edited like the fields of a hash.  Expiry 0 is none.           *)
(***************************************************************************)
EXTENDS Codecs, FiniteSets, Functions

CONSTANTS
  Kinds,       \* of "string" and "hash"
  Values,      \* [kind -> the values to start from]
  Typed,       \* texts the user may type
  Fields,      \* field names the user may type
  DBs, Home,   \* the databases; the one of the profile that was connected
  Expiries,    \* the expiries of the key to start with
  TTLs,        \* those that the user, or another client, may give it
  CanFail,     \* commands that can fail
  Others,      \* other clients change the expiry of the key
  None,
  MaxActs,     \* bound: edits, databases selected, and rescans
  MaxMishaps   \* bound: links lost, calls failed, changes by other clients

ASSUME EditsAssumption ==
  /\ Kinds \subseteq {"string", "hash"}
  /\ \A k \in Kinds : \A v \in Values[k] : DOMAIN v # {}
  /\ NoText \notin Texts
  /\ Typed \subseteq Texts
  /\ Home \in DBs /\ None \notin DBs
  /\ Expiries \subseteq Nat /\ TTLs \subseteq Nat
  /\ Others \in BOOLEAN
  /\ MaxActs \in Nat /\ MaxMishaps \in Nat

VARIABLES
  kind, data,       \* the server: value and expiry of the key by database
  idle,             \* the pool: the databases of its idle links
  jobs,             \* goroutines
  db,               \* c.P.DB, the database the panes show
  page,             \* valPage: kind and rows, or None
  listed, meta,     \* whether the key is on the list; scan.meta: its kind and expiry, or None
  dialog,           \* the editor: the row it was opened on
  acts, mishaps,
  due, kept,        \* history: the expiry the key should have; texts nobody has replaced
  past              \* history: what has happened, see the properties

vars == <<kind, data, idle, jobs, db, page, listed, meta, dialog, acts, mishaps, due, kept, past>>

Gone == << >>                  \* a key without fields
Rest == jobs = {}

Writes == {"save", "edit", "ttl"}
Incidents == {"failed", "others", "strayed", "selected", "second link", "hurried", "reset", "crossed", "emptied"}

TypeOK ==
  /\ kind \in Kinds
  /\ \A d \in DBs : data[d].val = Gone => data[d].ttl = 0
  /\ idle \in Seq(DBs)
  /\ db \in DBs
  /\ page # None => page.kind \in {kind, "none", "?"}
  /\ \A j \in jobs : j.script = << >> => j.link = None
  /\ past \subseteq Incidents

Init ==
  /\ kind \in Kinds
  /\ \E v \in Values[kind], t \in Expiries :
       /\ data = [d \in DBs |-> [val |-> v, ttl |-> t]]
       /\ page = [kind |-> kind, rows |-> v]
       /\ meta = [kind |-> kind, ttl |-> t]
       /\ due = [d \in DBs |-> t]
       /\ kept = DBs \X {Decoded(v[f]) : f \in DOMAIN v}
  /\ idle = <<Home>>
  /\ jobs = {} /\ db = Home /\ listed = TRUE /\ dialog = None
  /\ acts = 0 /\ mishaps = 0 /\ past = {}

----------------------------------------------------------------------------
(* Goroutines.  want is the database that its caller meant; live says      *)
(* whether its answer still counts (metaSeq, a.valPage == p, or a.scan).   *)

Job(what, want, script) ==
  [what |-> what, want |-> want, script |-> script, link |-> None, live |-> TRUE, got |-> None,
   failed |-> FALSE]

Cmd(op) == [op |-> op]
Outdated(js, what) == {[j EXCEPT !.live = (j.what # what) /\ @] : j \in js}

Fetch == Job("fetch", db, <<Cmd("get")>>)
MetaCall == Job("meta", db, <<Cmd("meta")>>)
WriteUnderWay == \E j \in jobs : j.what \in Writes

\* The pool hands out a link.
Take(j) ==
  /\ j.link = None /\ j.script # << >> /\ Head(j.script).op # "lookup"
  /\ IF idle # << >>
     THEN /\ jobs' = (jobs \ {j}) \cup {[j EXCEPT !.link = Last(idle)]}
          /\ idle' = Front(idle)
          /\ UNCHANGED past
     ELSE /\ jobs' = (jobs \ {j}) \cup {[j EXCEPT !.link = Home]}
          /\ past' = past \cup {"second link"}
          /\ UNCHANGED idle
  /\ UNCHANGED <<kind, data, db, page, listed, meta, dialog, acts, mishaps, due, kept>>

\* A hash with a field set.
WithField(v, f, raw) == [g \in DOMAIN v \cup {f} |-> IF g = f THEN raw ELSE v[g]]

\* A command on the database of its link.
Effect(cmd, key) ==
  CASE cmd.op \in {"set", "hset"} ->
         [val |-> WithField(key.val, cmd.field, cmd.raw), ttl |-> IF cmd.op = "set" THEN 0 ELSE key.ttl]
    [] cmd.op = "hdel" /\ DOMAIN key.val = {cmd.field} -> [val |-> Gone, ttl |-> 0]
    [] cmd.op = "hdel" /\ DOMAIN key.val # {cmd.field} -> [key EXCEPT !.val = Restrict(@, DOMAIN @ \ {cmd.field})]
    [] cmd.op = "expire" /\ key.val # Gone -> [key EXCEPT !.ttl = cmd.ttl]
    [] OTHER -> key

\* The histories of a write: texts it replaces without having meant to keep
\* them, an expiry the user has asked for, and a key left without fields.
Recorded(j, cmd, d) ==
  /\ kept' = IF cmd.op \in {"set", "hset", "hdel"} /\ cmd.field \in DOMAIN data[d].val
             THEN kept \ {<<d, t>> : t \in {Decoded(data[d].val[cmd.field])} \ {cmd.text}}
             ELSE kept
  /\ due' = IF j.what = "ttl" /\ data[d].val # Gone THEN [due EXCEPT ![d] = cmd.ttl]
            ELSE IF cmd.op = "hdel" /\ cmd.text = NoText /\ data'[d].val = Gone
            THEN [due EXCEPT ![d] = 0]
            ELSE due
  /\ past' = past \cup (IF j.what \in Writes /\ d # j.want THEN {"strayed"} ELSE {})
                  \cup (IF cmd.op = "hdel" /\ cmd.text # NoText /\ data'[d].val = Gone
                        THEN {"emptied"} ELSE {})
                  \cup (IF cmd.op = "select" THEN {"selected"} ELSE {})

\* A command is answered; SELECT leaves its link on the database it names.
Reply(j) ==
  /\ j.link # None
  /\ LET cmd == Head(j.script)
         d   == j.link
     IN  /\ data' = [data EXCEPT ![d] = Effect(cmd, @)]
         /\ Recorded(j, cmd, d)
         /\ idle' = Append(idle, IF cmd.op = "select" THEN cmd.db ELSE d)
         /\ jobs' = (jobs \ {j}) \cup {[j EXCEPT !.script = Tail(@), !.link = None,
                                                 !.got = IF cmd.op \in {"get", "meta", "scan"} THEN data[d] ELSE None]}
  /\ UNCHANGED <<kind, db, page, listed, meta, dialog, acts, mishaps>>

Mishap == mishaps < MaxMishaps /\ mishaps' = mishaps + 1

\* The link is lost before or after the command has had its effect; the
\* command is sent again.
LinkLost(j) ==
  /\ Mishap
  /\ j.link # None
  /\ \/ UNCHANGED <<data, due, kept, past>>
     \/ /\ data' = [data EXCEPT ![j.link] = Effect(Head(j.script), @)]
        /\ Recorded(j, Head(j.script), j.link)
  /\ jobs' = (jobs \ {j}) \cup {[j EXCEPT !.link = None]}
  /\ UNCHANGED <<kind, idle, db, page, listed, meta, dialog, acts>>

\* The server, or the pool, closes a link that is idle.
IdleLinkLost ==
  /\ Mishap
  /\ \E i \in DOMAIN idle : idle' = RemoveAt(idle, i)
  /\ past' = past \cup {"second link"}
  /\ UNCHANGED <<kind, data, jobs, db, page, listed, meta, dialog, acts, due, kept>>

\* A command fails, and with it the rest of its script.
CommandFails(j) ==
  /\ Mishap
  /\ j.link # None /\ Head(j.script).op \in CanFail
  /\ idle' = Append(idle, j.link)
  /\ jobs' = (jobs \ {j}) \cup {[j EXCEPT !.script = << >>, !.link = None, !.failed = TRUE]}
  /\ past' = past \cup {"failed"}
  /\ UNCHANGED <<kind, data, db, page, listed, meta, dialog, acts, due, kept>>

\* Variant: SET without the expiry.
LookupForgets(j) ==
  /\ j.script # << >> /\ Head(j.script).op = "lookup"
  /\ jobs' = (jobs \ {j}) \cup {[j EXCEPT !.script = Tail(@)]}
  /\ UNCHANGED <<kind, data, idle, db, page, listed, meta, dialog, acts, mishaps, due, kept, past>>

\* saveStringKeepTTL's goroutine reads the expiry cached by the scan of the
\* moment, while the UI goroutine may be writing there.
Lookup(j) ==
  /\ j.script # << >> /\ Head(j.script).op = "lookup"
  /\ jobs' = (jobs \ {j}) \cup
       {[j EXCEPT !.script = Tail(@) \o IF meta = None \/ meta.ttl = 0 THEN << >>
                                        ELSE <<[op |-> "expire", ttl |-> meta.ttl]>>]}
  /\ UNCHANGED <<kind, data, idle, db, page, listed, meta, dialog, acts, mishaps, due, kept, past>>

----------------------------------------------------------------------------
(* Closures.                                                               *)

Finished(j) == j.script = << >>
Untouched == UNCHANGED <<kind, data, dialog, acts, mishaps, due, kept>>

\* reloadMeta.
Reloaded(js) == Outdated(js, "meta") \cup {MetaCall}

\* A write is answered: refreshValueAndMeta, unless the page is gone.
WriteDone(j) ==
  /\ Finished(j) /\ j.what \in {"save", "edit"}
  /\ IF j.failed \/ page = None THEN jobs' = jobs \ {j} /\ UNCHANGED meta
     ELSE /\ meta' = None
          /\ jobs' = Reloaded(jobs \ {j}) \cup {Fetch}
  /\ UNCHANGED <<idle, db, page, listed, past>> /\ Untouched

\* Variant: the cached expiry stays.
TTLDoneNoReload(j) ==
  /\ Finished(j) /\ j.what = "ttl"
  /\ jobs' = jobs \ {j}
  /\ UNCHANGED <<idle, db, page, listed, meta, past>> /\ Untouched

\* editKeyTTL's answer: reloadMeta.
TTLDone(j) ==
  /\ Finished(j) /\ j.what = "ttl"
  /\ IF j.failed THEN jobs' = jobs \ {j} /\ UNCHANGED meta
     ELSE meta' = None /\ jobs' = Reloaded(jobs \ {j})
  /\ UNCHANGED <<idle, db, page, listed, past>> /\ Untouched

\* loadMeta's answer: cached, as type "?" when the call failed, and loadValue
\* opens a new page; only a string or a hash has something to fetch.
MetaDone(j) ==
  /\ Finished(j) /\ j.what = "meta"
  /\ LET found == CASE j.failed -> [kind |-> "?", ttl |-> 0]
                    [] ~j.failed /\ j.got.val = Gone -> [kind |-> "none", ttl |-> 0]
                    [] OTHER -> [kind |-> kind, ttl |-> j.got.ttl]
     IN  IF ~j.live THEN jobs' = jobs \ {j} /\ UNCHANGED <<page, meta>>
         ELSE /\ meta' = found
              /\ page' = [kind |-> found.kind, rows |-> Gone]
              /\ jobs' = Outdated(jobs \ {j}, "fetch") \cup (IF found.kind = kind THEN {Fetch} ELSE {})
  /\ UNCHANGED <<idle, db, listed, past>> /\ Untouched

\* fetchValuePage's answer.  A string that is gone is an error.
FetchDone(j) ==
  /\ Finished(j) /\ j.what = "fetch"
  /\ jobs' = jobs \ {j}
  /\ page' = IF j.live /\ ~j.failed /\ (kind = "string" => j.got.val # Gone)
             THEN [page EXCEPT !.rows = j.got.val]
             ELSE page
  /\ UNCHANGED <<idle, db, listed, meta, past>> /\ Untouched

\* startScan; a superseded scan's batches are not listed.
ScanStarted(js, d) ==
  /\ page' = None /\ listed' = FALSE /\ meta' = None
  /\ jobs' = Outdated(Outdated(js, "fetch"), "scan") \cup {Job("scan", d, <<Cmd("scan")>>)}

\* Variant: the answer of SELECT is not looked at.
SelectDoneUnchecked(j) ==
  /\ Finished(j) /\ j.what = "select"
  /\ db' = j.want
  /\ ScanStarted(jobs \ {j}, j.want)
  /\ UNCHANGED <<idle, past>> /\ Untouched

\* switchDB's answer.  DBSIZE and PING run on the UI goroutine, on links of
\* the pool.
SelectDone(j) ==
  /\ Finished(j) /\ j.what = "select"
  /\ IF j.failed THEN jobs' = jobs \ {j} /\ UNCHANGED <<idle, db, page, listed, meta, past>>
     ELSE /\ db' = j.want
          /\ ScanStarted(jobs \ {j}, j.want)
          /\ idle' = IF idle = << >> THEN <<Home>> ELSE idle
          /\ past' = past \cup (IF idle = << >> THEN {"second link"} ELSE {})
                          \cup (IF WriteUnderWay \/ dialog # None THEN {"reset"} ELSE {})
                          \cup (IF \E i \in jobs \ {j} : i.what = "select" THEN {"crossed"} ELSE {})
  /\ Untouched

\* A scan's batch: the list selects its first row, and loadMeta is called.
ScanDone(j) ==
  /\ Finished(j) /\ j.what = "scan"
  /\ IF ~j.live \/ j.failed \/ j.got.val = Gone THEN jobs' = jobs \ {j} /\ UNCHANGED listed
     ELSE jobs' = Reloaded(jobs \ {j}) /\ listed' = TRUE
  /\ UNCHANGED <<idle, db, page, meta, past>> /\ Untouched

----------------------------------------------------------------------------
(* The user.                                                               *)

\* He is in a hurry when he acts before everything has been answered.
Act == acts < MaxActs /\ acts' = acts + 1
Pressed == past' = past \cup (IF Rest THEN {} ELSE {"hurried"})

Start(j) == jobs' = jobs \cup {j}

\* editValueItem: the editor of a row, if it can be decoded.
OpenEditor(f) ==
  /\ dialog = None /\ Act /\ Pressed
  /\ page # None /\ page.kind = kind /\ f \in DOMAIN page.rows
  /\ kind = "string" => Format(page.rows[f]) # NoText
  /\ dialog' = [field |-> f, raw |-> page.rows[f], db |-> db]
  /\ UNCHANGED <<kind, data, idle, jobs, db, page, listed, meta, mishaps, due, kept>>

CancelEditor ==
  /\ dialog # None /\ dialog' = None
  /\ UNCHANGED <<kind, data, idle, jobs, db, page, listed, meta, acts, mishaps, due, kept, past>>

Put(op, f, raw, text) == [op |-> op, field |-> f, raw |-> raw, text |-> text]
Del(f, text) == [op |-> "hdel", field |-> f, text |-> text]

\* ^s in the editor, under a name and with a text: a string is saved with its
\* expiry; a field that was renamed is deleted before it is written.
Submit(f, text) ==
  /\ dialog # None /\ dialog' = None /\ Pressed
  /\ kind = "string" => f = dialog.field
  /\ LET put == Put(IF kind = "string" THEN "set" ELSE "hset", f, Written(dialog.raw, text), text)
         script == IF kind = "string" THEN <<Cmd("lookup"), put>>
                   ELSE IF f = dialog.field THEN <<put>>
                   ELSE <<Del(dialog.field, text), put>>
     IN  Start(Job(IF kind = "string" THEN "save" ELSE "edit", dialog.db, script))
  /\ UNCHANGED <<kind, data, idle, db, page, listed, meta, acts, mishaps, due, kept>>

\* newValueItem: what is typed is written as it is.
NewItem(f, text) ==
  /\ dialog = None /\ Act /\ Pressed
  /\ kind = "hash" /\ page # None /\ page.kind = kind
  /\ Start(Job("edit", db, <<Put("hset", f, Bytes(text), text)>>))
  /\ UNCHANGED <<kind, data, idle, db, page, listed, meta, dialog, mishaps, due, kept>>

\* delValueItem.
DelItem(f) ==
  /\ dialog = None /\ Act /\ Pressed
  /\ kind = "hash" /\ page # None /\ page.kind = kind /\ f \in DOMAIN page.rows
  /\ Start(Job("edit", db, <<Del(f, NoText)>>))
  /\ UNCHANGED <<kind, data, idle, db, page, listed, meta, dialog, mishaps, due, kept>>

\* editKeyTTL, of a key on the list: EXPIRE, or PERSIST.
SetTTL(t) ==
  /\ dialog = None /\ Act /\ Pressed
  /\ listed
  /\ Start(Job("ttl", db, <<[op |-> "expire", ttl |-> t]>>))
  /\ UNCHANGED <<kind, data, idle, db, page, listed, meta, dialog, mishaps, due, kept>>

\* switchDB.
SwitchDB(d) ==
  /\ dialog = None /\ Act /\ Pressed
  /\ Start(Job("select", d, <<[op |-> "select", db |-> d]>>))
  /\ UNCHANGED <<kind, data, idle, db, page, listed, meta, dialog, mishaps, due, kept>>

\* The user rescans.
Rescan ==
  /\ dialog = None /\ Act
  /\ ScanStarted(jobs, db)
  /\ past' = past \cup (IF Rest THEN {} ELSE {"hurried"})
                  \cup (IF WriteUnderWay THEN {"reset"} ELSE {})
  /\ UNCHANGED <<kind, data, idle, db, dialog, mishaps, due, kept>>

\* Another client changes the expiry.
OtherClient ==
  /\ Others /\ Mishap
  /\ \E d \in DBs, t \in TTLs :
       /\ data[d].val # Gone /\ data[d].ttl # t
       /\ data' = [data EXCEPT ![d].ttl = t]
       /\ due' = [due EXCEPT ![d] = t]
  /\ past' = past \cup {"others"}
  /\ UNCHANGED <<kind, idle, jobs, db, page, listed, meta, dialog, acts, kept>>

User ==
  \/ CancelEditor \/ Rescan
  \/ page # None /\ \E f \in DOMAIN page.rows : OpenEditor(f) \/ DelItem(f)
  \/ \E t \in TTLs : SetTTL(t)
  \/ \E d \in DBs : SwitchDB(d)
  \/ \E f \in Fields, text \in Typed : NewItem(f, text)
  \/ dialog # None /\ \E f \in Fields \cup {dialog.field},
                        text \in Typed \cup {Decoded(dialog.raw)} : Submit(f, text)

Client(j) ==
  \/ Take(j) \/ Reply(j) \/ LinkLost(j) \/ CommandFails(j) \/ Lookup(j)
  \/ WriteDone(j) \/ TTLDone(j) \/ MetaDone(j) \/ FetchDone(j) \/ SelectDone(j) \/ ScanDone(j)

Next == User \/ (\E j \in jobs : Client(j)) \/ IdleLinkLost \/ OtherClient

Spec == Init /\ [][Next]_vars

----------------------------------------------------------------------------
(* Properties.                                                             *)

\* Nothing has gone wrong that the code does not deal with: no call failed,
\* no other client interfered, no list was reset while a write was under way, no
\* two databases were selected at once, and no link was on another database
\* than the rest.
Undisturbed ==
  /\ past \cap {"failed", "others", "strayed", "reset", "crossed"} = {}
  /\ ~({"selected", "second link"} \subseteq past)

\* As long as the client lives on one link and its user waits for answers, an
\* edit is written to the database it was made in (switchDB sets P.DB only
\* after SELECT was answered).
StraysNeedSecondLink ==
  "strayed" \in past => past \cap {"second link", "hurried"} # {}

\* When everything is answered the key has the expiry it had, or that the
\* user gave it, although SET removes it (saveStringKeepTTL); not so if he
\* edits while the cached expiry is being reloaded, or renames the only field.
ExpiryKept ==
  Rest /\ Undisturbed /\ past \cap {"hurried", "emptied"} = {} =>
    \A d \in DBs : data[d].ttl = due[d]

\* When everything is answered, the page and the cached expiry are those of
\* the server, however many edits were under way at once (reloadMeta after
\* every write, and only the newest answer counts).
CacheIsTrue ==
  Rest /\ Undisturbed /\ listed /\ data[db].val # Gone =>
    /\ meta # None /\ meta.ttl = data[db].ttl
    /\ page # None /\ page.rows = data[db].val

\* Some field of the key reads as this text.
Holds(d, text) == \E f \in DOMAIN data[d].val : Decoded(data[d].val[f]) = text

\* What nobody has replaced or deleted is still there, under some field and
\* reading as before, also where a field was renamed by a delete and a write
\* through its codec (editValueItem, decodeField).
ValuesKept ==
  Rest /\ past \cap {"failed", "strayed"} = {} =>
    \A k \in kept : Holds(k[1], k[2])

\* "switchDB selects another database and restarts browsing".
StaysInSelectedDB == "strayed" \in past => "hurried" \in past

\* "rename and TTL-preserving writes": of an edit to which nothing happened.
WritesKeepExpiry == Rest /\ past \subseteq {"emptied"} => \A d \in DBs : data[d].ttl = due[d]

\* decodeField "keeps binary fields lossless through the editor": a field that
\* was renamed, and its text left alone, holds the bytes it held.
BinarySafe ==
  Rest /\ past \cap {"failed", "strayed"} = {} =>
    \A k \in kept : \E f \in DOMAIN data[k[1]].val :
      LET raw == data[k[1]].val[f]
      IN  raw \in UNION {Range(v) : v \in Values[kind]} /\ Decoded(raw) = k[2]
=============================================================================
