---------------------------- MODULE EditsProofs ----------------------------
(***************************************************************************)
(* Proofs about Edits, for any values, texts, databases and bounds: an     *)
(* edit strays only once the pool has a second link or the user has not    *)
(* waited; a text that nobody replaced stays what its codec reads; and     *)
(* when all is answered the page and the cached expiry are those of the    *)
(* server, and the key has the expiry it should have.                      *)
(*                                                                         *)
(* The first is about links: while past has neither of the two, a write or *)
(* a SELECT is the only job of its kind (Alone), so the pool has one link  *)
(* (OneLink), and it is on the database on screen or the one SELECT asked  *)
(* for (OnDB).  The second is about texts: what is on the server, on       *)
(* screen, in a dialog and in a script reads as what was typed (Reads), so *)
(* a kept text is on the server or in a command still to come (Keeps).     *)
(*                                                                         *)
(* The third is for users who do not wait: either no link has left the     *)
(* first database or there is only one (Links), so what is read is of the  *)
(* database on screen, and at any time something is under way that will    *)
(* read what is not yet cached (Cached).  The fourth adds one who does     *)
(* wait (Turns): a save is alone, and what is left of its script leaves    *)
(* the expiry as it should be (SaveKeeps).  The type invariant comes last; *)
(* it needs the kind of the page (PageKind).                               *)
(***************************************************************************)
EXTENDS Edits, TLAPS, SequenceTheorems

IsJob(j) == j = [k \in {"what", "want", "script", "link", "live", "got", "failed"} |-> j[k]]

\* What is left of a script.
Shape(j) ==
  LET s == j.script
  IN  \/ s = << >>
      \/ /\ s = <<s[1]>>
         /\ <<j.what, s[1].op>> \in
              {<<"fetch", "get">>, <<"meta", "meta">>, <<"scan", "scan">>, <<"select", "select">>,
               <<"ttl", "expire">>, <<"save", "set">>, <<"save", "expire">>, <<"edit", "hset">>,
               <<"edit", "hdel">>}
         /\ s[1].op = "select" => s[1].db = j.want
      \/ /\ s = <<s[1], s[2]>>
         /\ <<j.what, s[1].op, s[2].op>> \in
              {<<"save", "lookup", "set">>, <<"save", "set", "expire">>, <<"edit", "hdel", "hset">>}

JobOK(j) ==
  /\ IsJob(j) /\ Shape(j)
  /\ j.want \in DBs /\ j.link \in DBs \cup {None}
  /\ j.script = << >> => j.link = None
  /\ j.script # << >> => j.failed = FALSE

Jobs == \A j \in jobs : JobOK(j)

Places ==
  /\ idle \in Seq(DBs) /\ db \in DBs
  /\ dialog # None => dialog.db \in DBs

Single == past \cap {"second link", "hurried"} = {}
Selected(j) == j.what = "select" /\ j.script = << >> /\ ~j.failed

Alone ==
  /\ \A j \in jobs : j.what \in Writes \cup {"select"} => jobs = {j}
  /\ \A j \in jobs : j.what \in Writes => j.want = db
  /\ dialog # None => dialog.db = db /\ \A j \in jobs : j.what # "select"

OneLink ==
  /\ idle = << >> \/ (idle = <<idle[1]>> /\ \A j \in jobs : j.link = None)
  /\ \A i, j \in jobs : i.link # None /\ j.link # None => i = j

OnDB ==
  /\ \A j \in jobs : Selected(j) => idle = << >> \/ idle[1] = j.want
  /\ (\A j \in jobs : ~Selected(j)) =>
       /\ idle = << >> \/ idle[1] = db
       /\ \A j \in jobs : j.link # None => j.link = db

LinkInv == Single => Alone /\ OneLink /\ OnDB /\ "strayed" \notin past

AllLegible(v) == \A f \in DOMAIN v : Legible(v[f])
IsPut(c) == c.op \in {"set", "hset"}

\* The values to start from, and what is typed, are texts that their encodings
\* read as: none, for one, that gzip hides and that only starts like PHP.
PlainTexts ==
  /\ \A k \in Kinds : \A v \in Values[k] : \A f \in DOMAIN v : Legible(v[f])
  /\ \A text \in Typed : text.lang # "phplike"

ReadsAsTyped(c) == IsPut(c) => Legible(c.raw) /\ Decoded(c.raw) = c.text

\* A field that is renamed with its text is deleted and then written so.
ScriptReads(j) ==
  /\ \A c \in Range(j.script) : ReadsAsTyped(c)
  /\ j.script # << >> /\ Head(j.script).op = "hdel" /\ Head(j.script).text # NoText =>
       Tail(j.script) # << >> /\ Head(Tail(j.script)).text = Head(j.script).text
  /\ j.what = "fetch" /\ j.script = << >> /\ ~j.failed => AllLegible(j.got.val)

\* A fetch whose answer counts is for a page.
IsPage(p) == p = [kind |-> p.kind, rows |-> p.rows]

Paged ==
  /\ page # None => IsPage(page)
  /\ \A j \in jobs : j.what = "fetch" /\ j.live => IsPage(page)

Reads ==
  /\ data = [d \in DBs |-> [val |-> data[d].val, ttl |-> data[d].ttl]]
  /\ \A d \in DBs : AllLegible(data[d].val)
  /\ page # None => AllLegible(page.rows)
  /\ dialog # None => Legible(dialog.raw)
  /\ \A j \in jobs : ScriptReads(j)

\* This text is about to be written there.
Coming(d, text) ==
  \E j \in jobs : j.want = d /\ \E c \in Range(j.script) : IsPut(c) /\ c.text = text

Keeps ==
  past \cap {"failed", "strayed"} = {} =>
    \A k \in kept : k \in DBs \X Texts /\ (Holds(k[1], k[2]) \/ Coming(k[1], k[2]))

IInv == Jobs /\ Places /\ LinkInv /\ Paged /\ Reads /\ Keeps

----------------------------------------------------------------------------
(* The jobs.                                                               *)

LEMMA HeadsAndTails ==
  /\ \A a : Head(<<a>>) = a /\ Tail(<<a>>) = << >> /\ <<a>> # << >> /\ Len(<<a>>) = 1
  /\ \A a, b : Head(<<a, b>>) = a /\ Tail(<<a, b>>) = <<b>> /\ <<a, b>> # << >> /\ Len(<<a, b>>) = 2
  /\ \A a, b : <<a>> \o << >> = <<a>> /\ <<a>> \o <<b>> = <<a, b>>
  <1>1. \A a : Head(<<a>>) = a /\ Tail(<<a>>) = << >> /\ <<a>> # << >> /\ Len(<<a>>) = 1
    OBVIOUS
  <1>2. \A a, b : Head(<<a, b>>) = a /\ Tail(<<a, b>>) = <<b>> /\ <<a, b>> # << >> /\ Len(<<a, b>>) = 2
    OBVIOUS
  <1>3. ASSUME NEW a, NEW b PROVE <<a>> \o << >> = <<a>> /\ <<a>> \o <<b>> = <<a, b>>
    <2>1. a \in {a, b} /\ b \in {a, b} /\ \A S : \A x \in S : <<x>> \in Seq(S)
      OBVIOUS
    <2>0. <<a>> \in Seq({a, b}) /\ <<b>> \in Seq({a, b})
      BY ONLY <2>1
    <2>2. <<a>> \o << >> = <<a>>
      BY <2>0, ConcatEmptySeq
    <2>3. Append(<<a>>, b) = <<a, b>>
      <3>1. PICK s : s = Append(<<a>>, b)
        OBVIOUS
      <3>2. /\ s \in Seq({a, b}) /\ Len(s) = 2
            /\ s[1] = a /\ s[2] = b
        BY <2>0, <2>1, <3>1, AppendProperties
      <3>3. PICK t : t = <<a, b>>
        OBVIOUS
      <3>4. t \in Seq({a, b}) /\ Len(t) = 2 /\ t[1] = a /\ t[2] = b
        BY <3>3
      <3>5. s = t
        BY <3>2, <3>4, SeqEqual
      <3> QED
        BY <3>1, <3>3, <3>5
    <2>4. <<a>> \o <<b>> = Append(<<a>>, b)
      BY <2>0, <2>1, AppendIsConcat
    <2> QED
      BY <2>2, <2>3, <2>4
  <1> QED
    BY <1>1, <1>2, <1>3

LEMMA ShapeOfTail ==
  ASSUME NEW j, Shape(j), j.script # << >>,
         NEW n, n.what = j.what, n.want = j.want, n.script = Tail(j.script)
  PROVE  Shape(n)
  <1> DEFINE s == j.script
  <1>1. CASE s = <<s[1]>>
    <2>1. n.script = << >>
      BY <1>1, HeadsAndTails
    <2> QED
      BY <2>1 DEF Shape
  <1>2. CASE /\ s = <<s[1], s[2]>>
             /\ <<j.what, s[1].op, s[2].op>> \in
                  {<<"save", "lookup", "set">>, <<"save", "set", "expire">>,
                   <<"edit", "hdel", "hset">>}
    <2>1. PICK b : b = s[2]
      OBVIOUS
    <2>0. PICK a : a = s[1]
      OBVIOUS
    <2>2. n.script = <<b>> /\ n.script[1] = b
      <3>1. s = <<a, b>>
        BY <1>2, <2>0, <2>1
      <3>2. Tail(s) = <<b>>
        BY <3>1, HeadsAndTails
      <3>3. PICK q : q = <<b>>
        OBVIOUS
      <3>4. n.script = q /\ q[1] = b
        BY <3>2, <3>3
      <3> QED
        BY <3>3, <3>4
    <2>3. <<n.what, b.op>> \in {<<"save", "set">>, <<"save", "expire">>, <<"edit", "hset">>}
      BY <1>2, <2>1
    <2> QED
      BY <2>2, <2>3 DEF Shape
  <1> QED
    BY <1>1, <1>2 DEF Shape

\* Only a save looks the expiry up, and then it writes.
LEMMA LookupIsSave ==
  ASSUME NEW j, Shape(j), j.script # << >>, Head(j.script).op = "lookup"
  PROVE  /\ j.what = "save" /\ j.script = <<j.script[1], j.script[2]>>
         /\ j.script[2].op = "set"
         /\ Tail(j.script) = <<j.script[2]>>
  <1> DEFINE s == j.script
  <1>1. CASE /\ s = <<s[1]>>
             /\ <<j.what, s[1].op>> \in
                  {<<"fetch", "get">>, <<"meta", "meta">>, <<"scan", "scan">>,
                   <<"select", "select">>, <<"ttl", "expire">>, <<"save", "set">>,
                   <<"save", "expire">>, <<"edit", "hset">>, <<"edit", "hdel">>}
    <2>1. Head(s) = s[1]
      BY <1>1, HeadsAndTails
    <2> QED
      BY <1>1, <2>1
  <1>2. CASE /\ s = <<s[1], s[2]>>
             /\ <<j.what, s[1].op, s[2].op>> \in
                  {<<"save", "lookup", "set">>, <<"save", "set", "expire">>,
                   <<"edit", "hdel", "hset">>}
    <2>1. PICK a, b : a = s[1] /\ b = s[2]
      OBVIOUS
    <2>2. s = <<a, b>>
      BY <1>2, <2>1
    <2>3. Head(s) = a /\ Tail(s) = <<b>>
      BY <2>2, HeadsAndTails
    <2> QED
      BY <1>2, <2>1, <2>3
  <1> QED
    BY <1>1, <1>2 DEF Shape

\* What a job may be while it runs.
LEMMA LinkedIsOK ==
  ASSUME NEW j, JobOK(j), j.script # << >>, NEW d \in DBs \cup {None}
  PROVE  JobOK([j EXCEPT !.link = d])
  <1> DEFINE n == [j EXCEPT !.link = d]
  <1>1. /\ IsJob(n) /\ n.link = d
        /\ n.what = j.what /\ n.want = j.want /\ n.failed = j.failed /\ n.script = j.script
    BY DEF JobOK, IsJob
  <1> HIDE DEF n
  <1>2. Shape(n)
    BY <1>1 DEF JobOK, Shape
  <1>3. JobOK(n)
    BY <1>1, <1>2 DEF JobOK
  <1> QED
    BY <1>3 DEF n

LEMMA AnsweredIsOK ==
  ASSUME NEW j, JobOK(j), j.script # << >>, NEW x
  PROVE  JobOK([j EXCEPT !.script = Tail(@), !.link = None, !.got = x])
  <1>a. PICK n : n = [j EXCEPT !.script = Tail(@), !.link = None, !.got = x]
    OBVIOUS
  <1>0. PICK t : t = Tail(j.script)
    OBVIOUS
  <1>1. n = [j EXCEPT !.script = t, !.link = None, !.got = x]
    BY <1>0, <1>a
  <1>2. /\ IsJob(n) /\ n.link = None
        /\ n.what = j.what /\ n.want = j.want /\ n.failed = j.failed /\ n.script = t
    BY <1>1 DEF JobOK, IsJob
  <1>3. Shape(n)
    BY <1>0, <1>2, ShapeOfTail DEF JobOK
  <1>4. JobOK(n)
    BY <1>2, <1>3 DEF JobOK
  <1> QED
    BY <1>4, <1>a

LEMMA FailedIsOK ==
  ASSUME NEW j, JobOK(j)
  PROVE  JobOK([j EXCEPT !.script = << >>, !.link = None, !.failed = TRUE])
  <1> DEFINE n == [j EXCEPT !.script = << >>, !.link = None, !.failed = TRUE]
  <1>1. IsJob(n) /\ n.link = None /\ n.script = << >> /\ n.want = j.want
    BY DEF JobOK, IsJob
  <1> HIDE DEF n
  <1>2. JobOK(n)
    BY <1>1 DEF JobOK, Shape
  <1> QED
    BY <1>2 DEF n

LEMMA OutdatedIsOK ==
  ASSUME NEW js, \A j \in js : JobOK(j), NEW what
  PROVE  \A j \in Outdated(js, what) : JobOK(j)
  <1> SUFFICES ASSUME NEW j \in js, NEW n, n = [j EXCEPT !.live = (j.what # what) /\ @]
               PROVE  JobOK(n)
    BY DEF Outdated
  <1>1. /\ IsJob(n) /\ n.link = j.link
        /\ n.what = j.what /\ n.want = j.want /\ n.failed = j.failed /\ n.script = j.script
    BY DEF JobOK, IsJob
  <1> QED
    BY <1>1 DEF JobOK, Shape

LEMMA NewIsOK ==
  ASSUME NEW d \in DBs
  PROVE  /\ JobOK(Job("fetch", d, <<Cmd("get")>>))
         /\ JobOK(Job("meta", d, <<Cmd("meta")>>))
         /\ JobOK(Job("scan", d, <<Cmd("scan")>>))
         /\ JobOK(Job("select", d, <<[op |-> "select", db |-> d]>>))
         /\ \A t : JobOK(Job("ttl", d, <<[op |-> "expire", ttl |-> t]>>))
  <1>1. ASSUME NEW what, NEW c, c.op = "select" => c.db = d,
               <<what, c.op>> \in
                 {<<"fetch", "get">>, <<"meta", "meta">>, <<"scan", "scan">>,
                  <<"select", "select">>, <<"ttl", "expire">>}
        PROVE  JobOK(Job(what, d, <<c>>))
    <2>0. PICK q : q = <<c>>
      OBVIOUS
    <2>a. PICK n : n = Job(what, d, q)
      OBVIOUS
    <2>1. IsJob(n) /\ n.what = what /\ n.want = d /\ n.script = <<c>> /\ n.link = None /\ n.failed = FALSE
      BY <2>0, <2>a DEF IsJob, Job
    <2>2. n.script[1] = c /\ n.script # << >>
      BY <2>1
    <2>3. Shape(n)
      BY <1>1, <2>1, <2>2 DEF Shape
    <2>4. JobOK(n)
      BY <2>1, <2>2, <2>3 DEF JobOK
    <2> QED
      BY <2>0, <2>a, <2>4
  <1>2. Cmd("get").op = "get" /\ Cmd("meta").op = "meta" /\ Cmd("scan").op = "scan"
    BY DEF Cmd
  <1>3. \A t : [op |-> "expire", ttl |-> t].op = "expire"
    OBVIOUS
  <1>4. [op |-> "select", db |-> d].op = "select" /\ [op |-> "select", db |-> d].db = d
    OBVIOUS
  <1>5. /\ JobOK(Job("fetch", d, <<Cmd("get")>>))
        /\ JobOK(Job("meta", d, <<Cmd("meta")>>))
        /\ JobOK(Job("scan", d, <<Cmd("scan")>>))
    BY <1>1, <1>2
  <1>6. JobOK(Job("select", d, <<[op |-> "select", db |-> d]>>))
    BY <1>1, <1>4
  <1>7. ASSUME NEW t PROVE JobOK(Job("ttl", d, <<[op |-> "expire", ttl |-> t]>>))
    BY <1>1, <1>3
  <1> QED
    BY <1>5, <1>6, <1>7

\* What the user starts when he writes.
LEMMA WritesAreOK ==
  ASSUME NEW d \in DBs, NEW put, NEW del, del.op = "hdel"
  PROVE  /\ put.op = "set" => JobOK(Job("save", d, <<Cmd("lookup"), put>>))
         /\ put.op = "hset" => JobOK(Job("edit", d, <<put>>))
         /\ put.op = "hset" => JobOK(Job("edit", d, <<del, put>>))
         /\ JobOK(Job("edit", d, <<del>>))
  <1>1. ASSUME NEW c, c.op \in {"hset", "hdel"} PROVE JobOK(Job("edit", d, <<c>>))
    <2>1. PICK q : q = <<c>>
      OBVIOUS
    <2>2. PICK n : n = Job("edit", d, q)
      OBVIOUS
    <2>3. IsJob(n) /\ n.what = "edit" /\ n.want = d /\ n.script = <<c>> /\ n.link = None /\ n.failed = FALSE
      BY <2>1, <2>2 DEF IsJob, Job
    <2>4. n.script[1] = c /\ n.script # << >>
      BY <2>3
    <2>5. JobOK(n)
      BY <1>1, <2>3, <2>4 DEF JobOK, Shape
    <2> QED
      BY <2>1, <2>2, <2>5
  <1>2. ASSUME NEW what, NEW a, NEW b,
               <<what, a.op, b.op>> \in {<<"save", "lookup", "set">>, <<"edit", "hdel", "hset">>}
        PROVE  JobOK(Job(what, d, <<a, b>>))
    <2>1. PICK q : q = <<a, b>>
      OBVIOUS
    <2>2. PICK n : n = Job(what, d, q)
      OBVIOUS
    <2>3. /\ IsJob(n) /\ n.what = what /\ n.want = d /\ n.script = <<a, b>> /\ n.link = None /\ n.failed = FALSE
      BY <2>1, <2>2 DEF IsJob, Job
    <2>4. n.script[1] = a /\ n.script[2] = b /\ n.script # << >>
      BY <2>3
    <2>5. JobOK(n)
      BY <1>2, <2>3, <2>4 DEF JobOK, Shape
    <2> QED
      BY <2>1, <2>2, <2>5
  <1>3. Cmd("lookup").op = "lookup"
    BY DEF Cmd
  <1> QED
    BY <1>1, <1>2, <1>3

\* Starting a scan, or reading the metadata again.
LEMMA ReloadsAreOK ==
  ASSUME NEW js, \A j \in js : JobOK(j), db \in DBs, NEW d \in DBs
  PROVE  /\ \A j \in Outdated(Outdated(js, "fetch"), "scan") \cup {Job("scan", d, <<Cmd("scan")>>)} :
              JobOK(j)
         /\ \A j \in Reloaded(js) : JobOK(j)
         /\ \A j \in Reloaded(js) \cup {Fetch} : JobOK(j)
  BY OutdatedIsOK, NewIsOK DEF Reloaded, MetaCall, Fetch

\* A save's script once the expiry has been looked up.
LEMMA LookedUpIsOK ==
  ASSUME Jobs, NEW j \in jobs, Lookup(j)
  PROVE  Jobs'
  <1> DEFINE rest == IF meta = None \/ meta.ttl = 0 THEN << >>
                     ELSE <<[op |-> "expire", ttl |-> meta.ttl]>>
  <1>1. PICK put : put = j.script[2]
    OBVIOUS
  <1>2. j.what = "save" /\ put.op = "set" /\ Tail(j.script) = <<put>>
    BY <1>1, LookupIsSave DEF Jobs, JobOK, Lookup
  <1>3. PICK s : s = Tail(j.script) \o rest
    OBVIOUS
  <1>4. PICK n : n = [j EXCEPT !.script = s]
    OBVIOUS
  <1>5. /\ IsJob(n) /\ n.script = s
        /\ n.what = j.what /\ n.want = j.want /\ n.link = j.link /\ n.failed = j.failed
    BY <1>4 DEF IsJob, Jobs, JobOK
  <1>6. s # << >> /\ Shape(n)
    <2>1. CASE rest = << >>
      <3>0. s = <<put>> \o << >>
        BY <1>2, <1>3, <2>1
      <3>1. s = <<put>> /\ s # << >>
        BY <3>0, HeadsAndTails
      <3>2. s[1] = put
        BY <3>1
      <3> QED
        BY <1>2, <1>5, <3>1, <3>2 DEF Shape
    <2>2. CASE rest # << >>
      <3>1. PICK e : e = [op |-> "expire", ttl |-> meta.ttl]
        OBVIOUS
      <3>2. rest = <<e>> /\ e.op = "expire"
        BY <2>2, <3>1
      <3>b. s = <<put>> \o <<e>>
        BY <1>2, <1>3, <3>2
      <3>3. s = <<put, e>> /\ s # << >>
        BY <3>b, HeadsAndTails
      <3>4. s[1] = put /\ s[2] = e
        BY <3>3
      <3> QED
        BY <1>2, <1>5, <3>2, <3>3, <3>4 DEF Shape
    <2> QED
      BY <2>1, <2>2
  <1>7. JobOK(n)
    BY <1>5, <1>6 DEF Jobs, JobOK, Lookup
  <1>8. jobs' = (jobs \ {j}) \cup {n}
    <2>1. n = [j EXCEPT !.script = Tail(@) \o IF meta = None \/ meta.ttl = 0 THEN << >>
                                        ELSE <<[op |-> "expire", ttl |-> meta.ttl]>>]
      BY <1>3, <1>4
    <2> QED
      BY <2>1 DEF Lookup
  <1> QED
    BY <1>7, <1>8 DEF Jobs

LEMMA JobsClient ==
  ASSUME Jobs, Places, NEW j \in jobs, Client(j)
  PROVE  Jobs' /\ Places'
  <1>0. JobOK(j) /\ \A i \in jobs : JobOK(i)
    BY DEF Jobs
  <1>a. \A d \in DBs : Append(idle, d) \in Seq(DBs)
    BY DEF Places
  <1>b. idle # << >> => Last(idle) \in DBs /\ Front(idle) \in Seq(DBs)
    <2> SUFFICES ASSUME idle # << >> PROVE Last(idle) \in DBs /\ Front(idle) \in Seq(DBs)
      OBVIOUS
    <2>1. Len(idle) \in Nat /\ Len(idle) > 0 /\ idle \in Seq(DBs)
      BY DEF Places
    <2> QED
      BY <2>1 DEF Last, Front
  <1>1. CASE Take(j)
    <2>1. PICK d \in DBs : jobs' = (jobs \ {j}) \cup {[j EXCEPT !.link = d]}
      BY <1>1, <1>b, EditsAssumption DEF Take
    <2>2. JobOK([j EXCEPT !.link = d])
      BY <1>0, <1>1, LinkedIsOK DEF Take
    <2>3. idle' \in Seq(DBs)
      BY <1>1, <1>b DEF Take, Places
    <2> QED
      BY <1>0, <1>1, <2>1, <2>2, <2>3 DEF Take, Jobs, Places
  <1>2. CASE Reply(j)
    <2>1. j.script # << >> /\ j.link \in DBs
      BY <1>0, <1>2 DEF Reply, JobOK
    <2>2. PICK x : jobs' = (jobs \ {j}) \cup {[j EXCEPT !.script = Tail(@), !.link = None, !.got = x]}
      BY <1>2 DEF Reply
    <2>3. JobOK([j EXCEPT !.script = Tail(@), !.link = None, !.got = x])
      BY <1>0, <2>1, AnsweredIsOK
    <2>4. Head(j.script).op = "select" => Head(j.script).db \in DBs
      <3>1. CASE j.script = <<j.script[1]>>
        <4>1. Head(j.script) = j.script[1]
          BY <3>1, HeadsAndTails
        <4> QED
          BY <1>0, <2>1, <3>1, <4>1 DEF JobOK, Shape
      <3>2. CASE /\ j.script = <<j.script[1], j.script[2]>>
                 /\ <<j.what, j.script[1].op, j.script[2].op>> \in
                      {<<"save", "lookup", "set">>, <<"save", "set", "expire">>,
                       <<"edit", "hdel", "hset">>}
        <4>1. PICK a, b : a = j.script[1] /\ b = j.script[2]
          OBVIOUS
        <4>2. j.script = <<a, b>>
          BY <3>2, <4>1
        <4>3. Head(j.script) = a
          BY <4>2, HeadsAndTails
        <4> QED
          BY <3>2, <4>1, <4>3
      <3> QED
        BY <1>0, <2>1, <3>1, <3>2 DEF JobOK, Shape
    <2>5. PICK d \in DBs : idle' = Append(idle, d)
      BY <1>2, <2>1, <2>4 DEF Reply
    <2>6. Jobs'
      BY <1>0, <2>2, <2>3 DEF Jobs
    <2> QED
      BY <1>2, <1>a, <2>5, <2>6 DEF Reply, Places
  <1>3. CASE LinkLost(j)
    <2>1. j.script # << >>
      BY <1>0, <1>3 DEF LinkLost, JobOK
    <2>2. JobOK([j EXCEPT !.link = None])
      BY <1>0, <2>1, LinkedIsOK
    <2> QED
      BY <1>0, <1>3, <2>2 DEF LinkLost, Jobs, Places
  <1>4. CASE CommandFails(j)
    <2>1. JobOK([j EXCEPT !.script = << >>, !.link = None, !.failed = TRUE])
      BY <1>0, FailedIsOK
    <2>2. j.link \in DBs
      BY <1>0, <1>4 DEF CommandFails, JobOK
    <2> QED
      BY <1>0, <1>4, <1>a, <2>1, <2>2 DEF CommandFails, Jobs, Places
  <1>5. CASE Lookup(j)
    BY <1>5, LookedUpIsOK DEF Lookup, Places
  <1>6. CASE WriteDone(j)
    <2>1. \A i \in Reloaded(jobs \ {j}) \cup {Fetch} : JobOK(i)
      BY <1>0, ReloadsAreOK DEF Places
    <2> QED
      BY <1>0, <1>6, <2>1 DEF WriteDone, Untouched, Jobs, Places
  <1>7. CASE TTLDone(j)
    <2>1. \A i \in Reloaded(jobs \ {j}) : JobOK(i)
      BY <1>0, ReloadsAreOK DEF Places
    <2> QED
      BY <1>0, <1>7, <2>1 DEF TTLDone, Untouched, Jobs, Places
  <1>8. CASE MetaDone(j)
    <2>1. \A i \in Outdated(jobs \ {j}, "fetch") : JobOK(i)
      BY <1>0, OutdatedIsOK
    <2>2. JobOK(Fetch)
      BY NewIsOK DEF Fetch, Places
    <2> QED
      BY <1>0, <1>8, <2>1, <2>2 DEF MetaDone, Untouched, Jobs, Places
  <1>9. CASE FetchDone(j)
    BY <1>0, <1>9 DEF FetchDone, Untouched, Jobs, Places
  <1>10. CASE SelectDone(j)
    <2>1. CASE j.failed
      BY <1>0, <1>10, <2>1 DEF SelectDone, Untouched, Jobs, Places
    <2>2. CASE ~j.failed
      <3>1. j.want \in DBs
        BY <1>0 DEF JobOK
      <3>2. \A i \in Outdated(Outdated(jobs \ {j}, "fetch"), "scan")
                      \cup {Job("scan", j.want, <<Cmd("scan")>>)} : JobOK(i)
        BY <1>0, <3>1, ReloadsAreOK DEF Places
      <3>3. jobs' = Outdated(Outdated(jobs \ {j}, "fetch"), "scan")
                      \cup {Job("scan", j.want, <<Cmd("scan")>>)}
        BY <1>10, <2>2 DEF SelectDone, ScanStarted
      <3>4. Jobs'
        BY <3>2, <3>3 DEF Jobs
      <3>5. idle' \in Seq(DBs)
        <4>1. <<Home>> \in Seq(DBs)
          BY EditsAssumption
        <4> QED
          BY <1>10, <2>2, <4>1 DEF SelectDone, Places
      <3> QED
        BY <1>10, <2>2, <3>1, <3>4, <3>5 DEF SelectDone, Untouched, Places
    <2> QED
      BY <2>1, <2>2
  <1>11. CASE ScanDone(j)
    <2>1. \A i \in Reloaded(jobs \ {j}) : JobOK(i)
      BY <1>0, ReloadsAreOK DEF Places
    <2> QED
      BY <1>0, <1>11, <2>1 DEF ScanDone, Untouched, Jobs, Places
  <1> QED
    BY <1>1, <1>2, <1>3, <1>4, <1>5, <1>6, <1>7, <1>8, <1>9, <1>10, <1>11 DEF Client

LEMMA JobsUser ==
  ASSUME Jobs, Places, User
  PROVE  Jobs' /\ Places'
  <1>0. \A i \in jobs : JobOK(i)
    BY DEF Jobs
  <1>1. CASE CancelEditor
    BY <1>1 DEF CancelEditor, Jobs, Places
  <1>2. CASE Rescan
    <2>1. \A i \in Outdated(Outdated(jobs, "fetch"), "scan")
                    \cup {Job("scan", db, <<Cmd("scan")>>)} : JobOK(i)
      BY <1>0, ReloadsAreOK DEF Places
    <2> QED
      BY <1>2, <2>1 DEF Rescan, ScanStarted, Jobs, Places
  <1>3. ASSUME NEW f, OpenEditor(f) PROVE Jobs' /\ Places'
    <2>1. dialog'.db = db
      BY <1>3 DEF OpenEditor
    <2> QED
      BY <1>3, <2>1 DEF OpenEditor, Jobs, Places
  <1>4. ASSUME NEW f, DelItem(f) PROVE Jobs' /\ Places'
    <2>1. PICK del : del = Del(f, NoText)
      OBVIOUS
    <2>2. del.op = "hdel"
      BY <2>1 DEF Del
    <2>3. JobOK(Job("edit", db, <<del>>))
      BY <2>2, WritesAreOK DEF Places
    <2> QED
      BY <1>0, <1>4, <2>1, <2>3 DEF DelItem, Start, Jobs, Places
  <1>5. ASSUME NEW t, SetTTL(t) PROVE Jobs' /\ Places'
    <2>1. JobOK(Job("ttl", db, <<[op |-> "expire", ttl |-> t]>>))
      BY NewIsOK DEF Places
    <2> QED
      BY <1>0, <1>5, <2>1 DEF SetTTL, Start, Jobs, Places
  <1>6. ASSUME NEW d \in DBs, SwitchDB(d) PROVE Jobs' /\ Places'
    <2>1. JobOK(Job("select", d, <<[op |-> "select", db |-> d]>>))
      BY NewIsOK
    <2> QED
      BY <1>0, <1>6, <2>1 DEF SwitchDB, Start, Jobs, Places
  <1>7. ASSUME NEW f, NEW text, NewItem(f, text) PROVE Jobs' /\ Places'
    <2>1. PICK put : put = Put("hset", f, Bytes(text), text)
      OBVIOUS
    <2>2. put.op = "hset"
      BY <2>1 DEF Put
    <2>3. PICK del : del = Del(f, text)
      OBVIOUS
    <2>a. del.op = "hdel"
      BY <2>3 DEF Del
    <2>4. JobOK(Job("edit", db, <<put>>))
      BY <2>2, <2>a, WritesAreOK DEF Places
    <2> QED
      BY <1>0, <1>7, <2>1, <2>4 DEF NewItem, Start, Jobs, Places
  <1>8. ASSUME NEW f, NEW text, Submit(f, text) PROVE Jobs' /\ Places'
    <2>1. PICK put : put = Put(IF kind = "string" THEN "set" ELSE "hset", f, Written(dialog.raw, text), text)
      OBVIOUS
    <2>2. put.op = IF kind = "string" THEN "set" ELSE "hset"
      BY <2>1 DEF Put
    <2>3. PICK del : del = Del(dialog.field, text)
      OBVIOUS
    <2>4. del.op = "hdel"
      BY <2>3 DEF Del
    <2>5. dialog.db \in DBs
      BY <1>8 DEF Submit, Places
    <2>6. CASE kind = "string"
      <3>1. JobOK(Job("save", dialog.db, <<Cmd("lookup"), put>>))
        BY <2>2, <2>4, <2>5, <2>6, WritesAreOK
      <3>2. jobs' = jobs \cup {Job("save", dialog.db, <<Cmd("lookup"), put>>)}
        BY <1>8, <2>1, <2>6 DEF Submit, Start
      <3> QED
        BY <1>0, <1>8, <3>1, <3>2 DEF Submit, Jobs, Places
    <2>7. CASE kind # "string" /\ f = dialog.field
      <3>1. JobOK(Job("edit", dialog.db, <<put>>))
        BY <2>2, <2>4, <2>5, <2>7, WritesAreOK
      <3>2. jobs' = jobs \cup {Job("edit", dialog.db, <<put>>)}
        BY <1>8, <2>1, <2>7 DEF Submit, Start
      <3> QED
        BY <1>0, <1>8, <3>1, <3>2 DEF Submit, Jobs, Places
    <2>8. CASE kind # "string" /\ f # dialog.field
      <3>1. JobOK(Job("edit", dialog.db, <<del, put>>))
        BY <2>2, <2>4, <2>5, <2>8, WritesAreOK
      <3>2. jobs' = jobs \cup {Job("edit", dialog.db, <<del, put>>)}
        BY <1>8, <2>1, <2>3, <2>8 DEF Submit, Start
      <3> QED
        BY <1>0, <1>8, <3>1, <3>2 DEF Submit, Jobs, Places
    <2> QED
      BY <2>6, <2>7, <2>8
  <1> QED
    BY <1>1, <1>2, <1>3, <1>4, <1>5, <1>6, <1>7, <1>8 DEF User

LEMMA JobsStep ==
  ASSUME Jobs, Places, [Next]_vars
  PROVE  Jobs' /\ Places'
  <1>1. CASE IdleLinkLost
    <2>1. PICK i \in DOMAIN idle : idle' = RemoveAt(idle, i)
      BY <1>1 DEF IdleLinkLost
    <2>2. idle \in Seq(DBs) /\ Len(idle) \in Nat /\ i \in 1 .. Len(idle)
      BY <2>1 DEF Places
    <2>3. RemoveAt(idle, i) = SubSeq(idle, 1, i - 1) \o SubSeq(idle, i + 1, Len(idle))
      BY DEF RemoveAt
    <2>4. SubSeq(idle, 1, i - 1) \in Seq(DBs) /\ SubSeq(idle, i + 1, Len(idle)) \in Seq(DBs)
      BY <2>2
    <2>5. idle' \in Seq(DBs)
      BY <2>1, <2>3, <2>4
    <2> QED
      BY <1>1, <2>5 DEF IdleLinkLost, Jobs, Places
  <1>2. CASE OtherClient
    BY <1>2 DEF OtherClient, Jobs, Places
  <1>3. CASE UNCHANGED vars
    BY <1>3 DEF vars, Jobs, Places
  <1> QED
    BY <1>1, <1>2, <1>3, JobsClient, JobsUser DEF Next

----------------------------------------------------------------------------
(* One link.                                                               *)

LEMMA PastGrows ==
  ASSUME [Next]_vars
  PROVE  past \subseteq past'
  <1>1. ASSUME NEW j \in jobs, Client(j) PROVE past \subseteq past'
    BY <1>1 DEF Client, Take, Reply, LinkLost, CommandFails, Lookup, WriteDone, TTLDone,
                MetaDone, FetchDone, SelectDone, ScanDone, Recorded
  <1>2. CASE User
    BY <1>2 DEF User, CancelEditor, Rescan, OpenEditor, DelItem, SetTTL, SwitchDB, NewItem,
                Submit, Pressed
  <1> QED
    BY <1>1, <1>2 DEF Next, IdleLinkLost, OtherClient, vars

OneLinkInv == Alone /\ OneLink /\ OnDB /\ "strayed" \notin past

\* Jobs that go on as they were, and reads that begin, disturb nothing.
LEMMA ReadsDisturbNothing ==
  ASSUME OneLinkInv, NEW j \in jobs, j.what # "select", j.script = << >>, j.link = None,
         \A n \in jobs' :
           \/ n.what \notin Writes \cup {"select"} /\ n.link = None
           \/ \E i \in jobs \ {j} : /\ n.what = i.what /\ n.want = i.want /\ n.script = i.script
                                    /\ n.link = i.link /\ n.failed = i.failed,
         \A m, n \in jobs' : m.link # None /\ n.link # None => m = n,
         UNCHANGED <<idle, db, dialog>>, past' = past
  PROVE  OneLinkInv'
  <1>1. \A n \in jobs' : n.what \notin Writes \cup {"select"}
    BY DEF OneLinkInv, Alone
  <1>2. Alone'
    BY <1>1 DEF OneLinkInv, Alone
  <1>3. OneLink'
    BY DEF OneLinkInv, OneLink
  <1>4. OnDB'
    <2>1. \A i \in jobs : ~Selected(i)
      BY DEF OneLinkInv, Alone, Selected
    <2>2. \A n \in jobs' : ~Selected(n)
      BY <1>1 DEF Selected
    <2> QED
      BY <2>1, <2>2 DEF OneLinkInv, OnDB
  <1> QED
    BY <1>2, <1>3, <1>4 DEF OneLinkInv

LEMMA OutdatedSame ==
  ASSUME NEW js, \A j \in js : JobOK(j), NEW what, NEW n \in Outdated(js, what)
  PROVE  \E i \in js : /\ n.what = i.what /\ n.want = i.want /\ n.script = i.script
                       /\ n.link = i.link /\ n.failed = i.failed /\ n.got = i.got
  <1>1. PICK i \in js : n = [i EXCEPT !.live = (i.what # what) /\ @]
    BY DEF Outdated
  <1> QED
    BY <1>1 DEF JobOK, IsJob

LEMMA OutdatedOne ==
  ASSUME NEW js, \A j \in js : JobOK(j), NEW what,
         \A i, j \in js : i.link # None /\ j.link # None => i = j
  PROVE  \A m, n \in Outdated(js, what) : m.link # None /\ n.link # None => m = n
  <1> SUFFICES ASSUME NEW i \in js, NEW j \in js,
                      NEW m, m = [i EXCEPT !.live = (i.what # what) /\ @], m.link # None,
                      NEW n, n = [j EXCEPT !.live = (j.what # what) /\ @], n.link # None
               PROVE  m = n
    BY DEF Outdated
  <1>1. m.link = i.link /\ n.link = j.link
    BY DEF JobOK, IsJob
  <1>2. i = j
    BY <1>1
  <1> QED
    BY <1>2

LEMMA NewReads ==
  \A n \in {Fetch, MetaCall} : n.what \in {"fetch", "meta"} /\ n.link = None
  BY DEF Fetch, MetaCall, Job

\* A read, or a write, is answered: what is left and what begins.
LEMMA AnswersDisturbNothing ==
  ASSUME Jobs, OneLinkInv, NEW j \in jobs, j.what # "select", j.script = << >>,
         NEW what, NEW rest \in {jobs \ {j}, Outdated(jobs \ {j}, what)},
         jobs' \subseteq rest \cup {Fetch, MetaCall},
         UNCHANGED <<idle, db, dialog>>, past' = past
  PROVE  OneLinkInv'
  <1>1. j.link = None /\ \A i \in jobs : JobOK(i)
    BY DEF Jobs, JobOK
  <1>2. ASSUME NEW n \in jobs'
        PROVE  \/ n.what \notin Writes \cup {"select"} /\ n.link = None
               \/ \E i \in jobs \ {j} : /\ n.what = i.what /\ n.want = i.want /\ n.script = i.script
                                        /\ n.link = i.link /\ n.failed = i.failed
    BY <1>1, OutdatedSame, NewReads DEF Writes
  <1>3. \A m, n \in jobs \ {j} : m.link # None /\ n.link # None => m = n
    BY DEF OneLinkInv, OneLink
  <1>4. \A m, n \in Outdated(jobs \ {j}, what) : m.link # None /\ n.link # None => m = n
    BY <1>1, <1>3, OutdatedOne
  <1>5. \A m, n \in jobs' : m.link # None /\ n.link # None => m = n
    BY <1>3, <1>4, NewReads
  <1> QED
    BY <1>1, <1>2, <1>5, ReadsDisturbNothing

\* The command of a job that runs is on the database of the panes.
LEMMA LinkedOnDB ==
  ASSUME Jobs, OneLinkInv, NEW j \in jobs, j.link # None
  PROVE  /\ j.script # << >> /\ j.link = db /\ idle = << >>
         /\ \A i \in jobs \ {j} : i.link = None
         /\ \A i \in jobs : ~Selected(i)
  <1>1. j.script # << >> /\ idle = << >> /\ \A i \in jobs \ {j} : i.link = None
    BY DEF Jobs, JobOK, OneLinkInv, OneLink
  <1>2. \A i \in jobs : ~Selected(i)
    BY <1>1 DEF OneLinkInv, Alone, Selected
  <1> QED
    BY <1>1, <1>2 DEF OneLinkInv, OnDB

LEMMA SingleLast == \A x : Last(<<x>>) = x /\ Front(<<x>>) = << >> /\ Append(<< >>, x) = <<x>>
  BY DEF Last, Front

\* Only SELECT leaves its link on another database.
LEMMA SelectsOnly ==
  ASSUME NEW j, JobOK(j), j.script # << >>
  PROVE  /\ Head(j.script).op = "select" => /\ j.what = "select" /\ Tail(j.script) = << >>
                                            /\ Head(j.script).db = j.want
         /\ j.what = "select" => Head(j.script).op = "select"
  <1>1. CASE j.script = <<j.script[1]>>
    <2>1. PICK a : a = j.script[1]
      OBVIOUS
    <2>2. j.script = <<a>>
      BY <1>1, <2>1
    <2>3. Head(j.script) = a /\ Tail(j.script) = << >>
      BY <2>2, HeadsAndTails
    <2>4. <<j.what, a.op>> \in
            {<<"fetch", "get">>, <<"meta", "meta">>, <<"scan", "scan">>, <<"select", "select">>,
             <<"ttl", "expire">>, <<"save", "set">>, <<"save", "expire">>, <<"edit", "hset">>,
             <<"edit", "hdel">>} \/ (j.what # "select" /\ a.op # "select")
      BY <2>1 DEF JobOK, Shape
    <2>5. a.op = "select" => a.db = j.want
      BY <1>1, <2>1, <2>2 DEF JobOK, Shape
    <2> QED
      BY <2>3, <2>4, <2>5
  <1>2. CASE /\ j.script = <<j.script[1], j.script[2]>>
             /\ <<j.what, j.script[1].op, j.script[2].op>> \in
                  {<<"save", "lookup", "set">>, <<"save", "set", "expire">>,
                   <<"edit", "hdel", "hset">>}
    <2>1. PICK a, b : a = j.script[1] /\ b = j.script[2]
      OBVIOUS
    <2>2. j.script = <<a, b>>
      BY <1>2, <2>1
    <2>3. Head(j.script) = a
      BY <2>2, HeadsAndTails
    <2> QED
      BY <1>2, <2>1, <2>3
  <1> QED
    BY <1>1, <1>2 DEF JobOK, Shape

LEMMA OneLinkTake ==
  ASSUME Jobs, OneLinkInv, NEW j \in jobs, Take(j), "second link" \notin past'
  PROVE  OneLinkInv'
  <1>1. PICK x : x = idle[1]
    OBVIOUS
  <1>2. idle = <<x>> /\ \A i \in jobs : i.link = None
    BY <1>1 DEF Take, OneLinkInv, OneLink
  <1>3. PICK n : n = [j EXCEPT !.link = x]
    OBVIOUS
  <1>4. jobs' = (jobs \ {j}) \cup {n} /\ idle' = << >> /\ past' = past
    BY <1>2, <1>3, SingleLast DEF Take
  <1>5. /\ n.what = j.what /\ n.want = j.want /\ n.script = j.script /\ n.link = x
        /\ j.script # << >>
    BY <1>3 DEF Jobs, JobOK, IsJob, Take
  <1>6. db' = db /\ dialog' = dialog
    BY DEF Take
  <1>7. Alone'
    BY <1>4, <1>5, <1>6 DEF OneLinkInv, Alone
  <1>8. OneLink'
    BY <1>2, <1>4 DEF OneLink
  <1>9. OnDB'
    <2>1. \A i \in jobs' : Selected(i) => i \in jobs \ {j}
      BY <1>4, <1>5 DEF Selected
    <2>2. ~Selected(j)
      BY <1>5 DEF Selected
    <2>3. (\A i \in jobs' : ~Selected(i)) => x = db
      <3>1. (\A i \in jobs' : ~Selected(i)) => \A i \in jobs : ~Selected(i)
        BY <1>4, <2>2
      <3>2. (\A i \in jobs : ~Selected(i)) => idle[1] = db
        BY <1>2 DEF OneLinkInv, OnDB
      <3> QED
        BY <1>1, <3>1, <3>2
    <2> QED
      BY <1>2, <1>4, <1>5, <1>6, <2>3 DEF OnDB
  <1> QED
    BY <1>4, <1>7, <1>8, <1>9 DEF OneLinkInv

LEMMA OneLinkReply ==
  ASSUME Jobs, OneLinkInv, NEW j \in jobs, Reply(j)
  PROVE  OneLinkInv'
  <1>1. PICK cmd : cmd = Head(j.script)
    OBVIOUS
  <1>2. /\ j.script # << >> /\ j.link = db /\ idle = << >>
        /\ \A i \in jobs \ {j} : i.link = None
        /\ \A i \in jobs : ~Selected(i)
    BY LinkedOnDB DEF Reply
  <1>3. PICK t : t = Tail(j.script)
    OBVIOUS
  <1>4. PICK x : jobs' = (jobs \ {j}) \cup {[j EXCEPT !.script = Tail(@), !.link = None, !.got = x]}
    BY DEF Reply
  <1>5. PICK n : n = [j EXCEPT !.script = t, !.link = None, !.got = x]
    OBVIOUS
  <1>6. jobs' = (jobs \ {j}) \cup {n}
    BY <1>3, <1>4, <1>5
  <1>7. /\ n.what = j.what /\ n.want = j.want /\ n.script = t /\ n.link = None
        /\ n.failed = j.failed
    BY <1>5 DEF Jobs, JobOK, IsJob
  <1>8. db' = db /\ dialog' = dialog
    BY DEF Reply
  <1>9. PICK e : e = IF cmd.op = "select" THEN cmd.db ELSE db
    OBVIOUS
  <1>10. idle' = <<e>>
    BY <1>1, <1>2, <1>9, SingleLast DEF Reply
  <1>11. Alone'
    BY <1>6, <1>7, <1>8 DEF OneLinkInv, Alone
  <1>12. OneLink'
    BY <1>2, <1>6, <1>7, <1>10 DEF OneLink
  <1>13. OnDB'
    <2>1. idle'[1] = e
      BY <1>10
    <2>2. \A i \in jobs' : i.link = None
      BY <1>2, <1>6, <1>7
    <2>3. CASE cmd.op = "select"
      <3>1. j.what = "select" /\ t = << >> /\ cmd.db = j.want
        BY <1>1, <1>2, <1>3, <2>3, SelectsOnly DEF Jobs
      <3>2. jobs' = {n}
        BY <1>6, <3>1 DEF OneLinkInv, Alone
      <3>3. Selected(n)
        BY <1>2, <1>7, <3>1 DEF Selected, Jobs, JobOK
      <3>4. idle'[1] = n.want
        BY <1>7, <1>9, <2>1, <2>3, <3>1
      <3> QED
        BY <3>2, <3>3, <3>4 DEF OnDB
    <2>4. CASE cmd.op # "select"
      <3>1. j.what # "select"
        BY <1>1, <1>2, <2>4, SelectsOnly DEF Jobs
      <3>2. \A i \in jobs' : ~Selected(i)
        BY <1>2, <1>6, <1>7, <3>1 DEF Selected
      <3> QED
        BY <1>8, <1>9, <2>1, <2>2, <2>4, <3>2 DEF OnDB
    <2> QED
      BY <2>3, <2>4
  <1>14. "strayed" \notin past'
    <2>1. Recorded(j, cmd, j.link)
      BY <1>1 DEF Reply
    <2>2. j.what \in Writes => j.want = db
      BY DEF OneLinkInv, Alone
    <2> QED
      BY <1>2, <2>1, <2>2 DEF Recorded, OneLinkInv
  <1> QED
    BY <1>11, <1>12, <1>13, <1>14 DEF OneLinkInv

LEMMA OneLinkLost ==
  ASSUME Jobs, OneLinkInv, NEW j \in jobs, LinkLost(j)
  PROVE  OneLinkInv'
  <1>1. /\ j.script # << >> /\ j.link = db /\ idle = << >>
        /\ \A i \in jobs \ {j} : i.link = None
        /\ \A i \in jobs : ~Selected(i)
    BY LinkedOnDB DEF LinkLost
  <1>2. PICK n : n = [j EXCEPT !.link = None]
    OBVIOUS
  <1>3. jobs' = (jobs \ {j}) \cup {n} /\ UNCHANGED <<idle, db, dialog>>
    BY <1>2 DEF LinkLost
  <1>4. n.what = j.what /\ n.want = j.want /\ n.script = j.script /\ n.link = None
    BY <1>2 DEF Jobs, JobOK, IsJob
  <1>5. Alone'
    BY <1>3, <1>4 DEF OneLinkInv, Alone
  <1>6. OneLink' /\ OnDB'
    BY <1>1, <1>3, <1>4 DEF OneLink, OnDB, Selected
  <1>7. "strayed" \notin past'
    <2>1. j.what \in Writes => j.want = db
      BY DEF OneLinkInv, Alone
    <2> QED
      BY <1>1, <2>1 DEF LinkLost, Recorded, OneLinkInv
  <1> QED
    BY <1>5, <1>6, <1>7 DEF OneLinkInv

LEMMA OneLinkFails ==
  ASSUME Jobs, OneLinkInv, NEW j \in jobs, CommandFails(j)
  PROVE  OneLinkInv'
  <1>1. /\ j.script # << >> /\ j.link = db /\ idle = << >>
        /\ \A i \in jobs \ {j} : i.link = None
        /\ \A i \in jobs : ~Selected(i)
    BY LinkedOnDB DEF CommandFails
  <1>2. PICK n : n = [j EXCEPT !.script = << >>, !.link = None, !.failed = TRUE]
    OBVIOUS
  <1>3. /\ jobs' = (jobs \ {j}) \cup {n} /\ UNCHANGED <<db, dialog>>
        /\ past' = past \cup {"failed"}
    BY <1>2 DEF CommandFails
  <1>4. n.what = j.what /\ n.want = j.want /\ n.failed = TRUE /\ n.link = None
    BY <1>2 DEF Jobs, JobOK, IsJob
  <1>5. idle' = <<db>>
    BY <1>1, SingleLast DEF CommandFails
  <1>6. Alone'
    BY <1>3, <1>4 DEF OneLinkInv, Alone
  <1>7. OneLink'
    BY <1>1, <1>3, <1>4, <1>5 DEF OneLink
  <1>8. idle'[1] = db /\ \A i \in jobs' : ~Selected(i) /\ i.link = None
    BY <1>1, <1>3, <1>4, <1>5 DEF Selected
  <1>9. OnDB'
    BY <1>3, <1>8 DEF OnDB
  <1> QED
    BY <1>3, <1>6, <1>7, <1>9 DEF OneLinkInv

LEMMA OneLinkLookup ==
  ASSUME Jobs, OneLinkInv, NEW j \in jobs, Lookup(j)
  PROVE  OneLinkInv'
  <1>1. j.what = "save"
    BY LookupIsSave DEF Lookup, Jobs, JobOK
  <1>2. jobs = {j} /\ j.what # "select"
    BY <1>1 DEF OneLinkInv, Alone, Writes
  <1>3. PICK n, s : jobs' = (jobs \ {j}) \cup {n} /\ n = [j EXCEPT !.script = s]
    BY DEF Lookup
  <1>4. n.what = j.what /\ n.want = j.want /\ n.link = j.link
    BY <1>3 DEF Jobs, JobOK, IsJob
  <1>5. jobs' = {n} /\ UNCHANGED <<idle, db, dialog, past>>
    BY <1>2, <1>3 DEF Lookup
  <1>6. Alone' /\ OneLink'
    BY <1>2, <1>4, <1>5 DEF OneLinkInv, Alone, OneLink
  <1>7. OnDB'
    BY <1>2, <1>4, <1>5 DEF OneLinkInv, OnDB, Selected
  <1> QED
    BY <1>5, <1>6, <1>7 DEF OneLinkInv

LEMMA OneLinkSelect ==
  ASSUME Jobs, OneLinkInv, NEW j \in jobs, SelectDone(j), "second link" \notin past'
  PROVE  OneLinkInv'
  <1>1. /\ j.what = "select" /\ j.script = << >> /\ jobs = {j} /\ dialog = None
        /\ j.link = None
    BY DEF SelectDone, Finished, OneLinkInv, Alone, Jobs, JobOK
  <1>2. CASE j.failed
    <2>1. jobs' = {} /\ UNCHANGED <<idle, db, dialog, past>>
      BY <1>1, <1>2 DEF SelectDone, Untouched
    <2>2. idle = << >> \/ idle[1] = db
      BY <1>1, <1>2 DEF OneLinkInv, OnDB, Selected
    <2> QED
      BY <1>1, <2>1, <2>2 DEF OneLinkInv, Alone, OneLink, OnDB
  <1>3. CASE ~j.failed
    <2>1. /\ idle # << >> /\ idle' = idle /\ db' = j.want /\ dialog' = None
          /\ "strayed" \notin past'
      <3>1. /\ db' = j.want /\ dialog' = dialog
            /\ idle' = IF idle = << >> THEN <<Home>> ELSE idle
            /\ past' = past \cup (IF idle = << >> THEN {"second link"} ELSE {})
                            \cup (IF WriteUnderWay \/ dialog # None THEN {"reset"} ELSE {})
                            \cup (IF \E i \in jobs \ {j} : i.what = "select" THEN {"crossed"} ELSE {})
        BY <1>3 DEF SelectDone, Untouched
      <3>2. idle # << >> /\ "strayed" \notin past'
        BY <3>1 DEF OneLinkInv
      <3> QED
        BY <1>1, <3>1, <3>2
    <2>2. idle = <<idle[1]>> /\ idle[1] = j.want
      BY <1>1, <1>3, <2>1 DEF OneLinkInv, OneLink, OnDB, Selected
    <2>3. \A i \in jobs' : i.what = "scan" /\ i.link = None
      <3>1. jobs' = Outdated(Outdated({}, "fetch"), "scan") \cup {Job("scan", j.want, <<Cmd("scan")>>)}
        BY <1>1, <1>3 DEF SelectDone, ScanStarted
      <3>2. jobs' = {Job("scan", j.want, <<Cmd("scan")>>)}
        BY <3>1 DEF Outdated
      <3>3. PICK n : n = Job("scan", j.want, <<Cmd("scan")>>)
        OBVIOUS
      <3>4. n.what = "scan" /\ n.link = None
        BY <3>3 DEF Job
      <3> QED
        BY <3>2, <3>3, <3>4
    <2>4. Alone'
      BY <2>1, <2>3 DEF Alone, Writes
    <2>5. OneLink' /\ OnDB'
      BY <2>1, <2>2, <2>3 DEF OneLink, OnDB, Selected
    <2> QED
      BY <2>1, <2>4, <2>5 DEF OneLinkInv
  <1> QED
    BY <1>2, <1>3

LEMMA OneLinkClient ==
  ASSUME Jobs, OneLinkInv, NEW j \in jobs, Client(j), "second link" \notin past'
  PROVE  OneLinkInv'
  <1>1. CASE WriteDone(j)
    <2>1. jobs' \subseteq (jobs \ {j}) \cup {Fetch, MetaCall}
          \/ jobs' \subseteq Outdated(jobs \ {j}, "meta") \cup {Fetch, MetaCall}
      BY <1>1 DEF WriteDone, Reloaded
    <2> QED
      BY <1>1, <2>1, AnswersDisturbNothing DEF WriteDone, Finished, Untouched
  <1>2. CASE TTLDone(j)
    <2>1. jobs' \subseteq (jobs \ {j}) \cup {Fetch, MetaCall}
          \/ jobs' \subseteq Outdated(jobs \ {j}, "meta") \cup {Fetch, MetaCall}
      BY <1>2 DEF TTLDone, Reloaded
    <2> QED
      BY <1>2, <2>1, AnswersDisturbNothing DEF TTLDone, Finished, Untouched
  <1>3. CASE MetaDone(j)
    <2>1. jobs' \subseteq (jobs \ {j}) \cup {Fetch, MetaCall}
          \/ jobs' \subseteq Outdated(jobs \ {j}, "fetch") \cup {Fetch, MetaCall}
      BY <1>3 DEF MetaDone
    <2> QED
      BY <1>3, <2>1, AnswersDisturbNothing DEF MetaDone, Finished, Untouched
  <1>4. CASE FetchDone(j)
    BY <1>4, AnswersDisturbNothing DEF FetchDone, Finished, Untouched
  <1>5. CASE ScanDone(j)
    <2>1. jobs' \subseteq (jobs \ {j}) \cup {Fetch, MetaCall}
          \/ jobs' \subseteq Outdated(jobs \ {j}, "meta") \cup {Fetch, MetaCall}
      BY <1>5 DEF ScanDone, Reloaded
    <2> QED
      BY <1>5, <2>1, AnswersDisturbNothing DEF ScanDone, Finished, Untouched
  <1> QED
    BY <1>1, <1>2, <1>3, <1>4, <1>5, OneLinkTake, OneLinkReply, OneLinkLost, OneLinkFails,
       OneLinkLookup, OneLinkSelect DEF Client

\* What the user starts when everything has been answered.
LEMMA OneLinkStart ==
  ASSUME OneLinkInv, jobs = {}, past' = past, UNCHANGED <<idle, db>>,
         \A i, k \in jobs' : i = k,
         \A i \in jobs' : i.link = None /\ i.script # << >>,
         \A i \in jobs' : i.what \in Writes => i.want = db,
         dialog' # None => dialog'.db = db /\ jobs' = {}
  PROVE  OneLinkInv'
  <1>1. Alone'
    BY DEF OneLinkInv, Alone
  <1>2. OneLink'
    BY DEF OneLinkInv, OneLink
  <1>3. OnDB'
    BY DEF OneLinkInv, OnDB, Selected
  <1> QED
    BY <1>1, <1>2, <1>3 DEF OneLinkInv

LEMMA OneLinkUser ==
  ASSUME OneLinkInv, User, "hurried" \notin past'
  PROVE  OneLinkInv'
  <1>0. ASSUME NEW d, NEW what, NEW script, script # << >>, what \in Writes => d = db,
               jobs = {}, Start(Job(what, d, script))
        PROVE  /\ \A i, k \in jobs' : i = k
               /\ \A i \in jobs' : i.link = None /\ i.script # << >>
               /\ \A i \in jobs' : i.what \in Writes => i.want = db
    <2>1. PICK n : n = Job(what, d, script)
      OBVIOUS
    <2>2. jobs' = {n}
      BY <1>0, <2>1 DEF Start
    <2>3. n.what = what /\ n.want = d /\ n.script = script /\ n.link = None
      BY <2>1 DEF Job
    <2> QED
      BY <1>0, <2>2, <2>3
  <1>00. \A a : <<a>> # << >>
    OBVIOUS
  <1>000. \A a, b : <<a, b>> # << >>
    OBVIOUS
  <1>1. CASE CancelEditor
    BY <1>1 DEF CancelEditor, OneLinkInv, Alone, OneLink, OnDB, Selected
  <1>2. CASE Rescan
    <2>1. jobs = {} /\ dialog = None /\ UNCHANGED <<idle, db, dialog>>
      BY <1>2 DEF Rescan, Rest
    <2>2. past' = past
      <3>1. ~WriteUnderWay
        BY <2>1 DEF WriteUnderWay
      <3> QED
        BY <1>2, <2>1, <3>1 DEF Rescan, Rest
    <2>3. jobs' = {Job("scan", db, <<Cmd("scan")>>)}
      BY <1>2, <2>1 DEF Rescan, ScanStarted, Outdated
    <2>4. PICK n : n = Job("scan", db, <<Cmd("scan")>>)
      OBVIOUS
    <2>5. n.what = "scan" /\ n.link = None /\ n.script # << >>
      BY <2>4, <1>00 DEF Job
    <2>6. jobs' = {n}
      BY <2>3, <2>4
    <2> QED
      BY <2>1, <2>2, <2>5, <2>6, OneLinkStart DEF Writes
  <1>3. ASSUME NEW f, OpenEditor(f) PROVE OneLinkInv'
    <2>1. jobs = {} /\ past' = past /\ UNCHANGED <<idle, db, jobs>>
      BY <1>3 DEF OpenEditor, Pressed, Rest
    <2>2. dialog'.db = db
      BY <1>3 DEF OpenEditor
    <2> QED
      BY <2>1, <2>2, OneLinkStart
  <1>4. ASSUME NEW f, DelItem(f) PROVE OneLinkInv'
    <2>1. jobs = {} /\ past' = past /\ dialog' = None /\ UNCHANGED <<idle, db>>
      BY <1>4 DEF DelItem, Pressed, Rest
    <2>2. Start(Job("edit", db, <<Del(f, NoText)>>))
      BY <1>4 DEF DelItem
    <2> QED
      BY <1>0, <1>00, <2>1, <2>2, OneLinkStart
  <1>5. ASSUME NEW t, SetTTL(t) PROVE OneLinkInv'
    <2>1. jobs = {} /\ past' = past /\ dialog' = None /\ UNCHANGED <<idle, db>>
      BY <1>5 DEF SetTTL, Pressed, Rest
    <2>2. Start(Job("ttl", db, <<[op |-> "expire", ttl |-> t]>>))
      BY <1>5 DEF SetTTL
    <2> QED
      BY <1>0, <1>00, <2>1, <2>2, OneLinkStart
  <1>6. ASSUME NEW d \in DBs, SwitchDB(d) PROVE OneLinkInv'
    <2>1. jobs = {} /\ past' = past /\ dialog' = None /\ UNCHANGED <<idle, db>>
      BY <1>6 DEF SwitchDB, Pressed, Rest
    <2>2. Start(Job("select", d, <<[op |-> "select", db |-> d]>>))
      BY <1>6 DEF SwitchDB
    <2>3. "select" \notin Writes
      BY DEF Writes
    <2> QED
      BY <1>0, <1>00, <2>1, <2>2, <2>3, OneLinkStart
  <1>7. ASSUME NEW f, NEW text, NewItem(f, text) PROVE OneLinkInv'
    <2>1. jobs = {} /\ past' = past /\ dialog' = None /\ UNCHANGED <<idle, db>>
      BY <1>7 DEF NewItem, Pressed, Rest
    <2>2. Start(Job("edit", db, <<Put("hset", f, Bytes(text), text)>>))
      BY <1>7 DEF NewItem
    <2> QED
      BY <1>0, <1>00, <2>1, <2>2, OneLinkStart
  <1>8. ASSUME NEW f, NEW text, Submit(f, text) PROVE OneLinkInv'
    <2>1. jobs = {} /\ past' = past /\ dialog # None /\ dialog' = None /\ UNCHANGED <<idle, db>>
      BY <1>8 DEF Submit, Pressed, Rest
    <2>2. dialog.db = db
      BY <2>1 DEF OneLinkInv, Alone
    <2>3. PICK what, script : Start(Job(what, dialog.db, script)) /\ script # << >>
      <3>1. PICK put : put = Put(IF kind = "string" THEN "set" ELSE "hset", f, Written(dialog.raw, text), text)
        OBVIOUS
      <3>2. \/ Start(Job(IF kind = "string" THEN "save" ELSE "edit", dialog.db, <<Cmd("lookup"), put>>))
            \/ Start(Job(IF kind = "string" THEN "save" ELSE "edit", dialog.db, <<put>>))
            \/ Start(Job(IF kind = "string" THEN "save" ELSE "edit", dialog.db, <<Del(dialog.field, text), put>>))
        BY <1>8, <3>1 DEF Submit
      <3> QED
        BY <3>2, <1>00, <1>000
    <2> QED
      BY <1>0, <2>1, <2>2, <2>3, OneLinkStart
  <1> QED
    BY <1>1, <1>2, <1>3, <1>4, <1>5, <1>6, <1>7, <1>8 DEF User

LEMMA LinkStep ==
  ASSUME Jobs, LinkInv, [Next]_vars
  PROVE  LinkInv'
  <1> SUFFICES ASSUME Single' PROVE OneLinkInv'
    BY DEF LinkInv, OneLinkInv
  <1>1. OneLinkInv
    <2>1. Single
      BY PastGrows DEF Single
    <2> QED
      BY <2>1 DEF LinkInv, OneLinkInv
  <1>2. "second link" \notin past' /\ "hurried" \notin past'
    BY DEF Single
  <1>3. CASE IdleLinkLost
    BY <1>2, <1>3 DEF IdleLinkLost
  <1>4. CASE OtherClient \/ UNCHANGED vars
    <2>1. UNCHANGED <<idle, jobs, db, dialog>> /\ ("strayed" \in past' => "strayed" \in past)
      BY <1>4 DEF OtherClient, vars
    <2> QED
      BY <1>1, <2>1 DEF OneLinkInv, Alone, OneLink, OnDB, Selected
  <1> QED
    BY <1>1, <1>2, <1>3, <1>4, OneLinkClient, OneLinkUser DEF Next

\* An edit strays only by way of a second link, or of a user in a hurry.
THEOREM StrayNeedsSecond == Spec => []StraysNeedSecondLink
  <1>1. Init => Jobs /\ Places /\ LinkInv
    <2> SUFFICES ASSUME Init PROVE Jobs /\ Places /\ LinkInv
      OBVIOUS
    <2>1. <<Home>> \in Seq(DBs) /\ <<Home>>[1] = Home
      BY EditsAssumption
    <2>2. Jobs /\ Places
      BY <2>1, EditsAssumption DEF Init, Jobs, Places
    <2>3. LinkInv
      BY <2>1 DEF Init, LinkInv, Alone, OneLink, OnDB
    <2> QED
      BY <2>2, <2>3
  <1>2. Jobs /\ Places /\ LinkInv /\ [Next]_vars => (Jobs /\ Places /\ LinkInv)'
    BY JobsStep, LinkStep
  <1>3. LinkInv => StraysNeedSecondLink
    BY DEF LinkInv, Single, StraysNeedSecondLink
  <1> QED
    BY <1>1, <1>2, <1>3, PTL DEF Spec

----------------------------------------------------------------------------
(* What is written is read as it was typed.                                *)

LEMMA UnpackedIs ==
  ASSUME NEW f, f # "gzip"
  PROVE  /\ \A raw : raw.forms = <<f>> => Unpacked(raw) = f
         /\ \A raw : raw.forms = <<"gzip", f>> => Unpacked(raw) = f
  <1>1. ASSUME NEW raw, raw.forms = <<f>> PROVE Unpacked(raw) = f
    <2>1. /\ DOMAIN raw.forms = 1 .. 1 /\ raw.forms[1] = f
      BY <1>1
    <2> DEFINE P(i) == raw.forms[i] # "gzip" /\ \A j \in 1 .. i - 1 : raw.forms[j] = "gzip"
    <2>2. P(1)
      BY <2>1
    <2>3. \A i \in 1 .. 1 : i = 1
      OBVIOUS
    <2>4. (CHOOSE i \in DOMAIN raw.forms : P(i)) = 1
      <3>1. PICK n : n = CHOOSE i \in DOMAIN raw.forms : P(i)
        OBVIOUS
      <3>2. n \in DOMAIN raw.forms
        BY <2>1, <2>2, <3>1
      <3> QED
        BY <2>1, <2>3, <3>1, <3>2
    <2> QED
      BY <2>1, <2>4 DEF Unpacked
  <1>2. ASSUME NEW raw, raw.forms = <<"gzip", f>> PROVE Unpacked(raw) = f
    <2>1. /\ DOMAIN raw.forms = 1 .. 2 /\ raw.forms[1] = "gzip" /\ raw.forms[2] = f
      BY <1>2
    <2> DEFINE P(i) == raw.forms[i] # "gzip" /\ \A j \in 1 .. i - 1 : raw.forms[j] = "gzip"
    <2>2. P(2) /\ ~P(1)
      BY <2>1
    <2>3. \A i \in 1 .. 2 : i = 1 \/ i = 2
      OBVIOUS
    <2>4. (CHOOSE i \in DOMAIN raw.forms : P(i)) = 2
      <3>1. PICK n : n = CHOOSE i \in DOMAIN raw.forms : P(i)
        OBVIOUS
      <3>2. 2 \in DOMAIN raw.forms
        BY <2>1
      <3> HIDE DEF P
      <3>3. n \in DOMAIN raw.forms /\ P(n)
        BY <2>2, <3>1, <3>2
      <3> QED
        BY <2>1, <2>2, <2>3, <3>1, <3>3
    <2> QED
      BY <2>1, <2>4 DEF Unpacked
  <1> QED
    BY <1>1, <1>2

LEMMA BytesRead ==
  ASSUME NEW text \in Texts
  PROVE  Decoded(Bytes(text)) = text /\ Legible(Bytes(text))
  <1>1. PICK raw : raw = Bytes(text)
    OBVIOUS
  <1>2. raw.forms = <<text.lang>> /\ raw.body = text.body
    BY <1>1 DEF Bytes
  <1>3. /\ text.lang \in {"json", "text", "dump", "phplike"}
        /\ text = [lang |-> text.lang, body |-> text.body]
    BY DEF Texts
  <1>4. Unpacked(raw) = text.lang
    BY <1>2, <1>3, UnpackedIs
  <1>5. CASE text.lang = "phplike"
    <2>1. Format(raw) = NoText
      BY <1>4, <1>5 DEF Format
    <2>2. Head(raw.forms) = text.lang
      BY <1>2, HeadsAndTails
    <2>3. Decoded(raw) = text
      BY <1>2, <1>3, <2>1, <2>2 DEF Decoded
    <2> QED
      BY <1>1, <2>1, <2>3 DEF Legible
  <1>6. CASE text.lang # "phplike"
    <2>1. Format(raw) = text
      BY <1>2, <1>3, <1>4, <1>6 DEF Format
    <2>2. text # NoText
      BY EditsAssumption
    <2>3. Decoded(raw) = text
      BY <2>1, <2>2 DEF Decoded
    <2> QED
      BY <1>1, <1>6, <2>3 DEF Legible
  <1> QED
    BY <1>5, <1>6

\* A text that an editor of the value may hold is what its encoding reads as.
LEMMA WrittenRead ==
  ASSUME NEW raw, NEW text \in Texts, text.lang = "phplike" => Format(raw) = NoText
  PROVE  Decoded(Written(raw, text)) = text /\ Legible(Written(raw, text))
  <1>1. CASE Format(raw) = NoText
    BY <1>1, BytesRead DEF Written
  <1>2. CASE Format(raw) # NoText
    <2> DEFINE codec == Detect(raw)
    <2>1. PICK new : new = Written(raw, text)
      OBVIOUS
    <2>2. \/ new = Bytes(text)
          \/ new = Encode(codec, text) /\ new # NoText
      BY <1>2, <2>1 DEF Written, Saved
    <2>3. /\ text.lang \in {"json", "text", "dump"} /\ text # NoText
          /\ text = [lang |-> text.lang, body |-> text.body]
      BY <1>2, EditsAssumption DEF Texts
    <2>4. ASSUME new = Encode(codec, text), new # NoText
          PROVE  new = Bytes(text) \/ Format(new) = text
      <3> HIDE DEF codec
      <3>1. CASE codec = "gzip"
        <4>0. PICK f : f = text.lang
          OBVIOUS
        <4>1. new.body = text.body /\ new.forms = <<"gzip">> \o <<f>>
          BY <2>4, <3>1, <4>0 DEF Encode, Bytes
        <4>2. new.forms = <<"gzip", f>>
          BY <4>1, HeadsAndTails
        <4>3. Unpacked(new) = f
          BY <2>3, <4>0, <4>2, UnpackedIs
        <4> QED
          BY <2>3, <4>0, <4>1, <4>3 DEF Format
      <3>2. CASE codec = "msgpack" /\ text.lang = "json"
        <4>1. new.forms = <<"msgpack">> /\ new.body = text.body
          BY <2>4, <3>2 DEF Encode
        <4>2. Unpacked(new) = "msgpack"
          BY <4>1, UnpackedIs
        <4> QED
          BY <2>3, <3>2, <4>1, <4>2 DEF Format
      <3> QED
        BY <2>4, <3>1, <3>2 DEF Encode
    <2>5. CASE new = Bytes(text)
      BY <2>1, <2>5, BytesRead
    <2>6. CASE Format(new) = text
      <3>1. Decoded(new) = text
        BY <2>3, <2>6 DEF Decoded
      <3> QED
        BY <2>1, <2>3, <3>1 DEF Legible
    <2> QED
      BY <2>2, <2>4, <2>5, <2>6
  <1> QED
    BY <1>1, <1>2

----------------------------------------------------------------------------
(* The values.                                                             *)

Ops ==
  {<<"save", "lookup", "set">>, <<"save", "set", "expire">>, <<"edit", "hdel", "hset">>}

LEMMA ScriptCases ==
  ASSUME NEW j, JobOK(j), j.script # << >>
  PROVE  \/ \E a : /\ j.script = <<a>> /\ Head(j.script) = a /\ Tail(j.script) = << >>
                   /\ Range(j.script) = {a}
                   /\ j.what = "fetch" => a.op = "get"
                   /\ IsPut(a) \/ a.op = "hdel" => j.what \in Writes
         \/ \E a, b : /\ j.script = <<a, b>> /\ Head(j.script) = a /\ Tail(j.script) = <<b>>
                      /\ Range(j.script) = {a, b}
                      /\ <<j.what, a.op, b.op>> \in Ops
  <1>1. CASE /\ j.script = <<j.script[1]>>
             /\ <<j.what, j.script[1].op>> \in
                  {<<"fetch", "get">>, <<"meta", "meta">>, <<"scan", "scan">>,
                   <<"select", "select">>, <<"ttl", "expire">>, <<"save", "set">>,
                   <<"save", "expire">>, <<"edit", "hset">>, <<"edit", "hdel">>}
    <2>1. PICK a : a = j.script[1]
      OBVIOUS
    <2>2. PICK s : s = j.script
      OBVIOUS
    <2>3. s = <<a>>
      BY <1>1, <2>1, <2>2
    <2>4. Head(s) = a /\ Tail(s) = << >> /\ Range(s) = {a}
      BY <2>3, HeadsAndTails DEF Range
    <2>5. (j.what = "fetch" => a.op = "get") /\ (IsPut(a) \/ a.op = "hdel" => j.what \in Writes)
      BY <1>1, <2>1 DEF IsPut, Writes
    <2> QED
      BY <2>2, <2>3, <2>4, <2>5
  <1>2. CASE j.script = <<j.script[1], j.script[2]>>
             /\ <<j.what, j.script[1].op, j.script[2].op>> \in Ops
    <2>1. PICK a, b : a = j.script[1] /\ b = j.script[2]
      OBVIOUS
    <2>2. PICK s : s = j.script
      OBVIOUS
    <2>3. s = <<a, b>>
      BY <1>2, <2>1, <2>2
    <2>4. Head(s) = a /\ Tail(s) = <<b>>
      BY <2>3, HeadsAndTails
    <2>5. Range(s) = {a, b}
      <3>1. DOMAIN s = {1, 2} /\ s[1] = a /\ s[2] = b
        BY <2>3
      <3> QED
        BY <3>1 DEF Range
    <2> QED
      BY <1>2, <2>1, <2>2, <2>3, <2>4, <2>5
  <1> QED
    BY <1>1, <1>2 DEF JobOK, Shape, Ops

LEMMA RangesOf ==
  /\ Range(<< >>) = {} /\ \A a : Range(<<a>>) = {a}
  /\ \A a, b : Range(<<a, b>>) = {a, b}
  <1>1. Range(<< >>) = {} /\ \A a : Range(<<a>>) = {a}
    BY DEF Range
  <1>2. ASSUME NEW a, NEW b PROVE Range(<<a, b>>) = {a, b}
    <2>1. PICK s : s = <<a, b>>
      OBVIOUS
    <2>2. DOMAIN s = {1, 2} /\ s[1] = a /\ s[2] = b
      BY <2>1
    <2>3. Range(s) = {a, b}
      BY <2>2 DEF Range
    <2> QED
      BY <2>1, <2>3
  <1> QED
    BY <1>1, <1>2

LEMMA EffectLegible ==
  ASSUME NEW cmd, ReadsAsTyped(cmd), NEW key, AllLegible(key.val),
         key = [val |-> key.val, ttl |-> key.ttl]
  PROVE  \A new : new = Effect(cmd, key) =>
           new = [val |-> new.val, ttl |-> new.ttl] /\ AllLegible(new.val)
  <1>1. PICK v, t : key = [val |-> v, ttl |-> t] /\ AllLegible(v)
    OBVIOUS
  <1>2. CASE cmd.op \in {"set", "hset"}
    <2>1. PICK f, r : f = cmd.field /\ r = cmd.raw
      OBVIOUS
    <2>2. PICK w : w = WithField(v, f, r)
      OBVIOUS
    <2>3. AllLegible(w)
      BY <1>1, <1>2, <2>1, <2>2 DEF AllLegible, ReadsAsTyped, IsPut, WithField
    <2>4. PICK e : e = Effect(cmd, key)
      OBVIOUS
    <2>5. e = [val |-> w, ttl |-> IF cmd.op = "set" THEN 0 ELSE t]
      BY <1>1, <1>2, <2>1, <2>2, <2>4 DEF Effect
    <2>6. e = [val |-> e.val, ttl |-> e.ttl] /\ AllLegible(e.val)
      BY <2>3, <2>5
    <2> QED
      BY <2>4, <2>6
  <1>3. CASE cmd.op \notin {"set", "hset"}
    <2>1. PICK e : e = Effect(cmd, key)
      OBVIOUS
    <2>2. \/ e = [val |-> Gone, ttl |-> 0]
          \/ e = [key EXCEPT !.val = Restrict(@, DOMAIN @ \ {cmd.field})]
          \/ e = [key EXCEPT !.ttl = cmd.ttl]
          \/ e = key
      BY <1>3, <2>1 DEF Effect
    <2>3. AllLegible(Gone) /\ AllLegible(Restrict(v, DOMAIN v \ {cmd.field}))
      BY <1>1 DEF AllLegible, Gone, Restrict
    <2>4. e = [val |-> e.val, ttl |-> e.ttl] /\ AllLegible(e.val)
      BY <1>1, <2>2, <2>3
    <2> QED
      BY <2>1, <2>4
  <1> QED
    BY <1>2, <1>3

LEMMA ReadsSame ==
  ASSUME NEW i, ScriptReads(i), NEW n,
         n.what = i.what, n.script = i.script, n.got = i.got, n.failed = i.failed
  PROVE  ScriptReads(n)
  BY DEF ScriptReads

LEMMA OutdatedReads ==
  ASSUME NEW js, \A j \in js : JobOK(j) /\ ScriptReads(j), NEW what
  PROVE  \A n \in Outdated(js, what) : ScriptReads(n)
  BY OutdatedSame, ReadsSame

\* Jobs that read begin without anything to write.
LEMMA NewReadsRead ==
  ASSUME NEW what, NEW d, NEW c, ~IsPut(c), c.op # "hdel"
  PROVE  ScriptReads(Job(what, d, <<c>>))
  <1>1. PICK q : q = <<c>>
    OBVIOUS
  <1>2. PICK n : n = Job(what, d, q)
    OBVIOUS
  <1>3. n.script = q
    BY <1>2 DEF Job
  <1>4. Range(q) = {c} /\ Head(q) = c /\ q # << >>
    BY <1>1, RangesOf, HeadsAndTails
  <1>5. ScriptReads(n)
    BY <1>3, <1>4 DEF ScriptReads, ReadsAsTyped
  <1> QED
    BY <1>1, <1>2, <1>5

LEMMA ReloadsRead ==
  ASSUME NEW js, \A j \in js : JobOK(j) /\ ScriptReads(j), db \in DBs, NEW d
  PROVE  /\ \A j \in Outdated(Outdated(js, "fetch"), "scan") \cup {Job("scan", d, <<Cmd("scan")>>)} :
              ScriptReads(j)
         /\ \A j \in Outdated(js, "fetch") \cup {Fetch} : ScriptReads(j)
         /\ \A j \in Reloaded(js) : ScriptReads(j)
         /\ \A j \in Reloaded(js) \cup {Fetch} : ScriptReads(j)
  <1>1. \A op \in {"scan", "meta", "get"} : ~IsPut(Cmd(op)) /\ Cmd(op).op # "hdel"
    BY DEF IsPut, Cmd
  <1>2. /\ ScriptReads(Job("scan", d, <<Cmd("scan")>>))
        /\ ScriptReads(Fetch) /\ ScriptReads(MetaCall)
    BY <1>1, NewReadsRead DEF Fetch, MetaCall
  <1>3. \A j \in Outdated(Outdated(js, "fetch"), "scan") : ScriptReads(j)
    BY OutdatedReads, OutdatedIsOK
  <1> QED
    BY <1>2, <1>3, OutdatedReads DEF Reloaded

\* A command leaves what can be read.
LEMMA CommandReads ==
  ASSUME Reads, NEW d \in DBs, NEW cmd, ReadsAsTyped(cmd),
         data' = [data EXCEPT ![d] = Effect(cmd, data[d])]
  PROVE  /\ data' = [e \in DBs |-> [val |-> data'[e].val, ttl |-> data'[e].ttl]]
         /\ \A e \in DBs : AllLegible(data'[e].val)
         /\ data' = [e \in DBs |-> IF e = d THEN Effect(cmd, data[d]) ELSE data[e]]
  <1>1. PICK new : new = Effect(cmd, data[d])
    OBVIOUS
  <1>2. /\ data[d] = [val |-> data[d].val, ttl |-> data[d].ttl] /\ AllLegible(data[d].val)
        /\ DOMAIN data = DBs
    BY DEF Reads
  <1>3. new = [val |-> new.val, ttl |-> new.ttl] /\ AllLegible(new.val)
    BY <1>1, <1>2, EffectLegible
  <1>4. data' = [e \in DBs |-> IF e = d THEN new ELSE data[e]]
    BY <1>1, <1>2 DEF Reads
  <1>5. \A e \in DBs : /\ data'[e] = [val |-> data'[e].val, ttl |-> data'[e].ttl]
                       /\ AllLegible(data'[e].val)
    BY <1>3, <1>4 DEF Reads
  <1>6. data' = [e \in DBs |-> [val |-> data'[e].val, ttl |-> data'[e].ttl]]
    BY <1>4, <1>5
  <1> QED
    BY <1>1, <1>4, <1>5, <1>6

LEMMA ReadsReply ==
  ASSUME Jobs, Places, Reads, NEW j \in jobs, Reply(j)
  PROVE  Reads'
  <1>1. PICK cmd : cmd = Head(j.script)
    OBVIOUS
  <1>2. PICK d : d = j.link
    OBVIOUS
  <1>3. JobOK(j) /\ ScriptReads(j) /\ j.script # << >> /\ d \in DBs
    BY <1>2 DEF Jobs, JobOK, Reads, Reply
  <1>4. cmd \in Range(j.script)
    BY <1>1, <1>3, ScriptCases
  <1>5. data' = [data EXCEPT ![d] = Effect(cmd, data[d])]
    BY <1>1, <1>2 DEF Reply
  <1>6. ReadsAsTyped(cmd)
    BY <1>3, <1>4 DEF ScriptReads
  <1>7. AllLegible(data[d].val)
    BY <1>3 DEF Reads
  <1>8. /\ data' = [e \in DBs |-> [val |-> data'[e].val, ttl |-> data'[e].ttl]]
        /\ \A e \in DBs : AllLegible(data'[e].val)
    BY <1>3, <1>5, <1>6, CommandReads
  <1>10. PICK x : x = IF cmd.op \in {"get", "meta", "scan"} THEN data[d] ELSE None
    OBVIOUS
  <1>11. PICK t : t = Tail(j.script)
    OBVIOUS
  <1>12. PICK n : n = [j EXCEPT !.script = t, !.link = None, !.got = x]
    OBVIOUS
  <1>13. jobs' = (jobs \ {j}) \cup {n}
    BY <1>1, <1>2, <1>10, <1>11, <1>12 DEF Reply
  <1>14. n.what = j.what /\ n.script = t /\ n.got = x /\ n.failed = j.failed
    BY <1>3, <1>12 DEF JobOK, IsJob
  <1>15. ScriptReads(n)
    <2>1. CASE \E a : /\ j.script = <<a>> /\ Head(j.script) = a /\ Tail(j.script) = << >>
                      /\ j.what = "fetch" => a.op = "get"
      <3>1. t = << >> /\ Range(t) = {}
        BY <1>11, <2>1, RangesOf
      <3>2. j.what = "fetch" => x = data[d]
        BY <1>1, <1>10, <2>1
      <3> QED
        BY <1>7, <1>14, <3>1, <3>2 DEF ScriptReads
    <2>2. CASE \E a, b : /\ j.script = <<a, b>> /\ Head(j.script) = a /\ Tail(j.script) = <<b>>
                         /\ Range(j.script) = {a, b}
                         /\ <<j.what, a.op, b.op>> \in Ops
      <3>1. PICK a, b : /\ Tail(j.script) = <<b>> /\ Range(j.script) = {a, b}
                        /\ <<j.what, a.op, b.op>> \in Ops
        BY <2>2
      <3>2. Range(t) = {b} /\ Head(t) = b /\ t # << >>
        BY <1>11, <3>1, RangesOf, HeadsAndTails
      <3>3. b.op # "hdel" /\ ReadsAsTyped(b)
        BY <1>3, <3>1 DEF Ops, ScriptReads
      <3> QED
        BY <1>14, <3>2, <3>3 DEF ScriptReads
    <2> QED
      BY <1>3, <2>1, <2>2, ScriptCases
  <1>16. page' = page /\ dialog' = dialog
    BY DEF Reply
  <1>17. \A i \in jobs' : ScriptReads(i)
    BY <1>13, <1>15 DEF Reads
  <1> QED
    BY <1>16, <1>17, <1>8 DEF Reads

LEMMA ReadsClient ==
  ASSUME Jobs, Places, Paged, Reads, NEW j \in jobs, Client(j)
  PROVE  Reads'
  <1>0. JobOK(j) /\ ScriptReads(j) /\ \A i \in jobs : JobOK(i) /\ ScriptReads(i)
    BY DEF Jobs, Reads
  <1>1. CASE Take(j)
    <2>1. PICK d : jobs' = (jobs \ {j}) \cup {[j EXCEPT !.link = d]}
      BY <1>1 DEF Take
    <2>2. PICK n : n = [j EXCEPT !.link = d]
      OBVIOUS
    <2>3. n.what = j.what /\ n.script = j.script /\ n.got = j.got /\ n.failed = j.failed
      BY <1>0, <2>2 DEF JobOK, IsJob
    <2>4. ScriptReads(n)
      BY <1>0, <2>3, ReadsSame
    <2>5. \A i \in jobs' : ScriptReads(i)
      BY <1>0, <2>1, <2>2, <2>4
    <2> QED
      BY <1>1, <2>5 DEF Take, Reads
  <1>2. CASE Reply(j)
    BY <1>2, ReadsReply
  <1>3. CASE LinkLost(j)
    <2>1. PICK n : n = [j EXCEPT !.link = None]
      OBVIOUS
    <2>2. n.what = j.what /\ n.script = j.script /\ n.got = j.got /\ n.failed = j.failed
      BY <1>0, <2>1 DEF JobOK, IsJob
    <2>3. ScriptReads(n)
      BY <1>0, <2>2, ReadsSame
    <2>4. \A i \in jobs' : ScriptReads(i)
      BY <1>0, <1>3, <2>1, <2>3 DEF LinkLost
    <2>5. PICK cmd, d : cmd = Head(j.script) /\ d = j.link
      OBVIOUS
    <2>6. d \in DBs /\ j.script # << >>
      BY <1>0, <1>3, <2>5 DEF LinkLost, JobOK
    <2>7. ReadsAsTyped(cmd)
      BY <1>0, <2>5, <2>6, ScriptCases DEF ScriptReads
    <2>8. data' = data \/ data' = [data EXCEPT ![d] = Effect(cmd, data[d])]
      BY <1>3, <2>5 DEF LinkLost
    <2>9. /\ data' = [e \in DBs |-> [val |-> data'[e].val, ttl |-> data'[e].ttl]]
          /\ \A e \in DBs : AllLegible(data'[e].val)
      <3>1. CASE data' = data
        BY <3>1 DEF Reads
      <3>2. CASE data' = [data EXCEPT ![d] = Effect(cmd, data[d])]
        BY <2>6, <2>7, <3>2, CommandReads
      <3> QED
        BY <2>8, <3>1, <3>2
    <2> QED
      BY <1>3, <2>4, <2>9 DEF LinkLost, Reads
  <1>4. CASE CommandFails(j)
    <2>1. PICK n : n = [j EXCEPT !.script = << >>, !.link = None, !.failed = TRUE]
      OBVIOUS
    <2>2. n.script = << >> /\ n.failed = TRUE
      BY <1>0, <2>1 DEF JobOK, IsJob
    <2>3. ScriptReads(n)
      BY <2>2, RangesOf DEF ScriptReads
    <2>4. \A i \in jobs' : ScriptReads(i)
      BY <1>0, <1>4, <2>1, <2>3 DEF CommandFails
    <2> QED
      BY <1>4, <2>4 DEF CommandFails, Reads
  <1>5. CASE Lookup(j)
    <2>1. PICK put : put = j.script[2]
      OBVIOUS
    <2>2. j.what = "save" /\ Tail(j.script) = <<put>> /\ put.op = "set" /\ put \in Range(j.script)
      <3>1. j.what = "save" /\ Tail(j.script) = <<put>> /\ put.op = "set"
        BY <1>0, <1>5, <2>1, LookupIsSave DEF Lookup, JobOK
      <3>2. put \in Range(Tail(j.script)) /\ Tail(j.script) # << >>
        BY <3>1, RangesOf, HeadsAndTails
      <3>3. j.script # << >>
        BY <1>5 DEF Lookup
      <3>4. PICK a, b : Tail(j.script) = <<b>> /\ Range(j.script) = {a, b}
        BY <1>0, <3>2, <3>3, ScriptCases
      <3>5. Head(<<put>>) = put /\ Head(<<b>>) = b
        BY HeadsAndTails
      <3>6. put = b
        BY ONLY <3>1, <3>4, <3>5
      <3> QED
        BY <3>1, <3>4, <3>6
    <2>3. PICK e : e = [op |-> "expire", ttl |-> meta.ttl]
      OBVIOUS
    <2>4. PICK s : /\ s = Tail(j.script) \o IF meta = None \/ meta.ttl = 0 THEN << >>
                                            ELSE <<[op |-> "expire", ttl |-> meta.ttl]>>
                   /\ s = <<put>> \/ s = <<put, e>>
      BY <2>2, <2>3, HeadsAndTails
    <2>5. PICK n : n = [j EXCEPT !.script = s]
      OBVIOUS
    <2>6. jobs' = (jobs \ {j}) \cup {n}
      BY <1>5, <2>4, <2>5 DEF Lookup
    <2>7. n.script = s /\ n.what = "save"
      BY <1>0, <2>2, <2>5 DEF JobOK, IsJob
    <2>8. Range(s) \subseteq {put, e} /\ Head(s) = put
      <3>1. CASE s = <<put>>
        BY <3>1, RangesOf, HeadsAndTails
      <3>2. CASE s = <<put, e>>
        BY <3>2, RangesOf, HeadsAndTails
      <3> QED
        BY <2>4, <3>1, <3>2
    <2>9. ReadsAsTyped(put) /\ ReadsAsTyped(e)
      BY <1>0, <2>2, <2>3 DEF ScriptReads, ReadsAsTyped, IsPut
    <2>10. ScriptReads(n)
      BY <2>2, <2>7, <2>8, <2>9 DEF ScriptReads
    <2>11. \A i \in jobs' : ScriptReads(i)
      BY <1>0, <2>6, <2>10
    <2> QED
      BY <1>5, <2>11 DEF Lookup, Reads
  <1>6. CASE WriteDone(j)
    <2>1. \A i \in Reloaded(jobs \ {j}) \cup {Fetch} : ScriptReads(i)
      BY <1>0, ReloadsRead DEF Places
    <2>2. \A i \in jobs' : ScriptReads(i)
      BY <1>0, <1>6, <2>1 DEF WriteDone
    <2> QED
      BY <1>6, <2>2 DEF WriteDone, Untouched, Reads
  <1>7. CASE TTLDone(j)
    <2>1. \A i \in Reloaded(jobs \ {j}) : ScriptReads(i)
      BY <1>0, ReloadsRead DEF Places
    <2>2. \A i \in jobs' : ScriptReads(i)
      BY <1>0, <1>7, <2>1 DEF TTLDone
    <2> QED
      BY <1>7, <2>2 DEF TTLDone, Untouched, Reads
  <1>8. CASE MetaDone(j)
    <2>1. \A i \in Outdated(jobs \ {j}, "fetch") \cup {Fetch} : ScriptReads(i)
      BY <1>0, ReloadsRead DEF Places
    <2>2. \A i \in jobs' : ScriptReads(i)
      BY <1>0, <1>8, <2>1 DEF MetaDone
    <2>3. page' = page \/ page'.rows = Gone
      BY <1>8 DEF MetaDone
    <2>4. AllLegible(Gone)
      BY DEF AllLegible, Gone
    <2> QED
      BY <1>8, <2>2, <2>3, <2>4 DEF MetaDone, Untouched, Reads
  <1>9. CASE FetchDone(j)
    <2>1. page' = page \/ (page'.rows = j.got.val /\ ~j.failed)
      BY <1>9 DEF FetchDone, Paged, IsPage
    <2>2. ~j.failed => AllLegible(j.got.val)
      BY <1>0, <1>9 DEF FetchDone, Finished, ScriptReads
    <2>3. \A i \in jobs' : ScriptReads(i)
      BY <1>0, <1>9 DEF FetchDone
    <2> QED
      BY <1>9, <2>1, <2>2, <2>3 DEF FetchDone, Untouched, Reads
  <1>10. CASE SelectDone(j)
    <2>1. \A i \in Outdated(Outdated(jobs \ {j}, "fetch"), "scan")
                    \cup {Job("scan", j.want, <<Cmd("scan")>>)} : ScriptReads(i)
      BY <1>0, ReloadsRead DEF Places
    <2>2. \A i \in jobs' : ScriptReads(i)
      BY <1>0, <1>10, <2>1 DEF SelectDone, ScanStarted
    <2>3. page' = page \/ page' = None
      BY <1>10 DEF SelectDone, ScanStarted
    <2> QED
      BY <1>10, <2>2, <2>3 DEF SelectDone, Untouched, Reads
  <1>11. CASE ScanDone(j)
    <2>1. \A i \in Reloaded(jobs \ {j}) : ScriptReads(i)
      BY <1>0, ReloadsRead DEF Places
    <2>2. \A i \in jobs' : ScriptReads(i)
      BY <1>0, <1>11, <2>1 DEF ScanDone
    <2> QED
      BY <1>11, <2>2 DEF ScanDone, Untouched, Reads
  <1> QED
    BY <1>1, <1>2, <1>3, <1>4, <1>5, <1>6, <1>7, <1>8, <1>9, <1>10, <1>11 DEF Client

LEMMA OutdatedLive ==
  ASSUME NEW js, \A j \in js : JobOK(j), NEW what, NEW n \in Outdated(js, what)
  PROVE  \E i \in js : n.what = i.what /\ (n.live => i.live /\ i.what # what)
  <1>1. PICK i \in js : n = [i EXCEPT !.live = (i.what # what) /\ i.live]
    BY DEF Outdated
  <1>2. n.what = i.what /\ n.live = ((i.what # what) /\ i.live)
    BY <1>1 DEF JobOK, IsJob
  <1> QED
    BY <1>2

LEMMA PagedStep ==
  ASSUME Jobs, Paged, [Next]_vars
  PROVE  Paged'
  <1>0. \A i \in jobs : JobOK(i)
    BY DEF Jobs
  \* The fetches that count are those that counted, or start for a page.
  <1> DEFINE NoNewFetch ==
        \A n \in jobs' : n.what = "fetch" /\ n.live => \E i \in jobs : i.what = "fetch" /\ i.live
  <1>a. ASSUME UNCHANGED page, NoNewFetch
        PROVE  Paged'
    BY <1>a DEF Paged
  <1> HIDE DEF NoNewFetch
  <1>b. ASSUME NEW js, js \subseteq jobs, NEW d, ScanStarted(js, d)
        PROVE  Paged'
    <2>1. page' = None
      BY <1>b DEF ScanStarted
    <2>2. ASSUME NEW n \in jobs' PROVE ~(n.what = "fetch" /\ n.live)
      <3>1. CASE n = Job("scan", d, <<Cmd("scan")>>)
        BY <3>1 DEF Job
      <3>2. CASE n \in Outdated(Outdated(js, "fetch"), "scan")
        <4>1. \A i \in Outdated(js, "fetch") : JobOK(i)
          BY <1>0, <1>b, OutdatedIsOK
        <4>2. PICK i \in Outdated(js, "fetch") : n.what = i.what /\ (n.live => i.live)
          BY <3>2, <4>1, OutdatedLive
        <4>3. \A k \in js : JobOK(k)
          BY <1>0, <1>b
        <4>4. PICK k \in js : i.what = k.what /\ (i.live => k.what # "fetch")
          BY <4>3, OutdatedLive
        <4> QED
          BY <4>2, <4>4
      <3> QED
        BY <1>b, <3>1, <3>2 DEF ScanStarted
    <2> QED
      BY <2>1, <2>2 DEF Paged
  <1>c. ASSUME NEW n, n.what # "fetch", NEW j \in jobs, jobs' \subseteq (jobs \ {j}) \cup {n}
        PROVE  NoNewFetch
    BY <1>c DEF NoNewFetch
  <1>d. ASSUME NEW what, NEW script, what # "fetch", NEW d, Start(Job(what, d, script)) PROVE NoNewFetch
    <2>1. PICK n : n = Job(what, d, script)
      OBVIOUS
    <2>2. n.what = what
      BY <2>1 DEF Job
    <2> QED
      BY <1>d, <2>1, <2>2 DEF Start, NoNewFetch
  <1>e. ASSUME NEW js, js \subseteq jobs, jobs' = Reloaded(js) PROVE NoNewFetch
    <2>1. \A i \in js : JobOK(i)
      BY <1>0, <1>e
    <2>2. MetaCall.what = "meta"
      BY DEF MetaCall, Job
    <2> QED
      BY <1>e, <2>1, <2>2, OutdatedLive DEF Reloaded, NoNewFetch
  <1>1. ASSUME NEW j \in jobs, Client(j) PROVE Paged'
    <2>0. IsJob(j)
      BY <1>0 DEF JobOK
    <2>1. ASSUME NEW n, jobs' = (jobs \ {j}) \cup {n}, n.what = j.what, n.live = j.live
          PROVE  NoNewFetch
      BY <2>1 DEF NoNewFetch
    <2>2. CASE Take(j)
      <3>1. PICK n, d : n = [j EXCEPT !.link = d] /\ jobs' = (jobs \ {j}) \cup {n}
        BY <2>2 DEF Take
      <3>2. n.what = j.what /\ n.live = j.live
        BY <2>0, <3>1 DEF IsJob
      <3> QED
        BY <2>1, <2>2, <3>1, <3>2, <1>a DEF Take
    <2>3. CASE Reply(j)
      <3>1. PICK n, t, x : /\ n = [j EXCEPT !.script = t, !.link = None, !.got = x]
                           /\ jobs' = (jobs \ {j}) \cup {n}
        BY <2>3 DEF Reply
      <3>2. n.what = j.what /\ n.live = j.live
        BY <2>0, <3>1 DEF IsJob
      <3> QED
        BY <2>1, <2>3, <3>1, <3>2, <1>a DEF Reply
    <2>4. CASE LinkLost(j)
      <3>1. PICK n : n = [j EXCEPT !.link = None] /\ jobs' = (jobs \ {j}) \cup {n}
        BY <2>4 DEF LinkLost
      <3>2. n.what = j.what /\ n.live = j.live
        BY <2>0, <3>1 DEF IsJob
      <3> QED
        BY <2>1, <2>4, <3>1, <3>2, <1>a DEF LinkLost
    <2>5. CASE CommandFails(j)
      <3>1. PICK n : /\ n = [j EXCEPT !.script = << >>, !.link = None, !.failed = TRUE]
                     /\ jobs' = (jobs \ {j}) \cup {n}
        BY <2>5 DEF CommandFails
      <3>2. n.what = j.what /\ n.live = j.live
        BY <2>0, <3>1 DEF IsJob
      <3> QED
        BY <2>1, <2>5, <3>1, <3>2, <1>a DEF CommandFails
    <2>6. CASE Lookup(j)
      <3>1. PICK n, s : n = [j EXCEPT !.script = s] /\ jobs' = (jobs \ {j}) \cup {n}
        BY <2>6 DEF Lookup
      <3>2. n.what = j.what /\ n.live = j.live
        BY <2>0, <3>1 DEF IsJob
      <3> QED
        BY <2>1, <2>6, <3>1, <3>2, <1>a DEF Lookup
    <2>7. CASE WriteDone(j)
      <3>1. CASE jobs' = jobs \ {j}
        BY <2>7, <3>1, <1>a DEF WriteDone, NoNewFetch
      <3>2. CASE page # None
        BY <2>7, <3>2 DEF WriteDone, Paged
      <3> QED
        BY <2>7, <3>1, <3>2 DEF WriteDone
    <2>8. CASE TTLDone(j)
      <3>1. CASE jobs' = jobs \ {j}
        BY <2>8, <3>1, <1>a DEF TTLDone, NoNewFetch
      <3>2. CASE jobs' = Reloaded(jobs \ {j})
        BY <2>8, <3>2, <1>a, <1>e DEF TTLDone
      <3> QED
        BY <2>8, <3>1, <3>2 DEF TTLDone
    <2>9. CASE MetaDone(j)
      <3>1. CASE ~j.live
        BY <2>9, <3>1, <1>a DEF MetaDone, NoNewFetch
      <3>2. CASE j.live
        <4>1. IsPage(page')
          BY <2>9, <3>2 DEF MetaDone, IsPage
        <4> QED
          BY <4>1 DEF Paged
      <3> QED
        BY <3>1, <3>2
    <2>10. CASE FetchDone(j)
      <3>1. CASE page' = page
        BY <2>10, <3>1, <1>a DEF FetchDone, NoNewFetch
      <3>2. CASE j.live /\ page' = [page EXCEPT !.rows = j.got.val]
        <4>1. IsPage(page)
          BY <2>10, <3>2 DEF FetchDone, Paged
        <4>2. IsPage(page')
          BY <3>2, <4>1 DEF IsPage
        <4> QED
          BY <4>2 DEF Paged
      <3> QED
        BY <2>10, <3>1, <3>2 DEF FetchDone
    <2>11. CASE SelectDone(j)
      <3>1. CASE j.failed
        BY <2>11, <3>1, <1>a DEF SelectDone, NoNewFetch
      <3>2. CASE ~j.failed
        BY <2>11, <3>2, <1>b DEF SelectDone
      <3> QED
        BY <3>1, <3>2
    <2>12. CASE ScanDone(j)
      <3>1. CASE jobs' = jobs \ {j}
        BY <2>12, <3>1, <1>a DEF ScanDone, NoNewFetch
      <3>2. CASE jobs' = Reloaded(jobs \ {j})
        BY <2>12, <3>2, <1>a, <1>e DEF ScanDone
      <3> QED
        BY <2>12, <3>1, <3>2 DEF ScanDone
    <2> QED
      BY <1>1, <2>2, <2>3, <2>4, <2>5, <2>6, <2>7, <2>8, <2>9, <2>10, <2>11, <2>12 DEF Client
  <1>2. CASE User
    <2>1. ASSUME UNCHANGED <<page, jobs>> PROVE Paged'
      BY <2>1 DEF Paged
    <2>2. CASE CancelEditor \/ \E f \in DOMAIN page.rows : OpenEditor(f)
      BY <2>1, <2>2 DEF CancelEditor, OpenEditor
    <2>3. CASE Rescan
      BY <2>3, <1>b DEF Rescan
    <2>4. ASSUME NEW f, DelItem(f) PROVE Paged'
      BY <2>4, <1>a, <1>d DEF DelItem
    <2>5. ASSUME NEW t, SetTTL(t) PROVE Paged'
      BY <2>5, <1>a, <1>d DEF SetTTL
    <2>6. ASSUME NEW d, SwitchDB(d) PROVE Paged'
      BY <2>6, <1>a, <1>d DEF SwitchDB
    <2>7. ASSUME NEW f, NEW text, NewItem(f, text) PROVE Paged'
      BY <2>7, <1>a, <1>d DEF NewItem
    <2>8. ASSUME NEW f, NEW text, Submit(f, text) PROVE Paged'
      <3>1. PICK what, script : what # "fetch" /\ Start(Job(what, dialog.db, script))
        <4>1. (IF kind = "string" THEN "save" ELSE "edit") # "fetch"
          OBVIOUS
        <4> QED
          BY <2>8, <4>1 DEF Submit
      <3> QED
        BY <2>8, <3>1, <1>a, <1>d DEF Submit
    <2> QED
      BY <1>2, <2>2, <2>3, <2>4, <2>5, <2>6, <2>7, <2>8 DEF User
  <1>3. CASE IdleLinkLost \/ OtherClient \/ UNCHANGED vars
    BY <1>3 DEF IdleLinkLost, OtherClient, vars, Paged
  <1> QED
    BY <1>1, <1>2, <1>3 DEF Next

LEMMA DelThenPut ==
  ASSUME NEW what, NEW d, NEW text \in Texts, NEW f, NEW put, IsPut(put), put.text = text,
         ReadsAsTyped(put)
  PROVE  /\ ScriptReads(Job(what, d, <<put>>))
         /\ ScriptReads(Job(what, d, <<Cmd("lookup"), put>>))
         /\ ScriptReads(Job(what, d, <<Del(f, text), put>>))
  <1>0. put.op # "hdel"
    BY DEF IsPut
  <1>1. ScriptReads(Job(what, d, <<put>>))
    <2>1. PICK q : q = <<put>>
      OBVIOUS
    <2>2. PICK n : n = Job(what, d, q)
      OBVIOUS
    <2>3. n.script = q
      BY <2>2 DEF Job
    <2>4. Range(q) = {put} /\ Head(q) = put /\ q # << >>
      BY <2>1, RangesOf, HeadsAndTails
    <2>5. ScriptReads(n)
      BY <1>0, <2>3, <2>4 DEF ScriptReads
    <2> QED
      BY <2>1, <2>2, <2>5
  <1>2. ASSUME NEW a, ~IsPut(a), a.op = "hdel" => a.text = text
        PROVE  ScriptReads(Job(what, d, <<a, put>>))
    <2>1. PICK q : q = <<a, put>>
      OBVIOUS
    <2>2. PICK n : n = Job(what, d, q)
      OBVIOUS
    <2>3. n.script = q
      BY <2>2 DEF Job
    <2>4. /\ Range(q) = {a, put} /\ Head(q) = a /\ q # << >>
          /\ Tail(q) = <<put>> /\ Head(Tail(q)) = put /\ Tail(q) # << >>
      BY <2>1, RangesOf, HeadsAndTails
    <2>5. ScriptReads(n)
      BY <1>2, <2>3, <2>4 DEF ScriptReads, ReadsAsTyped
    <2> QED
      BY <2>1, <2>2, <2>5
  <1>3. ~IsPut(Cmd("lookup")) /\ Cmd("lookup").op # "hdel"
    BY DEF IsPut, Cmd
  <1>4. ~IsPut(Del(f, text)) /\ Del(f, text).text = text
    BY DEF IsPut, Del
  <1> QED
    BY <1>1, <1>2, <1>3, <1>4

\* The texts that an editor may write over a value.
LEMMA EditorTexts ==
  ASSUME PlainTexts, NEW raw, Legible(raw), NEW text \in Typed \cup {Decoded(raw)}
  PROVE  text \in Texts /\ (text.lang = "phplike" => Format(raw) = NoText)
  BY EditsAssumption DEF Legible, PlainTexts

LEMMA ReadsUser ==
  ASSUME PlainTexts, Jobs, Places, Reads, User
  PROVE  Reads'
  <1>0. \A i \in jobs : JobOK(i) /\ ScriptReads(i)
    BY DEF Jobs, Reads
  <1>a. ASSUME NEW j, ScriptReads(j), Start(j), UNCHANGED <<data, page>>, dialog' \in {dialog, None}
        PROVE  Reads'
    BY <1>a DEF Reads, Start
  <1>1. CASE CancelEditor
    BY <1>1 DEF CancelEditor, Reads
  <1>2. CASE Rescan
    <2>1. \A i \in Outdated(Outdated(jobs, "fetch"), "scan")
                    \cup {Job("scan", db, <<Cmd("scan")>>)} : ScriptReads(i)
      BY <1>0, ReloadsRead DEF Places
    <2>2. \A i \in jobs' : ScriptReads(i)
      BY <1>2, <2>1 DEF Rescan, ScanStarted
    <2> QED
      BY <1>2, <2>2 DEF Rescan, ScanStarted, Reads
  <1>3. ASSUME NEW f, OpenEditor(f) PROVE Reads'
    <2>1. dialog'.raw = page.rows[f] /\ f \in DOMAIN page.rows /\ page # None
      BY <1>3 DEF OpenEditor
    <2>2. Legible(dialog'.raw)
      BY <2>1 DEF Reads, AllLegible
    <2> QED
      BY <1>3, <2>2 DEF OpenEditor, Reads
  <1>4. ASSUME NEW f, DelItem(f) PROVE Reads'
    <2>1. PICK del : del = Del(f, NoText)
      OBVIOUS
    <2>2. ~IsPut(del) /\ del.text = NoText
      BY <2>1 DEF IsPut, Del
    <2>3. PICK q, n : q = <<del>> /\ n = Job("edit", db, q)
      OBVIOUS
    <2>4. n.script = q /\ n.what = "edit"
      BY <2>3 DEF Job
    <2>5. Range(q) = {del} /\ Head(q) = del
      BY <2>3, RangesOf, HeadsAndTails
    <2>6. ScriptReads(n)
      BY <2>2, <2>4, <2>5 DEF ScriptReads, ReadsAsTyped
    <2> QED
      BY <1>4, <1>a, <2>1, <2>3, <2>6 DEF DelItem
  <1>5. ASSUME NEW t, SetTTL(t) PROVE Reads'
    <2>1. PICK c : c = [op |-> "expire", ttl |-> t]
      OBVIOUS
    <2>2. ~IsPut(c) /\ c.op # "hdel"
      BY <2>1 DEF IsPut
    <2> QED
      BY <1>5, <1>a, <2>1, <2>2, NewReadsRead DEF SetTTL
  <1>6. ASSUME NEW d, SwitchDB(d) PROVE Reads'
    <2>1. PICK c : c = [op |-> "select", db |-> d]
      OBVIOUS
    <2>2. ~IsPut(c) /\ c.op # "hdel"
      BY <2>1 DEF IsPut
    <2> QED
      BY <1>6, <1>a, <2>1, <2>2, NewReadsRead DEF SwitchDB
  <1>7. ASSUME NEW f, NEW text \in Typed, NewItem(f, text) PROVE Reads'
    <2>1. PICK put : put = Put("hset", f, Bytes(text), text)
      OBVIOUS
    <2>2. IsPut(put) /\ put.text = text /\ put.raw = Bytes(text)
      BY <2>1 DEF IsPut, Put
    <2>3. text \in Texts
      BY EditsAssumption
    <2>4. ReadsAsTyped(put)
      BY <2>2, <2>3, BytesRead DEF ReadsAsTyped
    <2>5. ScriptReads(Job("edit", db, <<put>>))
      BY <2>2, <2>3, <2>4, DelThenPut
    <2> QED
      BY <1>7, <1>a, <2>1, <2>5 DEF NewItem
  <1>8. ASSUME NEW f, NEW text \in Typed \cup {Decoded(dialog.raw)}, dialog # None, Submit(f, text)
        PROVE  Reads'
    <2>1. PICK put : put = Put(IF kind = "string" THEN "set" ELSE "hset", f, Written(dialog.raw, text), text)
      OBVIOUS
    <2>2. IsPut(put) /\ put.text = text /\ put.raw = Written(dialog.raw, text)
      BY <2>1 DEF IsPut, Put
    <2>3. Legible(dialog.raw)
      BY <1>8 DEF Reads
    <2>4. text \in Texts /\ (text.lang = "phplike" => Format(dialog.raw) = NoText)
      BY <2>3, EditorTexts
    <2>5. ReadsAsTyped(put)
      BY <2>2, <2>4, WrittenRead DEF ReadsAsTyped
    <2>6. PICK what : what = IF kind = "string" THEN "save" ELSE "edit"
      OBVIOUS
    <2>7. /\ ScriptReads(Job(what, dialog.db, <<put>>))
          /\ ScriptReads(Job(what, dialog.db, <<Cmd("lookup"), put>>))
          /\ ScriptReads(Job(what, dialog.db, <<Del(dialog.field, text), put>>))
      BY <2>2, <2>4, <2>5, DelThenPut
    <2>8. \/ Start(Job(what, dialog.db, <<put>>))
          \/ Start(Job(what, dialog.db, <<Cmd("lookup"), put>>))
          \/ Start(Job(what, dialog.db, <<Del(dialog.field, text), put>>))
      BY <1>8, <2>1, <2>6 DEF Submit
    <2>9. UNCHANGED <<data, page>> /\ dialog' = None
      BY <1>8 DEF Submit
    <2> QED
      BY <1>a, <2>7, <2>8, <2>9
  <1> QED
    BY <1>1, <1>2, <1>3, <1>4, <1>5, <1>6, <1>7, <1>8 DEF User

LEMMA ReadsStep ==
  ASSUME PlainTexts, Jobs, Places, Paged, Reads, [Next]_vars
  PROVE  Reads'
  <1>1. CASE OtherClient
    <2>1. PICK d \in DBs, t \in TTLs : data' = [data EXCEPT ![d].ttl = t]
      BY <1>1 DEF OtherClient
    <2>2. data' = [e \in DBs |-> [val |-> data[e].val, ttl |-> IF e = d THEN t ELSE data[e].ttl]]
      BY <2>1 DEF Reads
    <2>3. UNCHANGED <<jobs, page, dialog>>
      BY <1>1 DEF OtherClient
    <2>4. \A e \in DBs : data'[e].val = data[e].val
      BY <2>2
    <2>5. data' = [e \in DBs |-> [val |-> data'[e].val, ttl |-> data'[e].ttl]]
      BY <2>2
    <2> QED
      BY <2>3, <2>4, <2>5 DEF Reads
  <1>2. CASE IdleLinkLost \/ UNCHANGED vars
    BY <1>2 DEF IdleLinkLost, vars, Reads
  <1> QED
    BY <1>1, <1>2, ReadsClient, ReadsUser DEF Next

LEMMA EffectFields ==
  ASSUME NEW cmd, NEW key, key = [val |-> key.val, ttl |-> key.ttl],
         NEW new, new = Effect(cmd, key)
  PROVE  /\ IsPut(cmd) => new.val = WithField(key.val, cmd.field, cmd.raw)
         /\ ~IsPut(cmd) =>
              \A f \in DOMAIN key.val : \/ cmd.op = "hdel" /\ f = cmd.field
                                        \/ f \in DOMAIN new.val /\ new.val[f] = key.val[f]
  <1>1. PICK v, t : key = [val |-> v, ttl |-> t]
    OBVIOUS
  <1>2. ASSUME IsPut(cmd) PROVE new.val = WithField(v, cmd.field, cmd.raw)
    <2>1. PICK w : w = WithField(v, cmd.field, cmd.raw)
      OBVIOUS
    <2>2. new = [val |-> w, ttl |-> IF cmd.op = "set" THEN 0 ELSE t]
      BY <1>1, <1>2, <2>1 DEF Effect, IsPut
    <2> QED
      BY <2>1, <2>2
  <1>3. ASSUME ~IsPut(cmd), NEW f \in DOMAIN v, ~(cmd.op = "hdel" /\ f = cmd.field)
        PROVE  f \in DOMAIN new.val /\ new.val[f] = v[f]
    <2>1. \/ cmd.op = "hdel" /\ DOMAIN v # {cmd.field}
             /\ new = [key EXCEPT !.val = Restrict(@, DOMAIN @ \ {cmd.field})]
          \/ new = [key EXCEPT !.ttl = cmd.ttl]
          \/ new = key
      BY <1>1, <1>3 DEF Effect, IsPut
    <2>2. CASE /\ cmd.op = "hdel"
               /\ new = [key EXCEPT !.val = Restrict(@, DOMAIN @ \ {cmd.field})]
      <3>1. new.val = Restrict(v, DOMAIN v \ {cmd.field})
        BY <1>1, <2>2
      <3> QED
        BY <1>3, <2>2, <3>1 DEF Restrict
    <2>3. CASE new = [key EXCEPT !.ttl = cmd.ttl] \/ new = key
      BY <1>1, <1>3, <2>3
    <2> QED
      BY <2>1, <2>2, <2>3
  <1> QED
    BY <1>1, <1>2, <1>3

\* A command of a write changes the database that was meant, or has strayed.
LEMMA MeantHere ==
  ASSUME NEW j, JobOK(j), j.script # << >>, NEW cmd, cmd = Head(j.script), NEW d,
         Recorded(j, cmd, d), "strayed" \notin past', IsPut(cmd) \/ cmd.op = "hdel"
  PROVE  d = j.want
  <1>1. j.what \in Writes
    BY ScriptCases DEF Ops, Writes, IsPut
  <1> QED
    BY <1>1 DEF Recorded

LEMMA CommandKeeps ==
  ASSUME Jobs, Reads, Keeps, past \subseteq past', NEW j \in jobs, j.script # << >>,
         NEW cmd, cmd = Head(j.script), NEW d \in DBs, Recorded(j, cmd, d),
         data' = [data EXCEPT ![d] = Effect(cmd, data[d])],
         NEW n, jobs' = (jobs \ {j}) \cup {n}, n.want = j.want,
         Range(Tail(j.script)) \subseteq Range(n.script)
  PROVE  Keeps'
  <1> SUFFICES ASSUME past' \cap {"failed", "strayed"} = {}, NEW k \in kept'
               PROVE  k \in DBs \X Texts /\ (Holds(k[1], k[2])' \/ Coming(k[1], k[2])')
    BY DEF Keeps
  <1>0. JobOK(j) /\ ScriptReads(j)
    BY DEF Jobs, Reads
  <1>1. k \in kept
    BY DEF Recorded
  <1>2. PICK e \in DBs, text \in Texts : k = <<e, text>> /\ (Holds(e, text) \/ Coming(e, text))
    <2>1. k \in DBs \X Texts /\ (Holds(k[1], k[2]) \/ Coming(k[1], k[2]))
      BY <1>1 DEF Keeps
    <2>2. PICK e \in DBs, text \in Texts : k = <<e, text>>
      BY <2>1
    <2> QED
      BY <2>1, <2>2
  <1> SUFFICES Holds(e, text)' \/ Coming(e, text)'
    BY <1>2
  <1>3. PICK new : new = Effect(cmd, data[d])
    OBVIOUS
  <1>4. /\ data[d] = [val |-> data[d].val, ttl |-> data[d].ttl] /\ d \in DOMAIN data
        /\ data'[d] = new /\ \A g \in DBs : g # d => data'[g] = data[g]
    BY <1>3 DEF Reads
  <1>5. /\ IsPut(cmd) => new.val = WithField(data[d].val, cmd.field, cmd.raw)
        /\ ~IsPut(cmd) =>
             \A f \in DOMAIN data[d].val : \/ cmd.op = "hdel" /\ f = cmd.field
                                           \/ f \in DOMAIN new.val /\ new.val[f] = data[d].val[f]
    BY <1>3, <1>4, EffectFields
  <1>6. IsPut(cmd) \/ cmd.op = "hdel" => d = j.want
    BY <1>0, MeantHere
  <1>7. cmd \in Range(j.script) /\ (\A c \in Range(j.script) : c = cmd \/ c \in Range(Tail(j.script)))
    <2>1. CASE \E a : Head(j.script) = a /\ Range(j.script) = {a}
      BY <2>1
    <2>2. CASE \E a, b : /\ Head(j.script) = a /\ Tail(j.script) = <<b>>
                         /\ Range(j.script) = {a, b}
      BY <2>2, RangesOf
    <2> QED
      BY <1>0, <2>1, <2>2, ScriptCases
  <1>8. ASSUME IsPut(cmd), cmd.text = text, e = d PROVE Holds(e, text)'
    <2>1. Decoded(cmd.raw) = text
      BY <1>0, <1>7, <1>8 DEF ScriptReads, ReadsAsTyped
    <2>2. cmd.field \in DOMAIN new.val /\ new.val[cmd.field] = cmd.raw
      BY <1>5, <1>8 DEF WithField
    <2>3. data'[e].val = new.val
      BY <1>4, <1>8
    <2> QED
      BY <2>1, <2>2, <2>3 DEF Holds
  <1>9. CASE Holds(e, text)
    <2>1. PICK f \in DOMAIN data[e].val : Decoded(data[e].val[f]) = text
      BY <1>9 DEF Holds
    <2>2. CASE e # d
      <3>1. data'[e] = data[e]
        BY <1>4, <2>2
      <3> QED
        BY <2>1, <3>1 DEF Holds
    <2>3. CASE e = d /\ f \in DOMAIN new.val /\ new.val[f] = data[d].val[f]
      <3>1. data'[e].val = new.val
        BY <1>4, <2>3
      <3> QED
        BY <2>1, <2>3, <3>1 DEF Holds
    <2>4. CASE e = d /\ f = cmd.field /\ (IsPut(cmd) \/ cmd.op = "hdel")
      <3>1. text = cmd.text
        <4>1. cmd.op \in {"set", "hset", "hdel"} /\ cmd.field \in DOMAIN data[d].val
          BY <2>4 DEF IsPut
        <4>2. kept' = kept \ {<<d, t>> : t \in {Decoded(data[d].val[cmd.field])} \ {cmd.text}}
          BY <4>1 DEF Recorded
        <4>3. <<d, text>> \notin {<<d, t>> : t \in {Decoded(data[d].val[cmd.field])} \ {cmd.text}}
          BY <1>2, <2>4, <4>2
        <4>4. Decoded(data[d].val[cmd.field]) = text
          BY <2>1, <2>4
        <4> QED
          BY <4>3, <4>4
      <3>2. CASE IsPut(cmd)
        BY <1>8, <2>4, <3>1, <3>2
      <3>3. CASE cmd.op = "hdel"
        <4>1. text # NoText
          BY <1>2, EditsAssumption
        <4>2. Tail(j.script) # << >> /\ Head(Tail(j.script)).text = text
          BY <1>0, <3>1, <3>3, <4>1 DEF ScriptReads
        <4>3. PICK b : Tail(j.script) = <<b>> /\ IsPut(b)
          BY <1>0, <3>3, <4>2, ScriptCases DEF Ops, IsPut
        <4>4. Head(<<b>>) = b /\ Range(<<b>>) = {b}
          BY HeadsAndTails, RangesOf
        <4>5. b.text = text
          BY <4>2, <4>3, <4>4
        <4>6. b \in Range(n.script)
          BY <4>3, <4>4
        <4> QED
          BY <1>6, <2>4, <3>3, <4>3, <4>5, <4>6 DEF Coming
      <3> QED
        BY <2>4, <3>2, <3>3
    <2>5. e = d /\ IsPut(cmd) /\ f # cmd.field =>
            f \in DOMAIN new.val /\ new.val[f] = data[d].val[f]
      BY <1>5, <2>1 DEF WithField
    <2> QED
      BY <1>5, <2>1, <2>2, <2>3, <2>4, <2>5
  <1>10. CASE Coming(e, text)
    <2>1. PICK i \in jobs : i.want = e /\ \E c \in Range(i.script) : IsPut(c) /\ c.text = text
      BY <1>10 DEF Coming
    <2>2. PICK c \in Range(i.script) : IsPut(c) /\ c.text = text
      BY <2>1
    <2>3. CASE i # j
      BY <2>1, <2>3 DEF Coming
    <2>4. CASE i = j /\ c \in Range(Tail(j.script))
      BY <2>1, <2>2, <2>4 DEF Coming
    <2>5. CASE i = j /\ c = cmd
      BY <1>6, <1>8, <2>1, <2>2, <2>5
    <2> QED
      BY <1>7, <2>2, <2>3, <2>4, <2>5
  <1> QED
    BY <1>2, <1>9, <1>10

\* A step that writes nothing, and drops no command.
LEMMA QuietKeeps ==
  ASSUME Keeps, past \subseteq past', kept' = kept, \A d \in DBs : data'[d].val = data[d].val,
         \A i \in jobs : Range(i.script) = {} \/
           \E n \in jobs' : n.want = i.want /\ Range(i.script) \subseteq Range(n.script)
  PROVE  Keeps'
  <1> SUFFICES ASSUME past' \cap {"failed", "strayed"} = {}, NEW k \in kept'
               PROVE  k \in DBs \X Texts /\ (Holds(k[1], k[2])' \/ Coming(k[1], k[2])')
    BY DEF Keeps
  <1>1. k \in DBs \X Texts /\ (Holds(k[1], k[2]) \/ Coming(k[1], k[2]))
    BY DEF Keeps
  <1>2. PICK d \in DBs, text \in Texts : k = <<d, text>>
    BY <1>1
  <1>3. CASE Holds(d, text)
    BY <1>2, <1>3 DEF Holds
  <1>4. CASE Coming(d, text)
    <2>1. PICK i \in jobs : i.want = d /\ \E c \in Range(i.script) : IsPut(c) /\ c.text = text
      BY <1>4 DEF Coming
    <2>2. PICK n \in jobs' : n.want = d /\ Range(i.script) \subseteq Range(n.script)
      BY <2>1
    <2> QED
      BY <1>2, <2>1, <2>2 DEF Coming
  <1> QED
    BY <1>1, <1>2, <1>3, <1>4

\* Jobs that are outdated go on all the same.
LEMMA OutdatedKeepsScripts ==
  ASSUME NEW js, \A j \in js : JobOK(j), NEW what, NEW i \in js
  PROVE  \E n \in Outdated(js, what) : n.want = i.want /\ n.script = i.script
  <1>1. PICK n : n = [i EXCEPT !.live = (i.what # what) /\ @]
    OBVIOUS
  <1>2. n.want = i.want /\ n.script = i.script
    BY <1>1 DEF JobOK, IsJob
  <1> QED
    BY <1>1, <1>2 DEF Outdated

LEMMA ReloadsKeepScripts ==
  ASSUME NEW js, \A j \in js : JobOK(j), NEW i \in js, NEW d
  PROVE  /\ \E n \in Outdated(Outdated(js, "fetch"), "scan") \cup {Job("scan", d, <<Cmd("scan")>>)} :
              n.want = i.want /\ n.script = i.script
         /\ \E n \in Reloaded(js) : n.want = i.want /\ n.script = i.script
  <1>1. \E n \in Outdated(Outdated(js, "fetch"), "scan") : n.want = i.want /\ n.script = i.script
    <2>1. PICK m \in Outdated(js, "fetch") : m.want = i.want /\ m.script = i.script
      BY OutdatedKeepsScripts
    <2>2. \A j \in Outdated(js, "fetch") : JobOK(j)
      BY OutdatedIsOK
    <2> QED
      BY <2>1, <2>2, OutdatedKeepsScripts
  <1>2. \E n \in Outdated(js, "meta") : n.want = i.want /\ n.script = i.script
    BY OutdatedKeepsScripts
  <1> QED
    BY <1>1, <1>2 DEF Reloaded

LEMMA KeepsClient ==
  ASSUME Jobs, Places, Reads, Keeps, past \subseteq past', NEW j \in jobs, Client(j)
  PROVE  Keeps'
  <1>0. JobOK(j) /\ \A i \in jobs : JobOK(i)
    BY DEF Jobs
  \* A step of the job that keeps its commands, or of one that has none.
  <1>a. ASSUME NEW n, jobs' = (jobs \ {j}) \cup {n}, n.want = j.want,
               Range(j.script) \subseteq Range(n.script), UNCHANGED <<data, kept>>
        PROVE  Keeps'
    BY <1>a, QuietKeeps
  <1>b. ASSUME j.script = << >>, UNCHANGED <<data, kept>>,
               \A i \in jobs \ {j} : \E n \in jobs' : n.want = i.want /\ n.script = i.script
        PROVE  Keeps'
    <2>1. Range(j.script) = {}
      BY <1>b, RangesOf
    <2> QED
      BY <1>b, <2>1, QuietKeeps
  <1>c. \A i \in jobs \ {j} : \E n \in Reloaded(jobs \ {j}) : n.want = i.want /\ n.script = i.script
    BY <1>0, ReloadsKeepScripts
  <1>1. CASE Take(j)
    <2>1. PICK n, d : n = [j EXCEPT !.link = d] /\ jobs' = (jobs \ {j}) \cup {n}
      BY <1>1 DEF Take
    <2>2. n.want = j.want /\ n.script = j.script
      BY <1>0, <2>1 DEF JobOK, IsJob
    <2> QED
      BY <1>a, <1>1, <2>1, <2>2 DEF Take
  <1>2. CASE Reply(j)
    <2>1. PICK cmd, d, t : cmd = Head(j.script) /\ d = j.link /\ t = Tail(j.script)
      OBVIOUS
    <2>2. j.script # << >> /\ d \in DBs
      BY <1>0, <1>2, <2>1 DEF Reply, JobOK
    <2>3. PICK n, x : /\ n = [j EXCEPT !.script = t, !.link = None, !.got = x]
                      /\ jobs' = (jobs \ {j}) \cup {n}
      BY <1>2, <2>1 DEF Reply
    <2>4. n.want = j.want /\ n.script = t
      BY <1>0, <2>3 DEF JobOK, IsJob
    <2>5. Recorded(j, cmd, d) /\ data' = [data EXCEPT ![d] = Effect(cmd, data[d])]
      BY <1>2, <2>1 DEF Reply
    <2> QED
      BY <2>1, <2>2, <2>3, <2>4, <2>5, CommandKeeps
  <1>3. CASE LinkLost(j)
    <2>1. PICK n : n = [j EXCEPT !.link = None]
      OBVIOUS
    <2>2. jobs' = (jobs \ {j}) \cup {n}
      BY <1>3, <2>1 DEF LinkLost
    <2>3. n.want = j.want /\ n.script = j.script
      BY <1>0, <2>1 DEF JobOK, IsJob
    <2>4. PICK cmd, d : cmd = Head(j.script) /\ d = j.link
      OBVIOUS
    <2>5. j.script # << >> /\ d \in DBs
      BY <1>0, <1>3, <2>4 DEF LinkLost, JobOK
    <2>6. CASE UNCHANGED <<data, kept>>
      BY <1>a, <2>2, <2>3, <2>6
    <2>7. CASE Recorded(j, cmd, d) /\ data' = [data EXCEPT ![d] = Effect(cmd, data[d])]
      <3>1. Range(Tail(j.script)) \subseteq Range(n.script)
        <4>1. CASE Tail(j.script) = << >>
          BY <4>1, RangesOf
        <4>2. CASE \E a, b : Tail(j.script) = <<b>> /\ Range(j.script) = {a, b}
          <5>1. PICK a, b : Tail(j.script) = <<b>> /\ Range(j.script) = {a, b}
            BY <4>2
          <5>2. Range(<<b>>) = {b}
            BY RangesOf
          <5> QED
            BY <2>3, <5>1, <5>2
        <4> QED
          BY <1>0, <2>5, <4>1, <4>2, ScriptCases
      <3> QED
        BY <2>2, <2>3, <2>4, <2>5, <2>7, <3>1, CommandKeeps
    <2> QED
      BY <1>3, <2>4, <2>6, <2>7 DEF LinkLost
  <1>4. CASE CommandFails(j)
    <2>1. past' \cap {"failed", "strayed"} # {}
      BY <1>4 DEF CommandFails
    <2> QED
      BY <2>1 DEF Keeps
  <1>5. CASE Lookup(j)
    <2>1. PICK put : put = j.script[2]
      OBVIOUS
    <2>2. Tail(j.script) = <<put>> /\ j.script # << >> /\ Head(j.script).op = "lookup"
      BY <1>0, <1>5, <2>1, LookupIsSave DEF Lookup, JobOK
    <2>3. PICK rest : /\ rest = IF meta = None \/ meta.ttl = 0 THEN << >>
                                ELSE <<[op |-> "expire", ttl |-> meta.ttl]>>
                      /\ rest = << >> \/ rest = <<[op |-> "expire", ttl |-> meta.ttl]>>
      OBVIOUS
    <2>4. PICK s : s = Tail(j.script) \o rest
      OBVIOUS
    <2>5. PICK n : n = [j EXCEPT !.script = s]
      OBVIOUS
    <2>6. jobs' = (jobs \ {j}) \cup {n}
      BY <1>5, <2>3, <2>4, <2>5 DEF Lookup
    <2>7. n.want = j.want /\ n.script = s
      BY <1>0, <2>5 DEF JobOK, IsJob
    <2>8. put \in Range(s)
      <3>1. CASE rest = << >>
        <4>1. s = <<put>>
          BY <2>2, <2>4, <3>1, HeadsAndTails
        <4> QED
          BY <4>1, RangesOf
      <3>2. CASE rest # << >>
        <4>1. PICK e : rest = <<e>>
          BY <2>3, <3>2
        <4>2. s = <<put, e>>
          BY <2>2, <2>4, <4>1, HeadsAndTails
        <4> QED
          BY <4>2, RangesOf
      <3> QED
        BY <3>1, <3>2
    <2> SUFFICES ASSUME past' \cap {"failed", "strayed"} = {}, NEW k \in kept'
                 PROVE  k \in DBs \X Texts /\ (Holds(k[1], k[2])' \/ Coming(k[1], k[2])')
      BY DEF Keeps
    <2>9. k \in DBs \X Texts /\ (Holds(k[1], k[2]) \/ Coming(k[1], k[2])) /\ data' = data
      BY <1>5 DEF Keeps, Lookup
    <2>10. PICK d \in DBs, text \in Texts : k = <<d, text>>
      BY <2>9
    <2>11. CASE Holds(d, text)
      BY <2>9, <2>10, <2>11 DEF Holds
    <2>12. CASE Coming(d, text)
      <3>1. PICK i \in jobs : i.want = d /\ \E c \in Range(i.script) : IsPut(c) /\ c.text = text
        BY <2>12 DEF Coming
      <3>2. PICK c \in Range(i.script) : IsPut(c) /\ c.text = text
        BY <3>1
      <3>3. i = j => c = put
        <4>1. CASE \E a, b : /\ Head(j.script) = a /\ Tail(j.script) = <<b>>
                             /\ Range(j.script) = {a, b}
          <5>1. PICK a, b : Head(j.script) = a /\ Tail(j.script) = <<b>> /\ Range(j.script) = {a, b}
            BY <4>1
          <5>2. Head(<<put>>) = put /\ Head(<<b>>) = b
            BY HeadsAndTails
          <5>3. put = b
            BY ONLY <2>2, <5>1, <5>2
          <5> QED
            BY <2>2, <3>2, <5>1, <5>3 DEF IsPut
        <4>2. Tail(j.script) # << >>
          BY <2>2, HeadsAndTails
        <4> QED
          BY <1>0, <2>2, <4>1, <4>2, ScriptCases
      <3> QED
        BY <2>6, <2>7, <2>8, <2>10, <3>1, <3>2, <3>3 DEF Coming
    <2> QED
      BY <2>9, <2>10, <2>11, <2>12
  <1>6. CASE WriteDone(j)
    BY <1>b, <1>c, <1>6 DEF WriteDone, Finished, Untouched
  <1>7. CASE TTLDone(j)
    BY <1>b, <1>c, <1>7 DEF TTLDone, Finished, Untouched
  <1>8. CASE MetaDone(j)
    <2>1. \A i \in jobs \ {j} : \E n \in Outdated(jobs \ {j}, "fetch") :
            n.want = i.want /\ n.script = i.script
      BY <1>0, OutdatedKeepsScripts
    <2>2. jobs' = jobs \ {j} \/ Outdated(jobs \ {j}, "fetch") \subseteq jobs'
      BY <1>8 DEF MetaDone
    <2> QED
      BY <1>b, <1>8, <2>1, <2>2 DEF MetaDone, Finished, Untouched
  <1>9. CASE FetchDone(j)
    BY <1>b, <1>9 DEF FetchDone, Finished, Untouched
  <1>10. CASE SelectDone(j)
    <2>1. \A i \in jobs \ {j} :
            \E n \in Outdated(Outdated(jobs \ {j}, "fetch"), "scan")
                       \cup {Job("scan", j.want, <<Cmd("scan")>>)} :
              n.want = i.want /\ n.script = i.script
      BY <1>0, ReloadsKeepScripts
    <2>2. \A i \in jobs \ {j} : \E n \in jobs' : n.want = i.want /\ n.script = i.script
      BY <1>10, <2>1 DEF SelectDone, ScanStarted
    <2> QED
      BY <1>b, <1>10, <2>2 DEF SelectDone, Finished, Untouched
  <1>11. CASE ScanDone(j)
    BY <1>b, <1>c, <1>11 DEF ScanDone, Finished, Untouched
  <1> QED
    BY <1>1, <1>2, <1>3, <1>4, <1>5, <1>6, <1>7, <1>8, <1>9, <1>10, <1>11 DEF Client

LEMMA KeepsStep ==
  ASSUME Jobs, Places, Reads, Keeps, [Next]_vars
  PROVE  Keeps'
  <1>1. past \subseteq past' /\ \A i \in jobs : JobOK(i)
    BY PastGrows DEF Jobs
  <1>2. CASE User
    <2>1. kept' = kept /\ data' = data
      BY <1>2 DEF User, CancelEditor, Rescan, OpenEditor, DelItem, SetTTL, SwitchDB, NewItem, Submit
    <2>2. \A i \in jobs : \E n \in jobs' : n.want = i.want /\ n.script = i.script
      <3>1. CASE Rescan
        <4>1. \A i \in jobs :
                \E n \in Outdated(Outdated(jobs, "fetch"), "scan")
                           \cup {Job("scan", db, <<Cmd("scan")>>)} :
                  n.want = i.want /\ n.script = i.script
          BY <1>1, ReloadsKeepScripts
        <4> QED
          BY <3>1, <4>1 DEF Rescan, ScanStarted
      <3>2. CASE ~Rescan
        <4>1. jobs \subseteq jobs'
          BY <1>2, <3>2 DEF User, CancelEditor, OpenEditor, DelItem, SetTTL, SwitchDB, NewItem,
                            Submit, Start
        <4> QED
          BY <4>1
      <3> QED
        BY <3>1, <3>2
    <2> QED
      BY <1>1, <2>1, <2>2, QuietKeeps
  <1>3. CASE OtherClient
    <2>1. PICK d \in DBs, t \in TTLs : data' = [data EXCEPT ![d].ttl = t]
      BY <1>3 DEF OtherClient
    <2>2. \A e \in DBs : data'[e].val = data[e].val
      BY <2>1 DEF Reads
    <2> QED
      BY <1>1, <1>3, <2>2, QuietKeeps DEF OtherClient
  <1>4. CASE IdleLinkLost \/ UNCHANGED vars
    BY <1>1, <1>4, QuietKeeps DEF IdleLinkLost, vars
  <1> QED
    BY <1>1, <1>2, <1>3, <1>4, KeepsClient DEF Next

\* What nobody has replaced or deleted is still there when all is answered.
THEOREM ValuesStay ==
  ASSUME PlainTexts
  PROVE  Spec => []ValuesKept
  <1> DEFINE Inv == Jobs /\ Places /\ Paged /\ Reads /\ Keeps
  <1>1. Init => Inv
    <2> SUFFICES ASSUME Init PROVE Inv
      OBVIOUS
    <2>1. <<Home>> \in Seq(DBs)
      BY EditsAssumption
    <2>2. PICK v \in Values[kind], t \in Expiries :
            /\ data = [d \in DBs |-> [val |-> v, ttl |-> t]]
            /\ page = [kind |-> kind, rows |-> v]
            /\ kept = DBs \X {Decoded(v[f]) : f \in DOMAIN v}
      BY DEF Init
    <2>3. AllLegible(v)
      BY <2>2, EditsAssumption DEF Init, AllLegible, PlainTexts
    <2>4. Jobs /\ Places
      BY <2>1, EditsAssumption DEF Init, Jobs, Places
    <2>5. Paged /\ Reads
      BY <2>2, <2>3 DEF Init, Paged, IsPage, Reads
    <2>6. Keeps
      <3> SUFFICES ASSUME NEW k \in kept PROVE k \in DBs \X Texts /\ Holds(k[1], k[2])
        BY DEF Keeps
      <3>1. PICK d \in DBs, f \in DOMAIN v : k = <<d, Decoded(v[f])>>
        BY <2>2
      <3>2. Decoded(v[f]) \in Texts
        BY <2>3 DEF AllLegible, Legible
      <3> QED
        BY <2>2, <3>1, <3>2 DEF Holds
    <2> QED
      BY <2>4, <2>5, <2>6
  <1>2. Inv /\ [Next]_vars => Inv'
    BY JobsStep, PagedStep, ReadsStep, KeepsStep
  <1>3. Inv => ValuesKept
    <2> SUFFICES ASSUME Keeps, Rest, past \cap {"failed", "strayed"} = {}, NEW k \in kept
                 PROVE  Holds(k[1], k[2])
      BY DEF ValuesKept
    <2> QED
      BY DEF Keeps, Coming, Rest
  <1> QED
    BY <1>1, <1>2, <1>3, PTL DEF Spec

----------------------------------------------------------------------------
(* Links, whatever the user's hurry.                                       *)

AllOn(d) == idle \in Seq({d}) /\ \A j \in jobs : j.link # None => j.link = d
Agree == \A i, j \in jobs : i.what = "select" /\ j.what = "select" => i.want = j.want

\* No link has left the first database; or there is but one, and it is on the
\* database on screen, or on the one that all who selected have asked for.
Links ==
  /\ "failed" \notin past => \A j \in jobs : ~j.failed
  /\ \A j \in jobs : Selected(j) => "selected" \in past
  /\ "selected" \notin past => db = Home /\ AllOn(Home)
  /\ "second link" \notin past => OneLink
  /\ past \cap {"failed", "second link", "crossed"} = {} /\ Agree =>
       /\ \A j \in jobs : Selected(j) => AllOn(j.want)
       /\ (\A j \in jobs : ~Selected(j)) => AllOn(db)

\* A job that goes on as it was, and one that begins.
Same(n, i) ==
  /\ n.what = i.what /\ n.want = i.want /\ n.script = i.script
  /\ n.link = i.link /\ n.failed = i.failed /\ n.got = i.got
New(n) == n.link = None /\ n.failed = FALSE /\ ~Selected(n)

LEMMA OutdatedFrom ==
  ASSUME NEW js, \A j \in js : JobOK(j), NEW what
  PROVE  /\ \A n \in Outdated(js, what) :
              \E i \in js : Same(n, i) /\ n.live = ((i.what # what) /\ i.live)
         /\ \A i \in js : \E n \in Outdated(js, what) : Same(n, i)
  <1>1. ASSUME NEW i \in js
        PROVE  \A n : n = [i EXCEPT !.live = (i.what # what) /\ @] =>
                 Same(n, i) /\ n.live = ((i.what # what) /\ i.live)
    BY <1>1 DEF JobOK, IsJob, Same
  <1>2. ASSUME NEW n \in Outdated(js, what)
        PROVE  \E i \in js : Same(n, i) /\ n.live = ((i.what # what) /\ i.live)
    <2>1. PICK i \in js : n = [i EXCEPT !.live = (i.what # what) /\ @]
      BY DEF Outdated
    <2> QED
      BY <1>1, <2>1
  <1>3. ASSUME NEW i \in js PROVE \E n \in Outdated(js, what) : Same(n, i)
    <2>1. PICK n : n = [i EXCEPT !.live = (i.what # what) /\ @]
      OBVIOUS
    <2>2. n \in Outdated(js, what)
      BY <2>1 DEF Outdated
    <2> QED
      BY <1>1, <2>1, <2>2
  <1> QED
    BY <1>2, <1>3

\* What a running job becomes.
Becomes(j, n) ==
  /\ jobs' = (jobs \ {j}) \cup {n}
  /\ n.what = j.what /\ n.want = j.want /\ n.live = j.live

LEMMA TakeGoes ==
  ASSUME Jobs, NEW j \in jobs, Take(j)
  PROVE  /\ j.script # << >>
         /\ \E n : /\ Becomes(j, n) /\ n.failed = j.failed /\ n.script = j.script
                   /\ n.got = j.got
                   /\ n.link = IF idle = << >> THEN Home ELSE Last(idle)
  <1>1. PICK d : d = IF idle = << >> THEN Home ELSE Last(idle)
    OBVIOUS
  <1>2. PICK n : n = [j EXCEPT !.link = d]
    OBVIOUS
  <1>3. jobs' = (jobs \ {j}) \cup {n} /\ j.script # << >>
    BY <1>1, <1>2 DEF Take
  <1>4. /\ n.what = j.what /\ n.want = j.want /\ n.live = j.live /\ n.failed = j.failed
        /\ n.script = j.script /\ n.link = d /\ n.got = j.got
    BY <1>2 DEF Jobs, JobOK, IsJob
  <1> QED
    BY <1>1, <1>3, <1>4 DEF Becomes

LEMMA ReplyGoes ==
  ASSUME Jobs, NEW j \in jobs, Reply(j)
  PROVE  /\ j.script # << >>
         /\ \E n : /\ Becomes(j, n) /\ n.failed = j.failed /\ n.script = Tail(j.script)
                   /\ n.link = None
                   /\ n.got = IF Head(j.script).op \in {"get", "meta", "scan"} THEN data[j.link] ELSE None
  <1>0. JobOK(j) /\ IsJob(j)
    BY DEF Jobs, JobOK
  <1>1. PICK t, x : /\ t = Tail(j.script)
                    /\ x = IF Head(j.script).op \in {"get", "meta", "scan"} THEN data[j.link] ELSE None
    OBVIOUS
  <1>2. PICK n : n = [j EXCEPT !.script = t, !.link = None, !.got = x]
    OBVIOUS
  <1>3. jobs' = (jobs \ {j}) \cup {n}
    BY <1>1, <1>2 DEF Reply
  <1>4. /\ n.what = j.what /\ n.want = j.want /\ n.live = j.live /\ n.failed = j.failed
        /\ n.script = t /\ n.link = None /\ n.got = x
    BY <1>0, <1>2 DEF IsJob
  <1>5. j.script # << >>
    BY <1>0 DEF JobOK, Reply
  <1> QED
    BY <1>1, <1>3, <1>4, <1>5 DEF Becomes

LEMMA LostGoes ==
  ASSUME Jobs, NEW j \in jobs, LinkLost(j)
  PROVE  /\ j.script # << >>
         /\ \E n : /\ Becomes(j, n) /\ n.failed = j.failed /\ n.script = j.script
                   /\ n.link = None /\ n.got = j.got
  <1>2. PICK n : n = [j EXCEPT !.link = None]
    OBVIOUS
  <1>3. jobs' = (jobs \ {j}) \cup {n}
    BY <1>2 DEF LinkLost
  <1>4. /\ n.what = j.what /\ n.want = j.want /\ n.live = j.live /\ n.failed = j.failed
        /\ n.script = j.script /\ n.link = None /\ n.got = j.got
    BY <1>2 DEF Jobs, JobOK, IsJob
  <1>5. j.script # << >>
    BY DEF Jobs, JobOK, LinkLost
  <1> QED
    BY <1>3, <1>4, <1>5 DEF Becomes

LEMMA LookupGoes ==
  ASSUME Jobs, NEW j \in jobs, Lookup(j)
  PROVE  /\ j.script # << >> /\ j.what = "save"
         /\ \E n : /\ Becomes(j, n) /\ n.failed = j.failed /\ n.link = j.link
                   /\ n.script = Tail(j.script) \o IF meta = None \/ meta.ttl = 0 THEN << >>
                                                   ELSE <<[op |-> "expire", ttl |-> meta.ttl]>>
  <1>1. PICK s : s = Tail(j.script) \o IF meta = None \/ meta.ttl = 0 THEN << >>
                                       ELSE <<[op |-> "expire", ttl |-> meta.ttl]>>
    OBVIOUS
  <1>2. PICK n : n = [j EXCEPT !.script = s]
    OBVIOUS
  <1>3. n = [j EXCEPT !.script = Tail(@) \o IF meta = None \/ meta.ttl = 0 THEN << >>
                                        ELSE <<[op |-> "expire", ttl |-> meta.ttl]>>]
    BY <1>1, <1>2
  <1>4. jobs' = (jobs \ {j}) \cup {n} /\ j.script # << >>
    BY <1>3 DEF Lookup
  <1>5. /\ n.what = j.what /\ n.want = j.want /\ n.live = j.live /\ n.failed = j.failed
        /\ n.link = j.link /\ n.script = s
    BY <1>2 DEF Jobs, JobOK, IsJob
  <1>6. j.what = "save"
    BY LookupIsSave DEF Lookup, Jobs, JobOK
  <1> QED
    BY <1>1, <1>4, <1>5, <1>6 DEF Becomes

LEMMA FailsGoes ==
  ASSUME Jobs, NEW j \in jobs, CommandFails(j)
  PROVE  \E n : Becomes(j, n) /\ n.failed = TRUE /\ n.link = None
  <1>2. PICK n : n = [j EXCEPT !.script = << >>, !.link = None, !.failed = TRUE]
    OBVIOUS
  <1>3. jobs' = (jobs \ {j}) \cup {n}
    BY <1>2 DEF CommandFails
  <1>4. /\ n.what = j.what /\ n.want = j.want /\ n.live = j.live
        /\ n.link = None /\ n.failed = TRUE
    BY <1>2 DEF Jobs, JobOK, IsJob
  <1> QED
    BY <1>3, <1>4 DEF Becomes

\* The set of SELECTs stays, in what it names and what is answered.
SelectsStay ==
  /\ \A n \in jobs' : n.what = "select" /\ ~New(n) =>
       \E i \in jobs : i.what = "select" /\ n.want = i.want /\ (Selected(n) <=> Selected(i))
  /\ \A i \in jobs : i.what = "select" =>
       \E n \in jobs' : n.what = "select" /\ n.want = i.want /\ (Selected(n) <=> Selected(i))

LEMMA LinksStay ==
  ASSUME Links, SelectsStay, past \subseteq past', db' = db,
         "failed" \notin past' => \A n \in jobs' : ~n.failed,
         \A d : (d = Home /\ "selected" \notin past') \/ "second link" \notin past' =>
                  (AllOn(d) => AllOn(d)'),
         "second link" \notin past' => OneLink'
  PROVE  Links'
  <1>1. \A n \in jobs' : Selected(n) => \E i \in jobs : Selected(i) /\ n.want = i.want
    BY DEF SelectsStay, New, Selected
  <1>2. \A n \in jobs' : Selected(n) => "selected" \in past'
    BY <1>1 DEF Links
  <1>3. "selected" \notin past' => db' = Home /\ AllOn(Home)'
    BY DEF Links
  <1>4. ASSUME past' \cap {"failed", "second link", "crossed"} = {}, Agree'
        PROVE  /\ \A n \in jobs' : Selected(n) => AllOn(n.want)'
               /\ (\A n \in jobs' : ~Selected(n)) => AllOn(db)'
    <2>1. past \cap {"failed", "second link", "crossed"} = {} /\ "second link" \notin past'
      BY <1>4
    <2>2. Agree
      <3> SUFFICES ASSUME NEW i \in jobs, NEW j \in jobs, i.what = "select", j.what = "select"
                   PROVE  i.want = j.want
        BY DEF Agree
      <3>1. PICK m \in jobs' : m.what = "select" /\ m.want = i.want
        BY DEF SelectsStay
      <3>2. PICK n \in jobs' : n.what = "select" /\ n.want = j.want
        BY DEF SelectsStay
      <3> QED
        BY <1>4, <3>1, <3>2 DEF Agree
    <2>3. ASSUME NEW n \in jobs', Selected(n) PROVE AllOn(n.want)'
      <3>1. PICK i \in jobs : Selected(i) /\ n.want = i.want
        BY <1>1, <2>3
      <3>2. AllOn(i.want)
        BY <2>1, <2>2, <3>1 DEF Links
      <3>3. PICK d : d = i.want
        OBVIOUS
      <3>4. AllOn(d)'
        BY <2>1, <3>2, <3>3
      <3>5. idle' \in Seq({n.want}) /\ \A k \in jobs' : k.link # None => k.link = n.want
        BY <3>1, <3>3, <3>4 DEF AllOn
      <3> QED
        BY <3>5 DEF AllOn
    <2>4. ASSUME \A n \in jobs' : ~Selected(n) PROVE AllOn(db)'
      <3>1. \A i \in jobs : ~Selected(i)
        BY <2>4 DEF SelectsStay, Selected
      <3>2. AllOn(db)
        BY <2>1, <2>2, <3>1 DEF Links
      <3>3. PICK d : d = db
        OBVIOUS
      <3>4. AllOn(d)'
        BY <2>1, <3>2, <3>3
      <3> QED
        BY <3>3, <3>4 DEF AllOn
    <2> QED
      BY <2>3, <2>4
  <1> QED
    BY <1>2, <1>3, <1>4 DEF Links

\* A job that is not a SELECT, or is one that goes on.
LEMMA BecomesSelects ==
  ASSUME NEW j \in jobs, NEW n, Becomes(j, n), ~Selected(j),
         j.what = "select" => ~Selected(n)
  PROVE  SelectsStay
  BY DEF Becomes, SelectsStay, Selected

LEMMA LinksTake ==
  ASSUME Jobs, Places, Links, NEW j \in jobs, Take(j)
  PROVE  Links'
  <1>1. PICK n : /\ Becomes(j, n) /\ n.failed = j.failed /\ n.script = j.script
                 /\ n.link = IF idle = << >> THEN Home ELSE Last(idle)
    BY TakeGoes
  <1>2. j.script # << >> /\ ~Selected(j) /\ ~Selected(n)
    BY <1>1, TakeGoes DEF Selected
  <1>3. SelectsStay
    BY <1>1, <1>2, BecomesSelects
  <1>4. /\ past \subseteq past' /\ db' = db
        /\ "failed" \notin past' => "failed" \notin past
        /\ idle = << >> => "second link" \in past' /\ idle' = idle
        /\ idle # << >> => idle' = Front(idle)
    BY DEF Take
  <1>5. "failed" \notin past' => \A i \in jobs' : ~i.failed
    BY <1>1, <1>4 DEF Links, Becomes
  <1>6. ASSUME NEW d, (d = Home /\ "selected" \notin past') \/ "second link" \notin past', AllOn(d)
        PROVE  AllOn(d)'
    <2>1. idle' \in Seq({d}) /\ n.link = d
      <3>1. CASE idle = << >>
        BY <1>1, <1>4, <1>6, <3>1 DEF AllOn
      <3>2. CASE idle # << >>
        <4>0. idle \in Seq({d})
          BY <1>6 DEF AllOn
        <4>1. idle \in Seq({d}) /\ Len(idle) \in Nat /\ Len(idle) > 0
          BY <3>2, <4>0
        <4>2. Last(idle) = d /\ Front(idle) \in Seq({d})
          BY <4>1 DEF Last, Front
        <4> QED
          BY <1>1, <1>4, <3>2, <4>2
      <3> QED
        BY <3>1, <3>2
    <2> QED
      BY <1>1, <1>6, <2>1 DEF AllOn, Becomes
  <1>7. ASSUME "second link" \notin past' PROVE OneLink'
    <2>1. idle # << >> /\ OneLink
      BY <1>4, <1>7 DEF Links
    <2>2. PICK x : idle = <<x>>
      BY <2>1 DEF OneLink
    <2>3. idle' = << >> /\ \A i \in jobs : i.link = None
      BY <1>4, <2>1, <2>2, SingleLast DEF OneLink
    <2> QED
      BY <1>1, <2>3 DEF OneLink, Becomes
  <1> QED
    BY <1>3, <1>4, <1>5, <1>6, <1>7, LinksStay

\* A command is done: its link is idle again, on the database e.
LEMMA LinkGivenBack ==
  ASSUME Links, NEW j \in jobs, j.link # None, NEW n, Becomes(j, n), n.link = None,
         NEW e, idle' = Append(idle, e), past \subseteq past'
  PROVE  /\ "second link" \notin past' => OneLink' /\ idle' = <<e>> /\ \A i \in jobs' : i.link = None
         /\ AllOn(e) => AllOn(e)'
  <1>1. ASSUME "second link" \notin past'
        PROVE  OneLink' /\ idle' = <<e>> /\ \A i \in jobs' : i.link = None
    <2>1. idle = << >> /\ \A i \in jobs \ {j} : i.link = None
      BY <1>1 DEF Links, OneLink
    <2>2. idle' = <<e>> /\ \A i \in jobs' : i.link = None
      BY <2>1, SingleLast DEF Becomes
    <2>3. idle'[1] = e
      BY <2>2
    <2> QED
      BY <2>2, <2>3 DEF OneLink
  <1>2. ASSUME AllOn(e) PROVE AllOn(e)'
    <2>1. idle' \in Seq({e})
      BY <1>2 DEF AllOn
    <2> QED
      BY <1>2, <2>1 DEF AllOn, Becomes
  <1> QED
    BY <1>1, <1>2

LEMMA LinksReply ==
  ASSUME Jobs, Places, Links, NEW j \in jobs, Reply(j)
  PROVE  Links'
  <1>1. PICK n : /\ Becomes(j, n) /\ n.failed = j.failed /\ n.script = Tail(j.script)
                 /\ n.link = None
    BY ReplyGoes
  <1>2. j.script # << >> /\ ~Selected(j) /\ JobOK(j) /\ j.link # None
    BY ReplyGoes DEF Selected, Jobs, Reply
  <1>3. PICK cmd, e : cmd = Head(j.script) /\ e = IF cmd.op = "select" THEN cmd.db ELSE j.link
    OBVIOUS
  <1>4. /\ idle' = Append(idle, e) /\ db' = db /\ past \subseteq past'
        /\ cmd.op = "select" => "selected" \in past'
        /\ "failed" \notin past' => "failed" \notin past
    BY <1>3 DEF Reply, Recorded
  <1>5. "failed" \notin past' => \A i \in jobs' : ~i.failed
    BY <1>1, <1>4 DEF Links, Becomes
  <1>6. /\ "second link" \notin past' => OneLink' /\ idle' = <<e>> /\ \A i \in jobs' : i.link = None
        /\ AllOn(e) => AllOn(e)'
    BY <1>1, <1>2, <1>4, LinkGivenBack
  <1>7. CASE cmd.op # "select"
    <2>1. j.what # "select" /\ e = j.link
      BY <1>2, <1>3, <1>7, SelectsOnly
    <2>2. \A d : AllOn(d) => d = e
      BY <1>2, <2>1 DEF AllOn
    <2>3. SelectsStay
      BY <1>1, <1>2, <2>1, BecomesSelects
    <2> QED
      BY <1>4, <1>5, <1>6, <2>2, <2>3, LinksStay
  <1>8. CASE cmd.op = "select"
    <2>1. j.what = "select" /\ n.script = << >> /\ e = j.want
      BY <1>1, <1>2, <1>3, <1>8, SelectsOnly
    <2>2. \A i \in jobs' : Selected(i) => "selected" \in past'
      BY <1>4, <1>8
    <2>3. ASSUME past' \cap {"failed", "second link", "crossed"} = {}, Agree'
          PROVE  /\ \A i \in jobs' : Selected(i) => AllOn(i.want)'
                 /\ (\A i \in jobs' : ~Selected(i)) => AllOn(db)'
      <3>1. idle' = <<e>> /\ \A i \in jobs' : i.link = None
        BY <1>6, <2>3
      <3>2. n \in jobs' /\ n.what = "select" /\ n.want = e /\ Selected(n)
        BY <1>1, <1>2, <1>4, <2>1, <2>3 DEF Becomes, Links, Selected
      <3>3. \A i \in jobs' : i.what = "select" => i.want = e
        BY <2>3, <3>2 DEF Agree
      <3>4. idle' \in Seq({e})
        BY <3>1
      <3>5. \A i \in jobs' : Selected(i) => i.want = e
        BY <3>3 DEF Selected
      <3> QED
        BY <3>1, <3>2, <3>4, <3>5 DEF AllOn
    <2> QED
      BY <1>4, <1>5, <1>6, <1>8, <2>2, <2>3 DEF Links
  <1> QED
    BY <1>7, <1>8

LEMMA LinksLost ==
  ASSUME Jobs, Places, Links, NEW j \in jobs, LinkLost(j)
  PROVE  Links'
  <1>1. PICK n : /\ Becomes(j, n) /\ n.failed = j.failed /\ n.script = j.script /\ n.link = None
    BY LostGoes
  <1>2. j.script # << >> /\ ~Selected(j) /\ ~Selected(n)
    BY <1>1, LostGoes DEF Selected
  <1>3. SelectsStay
    BY <1>1, <1>2, BecomesSelects
  <1>4. past \subseteq past' /\ db' = db /\ idle' = idle /\ ("failed" \notin past' => "failed" \notin past)
    BY DEF LinkLost, Recorded
  <1>5. "failed" \notin past' => \A i \in jobs' : ~i.failed
    BY <1>1, <1>4 DEF Links, Becomes
  <1>6. \A d : AllOn(d) => AllOn(d)'
    BY <1>1, <1>4 DEF AllOn, Becomes
  <1>7. "second link" \notin past' => OneLink'
    BY <1>1, <1>4 DEF Links, OneLink, Becomes
  <1> QED
    BY <1>3, <1>4, <1>5, <1>6, <1>7, LinksStay

LEMMA LinksFails ==
  ASSUME Jobs, Places, Links, NEW j \in jobs, CommandFails(j)
  PROVE  Links'
  <1>1. PICK n : Becomes(j, n) /\ n.failed = TRUE /\ n.link = None
    BY FailsGoes
  <1>2. j.link # None /\ idle' = Append(idle, j.link) /\ db' = db /\ past' = past \cup {"failed"}
    BY DEF CommandFails
  <1>3. /\ "second link" \notin past' => OneLink'
        /\ AllOn(j.link) => AllOn(j.link)'
    <2>1. PICK e : e = j.link
      OBVIOUS
    <2>2. /\ "second link" \notin past' => OneLink'
          /\ AllOn(e) => AllOn(e)'
      BY <1>1, <1>2, <2>1, LinkGivenBack
    <2> QED
      BY <1>1, <1>2, <2>1, <2>2 DEF AllOn, Becomes
  <1>4. \A i \in jobs' : Selected(i) => "selected" \in past'
    BY <1>1, <1>2 DEF Becomes, Selected, Links
  <1>5. "selected" \notin past' => db' = Home /\ AllOn(Home)'
    <2> SUFFICES ASSUME "selected" \notin past' PROVE AllOn(Home)'
      BY <1>2 DEF Links
    <2>1. AllOn(Home) /\ j.link = Home
      BY <1>2 DEF Links, AllOn
    <2> QED
      BY <1>1, <1>2, <1>3, <2>1 DEF AllOn
  <1> QED
    BY <1>2, <1>3, <1>4, <1>5 DEF Links

LEMMA LinksLookup ==
  ASSUME Jobs, Places, Links, NEW j \in jobs, Lookup(j)
  PROVE  Links'
  <1>1. PICK n : Becomes(j, n) /\ n.failed = j.failed /\ n.link = j.link
    BY LookupGoes
  <1>2. j.what = "save"
    BY LookupGoes
  <1>3. SelectsStay
    BY <1>1, <1>2, BecomesSelects DEF Selected
  <1>4. past' = past /\ db' = db /\ idle' = idle
    BY DEF Lookup
  <1>5. "failed" \notin past' => \A i \in jobs' : ~i.failed
    BY <1>1, <1>4 DEF Links, Becomes
  <1>6. \A d : AllOn(d) => AllOn(d)'
    BY <1>1, <1>4 DEF AllOn, Becomes
  <1>7. "second link" \notin past' => OneLink'
    BY <1>1, <1>4 DEF Links, OneLink, Becomes
  <1> QED
    BY <1>3, <1>4, <1>5, <1>6, <1>7, LinksStay

\* Jobs that go on as they were, some outdated, and one that begins.
GoOn(js) ==
  /\ \A n \in jobs' : New(n) \/ \E i \in js : Same(n, i)
  /\ \A i \in js : \E n \in jobs' : Same(n, i)
  /\ \A m, n \in jobs' : m.link # None /\ n.link # None =>
       \/ m = n
       \/ \E i, k \in js : i.link = m.link /\ k.link = n.link /\ i # k

LEMMA GoOnKeeps ==
  ASSUME NEW js \in SUBSET jobs, GoOn(js), idle' = idle
  PROVE  /\ \A d : AllOn(d) => AllOn(d)'
         /\ OneLink => OneLink'
         /\ \A n \in jobs' : n.link # None => \E i \in js : i.link = n.link
  <1>1. \A n \in jobs' : n.link # None => \E i \in js : i.link = n.link
    BY DEF GoOn, Same, New
  <1>2. \A d : AllOn(d) => AllOn(d)'
    BY <1>1 DEF AllOn
  <1>3. ASSUME OneLink PROVE OneLink'
    <2>1. idle' = << >> \/ (idle' = <<idle'[1]>> /\ \A n \in jobs' : n.link = None)
      BY <1>1, <1>3 DEF OneLink
    <2>2. \A m, n \in jobs' : m.link # None /\ n.link # None => m = n
      BY <1>3 DEF OneLink, GoOn
    <2> QED
      BY <2>1, <2>2 DEF OneLink
  <1> QED
    BY <1>1, <1>2, <1>3

LEMMA LinksGoOn ==
  ASSUME Links, NEW js \in SUBSET jobs, GoOn(js), \A i \in jobs \ js : i.what # "select" /\ i.link = None,
         UNCHANGED <<idle, db>>, past \subseteq past'
  PROVE  Links'
  <1>1. SelectsStay
    <2>1. ASSUME NEW n \in jobs', n.what = "select", ~New(n)
          PROVE  \E i \in jobs : i.what = "select" /\ n.want = i.want /\ (Selected(n) <=> Selected(i))
      BY <2>1 DEF GoOn, Same, Selected
    <2>2. ASSUME NEW i \in jobs, i.what = "select"
          PROVE  \E n \in jobs' : n.what = "select" /\ n.want = i.want /\ (Selected(n) <=> Selected(i))
      BY <2>2 DEF GoOn, Same, Selected
    <2> QED
      BY <2>1, <2>2 DEF SelectsStay
  <1>2. "failed" \notin past' => \A n \in jobs' : ~n.failed
    BY DEF GoOn, Same, New, Links
  <1>3. /\ \A d : AllOn(d) => AllOn(d)'
        /\ "second link" \notin past' => OneLink'
    BY GoOnKeeps DEF Links
  <1> QED
    BY <1>1, <1>2, <1>3, LinksStay

Carries(rest, js) ==
  /\ \A n \in rest : JobOK(n) /\ \E i \in js : Same(n, i)
  /\ \A i \in js : \E n \in rest : Same(n, i)
  /\ \A m, n \in rest : m.link # None /\ n.link # None =>
       \/ m = n
       \/ \E i, k \in js : i.link = m.link /\ k.link = n.link /\ i # k

LEMMA CarriesItself ==
  ASSUME NEW js, \A j \in js : JobOK(j)
  PROVE  Carries(js, js)
  BY DEF Carries, Same

LEMMA CarriesOutdated ==
  ASSUME NEW js, \A j \in js : JobOK(j), NEW rest, Carries(rest, js), NEW what
  PROVE  Carries(Outdated(rest, what), js)
  <1>0. \A n \in rest : JobOK(n)
    BY DEF Carries
  <1>1. ASSUME NEW n \in Outdated(rest, what) PROVE JobOK(n) /\ \E i \in js : Same(n, i)
    BY <1>0, OutdatedFrom, OutdatedIsOK DEF Carries, Same
  <1>2. ASSUME NEW i \in js PROVE \E n \in Outdated(rest, what) : Same(n, i)
    BY <1>0, OutdatedFrom DEF Carries, Same
  <1>3. ASSUME NEW m \in Outdated(rest, what), NEW n \in Outdated(rest, what),
               m.link # None, n.link # None, m # n
        PROVE  \E i, k \in js : i.link = m.link /\ k.link = n.link /\ i # k
    <2>1. PICK a \in rest : m = [a EXCEPT !.live = (a.what # what) /\ @]
      BY DEF Outdated
    <2>2. PICK b \in rest : n = [b EXCEPT !.live = (b.what # what) /\ @]
      BY DEF Outdated
    <2>3. a # b
      BY <1>3, <2>1, <2>2
    <2>4. m.link = a.link /\ n.link = b.link
      BY <1>0, <2>1, <2>2 DEF JobOK, IsJob
    <2> QED
      BY <1>3, <2>3, <2>4 DEF Carries
  <1> QED
    BY <1>1, <1>2, <1>3 DEF Carries

LEMMA CarriesOn ==
  ASSUME NEW js, NEW rest, Carries(rest, js), NEW news, \A n \in news : New(n), jobs' = rest \cup news
  PROVE  GoOn(js)
  BY DEF Carries, GoOn, New

LEMMA NewJobs ==
  /\ New(Fetch) /\ New(MetaCall)
  /\ \A what, d, script : what # "select" \/ script # << >> => New(Job(what, d, script))
  <1>1. ASSUME NEW what, NEW d, NEW script, what # "select" \/ script # << >>
        PROVE  New(Job(what, d, script))
    <2>1. PICK n : n = Job(what, d, script)
      OBVIOUS
    <2>2. n.what = what /\ n.script = script /\ n.link = None /\ n.failed = FALSE
      BY <2>1 DEF Job
    <2> QED
      BY <1>1, <2>1, <2>2 DEF New, Selected
  <1> QED
    BY <1>1 DEF Fetch, MetaCall

\* What is left when j has been answered.
LEMMA Left ==
  ASSUME Jobs, NEW j \in jobs, j.script = << >>
  PROVE  /\ j.link = None
         /\ Carries(jobs \ {j}, jobs \ {j})
         /\ \A what : Carries(Outdated(jobs \ {j}, what), jobs \ {j})
         /\ \A w, what : Carries(Outdated(Outdated(jobs \ {j}, w), what), jobs \ {j})
  <1>1. j.link = None /\ \A i \in jobs \ {j} : JobOK(i)
    BY DEF Jobs, JobOK
  <1>2. Carries(jobs \ {j}, jobs \ {j})
    BY <1>1, CarriesItself
  <1>3. \A what : Carries(Outdated(jobs \ {j}, what), jobs \ {j})
    BY <1>1, <1>2, CarriesOutdated
  <1>4. \A w, what : Carries(Outdated(Outdated(jobs \ {j}, w), what), jobs \ {j})
    BY <1>1, <1>3, CarriesOutdated
  <1> QED
    BY <1>1, <1>2, <1>3, <1>4

LEMMA LinksAnswered ==
  ASSUME Jobs, Places, Links, NEW j \in jobs,
         WriteDone(j) \/ TTLDone(j) \/ MetaDone(j) \/ FetchDone(j) \/ ScanDone(j)
  PROVE  Links'
  <1>1. j.script = << >> /\ j.what # "select" /\ UNCHANGED <<idle, db, past>>
    BY DEF WriteDone, TTLDone, MetaDone, FetchDone, ScanDone, Finished, Untouched
  <1>2. PICK rest, news : jobs' = rest \cup news /\ news \subseteq {Fetch, MetaCall}
                          /\ Carries(rest, jobs \ {j})
    <2>1. \/ jobs' = jobs \ {j}
          \/ \E what : \/ jobs' = Outdated(jobs \ {j}, what) \cup {}
                       \/ jobs' = Outdated(jobs \ {j}, what) \cup {Fetch}
                       \/ jobs' = Outdated(jobs \ {j}, what) \cup {MetaCall}
                       \/ jobs' = (Outdated(jobs \ {j}, what) \cup {MetaCall}) \cup {Fetch}
      BY DEF WriteDone, TTLDone, MetaDone, FetchDone, ScanDone, Reloaded
    <2>2. CASE jobs' = jobs \ {j}
      <3>1. PICK rest, news : rest = jobs \ {j} /\ news = {}
        OBVIOUS
      <3>2. jobs' = rest \cup news /\ news \subseteq {Fetch, MetaCall}
        BY <2>2, <3>1
      <3>3. Carries(rest, jobs \ {j})
        BY <1>1, <3>1, Left
      <3> QED
        BY <3>2, <3>3
    <2>3. ASSUME NEW what, \/ jobs' = Outdated(jobs \ {j}, what) \cup {}
                       \/ jobs' = Outdated(jobs \ {j}, what) \cup {Fetch}
                       \/ jobs' = Outdated(jobs \ {j}, what) \cup {MetaCall}
                       \/ jobs' = (Outdated(jobs \ {j}, what) \cup {MetaCall}) \cup {Fetch}
          PROVE  \E news : jobs' = Outdated(jobs \ {j}, what) \cup news /\ news \subseteq {Fetch, MetaCall}
      <3>1. (Outdated(jobs \ {j}, what) \cup {MetaCall}) \cup {Fetch} = Outdated(jobs \ {j}, what) \cup {MetaCall, Fetch}
        OBVIOUS
      <3>2. \E news \in {{}, {Fetch}, {MetaCall}, {MetaCall, Fetch}} : jobs' = Outdated(jobs \ {j}, what) \cup news
        BY <2>3, <3>1
      <3> QED
        BY <3>2
    <2> QED
      BY <1>1, <2>1, <2>2, <2>3, Left
  <1>3. GoOn(jobs \ {j})
    BY <1>2, CarriesOn, NewJobs
  <1> QED
    BY <1>1, <1>3, Left, LinksGoOn

LEMMA LinksSelect ==
  ASSUME Jobs, Places, Links, NEW j \in jobs, SelectDone(j)
  PROVE  Links'
  <1>1. j.what = "select" /\ j.script = << >> /\ j.link = None
    BY Left DEF SelectDone, Finished
  <1>2. CASE j.failed
    <2>1. jobs' = jobs \ {j} /\ UNCHANGED <<idle, db, past>>
      BY <1>2 DEF SelectDone
    <2>2. "failed" \in past
      BY <1>2 DEF Links
    <2>3. "selected" \notin past' => db' = Home /\ AllOn(Home)'
      BY <2>1 DEF Links, AllOn
    <2>4. "second link" \notin past' => OneLink'
      BY <2>1 DEF Links, OneLink
    <2> QED
      BY <2>1, <2>2, <2>3, <2>4 DEF Links
  <1>3. CASE ~j.failed
    <2>1. /\ db' = j.want
          /\ idle' = IF idle = << >> THEN <<Home>> ELSE idle
          /\ jobs' = Outdated(Outdated(jobs \ {j}, "fetch"), "scan") \cup {Job("scan", j.want, <<Cmd("scan")>>)}
          /\ past' = past \cup (IF idle = << >> THEN {"second link"} ELSE {})
                          \cup (IF WriteUnderWay \/ dialog # None THEN {"reset"} ELSE {})
                          \cup (IF \E i \in jobs \ {j} : i.what = "select" THEN {"crossed"} ELSE {})
      BY <1>3 DEF SelectDone, ScanStarted
    <2>2. Selected(j) /\ "selected" \in past /\ past \subseteq past'
      BY <1>1, <1>3, <2>1 DEF Selected, Links
    <2>3. GoOn(jobs \ {j})
      <3>1. PICK news : news = {Job("scan", j.want, <<Cmd("scan")>>)}
        OBVIOUS
      <3>2. \A n \in news : New(n)
        BY <3>1, NewJobs
      <3> QED
        BY <1>1, <2>1, <3>1, <3>2, Left, CarriesOn
    <2>4. "failed" \notin past' => \A n \in jobs' : ~n.failed
      BY <2>2, <2>3 DEF GoOn, Same, New, Links
    <2>5. "second link" \notin past' => OneLink'
      <3> SUFFICES ASSUME "second link" \notin past' PROVE OneLink'
        OBVIOUS
      <3>1. OneLink /\ idle' = idle
        BY <2>1, <2>2 DEF Links
      <3> QED
        BY <2>3, <3>1, GoOnKeeps
    <2>6. ASSUME past' \cap {"failed", "second link", "crossed"} = {}
          PROVE  /\ \A n \in jobs' : ~Selected(n)
                 /\ AllOn(db)'
      <3>1. \A i \in jobs \ {j} : i.what # "select"
        BY <2>1, <2>6
      <3>2. \A n \in jobs' : ~Selected(n)
        BY <2>3, <3>1 DEF GoOn, Same, New, Selected
      <3>3. Agree
        BY <3>1 DEF Agree
      <3>4. AllOn(j.want)
        BY <2>2, <2>6, <3>3 DEF Links
      <3>5. idle' = idle
        BY <2>1, <2>6
      <3>6. PICK d : d = j.want
        OBVIOUS
      <3>7. AllOn(d)'
        BY <2>3, <3>4, <3>5, <3>6, GoOnKeeps
      <3> QED
        BY <2>1, <3>2, <3>6, <3>7 DEF AllOn
    <2>7. \A n \in jobs' : Selected(n) => "selected" \in past'
      BY <2>2
    <2> QED
      BY <2>2, <2>4, <2>5, <2>6, <2>7 DEF Links
  <1> QED
    BY <1>2, <1>3

LEMMA LinksUser ==
  ASSUME Jobs, Places, Links, User
  PROVE  Links'
  <1>1. UNCHANGED <<idle, db>> /\ past \subseteq past'
    BY DEF User, CancelEditor, Rescan, OpenEditor, DelItem, SetTTL, SwitchDB, NewItem, Submit,
           ScanStarted, Pressed
  <1>2. Carries(jobs, jobs)
    BY CarriesItself DEF Jobs
  <1>3. GoOn(jobs)
    <2>1. CASE Rescan
      <3>1. PICK news : news = {Job("scan", db, <<Cmd("scan")>>)}
        OBVIOUS
      <3>2. \A n \in news : New(n)
        BY <3>1, NewJobs
      <3>3. jobs' = Outdated(Outdated(jobs, "fetch"), "scan") \cup news
        BY <2>1, <3>1 DEF Rescan, ScanStarted
      <3>4. Carries(Outdated(Outdated(jobs, "fetch"), "scan"), jobs)
        BY <1>2, CarriesOutdated DEF Jobs
      <3> QED
        BY <3>2, <3>3, <3>4, CarriesOn
    <2>2. CASE CancelEditor \/ \E f : OpenEditor(f)
      <3>1. PICK news : news = {}
        OBVIOUS
      <3>2. jobs' = jobs \cup news /\ \A n \in news : New(n)
        BY <2>2, <3>1 DEF CancelEditor, OpenEditor
      <3> QED
        BY <1>2, <3>2, CarriesOn
    <2>3. ASSUME NEW what, NEW d, NEW script, Start(Job(what, d, script)),
                 what # "select" \/ script # << >>
          PROVE  GoOn(jobs)
      <3>1. PICK news : news = {Job(what, d, script)}
        OBVIOUS
      <3>2. jobs' = jobs \cup news /\ \A n \in news : New(n)
        BY <2>3, <3>1, NewJobs DEF Start
      <3> QED
        BY <1>2, <3>2, CarriesOn
    <2>4. CASE \E f : DelItem(f)
      BY <2>3, <2>4 DEF DelItem
    <2>5. CASE \E t : SetTTL(t)
      BY <2>3, <2>5 DEF SetTTL
    <2>6. CASE \E d : SwitchDB(d)
      <3>1. PICK d : Start(Job("select", d, <<[op |-> "select", db |-> d]>>))
        BY <2>6 DEF SwitchDB
      <3>2. PICK q : q = <<[op |-> "select", db |-> d]>>
        OBVIOUS
      <3>3. q # << >>
        BY <3>2
      <3> QED
        BY <2>3, <3>1, <3>2, <3>3
    <2>7. CASE \E f, text : NewItem(f, text)
      BY <2>3, <2>7 DEF NewItem
    <2>8. CASE \E f, text : Submit(f, text)
      <3>1. PICK what, d, script : what \in {"save", "edit"} /\ Start(Job(what, d, script))
        BY <2>8 DEF Submit
      <3> QED
        BY <2>3, <3>1
    <2> QED
      BY <2>1, <2>2, <2>4, <2>5, <2>6, <2>7, <2>8 DEF User
  <1> QED
    BY <1>1, <1>3, LinksGoOn

LEMMA LinksNext ==
  ASSUME Jobs, Places, Links, [Next]_vars
  PROVE  Links'
  <1>1. past \subseteq past'
    BY PastGrows
  <1>2. CASE IdleLinkLost
    <2>1. "second link" \in past' /\ UNCHANGED <<jobs, db>> /\ ("failed" \notin past' => "failed" \notin past)
          /\ ("selected" \notin past' => "selected" \notin past)
      BY <1>2 DEF IdleLinkLost
    <2>2. PICK i \in DOMAIN idle : idle' = RemoveAt(idle, i)
      BY <1>2 DEF IdleLinkLost
    <2>3. ASSUME AllOn(Home) PROVE AllOn(Home)'
      <3>1. idle \in Seq({Home})
        BY <2>3 DEF AllOn
      <3>2. idle' \in Seq({Home})
        BY <2>2, <3>1 DEF RemoveAt
      <3> QED
        BY <2>1, <2>3, <3>2 DEF AllOn
    <2> QED
      BY <1>1, <2>1, <2>3 DEF Links
  <1>3. CASE OtherClient \/ UNCHANGED vars
    <2>1. UNCHANGED <<jobs, db, idle>> /\ past \subseteq past'
      BY <1>1, <1>3 DEF OtherClient, vars
    <2>2. SelectsStay
      BY <2>1 DEF SelectsStay
    <2>3. "failed" \notin past' => \A n \in jobs' : ~n.failed
      BY <2>1 DEF Links
    <2>4. /\ \A d : AllOn(d) => AllOn(d)'
          /\ "second link" \notin past' => OneLink'
      BY <2>1 DEF Links, AllOn, OneLink
    <2> QED
      BY <2>1, <2>2, <2>3, <2>4, LinksStay
  <1> QED
    BY <1>2, <1>3, LinksUser, LinksTake, LinksReply, LinksLost, LinksFails, LinksLookup, LinksAnswered,
       LinksSelect DEF Next, Client

\* With no database being selected every link is on the one on screen.
LEMMA OnScreen ==
  ASSUME Links, Undisturbed, \A j \in jobs : j.what # "select"
  PROVE  AllOn(db)
  BY DEF Links, Undisturbed, Agree, Selected

----------------------------------------------------------------------------
(* What is cached.                                                         *)

\* A page, and the metadata of a key, are not None.
NoneIsApart == \A k, x : None # [kind |-> k, rows |-> x] /\ None # [kind |-> k, ttl |-> x]

LiveMeta(j) == j.what = "meta" /\ j.live
LiveFetch(j) == j.what = "fetch" /\ j.live

MetaOnce(js) == \A i, j \in js : LiveMeta(i) /\ LiveMeta(j) => i = j

\* The value that is edited is on a page.
PageOpen ==
  "reset" \notin past =>
    (dialog # None \/ (\E j \in jobs : j.what \in {"save", "edit"}) => page # None)

\* A write will read everything again; or the metadata are on their way, and
\* the page after them; or they are here, and so is the page or its rows are on
\* their way.
Cached ==
  \/ WriteUnderWay
  \/ \E j \in jobs : LiveMeta(j) /\ (Finished(j) => j.got = data[db])
  \/ /\ \A j \in jobs : ~LiveMeta(j)
     /\ data[db].val # Gone =>
          /\ meta # None /\ meta.ttl = data[db].ttl
          /\ page # None
          /\ \A j \in jobs : LiveFetch(j) /\ Finished(j) => j.got = data[db]
          /\ (\A j \in jobs : ~LiveFetch(j)) => page.rows = data[db].val

CacheInv == Undisturbed /\ (\A j \in jobs : j.what # "select") /\ listed => Cached

LEMMA OutdatedOnce ==
  ASSUME NEW js, \A j \in js : JobOK(j), MetaOnce(js), NEW what
  PROVE  /\ MetaOnce(Outdated(js, what))
         /\ \A n \in Outdated(js, what) : \E i \in js : n.what = i.what
         /\ \A i \in js : \E n \in Outdated(js, what) : n.what = i.what
         /\ \A n \in Outdated(js, what) : n.live => n.what # what
  <1>1. ASSUME NEW m \in Outdated(js, what), NEW n \in Outdated(js, what), LiveMeta(m), LiveMeta(n)
        PROVE  m = n
    <2>1. PICK i \in js : m = [i EXCEPT !.live = (i.what # what) /\ @]
      BY DEF Outdated
    <2>2. PICK k \in js : n = [k EXCEPT !.live = (k.what # what) /\ @]
      BY DEF Outdated
    <2>3. LiveMeta(i) /\ LiveMeta(k)
      BY <1>1, <2>1, <2>2 DEF LiveMeta, JobOK, IsJob
    <2> QED
      BY <2>1, <2>2, <2>3 DEF MetaOnce
  <1>2. /\ \A n \in Outdated(js, what) : \E i \in js : Same(n, i) /\ n.live = ((i.what # what) /\ i.live)
        /\ \A i \in js : \E n \in Outdated(js, what) : Same(n, i)
    BY OutdatedFrom
  <1>3. ASSUME NEW n \in Outdated(js, what), n.live PROVE n.what # what
    <2>1. PICK i \in js : Same(n, i) /\ n.live = ((i.what # what) /\ i.live)
      BY <1>2
    <2>2. (i.what # what) /\ i.live
      BY <1>3, <2>1, Zenon
    <2> QED
      BY <2>1, <2>2 DEF Same
  <1>4. MetaOnce(Outdated(js, what))
    BY <1>1 DEF MetaOnce
  <1> QED
    BY <1>2, <1>3, <1>4 DEF Same

LEMMA OutdatedTwiceOnce ==
  ASSUME NEW js, \A j \in js : JobOK(j), MetaOnce(js), NEW v, NEW w
  PROVE  /\ MetaOnce(Outdated(Outdated(js, v), w))
         /\ \A n \in Outdated(Outdated(js, v), w) : \E i \in js : n.what = i.what
  BY OutdatedOnce, OutdatedIsOK

LEMMA NewJobFields ==
  /\ \A what, d, script : LET n == Job(what, d, script)
                          IN  n.what = what /\ n.script = script /\ n.live = TRUE
  /\ LiveMeta(MetaCall) /\ ~Finished(MetaCall)
  /\ LiveFetch(Fetch) /\ ~Finished(Fetch)
  /\ Fetch.what = "fetch" /\ MetaCall.what = "meta"
  <1>1. \A what, d, script : LET n == Job(what, d, script)
                             IN  n.what = what /\ n.script = script /\ n.live = TRUE
    BY DEF Job
  <1>2. \A c : <<c>> # << >>
    OBVIOUS
  <1> QED
    BY <1>1, <1>2 DEF Fetch, MetaCall, LiveMeta, LiveFetch, Finished

\* A running job becomes another: the same as far as metadata are concerned.
LEMMA RunningGoes ==
  ASSUME Jobs, NEW j \in jobs,
         Take(j) \/ Reply(j) \/ LinkLost(j) \/ CommandFails(j) \/ Lookup(j)
  PROVE  /\ \E n : Becomes(j, n)
         /\ UNCHANGED <<db, page, listed, meta, dialog>>
  <1>1. UNCHANGED <<db, page, listed, meta, dialog>>
    BY DEF Take, Reply, LinkLost, CommandFails, Lookup
  <1> QED
    BY <1>1, TakeGoes, ReplyGoes, LostGoes, FailsGoes, LookupGoes

\* The jobs of a scan, and of a reload.
LEMMA OnceStarted ==
  ASSUME NEW js, \A j \in js : JobOK(j), MetaOnce(js), NEW d
  PROVE  /\ MetaOnce(Outdated(Outdated(js, "fetch"), "scan") \cup {Job("scan", d, <<Cmd("scan")>>)})
         /\ MetaOnce(Reloaded(js))
         /\ MetaOnce(Reloaded(js) \cup {Fetch})
         /\ MetaOnce(Outdated(js, "fetch") \cup {Fetch})
         /\ MetaOnce(Outdated(js, "fetch"))
  <1>0. ASSUME NEW rest, MetaOnce(rest), NEW n, ~LiveMeta(n) PROVE MetaOnce(rest \cup {n})
    BY <1>0 DEF MetaOnce
  <1>1. ~LiveMeta(Job("scan", d, <<Cmd("scan")>>)) /\ ~LiveMeta(Fetch)
    BY NewJobFields DEF LiveMeta
  <1>2. \A n \in Outdated(js, "meta") : ~LiveMeta(n)
    BY OutdatedOnce DEF LiveMeta
  <1>3. MetaOnce(Reloaded(js))
    BY <1>2 DEF MetaOnce, Reloaded
  <1>4. MetaOnce(Outdated(js, "fetch")) /\ MetaOnce(Outdated(Outdated(js, "fetch"), "scan"))
    BY OutdatedOnce, OutdatedTwiceOnce
  <1> QED
    BY <1>0, <1>1, <1>3, <1>4

LEMMA MetaOnceNext ==
  ASSUME Jobs, MetaOnce(jobs), [Next]_vars
  PROVE  MetaOnce(jobs')
  <1>1. ASSUME NEW j \in jobs, NEW n, Becomes(j, n) PROVE MetaOnce(jobs')
    BY <1>1 DEF MetaOnce, Becomes, LiveMeta
  <1>2. ASSUME NEW js \in SUBSET jobs
        PROVE  (\A j \in js : JobOK(j)) /\ MetaOnce(js)
    BY DEF Jobs, MetaOnce
  <1>3. ASSUME NEW j \in jobs,
               WriteDone(j) \/ TTLDone(j) \/ MetaDone(j) \/ FetchDone(j) \/ SelectDone(j) \/ ScanDone(j)
        PROVE  MetaOnce(jobs')
    <2>0. (\A i \in jobs \ {j} : JobOK(i)) /\ MetaOnce(jobs \ {j})
      BY <1>2
    <2>1. CASE WriteDone(j) \/ TTLDone(j) \/ ScanDone(j) \/ FetchDone(j)
      <3>1. \/ jobs' = jobs \ {j} \/ jobs' = Reloaded(jobs \ {j})
            \/ jobs' = Reloaded(jobs \ {j}) \cup {Fetch}
        BY <2>1 DEF WriteDone, TTLDone, ScanDone, FetchDone
      <3> QED
        BY <2>0, <3>1, OnceStarted
    <2>2. CASE MetaDone(j)
      <3>1. \/ jobs' = jobs \ {j} \/ jobs' = Outdated(jobs \ {j}, "fetch") \cup {Fetch}
            \/ jobs' = Outdated(jobs \ {j}, "fetch")
        BY <2>2 DEF MetaDone
      <3> QED
        BY <2>0, <3>1, OnceStarted
    <2>3. CASE SelectDone(j)
      <3>1. \/ jobs' = jobs \ {j}
            \/ jobs' = Outdated(Outdated(jobs \ {j}, "fetch"), "scan")
                         \cup {Job("scan", j.want, <<Cmd("scan")>>)}
        BY <2>3 DEF SelectDone, ScanStarted
      <3>2. MetaOnce(Outdated(Outdated(jobs \ {j}, "fetch"), "scan")
                       \cup {Job("scan", j.want, <<Cmd("scan")>>)})
        BY <2>0, OnceStarted
      <3> QED
        BY <2>0, <3>1, <3>2
    <2> QED
      BY <1>3, <2>1, <2>2, <2>3
  <1>4. CASE User
    <2>1. CASE Rescan
      BY <1>2, <2>1, OnceStarted DEF Rescan, ScanStarted
    <2>2. CASE CancelEditor \/ \E f : OpenEditor(f)
      BY <2>2 DEF CancelEditor, OpenEditor
    <2>3. ASSUME NEW what, NEW d, NEW script, Start(Job(what, d, script)), what # "meta"
          PROVE  MetaOnce(jobs')
      <3>1. PICK n : n = Job(what, d, script)
        OBVIOUS
      <3>2. jobs' = jobs \cup {n} /\ ~LiveMeta(n)
        BY <2>3, <3>1, NewJobFields DEF Start, LiveMeta
      <3> QED
        BY <3>2 DEF MetaOnce
    <2>4. CASE \E f : DelItem(f)
      BY <2>3, <2>4 DEF DelItem
    <2>5. CASE \E t : SetTTL(t)
      BY <2>3, <2>5 DEF SetTTL
    <2>6. CASE \E d : SwitchDB(d)
      BY <2>3, <2>6 DEF SwitchDB
    <2>7. CASE \E f, text : NewItem(f, text)
      BY <2>3, <2>7 DEF NewItem
    <2>8. CASE \E f, text : Submit(f, text)
      <3>1. PICK what, d, script : what \in {"save", "edit"} /\ Start(Job(what, d, script))
        BY <2>8 DEF Submit
      <3> QED
        BY <2>3, <3>1
    <2> QED
      BY <1>4, <2>1, <2>2, <2>4, <2>5, <2>6, <2>7, <2>8 DEF User
  <1>5. CASE IdleLinkLost \/ OtherClient \/ UNCHANGED vars
    BY <1>5 DEF IdleLinkLost, OtherClient, vars
  <1> QED
    BY <1>1, <1>3, <1>4, <1>5, RunningGoes DEF Next, Client

LEMMA PageOpenNext ==
  ASSUME NoneIsApart, Jobs, Paged, PageOpen, [Next]_vars
  PROVE  PageOpen'
  <1> SUFFICES ASSUME "reset" \notin past', dialog' # None \/ \E j \in jobs' : j.what \in {"save", "edit"}
               PROVE  page' # None
    BY DEF PageOpen
  <1>1. "reset" \notin past /\ \A j \in jobs : JobOK(j)
    BY PastGrows DEF Jobs
  <1>a. ASSUME dialog' = dialog \/ dialog' = None,
               \A n \in jobs' : n.what \in {"save", "edit"} => \E i \in jobs : i.what = n.what
        PROVE  page # None
    BY <1>1, <1>a DEF PageOpen
  <1>2. ASSUME NEW j \in jobs, NEW n, Becomes(j, n), UNCHANGED <<dialog, page>> PROVE page' # None
    BY <1>1, <1>2 DEF PageOpen, Becomes
  <1>b. ASSUME NEW js, js \subseteq jobs
        PROVE  /\ \A w : \A n \in Outdated(js, w) : \E i \in jobs : i.what = n.what
               /\ \A v, w : \A n \in Outdated(Outdated(js, v), w) : \E i \in jobs : i.what = n.what
    <2>1. \A j \in js : JobOK(j)
      BY <1>1, <1>b
    <2>2. \A w : \A n \in Outdated(js, w) : \E i \in jobs : i.what = n.what
      BY <1>b, <2>1, OutdatedSame
    <2>3. ASSUME NEW v, NEW w, NEW n \in Outdated(Outdated(js, v), w) PROVE \E i \in jobs : i.what = n.what
      <3>1. PICK m \in Outdated(js, v) : n.what = m.what
        BY <2>1, OutdatedIsOK, OutdatedSame
      <3> QED
        BY <2>2, <3>1
    <2> QED
      BY <2>2, <2>3
  <1>3. ASSUME NEW j \in jobs, WriteDone(j) \/ TTLDone(j) \/ ScanDone(j)
        PROVE  page' # None
    <2>1. jobs' \subseteq Reloaded(jobs \ {j}) \cup {Fetch} \cup (jobs \ {j})
          /\ UNCHANGED <<dialog, page>>
      BY <1>3 DEF WriteDone, TTLDone, ScanDone, Untouched
    <2>2. \A n \in Outdated(jobs \ {j}, "meta") : \E i \in jobs : i.what = n.what
      BY <1>b
    <2>3. \A n \in jobs' : n.what \in {"save", "edit"} => \E i \in jobs : i.what = n.what
      BY <2>1, <2>2, NewJobFields DEF Reloaded
    <2> QED
      BY <1>a, <2>1, <2>3
  <1>4. ASSUME NEW j \in jobs, MetaDone(j) PROVE page' # None
    <2>1. \/ jobs' = jobs \ {j} /\ page' = page
          \/ \E k : page' = [kind |-> k, rows |-> Gone]
      BY <1>4 DEF MetaDone
    <2>2. CASE jobs' = jobs \ {j} /\ page' = page
      BY <1>a, <1>4, <2>2 DEF MetaDone, Untouched
    <2> QED
      BY <2>1, <2>2 DEF NoneIsApart
  <1>5. ASSUME NEW j \in jobs, FetchDone(j) PROVE page' # None
    <2>1. page # None
      BY <1>a, <1>5 DEF FetchDone, Untouched
    <2>2. page' = page \/ page' = [page EXCEPT !.rows = j.got.val]
      BY <1>5 DEF FetchDone
    <2>3. CASE page' = [page EXCEPT !.rows = j.got.val]
      <3>1. IsPage(page)
        BY <2>1 DEF Paged
      <3>2. page' = [kind |-> page.kind, rows |-> j.got.val]
        BY <2>3, <3>1 DEF IsPage
      <3> QED
        BY <3>2 DEF NoneIsApart
    <2> QED
      BY <2>1, <2>2, <2>3
  <1>c. ASSUME NEW js, js \subseteq jobs, NEW d, ScanStarted(js, d), ~WriteUnderWay, dialog' = None
        PROVE  FALSE
    <2>1. \A n \in jobs' : n.what = "scan" \/ \E i \in jobs : i.what = n.what
      BY <1>b, <1>c, NewJobFields DEF ScanStarted
    <2>2. \A i \in jobs : i.what \notin {"save", "edit"}
      BY <1>c DEF WriteUnderWay, Writes
    <2> QED
      BY <1>c, <2>1, <2>2
  <1>6. ASSUME NEW j \in jobs, SelectDone(j) PROVE page' # None
    <2>1. CASE j.failed
      BY <1>6, <1>a, <2>1 DEF SelectDone, Untouched
    <2>2. CASE ~j.failed
      <3>1. ~WriteUnderWay /\ dialog' = None /\ ScanStarted(jobs \ {j}, j.want)
        BY <1>6, <2>2 DEF SelectDone, Untouched
      <3> QED
        BY <1>c, <3>1
    <2> QED
      BY <2>1, <2>2
  <1>7. CASE User
    <2>1. CASE Rescan
      <3>1. ~WriteUnderWay /\ dialog' = None /\ ScanStarted(jobs, db)
        BY <2>1 DEF Rescan
      <3> QED
        BY <1>c, <3>1
    <2>2. CASE \/ \E f : OpenEditor(f) \/ DelItem(f)
               \/ \E f, text : NewItem(f, text)
      BY <2>2 DEF OpenEditor, DelItem, NewItem
    <2>3. CASE \E f, text : Submit(f, text)
      BY <1>1, <2>3 DEF Submit, PageOpen
    <2>4. CASE CancelEditor
      BY <1>a, <2>4 DEF CancelEditor
    <2>5. ASSUME NEW what, NEW d, NEW script, Start(Job(what, d, script)), what \notin {"save", "edit"},
                 UNCHANGED <<dialog, page>>
          PROVE  page' # None
      <3>1. PICK n : n = Job(what, d, script)
        OBVIOUS
      <3>2. jobs' = jobs \cup {n} /\ n.what \notin {"save", "edit"}
        BY <2>5, <3>1, NewJobFields DEF Start
      <3>3. \A m \in jobs' : m.what \in {"save", "edit"} => \E i \in jobs : i.what = m.what
        BY <3>2
      <3> QED
        BY <1>a, <2>5, <3>3
    <2>6. CASE \E t : SetTTL(t)
      BY <2>5, <2>6 DEF SetTTL
    <2>7. CASE \E d : SwitchDB(d)
      BY <2>5, <2>7 DEF SwitchDB
    <2> QED
      BY <1>7, <2>1, <2>2, <2>3, <2>4, <2>6, <2>7 DEF User
  <1>8. CASE IdleLinkLost \/ OtherClient \/ UNCHANGED vars
    BY <1>a, <1>8 DEF IdleLinkLost, OtherClient, vars
  <1> QED
    BY <1>2, <1>3, <1>4, <1>5, <1>6, <1>7, <1>8, RunningGoes DEF Next, Client

\* What is read, or selected, changes no data.
LEMMA OpsOfReads ==
  ASSUME NEW j, JobOK(j), j.script # << >>, j.what \notin Writes
  PROVE  /\ <<j.what, Head(j.script).op>> \in
              {<<"fetch", "get">>, <<"meta", "meta">>, <<"scan", "scan">>, <<"select", "select">>}
         /\ Tail(j.script) = << >>
  <1>1. CASE j.script = <<j.script[1]>>
    <2>1. PICK a : a = j.script[1]
      OBVIOUS
    <2>2. j.script = <<a>>
      BY <1>1, <2>1
    <2>3. Head(j.script) = a /\ Tail(j.script) = << >>
      BY <2>2, HeadsAndTails
    <2>4. <<j.what, a.op>> \in
            {<<"fetch", "get">>, <<"meta", "meta">>, <<"scan", "scan">>, <<"select", "select">>,
             <<"ttl", "expire">>, <<"save", "set">>, <<"save", "expire">>, <<"edit", "hset">>,
             <<"edit", "hdel">>}
            \/ \E c : j.script = <<a, c>>
      BY <2>1 DEF JobOK, Shape
    <2>5. \A c : j.script # <<a, c>>
      BY <2>2
    <2> QED
      BY <2>3, <2>4, <2>5 DEF Writes
  <1>2. CASE <<j.what, j.script[1].op, j.script[2].op>> \in
               {<<"save", "lookup", "set">>, <<"save", "set", "expire">>, <<"edit", "hdel", "hset">>}
    BY <1>2 DEF Writes
  <1> QED
    BY <1>1, <1>2 DEF JobOK, Shape

Record(key) == key = [val |-> key.val, ttl |-> key.ttl]
Shaped == data = [d \in DBs |-> data[d]] /\ \A d \in DBs : Record(data[d])

LEMMA ShapedNext ==
  ASSUME Jobs, Shaped, [Next]_vars
  PROVE  Shaped'
  <1>1. ASSUME NEW cmd, NEW key, Record(key) PROVE Record(Effect(cmd, key))
    <2>1. CASE cmd.op \in {"set", "hset"}
      BY <2>1 DEF Effect, Record
    <2>2. CASE cmd.op = "hdel" /\ DOMAIN key.val = {cmd.field}
      BY <2>2 DEF Effect, Record
    <2>3. CASE cmd.op = "hdel" /\ DOMAIN key.val # {cmd.field}
      <3>1. PICK v : v = Restrict(key.val, DOMAIN key.val \ {cmd.field})
        OBVIOUS
      <3>2. Effect(cmd, key) = [key EXCEPT !.val = v]
        BY <2>3, <3>1 DEF Effect
      <3>3. [key EXCEPT !.val = v] = [val |-> v, ttl |-> key.ttl]
        BY <1>1 DEF Record
      <3> QED
        BY <3>2, <3>3 DEF Record
    <2>4. CASE cmd.op = "expire" /\ key.val # Gone
      <3>1. Effect(cmd, key) = [key EXCEPT !.ttl = cmd.ttl]
        BY <2>4 DEF Effect
      <3>2. [key EXCEPT !.ttl = cmd.ttl] = [val |-> key.val, ttl |-> cmd.ttl]
        BY <1>1 DEF Record
      <3> QED
        BY <3>1, <3>2 DEF Record
    <2>5. CASE cmd.op \notin {"set", "hset", "hdel"} /\ ~(cmd.op = "expire" /\ key.val # Gone)
      BY <1>1, <2>5 DEF Effect
    <2> QED
      BY <2>1, <2>2, <2>3, <2>4, <2>5
  <1>2. ASSUME NEW d, NEW new, Record(new), data' = [data EXCEPT ![d] = new] PROVE Shaped'
    BY <1>2 DEF Shaped
  <1>3. ASSUME NEW j \in jobs, Reply(j) \/ LinkLost(j) PROVE Shaped'
    <2>1. PICK cmd, d : cmd = Head(j.script) /\ d = j.link
      OBVIOUS
    <2>2. d \in DBs
      BY <1>3, <2>1 DEF Jobs, JobOK, Reply, LinkLost
    <2>3. data' = data \/ data' = [data EXCEPT ![d] = Effect(cmd, data[d])]
      BY <1>3, <2>1 DEF Reply, LinkLost
    <2>4. Record(Effect(cmd, data[d]))
      BY <1>1, <2>2 DEF Shaped
    <2> QED
      BY <1>2, <2>3, <2>4 DEF Shaped
  <1>4. CASE OtherClient
    <2>1. PICK d \in DBs, t \in TTLs : data' = [data EXCEPT ![d].ttl = t]
      BY <1>4 DEF OtherClient
    <2>2. PICK new : new = [val |-> data[d].val, ttl |-> t]
      OBVIOUS
    <2>3. [data[d] EXCEPT !.ttl = t] = new
      BY <2>2 DEF Shaped, Record
    <2>4. data' = [data EXCEPT ![d] = new] /\ Record(new)
      BY <2>1, <2>2, <2>3 DEF Record
    <2> QED
      BY <1>2, <2>4
  <1>5. ASSUME NEW j \in jobs, Client(j), ~Reply(j), ~LinkLost(j) PROVE data' = data
    BY <1>5 DEF Client, Take, CommandFails, Lookup, WriteDone, TTLDone, MetaDone, FetchDone, SelectDone,
                ScanDone, Untouched
  <1>6. CASE User \/ IdleLinkLost \/ UNCHANGED vars
    BY <1>6 DEF User, CancelEditor, Rescan, OpenEditor, DelItem, SetTTL, SwitchDB, NewItem, Submit,
                IdleLinkLost, vars, Shaped
  <1> QED
    BY <1>3, <1>4, <1>5, <1>6 DEF Next, Shaped

LEMMA ReadsKeepData ==
  ASSUME Jobs, Shaped, NEW j \in jobs, j.what \notin Writes,
         Reply(j) \/ LinkLost(j)
  PROVE  data' = data
  <1>1. JobOK(j) /\ j.script # << >>
    BY ReplyGoes, LostGoes DEF Jobs
  <1>2. PICK cmd, d : cmd = Head(j.script) /\ d = j.link
    OBVIOUS
  <1>3. cmd.op \in {"get", "meta", "scan", "select"}
    BY <1>1, <1>2, OpsOfReads
  <1>4. \A key : Effect(cmd, key) = key
    BY <1>3 DEF Effect
  <1>5. data' = data \/ data' = [data EXCEPT ![d] = Effect(cmd, @)]
    BY <1>2 DEF Reply, LinkLost
  <1>6. data' = data \/ data' = [data EXCEPT ![d] = data[d]]
    BY <1>4, <1>5
  <1> QED
    BY <1>6 DEF Shaped

\* A running job that writes nothing: a read it has finished has seen what
\* the server holds.
LEMMA CachedGoes ==
  ASSUME NEW j \in jobs, Cached, NEW n, Becomes(j, n), j.script # << >>,
         UNCHANGED <<data, db, page, meta>>,
         n.script = << >> => n.got = data[db]
  PROVE  Cached'
  <1>1. LiveMeta(n) = LiveMeta(j) /\ LiveFetch(n) = LiveFetch(j)
    BY DEF Becomes, LiveMeta, LiveFetch
  <1>2. CASE WriteUnderWay
    BY <1>2 DEF Cached, WriteUnderWay, Becomes
  <1>3. CASE \E i \in jobs : LiveMeta(i) /\ (Finished(i) => i.got = data[db])
    <2>1. PICK i \in jobs : LiveMeta(i) /\ (Finished(i) => i.got = data[db])
      BY <1>3
    <2>2. PICK m : m = IF i = j THEN n ELSE i
      OBVIOUS
    <2>3. m \in jobs' /\ LiveMeta(m) /\ (Finished(m) => m.got = data[db])
      BY <1>1, <2>1, <2>2 DEF Becomes, Finished
    <2> QED
      BY <2>3 DEF Cached
  <1>4. CASE /\ \A i \in jobs : ~LiveMeta(i)
             /\ data[db].val # Gone =>
                  /\ meta # None /\ meta.ttl = data[db].ttl
                  /\ page # None
                  /\ \A i \in jobs : LiveFetch(i) /\ Finished(i) => i.got = data[db]
                  /\ (\A i \in jobs : ~LiveFetch(i)) => page.rows = data[db].val
    <2>1. \A i \in jobs' : ~LiveMeta(i)
      BY <1>1, <1>4 DEF Becomes
    <2>2. ASSUME data[db].val # Gone
          PROVE  /\ \A i \in jobs' : LiveFetch(i) /\ Finished(i) => i.got = data[db]
                 /\ (\A i \in jobs' : ~LiveFetch(i)) => page.rows = data[db].val
      BY <1>1, <1>4, <2>2 DEF Becomes, Finished
    <2> QED
      BY <1>4, <2>1, <2>2 DEF Cached
  <1> QED
    BY <1>2, <1>3, <1>4 DEF Cached

\* The metadata are being read again.
LEMMA CachedReloads ==
  ASSUME MetaCall \in jobs'
  PROVE  Cached'
  BY NewJobFields DEF Cached

\* A job that is no longer of use leaves.
LEMMA CachedLeaves ==
  ASSUME NEW j \in jobs, Cached, jobs' = jobs \ {j}, j.what \notin Writes, ~LiveMeta(j), ~LiveFetch(j),
         UNCHANGED <<data, db, page, meta>>
  PROVE  Cached'
  <1>1. CASE WriteUnderWay
    BY <1>1 DEF Cached, WriteUnderWay
  <1>2. CASE ~WriteUnderWay
    BY <1>2 DEF Cached
  <1> QED
    BY <1>1, <1>2

LEMMA CachedMeta ==
  ASSUME NoneIsApart, Jobs, Places, MetaOnce(jobs), Cached, NEW j \in jobs, MetaDone(j), ~j.failed
  PROVE  Cached'
  <1>0. /\ Finished(j) /\ j.what = "meta" /\ UNCHANGED <<data, db>>
        /\ \A i \in jobs \ {j} : JobOK(i)
    BY DEF MetaDone, Untouched, Jobs
  <1>1. CASE ~j.live
    <2>1. jobs' = jobs \ {j} /\ UNCHANGED <<page, meta>>
      BY <1>1 DEF MetaDone
    <2> QED
      BY <1>0, <1>1, <2>1, CachedLeaves DEF LiveMeta, LiveFetch, Writes
  <1>2. CASE j.live
    <2>0. LiveMeta(j)
      BY <1>0, <1>2 DEF LiveMeta
    <2>1. PICK found : /\ found = IF j.got.val = Gone THEN [kind |-> "none", ttl |-> 0]
                                  ELSE [kind |-> kind, ttl |-> j.got.ttl]
                       /\ meta' = found /\ page' = [kind |-> found.kind, rows |-> Gone]
                       /\ jobs' = Outdated(jobs \ {j}, "fetch") \cup (IF found.kind = kind THEN {Fetch} ELSE {})
      BY <1>2 DEF MetaDone
    <2>2. CASE WriteUnderWay
      <3>1. PICK i \in jobs \ {j} : i.what \in Writes
        BY <1>0, <2>2 DEF WriteUnderWay, Writes
      <3>2. PICK n \in Outdated(jobs \ {j}, "fetch") : n.what = i.what
        BY <1>0, OutdatedFrom DEF Same
      <3> QED
        BY <2>1, <3>1, <3>2 DEF Cached, WriteUnderWay
    <2>3. CASE ~WriteUnderWay
      <3>1. j.got = data[db]
        BY <1>0, <2>0, <2>3 DEF Cached, MetaOnce
      <3>2. \A n \in Outdated(jobs \ {j}, "fetch") : ~LiveMeta(n) /\ ~LiveFetch(n)
        <4>1. ASSUME NEW n \in Outdated(jobs \ {j}, "fetch")
              PROVE  \E i \in jobs \ {j} : n.what = i.what /\ (n.live => i.live /\ i.what # "fetch")
          BY <1>0, OutdatedLive
        <4>2. \A i \in jobs \ {j} : ~LiveMeta(i)
          BY <2>0 DEF MetaOnce
        <4> QED
          BY <4>1, <4>2 DEF LiveMeta, LiveFetch
      <3>3. \A n \in jobs' : ~LiveMeta(n)
        BY <2>1, <3>2, NewJobFields DEF LiveMeta
      <3>4. ASSUME data[db].val # Gone
            PROVE  /\ meta' # None /\ meta'.ttl = data[db].ttl /\ page' # None
                   /\ \A n \in jobs' : LiveFetch(n) => n = Fetch
                   /\ Fetch \in jobs'
        <4>1. found = [kind |-> kind, ttl |-> data[db].ttl]
          BY <2>1, <3>1, <3>4
        <4>2. found.kind = kind /\ found.ttl = data[db].ttl /\ found # None
          BY <4>1 DEF NoneIsApart
        <4>3. jobs' = Outdated(jobs \ {j}, "fetch") \cup {Fetch}
          BY <2>1, <4>2
        <4>4. page' # None
          BY <2>1 DEF NoneIsApart
        <4> QED
          BY <2>1, <3>2, <4>2, <4>3, <4>4
      <3>5. ASSUME data[db].val # Gone
            PROVE  /\ \A n \in jobs' : ~(LiveFetch(n) /\ Finished(n))
                   /\ \E n \in jobs' : LiveFetch(n)
        BY <3>4, <3>5, NewJobFields
      <3> QED
        BY <1>0, <3>3, <3>4, <3>5 DEF Cached
    <2> QED
      BY <2>2, <2>3
  <1> QED
    BY <1>1, <1>2

LEMMA CachedFetch ==
  ASSUME NoneIsApart, Jobs, Places, Paged, Cached, NEW j \in jobs, FetchDone(j), ~j.failed
  PROVE  Cached'
  <1>0. /\ Finished(j) /\ j.what = "fetch" /\ jobs' = jobs \ {j} /\ UNCHANGED <<data, db, meta>>
    BY DEF FetchDone, Untouched
  <1>1. CASE ~j.live
    <2>1. page' = page
      BY <1>1 DEF FetchDone
    <2> QED
      BY <1>0, <1>1, <2>1, CachedLeaves DEF LiveMeta, LiveFetch, Writes
  <1>2. CASE j.live
    <2>0. LiveFetch(j) /\ IsPage(page)
      BY <1>0, <1>2 DEF LiveFetch, Paged
    <2>1. CASE WriteUnderWay
      BY <1>0, <2>1 DEF Cached, WriteUnderWay, Writes
    <2>2. CASE \E i \in jobs : LiveMeta(i) /\ (Finished(i) => i.got = data[db])
      <3>1. \E i \in jobs' : LiveMeta(i) /\ (Finished(i) => i.got = data[db])
        BY <1>0, <2>2 DEF LiveMeta
      <3> QED
        BY <1>0, <3>1 DEF Cached
    <2>3. CASE /\ \A i \in jobs : ~LiveMeta(i)
               /\ data[db].val # Gone =>
                    /\ meta # None /\ meta.ttl = data[db].ttl
                    /\ page # None
                    /\ \A i \in jobs : LiveFetch(i) /\ Finished(i) => i.got = data[db]
                    /\ (\A i \in jobs : ~LiveFetch(i)) => page.rows = data[db].val
      <3>1. ASSUME data[db].val # Gone PROVE page' # None /\ page'.rows = data[db].val
        <4>1. j.got = data[db]
          BY <1>0, <2>0, <2>3, <3>1
        <4>2. page' = [page EXCEPT !.rows = data[db].val]
          BY <1>0, <1>2, <3>1, <4>1 DEF FetchDone
        <4>3. page' = [kind |-> page.kind, rows |-> data[db].val]
          BY <2>0, <4>2 DEF IsPage
        <4> QED
          BY <4>3 DEF NoneIsApart
      <3>2. \A i \in jobs' : ~LiveMeta(i)
        BY <1>0, <2>3
      <3> QED
        BY <1>0, <2>3, <3>1, <3>2 DEF Cached
    <2> QED
      BY <2>1, <2>2, <2>3 DEF Cached
  <1> QED
    BY <1>1, <1>2

LEMMA CacheNext ==
  ASSUME NoneIsApart, Jobs, Places, Paged, Shaped, Links, MetaOnce(jobs), PageOpen, CacheInv, [Next]_vars
  PROVE  CacheInv'
  <1> SUFFICES ASSUME Undisturbed', \A n \in jobs' : n.what # "select", listed'
               PROVE  Cached'
    BY DEF CacheInv
  <1>1. /\ Undisturbed /\ \A j \in jobs : JobOK(j) /\ ~j.failed
        /\ past' \cap {"failed", "others", "reset"} = {}
    BY PastGrows DEF Undisturbed, Links, Jobs
  <1>2. ASSUME \A j \in jobs : j.what # "select", listed PROVE Cached /\ AllOn(db)
    BY <1>1, <1>2, OnScreen DEF CacheInv
  <1>3. ASSUME NEW j \in jobs, Take(j) \/ Reply(j) \/ LinkLost(j) \/ CommandFails(j) \/ Lookup(j)
        PROVE  Cached'
    <2>1. UNCHANGED <<db, page, listed, meta>> /\ ~CommandFails(j)
      BY <1>1, <1>3, RunningGoes DEF CommandFails
    <2>2. PICK n : Becomes(j, n)
      BY <1>3, RunningGoes
    <2>3. Cached /\ AllOn(db)
      BY <1>2, <2>1, <2>2 DEF Becomes
    <2>4. CASE j.what \in Writes
      BY <2>2, <2>4 DEF Cached, WriteUnderWay, Becomes
    <2>5. CASE j.what \notin Writes
      <3>1. CASE Take(j)
        <4>1. PICK m : Becomes(j, m) /\ m.script = j.script
          BY <3>1, TakeGoes
        <4>2. j.script # << >> /\ data' = data
          BY <3>1, TakeGoes DEF Take
        <4> QED
          BY <2>1, <2>3, <4>1, <4>2, CachedGoes
      <3>2. CASE Reply(j)
        <4>1. PICK m : /\ Becomes(j, m)
                       /\ m.got = IF Head(j.script).op \in {"get", "meta", "scan"} THEN data[j.link] ELSE None
          BY <3>2, ReplyGoes
        <4>2. j.script # << >> /\ data' = data /\ j.link # None
          BY <2>5, <3>2, ReplyGoes, ReadsKeepData DEF Reply
        <4>3. j.what # "select"
          BY <2>2 DEF Becomes
        <4>4. Head(j.script).op \in {"get", "meta", "scan"}
          BY <1>1, <2>5, <4>2, <4>3, OpsOfReads
        <4>5. j.link = db
          BY <2>3, <4>2 DEF AllOn
        <4> QED
          BY <2>1, <2>3, <4>1, <4>2, <4>4, <4>5, CachedGoes
      <3>3. CASE LinkLost(j)
        <4>1. PICK m : Becomes(j, m) /\ m.script = j.script
          BY <3>3, LostGoes
        <4>2. j.script # << >> /\ data' = data
          BY <2>5, <3>3, LostGoes, ReadsKeepData
        <4> QED
          BY <2>1, <2>3, <4>1, <4>2, CachedGoes
      <3>4. CASE Lookup(j)
        BY <2>5, <3>4, LookupGoes DEF Writes
      <3> QED
        BY <1>3, <2>1, <3>1, <3>2, <3>3, <3>4
    <2> QED
      BY <2>4, <2>5
  <1>4. ASSUME NEW j \in jobs,
               WriteDone(j) \/ TTLDone(j) \/ MetaDone(j) \/ FetchDone(j) \/ ScanDone(j)
        PROVE  Cached'
    <2>0. Finished(j) /\ j.what # "select" /\ db' = db /\ data' = data
      BY <1>4 DEF WriteDone, TTLDone, MetaDone, FetchDone, ScanDone, Untouched
    <2>1. MetaCall \in Reloaded(jobs \ {j})
      BY DEF Reloaded
    <2>2. MetaCall' = MetaCall
      BY <2>0 DEF MetaCall
    <2>a. ASSUME MetaCall \in jobs' PROVE Cached'
      BY <2>2, <2>a, CachedReloads
    <2>3. CASE WriteDone(j)
      <3>1. page # None
        BY <1>1, <2>3, PageOpen DEF PageOpen, WriteDone, Undisturbed
      <3> QED
        BY <1>1, <2>1, <2>a, <2>3, <3>1 DEF WriteDone
    <2>4. CASE TTLDone(j)
      BY <1>1, <2>1, <2>a, <2>4 DEF TTLDone
    <2>b. ASSUME listed, jobs \ {j} \subseteq jobs' \/ \A i \in jobs : i.what # "select"
          PROVE  Cached
      BY <1>2, <2>0, <2>b
    <2>5. CASE MetaDone(j)
      <3>1. \A i \in jobs : i.what # "select"
        <4>1. jobs' = jobs \ {j} \/ Outdated(jobs \ {j}, "fetch") \subseteq jobs'
          BY <2>5 DEF MetaDone
        <4>2. \A i \in jobs \ {j} : \E n \in Outdated(jobs \ {j}, "fetch") : n.what = i.what
          BY <1>1, OutdatedFrom DEF Same
        <4> QED
          BY <2>0, <4>1, <4>2
      <3>2. listed
        BY <2>5 DEF MetaDone
      <3> QED
        BY <1>1, <2>5, <2>b, <3>1, <3>2, CachedMeta
    <2>6. CASE FetchDone(j)
      BY <1>1, <2>6, <2>b, CachedFetch DEF FetchDone
    <2>7. CASE ScanDone(j)
      <3>1. CASE jobs' = jobs \ {j} /\ UNCHANGED listed
        <4>1. j.what = "scan" /\ UNCHANGED <<page, meta>>
          BY <2>7 DEF ScanDone
        <4>2. Cached
          BY <2>b, <3>1
        <4> QED
          BY <2>0, <3>1, <4>1, <4>2, CachedLeaves DEF Writes, LiveMeta, LiveFetch
      <3> QED
        BY <2>1, <2>a, <2>7, <3>1 DEF ScanDone
    <2> QED
      BY <1>4, <2>3, <2>4, <2>5, <2>6, <2>7
  <1>5. ASSUME NEW j \in jobs, SelectDone(j) PROVE Cached'
    BY <1>1, <1>5 DEF SelectDone, ScanStarted
  <1>6. CASE User
    <2>1. CASE Rescan
      BY <2>1 DEF Rescan, ScanStarted
    <2>2. CASE CancelEditor \/ \E f : OpenEditor(f)
      <3>1. UNCHANGED <<jobs, data, db, page, listed, meta>>
        BY <2>2 DEF CancelEditor, OpenEditor
      <3> QED
        BY <1>2, <3>1 DEF Cached, WriteUnderWay
    <2>3. ASSUME NEW what \in Writes \cup {"select"}, NEW d, NEW script, Start(Job(what, d, script))
          PROVE  Cached'
      <3>1. PICK n : n = Job(what, d, script)
        OBVIOUS
      <3>2. jobs' = jobs \cup {n} /\ n.what = what
        BY <2>3, <3>1, NewJobFields DEF Start
      <3> QED
        BY <3>2 DEF Cached, WriteUnderWay
    <2>4. CASE \E f : DelItem(f)
      BY <2>3, <2>4 DEF DelItem, Writes
    <2>5. CASE \E t : SetTTL(t)
      BY <2>3, <2>5 DEF SetTTL, Writes
    <2>6. CASE \E d : SwitchDB(d)
      BY <2>3, <2>6 DEF SwitchDB
    <2>7. CASE \E f, text : NewItem(f, text)
      BY <2>3, <2>7 DEF NewItem, Writes
    <2>8. CASE \E f, text : Submit(f, text)
      <3>1. PICK what, d, script : what \in {"save", "edit"} /\ Start(Job(what, d, script))
        BY <2>8 DEF Submit
      <3> QED
        BY <2>3, <3>1 DEF Writes
    <2> QED
      BY <1>6, <2>1, <2>2, <2>4, <2>5, <2>6, <2>7, <2>8 DEF User
  <1>7. CASE OtherClient
    BY <1>1, <1>7 DEF OtherClient
  <1>8. CASE IdleLinkLost \/ UNCHANGED vars
    <2>1. UNCHANGED <<jobs, data, db, page, listed, meta>>
      BY <1>8 DEF IdleLinkLost, vars
    <2> QED
      BY <1>2, <2>1 DEF Cached, WriteUnderWay
  <1> QED
    BY <1>3, <1>4, <1>5, <1>6, <1>7, <1>8 DEF Next, Client

\* At first nothing has begun.
LEMMA CacheBegins ==
  ASSUME NoneIsApart, Init
  PROVE  Jobs /\ Places /\ Paged /\ Shaped /\ Links /\ MetaOnce(jobs) /\ PageOpen /\ CacheInv
  <1>1. PICK v \in Values[kind], t \in Expiries :
          /\ data = [d \in DBs |-> [val |-> v, ttl |-> t]]
          /\ page = [kind |-> kind, rows |-> v] /\ meta = [kind |-> kind, ttl |-> t]
    BY DEF Init
  <1>2. Home \in DBs /\ <<Home>> \in Seq(DBs) /\ <<Home>> \in Seq({Home})
        /\ idle = <<idle[1]>>
    BY EditsAssumption DEF Init
  <1>3. Jobs /\ Places /\ MetaOnce(jobs)
    BY <1>2 DEF Init, Jobs, Places, MetaOnce
  <1>4. Paged /\ Shaped
    BY <1>1 DEF Init, Paged, IsPage, Shaped, Record
  <1>5. Links
    BY <1>2 DEF Init, Links, AllOn, OneLink
  <1>6. page # None /\ meta # None
    BY <1>1 DEF NoneIsApart
  <1>7. PageOpen /\ CacheInv
    <2>1. data[db] = [val |-> v, ttl |-> t]
      BY <1>1, <1>2 DEF Init
    <2> QED
      BY <1>1, <1>6, <2>1 DEF Init, PageOpen, CacheInv, Cached
  <1> QED
    BY <1>3, <1>4, <1>5, <1>7

\* When everything is answered, what is on screen is what the server holds.
THEOREM CacheStaysTrue ==
  ASSUME NoneIsApart
  PROVE  Spec => []CacheIsTrue
  <1> DEFINE Inv == Jobs /\ Places /\ Paged /\ Shaped /\ Links /\ MetaOnce(jobs)
                    /\ PageOpen /\ CacheInv
  <1>1. Init => Inv
    BY CacheBegins
  <1>2. Inv /\ [Next]_vars => Inv'
    BY JobsStep, PagedStep, ShapedNext, LinksNext, MetaOnceNext, PageOpenNext, CacheNext
  <1>3. Inv => CacheIsTrue
    BY DEF CacheInv, Cached, CacheIsTrue, Rest, WriteUnderWay
  <1> QED
    BY <1>1, <1>2, <1>3, PTL DEF Spec

----------------------------------------------------------------------------
(* Expiries.                                                               *)

Quiet == Undisturbed /\ past \cap {"hurried", "emptied"} = {}

\* What has no fields is gone, and has no expiry.
Emptied(key) == DOMAIN key.val = {} => key.val = Gone /\ key.ttl = 0

\* A string is there, and only strings are saved.
Kinded ==
  IF kind = "string" THEN (\A d \in DBs : data[d].val # Gone) /\ \A j \in jobs : j.what # "edit"
                     ELSE \A j \in jobs : j.what # "save"

\* He who waits writes, and selects, alone.
Turns ==
  /\ \A j \in jobs : j.what \in Writes \cup {"select"} => jobs = {j}
  /\ dialog # None => dialog.db = db /\ jobs = {}
  /\ ~listed => page = None /\ \A j \in jobs : j.what \in {"scan", "select"}

\* What is left of a save's script will leave the expiry as it should be.
SaveKeeps(j) ==
  LET s == j.script  d == j.want
  IN  \/ s = << >> /\ data[d].ttl = due[d]
      \/ \E a, b : /\ s = <<a, b>> /\ a.op = "lookup" /\ b.op = "set" /\ j.link = None
                   /\ data[d].ttl = due[d] /\ meta # None /\ meta.ttl = due[d]
      \/ \E a, b : s = <<a, b>> /\ a.op = "set" /\ b.op = "expire" /\ b.ttl = due[d]
      \/ \E a : s = <<a>> /\ a.op = "set" /\ data[d].ttl = 0 /\ due[d] = 0
      \/ \E a : s = <<a>> /\ a.op = "expire" /\ a.ttl = due[d]

Expiring ==
  /\ \A d \in DBs : data[d].ttl = due[d] \/ \E j \in jobs : j.what = "save" /\ j.want = d
  /\ \A j \in jobs : j.what = "save" => SaveKeeps(j)

ExpInv ==
  /\ DOMAIN due = DBs /\ \A d \in DBs : Emptied(data[d])
  /\ Kinded
  /\ Quiet => Turns /\ Expiring

LEMMA EffectTtl ==
  ASSUME NEW cmd, NEW key, Record(key), Emptied(key), NEW new, new = Effect(cmd, key)
  PROVE  /\ Emptied(new)
         /\ cmd.op = "set" => new.ttl = 0
         /\ cmd.op = "expire" => new.ttl = IF key.val = Gone THEN key.ttl ELSE cmd.ttl
         /\ cmd.op = "hdel" /\ new.val = Gone => new.ttl = 0
         /\ cmd.op \notin {"set", "expire"} /\ (cmd.op = "hdel" => new.val # Gone) => new.ttl = key.ttl
         /\ cmd.op # "hdel" /\ key.val # Gone => new.val # Gone
  <1>1. PICK v, t : key = [val |-> v, ttl |-> t]
    BY DEF Record
  <1>2. key.val = v /\ key.ttl = t /\ (DOMAIN v = {} => v = Gone /\ t = 0)
    BY <1>1 DEF Emptied
  <1>3. CASE cmd.op \in {"set", "hset"}
    <2>1. PICK w : w = WithField(v, cmd.field, cmd.raw)
      OBVIOUS
    <2>2. new = [val |-> w, ttl |-> IF cmd.op = "set" THEN 0 ELSE t]
      BY <1>1, <1>3, <2>1 DEF Effect
    <2>3. cmd.field \in DOMAIN w /\ DOMAIN Gone = {}
      BY <2>1 DEF WithField, Gone
    <2>4. DOMAIN w # {} /\ w # Gone
      BY <2>3
    <2>5. new.val = w /\ new.ttl = IF cmd.op = "set" THEN 0 ELSE t
      BY <2>2
    <2> QED
      BY <1>2, <1>3, <2>4, <2>5 DEF Emptied
  <1>4. CASE cmd.op = "hdel" /\ DOMAIN v = {cmd.field}
    <2>1. new = [val |-> Gone, ttl |-> 0]
      BY <1>1, <1>2, <1>4 DEF Effect
    <2>2. new.val = Gone /\ new.ttl = 0
      BY <2>1
    <2> QED
      BY <1>4, <2>2 DEF Emptied
  <1>5. CASE cmd.op = "hdel" /\ DOMAIN v # {cmd.field}
    <2>1. PICK w : w = Restrict(v, DOMAIN v \ {cmd.field})
      OBVIOUS
    <2>2. new = [val |-> w, ttl |-> t]
      BY <1>1, <1>5, <2>1 DEF Effect
    <2>3. new.val = w /\ new.ttl = t
      BY <2>2
    <2>4. DOMAIN w = DOMAIN v \ {cmd.field} /\ DOMAIN Gone = {}
      BY <2>1 DEF Restrict, Gone
    <2>5. w = Gone \/ DOMAIN w = {} => DOMAIN v = {}
      BY <1>5, <2>4
    <2>6. DOMAIN v = {} => t = 0 /\ w = Gone
      <3>1. Restrict(v, {}) = Gone
        BY DEF Restrict, Gone
      <3>2. DOMAIN v = {} => DOMAIN v \ {cmd.field} = {}
        OBVIOUS
      <3> QED
        BY <1>2, <2>1, <3>1, <3>2
    <2> QED
      BY <1>2, <1>5, <2>3, <2>5, <2>6 DEF Emptied
  <1>6. CASE cmd.op = "expire" /\ v # Gone
    <2>1. new = [val |-> v, ttl |-> cmd.ttl]
      BY <1>1, <1>2, <1>6 DEF Effect
    <2>2. new.val = v /\ new.ttl = cmd.ttl
      BY <2>1
    <2> QED
      BY <1>2, <1>6, <2>2 DEF Emptied
  <1>7. CASE cmd.op \notin {"set", "hset", "hdel"} /\ ~(cmd.op = "expire" /\ v # Gone)
    <2>1. new = key
      BY <1>2, <1>7 DEF Effect
    <2> QED
      BY <1>2, <1>7, <2>1 DEF Emptied
  <1> QED
    BY <1>3, <1>4, <1>5, <1>6, <1>7

LEMMA OpsOfWrites ==
  ASSUME NEW j, JobOK(j), j.script # << >>
  PROVE  /\ Head(j.script).op = "hdel" => j.what = "edit"
         /\ j.what = "edit" => Head(j.script).op \in {"hset", "hdel"}
         /\ j.what = "ttl" => Head(j.script).op = "expire"
         /\ j.what = "save" => Head(j.script).op \in {"lookup", "set", "expire"}
  <1>1. PICK a : a = j.script[1]
    OBVIOUS
  <1>2. Head(j.script) = a
    <2>1. CASE j.script = <<a>>
      BY <2>1, HeadsAndTails
    <2>2. CASE \E b : j.script = <<a, b>>
      BY <2>2, HeadsAndTails
    <2> QED
      BY <1>1, <2>1, <2>2 DEF JobOK, Shape
  <1>3. \/ <<j.what, a.op>> \in
             {<<"fetch", "get">>, <<"meta", "meta">>, <<"scan", "scan">>, <<"select", "select">>,
              <<"ttl", "expire">>, <<"save", "set">>, <<"save", "expire">>, <<"edit", "hset">>,
              <<"edit", "hdel">>}
        \/ <<j.what, a.op, j.script[2].op>> \in
             {<<"save", "lookup", "set">>, <<"save", "set", "expire">>, <<"edit", "hdel", "hset">>}
    BY <1>1 DEF JobOK, Shape
  <1> QED
    BY <1>2, <1>3

\* A command has had its effect.
Wrote(j) ==
  /\ j.link \in DBs /\ j.script # << >>
  /\ data' = [data EXCEPT ![j.link] = Effect(Head(j.script), data[j.link])]
  /\ Recorded(j, Head(j.script), j.link)

LEMMA DataSteps ==
  ASSUME Jobs, [Next]_vars
  PROVE  \/ data' = data /\ due' = due
         \/ OtherClient
         \/ \E j \in jobs : (Reply(j) \/ LinkLost(j)) /\ Wrote(j)
  <1>1. ASSUME NEW j \in jobs, Reply(j) PROVE Wrote(j)
    BY <1>1, ReplyGoes DEF Reply, Wrote, Jobs, JobOK
  <1>2. ASSUME NEW j \in jobs, LinkLost(j) PROVE Wrote(j) \/ (data' = data /\ due' = due)
    BY <1>2, LostGoes DEF LinkLost, Wrote, Jobs, JobOK
  <1>3. ASSUME NEW j \in jobs, Client(j), ~Reply(j), ~LinkLost(j) PROVE data' = data /\ due' = due
    BY <1>3 DEF Client, Take, CommandFails, Lookup, WriteDone, TTLDone, MetaDone, FetchDone, SelectDone,
                ScanDone, Untouched
  <1>4. CASE User \/ IdleLinkLost \/ UNCHANGED vars
    BY <1>4 DEF User, CancelEditor, Rescan, OpenEditor, DelItem, SetTTL, SwitchDB, NewItem, Submit,
                IdleLinkLost, vars
  <1> QED
    BY <1>1, <1>2, <1>3, <1>4 DEF Next

LEMMA EmptiedNext ==
  ASSUME Jobs, Shaped, \A d \in DBs : Emptied(data[d]), [Next]_vars
  PROVE  \A d \in DBs : Emptied(data'[d])
  <1> SUFFICES ASSUME NEW e \in DBs PROVE Emptied(data'[e])
    OBVIOUS
  <1>1. CASE data' = data
    BY <1>1
  <1>2. CASE OtherClient
    <2>1. PICK d \in DBs, t \in TTLs : data[d].val # Gone /\ data' = [data EXCEPT ![d].ttl = t]
      BY <1>2 DEF OtherClient
    <2>2. data'[e] = IF e = d THEN [val |-> data[d].val, ttl |-> t] ELSE data[e]
      BY <2>1 DEF Shaped, Record
    <2>3. CASE e = d
      <3>1. data'[e].val = data[d].val
        BY <2>2, <2>3
      <3> QED
        BY <2>1, <3>1 DEF Emptied
    <2> QED
      BY <2>2, <2>3
  <1>3. ASSUME NEW j \in jobs, Wrote(j) PROVE Emptied(data'[e])
    <2>1. PICK new, d : d = j.link /\ new = Effect(Head(j.script), data[d])
      OBVIOUS
    <2>2. Emptied(new) /\ d \in DBs
      BY <1>3, <2>1, EffectTtl DEF Shaped, Wrote
    <2>3. data' = [data EXCEPT ![d] = new]
      BY <1>3, <2>1 DEF Wrote
    <2> QED
      BY <2>2, <2>3 DEF Shaped
  <1> QED
    BY <1>1, <1>2, <1>3, DataSteps

\* A write or a SELECT goes on, or its user has just started it.
Begun(n) ==
  /\ jobs' = jobs \cup {n} /\ Pressed /\ dialog' = None
  /\ UNCHANGED <<kind, data, due, db, page, listed, meta>>
  /\ n.what = "save" =>
       /\ kind = "string" /\ dialog # None /\ n.want = dialog.db /\ n.link = None
       /\ \E a, b : n.script = <<a, b>> /\ a.op = "lookup" /\ b.op = "set"
  /\ n.what = "edit" => kind # "string"
  /\ n.what = "ttl" => listed
  /\ n.what \in {"save", "edit"} => page # None \/ dialog # None

LEMMA JobStarted ==
  ASSUME NEW what, NEW d, NEW script, Start(Job(what, d, script)),
         NEW n, n.what \in Writes \cup {"select"}, n \in jobs', n \notin jobs
  PROVE  /\ n.what = what /\ n.want = d /\ n.script = script /\ n.link = None
         /\ jobs' = jobs \cup {n}
  <1>1. PICK m : m = Job(what, d, script)
    OBVIOUS
  <1>2. m.what = what /\ m.want = d /\ m.script = script /\ m.link = None
    BY <1>1 DEF Job
  <1>3. jobs' = jobs \cup {m}
    BY <1>1 DEF Start
  <1> QED
    BY <1>2, <1>3

LEMMA WhereFrom ==
  ASSUME Jobs, [Next]_vars, NEW n \in jobs', n.what \in Writes \cup {"select"}
  PROVE  (\E i \in jobs : i.what = n.what /\ i.want = n.want) \/ (User /\ Begun(n))
  <1>0. \A j \in jobs : JobOK(j)
    BY DEF Jobs
  <1>1. ASSUME NEW j \in jobs, NEW m, Becomes(j, m)
        PROVE  \E i \in jobs : i.what = n.what /\ i.want = n.want
    BY <1>1 DEF Becomes
  <1>b. ASSUME NEW js, js \subseteq jobs
        PROVE  /\ \A w : \A m \in Outdated(js, w) : \E i \in jobs : i.what = m.what /\ i.want = m.want
               /\ \A v, w : \A m \in Outdated(Outdated(js, v), w) :
                    \E i \in jobs : i.what = m.what /\ i.want = m.want
    <2>1. \A j \in js : JobOK(j)
      BY <1>0, <1>b
    <2>2. \A w : \A m \in Outdated(js, w) : \E i \in jobs : i.what = m.what /\ i.want = m.want
      BY <1>b, <2>1, OutdatedSame
    <2>3. ASSUME NEW v, NEW w, NEW m \in Outdated(Outdated(js, v), w)
          PROVE  \E i \in jobs : i.what = m.what /\ i.want = m.want
      <3>1. PICK k \in Outdated(js, v) : m.what = k.what /\ m.want = k.want
        BY <2>1, OutdatedIsOK, OutdatedSame
      <3> QED
        BY <2>2, <3>1
    <2> QED
      BY <2>2, <2>3
  <1>3. ASSUME NEW j \in jobs,
               WriteDone(j) \/ TTLDone(j) \/ ScanDone(j) \/ FetchDone(j) \/ MetaDone(j)
        PROVE  \E i \in jobs : i.what = n.what /\ i.want = n.want
    <2>1. \E w : jobs' \subseteq Outdated(jobs \ {j}, w) \cup {MetaCall, Fetch} \cup (jobs \ {j})
      BY <1>3 DEF WriteDone, TTLDone, ScanDone, FetchDone, MetaDone, Reloaded
    <2>2. \A w : \A m \in Outdated(jobs \ {j}, w) : \E i \in jobs : i.what = m.what /\ i.want = m.want
      BY <1>b
    <2> QED
      BY <2>1, <2>2, NewJobFields DEF Writes
  <1>c. ASSUME NEW js, js \subseteq jobs, NEW d, ScanStarted(js, d)
        PROVE  \E i \in jobs : i.what = n.what /\ i.want = n.want
    <2>1. \A m \in Outdated(Outdated(js, "fetch"), "scan") :
            \E i \in jobs : i.what = m.what /\ i.want = m.want
      BY <1>b, <1>c
    <2>2. Job("scan", d, <<Cmd("scan")>>).what = "scan"
      BY NewJobFields
    <2> QED
      BY <1>c, <2>1, <2>2 DEF ScanStarted, Writes
  <1>4. ASSUME NEW j \in jobs, SelectDone(j)
        PROVE  \E i \in jobs : i.what = n.what /\ i.want = n.want
    BY <1>4, <1>c DEF SelectDone
  <1>5. CASE User
    <2>a. CASE n \in jobs
      BY <2>a
    <2>b. CASE n \notin jobs
      <3>1. CASE Rescan
        BY <1>c, <3>1 DEF Rescan
      <3>2. CASE CancelEditor \/ \E f : OpenEditor(f)
        BY <2>b, <3>2 DEF CancelEditor, OpenEditor
      <3>3. CASE \E f : DelItem(f)
        BY <1>5, <2>b, <3>3, JobStarted DEF DelItem, Begun
      <3>4. CASE \E t : SetTTL(t)
        BY <1>5, <2>b, <3>4, JobStarted DEF SetTTL, Begun
      <3>5. CASE \E d : SwitchDB(d)
        BY <1>5, <2>b, <3>5, JobStarted DEF SwitchDB, Begun
      <3>6. CASE \E f, text : NewItem(f, text)
        BY <1>5, <2>b, <3>6, JobStarted DEF NewItem, Begun
      <3>7. CASE \E f, text : Submit(f, text)
        <4>1. PICK f, text : Submit(f, text)
          BY <3>7
        <4>2. PICK put : put = Put(IF kind = "string" THEN "set" ELSE "hset", f, Written(dialog.raw, text), text)
          OBVIOUS
        <4>3. PICK script : script = IF kind = "string" THEN <<Cmd("lookup"), put>>
                                     ELSE IF f = dialog.field THEN <<put>>
                                     ELSE <<Del(dialog.field, text), put>>
          OBVIOUS
        <4>4. Start(Job(IF kind = "string" THEN "save" ELSE "edit", dialog.db, script))
          BY <4>1, <4>2, <4>3 DEF Submit
        <4>5. /\ n.what = IF kind = "string" THEN "save" ELSE "edit"
              /\ n.want = dialog.db /\ n.script = script /\ n.link = None
              /\ jobs' = jobs \cup {n}
          BY <2>b, <4>4, JobStarted
        <4>6. kind = "string" => put.op = "set" /\ Cmd("lookup").op = "lookup"
          BY <4>2 DEF Put, Cmd
        <4>7. n.what = "save" => \E a, b : n.script = <<a, b>> /\ a.op = "lookup" /\ b.op = "set"
          BY <4>3, <4>5, <4>6
        <4> QED
          BY <1>5, <4>1, <4>5, <4>7 DEF Submit, Begun
      <3> QED
        BY <1>5, <3>1, <3>2, <3>3, <3>4, <3>5, <3>6, <3>7 DEF User
    <2> QED
      BY <2>a, <2>b
  <1>6. CASE IdleLinkLost \/ OtherClient \/ UNCHANGED vars
    BY <1>6 DEF IdleLinkLost, OtherClient, vars
  <1> QED
    BY <1>1, <1>3, <1>4, <1>5, <1>6, RunningGoes DEF Next, Client

LEMMA KindedNext ==
  ASSUME Jobs, Shaped, \A d \in DBs : Emptied(data[d]), Kinded, [Next]_vars
  PROVE  Kinded'
  <1>1. kind' = kind
    BY DEF Next, Client, Take, Reply, LinkLost, CommandFails, Lookup, WriteDone, TTLDone, MetaDone,
           FetchDone, SelectDone, ScanDone, User, CancelEditor, Rescan, OpenEditor, DelItem, SetTTL,
           SwitchDB, NewItem, Submit, IdleLinkLost, OtherClient, Untouched, vars
  <1>2. \A n \in jobs' : n.what \in {"save", "edit"} =>
          \/ \E i \in jobs : i.what = n.what
          \/ n.what = IF kind = "string" THEN "save" ELSE "edit"
    BY WhereFrom DEF Writes, Begun
  <1>3. ASSUME kind = "string", NEW e \in DBs PROVE data'[e].val # Gone
    <2>0. data[e].val # Gone /\ \A j \in jobs : j.what # "edit"
      BY <1>3 DEF Kinded
    <2>1. CASE OtherClient
      <3>1. PICK d \in DBs, t \in TTLs : data' = [data EXCEPT ![d].ttl = t]
        BY <2>1 DEF OtherClient
      <3>2. data'[e].val = data[e].val
        BY <3>1 DEF Shaped, Record
      <3> QED
        BY <2>0, <3>2
    <2>2. ASSUME NEW j \in jobs, Wrote(j) PROVE data'[e].val # Gone
      <3>1. PICK cmd, d, new : cmd = Head(j.script) /\ d = j.link /\ new = Effect(cmd, data[d])
        OBVIOUS
      <3>2. d \in DBs /\ data' = [data EXCEPT ![d] = new] /\ j.script # << >>
        BY <2>2, <3>1 DEF Wrote
      <3>3. cmd.op # "hdel"
        BY <2>0, <3>1, <3>2, OpsOfWrites DEF Jobs
      <3>4. data[d].val # Gone => new.val # Gone
        BY <3>1, <3>2, <3>3, EffectTtl DEF Shaped
      <3> QED
        BY <2>0, <3>2, <3>4 DEF Shaped
    <2> QED
      BY <2>0, <2>1, <2>2, DataSteps
  <1> QED
    BY <1>1, <1>2, <1>3 DEF Kinded

\* What becomes of jobs that are alone, or of none.
LEMMA OutdatedNone == \A w : Outdated({}, w) = {}
  BY DEF Outdated

LEMMA TurnsClient ==
  ASSUME Jobs, Turns, NEW j \in jobs, Client(j)
  PROVE  Turns'
  <1>0. dialog' = None
    BY DEF Turns, Client, Take, Reply, LinkLost, CommandFails, Lookup, WriteDone, TTLDone, MetaDone,
           FetchDone, SelectDone, ScanDone, Untouched
  <1>1. ASSUME NEW n, Becomes(j, n), UNCHANGED <<listed, page>> PROVE Turns'
    <2>1. ASSUME NEW m \in jobs', m.what \in Writes \cup {"select"} PROVE jobs' = {m}
      <3>1. CASE m = n
        BY <1>1, <2>1, <3>1 DEF Turns, Becomes
      <3>2. CASE m # n
        BY <1>1, <2>1, <3>2 DEF Turns, Becomes
      <3> QED
        BY <3>1, <3>2
    <2>2. ~listed' => page' = None /\ \A m \in jobs' : m.what \in {"scan", "select"}
      BY <1>1 DEF Turns, Becomes
    <2> QED
      BY <1>0, <2>1, <2>2 DEF Turns
  <1>2. ASSUME j.what \in Writes, jobs' = {} \/ jobs' = {MetaCall} \/ jobs' = {MetaCall, Fetch},
               UNCHANGED listed
        PROVE  Turns'
    <2>1. listed' /\ \A m \in jobs' : m.what \in {"meta", "fetch"}
      BY <1>2, NewJobFields DEF Turns, Writes
    <2> QED
      BY <1>0, <2>1 DEF Turns, Writes
  <1>3. CASE WriteDone(j) \/ TTLDone(j)
    <2>1. j.what \in Writes /\ listed' = listed
      BY <1>3 DEF WriteDone, TTLDone, Writes
    <2>2. jobs \ {j} = {}
      BY <2>1 DEF Turns
    <2>3. Reloaded(jobs \ {j}) = {MetaCall}
      BY <2>2, OutdatedNone DEF Reloaded
    <2>4. jobs' = {} \/ jobs' = {MetaCall} \/ jobs' = {MetaCall, Fetch}
      BY <1>3, <2>2, <2>3 DEF WriteDone, TTLDone
    <2> QED
      BY <1>2, <2>1, <2>4
  <1>4. CASE MetaDone(j) \/ FetchDone(j) \/ ScanDone(j)
    <2>1. j.what \in {"meta", "fetch", "scan"}
      BY <1>4 DEF MetaDone, FetchDone, ScanDone
    <2>2. \A i \in jobs : i.what \notin Writes \cup {"select"}
      BY <2>1 DEF Turns, Writes
    <2>3. \A m \in jobs' : m.what \notin Writes \cup {"select"}
      <3>1. ASSUME NEW w PROVE \A m \in Outdated(jobs \ {j}, w) : \E i \in jobs : i.what = m.what
        <4>1. \A i \in jobs \ {j} : JobOK(i)
          BY DEF Jobs
        <4> QED
          BY <4>1, OutdatedSame
      <3>2. \E w : jobs' \subseteq Outdated(jobs \ {j}, w) \cup {MetaCall, Fetch} \cup (jobs \ {j})
        BY <1>4 DEF MetaDone, FetchDone, ScanDone, Reloaded
      <3> QED
        BY <2>2, <3>1, <3>2, NewJobFields DEF Writes
    <2>4. ASSUME ~listed' PROVE page' = None /\ \A m \in jobs' : m.what \in {"scan", "select"}
      <3>1. ~listed
        BY <1>4, <2>4 DEF MetaDone, FetchDone, ScanDone
      <3>2. j.what = "scan" /\ page' = page
        BY <1>4, <2>1, <3>1 DEF Turns, MetaDone, FetchDone, ScanDone
      <3>3. jobs' = jobs \ {j}
        BY <1>4, <2>4, <3>2 DEF MetaDone, FetchDone, ScanDone
      <3> QED
        BY <3>1, <3>2, <3>3 DEF Turns
    <2> QED
      BY <1>0, <2>3, <2>4 DEF Turns
  <1>5. CASE SelectDone(j)
    <2>1. jobs \ {j} = {} /\ j.what = "select"
      BY <1>5 DEF Turns, SelectDone
    <2>2. CASE j.failed
      <3>1. jobs' = {} /\ UNCHANGED <<listed, page>>
        BY <1>5, <2>1, <2>2 DEF SelectDone
      <3> QED
        BY <1>0, <3>1 DEF Turns
    <2>3. CASE ~j.failed
      <3>1. jobs' = {Job("scan", j.want, <<Cmd("scan")>>)} /\ page' = None
        BY <1>5, <2>1, <2>3, OutdatedNone DEF SelectDone, ScanStarted
      <3>2. \A m \in jobs' : m.what = "scan"
        BY <3>1, NewJobFields
      <3> QED
        BY <1>0, <3>1, <3>2 DEF Turns, Writes
    <2> QED
      BY <2>2, <2>3
  <1> QED
    BY <1>1, <1>3, <1>4, <1>5, RunningGoes DEF Client

LEMMA TurnsNext ==
  ASSUME Jobs, PageOpen, Quiet => Turns, Quiet', [Next]_vars
  PROVE  Turns'
  <1>1. Quiet /\ "reset" \notin past /\ "hurried" \notin past'
    BY PastGrows DEF Quiet, Undisturbed
  <1>2. CASE User
    <2>1. CASE CancelEditor
      BY <1>1, <2>1 DEF CancelEditor, Turns
    <2>2. CASE \E f : OpenEditor(f)
      <3>1. jobs = {} /\ jobs' = {} /\ dialog'.db = db /\ db' = db /\ listed' = listed
            /\ page # None
        BY <1>1, <2>2 DEF OpenEditor, Pressed, Rest
      <3> QED
        BY <1>1, <3>1 DEF Turns
    <2>3. CASE Rescan
      <3>1. jobs = {} /\ dialog' = None /\ page' = None
        BY <1>1, <2>3 DEF Rescan, Rest, ScanStarted
      <3>2. jobs' = {Job("scan", db, <<Cmd("scan")>>)}
        BY <2>3, <3>1, OutdatedNone DEF Rescan, ScanStarted
      <3>3. \A m \in jobs' : m.what = "scan"
        BY <3>2, NewJobFields
      <3> QED
        BY <3>1, <3>2, <3>3 DEF Turns, Writes
    <2>4. ASSUME NEW n \in jobs', n.what \in Writes \cup {"select"}, Begun(n) PROVE Turns'
      <3>1. jobs' = {n} /\ dialog' = None /\ UNCHANGED <<listed, page>>
        BY <1>1, <2>4 DEF Begun, Pressed, Rest
      <3>2. ~listed => page = None /\ dialog = None
        BY <1>1 DEF Turns, PageOpen
      <3>3. ~listed => n.what = "select"
        BY <2>4, <3>2 DEF Begun, Writes
      <3> QED
        BY <3>1, <3>2, <3>3 DEF Turns
    <2>5. ASSUME NEW what \in Writes \cup {"select"}, NEW d, NEW script, Start(Job(what, d, script)),
                 Pressed
          PROVE  Turns'
      <3>1. PICK n : n = Job(what, d, script)
        OBVIOUS
      <3>2. n \in jobs' /\ n.what = what /\ jobs = {}
        BY <1>1, <2>5, <3>1, NewJobFields DEF Start, Pressed, Rest
      <3> QED
        BY <2>4, <3>2, WhereFrom
    <2>6. CASE \E f : DelItem(f)
      BY <2>5, <2>6 DEF DelItem, Writes
    <2>7. CASE \E t : SetTTL(t)
      BY <2>5, <2>7 DEF SetTTL, Writes
    <2>8. CASE \E d : SwitchDB(d)
      BY <2>5, <2>8 DEF SwitchDB
    <2>9. CASE \E f, text : NewItem(f, text)
      BY <2>5, <2>9 DEF NewItem, Writes
    <2>10. CASE \E f, text : Submit(f, text)
      BY <2>5, <2>10 DEF Submit, Writes
    <2> QED
      BY <1>2, <2>1, <2>2, <2>3, <2>6, <2>7, <2>8, <2>9, <2>10 DEF User
  <1>3. CASE IdleLinkLost \/ OtherClient \/ UNCHANGED vars
    BY <1>1, <1>3 DEF IdleLinkLost, OtherClient, vars, Turns
  <1> QED
    BY <1>1, <1>2, <1>3, TurnsClient DEF Next

\* A command of a save changes the expiry as its script says.
LEMMA SaveWrites ==
  ASSUME Jobs, Shaped, \A d \in DBs : Emptied(data[d]), DOMAIN due = DBs, Kinded,
         NEW j \in jobs, Wrote(j), j.what = "save", j.link = j.want, SaveKeeps(j),
         NEW n, n.want = j.want, UNCHANGED <<due, meta>>,
         n.script = j.script \/ n.script = Tail(j.script)
  PROVE  SaveKeeps(n)'
  <1>1. PICK cmd, d, new : cmd = Head(j.script) /\ d = j.link /\ new = Effect(cmd, data[d])
    OBVIOUS
  <1>2. d \in DBs /\ j.script # << >> /\ data' = [data EXCEPT ![d] = new] /\ d = j.want /\ n.want = d
    BY <1>1 DEF Wrote
  <1>3. data'[d] = new /\ data[d].val # Gone
    BY <1>2 DEF Shaped, Kinded
  <1>4. /\ cmd.op = "set" => new.ttl = 0
        /\ cmd.op = "expire" => new.ttl = cmd.ttl
    BY <1>1, <1>2, <1>3, EffectTtl DEF Shaped
  <1>5. CASE \E a, b : j.script = <<a, b>> /\ a.op = "set" /\ b.op = "expire" /\ b.ttl = due[d]
    <2>1. PICK a, b : j.script = <<a, b>> /\ a.op = "set" /\ b.op = "expire" /\ b.ttl = due[d]
      BY <1>5
    <2>2. n.script = <<a, b>> \/ n.script = <<b>>
      BY <2>1, HeadsAndTails
    <2> QED
      BY <1>2, <2>1, <2>2 DEF SaveKeeps
  <1>6. CASE \E a : j.script = <<a>> /\ a.op = "set" /\ data[d].ttl = 0 /\ due[d] = 0
    <2>1. PICK a : j.script = <<a>> /\ a.op = "set" /\ due[d] = 0
      BY <1>6
    <2>2. cmd = a /\ (n.script = <<a>> \/ n.script = << >>)
      BY <1>1, <2>1, HeadsAndTails
    <2>3. data'[d].ttl = 0
      BY <1>3, <1>4, <2>1, <2>2
    <2> QED
      BY <1>2, <2>1, <2>2, <2>3 DEF SaveKeeps
  <1>7. CASE \E a : j.script = <<a>> /\ a.op = "expire" /\ a.ttl = due[d]
    <2>1. PICK a : j.script = <<a>> /\ a.op = "expire" /\ a.ttl = due[d]
      BY <1>7
    <2>2. cmd = a /\ (n.script = <<a>> \/ n.script = << >>)
      BY <1>1, <2>1, HeadsAndTails
    <2>3. data'[d].ttl = due[d]
      BY <1>3, <1>4, <2>1, <2>2
    <2> QED
      BY <1>2, <2>1, <2>2, <2>3 DEF SaveKeeps
  <1>8. j.link # None
    BY EditsAssumption DEF Wrote
  <1> QED
    BY <1>2, <1>5, <1>6, <1>7, <1>8 DEF SaveKeeps

\* The expiry that is looked up is put back after the write.
LEMMA SaveLooksUp ==
  ASSUME Jobs, NEW j \in jobs, Lookup(j), SaveKeeps(j), NEW n, n.want = j.want,
         n.script = Tail(j.script) \o IF meta = None \/ meta.ttl = 0 THEN << >>
                                      ELSE <<[op |-> "expire", ttl |-> meta.ttl]>>
  PROVE  SaveKeeps(n)'
  <1>1. PICK d : d = j.want
    OBVIOUS
  <1>2. j.script # << >> /\ Head(j.script).op = "lookup" /\ UNCHANGED <<data, due, meta>>
    BY DEF Lookup
  <1>3. PICK a, b : /\ j.script = <<a, b>> /\ b.op = "set"
                    /\ data[d].ttl = due[d] /\ meta # None /\ meta.ttl = due[d]
    <2>1. ~\E a : j.script = <<a>> /\ a.op \in {"set", "expire"}
      BY <1>2, HeadsAndTails
    <2>2. ~\E a, b : j.script = <<a, b>> /\ a.op = "set"
      BY <1>2, HeadsAndTails
    <2> QED
      BY <1>1, <1>2, <2>1, <2>2 DEF SaveKeeps
  <1>4. Tail(j.script) = <<b>>
    BY <1>3, HeadsAndTails
  <1>5. CASE meta.ttl = 0
    <2>1. n.script = <<b>>
      BY <1>3, <1>4, <1>5, HeadsAndTails
    <2> QED
      BY <1>1, <1>2, <1>3, <1>5, <2>1 DEF SaveKeeps
  <1>6. CASE meta.ttl # 0
    <2>1. PICK e : e = [op |-> "expire", ttl |-> meta.ttl]
      OBVIOUS
    <2>2. n.script = <<b>> \o <<e>>
      BY <1>3, <1>4, <1>6, <2>1
    <2>3. n.script = <<b, e>>
      BY <2>2, HeadsAndTails
    <2>4. e.op = "expire" /\ e.ttl = due[d]
      BY <1>3, <2>1
    <2> QED
      BY <1>1, <1>2, <1>3, <2>3, <2>4 DEF SaveKeeps
  <1> QED
    BY <1>5, <1>6

\* A write that is not a save changes the expiry where it should change.
LEMMA OthersWrite ==
  ASSUME Jobs, Shaped, \A d \in DBs : Emptied(data[d]), DOMAIN due = DBs,
         NEW j \in jobs, Wrote(j), j.what # "save", "emptied" \notin past',
         \A d \in DBs : data[d].ttl = due[d]
  PROVE  \A d \in DBs : data'[d].ttl = due'[d]
  <1>1. PICK cmd, d, new : cmd = Head(j.script) /\ d = j.link /\ new = Effect(cmd, data[d])
    OBVIOUS
  <1>2. d \in DBs /\ j.script # << >> /\ data' = [data EXCEPT ![d] = new] /\ Recorded(j, cmd, d)
    BY <1>1 DEF Wrote
  <1>3. /\ DOMAIN data = DBs /\ Record(data[d]) /\ Emptied(data[d])
        /\ data'[d] = new /\ \A e \in DBs \ {d} : data'[e] = data[e]
    BY <1>2 DEF Shaped
  <1>4. /\ cmd.op = "expire" => new.ttl = IF data[d].val = Gone THEN data[d].ttl ELSE cmd.ttl
        /\ cmd.op = "hdel" /\ new.val = Gone => new.ttl = 0
        /\ cmd.op \notin {"set", "expire"} /\ (cmd.op = "hdel" => new.val # Gone) => new.ttl = data[d].ttl
    BY <1>1, <1>3, EffectTtl
  <1>5. PICK t : /\ t = IF j.what = "ttl" /\ data[d].val # Gone THEN cmd.ttl
                        ELSE IF cmd.op = "hdel" /\ cmd.text = NoText /\ new.val = Gone THEN 0
                        ELSE due[d]
                 /\ due' = [due EXCEPT ![d] = t] \/ (due' = due /\ t = due[d])
    BY <1>2, <1>3 DEF Recorded
  <1>6. due'[d] = t /\ \A e \in DBs \ {d} : due'[e] = due[e]
    BY <1>2, <1>5
  <1>7. new.ttl = t
    <2>1. CASE j.what = "ttl"
      <3>1. cmd.op = "expire"
        BY <1>1, <1>2, <2>1, OpsOfWrites DEF Jobs
      <3> QED
        BY <1>2, <1>4, <1>5, <2>1, <3>1
    <2>2. CASE j.what # "ttl"
      <3>1. cmd.op \notin {"set", "expire"}
        <4>1. CASE j.what = "edit"
          BY <1>1, <1>2, <4>1, OpsOfWrites DEF Jobs
        <4>2. CASE j.what \notin Writes
          BY <1>1, <1>2, <4>2, OpsOfReads DEF Jobs
        <4> QED
          BY <2>2, <4>1, <4>2 DEF Writes
      <3>2. cmd.op = "hdel" /\ new.val = Gone => cmd.text = NoText
        BY <1>2, <1>3 DEF Recorded
      <3> QED
        BY <1>2, <1>4, <1>5, <2>2, <3>1, <3>2
    <2> QED
      BY <2>1, <2>2
  <1> QED
    BY <1>3, <1>6, <1>7

LEMMA SaveGoes ==
  ASSUME Expiring, NEW j \in jobs, jobs = {j}, j.what = "save", NEW n, Becomes(j, n), SaveKeeps(n)',
         \A d \in DBs \ {j.want} : data'[d] = data[d], due' = due
  PROVE  Expiring'
  <1>1. jobs' = {n} /\ n.what = "save" /\ n.want = j.want
    BY DEF Becomes
  <1>2. ASSUME NEW d \in DBs
        PROVE  data'[d].ttl = due'[d] \/ \E m \in jobs' : m.what = "save" /\ m.want = d
    BY <1>1 DEF Expiring
  <1> QED
    BY <1>1, <1>2 DEF Expiring

LEMMA ExpiringClient ==
  ASSUME Jobs, Shaped, \A d \in DBs : Emptied(data[d]), DOMAIN due = DBs, Kinded, Turns, Expiring, Quiet',
         NEW j \in jobs, Client(j)
  PROVE  Expiring'
  <1>0. /\ past' \cap {"failed", "others", "strayed", "hurried", "emptied"} = {}
        /\ [Next]_vars /\ JobOK(j)
    BY DEF Quiet, Undisturbed, Next, Jobs
  <1>1. CASE j.what # "save"
    <2>1. \A i \in jobs : i.what # "save"
      BY <1>1 DEF Turns, Writes
    <2>2. \A n \in jobs' : n.what # "save"
      <3>1. ASSUME NEW n, Begun(n) PROVE FALSE
        BY <1>0, <3>1 DEF Begun, Pressed, Rest
      <3> QED
        BY <1>0, <2>1, <3>1, WhereFrom DEF Writes
    <2>3. \A d \in DBs : data[d].ttl = due[d]
      BY <2>1 DEF Expiring
    <2>4. \A d \in DBs : data'[d].ttl = due'[d]
      <3>1. CASE OtherClient
        BY <1>0, <3>1 DEF OtherClient
      <3>2. ASSUME NEW i \in jobs, Wrote(i) PROVE \A d \in DBs : data'[d].ttl = due'[d]
        BY <1>0, <2>1, <2>3, <3>2, OthersWrite
      <3> QED
        BY <1>0, <2>3, <3>1, <3>2, DataSteps
    <2> QED
      BY <2>2, <2>4 DEF Expiring
  <1>2. CASE j.what = "save"
    <2>0. jobs = {j} /\ SaveKeeps(j)
      BY <1>2 DEF Turns, Writes, Expiring
    <2>a. ASSUME NEW n, Becomes(j, n), n.script = j.script, UNCHANGED <<data, due, meta>>,
                 n.link = None \/ Head(j.script).op # "lookup"
          PROVE  Expiring'
      <3>1. \A a, b : j.script = <<a, b>> /\ a.op = "lookup" => n.link = None
        BY <2>a, HeadsAndTails
      <3>2. SaveKeeps(n)'
        BY <2>0, <2>a, <3>1 DEF SaveKeeps, Becomes
      <3> QED
        BY <1>2, <2>0, <2>a, <3>2, SaveGoes
    <2>b. ASSUME NEW n, Becomes(j, n), Wrote(j), n.script = j.script \/ n.script = Tail(j.script),
                 UNCHANGED meta
          PROVE  Expiring'
      <3>1. j.link = j.want
        BY <1>0, <1>2, <2>b DEF Wrote, Recorded, Writes
      <3>2. Head(j.script).op # "hdel"
        BY <1>0, <1>2, <2>b, OpsOfWrites DEF Wrote
      <3>3. due' = due
        BY <1>2, <2>b, <3>2 DEF Wrote, Recorded
      <3>4. SaveKeeps(n)'
        BY <1>2, <2>0, <2>b, <3>1, <3>3, SaveWrites DEF Becomes
      <3>5. \A d \in DBs \ {j.want} : data'[d] = data[d]
        BY <2>b, <3>1 DEF Wrote, Shaped
      <3> QED
        BY <1>2, <2>0, <2>b, <3>3, <3>4, <3>5, SaveGoes
    <2>1. CASE Take(j)
      <3>1. PICK n : Becomes(j, n) /\ n.script = j.script
        BY <2>1, TakeGoes
      <3> QED
        BY <2>1, <2>a, <3>1 DEF Take
    <2>2. CASE Reply(j)
      <3>1. PICK n : Becomes(j, n) /\ n.script = Tail(j.script)
        BY <2>2, ReplyGoes
      <3>2. Wrote(j) /\ meta' = meta
        BY <1>0, <2>2, ReplyGoes DEF Reply, Wrote, JobOK
      <3> QED
        BY <2>b, <3>1, <3>2
    <2>3. CASE LinkLost(j)
      <3>1. PICK n : Becomes(j, n) /\ n.script = j.script /\ n.link = None
        BY <2>3, LostGoes
      <3>2. (Wrote(j) \/ UNCHANGED <<data, due>>) /\ meta' = meta
        BY <1>0, <2>3, LostGoes DEF LinkLost, Wrote, JobOK
      <3> QED
        BY <2>a, <2>b, <3>1, <3>2
    <2>4. CASE CommandFails(j)
      BY <1>0, <2>4 DEF CommandFails
    <2>5. CASE Lookup(j)
      <3>1. PICK n : /\ Becomes(j, n)
                     /\ n.script = Tail(j.script) \o IF meta = None \/ meta.ttl = 0 THEN << >>
                                                     ELSE <<[op |-> "expire", ttl |-> meta.ttl]>>
        BY <2>5, LookupGoes
      <3>2. SaveKeeps(n)'
        BY <2>0, <2>5, <3>1, SaveLooksUp DEF Becomes
      <3> QED
        BY <1>2, <2>0, <2>5, <3>1, <3>2, SaveGoes DEF Lookup
    <2>6. CASE WriteDone(j)
      <3>1. j.script = << >> /\ UNCHANGED <<data, due>>
        BY <2>6 DEF WriteDone, Finished, Untouched
      <3>2. data[j.want].ttl = due[j.want]
        BY <2>0, <3>1 DEF SaveKeeps
      <3>3. \A d \in DBs : data'[d].ttl = due'[d]
        BY <2>0, <3>1, <3>2 DEF Expiring
      <3>4. jobs \ {j} = {}
        BY <2>0
      <3>5. jobs' \subseteq {MetaCall, Fetch}
        BY <2>6, <3>4, OutdatedNone DEF WriteDone, Reloaded
      <3>6. \A n \in jobs' : n.what # "save"
        BY <3>5, NewJobFields
      <3> QED
        BY <3>3, <3>6 DEF Expiring
    <2>7. ~(TTLDone(j) \/ MetaDone(j) \/ FetchDone(j) \/ SelectDone(j) \/ ScanDone(j))
      BY <1>2 DEF TTLDone, MetaDone, FetchDone, SelectDone, ScanDone
    <2> QED
      BY <2>1, <2>2, <2>3, <2>4, <2>5, <2>6, <2>7 DEF Client
  <1> QED
    BY <1>1, <1>2

\* The expiry that the editor's save will look up is the right one.
LEMMA SaveBegins ==
  ASSUME Places, Kinded, CacheInv, PageOpen, Turns, Expiring, Quiet, jobs = {}, NEW n, Begun(n),
         n.what = "save"
  PROVE  SaveKeeps(n)'
  <1>1. n.want = db /\ db \in DBs /\ page # None
    BY DEF Begun, Turns, Quiet, Undisturbed, PageOpen, Places
  <1>2. listed
    BY <1>1 DEF Turns
  <1>3. Cached
    BY <1>2 DEF CacheInv, Quiet
  <1>4. data[db].val # Gone
    BY <1>1 DEF Kinded, Begun
  <1>5. meta # None /\ meta.ttl = data[db].ttl
    BY <1>3, <1>4 DEF Cached, WriteUnderWay
  <1>6. data[db].ttl = due[db]
    BY <1>1 DEF Expiring
  <1>7. PICK a, b : n.script = <<a, b>> /\ a.op = "lookup" /\ b.op = "set"
    BY DEF Begun
  <1> QED
    BY <1>1, <1>5, <1>6, <1>7 DEF SaveKeeps, Begun

LEMMA ExpiringNext ==
  ASSUME Jobs, Places, Shaped, CacheInv, PageOpen, ExpInv, Quiet', [Next]_vars
  PROVE  Expiring'
  <1>1. /\ Quiet /\ Turns /\ Expiring /\ \A d \in DBs : Emptied(data[d])
        /\ DOMAIN due = DBs /\ Kinded
        /\ past' \cap {"others", "hurried"} = {}
    BY PastGrows DEF Quiet, Undisturbed, ExpInv
  <1>2. CASE User
    <2>1. CASE CancelEditor
      BY <1>1, <2>1 DEF CancelEditor, Expiring, SaveKeeps
    <2>2. CASE ~CancelEditor
      <3>1. jobs = {} /\ UNCHANGED <<data, due>>
        BY <1>1, <1>2, <2>2 DEF User, Rescan, OpenEditor, DelItem, SetTTL, SwitchDB, NewItem, Submit,
                                Pressed, Rest
      <3>2. \A d \in DBs : data'[d].ttl = due'[d]
        BY <1>1, <3>1 DEF Expiring
      <3>3. ASSUME NEW n \in jobs', n.what = "save" PROVE SaveKeeps(n)'
        BY <1>1, <3>1, <3>3, WhereFrom, SaveBegins DEF Writes
      <3> QED
        BY <3>2, <3>3 DEF Expiring
    <2> QED
      BY <2>1, <2>2
  <1>3. CASE OtherClient
    BY <1>1, <1>3 DEF OtherClient
  <1>4. CASE IdleLinkLost \/ UNCHANGED vars
    <2>1. UNCHANGED <<jobs, data, due, meta>>
      BY <1>4 DEF IdleLinkLost, vars
    <2>2. ASSUME NEW j \in jobs, j.what = "save" PROVE SaveKeeps(j)'
      <3>1. SaveKeeps(j)
        BY <1>1, <2>2 DEF Expiring
      <3> QED
        BY <2>1, <3>1 DEF SaveKeeps
    <2> QED
      BY <1>1, <2>1, <2>2 DEF Expiring
  <1> QED
    BY <1>1, <1>2, <1>3, <1>4, ExpiringClient DEF Next

LEMMA ExpInvNext ==
  ASSUME Jobs, Places, Shaped, CacheInv, PageOpen, ExpInv, [Next]_vars
  PROVE  ExpInv'
  <1>1. (\A d \in DBs : Emptied(data[d])) /\ DOMAIN due = DBs /\ Kinded /\ (Quiet => Turns)
    BY DEF ExpInv
  <1>2. \A d \in DBs : Emptied(data'[d])
    BY <1>1, EmptiedNext
  <1>3. DOMAIN due' = DBs
    <2>1. CASE OtherClient
      BY <1>1, <2>1 DEF OtherClient
    <2>2. ASSUME NEW j \in jobs, Wrote(j) PROVE DOMAIN due' = DBs
      BY <1>1, <2>2 DEF Wrote, Recorded
    <2> QED
      BY <1>1, <2>1, <2>2, DataSteps
  <1>4. Kinded'
    BY <1>1, KindedNext
  <1>5. Quiet' => Turns' /\ Expiring'
    BY <1>1, TurnsNext, ExpiringNext
  <1> QED
    BY <1>2, <1>3, <1>4, <1>5 DEF ExpInv

\* When everything is answered the key has the expiry it had, or was given.
THEOREM ExpiryStays ==
  ASSUME NoneIsApart
  PROVE  Spec => []ExpiryKept
  <1> DEFINE Inv == /\ Jobs /\ Places /\ Paged /\ Shaped /\ Links /\ MetaOnce(jobs)
                    /\ PageOpen /\ CacheInv /\ ExpInv
  <1>1. Init => Inv
    <2> SUFFICES ASSUME Init PROVE Inv
      OBVIOUS
    <2>1. PICK v \in Values[kind], t \in Expiries :
            /\ data = [d \in DBs |-> [val |-> v, ttl |-> t]]
            /\ page = [kind |-> kind, rows |-> v]
            /\ due = [d \in DBs |-> t]
      BY DEF Init
    <2>2. DOMAIN v # {} /\ DOMAIN Gone = {}
      BY EditsAssumption DEF Init, Gone
    <2>3. \A d \in DBs : data[d].val = v /\ data[d].ttl = t
      BY <2>1
    <2>4. ExpInv
      BY <2>1, <2>2, <2>3 DEF Init, ExpInv, Emptied, Kinded, Turns, Expiring
    <2> QED
      BY <2>4, CacheBegins
  <1>2. Inv /\ [Next]_vars => Inv'
    BY JobsStep, PagedStep, ShapedNext, LinksNext, MetaOnceNext, PageOpenNext, CacheNext, ExpInvNext
  <1>3. Inv => ExpiryKept
    BY DEF ExpInv, Quiet, Expiring, ExpiryKept, Rest
  <1> QED
    BY <1>1, <1>2, <1>3, PTL DEF Spec

\* The page is of a kind the key can have.
PageKind == page # None => page.kind \in {kind, "none", "?"}

LEMMA PageKindNext ==
  ASSUME NoneIsApart, Jobs, Paged, PageKind, [Next]_vars
  PROVE  PageKind'
  <1>1. kind' = kind
    BY DEF Next, Client, Take, Reply, LinkLost, CommandFails, Lookup, WriteDone, TTLDone, MetaDone,
           FetchDone, SelectDone, ScanDone, User, CancelEditor, Rescan, OpenEditor, DelItem, SetTTL,
           SwitchDB, NewItem, Submit, IdleLinkLost, OtherClient, Untouched, vars
  <1>2. CASE page' = page \/ page' = None
    BY <1>1, <1>2 DEF PageKind
  <1>3. ASSUME NEW j \in jobs, MetaDone(j) PROVE PageKind'
    <2>1. \/ page' = page
          \/ \E k \in {kind, "none", "?"} : page' = [kind |-> k, rows |-> Gone]
      <3>1. PICK found :
              /\ \/ found = [kind |-> "?", ttl |-> 0]
                 \/ found = [kind |-> "none", ttl |-> 0]
                 \/ found = [kind |-> kind, ttl |-> j.got.ttl]
              /\ page' = page \/ page' = [kind |-> found.kind, rows |-> Gone]
        BY <1>3 DEF MetaDone
      <3>2. found.kind \in {kind, "none", "?"}
        BY <3>1
      <3> QED
        BY <3>1, <3>2
    <2> QED
      BY <1>1, <2>1 DEF PageKind
  <1>4. ASSUME NEW j \in jobs, FetchDone(j) PROVE PageKind'
    <2>1. CASE page' = page
      BY <1>1, <2>1 DEF PageKind
    <2>2. CASE page' # page
      <3>1. j.live /\ j.what = "fetch" /\ page' = [page EXCEPT !.rows = j.got.val]
        BY <1>4, <2>2 DEF FetchDone
      <3>2. page = [kind |-> page.kind, rows |-> page.rows]
        BY <3>1 DEF Paged, IsPage
      <3>3. page # None
        BY <3>2 DEF NoneIsApart
      <3>4. page'.kind = page.kind
        BY <3>1, <3>2
      <3> QED
        BY <1>1, <3>3, <3>4 DEF PageKind
    <2> QED
      BY <2>1, <2>2
  <1>5. ASSUME NEW j \in jobs, Client(j), ~MetaDone(j), ~FetchDone(j) PROVE page' = page \/ page' = None
    BY <1>5 DEF Client, Take, Reply, LinkLost, CommandFails, Lookup, WriteDone, TTLDone, SelectDone,
                ScanDone, ScanStarted
  <1>6. CASE User \/ IdleLinkLost \/ OtherClient \/ UNCHANGED vars
    <2>1. page' = page \/ page' = None
      BY <1>6 DEF User, CancelEditor, Rescan, OpenEditor, DelItem, SetTTL, SwitchDB, NewItem, Submit,
                  ScanStarted, IdleLinkLost, OtherClient, vars
    <2> QED
      BY <1>2, <2>1
  <1> QED
    BY <1>2, <1>3, <1>4, <1>5, <1>6 DEF Next

LEMMA PastNext ==
  ASSUME past \subseteq Incidents, kind \in Kinds, [Next]_vars
  PROVE  past' \subseteq Incidents /\ kind' \in Kinds
  <1>1. ASSUME NEW j \in jobs, Client(j) PROVE past' \subseteq Incidents /\ kind' = kind
    BY <1>1 DEF Client, Take, Reply, LinkLost, CommandFails, Lookup, WriteDone, TTLDone, MetaDone,
                FetchDone, SelectDone, ScanDone, Recorded, Untouched, Incidents
  <1>2. CASE User
    BY <1>2 DEF User, CancelEditor, Rescan, OpenEditor, DelItem, SetTTL, SwitchDB, NewItem, Submit,
                Pressed, Incidents
  <1>3. CASE IdleLinkLost \/ OtherClient \/ UNCHANGED vars
    BY <1>3 DEF IdleLinkLost, OtherClient, vars, Incidents
  <1> QED
    BY <1>1, <1>2, <1>3 DEF Next

\* Types: a key that is gone has no expiry, links are on databases of the
\* server, and a goroutine that is done holds none.
THEOREM TypesStay ==
  ASSUME NoneIsApart
  PROVE  Spec => []TypeOK
  <1> DEFINE Inv == /\ Jobs /\ Places /\ Paged /\ Shaped /\ PageKind
                    /\ (\A d \in DBs : Emptied(data[d])) /\ past \subseteq Incidents /\ kind \in Kinds
  <1>1. Init => Inv
    <2> SUFFICES ASSUME Init PROVE Inv
      OBVIOUS
    <2>1. PICK v \in Values[kind], t \in Expiries :
            /\ data = [d \in DBs |-> [val |-> v, ttl |-> t]]
            /\ page = [kind |-> kind, rows |-> v]
      BY DEF Init
    <2>2. DOMAIN v # {}
      BY EditsAssumption DEF Init
    <2>3. PageKind /\ \A d \in DBs : Emptied(data[d])
      BY <2>1, <2>2 DEF PageKind, Emptied
    <2> QED
      BY <2>3, CacheBegins DEF Init, Incidents
  <1>2. Inv /\ [Next]_vars => Inv'
    BY JobsStep, PagedStep, ShapedNext, PageKindNext, EmptiedNext, PastNext
  <1>3. Inv => TypeOK
    <2> SUFFICES ASSUME Inv PROVE TypeOK
      OBVIOUS
    <2>1. ASSUME NEW d \in DBs, data[d].val = Gone PROVE data[d].ttl = 0
      <3>1. DOMAIN Gone = {}
        BY DEF Gone
      <3> QED
        BY <2>1, <3>1 DEF Emptied
    <2> QED
      BY <2>1 DEF TypeOK, Jobs, JobOK, Places, PageKind
  <1> QED
    BY <1>1, <1>2, <1>3, PTL DEF Spec
=============================================================================
