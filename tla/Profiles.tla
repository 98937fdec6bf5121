------------------------------ MODULE Profiles ------------------------------
(***************************************************************************)
(* Saved connections and settings over restarts: Load, Save, normalize and *)
(* UpsertProfile (config/config.go), the connection manager (openConnect   *)
(* in app/connect.go), the settings (app/settings.go), the start of the    *)
(* program (cmd/tedis/main.go), and the profile that a connection keeps a  *)
(* pointer to (conn/conn.go, connProfile in app/keys.go, switchDB).        *)
(*                                                                         *)
(* objs is the heap: the profile objects that this process has made.  The  *)
(* configuration in memory, a dial under way and the connection in use     *)
(* point to them, so that a change through one is seen through the others. *)
(* A process has one dial under way at a time; Connection has several.     *)
(***************************************************************************)
EXTENDS SshConfig, FiniteSets

CONSTANTS
  Names,       \* the names profiles may get, in the order of the list
  Hosts, DBs,  \* server addresses, and databases the user may enter or select
  Seps,        \* separators the user may set
  SSHs,        \* tunnels the user may enter: [host, user, port, key]
  URLs,        \* profiles given on the command line
  Files,       \* the configuration files to start from
  SSHFiles,    \* the contents of ~/.ssh/config
  None,
  Empty, Torn, \* the file after a save that was cut short
  MaxActs,     \* bound: saves, deletes, settings, databases, starts
  MaxMishaps   \* bound: saves that fail, and crashes in one

Fields == {"name", "host", "db", "ssh", "sep"}

ASSUME ProfilesAssumption ==
  /\ Names \in Seq(STRING \ {""}) /\ IsInjective(Names)
  /\ \A f \in Files : /\ f \notin {Empty, Torn} /\ DOMAIN f.profiles \subseteq Range(Names)
                      /\ \A n \in DOMAIN f.profiles :
                           f.profiles[n].name = n /\ DOMAIN f.profiles[n] = Fields
  /\ \A u \in URLs : DOMAIN u = Fields
  /\ \A f \in SSHFiles : f \in Seq(Range(f))
  /\ DBs \subseteq Nat
  /\ MaxActs \in Nat /\ MaxMishaps \in Nat

VARIABLES
  file, sshFile,   \* on disk
  up,              \* the process runs
  objs, cfg,       \* the heap; cfg: settings, and profiles by name
  form,            \* the connection manager: the fields of its form, or None
  dial, conn,      \* pointers, or None; with conn, what it is connected to
  wanted,          \* history: the profiles as the user entered them
  past,            \* history: what has happened
  acts, mishaps

vars == <<file, sshFile, up, objs, cfg, form, dial, conn, wanted, past, acts, mishaps>>
Disk == <<file, sshFile>>
Bounds == <<acts, mishaps>>

NameSet == Range(Names)
TopName(names) == Names[CHOOSE i \in DOMAIN Names : Names[i] \in names /\
                          \A j \in 1 .. i - 1 : Names[j] \notin names]
WithEntry(f, name, v) == [n \in DOMAIN f \cup {name} |-> IF n = name THEN v ELSE f[n]]
DefaultCfg == [sep |-> ":", profiles |-> << >>]
Parsed == file \notin {Empty, Torn}

TypeOK ==
  /\ DOMAIN cfg.profiles \subseteq NameSet
  /\ \A n \in DOMAIN cfg.profiles : objs[cfg.profiles[n]].name = n
  /\ conn # None => conn.p \in DOMAIN objs /\ objs[conn.p].sep # ""
  /\ dial # None => dial \in DOMAIN objs
  /\ ~up => conn = None /\ dial = None /\ form = None

----------------------------------------------------------------------------
(* Load and Save.                                                          *)

\* normalize: what the file leaves out is filled in.
Normalized(sep, p) ==
  [p EXCEPT !.sep = IF @ = "" THEN sep ELSE @,
            !.ssh = IF @ # None /\ @.port = 0 THEN [@ EXCEPT !.port = 22] ELSE @]

\* The file that Save writes, and the one that Load reads.
Saved(c, heap) == [sep |-> c.sep, profiles |-> [n \in DOMAIN c.profiles |-> heap[c.profiles[n]]]]
Stored == IF file = Empty THEN DefaultCfg ELSE file

Mishap == mishaps < MaxMishaps /\ mishaps' = mishaps + 1

\* Save creates the file, which empties it, and writes.  It fails before it
\* has done anything, or leaves a part: nothing, a text that cannot be parsed,
\* or some of the profiles.
SaveWorks(c, heap) ==
  file' = Saved(c, heap) /\ UNCHANGED mishaps
Parts(c, heap) ==
  {Empty, Torn} \cup {[Saved(c, heap) EXCEPT !.profiles = Restrict(@, s)] :
                        s \in SUBSET DOMAIN c.profiles \ {DOMAIN c.profiles}}
SaveFails(c, heap) ==
  /\ Mishap
  /\ file' \in {file} \cup Parts(c, heap)

----------------------------------------------------------------------------
(* The process.                                                            *)

Act == acts < MaxActs /\ acts' = acts + 1

Init ==
  /\ file \in Files /\ sshFile \in SSHFiles
  /\ up = FALSE /\ objs = << >> /\ cfg = DefaultCfg
  /\ form = None /\ dial = None /\ conn = None
  /\ wanted = file.profiles /\ past = {}
  /\ acts = 0 /\ mishaps = 0

\* main: Load, and a connection to a profile of the file, to a URL, or none.
\* A file that cannot be parsed ends the program.
Start ==
  /\ ~up /\ file # Torn /\ Act
  /\ up' = TRUE
  /\ LET names == SetToSeq(DOMAIN Stored.profiles)
         heap  == [i \in DOMAIN names |-> Normalized(Stored.sep, Stored.profiles[names[i]])]
     IN  /\ cfg' = [sep |-> Stored.sep,
                    profiles |-> [n \in DOMAIN Stored.profiles |-> CHOOSE i \in DOMAIN names : names[i] = n]]
         /\ \/ objs' = heap /\ dial' \in {None} \cup DOMAIN heap
            \/ \E u \in URLs : objs' = Append(heap, u) /\ dial' = Len(heap) + 1
  /\ UNCHANGED <<Disk, form, conn, wanted, past, mishaps>>

Stop ==
  /\ up /\ up' = FALSE
  /\ objs' = << >> /\ cfg' = DefaultCfg
  /\ form' = None /\ dial' = None /\ conn' = None

Quit == Stop /\ UNCHANGED <<Disk, wanted, past, Bounds>>

\* The program ends in the middle of a save.
CrashInSave ==
  /\ Stop /\ Mishap
  /\ file' \in Parts(cfg, objs)
  /\ past' = past \cup {"save cut short"}
  /\ UNCHANGED <<sshFile, wanted, acts>>

----------------------------------------------------------------------------
(* Connecting.                                                             *)

\* connProfile, which every scan calls, completes the object itself.
Completed(heap, p) == [heap EXCEPT ![p].sep = IF @ = "" THEN ":" ELSE @]

Via(p) == IF p.ssh = None THEN None ELSE Tunnel(sshFile, p.ssh)

\* Variant: the answer looks the profile up again by its name.
ConnectedByName ==
  /\ dial # None /\ dial' = None
  /\ LET n == objs[dial].name
         p == IF n \in DOMAIN cfg.profiles THEN cfg.profiles[n] ELSE dial
     IN  /\ conn' = [p |-> p, made |-> objs[dial], via |-> Via(objs[dial])]
         /\ objs' = Completed(objs, p)
  /\ past' = past \ {"swapped"}
  /\ UNCHANGED <<Disk, up, cfg, form, wanted, Bounds>>

\* ConnectAsync's answer: onConnected scans.
Connected ==
  /\ dial # None /\ dial' = None
  /\ conn' = [p |-> dial, made |-> objs[dial], via |-> Via(objs[dial])]
  /\ objs' = Completed(objs, dial)
  /\ past' = past \ {"swapped"}
  /\ UNCHANGED <<Disk, up, cfg, form, wanted, Bounds>>

ConnectFails ==
  /\ dial # None /\ dial' = None
  /\ UNCHANGED <<Disk, up, objs, cfg, form, conn, wanted, past, Bounds>>

\* switchDB's answer keeps the database in the profile, and scans.
SwitchDB(d) ==
  /\ conn # None /\ Act
  /\ objs' = Completed([objs EXCEPT ![conn.p].db = d], conn.p)
  /\ past' = past \cup {"browsed"}
  /\ UNCHANGED <<Disk, up, cfg, form, dial, conn, wanted, mishaps>>

----------------------------------------------------------------------------
(* The connection manager.                                                 *)

BlankForm == [name |-> "", host |-> "", db |-> 0, ssh |-> None]
FormOf(p) == [name |-> p.name, host |-> p.host, db |-> p.db, ssh |-> p.ssh]

\* collect: a new profile.  Separator, fold level and rules are not in the form.
Collected(f) == [name |-> f.name, host |-> f.host, db |-> f.db, ssh |-> f.ssh, sep |-> ""]

OpenConnect ==
  /\ up /\ form = None /\ form' = BlankForm
  /\ UNCHANGED <<Disk, up, objs, cfg, dial, conn, wanted, past, Bounds>>

Close ==
  /\ form # None /\ form' = None
  /\ UNCHANGED <<Disk, up, objs, cfg, dial, conn, wanted, past, Bounds>>

\* The cursor of the list fills the form.
Select(n) ==
  /\ form # None
  /\ n \in DOMAIN cfg.profiles /\ form' = FormOf(objs[cfg.profiles[n]])
  /\ UNCHANGED <<Disk, up, objs, cfg, dial, conn, wanted, past, Bounds>>

\* What the user may have typed when he presses a button; nothing reads the
\* fields before.
Filling(n, h, t) == [form EXCEPT !.name = n, !.host = h, !.ssh = t]
Typed == {Filling(n, h, t) :
            n \in NameSet \cup {form.name}, h \in Hosts \cup {form.host}, t \in SSHs \cup {form.ssh}}

\* Enter in the list.
ListConnect(n) ==
  /\ form # None /\ dial = None
  /\ n \in DOMAIN cfg.profiles
  /\ dial' = cfg.profiles[n] /\ form' = None
  /\ UNCHANGED <<Disk, up, objs, cfg, conn, wanted, past, Bounds>>

\* The list is filled again, which selects its first row.
Reloaded(c, heap) == FormOf(heap[c.profiles[TopName(DOMAIN c.profiles)]])

\* Variant: the configuration is written before the profile is put in it.
SaveProfileLate(connect, f) ==
  /\ f.name # "" /\ f.host # "" /\ Act
  /\ connect => dial = None
  /\ LET heap == Append(objs, Collected(f))
         c == [cfg EXCEPT !.profiles = WithEntry(@, f.name, Len(heap))]
     IN  /\ objs' = heap /\ cfg' = c
         /\ SaveWorks(cfg, objs)
         /\ form' = IF connect THEN None ELSE Reloaded(c, heap)
         /\ dial' = IF connect THEN Len(heap) ELSE dial
  /\ wanted' = WithEntry(wanted, f.name, Collected(f))
  /\ UNCHANGED <<sshFile, up, conn, past>>

\* save, from the buttons "save" and "connect": a new object goes into the
\* configuration, also when it cannot be written.
SaveProfile(connect, f) ==
  /\ f.name # "" /\ f.host # "" /\ Act
  /\ connect => dial = None
  /\ LET heap == Append(objs, Collected(f))
         c == [cfg EXCEPT !.profiles = WithEntry(@, f.name, Len(heap))]
     IN  /\ objs' = heap /\ cfg' = c
         /\ \/ /\ SaveWorks(c, heap)
               /\ form' = IF connect THEN None ELSE Reloaded(c, heap)
               /\ dial' = IF connect THEN Len(heap) ELSE dial
               /\ UNCHANGED past
            \/ /\ SaveFails(c, heap)
               /\ past' = past \cup {"save cut short"}
               /\ form' = f /\ UNCHANGED dial
  /\ wanted' = WithEntry(wanted, f.name, Collected(f))
  /\ UNCHANGED <<sshFile, up, conn>>

\* delete, of the profile whose name is in the form.
DeleteProfile(name) ==
  /\ name # "" /\ Act
  /\ LET c == [cfg EXCEPT !.profiles = Restrict(@, DOMAIN @ \ {name})]
     IN  /\ cfg' = c
         /\ \/ SaveWorks(c, objs) /\ UNCHANGED past
            \/ SaveFails(c, objs) /\ past' = past \cup {"save cut short"}
  /\ form' = BlankForm
  /\ wanted' = Restrict(wanted, DOMAIN wanted \ {name})
  /\ UNCHANGED <<sshFile, up, objs, dial, conn>>

----------------------------------------------------------------------------

\* openSettings' save, and applySettings: the connection takes the profile
\* that has its name now, and the list is scanned again.
SaveSettings(sep) ==
  /\ up /\ form = None /\ Act
  /\ LET c == [cfg EXCEPT !.sep = sep]
     IN  /\ cfg' = c
         /\ \/ /\ SaveWorks(c, objs)
               /\ IF conn = None THEN UNCHANGED <<objs, conn, past>>
                  ELSE LET n == objs[conn.p].name
                           p == IF n \in DOMAIN cfg.profiles THEN cfg.profiles[n] ELSE conn.p
                       IN  /\ conn' = [conn EXCEPT !.p = p]
                           /\ objs' = Completed(objs, p)
                           /\ past' = past \cup (IF p # conn.p THEN {"swapped"} ELSE {})
            \/ /\ SaveFails(c, objs)
               /\ past' = past \cup {"save cut short"}
               /\ UNCHANGED <<objs, conn>>
  /\ UNCHANGED <<sshFile, up, form, dial, wanted>>

Next ==
  \/ Start \/ Quit \/ CrashInSave
  \/ Connected \/ ConnectFails \/ \E d \in DBs : SwitchDB(d)
  \/ OpenConnect \/ Close
  \/ \E n \in NameSet : Select(n) \/ ListConnect(n)
  \/ /\ form # None
     /\ \/ \E connect \in BOOLEAN, f \in Typed : SaveProfile(connect, f)
        \/ \E name \in NameSet \cup {form.name} : DeleteProfile(name)
  \/ \E sep \in Seps : SaveSettings(sep)

Spec == Init /\ [][Next]_vars

----------------------------------------------------------------------------
(* Properties.                                                             *)

\* What the user has entered and not deleted is in the file at every moment,
\* so that a restart finds it, unless a save was cut short; his database too,
\* unless browsing has changed it.  A separator that the file gives a profile
\* stays, whatever the settings are, until the profile is saved from the form.
EnteredIsStored ==
  "save cut short" \notin past =>
    /\ Parsed /\ DOMAIN file.profiles = DOMAIN wanted
    /\ \A n \in DOMAIN wanted :
         /\ file.profiles[n].host = wanted[n].host
         /\ file.profiles[n].ssh = None <=> wanted[n].ssh = None
         /\ file.profiles[n].db = wanted[n].db \/ "browsed" \in past
         /\ wanted[n].sep # "" => file.profiles[n].sep = wanted[n].sep

\* The connection keeps the profile it was made with: what the panes show of
\* it is where its client is connected to, also when the user saves another
\* under its name meanwhile; but the next save of the settings swaps it.
ProfileIsClients ==
  conn # None /\ "swapped" \notin past => objs[conn.p].host = conn.made.host

\* A tunnel goes where the profile, or else the first line of ~/.ssh/config
\* that applies, says ("first match wins per option, in file order"); a host
\* name that is the alias itself, and a port that is no number, do not count.
TunnelIsFirstMatch ==
  conn # None /\ conn.via # None =>
    LET first == FirstTunnel(sshFile, conn.made.ssh)
    IN  /\ conn.via.user = first.user /\ conn.via.key = first.key
        /\ conn.via.host = first.host \/ first.host = conn.made.ssh.host
        /\ conn.via.port = first.port
           \/ First(sshFile, conn.made.ssh.host, "port") \notin DOMAIN PortOf \cup {Unset}

----------------------------------------------------------------------------
(* What the code says and does not do.                                     *)

\* The settings are "applied live": to the connection in use.
SettingsApply ==
  [][\A sep \in Seps :
       SaveSettings(sep) /\ file' \notin {Empty, Torn} /\ conn # None =>
         objs'[conn'.p].sep = sep]_vars

\* "Empty fields are filled from ~/.ssh/config": also after a restart.
EmptyPortIsFilled ==
  conn # None /\ conn.via # None =>
    LET name == conn.made.name
        port == First(sshFile, conn.made.ssh.host, "port")
    IN  name \in DOMAIN wanted /\ conn.made.ssh = [wanted[name].ssh EXCEPT !.port = 22]
          /\ wanted[name].ssh.port = 0 /\ port \in DOMAIN PortOf
        => conn.via.port = PortOf[port]
=============================================================================
