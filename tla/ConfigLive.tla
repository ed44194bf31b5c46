----------------------------- MODULE ConfigLive -----------------------------
(***************************************************************************)
(* A change of the configuration while the program runs: the handlers of   *)
(* the web API (webui/handlers.go) and the MCP tools (mcp/config_tools.go) *)
(* change the configuration under its lock, pass the change on to the      *)
(* server that uses it, and save the configuration to its file.            *)
(*                                                                         *)
(* Buckets go to the DFS server.  MySQL databases go, by way of the        *)
(* broadcaster of main.go, to the transport of every instance that has     *)
(* one; all of these transports were given the same map, and each guards   *)
(* it with a mutex of its own.  Mailboxes go nowhere: the email server     *)
(* keeps those of the start.                                               *)
(***************************************************************************)
EXTENDS Naturals, FiniteSets

CONSTANTS
  Names, Values,  \* of databases, buckets and mailboxes; DSNs, paths and settings
  Instances,
  Callers,        \* web requests and MCP tool calls
  MaxCalls,       \* bound: calls in all
  MaxStarts,      \* bound: starts of each instance's transports
  MaxReads,       \* bound: lookups of a DSN by a service
  MaxCrashes,     \* bound: ends and restarts of the program
  None, Torn

ASSUME ConfigAssumption ==
  /\ {MaxCalls, MaxStarts, MaxReads, MaxCrashes} \subseteq Nat
  /\ None \notin Values

Kinds == {"mysql", "clickhouse", "bucket", "mailbox"}

\* Database entries carry their type.
Entries(kind) == [type : {kind}, value : Values]

Configs ==
  [db : [Names -> Entries("mysql") \cup Entries("clickhouse") \cup {None}],
   bucket : [Names -> Entries("bucket") \cup {None}],
   mailbox : [Names -> Entries("mailbox") \cup {None}]]

Nothing == [n \in Names |-> None]

Empty == [db |-> Nothing, bucket |-> Nothing, mailbox |-> Nothing]

Section(kind) == IF kind \in {"mysql", "clickhouse"} THEN "db" ELSE kind

Ops ==
  [act : {"add"}, kind : Kinds, name : Names, value : Values]
    \cup [act : {"remove"}, kind : Kinds \ {"clickhouse"}, name : Names, value : {None}]

\* A transport is an instance's MySql of its latest or an earlier start.
Transports == Instances \X (1 .. MaxStarts)

VARIABLES
  config,    \* the config struct
  file,      \* what the file reads back as; Torn while it is not complete
  dsns,      \* the map the MySQL transports share
  buckets,   \* Dfs.buckets
  starts,    \* starts of each instance's transports; 0: it has no transport
  pc,        \* of each caller: idle, live, write, save, open, flush
  op,        \* its operation
  todo,      \* the instances the broadcaster has still to visit
  at,        \* the transport it writes through
  snapshot,  \* the text Save has built
  reading,   \* transports in which a service looks up a DSN
  calls, reads, crashes,
  \* History, read by no action.
  saved,     \* the latest save to write its text did so after the latest change
             \* and after the latest truncation
  missed,    \* databases changed in a way the broadcaster passes to no map
  raced      \* what was last changed while another call was changing it

live == <<dsns, buckets>>
program == <<pc, op, todo, at, snapshot>>
counters == <<calls, reads, crashes>>
vars == <<config, file, dsns, buckets, starts, pc, op, todo, at, snapshot,
          reading, calls, reads, crashes, saved, missed, raced>>

history == <<saved, missed, raced>>

\* GetMySQLDsns.
MySQLDsns(c) == [n \in Names |-> IF c.db[n] \in Entries("mysql") THEN c.db[n] ELSE None]

\* main, without a configuration file: every server starts with nothing.
Init ==
  /\ config = Empty /\ file = Empty /\ saved = TRUE
  /\ dsns = Nothing /\ buckets = Nothing
  /\ starts = [i \in Instances |-> 0]
  /\ pc = [c \in Callers |-> "idle"]
  /\ op = [c \in Callers |-> None]
  /\ todo = [c \in Callers |-> {}]
  /\ at = [c \in Callers |-> None]
  /\ snapshot = [c \in Callers |-> None]
  /\ reading = {}
  /\ missed = {} /\ raced = {}
  /\ calls = 0 /\ reads = 0 /\ crashes = 0

-----------------------------------------------------------------------------
(* A call *)

SavingNow == {c \in Callers : pc[c] \in {"open", "flush"}}

\* A call under way that changes entry n of section s.
Changes(d, s, n) == pc[d] # "idle" /\ Section(op[d].kind) = s /\ op[d].name = n

\* Mutant of Change: the setter does not take the lock.
ChangeUnlocked(c, o) ==
  LET s == Section(o.kind)
      e == IF o.act = "add" THEN [type |-> o.kind, value |-> o.value] ELSE None
  IN /\ pc[c] = "idle"
     /\ calls < MaxCalls
     /\ calls' = calls + 1
     /\ op' = [op EXCEPT ![c] = o]
     /\ config' = [config EXCEPT ![s][o.name] = e]
     /\ pc' = [pc EXCEPT ![c] = "live"]
     /\ todo' = [todo EXCEPT ![c] = IF s = "db" /\ e \notin Entries("clickhouse")
                                      THEN Instances ELSE {}]
     /\ saved' = FALSE
     /\ missed' = IF s = "db" /\ (e \in Entries("clickhouse") \/ \A i \in Instances : starts[i] = 0)
                    THEN missed \cup {o.name}
                    ELSE IF s = "db" THEN missed \ {o.name} ELSE missed
     /\ raced' = IF \E d \in Callers : Changes(d, s, o.name)
                   THEN raced \cup {<<s, o.name>>} ELSE raced \ {<<s, o.name>>}
     /\ UNCHANGED <<file, live, starts, at, snapshot, reading, reads, crashes>>

\* The setters, under the lock, which no Save holds.  The broadcaster is called
\* for every database but an added ClickHouse one.
Change(c, o) ==
  LET s == Section(o.kind)
      e == IF o.act = "add" THEN [type |-> o.kind, value |-> o.value] ELSE None
  IN /\ pc[c] = "idle"
     /\ calls < MaxCalls
     /\ SavingNow = {}
     /\ calls' = calls + 1
     /\ op' = [op EXCEPT ![c] = o]
     /\ config' = [config EXCEPT ![s][o.name] = e]
     /\ pc' = [pc EXCEPT ![c] = "live"]
     /\ todo' = [todo EXCEPT ![c] = IF s = "db" /\ e \notin Entries("clickhouse")
                                      THEN Instances ELSE {}]
     /\ saved' = FALSE
     /\ missed' = IF s = "db" /\ (e \in Entries("clickhouse") \/ \A i \in Instances : starts[i] = 0)
                    THEN missed \cup {o.name}
                    ELSE IF s = "db" THEN missed \ {o.name} ELSE missed
     /\ raced' = IF \E d \in Callers : Changes(d, s, o.name)
                   THEN raced \cup {<<s, o.name>>} ELSE raced \ {<<s, o.name>>}
     /\ UNCHANGED <<file, live, starts, at, snapshot, reading, reads, crashes>>

\* Mutant of Skip: the broadcaster stops at an instance without a transport.
SkipStops(c, i) ==
  /\ pc[c] = "live" /\ i \in todo[c]
  /\ starts[i] = 0
  /\ todo' = [todo EXCEPT ![c] = {}]
  /\ UNCHANGED <<config, file, live, starts, pc, op, at, snapshot, reading, counters,
                 history>>

\* The broadcaster: an instance without a transport is passed over,
Skip(c, i) ==
  /\ pc[c] = "live" /\ i \in todo[c]
  /\ starts[i] = 0
  /\ todo' = [todo EXCEPT ![c] = @ \ {i}]
  /\ UNCHANGED <<config, file, live, starts, pc, op, at, snapshot, reading, counters,
                 history>>

\* and the map is written under the mutex of the instance's transport.
WriteBegin(c, i) ==
  LET t == <<i, starts[i]>>
  IN /\ pc[c] = "live" /\ i \in todo[c]
     /\ starts[i] > 0
     /\ t \notin reading /\ \A d \in Callers : at[d] # t
     /\ at' = [at EXCEPT ![c] = t]
     /\ todo' = [todo EXCEPT ![c] = @ \ {i}]
     /\ pc' = [pc EXCEPT ![c] = "write"]
     /\ UNCHANGED <<config, file, live, starts, op, snapshot, reading, counters, history>>

WriteEnd(c) ==
  /\ pc[c] = "write"
  /\ dsns' = [dsns EXCEPT ![op[c].name] =
                IF op[c].act = "add" THEN [type |-> "mysql", value |-> op[c].value] ELSE None]
  /\ at' = [at EXCEPT ![c] = None]
  /\ pc' = [pc EXCEPT ![c] = "live"]
  /\ UNCHANGED <<config, file, buckets, starts, op, todo, snapshot, reading,
                 counters, history>>

\* Mutant of Apply: a removed bucket stays in the DFS server.
ApplyKeepsBuckets(c) ==
  /\ pc[c] = "live" /\ todo[c] = {}
  /\ buckets' = IF op[c].kind = "bucket" /\ op[c].act = "add"
                  THEN [buckets EXCEPT ![op[c].name] = [type |-> "bucket", value |-> op[c].value]]
                  ELSE buckets
  /\ pc' = [pc EXCEPT ![c] = "save"]
  /\ UNCHANGED <<config, file, dsns, starts, op, todo, at, snapshot, reading,
                 counters, history>>

\* The broadcaster is done, or the DFS server is told, under its own lock; and
\* then the call goes on to save.
Apply(c) ==
  /\ pc[c] = "live" /\ todo[c] = {}
  /\ buckets' = IF op[c].kind = "bucket"
                  THEN [buckets EXCEPT ![op[c].name] =
                          IF op[c].act = "add" THEN [type |-> "bucket", value |-> op[c].value] ELSE None]
                  ELSE buckets
  /\ pc' = [pc EXCEPT ![c] = "save"]
  /\ UNCHANGED <<config, file, dsns, starts, op, todo, at, snapshot, reading,
                 counters, history>>

-----------------------------------------------------------------------------
(* Save, under the read lock from SaveBuild to its end *)

SaveBuild(c) ==
  /\ pc[c] = "save"
  /\ snapshot' = [snapshot EXCEPT ![c] = config]
  /\ pc' = [pc EXCEPT ![c] = "open"]
  /\ UNCHANGED <<config, file, live, starts, op, todo, at, reading, counters, history>>

SaveOpen(c) ==
  /\ pc[c] = "open"
  /\ file' = Torn
  /\ pc' = [pc EXCEPT ![c] = "flush"]
  /\ saved' = FALSE
  /\ UNCHANGED <<config, live, starts, op, todo, at, snapshot, reading, counters, missed, raced>>

\* Mutant of SaveWrite: a write that is cut short counts as a write.
SaveWriteShort(c) ==
  /\ pc[c] = "flush"
  /\ file' = Torn
  /\ snapshot' = [snapshot EXCEPT ![c] = None]
  /\ pc' = [pc EXCEPT ![c] = "idle"]
  /\ saved' = TRUE
  /\ UNCHANGED <<config, live, starts, op, todo, at, reading, counters, missed, raced>>

SaveWrite(c) ==
  /\ pc[c] = "flush"
  /\ file' = snapshot[c]
  /\ snapshot' = [snapshot EXCEPT ![c] = None]
  /\ pc' = [pc EXCEPT ![c] = "idle"]
  /\ saved' = TRUE
  /\ UNCHANGED <<config, live, starts, op, todo, at, reading, counters, missed, raced>>

\* The file cannot be opened, or not written to its end: the call returns the
\* error; the configuration and the servers keep the change.
SaveFails(c) ==
  /\ pc[c] \in {"open", "flush"}
  /\ snapshot' = [snapshot EXCEPT ![c] = None]
  /\ pc' = [pc EXCEPT ![c] = "idle"]
  /\ UNCHANGED <<config, file, live, starts, op, todo, at, reading, counters, history>>

-----------------------------------------------------------------------------
(* The rest of the program *)

\* StartTransports gives the instance a new MySql over the shared map; one of an
\* earlier start goes on serving for a while.
StartTransports(i) ==
  /\ starts[i] < MaxStarts
  /\ starts' = [starts EXCEPT ![i] = @ + 1]
  /\ UNCHANGED <<config, file, live, program, reading, counters, history>>

\* GetDsn, under the read lock of one transport.
ReadBegin(t) ==
  /\ t[2] <= starts[t[1]]
  /\ t \notin reading /\ \A d \in Callers : at[d] # t
  /\ reads < MaxReads
  /\ reads' = reads + 1
  /\ reading' = reading \cup {t}
  /\ UNCHANGED <<config, file, live, starts, program, calls, crashes, history>>

ReadEnd(t) ==
  /\ t \in reading
  /\ reading' = reading \ {t}
  /\ UNCHANGED <<config, file, live, starts, program, counters, history>>

\* The program ends at any moment, and main starts it again from the file.  A
\* file that was cut off is taken to have lost everything; of a complete one the
\* parser reads back what Save wrote, for the names and values of this module:
\* what quotes and line breaks do to them is not modelled.
Crash ==
  LET c == IF file = Torn THEN Empty ELSE file
  IN /\ crashes < MaxCrashes
     /\ crashes' = crashes + 1
     /\ config' = c /\ file' = c /\ saved' = TRUE
     /\ dsns' = MySQLDsns(c) /\ buckets' = c.bucket
     /\ starts' = [i \in Instances |-> 0]
     /\ pc' = [d \in Callers |-> "idle"]
     /\ op' = [d \in Callers |-> None]
     /\ todo' = [d \in Callers |-> {}]
     /\ at' = [d \in Callers |-> None]
     /\ snapshot' = [d \in Callers |-> None]
     /\ reading' = {}
     /\ missed' = {} /\ raced' = {}
     /\ UNCHANGED <<calls, reads>>

-----------------------------------------------------------------------------
Call(c) ==
  \/ \E o \in Ops : Change(c, o)
  \/ \E i \in Instances : Skip(c, i) \/ WriteBegin(c, i)
  \/ WriteEnd(c) \/ Apply(c)
  \/ SaveBuild(c) \/ SaveOpen(c) \/ SaveWrite(c) \/ SaveFails(c)

\* No call is in flight: the program may wait for ever.
Quiet == \A c \in Callers : pc[c] = "idle"

Next ==
  \/ \E c \in Callers : Call(c)
  \/ \E i \in Instances : StartTransports(i)
  \/ \E t \in Transports : ReadBegin(t) \/ ReadEnd(t)
  \/ Crash
  \/ Quiet /\ UNCHANGED vars

Spec == Init /\ [][Next]_vars

-----------------------------------------------------------------------------
(* Properties *)

\* Every variable has the shape of its comment, and a call in flight has an
\* operation.
TypeOK ==
  /\ config \in Configs /\ file \in Configs \cup {Torn}
  /\ dsns \in [Names -> Entries("mysql") \cup {None}]
  /\ buckets \in [Names -> Entries("bucket") \cup {None}]
  /\ starts \in [Instances -> 0 .. MaxStarts]
  /\ pc \in [Callers -> {"idle", "live", "write", "save", "open", "flush"}]
  /\ op \in [Callers -> Ops \cup {None}]
  /\ \A c \in Callers : pc[c] # "idle" => op[c] \in Ops
  /\ todo \in [Callers -> SUBSET Instances]
  /\ at \in [Callers -> Transports \cup {None}]
  /\ snapshot \in [Callers -> Configs \cup {None}]
  /\ reading \subseteq Transports
  /\ missed \subseteq Names /\ raced \subseteq {"db", "bucket", "mailbox"} \X Names

\* However the calls and their saves overlap, fail, and truncate the same file:
\* once a save has written its text, and nothing has changed and no other save
\* has truncated the file since, the file holds the configuration.  Saves
\* overlap only under a shared lock that keeps every setter out.
FileIsConfig == saved => file = config

\* Saves that overlap write the same text, so that it does not matter which of
\* them writes last.
SavesAgree == \A c \in SavingNow : snapshot[c] = config

\* Between calls the DFS server has the buckets of the configuration, also when
\* the saves of these calls have failed or the program has restarted; a bucket
\* that two calls changed at once is the exception.
BucketsLive ==
  Quiet => \A n \in Names : <<"bucket", n>> \notin raced => buckets[n] = config.bucket[n]

\* Between calls the map of the MySQL transports has the databases of the
\* configuration, but for those that became ClickHouse databases, were changed
\* while no instance had a transport, or were changed by two calls at once.
DsnsLive ==
  Quiet => \A n \in Names \ missed : <<"db", n>> \notin raced => dsns[n] = MySQLDsns(config)[n]

\* The map of the MySQL transports is not read while it is written, nor written
\* twice at a time: the Go runtime ends the program when it is.
NoMapRace ==
  LET writers == {c \in Callers : pc[c] = "write"}
  IN Cardinality(writers) <= 1 /\ (writers = {} \/ reading = {})
=============================================================================
