-------------------------- MODULE ConfigLiveProofs --------------------------
(***************************************************************************)
(* What holds of the configuration file for any number of names, callers,  *)
(* overlapping calls, failing saves and restarts.                          *)
(***************************************************************************)
EXTENDS ConfigLive, TLAPS

\* While a save holds the read lock the configuration stands still, so every
\* text under way is the configuration; and what was written is still right
\* until the next change or truncation.
SaveInv ==
  /\ pc \in [Callers -> {"idle", "live", "write", "save", "open", "flush"}]
  /\ DOMAIN snapshot = Callers
  /\ SavesAgree
  /\ FileIsConfig

LEMMA SaveInvInitially == Init => SaveInv
  BY DEF Init, SaveInv, SavesAgree, FileIsConfig, SavingNow

LEMMA SaveInvInductive == SaveInv /\ [Next]_vars => SaveInv'
  <1> SUFFICES ASSUME SaveInv, [Next]_vars PROVE SaveInv'
    OBVIOUS
  <1> USE DEF SaveInv, SavesAgree, FileIsConfig, SavingNow, live, program, counters, history
  <1>1. ASSUME NEW c \in Callers, NEW o \in Ops, Change(c, o) PROVE SaveInv'
    BY <1>1 DEF Change
  <1>2. ASSUME NEW c \in Callers, NEW i \in Instances, Skip(c, i) PROVE SaveInv'
    BY <1>2 DEF Skip
  <1>3. ASSUME NEW c \in Callers, NEW i \in Instances, WriteBegin(c, i) PROVE SaveInv'
    BY <1>3 DEF WriteBegin
  <1>4. ASSUME NEW c \in Callers, WriteEnd(c) PROVE SaveInv'
    BY <1>4 DEF WriteEnd
  <1>5. ASSUME NEW c \in Callers, Apply(c) PROVE SaveInv'
    BY <1>5 DEF Apply
  <1>6. ASSUME NEW c \in Callers, SaveBuild(c) PROVE SaveInv'
    BY <1>6 DEF SaveBuild
  <1>7. ASSUME NEW c \in Callers, SaveOpen(c) PROVE SaveInv'
    BY <1>7 DEF SaveOpen
  <1>8. ASSUME NEW c \in Callers, SaveWrite(c) PROVE SaveInv'
    <2>1. snapshot[c] = config
      BY <1>8 DEF SaveWrite
    <2> QED
      BY <1>8, <2>1 DEF SaveWrite
  <1>9. ASSUME NEW c \in Callers, SaveFails(c) PROVE SaveInv'
    BY <1>9 DEF SaveFails
  <1>10. ASSUME NEW i \in Instances, StartTransports(i) PROVE SaveInv'
    BY <1>10 DEF StartTransports
  <1>11. ASSUME NEW t \in Transports, ReadBegin(t) \/ ReadEnd(t) PROVE SaveInv'
    BY <1>11 DEF ReadBegin, ReadEnd
  <1>12. CASE Crash
    BY <1>12 DEF Crash
  <1>13. CASE UNCHANGED vars
    BY <1>13 DEF vars
  <1> QED
    BY <1>1, <1>2, <1>3, <1>4, <1>5, <1>6, <1>7, <1>8, <1>9, <1>10, <1>11, <1>12, <1>13
    DEF Next, Call

\* Saves that overlap write the same text (config.Save, under the read lock).
THEOREM OverlappingSavesAgree == Spec => []SavesAgree
  <1>1. SaveInv => SavesAgree
    BY DEF SaveInv
  <1> QED
    BY <1>1, SaveInvInitially, SaveInvInductive, PTL DEF Spec

\* What a save has written is the configuration until the next change or
\* truncation, however calls overlap and fail and whenever the program restarts.
THEOREM SavedFileIsConfig == Spec => []FileIsConfig
  <1>1. SaveInv => FileIsConfig
    BY DEF SaveInv
  <1> QED
    BY <1>1, SaveInvInitially, SaveInvInductive, PTL DEF Spec
-----------------------------------------------------------------------------
(* Types *)

LEMMA ConfigsAreRecords ==
  /\ Nothing \in [Names -> {None}]
  /\ Empty \in Configs
  /\ \A x \in Configs : /\ x.bucket \in [Names -> Entries("bucket") \cup {None}]
                        /\ MySQLDsns(x) \in [Names -> Entries("mysql") \cup {None}]
  BY DEF Nothing, Empty, Configs, MySQLDsns

\* What a call writes.
Written(o) == IF o.act = "add" THEN [type |-> o.kind, value |-> o.value] ELSE None

Set(x, o) == [x EXCEPT ![Section(o.kind)][o.name] = Written(o)]

\* Setting an entry gives a configuration again, and changes nothing else.
LEMMA SetEntry ==
  ASSUME NEW x \in Configs, NEW o \in Ops
  PROVE  /\ Set(x, o) \in Configs
         /\ \A n \in Names :
              /\ Set(x, o).bucket[n] = IF o.kind = "bucket" /\ o.name = n THEN Written(o) ELSE x.bucket[n]
              /\ Set(x, o).db[n] = IF Section(o.kind) = "db" /\ o.name = n THEN Written(o) ELSE x.db[n]
  <1>1. /\ o.kind \in Kinds /\ o.name \in Names
        /\ Written(o) \in Entries(o.kind) \cup {None}
    BY DEF Ops, Entries, Written
  <1> DEFINE e == Written(o)
  <1> HIDE DEF e
  <1>2. CASE o.kind \in {"mysql", "clickhouse"}
    <2>1. e \in Entries("mysql") \cup Entries("clickhouse") \cup {None}
      BY <1>1, <1>2 DEF e
    <2>2. Set(x, o) = [x EXCEPT !.db[o.name] = e]
      BY <1>2 DEF Set, Section, e
    <2> QED
      BY <1>1, <1>2, <2>1, <2>2 DEF Section, Configs, e
  <1>3. CASE o.kind = "bucket"
    <2>1. Set(x, o) = [x EXCEPT !.bucket[o.name] = e]
      BY <1>3 DEF Set, Section, e
    <2> QED
      BY <1>1, <1>3, <2>1 DEF Section, Configs, e
  <1>4. CASE o.kind = "mailbox"
    <2>1. Set(x, o) = [x EXCEPT !.mailbox[o.name] = e]
      BY <1>4 DEF Set, Section, e
    <2> QED
      BY <1>1, <1>4, <2>1 DEF Section, Configs, e
  <1> QED
    BY <1>1, <1>2, <1>3, <1>4 DEF Kinds

LEMMA ChangeSets ==
  ASSUME NEW c \in Callers, NEW o \in Ops, Change(c, o)
  PROVE  config' = Set(config, o)
  BY DEF Change, Set, Written

LEMMA TypeOKInitially == Init => TypeOK
  BY ConfigsAreRecords, ConfigAssumption DEF Init, TypeOK, Nothing

LEMMA TypeOKInductive == TypeOK /\ SaveInv /\ [Next]_vars => TypeOK'
  <1> SUFFICES ASSUME TypeOK, SaveInv, [Next]_vars PROVE TypeOK'
    OBVIOUS
  <1> USE DEF TypeOK, live, program, counters, history
  <1>1. ASSUME NEW c \in Callers, NEW o \in Ops, Change(c, o) PROVE TypeOK'
    <2>1. config' \in Configs
      BY <1>1, SetEntry, ChangeSets
    <2>2. /\ pc' = [pc EXCEPT ![c] = "live"] /\ op' = [op EXCEPT ![c] = o]
          /\ \E T \in SUBSET Instances : todo' = [todo EXCEPT ![c] = T]
      BY <1>1 DEF Change
    <2>3. o.name \in Names /\ Section(o.kind) \in {"db", "bucket", "mailbox"}
      BY DEF Ops, Kinds, Section
    <2>4. missed' \subseteq Names
      BY <1>1, <2>3 DEF Change
    <2>5. raced' \subseteq {"db", "bucket", "mailbox"} \X Names
      BY <1>1, <2>3 DEF Change
    <2>6. UNCHANGED <<file, live, starts, at, snapshot, reading>>
      BY <1>1 DEF Change
    <2> QED
      BY <2>1, <2>2, <2>4, <2>5, <2>6
  <1>2. ASSUME NEW c \in Callers, NEW i \in Instances, Skip(c, i) PROVE TypeOK'
    BY <1>2 DEF Skip
  <1>3. ASSUME NEW c \in Callers, NEW i \in Instances, WriteBegin(c, i) PROVE TypeOK'
    <2>1. <<i, starts[i]>> \in Transports
      BY <1>3, ConfigAssumption DEF WriteBegin, Transports
    <2> QED
      BY <1>3, <2>1 DEF WriteBegin
  <1>4. ASSUME NEW c \in Callers, WriteEnd(c) PROVE TypeOK'
    BY <1>4 DEF WriteEnd, Ops, Entries
  <1>5. ASSUME NEW c \in Callers, Apply(c) PROVE TypeOK'
    BY <1>5 DEF Apply, Ops, Entries
  <1>6. ASSUME NEW c \in Callers, SaveBuild(c) PROVE TypeOK'
    BY <1>6 DEF SaveBuild
  <1>7. ASSUME NEW c \in Callers, SaveOpen(c) PROVE TypeOK'
    BY <1>7 DEF SaveOpen
  <1>8. ASSUME NEW c \in Callers, SaveWrite(c) PROVE TypeOK'
    <2>1. snapshot[c] = config
      BY <1>8 DEF SaveWrite, SaveInv, SavesAgree, SavingNow
    <2> QED
      BY <1>8, <2>1 DEF SaveWrite
  <1>9. ASSUME NEW c \in Callers, SaveFails(c) PROVE TypeOK'
    BY <1>9 DEF SaveFails
  <1>10. ASSUME NEW i \in Instances, StartTransports(i) PROVE TypeOK'
    BY <1>10, ConfigAssumption DEF StartTransports
  <1>11. ASSUME NEW t \in Transports, ReadBegin(t) \/ ReadEnd(t) PROVE TypeOK'
    BY <1>11 DEF ReadBegin, ReadEnd
  <1>12. CASE Crash
    BY <1>12, ConfigsAreRecords, ConfigAssumption DEF Crash
  <1>13. CASE UNCHANGED vars
    BY <1>13 DEF vars
  <1> QED
    BY <1>1, <1>2, <1>3, <1>4, <1>5, <1>6, <1>7, <1>8, <1>9, <1>10, <1>11, <1>12, <1>13
    DEF Next, Call
\* The state of a call, program and configuration is well typed, however calls
\* overlap, fail and are cut off.
THEOREM TypeCorrect == Spec => []TypeOK
  BY TypeOKInitially, TypeOKInductive, SaveInvInitially, SaveInvInductive, PTL DEF Spec

-----------------------------------------------------------------------------
(* The servers and the configuration *)

\* The calls that have still to write entry n.
Pending(s, n) == {c \in Callers : pc[c] \in {"live", "write"} /\ Changes(c, s, n)}

\* A bucket that the DFS server has otherwise than the configuration is about
\* to be told to it.
BucketPart(n) ==
  <<"bucket", n>> \notin raced =>
    /\ \A c \in Pending("bucket", n) : Written(op[c]) = config.bucket[n]
    /\ Pending("bucket", n) = {} => buckets[n] = config.bucket[n]

\* A database that the map has otherwise than the configuration has a call that
\* is writing it or has an instance with a transport still to visit.
DsnPart(n) ==
  n \notin missed /\ <<"db", n>> \notin raced =>
    /\ \A c \in Pending("db", n) : op[c].kind = "mysql" /\ Written(op[c]) = config.db[n]
    /\ \/ dsns[n] = MySQLDsns(config)[n]
       \/ \E c \in Pending("db", n) : pc[c] = "write" \/ \E i \in todo[c] : starts[i] > 0

\* Only a call about a database is passed on to the transports.
Broadcasting == \A c \in Callers : pc[c] = "write" \/ todo[c] # {} => Section(op[c].kind) = "db"

LiveInv ==
  /\ Broadcasting
  /\ \A n \in Names : BucketPart(n) /\ DsnPart(n)

LEMMA LiveInvInitially == Init => LiveInv
  BY DEF Init, LiveInv, Broadcasting, BucketPart, DsnPart, Pending, Empty, Nothing, MySQLDsns, Entries

\* A call that has nothing more to write is not pending, and one that is idle
\* not either, so that LiveInv says of the state at rest what the runs check.
LEMMA LiveWhenQuiet == LiveInv => BucketsLive /\ DsnsLive
  BY DEF LiveInv, BucketPart, DsnPart, Pending, BucketsLive, DsnsLive, Quiet
\* A change of an entry makes its call the only pending one, or the entry one
\* that calls race for; the other entries keep what they had.
LEMMA ChangeKeepsLiveInv ==
  ASSUME TypeOK, LiveInv, NEW c \in Callers, NEW o \in Ops, Change(c, o)
  PROVE  LiveInv'
  <1> DEFINE s == Section(o.kind)
             e == Written(o)
  <1>1. /\ pc[c] = "idle" /\ pc' = [pc EXCEPT ![c] = "live"] /\ op' = [op EXCEPT ![c] = o]
        /\ todo' = [todo EXCEPT ![c] = IF s = "db" /\ e \notin Entries("clickhouse")
                                         THEN Instances ELSE {}]
        /\ dsns' = dsns /\ buckets' = buckets /\ starts' = starts
        /\ config \in Configs
    BY DEF Change, live, TypeOK, Written
  <1>2. /\ config' \in Configs
        /\ \A n \in Names :
             /\ config'.bucket[n] = IF o.kind = "bucket" /\ o.name = n THEN e ELSE config.bucket[n]
             /\ config'.db[n] = IF s = "db" /\ o.name = n THEN e ELSE config.db[n]
    BY <1>1, SetEntry, ChangeSets
  <1>3. /\ o.kind \in Kinds /\ o.name \in Names /\ o.act \in {"add", "remove"}
        /\ o.act = "add" => o.value \in Values
        /\ o.act # "add" => o.kind # "clickhouse"
    BY DEF Ops
  <1>4. /\ (s = "bucket") <=> (o.kind = "bucket")
        /\ (s = "db") <=> (o.kind \in {"mysql", "clickhouse"})
    BY <1>3 DEF Section, Kinds
  <1>5. \A t, n : Pending(t, n)' =
          IF t = s /\ n = o.name THEN Pending(t, n) \cup {c} ELSE Pending(t, n)
    <2>1. pc \in [Callers -> {"idle", "live", "write", "save", "open", "flush"}]
          /\ op \in [Callers -> Ops \cup {None}]
      BY DEF TypeOK
    <2> QED
      BY <1>1, <2>1 DEF Pending, Changes
  <1>6. /\ raced' = IF \E d \in Callers : Changes(d, s, o.name)
                      THEN raced \cup {<<s, o.name>>} ELSE raced \ {<<s, o.name>>}
        /\ missed' = IF s = "db" /\ (e \in Entries("clickhouse") \/ \A i \in Instances : starts[i] = 0)
                       THEN missed \cup {o.name}
                       ELSE IF s = "db" THEN missed \ {o.name} ELSE missed
    BY DEF Change, Written
  <1>7. <<s, o.name>> \notin raced' => Pending(s, o.name) = {}
    BY <1>6 DEF Pending
  <1>8. /\ op'[c] = o /\ pc'[c] = "live"
        /\ \A d \in Callers \ {c} : op'[d] = op[d] /\ pc'[d] = pc[d] /\ todo'[d] = todo[d]
    BY <1>1 DEF TypeOK
  <1>9. \A t, n : \A d \in Pending(t, n) : d \in Callers \ {c}
    BY <1>1 DEF Pending
  <1>10. ASSUME NEW n \in Names PROVE BucketPart(n)'
    <2>1. CASE o.kind = "bucket" /\ n = o.name
      BY <2>1, <1>2, <1>4, <1>5, <1>7, <1>8 DEF BucketPart
    <2>2. CASE ~(o.kind = "bucket" /\ n = o.name)
      <3>1. Pending("bucket", n)' = Pending("bucket", n) /\ config'.bucket[n] = config.bucket[n]
        BY <2>2, <1>2, <1>4, <1>5
      <3>2. <<"bucket", n>> \notin raced' => <<"bucket", n>> \notin raced
        BY <2>2, <1>4, <1>6
      <3> QED
        BY <3>1, <3>2, <1>1, <1>8, <1>9 DEF BucketPart, LiveInv
    <2> QED
      BY <2>1, <2>2
  <1>11. ASSUME NEW n \in Names PROVE DsnPart(n)'
    <2>1. CASE s = "db" /\ n = o.name
      <3> SUFFICES ASSUME n \notin missed', <<"db", n>> \notin raced'
                   PROVE  /\ \A d \in Pending("db", n)' :
                               op'[d].kind = "mysql" /\ Written(op'[d]) = config'.db[n]
                          /\ \E d \in Pending("db", n)' : \E i \in todo'[d] : starts'[i] > 0
        BY DEF DsnPart
      <3>1. e \notin Entries("clickhouse") /\ \E i \in Instances : starts[i] # 0
        BY <1>6, <2>1
      <3>2. o.kind = "mysql"
        BY <3>1, <1>3, <1>4, <2>1 DEF Entries, Written
      <3>3. Pending("db", n)' = {c}
        BY <1>5, <1>7, <2>1
      <3>4. \E i \in todo'[c] : starts'[i] > 0
        BY <3>1, <1>1, <2>1, ConfigAssumption DEF TypeOK
      <3> QED
        BY <3>2, <3>3, <3>4, <1>2, <1>8, <2>1
    <2>2. CASE ~(s = "db" /\ n = o.name)
      <3>1. Pending("db", n)' = Pending("db", n) /\ config'.db[n] = config.db[n]
        BY <2>2, <1>2, <1>5
      <3>2. /\ <<"db", n>> \notin raced' => <<"db", n>> \notin raced
            /\ n \notin missed' => n \notin missed
        BY <2>2, <1>6
      <3>3. MySQLDsns(config')[n] = MySQLDsns(config)[n]
        BY <3>1 DEF MySQLDsns
      <3> QED
        BY <3>1, <3>2, <3>3, <1>1, <1>8, <1>9 DEF DsnPart, LiveInv
    <2> QED
      BY <2>1, <2>2
  <1>12. Broadcasting'
    BY <1>1, <1>8 DEF Broadcasting, LiveInv, TypeOK
  <1> QED
    BY <1>10, <1>11, <1>12 DEF LiveInv
LEMMA LiveInvInductive == TypeOK /\ SaveInv /\ LiveInv /\ [Next]_vars => LiveInv'
  <1> SUFFICES ASSUME TypeOK, SaveInv, LiveInv, [Next]_vars PROVE LiveInv'
    OBVIOUS
  <1> USE DEF live, program, counters, history
  <1>T. /\ pc \in [Callers -> {"idle", "live", "write", "save", "open", "flush"}]
        /\ op \in [Callers -> Ops \cup {None}] /\ todo \in [Callers -> SUBSET Instances]
        /\ \A c \in Callers : pc[c] # "idle" => op[c] \in Ops
        /\ starts \in [Instances -> 0 .. MaxStarts]
        /\ dsns \in [Names -> Entries("mysql") \cup {None}]
        /\ buckets \in [Names -> Entries("bucket") \cup {None}]
    BY DEF TypeOK
  \* Steps that leave alone what LiveInv speaks of, but for the place of a call
  \* that stays pending or stays not pending, and for a later start.
  <1>U. ASSUME UNCHANGED <<config, live, op, missed, raced>>,
               \A c \in Callers :
                 /\ pc'[c] \in {"live", "write"} <=> pc[c] \in {"live", "write"}
                 /\ pc'[c] = "write" \/ todo'[c] # {} => pc[c] = "write" \/ todo[c] # {}
                 /\ pc[c] = "write" \/ (\E i \in todo[c] : starts[i] > 0) =>
                      pc'[c] = "write" \/ (\E i \in todo'[c] : starts'[i] > 0)
        PROVE  LiveInv'
    <2>1. \A s, n : Pending(s, n)' = Pending(s, n)
      BY <1>U DEF Pending, Changes
    <2>2. \A s, n : Pending(s, n) \subseteq Callers
      BY DEF Pending
    <2>3. MySQLDsns(config)' = MySQLDsns(config)
      BY <1>U
    <2>4. Broadcasting'
      BY <1>U DEF LiveInv, Broadcasting
    <2>5. ASSUME NEW n \in Names PROVE BucketPart(n)'
      BY <1>U, <2>1, <2>2 DEF LiveInv, BucketPart
    <2>6. ASSUME NEW n \in Names PROVE DsnPart(n)'
      <3> SUFFICES ASSUME n \notin missed, <<"db", n>> \notin raced PROVE DsnPart(n)'
        BY <1>U DEF DsnPart
      <3>1. \A d \in Pending("db", n) : op[d].kind = "mysql" /\ Written(op[d]) = config.db[n]
        BY DEF LiveInv, DsnPart
      <3>2. \/ dsns[n] = MySQLDsns(config)[n]
            \/ \E d \in Pending("db", n) : pc'[d] = "write" \/ \E i \in todo'[d] : starts'[i] > 0
        BY <1>U, <2>2 DEF LiveInv, DsnPart
      <3> QED
        BY <1>U, <2>1, <2>3, <3>1, <3>2 DEF DsnPart
    <2> QED
      BY <2>4, <2>5, <2>6 DEF LiveInv
  <1>1. ASSUME NEW c \in Callers, NEW o \in Ops, Change(c, o) PROVE LiveInv'
    BY <1>1, ChangeKeepsLiveInv
  <1>2. ASSUME NEW c \in Callers, NEW i \in Instances, Skip(c, i) PROVE LiveInv'
    BY <1>2, <1>T, <1>U DEF Skip
  <1>3. ASSUME NEW c \in Callers, NEW i \in Instances, WriteBegin(c, i) PROVE LiveInv'
    BY <1>3, <1>T, <1>U DEF WriteBegin
  <1>4. ASSUME NEW c \in Callers, WriteEnd(c) PROVE LiveInv'
    <2>1. /\ pc[c] = "write" /\ pc' = [pc EXCEPT ![c] = "live"] /\ op[c] \in Ops /\ op[c].name \in Names
          /\ dsns' = [dsns EXCEPT ![op[c].name] =
                IF op[c].act = "add" THEN [type |-> "mysql", value |-> op[c].value] ELSE None]
          /\ UNCHANGED <<config, buckets, starts, op, todo, missed, raced>>
      BY <1>4, <1>T DEF WriteEnd, Ops
    <2>2. \A s, n : Pending(s, n)' = Pending(s, n)
      BY <2>1, <1>T DEF Pending, Changes
    <2>3. \A s, n : \A d \in Pending(s, n) : d \in Callers
      BY DEF Pending
    <2>4. MySQLDsns(config)' = MySQLDsns(config)
      BY <2>1
    <2>5. ASSUME NEW n \in Names PROVE BucketPart(n)'
      BY <2>1, <2>2, <2>3 DEF LiveInv, BucketPart
    <2>6. ASSUME NEW n \in Names, n \notin missed, <<"db", n>> \notin raced
          PROVE  \/ dsns'[n] = MySQLDsns(config)[n]
                 \/ \E d \in Pending("db", n) : pc'[d] = "write" \/ \E i \in todo[d] : starts[i] > 0
      <3>1. CASE Section(op[c].kind) = "db" /\ op[c].name = n
        <4>1. c \in Pending("db", n)
          BY <2>1, <3>1 DEF Pending, Changes
        <4>2. op[c].kind = "mysql" /\ Written(op[c]) = config.db[n]
          BY <2>6, <4>1 DEF LiveInv, DsnPart
        <4>3. Written(op[c]) = None \/ Written(op[c]) \in Entries("mysql")
          BY <2>1, <4>2 DEF Written, Ops, Entries
        <4>4. dsns'[n] = Written(op[c])
          BY <2>1, <3>1, <4>2, <1>T DEF Written
        <4> QED
          BY <4>2, <4>3, <4>4 DEF MySQLDsns
      <3>2. CASE Section(op[c].kind) = "db" /\ op[c].name # n
        <4>1. dsns'[n] = dsns[n] /\ c \notin Pending("db", n)
          BY <2>1, <3>2, <1>T DEF Pending, Changes
        <4>2. \A d \in Pending("db", n) : pc'[d] = pc[d]
          BY <2>1, <2>3, <4>1, <1>T
        <4> QED
          BY <2>6, <4>1, <4>2 DEF LiveInv, DsnPart
      <3>3. Section(op[c].kind) = "db"
        BY <2>1 DEF LiveInv, Broadcasting
      <3> QED
        BY <3>1, <3>2, <3>3
    <2>7. ASSUME NEW n \in Names PROVE DsnPart(n)'
      <3> SUFFICES ASSUME n \notin missed, <<"db", n>> \notin raced PROVE DsnPart(n)'
        BY <2>1 DEF DsnPart
      <3>1. \A d \in Pending("db", n) : op[d].kind = "mysql" /\ Written(op[d]) = config.db[n]
        BY DEF LiveInv, DsnPart
      <3> QED
        BY <2>1, <2>2, <2>4, <2>6, <3>1 DEF DsnPart
    <2>8. Broadcasting'
      BY <2>1, <1>T DEF LiveInv, Broadcasting
    <2> QED
      BY <2>5, <2>7, <2>8 DEF LiveInv
  <1>5. ASSUME NEW c \in Callers, Apply(c) PROVE LiveInv'
    <2>1. /\ pc[c] = "live" /\ todo[c] = {} /\ pc' = [pc EXCEPT ![c] = "save"]
          /\ op[c] \in Ops /\ op[c].name \in Names
          /\ UNCHANGED <<config, dsns, starts, op, todo, missed, raced>>
      BY <1>5, <1>T DEF Apply, Ops
    <2>2. buckets' = IF op[c].kind = "bucket"
                       THEN [buckets EXCEPT ![op[c].name] = Written(op[c])] ELSE buckets
      BY <1>5 DEF Apply, Written
    <2>3. \A s, n : /\ Pending(s, n)' = Pending(s, n) \ {c}
                    /\ Pending(s, n) \subseteq Callers
      BY <2>1, <1>T DEF Pending, Changes
    <2>4. \A d \in Callers \ {c} : pc'[d] = pc[d]
      BY <2>1, <1>T
    <2>5. ASSUME NEW n \in Names PROVE BucketPart(n)'
      <3> SUFFICES ASSUME <<"bucket", n>> \notin raced PROVE BucketPart(n)'
        BY <2>1 DEF BucketPart
      <3>1. \A d \in Pending("bucket", n) : Written(op[d]) = config.bucket[n]
        BY DEF LiveInv, BucketPart
      <3>2. CASE c \in Pending("bucket", n)
        <4>1. op[c].kind = "bucket" /\ op[c].name = n
          BY <2>1, <3>2 DEF Pending, Changes, Section, Ops, Kinds
        <4>2. buckets'[n] = config.bucket[n]
          BY <2>2, <3>1, <3>2, <4>1, <1>T
        <4> QED
          BY <2>1, <2>3, <3>1, <4>2 DEF BucketPart
      <3>3. CASE c \notin Pending("bucket", n)
        <4>1. ~(op[c].kind = "bucket" /\ op[c].name = n)
          BY <2>1, <3>3 DEF Pending, Changes, Section
        <4>2. buckets'[n] = buckets[n]
          BY <2>1, <2>2, <4>1, <1>T
        <4>3. Pending("bucket", n) = {} => buckets[n] = config.bucket[n]
          BY DEF LiveInv, BucketPart
        <4> QED
          BY <2>1, <2>3, <3>1, <3>3, <4>2, <4>3 DEF BucketPart
      <3> QED
        BY <3>2, <3>3
    <2>6. ASSUME NEW n \in Names PROVE DsnPart(n)'
      <3> SUFFICES ASSUME n \notin missed, <<"db", n>> \notin raced PROVE DsnPart(n)'
        BY <2>1 DEF DsnPart
      <3>1. \A d \in Pending("db", n) : op[d].kind = "mysql" /\ Written(op[d]) = config.db[n]
        BY DEF LiveInv, DsnPart
      <3>2. \/ dsns[n] = MySQLDsns(config)[n]
            \/ \E d \in Pending("db", n) \ {c} : pc'[d] = "write" \/ \E i \in todo[d] : starts[i] > 0
        BY <2>1, <2>3, <2>4 DEF LiveInv, DsnPart
      <3> QED
        BY <2>1, <2>3, <3>1, <3>2 DEF DsnPart
    <2>7. Broadcasting'
      BY <2>1, <1>T DEF LiveInv, Broadcasting
    <2> QED
      BY <2>5, <2>6, <2>7 DEF LiveInv
  <1>6. ASSUME NEW c \in Callers, SaveBuild(c) PROVE LiveInv'
    BY <1>6, <1>U, <1>T DEF SaveBuild
  <1>7. ASSUME NEW c \in Callers, SaveOpen(c) PROVE LiveInv'
    BY <1>7, <1>U, <1>T DEF SaveOpen
  <1>8. ASSUME NEW c \in Callers, SaveWrite(c) PROVE LiveInv'
    BY <1>8, <1>U, <1>T DEF SaveWrite
  <1>9. ASSUME NEW c \in Callers, SaveFails(c) PROVE LiveInv'
    BY <1>9, <1>U, <1>T DEF SaveFails
  <1>10. ASSUME NEW i \in Instances, StartTransports(i) PROVE LiveInv'
    BY <1>10, <1>U, <1>T, ConfigAssumption DEF StartTransports
  <1>11. ASSUME NEW t \in Transports, ReadBegin(t) \/ ReadEnd(t) PROVE LiveInv'
    BY <1>11, <1>U DEF ReadBegin, ReadEnd
  <1>12. CASE Crash
    <2>1. \A s, n : Pending(s, n)' = {}
      BY <1>12 DEF Crash, Pending, Changes
    <2>2. Broadcasting'
      BY <1>12 DEF Crash, Broadcasting
    <2>3. dsns' = MySQLDsns(config') /\ buckets' = config'.bucket
      BY <1>12 DEF Crash
    <2> QED
      BY <2>1, <2>2, <2>3 DEF LiveInv, BucketPart, DsnPart
  <1>13. CASE UNCHANGED vars
    BY <1>13, <1>U DEF vars
  <1> QED
    BY <1>1, <1>2, <1>3, <1>4, <1>5, <1>6, <1>7, <1>8, <1>9, <1>10, <1>11, <1>12, <1>13
    DEF Next, Call

\* The DFS server has the buckets of the configuration whenever no call is in
\* flight, but for one that two calls changed at once (AddBucket, RemoveBucket
\* after the setters of config.go).
THEOREM BucketsAreLive == Spec => []BucketsLive
  BY LiveInvInitially, LiveInvInductive, LiveWhenQuiet, TypeOKInitially, TypeOKInductive,
     SaveInvInitially, SaveInvInductive, PTL DEF Spec

\* The broadcaster leaves the transports' map with the MySQL databases of the
\* configuration, for any number of instances, started at any time.
THEOREM DsnsAreLive == Spec => []DsnsLive
  BY LiveInvInitially, LiveInvInductive, LiveWhenQuiet, TypeOKInitially, TypeOKInductive,
     SaveInvInitially, SaveInvInductive, PTL DEF Spec
=============================================================================
