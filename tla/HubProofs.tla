----------------------------- MODULE HubProofs ------------------------------
(***************************************************************************)
(* What holds of the hub for any number of sources and clients, and any    *)
(* capacities: its only panic is the second close of a client that         *)
(* broadcast has dropped; and between the backlog of a page and its live   *)
(* feed there is no gap.                                                   *)
(***************************************************************************)
EXTENDS Hub, SequenceTheorems, TLAPS

\* Who may close a queue, and when: a listed client has a reader in its loop
\* and was not dropped, and a closed queue was closed by broadcast or by a
\* reader that has ended.
CloseInv ==
  /\ clients \subseteq Clients /\ dropped \subseteq Clients
  /\ conn \in [Clients -> {"none", "open", "broken"}]
  /\ reader \in [Clients -> {"none", "read", "backlog", "leave", "done"}]
  /\ \A c \in Clients : conn[c] = "none" => reader[c] = "none"
  /\ \A c \in clients : reader[c] \in {"read", "backlog"} /\ c \notin dropped
  /\ \A c \in dropped : conn[c] # "none"
  /\ \A c \in closed : c \in dropped \/ (c \in Clients /\ reader[c] = "done")
  /\ PanicOnlyAfterDrop

\* A broadcast keeps CloseInv, whatever it sends.
LEMMA BroadcastKeepsCloseInv ==
  ASSUME CloseInv, NEW m, Broadcast(m), UNCHANGED <<conn, reader>>
  PROVE  CloseInv'
  <1>1. /\ closed' = closed \cup {c \in clients : Full(c)}
        /\ clients' = clients \ {c \in clients : Full(c)}
        /\ dropped' = dropped \cup {c \in clients : Full(c)}
        /\ panicked' = (clients \cap closed # {})
    BY DEF Broadcast
  <1>2. clients \cap closed = {}
    BY DEF CloseInv
  <1>3. ~panicked'
    BY <1>1, <1>2
  <1>4. /\ clients' \subseteq Clients /\ dropped' \subseteq Clients
        /\ \A c \in clients' : reader[c] \in {"read", "backlog"} /\ c \notin dropped'
        /\ \A c \in dropped' : conn[c] # "none"
        /\ \A c \in closed' : c \in dropped' \/ (c \in Clients /\ reader[c] = "done")
    BY <1>1 DEF CloseInv
  <1> QED
    BY <1>3, <1>4 DEF CloseInv, PanicOnlyAfterDrop

LEMMA CloseInvInitially == Init => CloseInv
  BY DEF Init, CloseInv, PanicOnlyAfterDrop

\* The sources, the subscription and the writers have nothing to do with the
\* map of clients; the reader removes its client before it closes the queue.
LEMMA CloseInvInductive == CloseInv /\ [Next]_vars => CloseInv'
  <1> SUFFICES ASSUME CloseInv, [Next]_vars PROVE CloseInv'
    OBVIOUS
  <1> USE DEF store, hub, queues, links, history
  <1>1. ASSUME NEW a \in Sources, Store(a) PROVE CloseInv'
    BY <1>1 DEF CloseInv, PanicOnlyAfterDrop, Store
  <1>2. ASSUME NEW a \in Sources, Deliver(a) PROVE CloseInv'
    BY <1>2 DEF CloseInv, PanicOnlyAfterDrop, Deliver
  <1>3. CASE Subscribe
    BY <1>3 DEF CloseInv, PanicOnlyAfterDrop, Subscribe
  <1>4. CASE Take
    BY <1>4 DEF CloseInv, PanicOnlyAfterDrop, Take
  <1>5. CASE Forward
    BY <1>5, BroadcastKeepsCloseInv DEF Forward
  <1>6. CASE ServiceEvent
    BY <1>6, BroadcastKeepsCloseInv DEF ServiceEvent
  <1>7. ASSUME NEW c \in Clients, Connect(c) PROVE CloseInv'
    BY <1>7 DEF CloseInv, PanicOnlyAfterDrop, Connect
  <1>8. ASSUME NEW c \in Clients, PeerGone(c) PROVE CloseInv'
    BY <1>8 DEF CloseInv, PanicOnlyAfterDrop, PeerGone
  <1>9. ASSUME NEW c \in Clients, Write(c) PROVE CloseInv'
    BY <1>9 DEF CloseInv, PanicOnlyAfterDrop, Write
  <1>10. ASSUME NEW c \in Clients, WriterEnds(c) PROVE CloseInv'
    <2>1. reader[c] # "none" \/ c \in dropped
      BY <1>10 DEF CloseInv, WriterEnds
    <2> QED
      BY <1>10, <2>1 DEF CloseInv, PanicOnlyAfterDrop, WriterEnds
  <1>11. ASSUME NEW c \in Clients, Ask(c) PROVE CloseInv'
    BY <1>11 DEF CloseInv, PanicOnlyAfterDrop, Ask
  <1>12. ASSUME NEW c \in Clients, Backlog(c) PROVE CloseInv'
    <2>1. c \in closed => c \in dropped
      BY <1>12 DEF CloseInv, Backlog
    <2> QED
      BY <1>12, <2>1 DEF CloseInv, PanicOnlyAfterDrop, Backlog
  <1>13. ASSUME NEW c \in Clients, BacklogDone(c) PROVE CloseInv'
    BY <1>13 DEF CloseInv, PanicOnlyAfterDrop, BacklogDone
  <1>14. ASSUME NEW c \in Clients, ReaderFails(c) PROVE CloseInv'
    BY <1>14 DEF CloseInv, PanicOnlyAfterDrop, ReaderFails
  <1>15. ASSUME NEW c \in Clients, ReaderCloses(c) PROVE CloseInv'
    <2>1. c \notin clients /\ (c \in closed => c \in dropped)
      BY <1>15 DEF CloseInv, ReaderCloses
    <2> QED
      BY <1>15, <2>1 DEF CloseInv, PanicOnlyAfterDrop, ReaderCloses
  <1>16. CASE UNCHANGED vars
    BY <1>16 DEF CloseInv, PanicOnlyAfterDrop, vars
  <1> QED
    BY <1>1, <1>2, <1>3, <1>4, <1>5, <1>6, <1>7, <1>8, <1>9, <1>10, <1>11, <1>12,
       <1>13, <1>14, <1>15, <1>16
    DEF Next, ClientStep, WriterStep, ReaderStep

\* The program ends in a panic only after broadcast has dropped a client as too
\* slow (webui/websocket.go: no other order of the hub's goroutines closes a
\* queue twice or sends to a closed one).
THEOREM PanicNeedsSlowClient == Spec => []PanicOnlyAfterDrop
  <1>1. CloseInv => PanicOnlyAfterDrop
    BY DEF CloseInv
  <1> QED
    BY <1>1, CloseInvInitially, CloseInvInductive, PTL DEF Spec
-----------------------------------------------------------------------------
(* Types and capacities *)

LEMMA PushType ==
  ASSUME NEW w \in Seq(Stored), NEW e \in Stored, Len(w) <= StoreSize
  PROVE  Log!Push(w, e) \in Seq(Stored) /\ Len(Log!Push(w, e)) <= StoreSize
  <1>1. StoreSize \in Nat /\ StoreSize >= 1
    BY HubAssumption
  <1> QED
    BY <1>1 DEF Log!Push

LEMMA LastOfType ==
  ASSUME NEW w \in Seq(Stored)
  PROVE  /\ Log!LastOf(w, BacklogSize) \in Seq(Stored)
         /\ Len(Log!LastOf(w, BacklogSize)) <= BacklogSize
  <1>1. BacklogSize \in Nat \ {0}
    BY HubAssumption
  <1> QED
    BY <1>1, SubSeqProperties DEF Log!LastOf

LEMMA BroadcastKeepsTypes ==
  ASSUME TypeOK, NEW m \in Stored \cup {Event}, Broadcast(m)
  PROVE  /\ clients' \subseteq Clients /\ closed' \subseteq Clients /\ dropped' \subseteq Clients
         /\ send' \in [Clients -> Seq(Stored \cup {Event})]
         /\ \A c \in Clients : Len(send'[c]) <= SendCap
         /\ panicked' \in BOOLEAN
  <1>1. SendCap \in Nat
    BY HubAssumption
  <1> QED
    BY <1>1 DEF TypeOK, Broadcast, Full

LEMMA TypeOKInitially == Init => TypeOK
  <1>1. /\ <<>> \in Seq(Stored) /\ <<>> \in Seq(Stored \cup {Event}) /\ Len(<<>>) = 0
        /\ 0 <= StoreSize /\ 0 <= FeedCap /\ 0 <= SendCap /\ 0 <= BacklogSize
        /\ 0 \in 0 .. MaxEvents /\ 0 \in 0 .. MaxAsks
    BY HubAssumption
  <1> SUFFICES ASSUME Init PROVE TypeOK
    OBVIOUS
  <1>2. /\ window \in Seq(Stored) /\ Len(window) <= StoreSize
        /\ feed \in Seq(Stored) /\ Len(feed) <= FeedCap
    BY <1>1 DEF Init
  <1>3. /\ send \in [Clients -> Seq(Stored \cup {Event})] /\ todo \in [Clients -> Seq(Stored)]
        /\ \A c \in Clients : Len(send[c]) <= SendCap /\ Len(todo[c]) <= BacklogSize
    BY <1>1 DEF Init
  <1>4. /\ added \in [Sources -> Nat] /\ pending \in [Sources -> Stored \cup {NoEntry}]
        /\ events \in 0 .. MaxEvents /\ asks \in [Clients -> 0 .. MaxAsks]
    BY <1>1 DEF Init
  <1>5. /\ lost \in [Clients -> SUBSET Stored] /\ seen \in [Clients -> SUBSET Stored]
        /\ before \in [Clients -> SUBSET Stored]
    BY DEF Init
  <1> QED
    BY <1>2, <1>3, <1>4, <1>5 DEF Init, TypeOK

\* An entry that is lost joins what some clients will not get.
LEMMA LoseType ==
  ASSUME NEW e \in Stored, lost \in [Clients -> SUBSET Stored], Lose(e)
  PROVE  lost' \in [Clients -> SUBSET Stored]
  <1>1. \A c \in Clients : lost[c] \cup {e} \in SUBSET Stored /\ lost[c] \in SUBSET Stored
    OBVIOUS
  <1> QED
    BY <1>1 DEF Lose

\* What leaves a queue and what joins it.
LEMMA HeadTailType ==
  ASSUME NEW S, NEW q \in Seq(S), q # <<>>
  PROVE  Head(q) \in S /\ Tail(q) \in Seq(S) /\ Len(Tail(q)) = Len(q) - 1 /\ Len(q) \in Nat
  OBVIOUS

LEMMA MissingType == \A q : Missing(q) \subseteq Entry /\ Entry \subseteq Stored
  BY HubAssumption DEF Missing, Entry, Stored

LEMMA TypeOKInductive == TypeOK /\ [Next]_vars => TypeOK'
  <1> SUFFICES ASSUME TypeOK, [Next]_vars PROVE TypeOK'
    OBVIOUS
  <1> USE HubAssumption DEF store, hub, queues, links, history
  <1>1. ASSUME NEW a \in Sources, Store(a) PROVE TypeOK'
    <2>1. [by |-> a, no |-> added[a] + 1] \in Stored
      BY DEF TypeOK, Stored
    <2>2. /\ \E e \in Stored : window' = Log!Push(window, e)
          /\ added' = [added EXCEPT ![a] = @ + 1]
          /\ UNCHANGED <<subscribed, hub, queues, links, panicked, dropped, seen, before>>
      BY <1>1, <2>1 DEF Store
    <2>3. pending' \in [Sources -> Stored \cup {NoEntry}] /\ lost' \in [Clients -> SUBSET Stored]
      <3> DEFINE e == [by |-> a, no |-> added[a] + 1]
      <3>1. CASE subscribed
        BY <1>1, <2>1, <3>1 DEF Store, TypeOK
      <3>2. CASE ~subscribed
        <4>1. Lose(e) /\ pending' = pending
          BY <1>1, <3>2 DEF Store
        <4> QED
          BY <2>1, <4>1, LoseType DEF TypeOK
      <3> QED
        BY <3>1, <3>2
    <2>4. window' \in Seq(Stored) /\ Len(window') <= StoreSize
      BY <2>2, PushType DEF TypeOK
    <2>5. added' \in [Sources -> Nat]
      BY <2>2 DEF TypeOK
    <2> QED
      BY <2>2, <2>3, <2>4, <2>5 DEF TypeOK
  <1>2. ASSUME NEW a \in Sources, Deliver(a) PROVE TypeOK'
    <2>1. pending[a] \in Stored /\ Len(feed) \in Nat
      BY <1>2 DEF Deliver, TypeOK
    <2>2. feed' \in Seq(Stored) /\ Len(feed') <= FeedCap
      <3>1. feed \in Seq(Stored) /\ Len(feed) <= FeedCap /\ FeedCap \in Nat
        BY DEF TypeOK
      <3>2. feed' = feed \/ (Len(feed) < FeedCap /\ feed' = Append(feed, pending[a]))
        BY <1>2 DEF Deliver
      <3> QED
        BY <2>1, <3>1, <3>2
    <2>3. lost' \in [Clients -> SUBSET Stored]
      <3>1. lost' = lost \/ Lose(pending[a])
        BY <1>2 DEF Deliver
      <3> QED
        BY <2>1, <3>1, LoseType DEF TypeOK
    <2> QED
      BY <1>2, <2>2, <2>3 DEF Deliver, TypeOK
  <1>3. CASE Subscribe
    BY <1>3 DEF TypeOK, Subscribe
  <1>4. CASE Take
    BY <1>4 DEF TypeOK, Take
  <1>5. CASE Forward
    BY <1>5, BroadcastKeepsTypes DEF TypeOK, Forward
  <1>6. CASE ServiceEvent
    BY <1>6, BroadcastKeepsTypes, SMTT(30) DEF TypeOK, ServiceEvent
  <1>7. ASSUME NEW c \in Clients, Connect(c) PROVE TypeOK'
    BY <1>7 DEF TypeOK, Connect
  <1>8. ASSUME NEW c \in Clients, PeerGone(c) PROVE TypeOK'
    BY <1>8 DEF TypeOK, PeerGone
  <1>9. ASSUME NEW c \in Clients, Write(c) PROVE TypeOK'
    <2>1. /\ send' = [send EXCEPT ![c] = Tail(@)]
          /\ Tail(send[c]) \in Seq(Stored \cup {Event}) /\ Len(Tail(send[c])) <= SendCap
      BY <1>9, HeadTailType DEF Write, TypeOK
    <2>2. seen' \in [Clients -> SUBSET Stored] /\ writer' \in [Clients -> {"none", "range", "done"}]
      <3>1. \/ seen' = [seen EXCEPT ![c] = @ \cup ({Head(send[c])} \cap Entry)] /\ writer' = writer
            \/ seen' = seen /\ writer' = [writer EXCEPT ![c] = "done"]
        BY <1>9 DEF Write
      <3>2. seen[c] \cup ({Head(send[c])} \cap Entry) \in SUBSET Stored
        BY MissingType DEF TypeOK
      <3>3. seen \in [Clients -> SUBSET Stored] /\ writer \in [Clients -> {"none", "range", "done"}]
        BY DEF TypeOK
      <3> QED
        BY <3>1, <3>2, <3>3
    <2>3. UNCHANGED <<store, hub, closed, conn, reader, todo, asks, panicked, dropped, lost, before>>
      BY <1>9 DEF Write
    <2> QED
      BY <2>1, <2>2, <2>3 DEF TypeOK
  <1>10. ASSUME NEW c \in Clients, WriterEnds(c) PROVE TypeOK'
    BY <1>10 DEF TypeOK, WriterEnds
  <1>11. ASSUME NEW c \in Clients, Ask(c) PROVE TypeOK'
    <2>1. /\ todo' = [todo EXCEPT ![c] = Log!LastOf(window, BacklogSize)]
          /\ asks' = [asks EXCEPT ![c] = @ + 1] /\ asks[c] < MaxAsks
          /\ reader' = [reader EXCEPT ![c] = "backlog"]
          /\ UNCHANGED <<store, hub, queues, conn, writer, panicked, dropped, lost, seen>>
      BY <1>11 DEF Ask
    <2>2. before' \in [Clients -> SUBSET Stored]
      BY <1>11, MissingType DEF Ask, TypeOK
    <2>3. todo' \in [Clients -> Seq(Stored)] /\ \A d \in Clients : Len(todo'[d]) <= BacklogSize
      BY <2>1, LastOfType DEF TypeOK
    <2> QED
      BY <2>1, <2>2, <2>3, SMTT(30) DEF TypeOK
  <1>12. ASSUME NEW c \in Clients, Backlog(c) PROVE TypeOK'
    <2>1. /\ todo' = [todo EXCEPT ![c] = Tail(@)]
          /\ Head(todo[c]) \in Stored
          /\ Tail(todo[c]) \in Seq(Stored) /\ Len(Tail(todo[c])) <= BacklogSize
      BY <1>12, HeadTailType DEF Backlog, TypeOK
    <2>2. send' \in [Clients -> Seq(Stored \cup {Event})] /\ \A d \in Clients : Len(send'[d]) <= SendCap
      <3>1. send' = send \/ (~Full(c) /\ send' = [send EXCEPT ![c] = Append(@, Head(todo[c]))])
        BY <1>12 DEF Backlog
      <3>2. send[c] \in Seq(Stored \cup {Event}) /\ SendCap \in Nat
        BY DEF TypeOK
      <3>3. ~Full(c) => /\ Append(send[c], Head(todo[c])) \in Seq(Stored \cup {Event})
                        /\ Len(Append(send[c], Head(todo[c]))) <= SendCap
        BY <2>1, <3>2 DEF Full
      <3> QED
        BY <3>1, <3>3, ZenonT(30) DEF TypeOK
    <2>3. lost' \in [Clients -> SUBSET Stored] /\ panicked' \in BOOLEAN
      <3>1. lost' = lost \/ lost' = [lost EXCEPT ![c] = @ \cup {Head(todo[c])}]
        BY <1>12 DEF Backlog
      <3>2. lost[c] \cup {Head(todo[c])} \in SUBSET Stored
        BY <2>1 DEF TypeOK
      <3>3. panicked' \in BOOLEAN
        BY <1>12 DEF Backlog
      <3>4. lost \in [Clients -> SUBSET Stored]
        BY DEF TypeOK
      <3> QED
        BY <3>1, <3>2, <3>3, <3>4
    <2>4. UNCHANGED <<store, hub, closed, conn, writer, reader, asks, dropped, seen, before>>
      BY <1>12 DEF Backlog
    <2> QED
      BY <2>1, <2>2, <2>3, <2>4 DEF TypeOK
  <1>13. ASSUME NEW c \in Clients, BacklogDone(c) PROVE TypeOK'
    BY <1>13 DEF TypeOK, BacklogDone
  <1>14. ASSUME NEW c \in Clients, ReaderFails(c) PROVE TypeOK'
    BY <1>14 DEF TypeOK, ReaderFails
  <1>15. ASSUME NEW c \in Clients, ReaderCloses(c) PROVE TypeOK'
    BY <1>15, SMTT(30) DEF TypeOK, ReaderCloses
  <1>16. CASE UNCHANGED vars
    BY <1>16 DEF TypeOK, vars
  <1> QED
    BY <1>1, <1>2, <1>3, <1>4, <1>5, <1>6, <1>7, <1>8, <1>9, <1>10, <1>11, <1>12,
       <1>13, <1>14, <1>15, <1>16
    DEF Next, ClientStep, WriterStep, ReaderStep

\* The queues, the feed and the backlogs keep to the capacities of the code, for
\* any number of sources and clients.
THEOREM TypeCorrect == Spec => []TypeOK
  BY TypeOKInitially, TypeOKInductive, PTL DEF Spec
-----------------------------------------------------------------------------
(* Between the backlog and the live feed *)

In(e, q) == \E i \in DOMAIN q : q[i] = e

Added == {e \in Entry : e.no <= added[e.by]}

\* The entry has reached the client, is on its way to it, or will not.
Reaches(c, e) ==
  \/ e \in seen[c] \cup before[c] \cup lost[c]
  \/ In(e, send[c]) \/ In(e, todo[c]) \/ In(e, feed)
  \/ hand = e \/ \E a \in Sources : pending[a] = e

Listening(c) == c \in clients /\ conn[c] = "open" /\ asks[c] > 0

\* A client asks after it has connected, and asks again only when its last
\* backlog is queued.
MissInv ==
  /\ \A c \in Clients : conn[c] = "none" => asks[c] = 0
  /\ \A c \in Clients : reader[c] \in {"none", "read"} => todo[c] = <<>>
  /\ \A c \in Clients : Listening(c) => \A e \in Added : Reaches(c, e)

LEMMA InAppend ==
  ASSUME NEW S, NEW q \in Seq(S), NEW m \in S
  PROVE  \A e : In(e, q) \/ e = m => In(e, Append(q, m))
  <1>1. /\ Len(Append(q, m)) = Len(q) + 1 /\ Append(q, m)[Len(q) + 1] = m
        /\ \A j \in 1 .. Len(q) : Append(q, m)[j] = q[j]
        /\ DOMAIN q = 1 .. Len(q) /\ DOMAIN Append(q, m) = 1 .. Len(q) + 1
        /\ Len(q) \in Nat
    OBVIOUS
  <1> QED
    BY <1>1 DEF In

LEMMA InTail ==
  ASSUME NEW S, NEW q \in Seq(S), q # <<>>
  PROVE  \A e : In(e, q) => e = Head(q) \/ In(e, Tail(q))
  <1> SUFFICES ASSUME NEW e, NEW j \in DOMAIN q, q[j] = e, e # Head(q)
               PROVE  In(e, Tail(q))
    BY DEF In
  <1>1. /\ Len(Tail(q)) = Len(q) - 1 /\ Len(q) \in Nat /\ j \in 1 .. Len(q) /\ j # 1
        /\ DOMAIN Tail(q) = 1 .. Len(q) - 1
        /\ \A k \in 1 .. Len(q) - 1 : Tail(q)[k] = q[k + 1]
    OBVIOUS
  <1>2. j - 1 \in DOMAIN Tail(q) /\ Tail(q)[j - 1] = e
    BY <1>1
  <1> QED
    BY <1>2 DEF In

LEMMA MissInvIsNothingMissed == TypeOK /\ MissInv => NothingMissed
  <1>1. Missing(<<>>) = Added
    BY DEF Missing, Added
  <1> QED
    BY <1>1 DEF NothingMissed, MissInv, Listening, Reaches, Queued, InTransit, In, TypeOK

LEMMA MissInvInitially == Init => MissInv
  BY DEF Init, MissInv, Listening

\* What a listed client was to get it gets after a broadcast too: its queue has
\* room, for it would not be listed otherwise, and is not closed.
LEMMA BroadcastReaches ==
  ASSUME TypeOK, CloseInv, NEW m \in Stored \cup {Event}, Broadcast(m), NEW c \in clients'
  PROVE  /\ c \in clients
         /\ send'[c] = Append(send[c], m)
         /\ \A e : In(e, send[c]) \/ e = m => In(e, send'[c])
  <1>1. c \in clients /\ c \in Clients /\ ~Full(c) /\ c \notin closed
    BY DEF Broadcast, CloseInv
  <1>2. send'[c] = Append(send[c], m)
    BY <1>1 DEF Broadcast
  <1>3. send[c] \in Seq(Stored \cup {Event})
    BY <1>1 DEF TypeOK
  <1> QED
    BY <1>1, <1>2, <1>3, InAppend
LEMMA MissInvInductive == TypeOK /\ CloseInv /\ MissInv /\ [Next]_vars => MissInv'
  <1> SUFFICES ASSUME TypeOK, CloseInv, MissInv, [Next]_vars PROVE MissInv'
    OBVIOUS
  <1> DEFINE Order == /\ \A c \in Clients : conn[c] = "none" => asks[c] = 0
                      /\ \A c \in Clients : reader[c] \in {"none", "read"} => todo[c] = <<>>
  <1> USE DEF store, hub, queues, links, history
  <1>E. NoEntry \notin Entry /\ Event \notin Entry /\ Added \subseteq Entry
    BY HubAssumption DEF Added
  <1>K. ASSUME Order', added' = added,
               \A c \in Clients : Listening(c)' => Listening(c),
               \A c \in Clients : Listening(c)' =>
                 \A e \in Entry : Reaches(c, e) => Reaches(c, e)'
        PROVE  MissInv'
    <2>1. Added' = Added
      BY <1>K DEF Added
    <2> QED
      BY <1>K, <1>E, <2>1 DEF MissInv
  <1>1. ASSUME NEW a \in Sources, Store(a) PROVE MissInv'
    <2> PICK new : new = [by |-> a, no |-> added[a] + 1]
      OBVIOUS
    <2>1. /\ pending[a] = NoEntry /\ added' = [added EXCEPT ![a] = @ + 1]
          /\ UNCHANGED <<hub, queues, links, seen, before>>
      BY <1>1 DEF Store
    <2>2. \A e \in Added' : e \in Added \/ e = new
      <3> SUFFICES ASSUME NEW e \in Entry, e.no <= added'[e.by], ~(e.no <= added[e.by]) PROVE e = new
        BY DEF Added
      <3>1. e.by = a /\ e.no \in Nat /\ added[a] \in Nat /\ e.no <= added[a] + 1
        BY <2>1, HubAssumption DEF Entry, TypeOK
      <3>2. e.no = added[a] + 1
        BY <3>1
      <3> QED
        BY <3>1, <3>2 DEF Entry
    <2>3. \/ pending' = [pending EXCEPT ![a] = new] /\ lost' = lost
          \/ pending' = pending /\ Lose(new)
      BY <1>1 DEF Store
    <2>4. \A c \in Clients : \A e \in Entry : Reaches(c, e) => Reaches(c, e)'
      <3>1. \A c \in Clients : lost[c] \subseteq lost'[c]
        BY <2>3 DEF Lose
      <3>2. \A e \in Entry : (\E b \in Sources : pending[b] = e) => \E b \in Sources : pending'[b] = e
        BY <1>E, <2>1, <2>3 DEF TypeOK
      <3> QED
        BY <2>1, <3>1, <3>2 DEF Reaches
    <2>5. \A c \in Clients : Listening(c) => Reaches(c, new)'
      <3>1. CASE pending' = [pending EXCEPT ![a] = new]
        <4>1. pending'[a] = new
          BY <3>1 DEF TypeOK
        <4> QED
          BY <4>1 DEF Reaches
      <3>2. CASE Lose(new)
        <4>1. \A c \in Clients : asks[c] > 0 => new \in lost'[c]
          BY <3>2 DEF Lose
        <4> QED
          BY <4>1 DEF Reaches, Listening
      <3> QED
        BY <2>3, <3>1, <3>2
    <2>6. \A c \in Clients : Listening(c)' = Listening(c)
      BY <2>1 DEF Listening
    <2>7. Order'
      BY <2>1 DEF MissInv
    <2> QED
      BY <1>E, <2>2, <2>4, <2>5, <2>6, <2>7 DEF MissInv
  <1>2. ASSUME NEW a \in Sources, Deliver(a) PROVE MissInv'
    <2>1. /\ pending[a] # NoEntry /\ pending' = [pending EXCEPT ![a] = NoEntry]
          /\ UNCHANGED <<added, hand, clients, queues, links, seen, before>>
          /\ \/ feed' = Append(feed, pending[a]) /\ lost' = lost
             \/ feed' = feed /\ Lose(pending[a])
      BY <1>2 DEF Deliver
    <2>2. pending[a] \in Stored /\ feed \in Seq(Stored)
      BY <2>1 DEF TypeOK
    <2>3. \A e : In(e, feed) => In(e, feed')
      BY <2>1, <2>2, InAppend
    <2>4. \A c \in Clients : lost[c] \subseteq lost'[c]
      BY <2>1 DEF Lose
    <2>5. \A c \in Clients : Listening(c) => In(pending[a], feed') \/ pending[a] \in lost'[c]
      BY <2>1, <2>2, InAppend DEF Lose, Listening
    <2>6. \A e, b \in Sources : pending[b] = e => pending'[b] = e \/ e = pending[a]
      BY <2>1 DEF TypeOK
    <2>7. Order' /\ \A c \in Clients : Listening(c)' = Listening(c)
      BY <2>1 DEF MissInv, Listening
    <2>8. \A c \in Clients : Listening(c) => \A e \in Entry : Reaches(c, e) => Reaches(c, e)'
      BY <2>1, <2>3, <2>4, <2>5, <2>6 DEF Reaches
    <2> QED
      BY <1>K, <2>1, <2>7, <2>8
  <1>3. CASE Subscribe
    <2>1. UNCHANGED <<added, pending, hub, queues, links, history>>
      BY <1>3 DEF Subscribe
    <2>2. Order' /\ \A c \in Clients : Listening(c)' = Listening(c)
      BY <2>1 DEF MissInv, Listening
    <2>3. \A c \in Clients : \A e \in Entry : Reaches(c, e)' = Reaches(c, e)
      BY <2>1 DEF Reaches
    <2> QED
      BY <1>K, <2>1, <2>2, <2>3
  <1>4. CASE Take
    <2>1. /\ hand = NoEntry /\ feed # <<>> /\ hand' = Head(feed) /\ feed' = Tail(feed)
          /\ UNCHANGED <<added, pending, clients, queues, links, history>>
      BY <1>4 DEF Take
    <2>2. \A e : In(e, feed) => e = hand' \/ In(e, feed')
      BY <2>1, InTail DEF TypeOK
    <2>3. Order' /\ \A c \in Clients : Listening(c)' = Listening(c)
      BY <2>1 DEF MissInv, Listening
    <2>4. \A c \in Clients : \A e \in Entry : Reaches(c, e) => Reaches(c, e)'
      BY <1>E, <2>1, <2>2 DEF Reaches
    <2> QED
      BY <1>K, <2>1, <2>3, <2>4
  <1>5. ASSUME NEW m \in Stored \cup {Event}, Broadcast(m), hand' = hand \/ (hand = m /\ hand' = NoEntry),
               UNCHANGED <<store, feed, links, lost, seen, before>>
        PROVE  MissInv'
    <2>1. \A c \in clients' : c \in clients /\ \A e : In(e, send[c]) \/ e = m => In(e, send'[c])
      BY <1>5, BroadcastReaches
    <2>2. Order' /\ \A c \in Clients : Listening(c)' => Listening(c) /\ c \in clients'
      BY <1>5, <2>1 DEF MissInv, Listening
    <2>3. \A c \in clients' : \A e \in Entry : Reaches(c, e) => Reaches(c, e)'
      BY <1>5, <2>1 DEF Reaches
    <2> QED
      BY <1>K, <1>5, <2>2, <2>3
  <1>6. CASE Forward \/ ServiceEvent
    BY <1>5, <1>6 DEF Forward, ServiceEvent, TypeOK
  <1>7. ASSUME NEW c \in Clients, Connect(c) PROVE MissInv'
    <2>1. /\ conn[c] = "none" /\ conn' = [conn EXCEPT ![c] = "open"]
          /\ clients' = clients \cup {c} /\ reader' = [reader EXCEPT ![c] = "read"]
          /\ UNCHANGED <<added, pending, feed, hand, send, todo, asks, history>>
      BY <1>7 DEF Connect
    <2>2. asks[c] = 0 /\ reader[c] = "none"
      BY <2>1 DEF MissInv, CloseInv
    <2>3. Order'
      BY <2>1, <2>2 DEF MissInv, TypeOK
    <2>4. \A d \in Clients : Listening(d)' => Listening(d)
      BY <2>1, <2>2 DEF Listening, TypeOK
    <2>5. \A d \in Clients : \A e \in Entry : Reaches(d, e)' = Reaches(d, e)
      BY <2>1 DEF Reaches
    <2> QED
      BY <1>K, <2>1, <2>3, <2>4, <2>5
  <1>8. ASSUME NEW c \in Clients, PeerGone(c) PROVE MissInv'
    <2>1. /\ conn[c] = "open" /\ conn' = [conn EXCEPT ![c] = "broken"]
          /\ UNCHANGED <<added, pending, feed, hand, clients, send, reader, todo, asks, history>>
      BY <1>8 DEF PeerGone
    <2>2. Order' /\ \A d \in Clients : Listening(d)' => Listening(d)
      BY <2>1 DEF MissInv, Listening, TypeOK
    <2>3. \A d \in Clients : \A e \in Entry : Reaches(d, e)' = Reaches(d, e)
      BY <2>1 DEF Reaches
    <2> QED
      BY <1>K, <2>1, <2>2, <2>3
  <1>9. ASSUME NEW c \in Clients, Write(c) PROVE MissInv'
    <2>1. /\ send[c] # <<>> /\ send' = [send EXCEPT ![c] = Tail(@)]
          /\ UNCHANGED <<added, pending, feed, hand, clients, conn, reader, todo, asks, lost, before>>
          /\ conn[c] = "open" => seen' = [seen EXCEPT ![c] = @ \cup ({Head(send[c])} \cap Entry)]
          /\ conn[c] # "open" => seen' = seen
      BY <1>9 DEF Write
    <2>2. \A e : In(e, send[c]) => e = Head(send[c]) \/ In(e, send'[c])
      BY <2>1, InTail DEF TypeOK
    <2>3. /\ conn[c] = "open" => \A e \in Entry : e = Head(send[c]) => e \in seen'[c]
          /\ \A d \in Clients : seen[d] \subseteq seen'[d]
          /\ \A d \in Clients \ {c} : send'[d] = send[d]
      <3>1. seen \in [Clients -> SUBSET Stored] /\ DOMAIN send = Clients
        BY DEF TypeOK
      <3>2. conn[c] = "open" /\ Head(send[c]) \in Entry => Head(send[c]) \in seen'[c]
        BY <2>1, <3>1
      <3>3. \A d \in Clients : seen[d] \subseteq seen'[d]
        BY <2>1, <3>1
      <3>4. \A d \in Clients \ {c} : send'[d] = send[d]
        BY <2>1, <3>1
      <3> QED
        BY <3>2, <3>3, <3>4
    <2>4. Order' /\ \A d \in Clients : Listening(d)' = Listening(d)
      BY <2>1 DEF MissInv, Listening
    <2>5. \A d \in Clients : Listening(d) => \A e \in Entry : Reaches(d, e) => Reaches(d, e)'
      BY <2>1, <2>2, <2>3 DEF Reaches, Listening
    <2> QED
      BY <1>K, <2>1, <2>4, <2>5
  <1>10. ASSUME NEW c \in Clients, WriterEnds(c) PROVE MissInv'
    <2>1. /\ c \in closed /\ conn' = [conn EXCEPT ![c] = "broken"]
          /\ UNCHANGED <<added, pending, feed, hand, clients, send, reader, todo, asks, history>>
      BY <1>10 DEF WriterEnds
    <2>2. Order' /\ \A d \in Clients : Listening(d)' => Listening(d)
      BY <2>1 DEF MissInv, Listening, TypeOK
    <2>3. \A d \in Clients : \A e \in Entry : Reaches(d, e)' = Reaches(d, e)
      BY <2>1 DEF Reaches
    <2> QED
      BY <1>K, <2>1, <2>2, <2>3
  \* The first backlog has what the store still has, and what it has no longer is
  \* in before; a later one finds the last one queued.
  <1>11. ASSUME NEW c \in Clients, Ask(c) PROVE MissInv'
    <2> PICK backlog : backlog = Log!LastOf(window, BacklogSize)
      OBVIOUS
    <2>1. /\ reader[c] = "read" /\ conn[c] = "open"
          /\ asks' = [asks EXCEPT ![c] = @ + 1] /\ todo' = [todo EXCEPT ![c] = backlog]
          /\ reader' = [reader EXCEPT ![c] = "backlog"]
          /\ before' = IF asks[c] = 0 THEN [before EXCEPT ![c] = Missing(backlog)] ELSE before
          /\ UNCHANGED <<added, pending, feed, hand, clients, send, conn, dropped, lost, seen>>
      BY <1>11 DEF Ask
    <2>2. todo[c] = <<>>
      BY <2>1 DEF MissInv
    <2>3. Order'
      BY <2>1 DEF MissInv, TypeOK
    <2>4. Added' = Added
      BY <2>1 DEF Added
    <2>5. ASSUME NEW d \in Clients, Listening(d)', NEW e \in Added PROVE Reaches(d, e)'
      <3>1. CASE d # c
        <4>1. Listening(d) /\ todo'[d] = todo[d] /\ before'[d] = before[d]
          BY <2>1, <2>5, <3>1 DEF Listening, TypeOK
        <4>2. Reaches(d, e)
          BY <4>1, <2>5 DEF MissInv
        <4> QED
          BY <4>1, <4>2, <2>1 DEF Reaches
      <3>2. CASE d = c /\ asks[c] = 0
        <4>1. before'[c] = Missing(backlog) /\ todo'[c] = backlog
          BY <2>1, <3>2 DEF TypeOK
        <4>2. e \in Missing(backlog) \/ In(e, backlog)
          BY <2>5 DEF Missing, Added, In
        <4> QED
          BY <3>2, <4>1, <4>2 DEF Reaches
      <3>3. CASE d = c /\ asks[c] # 0
        <4>1. Listening(c) /\ before' = before
          BY <2>1, <2>5, <3>3 DEF Listening, TypeOK
        <4>2. Reaches(c, e) /\ ~In(e, todo[c])
          BY <4>1, <2>2, <2>5 DEF MissInv, In
        <4> QED
          BY <3>3, <4>1, <4>2, <2>1 DEF Reaches
      <3> QED
        BY <3>1, <3>2, <3>3
    <2> QED
      BY <2>3, <2>4, <2>5 DEF MissInv
  <1>12. ASSUME NEW c \in Clients, Backlog(c) PROVE MissInv'
    <2>1. /\ todo[c] # <<>> /\ reader[c] = "backlog" /\ todo' = [todo EXCEPT ![c] = Tail(@)]
          /\ UNCHANGED <<added, pending, feed, hand, clients, conn, reader, asks, seen, before>>
          /\ \/ send' = [send EXCEPT ![c] = Append(@, Head(todo[c]))] /\ lost' = lost
             \/ send' = send /\ lost' = [lost EXCEPT ![c] = @ \cup {Head(todo[c])}]
      BY <1>12 DEF Backlog
    <2>2. Head(todo[c]) \in Stored /\ send[c] \in Seq(Stored \cup {Event})
      BY <2>1, HeadTailType DEF TypeOK
    <2>3. \A e : In(e, todo[c]) => e = Head(todo[c]) \/ In(e, todo'[c])
      BY <2>1, InTail DEF TypeOK
    <2>4. /\ In(Head(todo[c]), send'[c]) \/ Head(todo[c]) \in lost'[c]
          /\ \A e : In(e, send[c]) => In(e, send'[c])
          /\ lost[c] \subseteq lost'[c]
      <3>1. \A e : In(e, send[c]) \/ e = Head(todo[c]) => In(e, Append(send[c], Head(todo[c])))
        BY <2>2, InAppend
      <3>2. \/ send'[c] = Append(send[c], Head(todo[c])) /\ lost'[c] = lost[c]
            \/ send'[c] = send[c] /\ lost'[c] = lost[c] \cup {Head(todo[c])}
        BY <2>1 DEF TypeOK
      <3> QED
        BY <3>1, <3>2
    <2>5. \A d \in Clients \ {c} : send'[d] = send[d] /\ lost'[d] = lost[d] /\ todo'[d] = todo[d]
      BY <2>1 DEF TypeOK
    <2>6. Order' /\ \A d \in Clients : Listening(d)' = Listening(d)
      BY <2>1, <2>5 DEF MissInv, Listening
    <2>7. \A d \in Clients : \A e \in Entry : Reaches(d, e) => Reaches(d, e)'
      BY <2>1, <2>3, <2>4, <2>5 DEF Reaches
    <2> QED
      BY <1>K, <2>1, <2>6, <2>7
  <1>13. ASSUME NEW c \in Clients, BacklogDone(c) \/ ReaderFails(c) \/ ReaderCloses(c) PROVE MissInv'
    <2>1. /\ UNCHANGED <<added, pending, feed, hand, send, conn, todo, asks, lost, seen, before>>
          /\ clients' \subseteq clients
          /\ \/ reader' = [reader EXCEPT ![c] = "read"] /\ todo[c] = <<>>
             \/ reader' = [reader EXCEPT ![c] = "leave"]
             \/ reader' = [reader EXCEPT ![c] = "done"]
      BY <1>13 DEF BacklogDone, ReaderFails, ReaderCloses
    <2>2. Order' /\ \A d \in Clients : Listening(d)' => Listening(d)
      BY <2>1 DEF MissInv, Listening, TypeOK
    <2>3. \A d \in Clients : \A e \in Entry : Reaches(d, e)' = Reaches(d, e)
      BY <2>1 DEF Reaches
    <2> QED
      BY <1>K, <2>1, <2>2, <2>3
  <1>14. CASE UNCHANGED vars
    <2>1. UNCHANGED <<added, pending, feed, hand, clients, send, conn, reader, todo, asks, lost, seen, before>>
      BY <1>14 DEF vars
    <2>2. Order' /\ \A d \in Clients : Listening(d)' = Listening(d)
      BY <2>1 DEF MissInv, Listening
    <2>3. \A d \in Clients : \A e \in Entry : Reaches(d, e)' = Reaches(d, e)
      BY <2>1 DEF Reaches
    <2> QED
      BY <1>K, <2>1, <2>2, <2>3
  <1> QED
    BY <1>1, <1>2, <1>3, <1>4, <1>6, <1>7, <1>8, <1>9, <1>10, <1>11, <1>12, <1>13, <1>14
    DEF Next, ClientStep, WriterStep, ReaderStep

\* Between the backlog a page asks for and the feed it is registered for there
\* is no gap, for any number of sources and clients and any capacities
\* (webui/websocket.go: ServeWS registers first; the stores' Add stores first).
THEOREM NothingIsMissed == Spec => []NothingMissed
  BY MissInvIsNothingMissed, MissInvInitially, MissInvInductive, TypeOKInitially, TypeOKInductive,
     CloseInvInitially, CloseInvInductive, PTL DEF Spec
=============================================================================
