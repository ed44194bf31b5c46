-------------------------------- MODULE Hub ---------------------------------
(***************************************************************************)
(* The live feed of the web UI: a store (logstore, metricsstore or tracer  *)
(* alike), the hub that subscribes to it, and the WebSocket clients        *)
(* (webui/websocket.go).                                                   *)
(*                                                                         *)
(* A store adds an entry under its lock and sends it to its subscribers    *)
(* after it has unlocked; the hub's goroutine takes entries from its       *)
(* subscription and queues them on every client; each client has a writer  *)
(* goroutine, which empties the client's queue into the connection, and a  *)
(* reader goroutine, which answers the browser's request for a backlog     *)
(* and removes the client when the connection fails.  Sends to a channel   *)
(* never block: what does not fit is dropped, and a client that is too     *)
(* slow has its channel closed.  A send to a closed channel, or a second   *)
(* close, is a panic, which ends the whole program.                        *)
(***************************************************************************)
EXTENDS Naturals, Sequences, FiniteSets

CONSTANTS
  Sources,     \* goroutines that add entries: output captures, scrapers, FIFO readers
  Clients,     \* WebSocket connections
  MaxAdds,     \* bound: entries in all
  MaxAsks,     \* bound: backlog requests per client
  MaxEvents,   \* bound: service events
  FeedCap,     \* capacity of the hub's subscription (64, 256, 512)
  SendCap,     \* capacity of a client's queue (2048)
  BacklogSize, \* entries in a backlog (100, 500)
  StoreSize,   \* entries the store keeps (1000, 10000, 50000)
  Event,       \* a service event, all of them alike
  NoEntry

Entry == [by : Sources, no : 1 .. MaxAdds]

ASSUME HubAssumption ==
  /\ MaxAdds \in Nat /\ MaxAsks \in Nat /\ MaxEvents \in Nat
  /\ FeedCap \in Nat \ {0} /\ SendCap \in Nat \ {0}
  /\ BacklogSize \in Nat \ {0} /\ StoreSize \in Nat /\ StoreSize >= BacklogSize
  /\ NoEntry \notin Entry /\ Event \notin Entry

VARIABLES
  window,      \* the store: its most recent entries
  subscribed,  \* the hub's goroutine has subscribed
  added,       \* how many entries each source has added
  pending,     \* what a source has added and not yet sent
  feed,        \* the channel of the hub's subscription
  hand,        \* the entry the hub's goroutine holds
  events,      \* service events so far
  clients,     \* Hub.clients
  send,        \* each client's queue
  closed,      \* the clients whose queue was closed
  conn,        \* the connection: none, open, broken
  writer, reader,
  todo,        \* backlog entries the reader has still to queue
  asks,        \* backlog requests so far
  panicked,
  \* History, read by no action.
  dropped,     \* clients that broadcast closed as too slow
  lost,        \* entries a client will not get: a full channel dropped them,
               \* or nobody had subscribed
  seen,        \* entries written to each client's connection
  before       \* entries older than the first backlog of a client

Log == INSTANCE RecentLog WITH MaxSize <- StoreSize

store == <<window, subscribed, added, pending>>
hub == <<feed, hand, events, clients>>
queues == <<send, closed>>
links == <<conn, writer, reader, todo, asks>>
history == <<dropped, lost, seen, before>>
vars == <<window, subscribed, added, pending, feed, hand, events, clients, send,
          closed, conn, writer, reader, todo, asks, panicked,
          dropped, lost, seen, before>>

Init ==
  /\ window = <<>>
  /\ subscribed = FALSE
  /\ added = [a \in Sources |-> 0]
  /\ pending = [a \in Sources |-> NoEntry]
  /\ feed = <<>>
  /\ hand = NoEntry
  /\ events = 0
  /\ clients = {}
  /\ send = [c \in Clients |-> <<>>]
  /\ closed = {}
  /\ conn = [c \in Clients |-> "none"]
  /\ writer = [c \in Clients |-> "none"]
  /\ reader = [c \in Clients |-> "none"]
  /\ todo = [c \in Clients |-> <<>>]
  /\ asks = [c \in Clients |-> 0]
  /\ panicked = FALSE
  /\ dropped = {}
  /\ lost = [c \in Clients |-> {}]
  /\ seen = [c \in Clients |-> {}]
  /\ before = [c \in Clients |-> {}]

-----------------------------------------------------------------------------
(* The store and its subscription *)

\* No client that has had its backlog will get e.
Lose(e) == lost' = [c \in Clients |-> IF asks[c] > 0 THEN lost[c] \cup {e} ELSE lost[c]]

\* Add, up to the unlock: the entry is in the store and the subscribers of
\* this moment are copied.
Store(a) ==
  LET e == [by |-> a, no |-> added[a] + 1]
  IN /\ pending[a] = NoEntry
     /\ Cardinality({x \in Entry : x.no <= added[x.by]}) < MaxAdds
     /\ added' = [added EXCEPT ![a] = @ + 1]
     /\ window' = Log!Push(window, e)
     /\ IF subscribed
          THEN pending' = [pending EXCEPT ![a] = e] /\ UNCHANGED lost
          ELSE Lose(e) /\ UNCHANGED pending
     /\ UNCHANGED <<subscribed, hub, queues, links, panicked, dropped, seen, before>>

\* The rest of Add: a send that does not block.
Deliver(a) ==
  /\ pending[a] # NoEntry
  /\ pending' = [pending EXCEPT ![a] = NoEntry]
  /\ IF Len(feed) < FeedCap
       THEN feed' = Append(feed, pending[a]) /\ UNCHANGED lost
       ELSE Lose(pending[a]) /\ UNCHANGED feed
  /\ UNCHANGED <<window, subscribed, added, hand, events, clients, queues, links,
                 panicked, dropped, seen, before>>

Subscribe ==
  /\ ~subscribed
  /\ subscribed' = TRUE
  /\ UNCHANGED <<window, added, pending, hub, queues, links, panicked, history>>

-----------------------------------------------------------------------------
(* The hub *)

Full(c) == Len(send[c]) >= SendCap

\* broadcast: under the hub's lock, m goes to every client whose queue has
\* room; the others are closed and removed.  A closed queue in the map is a
\* panic.
Broadcast(m) ==
  LET slow == {c \in clients : Full(c)}
  IN /\ send' = [c \in Clients |-> IF c \in clients \ (slow \cup closed)
                                     THEN Append(send[c], m) ELSE send[c]]
     /\ closed' = closed \cup slow
     /\ panicked' = (clients \cap closed # {})
     /\ clients' = clients \ slow
     /\ dropped' = dropped \cup slow

\* The hub's goroutine takes an entry from its subscription, and broadcasts it.
Take ==
  /\ hand = NoEntry
  /\ feed # <<>>
  /\ hand' = Head(feed)
  /\ feed' = Tail(feed)
  /\ UNCHANGED <<store, events, clients, queues, links, panicked, history>>

Forward ==
  /\ hand # NoEntry
  /\ hand' = NoEntry
  /\ Broadcast(hand)
  /\ UNCHANGED <<store, feed, events, links, lost, seen, before>>

\* BroadcastServiceEvent, called by whichever goroutine changed a status.
ServiceEvent ==
  /\ events < MaxEvents
  /\ events' = events + 1
  /\ Broadcast(Event)
  /\ UNCHANGED <<store, feed, hand, links, lost, seen, before>>

-----------------------------------------------------------------------------
(* A client *)

\* ServeWS: upgrade, register, and start the two goroutines.
Connect(c) ==
  /\ conn[c] = "none"
  /\ conn' = [conn EXCEPT ![c] = "open"]
  /\ clients' = clients \cup {c}
  /\ writer' = [writer EXCEPT ![c] = "range"]
  /\ reader' = [reader EXCEPT ![c] = "read"]
  /\ UNCHANGED <<store, feed, hand, events, queues, todo, asks, panicked, history>>

\* The browser goes away or the network fails.
PeerGone(c) ==
  /\ conn[c] = "open"
  /\ conn' = [conn EXCEPT ![c] = "broken"]
  /\ UNCHANGED <<store, hub, queues, writer, reader, todo, asks, panicked, history>>

\* The writer takes a message and writes it; a message being written counts as
\* queued.  When the write fails it closes the connection and ends,
Write(c) ==
  /\ writer[c] = "range"
  /\ send[c] # <<>>
  /\ send' = [send EXCEPT ![c] = Tail(@)]
  /\ IF conn[c] = "open"
       THEN seen' = [seen EXCEPT ![c] = @ \cup ({Head(send[c])} \cap Entry)] /\ UNCHANGED writer
       ELSE writer' = [writer EXCEPT ![c] = "done"] /\ UNCHANGED seen
  /\ UNCHANGED <<store, hub, closed, conn, reader, todo, asks, panicked, dropped, lost, before>>

\* as it does when the queue is closed and empty.
WriterEnds(c) ==
  /\ writer[c] = "range"
  /\ send[c] = <<>>
  /\ c \in closed
  /\ writer' = [writer EXCEPT ![c] = "done"]
  /\ conn' = [conn EXCEPT ![c] = "broken"]
  /\ UNCHANGED <<store, hub, queues, reader, todo, asks, panicked, history>>

\* Everything added so far that the sequence s does not hold.
Missing(s) == {e \in Entry : e.no <= added[e.by] /\ \A i \in DOMAIN s : s[i] # e}

\* Mutant of Ask: the backlog stops short of the newest entry.
AskMissesNewest(c) ==
  LET backlog == Log!LastOf(window, BacklogSize)
  IN /\ reader[c] = "read"
     /\ conn[c] = "open"
     /\ asks[c] < MaxAsks
     /\ asks' = [asks EXCEPT ![c] = @ + 1]
     /\ todo' = [todo EXCEPT ![c] = SubSeq(backlog, 1, Len(backlog) - 1)]
     /\ before' = IF asks[c] = 0 THEN [before EXCEPT ![c] = Missing(backlog)] ELSE before
     /\ reader' = [reader EXCEPT ![c] = "backlog"]
     /\ UNCHANGED <<store, hub, queues, conn, writer, panicked, dropped, lost, seen>>

\* The browser asks for the backlog: the reader reads the store once, under
\* the store's lock, and then queues entry by entry.
Ask(c) ==
  LET backlog == Log!LastOf(window, BacklogSize)
  IN /\ reader[c] = "read"
     /\ conn[c] = "open"
     /\ asks[c] < MaxAsks
     /\ asks' = [asks EXCEPT ![c] = @ + 1]
     /\ todo' = [todo EXCEPT ![c] = backlog]
     /\ before' = IF asks[c] = 0 THEN [before EXCEPT ![c] = Missing(backlog)] ELSE before
     /\ reader' = [reader EXCEPT ![c] = "backlog"]
     /\ UNCHANGED <<store, hub, queues, conn, writer, panicked, dropped, lost, seen>>

\* One send of sendBacklog; one that finds the queue full is skipped.
Backlog(c) ==
  /\ reader[c] = "backlog"
  /\ todo[c] # <<>>
  /\ todo' = [todo EXCEPT ![c] = Tail(@)]
  /\ panicked' = (c \in closed)
  /\ IF c \notin closed /\ ~Full(c)
       THEN send' = [send EXCEPT ![c] = Append(@, Head(todo[c]))] /\ UNCHANGED lost
       ELSE lost' = [lost EXCEPT ![c] = @ \cup {Head(todo[c])}] /\ UNCHANGED send
  /\ UNCHANGED <<store, hub, closed, conn, writer, reader, asks, dropped, seen, before>>

BacklogDone(c) ==
  /\ reader[c] = "backlog"
  /\ todo[c] = <<>>
  /\ reader' = [reader EXCEPT ![c] = "read"]
  /\ UNCHANGED <<store, hub, queues, conn, writer, todo, asks, panicked, history>>

\* Mutant of ReaderFails: the queue is closed before the client is removed.
ReaderClosesFirst(c) ==
  /\ reader[c] = "read"
  /\ conn[c] = "broken"
  /\ closed' = closed \cup {c}
  /\ reader' = [reader EXCEPT ![c] = "leave"]
  /\ UNCHANGED <<store, hub, send, conn, writer, todo, asks, panicked, history>>

\* Mutant of ReaderFails: the client is not removed.
ReaderStaysListed(c) ==
  /\ reader[c] = "read"
  /\ conn[c] = "broken"
  /\ reader' = [reader EXCEPT ![c] = "leave"]
  /\ UNCHANGED <<store, hub, queues, conn, writer, todo, asks, panicked, history>>

\* ReadMessage fails: the deferred function removes the client under the lock,
ReaderFails(c) ==
  /\ reader[c] = "read"
  /\ conn[c] = "broken"
  /\ clients' = clients \ {c}
  /\ reader' = [reader EXCEPT ![c] = "leave"]
  /\ UNCHANGED <<store, feed, hand, events, queues, conn, writer, todo, asks, panicked, history>>

\* and then closes its queue, whether or not broadcast has closed it already.
ReaderCloses(c) ==
  /\ reader[c] = "leave"
  /\ panicked' = (c \in closed)
  /\ closed' = closed \cup {c}
  /\ reader' = [reader EXCEPT ![c] = "done"]
  /\ UNCHANGED <<store, hub, send, conn, writer, todo, asks, history>>

-----------------------------------------------------------------------------
WriterStep(c) == Write(c) \/ WriterEnds(c)

ReaderStep(c) == Backlog(c) \/ BacklogDone(c) \/ ReaderFails(c) \/ ReaderCloses(c)

ClientStep(c) == Connect(c) \/ PeerGone(c) \/ WriterStep(c) \/ Ask(c) \/ ReaderStep(c)

\* The panic has ended the program; or the sources are out of entries and every
\* connection has come and gone.
Resting ==
  \/ panicked
  \/ /\ \A a \in Sources : pending[a] = NoEntry
     /\ feed = <<>> /\ hand = NoEntry
     /\ \A c \in Clients : reader[c] = "done" /\ writer[c] = "done"

Next ==
  \/ /\ ~panicked
     /\ \/ \E a \in Sources : Store(a) \/ Deliver(a)
        \/ Subscribe \/ Take \/ Forward \/ ServiceEvent
        \/ \E c \in Clients : ClientStep(c)
  \/ Resting /\ UNCHANGED vars

Spec == Init /\ [][Next]_vars

\* A goroutine that can run does run.  A write to a live connection may block
\* for as long as the peer likes, so the writer is fair on a broken one only.
FairSpec ==
  /\ Spec
  /\ \A c \in Clients :
       /\ WF_vars(~panicked /\ ReaderStep(c))
       /\ WF_vars(~panicked /\ conn[c] = "broken" /\ WriterStep(c))

-----------------------------------------------------------------------------
(* Properties *)

\* What a source may have put into the store, and so into a queue.
Stored == [by : Sources, no : Nat]

\* The state has the shape of the variables' comments: in particular no queue
\* grows past its capacity.
TypeOK ==
  /\ window \in Seq(Stored) /\ Len(window) <= StoreSize
  /\ subscribed \in BOOLEAN
  /\ added \in [Sources -> Nat]
  /\ pending \in [Sources -> Stored \cup {NoEntry}]
  /\ feed \in Seq(Stored) /\ Len(feed) <= FeedCap
  /\ hand \in Stored \cup {NoEntry}
  /\ events \in 0 .. MaxEvents
  /\ clients \subseteq Clients /\ closed \subseteq Clients /\ dropped \subseteq Clients
  /\ send \in [Clients -> Seq(Stored \cup {Event})]
  /\ todo \in [Clients -> Seq(Stored)]
  /\ \A c \in Clients : Len(send[c]) <= SendCap /\ Len(todo[c]) <= BacklogSize
  /\ conn \in [Clients -> {"none", "open", "broken"}]
  /\ writer \in [Clients -> {"none", "range", "done"}]
  /\ reader \in [Clients -> {"none", "read", "backlog", "leave", "done"}]
  /\ asks \in [Clients -> 0 .. MaxAsks]
  /\ panicked \in BOOLEAN
  /\ lost \in [Clients -> SUBSET Stored]
  /\ seen \in [Clients -> SUBSET Stored]
  /\ before \in [Clients -> SUBSET Stored]

\* No closed channel is sent to or closed again, by the hub or by a client's
\* goroutines, in whatever order they run, unless broadcast has dropped a
\* client as too slow: removal from the map under the lock, and then the close,
\* is an order that keeps broadcast off the queue.
PanicOnlyAfterDrop == panicked => dropped # {}

InTransit(e) == hand = e \/ (\E a \in Sources : pending[a] = e) \/ \E i \in DOMAIN feed : feed[i] = e

Queued(c, e) ==
  \/ \E i \in DOMAIN send[c] : send[c][i] = e
  \/ \E i \in DOMAIN todo[c] : todo[c][i] = e

\* Between the backlog and the live feed there is no gap: once a client that is
\* still listed has asked for its backlog, every entry ever added has been
\* written to it, is on its way to it, was too old for the backlog, or was
\* dropped by a full channel.  The client is registered before it can ask, and
\* an entry is in the store before it is sent.
NothingMissed ==
  \A c \in clients :
    conn[c] = "open" /\ asks[c] > 0 =>
      \A e \in Missing(<<>>) :
        e \in seen[c] \cup before[c] \cup lost[c] \/ Queued(c, e) \/ InTransit(e)

\* A client whose connection is broken leaves the map and both its goroutines
\* end, so that nothing accumulates for a page that was closed.
GoneClientForgotten ==
  \A c \in Clients :
    conn[c] = "broken" ~>
      panicked \/ (c \notin clients /\ reader[c] = "done" /\ writer[c] = "done")
=============================================================================
