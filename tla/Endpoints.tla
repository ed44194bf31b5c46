----------------------------- MODULE Endpoints ------------------------------
(***************************************************************************)
(* What the successive runs of one service leave to each other under names *)
(* that do not change: a socket file the runner listens on, the TCP port   *)
(* of the HTTP proxy, the trace FIFO, the socket the service listens on    *)
(* for the metrics scraper, and, without a name, the pipe of the service's *)
(* output.  Stop, the goroutine that reaps the process and the goroutines  *)
(* that close the endpoints are not waited for, so a run may open what the *)
(* one before it has not closed.                                           *)
(*                                                                         *)
(* The endpoints of a run have nothing in common but its context and its   *)
(* process, so a behaviour is about one kind of them.  Runs follow each    *)
(* other here: a Start that finds a process is refused, and starts that    *)
(* overlap are in Instance.  The kernel's files and the service are        *)
(* external.                                                               *)
(***************************************************************************)
EXTENDS Naturals, SequencesExt

CONSTANTS
  Kinds,       \* those looked at, among socket, port, fifo, scrape, output
  MaxRuns,     \* bound: runs of the service
  MaxRecords,  \* bound: lines or spans a run writes
  PipeSize,    \* how many of them a pipe holds
  NoFile,      \* nothing under the name
  Leftover     \* a file of a runner that was killed

ASSUME EndpointsAssumption ==
  /\ MaxRuns \in Nat /\ MaxRecords \in Nat
  /\ PipeSize \in Nat \ {0}
  /\ Kinds \subseteq {"socket", "port", "fifo", "scrape", "output"}
  /\ NoFile # Leftover /\ {NoFile, Leftover} \cap 1 .. MaxRuns = {}

Runs == 1 .. MaxRuns

VARIABLES
  kind,     \* what this behaviour is about
  life,     \* per run: none, transports, running, dead (the process has ended),
            \* exited (and was waited for), over (the context is cancelled)
  serve,    \* per run: how far the goroutine of the endpoint has come
  name,     \* what the name leads to: a run's file, or the run that has the port
  reader,   \* per run: the run whose FIFO its tracer opens
  writer,   \* per run: the run whose FIFO or pipe its process writes to
  pipe,     \* per FIFO or pipe: records not yet read, as <<run, number>>
  written,  \* per run: good, odd (of another type than a span's), broken (no JSON,
            \* or a line too long) or cut, for every record written
  stored,   \* the records the stores have got
  apart     \* history: the runs that began with the endpoints before them closed

vars == <<kind, life, serve, name, reader, writer, pipe, written, stored, apart>>
data == <<reader, writer, pipe, written, stored>>

Ended == {"none", "closed", "failed", "leaked"}

Init ==
  /\ kind \in Kinds
  /\ life = [g \in Runs |-> "none"]
  /\ serve = [g \in Runs |-> "none"]
  /\ name \in IF kind \in {"socket", "fifo"} THEN {NoFile, Leftover} ELSE {NoFile}
  /\ reader = [g \in Runs |-> NoFile]
  /\ writer = [g \in Runs |-> NoFile]
  /\ pipe = [g \in Runs |-> <<>>]
  /\ written = [g \in Runs |-> <<>>]
  /\ stored = <<>>
  /\ apart = {}

Goes(g, to) == serve' = [serve EXCEPT ![g] = to]

-----------------------------------------------------------------------------
(* The runs *)

\* StartTransports, of a Start that has found no process: the directory of the
\* service's sockets is emptied, and the endpoints are left to goroutines.
Transports(g) ==
  /\ life[g] = "none"
  /\ \A h \in Runs : h < g => life[h] \in {"exited", "over"}
  /\ life' = [life EXCEPT ![g] = "transports"]
  /\ name' = IF kind = "scrape" THEN NoFile ELSE name
  /\ IF kind \in {"socket", "fifo"} THEN Goes(g, "spawned") ELSE UNCHANGED serve
  /\ apart' = IF \A h \in Runs : serve[h] \in Ended THEN apart \cup {g} ELSE apart
  /\ UNCHANGED <<kind, data>>

\* The process is started, which waits for no endpoint; the rest follows.
Spawn(g) ==
  /\ life[g] = "transports"
  /\ life' = [life EXCEPT ![g] = "running"]
  /\ CASE kind \in {"port", "scrape"} -> Goes(g, "spawned") /\ UNCHANGED writer
       [] kind = "output" -> Goes(g, "open") /\ writer' = [writer EXCEPT ![g] = g]
       [] OTHER -> UNCHANGED <<serve, writer>>
  /\ UNCHANGED <<kind, name, reader, pipe, written, stored, apart>>

\* It cannot be started, and the context is cancelled.
SpawnFails(g) ==
  /\ life[g] = "transports"
  /\ life' = [life EXCEPT ![g] = "over"]
  /\ UNCHANGED <<kind, serve, name, data, apart>>

Dies(g) ==
  /\ life[g] = "running"
  /\ life' = [life EXCEPT ![g] = "dead"]
  /\ UNCHANGED <<kind, serve, name, data, apart>>

\* cmd.Wait, which closes the reading end of the output: what the scanner has
\* not read by then is lost, and a line it has read a part of becomes that part.
Waited(g) ==
  /\ life[g] = "dead"
  /\ life' = [life EXCEPT ![g] = "exited"]
  /\ \/ \E n \in 0 .. Len(pipe[g]) :
          /\ kind # "output" => n = Len(pipe[g])
          /\ pipe' = [pipe EXCEPT ![g] = SubSeq(@, 1, n)]
          /\ UNCHANGED written
     \/ /\ kind = "output"
        /\ \E n \in DOMAIN pipe[g] :
             /\ pipe' = [pipe EXCEPT ![g] = SubSeq(@, 1, n)]
             /\ written' = [written EXCEPT ![g][pipe[g][n][2]] = "cut"]
  /\ UNCHANGED <<kind, serve, name, reader, writer, stored, apart>>

\* The waiter cancels the context, or Stop does when it has seen the exit.
Cancel(g) ==
  /\ life[g] = "exited"
  /\ life' = [life EXCEPT ![g] = "over"]
  /\ UNCHANGED <<kind, serve, name, data, apart>>

RunStep(g) == Spawn(g) \/ SpawnFails(g) \/ Waited(g) \/ Cancel(g)

-----------------------------------------------------------------------------
(* A socket of the runner: CreateSocket, and the server that closes it *)

At(g, k, place) == kind = k /\ serve[g] = place

\* Mutant of RemoveOld: a file that is there is left there.
RemoveNothing(g) ==
  /\ At(g, "socket", "spawned") \/ At(g, "fifo", "spawned")
  /\ Goes(g, "removed")
  /\ UNCHANGED <<kind, life, name, data, apart>>

RemoveOld(g) ==
  /\ At(g, "socket", "spawned") \/ At(g, "fifo", "spawned")
  /\ name' = NoFile
  /\ Goes(g, "removed")
  /\ UNCHANGED <<kind, life, data, apart>>

\* net.Listen or Mkfifo: a name that exists again is an error.
Make(g) ==
  /\ At(g, "socket", "removed") \/ At(g, "fifo", "removed")
  /\ IF name = NoFile THEN name' = g /\ Goes(g, "made") ELSE UNCHANGED name /\ Goes(g, "failed")
  /\ UNCHANGED <<kind, life, data, apart>>

\* Chmod, by name: of whatever file is there, and an error if there is none.
Chmod(g) ==
  /\ At(g, "socket", "made")
  /\ Goes(g, IF name = NoFile THEN "failed" ELSE "open")
  /\ UNCHANGED <<kind, life, name, data, apart>>

\* GracefulStop closes the listener, which removes the file of that name,
\* whoever has made it.
CloseSocket(g) ==
  /\ At(g, "socket", "open") /\ life[g] = "over"
  /\ name' = NoFile
  /\ Goes(g, "closed")
  /\ UNCHANGED <<kind, life, data, apart>>

SocketStep(g) == RemoveOld(g) \/ Make(g) \/ Chmod(g) \/ CloseSocket(g)

-----------------------------------------------------------------------------
(* The port of the HTTP proxy *)

\* ListenAndServe: a port that is taken is an error, which is logged.
ListenPort(g) ==
  /\ At(g, "port", "spawned")
  /\ IF name = NoFile THEN name' = g /\ Goes(g, "open") ELSE UNCHANGED name /\ Goes(g, "failed")
  /\ UNCHANGED <<kind, life, data, apart>>

\* Shutdown: a listener closes, and a server that does not listen yet will not.
Shutdown(g) ==
  /\ kind = "port" /\ serve[g] \in {"spawned", "open"} /\ life[g] = "over"
  /\ name' = IF name = g THEN NoFile ELSE name
  /\ Goes(g, "closed")
  /\ UNCHANGED <<kind, life, data, apart>>

PortStep(g) == ListenPort(g) \/ Shutdown(g)

-----------------------------------------------------------------------------
(* The scraper, which dials the service's socket until it answers *)

\* The service listens, if it is not kept from it by a file that is there.
ServiceListens(g) ==
  /\ kind = "scrape" /\ life[g] = "running" /\ name = NoFile
  /\ name' = g
  /\ UNCHANGED <<kind, life, serve, data, apart>>

Dialled(g) ==
  /\ At(g, "scrape", "spawned")
  /\ name # NoFile /\ life[name] = "running"
  /\ Goes(g, "open")
  /\ UNCHANGED <<kind, life, name, data, apart>>

ScraperEnds(g) ==
  /\ kind = "scrape" /\ serve[g] \in {"spawned", "open"} /\ life[g] = "over"
  /\ Goes(g, "closed")
  /\ UNCHANGED <<kind, life, name, data, apart>>

ScrapeStep(g) == Dialled(g) \/ ScraperEnds(g)

-----------------------------------------------------------------------------
(* The trace FIFO: CreatePipeBlocking and the loop of Serve *)

\* Stat and Chmod, and a goroutine that opens the name for reading, which takes
\* until a writer opens it too.
OpenFifo(g) ==
  /\ At(g, "fifo", "made")
  /\ IF name = NoFile THEN Goes(g, "failed") /\ UNCHANGED reader
     ELSE Goes(g, "opening") /\ reader' = [reader EXCEPT ![g] = name]
  /\ UNCHANGED <<kind, life, name, writer, pipe, written, stored, apart>>

\* The other side has come, or the context ends and the goroutine stays.
Opened(g) ==
  /\ At(g, "fifo", "opening")
  /\ \/ /\ \E h \in Runs : writer[h] = reader[g]
        /\ Goes(g, "open")
     \/ life[g] = "over" /\ Goes(g, "leaked")
  /\ UNCHANGED <<kind, life, name, data, apart>>

\* Mutant of Loop: the context is not looked at after an error.
LoopForEver(g) ==
  /\ At(g, "fifo", "open")
  /\ Goes(g, IF life[g] = "over" THEN "closed" ELSE "decode")
  /\ UNCHANGED <<kind, life, name, data, apart>>

\* The condition of the loop, which a decoder that has failed comes back to
\* without reading.
Loop(g) ==
  /\ \/ At(g, "fifo", "open")
     \/ At(g, "fifo", "stuck") /\ life[g] = "over"
  /\ Goes(g, IF life[g] = "over" THEN "closed" ELSE "decode")
  /\ UNCHANGED <<kind, life, name, data, apart>>

KindOf(r) == written[r[1]][r[2]]

\* Mutant of Decode: every error of the decoder is for ever.
DecodeOddIsBroken(g) ==
  /\ At(g, "fifo", "decode") /\ pipe[reader[g]] # <<>>
  /\ LET r == Head(pipe[reader[g]])
     IN /\ stored' = IF KindOf(r) = "good" THEN Append(stored, r) ELSE stored
        /\ Goes(g, IF KindOf(r) = "good" THEN "open" ELSE "stuck")
  /\ pipe' = [pipe EXCEPT ![reader[g]] = Tail(@)]
  /\ UNCHANGED <<kind, life, name, reader, writer, written, apart>>

\* Decode: a span is stored; JSON of another type is passed over; what is not
\* JSON fails this and every later call.
Decode(g) ==
  /\ At(g, "fifo", "decode") /\ pipe[reader[g]] # <<>>
  /\ LET r == Head(pipe[reader[g]])
     IN /\ stored' = IF KindOf(r) = "good" THEN Append(stored, r) ELSE stored
        /\ Goes(g, IF KindOf(r) = "broken" THEN "stuck" ELSE "open")
  /\ pipe' = [pipe EXCEPT ![reader[g]] = Tail(@)]
  /\ UNCHANGED <<kind, life, name, reader, writer, written, apart>>

\* The end of the file, when no process has the FIFO open: Serve returns.
EndOfFile(g) ==
  /\ At(g, "fifo", "decode") /\ pipe[reader[g]] = <<>>
  /\ \A h \in Runs : writer[h] = reader[g] => life[h] # "running"
  /\ Goes(g, "closed")
  /\ UNCHANGED <<kind, life, name, data, apart>>

TracerStep(g) == OpenFifo(g) \/ Opened(g) \/ Loop(g) \/ Decode(g) \/ EndOfFile(g)

\* The service opens the FIFO that is there when it looks.
ServiceOpens(g) ==
  /\ kind = "fifo" /\ life[g] = "running" /\ writer[g] = NoFile /\ name # NoFile
  /\ writer' = [writer EXCEPT ![g] = name]
  /\ UNCHANGED <<kind, life, serve, name, reader, pipe, written, stored, apart>>

-----------------------------------------------------------------------------
(* The output, line by line; and what a service writes to either *)

\* Mutant of Capture: a line too long is passed over.
CaptureGoesOn(g) ==
  /\ At(g, "output", "open") /\ pipe[g] # <<>>
  /\ stored' = IF KindOf(Head(pipe[g])) = "broken" THEN stored ELSE Append(stored, Head(pipe[g]))
  /\ pipe' = [pipe EXCEPT ![g] = Tail(@)]
  /\ UNCHANGED <<kind, life, serve, name, reader, writer, written, apart>>

\* captureOutput stores a line, and ends at one that is too long.
Capture(g) ==
  /\ At(g, "output", "open") /\ pipe[g] # <<>>
  /\ IF KindOf(Head(pipe[g])) = "broken"
     THEN Goes(g, "closed") /\ UNCHANGED <<pipe, stored>>
     ELSE /\ stored' = Append(stored, Head(pipe[g]))
          /\ pipe' = [pipe EXCEPT ![g] = Tail(@)]
          /\ UNCHANGED serve
  /\ UNCHANGED <<kind, life, name, reader, writer, written, apart>>

\* There is nothing left and nothing can come.
CaptureEnds(g) ==
  /\ At(g, "output", "open") /\ pipe[g] = <<>> /\ life[g] \in {"dead", "exited", "over"}
  /\ Goes(g, "closed")
  /\ UNCHANGED <<kind, life, name, data, apart>>

OutputStep(g) == Capture(g) \/ CaptureEnds(g)

\* A write waits while there is no room, and on a FIFO for somebody who has it
\* open for reading.
ServiceWrites(g) ==
  /\ life[g] = "running" /\ Len(written[g]) < MaxRecords
  /\ writer[g] \in Runs /\ Len(pipe[writer[g]]) < PipeSize
  /\ kind = "fifo" =>
       \E h \in Runs : reader[h] = writer[g] /\ serve[h] \in {"opening", "open", "decode", "stuck", "leaked"}
  /\ \E w \in IF kind = "fifo" THEN {"good", "odd", "broken"} ELSE {"good", "broken"} :
       written' = [written EXCEPT ![g] = Append(@, w)]
  /\ pipe' = [pipe EXCEPT ![writer[g]] = Append(@, <<g, Len(written[g]) + 1>>)]
  /\ UNCHANGED <<kind, life, serve, name, reader, writer, stored, apart>>

-----------------------------------------------------------------------------

Goroutine(g) ==
  RunStep(g) \/ SocketStep(g) \/ PortStep(g) \/ ScrapeStep(g) \/ TracerStep(g) \/ OutputStep(g)

Service(g) == Dies(g) \/ ServiceListens(g) \/ ServiceOpens(g) \/ ServiceWrites(g)

Next == \E g \in Runs : Transports(g) \/ Goroutine(g) \/ Service(g)

Spec == Init /\ [][Next]_vars

\* Goroutines that can run do.  The service need not do anything, nor end, and
\* nobody need start it again.  No behaviour goes round a circle, so one
\* condition on their steps together passes none over.
FairSpec == Spec /\ WF_vars(\E g \in Runs : Goroutine(g))

-----------------------------------------------------------------------------
(* Properties *)

\* A run that began when the endpoints of the runs before it were closed has
\* failed to make none of its own, and what it has opened is what its name leads
\* to, while its process is awaited or runs: no late close of an older run takes it
\* away, and no file of a killed runner is in its way (transport/socket.go:23-38,
\* 67-73; transport/httpproxy/proxy.go:44-54; instance/instance.go:255).
OwnsItsName ==
  \A g \in apart : life[g] \in {"transports", "running"} =>
    /\ serve[g] # "failed"
    /\ kind # "output" /\ serve[g] \in {"opening", "open", "decode", "stuck"} => name = g

\* When its context has ended a run gives up its name and its goroutines end, but
\* for one that waits for a writer of a FIFO, and a tracer that a later process
\* keeps in a read (transport/socket.go:90-97, transport/opentracing/fromrunner.go:38).
ReleasedInEnd ==
  \A g \in Runs :
    life[g] = "over" ~>
      /\ \/ serve[g] \in Ended
         \/ serve[g] = "decode" /\ \E h \in Runs : h > g /\ writer[h] = reader[g]
      /\ kind \in {"socket", "port"} => name # g

\* A record that a store gets if it gets every one before it.
Readable(g, n) == written[g][n] = "good" /\ \A m \in 1 .. n : written[g][m] # "broken"

\* The stores get what the process of such a run has written in order, without
\* gaps and once, up to the first line too long or span that is no JSON, and nothing
\* from behind it; only the last line may be a part of one
\* (instance/instance.go:442, 600-614; transport/opentracing/fromrunner.go:38-53).
StoredAsWritten ==
  \A g \in apart, i \in DOMAIN stored : stored[i][1] = g =>
    /\ KindOf(stored[i]) = "cut" \/ Readable(g, stored[i][2])
    /\ \A n \in 1 .. stored[i][2] - 1 : Readable(g, n) => <<g, n>> \in ToSet(stored)
    /\ \A j \in i + 1 .. Len(stored) : stored[j][1] = g =>
         stored[i][2] < stored[j][2] /\ KindOf(stored[i]) # "cut"

\* What a process writes is stored while it runs, unless something unreadable
\* came before it, or the process has opened a FIFO from before its run's, or its
\* run began when an older one was not closed.  Only the end of the process loses
\* lines that could be read (instance/instance.go:438-442).
StoredWhileRunning ==
  \A g \in Runs, n \in 1 .. MaxRecords :
    g \in apart /\ n <= Len(written[g]) /\ Readable(g, n) ~>
      <<g, n>> \in ToSet(stored) \/ life[g] # "running" \/ writer[g] # g
=============================================================================
