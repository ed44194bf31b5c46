--------------------------- MODULE EndpointsProofs ---------------------------
(***************************************************************************)
(* Proofs about Endpoints, for any number of runs and of records: that a   *)
(* run owns its names, and that the stores get what a process writes in    *)
(* order.                                                                  *)
(*                                                                         *)
(* OwnsItsName is not inductive: it says nothing of the endpoints of other *)
(* runs, one of which could close after this one has opened its own.  The  *)
(* strengthening adds that runs follow each other (Ordered), that those    *)
(* before a run in apart are closed for good and those after it have not   *)
(* begun (Alone), and what the name is between two steps of opening it     *)
(* (Opening).                                                              *)
(*                                                                         *)
(* StoredAsWritten speaks of what is stored; the strengthening is where    *)
(* the rest is: of what the process of a run in apart has written the      *)
(* first b records are told, the next k are the first of its pipe, and     *)
(* what follows is lost (Flow).  It needs that nobody else reads that      *)
(* pipe, and that others write to it only later (NamesInv).                *)
(***************************************************************************)
EXTENDS Endpoints, SequenceTheorems, TLAPS

Lives == {"none", "transports", "running", "dead", "exited", "over"}
Places == {"none", "spawned", "removed", "made", "opening", "open", "decode", "stuck",
           "closed", "failed", "leaked"}

TypeInv ==
  /\ kind \in Kinds
  /\ life \in [Runs -> Lives]
  /\ serve \in [Runs -> Places]
  /\ name \in Runs \cup {NoFile, Leftover}
  /\ apart \subseteq Runs

\* A run begins when the processes of those before it are gone.
Ordered ==
  /\ \A g, h \in Runs : g < h /\ life[h] # "none" => life[g] \in {"exited", "over"}
  /\ \A g \in Runs :
       life[g] = "none" \/ (life[g] = "transports" /\ kind \notin {"socket", "fifo"}) => serve[g] = "none"

\* What the others have closed they do not open again.
Alone ==
  \A g \in apart :
    /\ life[g] # "none"
    /\ \A h \in Runs : h < g => serve[h] \in Ended

\* Who has the port listens on it.
Held == kind = "port" => name = NoFile \/ (name \in Runs /\ serve[name] = "open")

\* The name between the steps of a run that opens it.
Opening ==
  \A g \in apart : life[g] \in {"transports", "running"} =>
    /\ kind \in {"socket", "fifo"} =>
         /\ serve[g] = "removed" => name = NoFile
         /\ serve[g] = "made" => name = g
    /\ kind = "scrape" => name \in {NoFile, g}

IInv == TypeInv /\ Ordered /\ Alone /\ Held /\ Opening /\ OwnsItsName

\* A run of apart whose process is awaited or runs is the only one with an open
\* endpoint.
LEMMA OnlyOne ==
  ASSUME TypeInv, Ordered, Alone, NEW g \in apart, life[g] \in {"transports", "running"},
         NEW h \in Runs, h # g
  PROVE  serve[h] \in Ended /\ life[h] \in {"none", "exited", "over"}
<1>1. g \in Runs BY DEF TypeInv
<1>2. CASE h < g BY <1>1, <1>2 DEF Ordered, Alone
<1>3. CASE g < h BY <1>1, <1>3 DEF Ordered, Ended
<1> QED BY <1>1, <1>2, <1>3 DEF Runs
-----------------------------------------------------------------------------

LEMMA TypeStep == TypeInv /\ [Next]_vars => TypeInv'
<1> SUFFICES ASSUME TypeInv, [Next]_vars PROVE TypeInv'
  OBVIOUS
<1> USE DEF TypeInv, data, Goes, At, Lives, Places
<1>1. ASSUME NEW g \in Runs, Transports(g) PROVE TypeInv'
  BY <1>1 DEF Transports
<1>2. ASSUME NEW g \in Runs, Spawn(g) PROVE TypeInv'
  BY <1>2 DEF Spawn
<1>3. ASSUME NEW g \in Runs, SpawnFails(g) PROVE TypeInv'
  BY <1>3 DEF SpawnFails
<1>4. ASSUME NEW g \in Runs, Dies(g) PROVE TypeInv'
  BY <1>4 DEF Dies
<1>5. ASSUME NEW g \in Runs, Waited(g) PROVE TypeInv'
  BY <1>5 DEF Waited
<1>6. ASSUME NEW g \in Runs, Cancel(g) PROVE TypeInv'
  BY <1>6 DEF Cancel
<1>7. ASSUME NEW g \in Runs, RemoveOld(g) PROVE TypeInv'
  BY <1>7 DEF RemoveOld
<1>8. ASSUME NEW g \in Runs, Make(g) PROVE TypeInv'
  BY <1>8 DEF Make
<1>9. ASSUME NEW g \in Runs, Chmod(g) PROVE TypeInv'
  BY <1>9 DEF Chmod
<1>10. ASSUME NEW g \in Runs, CloseSocket(g) PROVE TypeInv'
  BY <1>10 DEF CloseSocket
<1>11. ASSUME NEW g \in Runs, ListenPort(g) PROVE TypeInv'
  BY <1>11 DEF ListenPort
<1>12. ASSUME NEW g \in Runs, Shutdown(g) PROVE TypeInv'
  BY <1>12 DEF Shutdown
<1>13. ASSUME NEW g \in Runs, ServiceListens(g) PROVE TypeInv'
  BY <1>13 DEF ServiceListens
<1>14. ASSUME NEW g \in Runs, Dialled(g) PROVE TypeInv'
  BY <1>14 DEF Dialled
<1>15. ASSUME NEW g \in Runs, ScraperEnds(g) PROVE TypeInv'
  BY <1>15 DEF ScraperEnds
<1>16. ASSUME NEW g \in Runs, OpenFifo(g) PROVE TypeInv'
  BY <1>16 DEF OpenFifo
<1>17. ASSUME NEW g \in Runs, Opened(g) PROVE TypeInv'
  BY <1>17 DEF Opened
<1>18. ASSUME NEW g \in Runs, Loop(g) PROVE TypeInv'
  BY <1>18 DEF Loop
<1>19. ASSUME NEW g \in Runs, Decode(g) PROVE TypeInv'
  BY <1>19 DEF Decode
<1>20. ASSUME NEW g \in Runs, EndOfFile(g) PROVE TypeInv'
  BY <1>20 DEF EndOfFile
<1>21. ASSUME NEW g \in Runs, ServiceOpens(g) PROVE TypeInv'
  BY <1>21 DEF ServiceOpens
<1>22. ASSUME NEW g \in Runs, Capture(g) PROVE TypeInv'
  BY <1>22 DEF Capture
<1>23. ASSUME NEW g \in Runs, CaptureEnds(g) PROVE TypeInv'
  BY <1>23 DEF CaptureEnds
<1>24. ASSUME NEW g \in Runs, ServiceWrites(g) PROVE TypeInv'
  BY <1>24 DEF ServiceWrites
<1>25. CASE UNCHANGED vars
  BY <1>25 DEF vars
<1> QED
  BY <1>1, <1>2, <1>3, <1>4, <1>5, <1>6, <1>7, <1>8, <1>9, <1>10, <1>11, <1>12, <1>13, <1>14, <1>15, <1>16, <1>17, <1>18, <1>19, <1>20, <1>21, <1>22, <1>23, <1>24, <1>25 DEF Next, Goroutine, Service, RunStep, SocketStep,
     PortStep, ScrapeStep, TracerStep, OutputStep
\* What a step of a run does to its life and its endpoint; those of the other
\* runs it leaves alone.
Local(g) ==
  /\ kind' = kind
  /\ life' = [life EXCEPT ![g] = life'[g]]
  /\ serve' = [serve EXCEPT ![g] = serve'[g]]
  /\ life'[g] # "none"
  /\ life'[g] = "transports" => life[g] \in {"none", "transports"}
  /\ life'[g] = "transports" /\ kind \notin {"socket", "fifo"} => serve'[g] = "none"
  /\ life[g] = "none" => \A h \in Runs : h < g => life[h] \in {"exited", "over"}
  /\ life[g] \in {"exited", "over"} => life'[g] \in {"exited", "over"}
  /\ life[g] \in {"exited", "over"} /\ serve[g] \in Ended => serve'[g] = serve[g] /\ name' = name
  /\ \/ apart' = apart
     \/ /\ apart' = apart \cup {g}
        /\ \A h \in Runs : serve[h] \in Ended
        /\ Transports(g)

LEMMA StepIsLocal ==
  ASSUME TypeInv, Ordered, NEW g \in Runs, Transports(g) \/ Goroutine(g) \/ Service(g)
  PROVE  Local(g)
<1> USE DEF TypeInv, Ordered, Local, Ended, data, Goes, At
<1>1. CASE Transports(g)
  BY <1>1 DEF Transports
<1>2. CASE Spawn(g)
  BY <1>2 DEF Spawn
<1>3. CASE SpawnFails(g)
  BY <1>3 DEF SpawnFails
<1>4. CASE Dies(g)
  BY <1>4 DEF Dies
<1>5. CASE Waited(g)
  BY <1>5 DEF Waited
<1>6. CASE Cancel(g)
  BY <1>6 DEF Cancel
<1>7. CASE RemoveOld(g)
  BY <1>7 DEF RemoveOld
<1>8. CASE Make(g)
  BY <1>8 DEF Make
<1>9. CASE Chmod(g)
  BY <1>9 DEF Chmod
<1>10. CASE CloseSocket(g)
  BY <1>10 DEF CloseSocket
<1>11. CASE ListenPort(g)
  BY <1>11 DEF ListenPort
<1>12. CASE Shutdown(g)
  BY <1>12 DEF Shutdown
<1>13. CASE ServiceListens(g)
  BY <1>13 DEF ServiceListens
<1>14. CASE Dialled(g)
  BY <1>14 DEF Dialled
<1>15. CASE ScraperEnds(g)
  BY <1>15 DEF ScraperEnds
<1>16. CASE OpenFifo(g)
  BY <1>16 DEF OpenFifo
<1>17. CASE Opened(g)
  BY <1>17 DEF Opened
<1>18. CASE Loop(g)
  BY <1>18 DEF Loop
<1>19. CASE Decode(g)
  BY <1>19 DEF Decode
<1>20. CASE EndOfFile(g)
  BY <1>20 DEF EndOfFile
<1>21. CASE ServiceOpens(g)
  BY <1>21 DEF ServiceOpens
<1>22. CASE Capture(g)
  BY <1>22 DEF Capture
<1>23. CASE CaptureEnds(g)
  BY <1>23 DEF CaptureEnds
<1>24. CASE ServiceWrites(g)
  BY <1>24 DEF ServiceWrites
<1> QED
  BY <1>1, <1>2, <1>3, <1>4, <1>5, <1>6, <1>7, <1>8, <1>9, <1>10, <1>11, <1>12, <1>13, <1>14, <1>15, <1>16, <1>17, <1>18, <1>19, <1>20, <1>21, <1>22, <1>23, <1>24 DEF Goroutine, Service, RunStep, SocketStep,
     PortStep, ScrapeStep, TracerStep, OutputStep

LEMMA OrderedStep ==
  ASSUME TypeInv, TypeInv', Ordered, NEW g \in Runs, Local(g)
  PROVE  Ordered'
<1>1. ASSUME NEW h \in Runs, NEW k \in Runs, h < k, life'[k] # "none"
      PROVE  life'[h] \in {"exited", "over"}
  <2>1. CASE k = g
    BY <1>1, <2>1 DEF Local, Ordered, TypeInv, Runs
  <2>2. CASE k # g
    BY <1>1, <2>2 DEF Local, Ordered, TypeInv, Runs
  <2> QED BY <2>1, <2>2
<1>2. ASSUME NEW h \in Runs,
             life'[h] = "none" \/ (life'[h] = "transports" /\ kind' \notin {"socket", "fifo"})
      PROVE  serve'[h] = "none"
  BY <1>2 DEF Local, Ordered, TypeInv
<1> QED
  BY <1>1, <1>2 DEF Ordered, Runs

LEMMA AloneStep ==
  ASSUME TypeInv, Ordered, Alone, NEW g \in Runs, Local(g)
  PROVE  Alone'
<1> SUFFICES ASSUME NEW k \in apart'
             PROVE  life'[k] # "none" /\ \A h \in Runs : h < k => serve'[h] \in Ended
  BY DEF Alone, Runs, Ended
<1>1. CASE k \in apart
  <2>1. life'[k] # "none"
    BY <1>1 DEF Alone, Local, TypeInv
  <2>2. ASSUME NEW h \in Runs, h < k PROVE serve'[h] \in Ended
    BY <1>1, <2>2 DEF Alone, Local, TypeInv, Ordered
  <2> QED BY <2>1, <2>2
<1>2. CASE k \notin apart
  <2>1. k = g /\ \A h \in Runs : serve[h] \in Ended
    BY <1>2 DEF Local
  <2>2. \A h \in Runs : h # g => serve'[h] = serve[h]
    BY DEF Local, TypeInv
  <2> QED
    BY <2>1, <2>2 DEF Local, Runs
<1> QED BY <1>1, <1>2
-----------------------------------------------------------------------------

LEMMA HeldStep ==
  ASSUME TypeInv, Ordered, Held, NEW g \in Runs, Transports(g) \/ Goroutine(g) \/ Service(g)
  PROVE  Held'
<1> USE EndpointsAssumption DEF TypeInv, Held, data, Goes, At, Runs
<1>1. CASE Transports(g)
  <2>1. kind' = kind /\ (kind = "port" => name' = name /\ serve' = serve)
    BY <1>1 DEF Transports
  <2> QED
    BY <2>1
<1>2. CASE Spawn(g)
  <2>1. kind' = kind /\ name' = name
    BY <1>2 DEF Spawn
  <2>2. kind = "port" => Goes(g, "spawned") /\ serve[g] = "none"
    BY <1>2 DEF Spawn, Ordered
  <2> QED
    BY <2>1, <2>2
<1>3. CASE SpawnFails(g)
  BY <1>3 DEF SpawnFails
<1>4. CASE Dies(g)
  BY <1>4 DEF Dies
<1>5. CASE Waited(g)
  BY <1>5 DEF Waited
<1>6. CASE Cancel(g)
  BY <1>6 DEF Cancel
<1>7. CASE RemoveOld(g)
  BY <1>7 DEF RemoveOld
<1>8. CASE Make(g)
  BY <1>8 DEF Make
<1>9. CASE Chmod(g)
  BY <1>9 DEF Chmod
<1>10. CASE CloseSocket(g)
  BY <1>10 DEF CloseSocket
<1>11. CASE ListenPort(g)
  BY <1>11 DEF ListenPort
<1>12. CASE Shutdown(g)
  BY <1>12 DEF Shutdown
<1>13. CASE ServiceListens(g)
  BY <1>13 DEF ServiceListens
<1>14. CASE Dialled(g)
  BY <1>14 DEF Dialled
<1>15. CASE ScraperEnds(g)
  BY <1>15 DEF ScraperEnds
<1>16. CASE OpenFifo(g)
  BY <1>16 DEF OpenFifo
<1>17. CASE Opened(g)
  BY <1>17 DEF Opened
<1>18. CASE Loop(g)
  BY <1>18 DEF Loop
<1>19. CASE Decode(g)
  BY <1>19 DEF Decode
<1>20. CASE EndOfFile(g)
  BY <1>20 DEF EndOfFile
<1>21. CASE ServiceOpens(g)
  BY <1>21 DEF ServiceOpens
<1>22. CASE Capture(g)
  BY <1>22 DEF Capture
<1>23. CASE CaptureEnds(g)
  BY <1>23 DEF CaptureEnds
<1>24. CASE ServiceWrites(g)
  BY <1>24 DEF ServiceWrites
<1> QED
  BY <1>1, <1>2, <1>3, <1>4, <1>5, <1>6, <1>7, <1>8, <1>9, <1>10, <1>11, <1>12, <1>13, <1>14, <1>15, <1>16, <1>17, <1>18, <1>19, <1>20, <1>21, <1>22, <1>23, <1>24 DEF Goroutine, Service, RunStep, SocketStep,
     PortStep, ScrapeStep, TracerStep, OutputStep

\* What Opening and OwnsItsName say of one run.
Own(g) ==
  life[g] \in {"transports", "running"} =>
    /\ kind \in {"socket", "fifo"} =>
         /\ serve[g] = "removed" => name = NoFile
         /\ serve[g] = "made" => name = g
    /\ kind = "scrape" => name \in {NoFile, g}
    /\ serve[g] # "failed"
    /\ kind # "output" /\ serve[g] \in {"opening", "open", "decode", "stuck"} => name = g

\* The run that takes the step: nobody else has an open endpoint.
LEMMA OwnStep ==
  ASSUME TypeInv, TypeInv', Ordered, Alone, Held, NEW g \in apart', g \in apart => Own(g), Local(g),
         Transports(g) \/ Goroutine(g) \/ Service(g)
  PROVE  Own(g)'
<1> SUFFICES ASSUME life'[g] \in {"transports", "running"} PROVE Own(g)'
  BY DEF Own
<1>0. g \in Runs
  BY DEF TypeInv
<1> USE <1>0, EndpointsAssumption DEF TypeInv, Own, data, Goes, At, Runs
<1>1. CASE Transports(g)
  <2>1. g \in Runs /\ serve[g] = "none"
    BY <1>1 DEF Transports, Ordered
  <2> QED
    BY <1>1, <2>1 DEF Transports
<1>2. g \in apart \/ Transports(g)
  BY DEF Local
<1>3. CASE Spawn(g)
  BY <1>3, <1>2 DEF Spawn
<1>4. CASE SpawnFails(g)
  BY <1>4, <1>2 DEF SpawnFails
<1>5. CASE Dies(g)
  BY <1>5, <1>2 DEF Dies
<1>6. CASE Waited(g)
  BY <1>6, <1>2 DEF Waited
<1>7. CASE Cancel(g)
  BY <1>7, <1>2 DEF Cancel
<1>8. CASE RemoveOld(g)
  BY <1>8, <1>2 DEF RemoveOld
<1>9. CASE Make(g)
  BY <1>9, <1>2 DEF Make
<1>10. CASE Chmod(g)
  BY <1>10, <1>2 DEF Chmod
<1>11. CASE CloseSocket(g)
  BY <1>11, <1>2 DEF CloseSocket
<1>12. CASE ListenPort(g)
  <2>1. kind = "port" /\ serve[g] = "spawned" /\ g \in apart /\ life[g] \in {"transports", "running"}
    BY <1>2, <1>12 DEF ListenPort, Transports, Ordered
  <2>2. \A h \in Runs : serve[h] # "open"
    BY <2>1, OnlyOne DEF Ended
  <2>3. name = NoFile
    BY <2>1, <2>2 DEF Held
  <2> QED
    BY <1>12, <2>1, <2>3 DEF ListenPort
<1>13. CASE Shutdown(g)
  BY <1>13, <1>2 DEF Shutdown
<1>14. CASE ServiceListens(g)
  BY <1>14, <1>2 DEF ServiceListens
<1>15. CASE Dialled(g)
  BY <1>15, <1>2 DEF Dialled
<1>16. CASE ScraperEnds(g)
  BY <1>16, <1>2 DEF ScraperEnds
<1>17. CASE OpenFifo(g)
  BY <1>17, <1>2 DEF OpenFifo
<1>18. CASE Opened(g)
  BY <1>18, <1>2 DEF Opened
<1>19. CASE Loop(g)
  BY <1>19, <1>2 DEF Loop
<1>20. CASE Decode(g)
  BY <1>20, <1>2 DEF Decode
<1>21. CASE EndOfFile(g)
  BY <1>21, <1>2 DEF EndOfFile
<1>22. CASE ServiceOpens(g)
  BY <1>22, <1>2 DEF ServiceOpens
<1>23. CASE Capture(g)
  BY <1>23, <1>2 DEF Capture
<1>24. CASE CaptureEnds(g)
  BY <1>24, <1>2 DEF CaptureEnds
<1>25. CASE ServiceWrites(g)
  BY <1>25, <1>2 DEF ServiceWrites
<1> QED
  BY <1>1, <1>3, <1>4, <1>5, <1>6, <1>7, <1>8, <1>9, <1>10, <1>11, <1>12, <1>13, <1>14, <1>15, <1>16, <1>17, <1>18, <1>19, <1>20, <1>21, <1>22, <1>23, <1>24, <1>25 DEF Goroutine, Service, RunStep, SocketStep,
     PortStep, ScrapeStep, TracerStep, OutputStep

LEMMA IInvInitially == Init => IInv
  BY EndpointsAssumption
  DEF Init, IInv, TypeInv, Lives, Places, Ordered, Alone, Held, Opening, OwnsItsName

LEMMA IInvInductive == IInv /\ [Next]_vars => IInv'
<1> SUFFICES ASSUME IInv, [Next]_vars PROVE IInv'
  OBVIOUS
<1>1. CASE UNCHANGED vars
  BY <1>1 DEF vars, IInv, TypeInv, Ordered, Alone, Held, Opening, OwnsItsName
<1>2. ASSUME NEW g \in Runs, Transports(g) \/ Goroutine(g) \/ Service(g) PROVE IInv'
  <2>1. TypeInv'
    BY TypeStep, <1>2 DEF IInv, Next
  <2>2. Local(g)
    BY StepIsLocal, <1>2 DEF IInv
  <2>3. Ordered' /\ Alone' /\ Held'
    BY <1>2, <2>1, <2>2, OrderedStep, AloneStep, HeldStep DEF IInv
  <2>4. ASSUME NEW h \in apart' PROVE Own(h)'
    <3>1. h \in apart => Own(h)
      BY DEF IInv, Opening, OwnsItsName, Own
    <3>2. CASE h = g
      BY <1>2, <2>1, <2>2, <2>4, <3>1, <3>2, OwnStep DEF IInv
    <3>3. CASE h # g /\ life'[h] \in {"transports", "running"}
      <4>1. h \in Runs /\ h \in apart /\ life[h] = life'[h] /\ serve[h] = serve'[h]
        BY <2>1, <2>2, <3>3 DEF Local, IInv, TypeInv
      <4>2. serve[g] \in Ended /\ life[g] \in {"none", "exited", "over"}
        BY <3>3, <4>1, OnlyOne DEF IInv
      <4>3. life[g] # "none"
        BY <2>1, <2>2, <2>3, <3>3, <4>1 DEF Local, IInv, Ordered, TypeInv, Runs
      <4>4. name' = name
        BY <2>2, <4>2, <4>3 DEF Local
      <4>5. kind' = kind
        BY <2>2 DEF Local
      <4> QED
        BY <3>1, <4>1, <4>4, <4>5 DEF Own
    <3> QED
      BY <3>2, <3>3 DEF Own
  <2> QED
    BY <2>1, <2>3, <2>4 DEF IInv, Opening, OwnsItsName, Own
<1> QED
  BY <1>1, <1>2 DEF Next

\* A run that began when the endpoints of the runs before it were closed makes
\* each of its own, and has its name while its process is awaited or runs
\* (transport/socket.go:23-38, 67-73, transport/httpproxy/proxy.go:44-54).
THEOREM RunOwnsItsName == Spec => []OwnsItsName
<1>1. IInv => OwnsItsName
  BY DEF IInv
<1> QED
  BY <1>1, IInvInitially, IInvInductive, PTL DEF Spec

-----------------------------------------------------------------------------
(* What a process writes, and what the stores get of it *)

Early == {"none", "spawned"}
Reading == {"opening", "open", "decode", "stuck"}
WriteKinds == {"good", "odd", "broken", "cut"}

DataType ==
  /\ reader \in [Runs -> Runs \cup {NoFile}]
  /\ writer \in [Runs -> Runs \cup {NoFile, Leftover}]
  /\ pipe \in [Runs -> Seq(Runs \X Nat)]
  /\ written \in [Runs -> Seq(WriteKinds)]
  /\ stored \in Seq(Runs \X Nat)

\* Who has opened what: a process nothing before it runs, and in the end its own
\* pipe or the FIFO of a run that began before.
Ways ==
  /\ \A h \in Runs : life[h] \in {"none", "transports"} => writer[h] = NoFile
  /\ \A h \in Runs : serve[h] \in {"none", "spawned", "removed", "made"} => reader[h] = NoFile
  /\ \A h \in Runs : writer[h] \in Runs => writer[h] <= h
  /\ kind = "output" => \A h \in Runs : writer[h] \in {NoFile, h}
  /\ kind # "fifo" => \A h \in Runs : reader[h] = NoFile
  /\ kind \notin {"fifo", "output"} => \A h \in Runs : writer[h] = NoFile

\* Nobody has a FIFO that is not made yet.
Fifos ==
  kind = "fifo" =>
    /\ \A h \in Runs : serve[h] \in {"none", "spawned", "removed"} =>
         name # h /\ \A r \in Runs : reader[r] # h /\ writer[r] # h
    /\ name = Leftover => \A r \in Runs : serve[r] \in Early
    /\ \A r \in Runs : serve[r] \in Reading => reader[r] \in Runs

\* Of a run in apart: nobody who still reads has an older FIFO, and nobody else
\* has the one its process writes to.
Unshared(g) ==
  /\ name \in Runs /\ name < g => \A r \in Runs : r >= g => serve[r] \in Early
  /\ \A r \in Runs : r >= g /\ reader[r] \in Runs => reader[r] >= g
  /\ \A r \in Runs : r < g => reader[r] # g
  /\ writer[g] = g => \A r \in Runs : r > g => reader[r] # g
  /\ writer[g] = g /\ name = g => \A r \in Runs : r > g => serve[r] \in Early

Unmixed == kind = "fifo" => \A g \in apart : Unshared(g)

NamesInv == Ways /\ Fifos /\ Unmixed

names == <<name, reader, writer>>

\* What a step of a run makes of the names.
Quiet(g) ==
  /\ UNCHANGED names
  /\ \/ serve'[g] = serve[g]
     \/ serve[g] = "none" /\ serve'[g] = "spawned"
     \/ serve[g] \in Reading /\ serve'[g] \in Reading \cup {"closed", "leaked"}

Naming(g) == Quiet(g) \/ RemoveOld(g) \/ Make(g) \/ OpenFifo(g) \/ ServiceOpens(g)

LEMMA FifoNaming ==
  ASSUME TypeInv, Ordered, NEW g \in Runs, Transports(g) \/ Goroutine(g) \/ Service(g), kind = "fifo"
  PROVE  Naming(g)
<1> USE DEF TypeInv, Ordered, data, names, Goes, At, Reading, Ended, Quiet, Naming
<1>1. CASE Transports(g)
  BY <1>1 DEF Transports
<1>2. CASE RunStep(g)
  BY <1>2 DEF RunStep, Spawn, SpawnFails, Waited, Cancel
<1>3. CASE SocketStep(g)
  BY <1>3 DEF SocketStep, Chmod, CloseSocket
<1>4. CASE PortStep(g) \/ ScrapeStep(g) \/ OutputStep(g)
  BY <1>4 DEF PortStep, ListenPort, Shutdown, ScrapeStep, Dialled, ScraperEnds, OutputStep, Capture, CaptureEnds
<1>5. CASE TracerStep(g)
  BY <1>5 DEF TracerStep, Opened, Loop, Decode, EndOfFile
<1>6. CASE Service(g)
  BY <1>6 DEF Service, Dies, ServiceListens, ServiceWrites
<1> QED
  BY <1>1, <1>2, <1>3, <1>4, <1>5, <1>6 DEF Goroutine

\* Where there are no FIFOs, a process gets its pipe and nobody opens anything.
LEMMA OtherNaming ==
  ASSUME TypeInv, Ordered, NEW g \in Runs, Transports(g) \/ Goroutine(g) \/ Service(g), kind # "fifo"
  PROVE  /\ reader' = reader
         /\ \/ writer' = writer
            \/ kind = "output" /\ writer' = [writer EXCEPT ![g] = g] /\ life'[g] = "running"
<1> USE DEF TypeInv, data, At
<1>1. CASE Transports(g)
  BY <1>1 DEF Transports
<1>2. CASE RunStep(g)
  BY <1>2 DEF RunStep, Spawn, SpawnFails, Waited, Cancel
<1>3. CASE SocketStep(g)
  BY <1>3 DEF SocketStep, RemoveOld, Make, Chmod, CloseSocket
<1>4. CASE PortStep(g) \/ ScrapeStep(g) \/ OutputStep(g)
  BY <1>4 DEF PortStep, ListenPort, Shutdown, ScrapeStep, Dialled, ScraperEnds, OutputStep, Capture, CaptureEnds
<1>5. CASE TracerStep(g)
  BY <1>5 DEF TracerStep, OpenFifo, Opened, Loop, Decode, EndOfFile
<1>6. CASE Service(g)
  BY <1>6 DEF Service, Dies, ServiceListens, ServiceOpens, ServiceWrites
<1> QED
  BY <1>1, <1>2, <1>3, <1>4, <1>5, <1>6 DEF Goroutine

LEMMA WaysStep ==
  ASSUME TypeInv, TypeInv', Ordered, Ordered', DataType, Ways, Fifos, NEW g \in Runs, Local(g),
         Transports(g) \/ Goroutine(g) \/ Service(g)
  PROVE  Ways'
<1>0. /\ kind' = kind
      /\ \A h \in Runs : life'[h] \in {"none", "transports"} => life[h] \in {"none", "transports"}
      /\ \A h \in Runs : h # g => serve'[h] = serve[h]
  BY DEF Local, TypeInv
<1>1. CASE kind # "fifo"
  <2>1. reader' = reader /\ \A h \in Runs : reader[h] = NoFile
    BY <1>1, OtherNaming DEF Ways
  <2>2. CASE writer' = writer
    BY <1>0, <1>1, <2>1, <2>2 DEF Ways
  <2>3. CASE kind = "output" /\ writer' = [writer EXCEPT ![g] = g] /\ life'[g] = "running"
    <3>1. \A h \in Runs : writer'[h] = IF h = g THEN g ELSE writer[h]
      BY <2>3 DEF DataType
    <3>2. g <= g
      BY DEF Runs
    <3> QED
      BY <1>0, <1>1, <2>1, <2>3, <3>1, <3>2 DEF Ways
  <2> QED
    BY <1>1, <2>2, <2>3, OtherNaming
<1>2. CASE kind = "fifo"
  <2> USE DEF TypeInv, DataType, Reading, Ended, data, Goes, At, names
  <2>1. Naming(g) /\ kind' = "fifo"
    BY <1>2, FifoNaming DEF Local
  <2>2. CASE Quiet(g)
    <3>1. serve'[g] \in {"none", "spawned", "removed", "made"} => reader[g] = NoFile
      BY <2>2 DEF Quiet, Ways
    <3>2. UNCHANGED <<reader, writer>>
      BY <2>2 DEF Quiet
    <3> QED
      BY <1>0, <2>1, <3>1, <3>2 DEF Ways
  <2>3. CASE RemoveOld(g)
    BY <2>1, <2>3 DEF Ways, RemoveOld
  <2>4. CASE Make(g)
    BY <2>1, <2>4 DEF Ways, Make
  <2>5. CASE OpenFifo(g)
    BY <2>1, <2>5 DEF Ways, OpenFifo
  <2>6. CASE ServiceOpens(g)
    <3>1. life[g] = "running" /\ writer' = [writer EXCEPT ![g] = name] /\ UNCHANGED <<life, serve, reader>>
      BY <2>6 DEF ServiceOpens
    <3>2. ASSUME name \in Runs PROVE name <= g
      <4>1. ASSUME name > g PROVE FALSE
        <5>1. serve[name] = "none"
          BY <3>1, <3>2, <4>1 DEF Ordered
        <5> QED
          BY <1>2, <3>2, <5>1 DEF Fifos
      <4> QED
        BY <3>2, <4>1 DEF Runs
    <3> QED
      BY <2>1, <3>1, <3>2, EndpointsAssumption DEF Ways
  <2> QED
    BY <2>1, <2>2, <2>3, <2>4, <2>5, <2>6 DEF Naming
<1> QED
  BY <1>1, <1>2

LEMMA FifosStep ==
  ASSUME TypeInv, TypeInv', Ordered, DataType, Ways, Fifos, NEW g \in Runs, Local(g),
         Transports(g) \/ Goroutine(g) \/ Service(g)
  PROVE  Fifos'
<1> SUFFICES ASSUME kind = "fifo" PROVE Fifos'
  BY DEF Fifos, Local
<1> USE EndpointsAssumption DEF TypeInv, DataType, Early, Reading, Ended, data, Goes, At, names, Fifos
<1>1. Naming(g) /\ kind' = "fifo"
  BY FifoNaming DEF Local
<1>0. \A h \in Runs : h # g => serve'[h] = serve[h]
  BY DEF Local
<1>2. CASE Quiet(g)
  <2>1. UNCHANGED <<name, reader, writer>>
    BY <1>2 DEF Quiet
  <2>2. serve'[g] \in {"none", "spawned", "removed"} => serve[g] \in {"none", "spawned", "removed"}
    BY <1>2 DEF Quiet
  <2>3. serve'[g] \in Reading => reader[g] \in Runs
    BY <1>2 DEF Quiet
  <2>4. serve[g] \in Early => serve'[g] \in Early
    BY <1>2 DEF Quiet
  <2> QED
    BY <1>0, <1>1, <2>1, <2>2, <2>3, <2>4
<1>3. CASE RemoveOld(g)
  BY <1>1, <1>3, ZenonT(30) DEF RemoveOld, Runs
<1>4. CASE Make(g)
  <2>1. UNCHANGED <<reader, writer>> /\ serve[g] = "removed" /\ serve'[g] \in {"made", "failed"}
    BY <1>4 DEF Make
  <2>2. name' = name \/ (name' = g /\ serve'[g] = "made")
    BY <1>4 DEF Make
  <2>3. name # Leftover /\ g # Leftover
    BY <1>1, <2>1 DEF Runs
  <2> QED
    BY <1>0, <1>1, <2>1, <2>2, <2>3
<1>5. CASE OpenFifo(g)
  <2>1. UNCHANGED <<name, writer>> /\ serve[g] = "made"
    BY <1>5 DEF OpenFifo
  <2>2. name # Leftover
    BY <1>1, <2>1
  <2>3. CASE name = NoFile
    <3>1. serve'[g] = "failed" /\ reader' = reader
      BY <1>5, <2>3 DEF OpenFifo
    <3> QED
      BY <1>0, <1>1, <2>1, <3>1
  <2>4. CASE name # NoFile
    <3>1. name \in Runs /\ serve'[g] = "opening" /\ reader' = [reader EXCEPT ![g] = name]
      BY <1>5, <2>2, <2>4 DEF OpenFifo
    <3>2. \A r \in Runs : reader'[r] = IF r = g THEN name ELSE reader[r]
      BY <3>1
    <3>3. \A h \in Runs : serve'[h] \in {"none", "spawned", "removed"} => serve[h] \in {"none", "spawned", "removed"}
      BY <1>0, <3>1
    <3> QED
      BY <1>0, <1>1, <2>1, <2>2, <3>1, <3>2, <3>3
  <2> QED
    BY <2>3, <2>4
<1>6. CASE ServiceOpens(g)
  BY <1>1, <1>6 DEF ServiceOpens
<1> QED
  BY <1>1, <1>2, <1>3, <1>4, <1>5, <1>6 DEF Naming

LEMMA UnmixedStep ==
  ASSUME TypeInv, TypeInv', Ordered, Alone, DataType, Ways, Fifos, Unmixed, NEW g \in Runs, Local(g),
         Transports(g) \/ Goroutine(g) \/ Service(g)
  PROVE  Unmixed'
<1> SUFFICES ASSUME kind = "fifo", NEW a \in apart' PROVE Unshared(a)'
  BY DEF Unmixed, Local
<1>0. /\ a \in Runs /\ name \in Runs \cup {NoFile, Leftover} /\ Naming(g) /\ NoFile \notin Runs /\ Leftover \notin Runs
      /\ \A h \in Runs : h # g => serve'[h] = serve[h]
      /\ \A h \in Runs : serve[h] \in Places
  BY FifoNaming, EndpointsAssumption DEF TypeInv, Local, Runs
<1>1. CASE a \notin apart
  <2>1. a = g /\ Transports(g) /\ serve[g] = "none" /\ (\A h \in Runs : h > g => serve[h] = "none")
    BY <1>1 DEF Local, Transports, Ordered, TypeInv
  <2>2. UNCHANGED <<name, reader, writer>> /\ serve' = [serve EXCEPT ![g] = "spawned"]
    BY <2>1 DEF Transports, data, Goes
  <2>3. \A r \in Runs : r >= g => serve[r] = "none" /\ reader[r] = NoFile
    BY <2>1 DEF Ways, Runs
  <2>4. writer[g] = NoFile /\ \A r \in Runs : reader[r] # g
    BY <2>1 DEF Ways, Fifos, Transports
  <2>5. \A r \in Runs : r >= g => serve'[r] \in Early
    BY <2>2, <2>3 DEF Early, TypeInv
  <2> QED
    BY <1>0, <2>1, <2>2, <2>3, <2>4, <2>5 DEF Unshared
<1>2. CASE a \in apart
  <2>1. Unshared(a) /\ \A h \in Runs : h < a => serve[h] \in Ended
    BY <1>2 DEF Unmixed, Alone
  <2>2. CASE Quiet(g)
    <3>1. UNCHANGED <<name, reader, writer>> /\ (serve[g] \in Early => serve'[g] \in Early)
      BY <2>2 DEF Quiet, names, Early, Reading
    <3>2. \A h \in Runs : serve[h] \in Early => serve'[h] \in Early
      BY <1>0, <3>1
    <3> QED
      BY <2>1, <3>1, <3>2 DEF Unshared
  <2>3. CASE RemoveOld(g)
    <3>1. UNCHANGED <<reader, writer>> /\ name' = NoFile
      BY <2>3 DEF RemoveOld, data
    <3> QED
      BY <1>0, <2>1, <3>1 DEF Unshared
  <2>4. CASE Make(g)
    <3>1. /\ UNCHANGED <<reader, writer>> /\ serve[g] = "removed" 
          /\ (name' = name /\ serve'[g] = "failed") \/ name' = g
      BY <2>4 DEF Make, data, At, Goes, TypeInv
    <3>2. g >= a /\ writer[g] # g
      BY <1>0, <2>1, <3>1 DEF Fifos, Ended, Runs
    <3>3. CASE name' = g
      BY <1>0, <2>1, <3>1, <3>2, <3>3 DEF Unshared, Runs
    <3>4. CASE name' = name
      <4>1. ~(name \in Runs /\ name < a)
        BY <2>1, <3>1, <3>2 DEF Unshared, Early
      <4>2. ~(writer[a] = a /\ name = a) \/ g = a
        <5>1. g > a \/ g = a
          BY <1>0, <3>2 DEF Runs
        <5> QED
          BY <2>1, <3>1, <5>1 DEF Unshared, Early
      <4> QED
        BY <2>1, <3>1, <3>2, <3>4, <4>1, <4>2 DEF Unshared
    <3> QED
      BY <3>1, <3>3, <3>4
  <2>5. CASE OpenFifo(g)
    <3>1. /\ UNCHANGED <<name, writer>> /\ serve[g] = "made"
          /\ reader' = reader \/ reader' = [reader EXCEPT ![g] = name]
          /\ serve'[g] # "none"
      BY <2>5 DEF OpenFifo, data, At, Goes, TypeInv
    <3>2. g >= a
      BY <1>0, <2>1, <3>1 DEF Ended, Runs
    <3>3. ~(name \in Runs /\ name < a) /\ (g > a => ~(writer[a] = a /\ name = a))
      BY <2>1, <3>1, <3>2 DEF Unshared, Early
    <3>4. \A r \in Runs : r # g => reader'[r] = reader[r]
      BY <3>1 DEF DataType
    <3>5. reader'[g] \in {reader[g], name}
      BY <3>1 DEF DataType
    <3>6. /\ \A r \in Runs : r >= a /\ reader'[r] \in Runs => reader'[r] >= a
          /\ \A r \in Runs : r < a => reader'[r] # a
          /\ writer[a] = a => \A r \in Runs : r > a => reader'[r] # a
      BY <1>0, <2>1, <3>2, <3>3, <3>4, <3>5 DEF Unshared, Runs
    <3> QED
      BY <1>0, <2>1, <3>1, <3>2, <3>3, <3>6 DEF Unshared, Early
  <2>6. CASE ServiceOpens(g)
    <3>1. UNCHANGED <<name, reader, serve>> /\ writer' = [writer EXCEPT ![g] = name] /\ life[g] = "running"
      BY <2>6 DEF ServiceOpens
    <3>2. \A r \in Runs : r > g => serve[r] = "none" /\ reader[r] = NoFile
      BY <3>1 DEF Ordered, Ways
    <3>3. a # g => writer'[a] = writer[a]
      BY <1>0, <3>1 DEF DataType
    <3> QED
      BY <1>0, <2>1, <3>1, <3>2, <3>3 DEF Unshared, Early
  <2> QED
    BY <1>0, <2>2, <2>3, <2>4, <2>5, <2>6 DEF Naming
<1> QED
  BY <1>1, <1>2

-----------------------------------------------------------------------------
(* The records of one run, written as w to a pipe that holds q, stored in s *)

RunRecord == Runs \X Nat

Shown(w, n) == w[n] = "good" /\ \A m \in 1 .. n : w[m] # "broken"

\* The first k of the pipe are the next to b; whoever else writes to it comes later.
Piped(g, b, k, q, w) ==
  /\ b \in Nat /\ k \in Nat /\ k <= Len(q) /\ b + k <= Len(w)
  /\ \A i \in 1 .. k : q[i] = <<g, b + i>>
  /\ \A i \in k + 1 .. Len(q) : q[i][1] # g

\* Of the first b, those that can be read are stored, in order.
Told(g, b, w, s) ==
  /\ \A i \in 1 .. Len(s) : s[i][1] = g =>
       s[i][2] \in 1 .. b /\ (w[s[i][2]] = "cut" \/ Shown(w, s[i][2]))
  /\ \A n \in 1 .. b : Shown(w, n) => \E i \in 1 .. Len(s) : s[i] = <<g, n>>
  /\ \A i, j \in 1 .. Len(s) : i < j /\ s[i][1] = g /\ s[j][1] = g => s[i][2] < s[j][2]

\* The last one is cut, if any; nobody reads on from one that cannot be read.
Marked(b, k, w, l, v) ==
  /\ l = "running" => b + k = Len(w)
  /\ \A n \in 1 .. Len(w) : w[n] = "cut" => n = b + k /\ l \in {"exited", "over"}
  /\ \A n \in 1 .. b : w[n] = "broken" => v \in {"stuck", "closed"}

Flow(g, b, k, q, w, s, l, v) ==
  /\ Piped(g, b, k, q, w) /\ Told(g, b, w, s) /\ Marked(b, k, w, l, v)
  /\ l = "running" => k = Len(q)

LEMMA Appended ==
  ASSUME NEW S, NEW s \in Seq(S), NEW r \in S, NEW t, t = Append(s, r)
  PROVE  /\ t \in Seq(S) /\ Len(t) = Len(s) + 1 /\ Len(s) \in Nat
         /\ t[Len(s) + 1] = r /\ \A i \in 1 .. Len(s) : t[i] = s[i]
  BY AppendProperties, LenProperties

LEMMA Tailed ==
  ASSUME NEW S, NEW q \in Seq(S), q # <<>>, NEW t, t = Tail(q)
  PROVE  /\ t \in Seq(S) /\ Len(q) \in Nat /\ Len(q) >= 1 /\ Len(t) = Len(q) - 1 /\ Head(q) = q[1] /\ q[1] \in S
         /\ \A i \in 1 .. Len(t) : t[i] = q[i + 1]
  BY HeadTailProperties, LenProperties, EmptySeq, ElementOfSeq

\* What another run's record changes, and the next one's own.
LEMMA ToldOther ==
  ASSUME NEW g, NEW b \in Nat, NEW w, NEW s \in Seq(RunRecord), Told(g, b, w, s),
         NEW r \in RunRecord, r[1] # g, NEW t, t = Append(s, r)
  PROVE  Told(g, b, w, t)
<1>1. PICK n \in Nat : n = Len(s) /\ Len(t) = n + 1 /\ t[n + 1] = r /\ \A i \in 1 .. n : t[i] = s[i]
  BY Appended
<1>2. \A i \in 1 .. n + 1 : t[i][1] = g => i \in 1 .. n /\ t[i] = s[i]
  BY <1>1
<1>3. \A i \in 1 .. n : i \in 1 .. n + 1
  BY <1>1
<1>4. \A i \in 1 .. n + 1 : t[i][1] = g => t[i][2] \in 1 .. b /\ (w[t[i][2]] = "cut" \/ Shown(w, t[i][2]))
  BY <1>1, <1>2 DEF Told
<1>5. ASSUME NEW m \in 1 .. b, Shown(w, m) PROVE \E i \in 1 .. n + 1 : t[i] = <<g, m>>
  <2>1. PICK i \in 1 .. n : s[i] = <<g, m>>
    BY <1>1, <1>5 DEF Told
  <2> QED
    BY <1>1, <1>3, <2>1
<1>6. ASSUME NEW i \in 1 .. n + 1, NEW j \in 1 .. n + 1, i < j, t[i][1] = g, t[j][1] = g PROVE t[i][2] < t[j][2]
  <2>1. i \in 1 .. n /\ t[i] = s[i] /\ j \in 1 .. n /\ t[j] = s[j]
    BY <1>2, <1>6
  <2> QED
    BY <1>1, <1>6, <2>1 DEF Told
<1> QED
  BY <1>1, <1>4, <1>5, <1>6 DEF Told

LEMMA ToldNext ==
  ASSUME NEW g, NEW b \in Nat, NEW w, NEW s \in Seq(RunRecord), Told(g, b, w, s), <<g, b + 1>> \in RunRecord,
         w[b + 1] = "cut" \/ w[b + 1] = "good", \A m \in 1 .. b : w[m] # "broken",
         NEW t, t = Append(s, <<g, b + 1>>)
  PROVE  Told(g, b + 1, w, t)
<1>1. PICK n \in Nat : n = Len(s) /\ Len(t) = n + 1 /\ t[n + 1] = <<g, b + 1>> /\ \A i \in 1 .. n : t[i] = s[i]
  <2>1. PICK r \in RunRecord : r = <<g, b + 1>>
    OBVIOUS
  <2> QED
    BY <2>1, Appended, SMTT(30)
<1>2. w[b + 1] = "cut" \/ Shown(w, b + 1)
  BY DEF Shown
<1>3. ASSUME NEW i \in 1 .. n + 1, t[i][1] = g
      PROVE  t[i][2] \in 1 .. b + 1 /\ (w[t[i][2]] = "cut" \/ Shown(w, t[i][2]))
  <2>1. CASE i = n + 1
    BY <1>1, <1>2, <2>1
  <2>2. CASE i # n + 1
    <3>1. i \in 1 .. n /\ t[i] = s[i]
      BY <1>1, <2>2
    <3> QED
      BY <1>1, <1>3, <3>1 DEF Told
  <2> QED
    BY <2>1, <2>2
<1>4. ASSUME NEW m \in 1 .. b + 1, Shown(w, m) PROVE \E i \in 1 .. n + 1 : t[i] = <<g, m>>
  <2>1. CASE m = b + 1
    BY <1>1, <2>1
  <2>2. CASE m # b + 1
    <3>1. m \in 1 .. b
      BY <2>2
    <3>2. PICK i \in 1 .. n : s[i] = <<g, m>>
      BY <1>1, <1>4, <3>1 DEF Told
    <3>3. i \in 1 .. n + 1 /\ t[i] = <<g, m>>
      BY <1>1, <3>2
    <3> QED
      BY <3>3
  <2> QED
    BY <2>1, <2>2
<1>5. ASSUME NEW i \in 1 .. n + 1, NEW j \in 1 .. n + 1, i < j, t[i][1] = g, t[j][1] = g PROVE t[i][2] < t[j][2]
  <2>1. i \in 1 .. n /\ t[i] = s[i]
    BY <1>1, <1>5
  <2>2. CASE j = n + 1
    <3>1. s[i][2] \in 1 .. b
      BY <1>1, <1>5, <2>1 DEF Told
    <3> QED
      BY <1>1, <2>1, <2>2, <3>1
  <2>3. CASE j # n + 1
    <3>1. j \in 1 .. n /\ t[j] = s[j]
      BY <1>1, <2>3
    <3> QED
      BY <1>1, <1>5, <2>1, <3>1 DEF Told
  <2> QED
    BY <2>2, <2>3
<1> QED
  BY <1>1, <1>3, <1>4, <1>5 DEF Told

\* One that cannot be read is told by leaving it out.
LEMMA ToldSkips ==
  ASSUME NEW g, NEW b \in Nat, NEW w, NEW s \in Seq(RunRecord), Told(g, b, w, s), w[b + 1] # "good"
  PROVE  Told(g, b + 1, w, s)
<1>1. \A n \in 1 .. b + 1 : Shown(w, n) => n \in 1 .. b
  BY DEF Shown
<1>2. \A n : n \in 1 .. b => n \in 1 .. b + 1
  OBVIOUS
<1> QED
  BY <1>1, <1>2 DEF Told

LEMMA FlowLives ==
  ASSUME NEW g, NEW b, NEW k, NEW q, NEW w, NEW s, NEW l, NEW v, Flow(g, b, k, q, w, s, l, v),
         NEW l2, l2 = "running" => l = "running", l \in {"exited", "over"} => l2 \in {"exited", "over"},
         NEW v2, v \in {"stuck", "closed"} => v2 \in {"stuck", "closed"}
  PROVE  Flow(g, b, k, q, w, s, l2, v2)
  BY DEF Flow, Marked

\* The process writes a record.
LEMMA FlowWrites ==
  ASSUME NEW g, NEW b, NEW k, NEW q \in Seq(RunRecord), NEW w \in Seq(WriteKinds), NEW s, NEW v,
         Flow(g, b, k, q, w, s, "running", v), NEW x \in WriteKinds \ {"cut"}, <<g, Len(w) + 1>> \in RunRecord,
         NEW p, p = Append(q, <<g, Len(w) + 1>>), NEW y, y = Append(w, x)
  PROVE  Flow(g, b, k + 1, p, y, s, "running", v)
<1>1. b \in Nat /\ k \in Nat /\ k = Len(q) /\ b + k = Len(w)
  BY DEF Flow, Piped, Marked
<1>2. Len(y) = b + k + 1 /\ y[b + k + 1] = x /\ \A i \in 1 .. b + k : y[i] = w[i]
  <2>1. x \in WriteKinds
    OBVIOUS
  <2>2. Len(y) = Len(w) + 1 /\ y[Len(w) + 1] = x /\ \A i \in 1 .. Len(w) : y[i] = w[i]
    BY <2>1, Appended
  <2> QED
    BY <1>1, <2>2
<1>3. PICK r \in RunRecord : r = <<g, Len(w) + 1>>
  OBVIOUS
<1>4. Len(p) = k + 1 /\ p[k + 1] = <<g, b + k + 1>> /\ \A i \in 1 .. k : p[i] = q[i]
  <2>1. Len(p) = Len(q) + 1 /\ p[Len(q) + 1] = r /\ \A i \in 1 .. Len(q) : p[i] = q[i]
    BY <1>3, Appended
  <2> QED
    BY <1>1, <1>3, <2>1
<1>5. \A n \in 1 .. b : y[n] = w[n] /\ (Shown(y, n) <=> Shown(w, n))
  <2>1. \A n \in 1 .. b : n \in 1 .. b + k /\ \A m \in 1 .. n : m \in 1 .. b + k
    BY <1>1
  <2> QED
    BY <1>2, <2>1 DEF Shown
<1>6. Piped(g, b, k + 1, p, y)
  <2>1. \A i \in 1 .. k + 1 : p[i] = <<g, b + i>>
    <3>1. \A i \in 1 .. k : p[i] = <<g, b + i>>
      BY <1>4 DEF Flow, Piped
    <3>2. \A i \in 1 .. k + 1 : i \in 1 .. k \/ i = k + 1
      BY <1>1
    <3>3. p[k + 1] = <<g, b + (k + 1)>>
      BY <1>1, <1>4
    <3> QED
      BY <3>1, <3>2, <3>3
  <2> QED
    BY <1>1, <1>2, <1>4, <2>1 DEF Piped
<1>7. Told(g, b, y, s)
  BY <1>5 DEF Flow, Told
<1>8. Marked(b, k + 1, y, "running", v)
  <2>1. \A n \in 1 .. Len(y) : y[n] # "cut"
    <3>1. \A n \in 1 .. b + k : w[n] # "cut"
      BY <1>1 DEF Flow, Marked
    <3>2. \A n \in 1 .. b + k + 1 : n \in 1 .. b + k \/ n = b + k + 1
      BY <1>1
    <3> QED
      BY <1>2, <3>1, <3>2
  <2> QED
    BY <1>1, <1>2, <1>5, <2>1 DEF Flow, Marked
<1> QED
  BY <1>1, <1>4, <1>6, <1>7, <1>8 DEF Flow

\* Another process writes one to the same FIFO.
LEMMA FlowOther ==
  ASSUME NEW g, NEW b, NEW k, NEW q \in Seq(RunRecord), NEW w, NEW s, NEW l, NEW v,
         Flow(g, b, k, q, w, s, l, v), l # "running",
         NEW r \in RunRecord, r[1] # g, NEW p, p = Append(q, r)
  PROVE  Flow(g, b, k, p, w, s, l, v)
<1>1. b \in Nat /\ k \in Nat /\ k <= Len(q)
  BY DEF Flow, Piped
<1>2. PICK n \in Nat : n = Len(q) /\ Len(p) = n + 1 /\ p[n + 1] = r /\ \A i \in 1 .. n : p[i] = q[i]
  BY Appended
<1>3. \A i \in 1 .. k : p[i] = <<g, b + i>>
  BY <1>1, <1>2 DEF Flow, Piped
<1>4. \A i \in k + 1 .. n + 1 : p[i][1] # g
  <2>1. \A i \in k + 1 .. n + 1 : (i \in k + 1 .. n /\ i \in 1 .. n) \/ i = n + 1
    BY <1>1, <1>2
  <2> QED
    BY <1>2, <2>1 DEF Flow, Piped
<1>5. Piped(g, b, k, p, w)
  BY <1>1, <1>2, <1>3, <1>4 DEF Flow, Piped
<1> QED
  BY <1>5 DEF Flow

\* The process is waited for, and what was not read is lost, or a part of a record.
LEMMA FlowCut ==
  ASSUME NEW g, NEW b, NEW k, NEW q \in Seq(RunRecord), NEW w \in Seq(WriteKinds), NEW s, NEW v,
         Flow(g, b, k, q, w, s, "dead", v), k = Len(q), NEW n \in 0 .. k, NEW p, p = SubSeq(q, 1, n),
         NEW y, y = w \/ (n > 0 /\ y = [w EXCEPT ![b + n] = "cut"])
  PROVE  Flow(g, b, n, p, y, s, "exited", v)
<1>1. b \in Nat /\ k \in Nat /\ b + k <= Len(w) /\ Len(w) \in Nat
  BY LenProperties DEF Flow, Piped
<1>2. Len(p) = n /\ \A i \in 1 .. n : p[i] = q[i]
  BY <1>1, SubSeqProperties, ElementOfSeq
<1>3. Len(y) = Len(w) /\ \A i \in 1 .. Len(w) : y[i] = w[i] \/ (i = b + n /\ y[i] = "cut")
  BY <1>1, LenProperties
<1>4. \A i \in 1 .. b : y[i] = w[i]
  <2>1. CASE y = w
    BY <2>1
  <2>2. CASE n > 0 /\ y = [w EXCEPT ![b + n] = "cut"]
    <3>1. \A i \in 1 .. b : i # b + n /\ i \in 1 .. Len(w)
      BY <1>1, <2>2
    <3> QED
      BY <1>3, <3>1
  <2> QED
    BY <2>1, <2>2
<1>5. \A i \in 1 .. b : Shown(y, i) <=> Shown(w, i)
  <2>1. \A i \in 1 .. b : \A m \in 1 .. i : m \in 1 .. b
    BY <1>1
  <2> QED
    BY <1>4, <2>1 DEF Shown
<1>6. Told(g, b, y, s)
  BY <1>4, <1>5 DEF Flow, Told
<1>7. Piped(g, b, n, p, y)
  <2>1. \A i \in 1 .. n : i \in 1 .. k
    BY <1>1
  <2>2. n \in Nat /\ b + n <= Len(y)
    BY <1>1, <1>3
  <2>3. \A i \in 1 .. n : p[i] = <<g, b + i>>
    BY <1>2, <2>1 DEF Flow, Piped
  <2>4. Len(p) = n
    BY <1>2
  <2>5. \A i \in n + 1 .. Len(p) : p[i][1] # g
    BY <2>2, <2>4
  <2> QED
    BY <1>1, <2>2, <2>3, <2>4, <2>5, SMTT(30) DEF Piped
<1>8. Marked(b, n, y, "exited", v)
  <2>1. \A i \in 1 .. Len(y) : y[i] = "cut" => i = b + n
    BY <1>3 DEF Flow, Marked
  <2> QED
    BY <1>4, <2>1 DEF Flow, Marked
<1> QED
  BY <1>6, <1>7, <1>8 DEF Flow

\* The next record is taken from the pipe, and stored if it can be read.
LEMMA FlowTakes ==
  ASSUME NEW g, NEW b, NEW k, NEW q \in Seq(RunRecord), NEW w, NEW s \in Seq(RunRecord), NEW l, NEW v,
         Flow(g, b, k, q, w, s, l, v), v \notin {"stuck", "closed"}, q # <<>>, Head(q)[1] = g,
         NEW t, NEW v2, w[b + 1] = "broken" => v2 = "stuck",
         IF w[b + 1] \in {"good", "cut"} THEN t = Append(s, Head(q)) ELSE t = s,
         NEW p, p = Tail(q)
  PROVE  Flow(g, b + 1, k - 1, p, w, t, l, v2)
<1>1. b \in Nat /\ k \in Nat /\ k <= Len(q) /\ b + k <= Len(w)
  BY DEF Flow, Piped
<1>2. PICK n \in Nat : n = Len(q) /\ n >= 1 /\ Len(p) = n - 1 /\ Head(q) = q[1] /\ q[1] \in RunRecord
                       /\ \A i \in 1 .. n - 1 : p[i] = q[i + 1]
  BY Tailed
<1>3. k >= 1
  <2>1. ASSUME k = 0 PROVE FALSE
    <3>1. 1 \in k + 1 .. Len(q)
      BY <1>2, <2>1
    <3> QED
      BY <1>2, <3>1 DEF Flow, Piped
  <2> QED
    BY <1>1, <2>1
<1>4. PICK m \in Nat : m = k - 1 /\ k = m + 1
  BY <1>1, <1>3
<1>5. q[1] = <<g, b + 1>>
  <2>1. 1 \in 1 .. k
    BY <1>1, <1>3
  <2> QED
    BY <2>1 DEF Flow, Piped
<1>6. Piped(g, b + 1, m, p, w)
  <2>1. \A i \in 1 .. m : p[i] = <<g, b + 1 + i>>
    <3> SUFFICES ASSUME NEW i \in 1 .. m PROVE p[i] = <<g, b + 1 + i>>
      OBVIOUS
    <3>1. i + 1 \in 1 .. k /\ i \in 1 .. n - 1 /\ b + (i + 1) = b + 1 + i
      BY <1>1, <1>2, <1>4
    <3>2. q[i + 1] = <<g, b + (i + 1)>>
      BY <3>1 DEF Flow, Piped
    <3> QED
      BY <1>2, <3>1, <3>2
  <2>2. \A i \in m + 1 .. n - 1 : p[i][1] # g
    <3> SUFFICES ASSUME NEW i \in m + 1 .. n - 1 PROVE p[i][1] # g
      OBVIOUS
    <3>1. i + 1 \in k + 1 .. n /\ i \in 1 .. n - 1
      BY <1>1, <1>2, <1>4
    <3> QED
      BY <1>2, <3>1 DEF Flow, Piped
  <2>3. b + 1 \in Nat /\ m \in Nat /\ m <= Len(p) /\ b + 1 + m <= Len(w)
    <3>1. b + 1 + m = b + k
      BY <1>1, <1>4
    <3> QED
      BY <1>1, <1>2, <1>4, <3>1
  <2> QED
    BY <1>2, <2>1, <2>2, <2>3 DEF Piped
<1>7. \A i \in 1 .. b : w[i] # "broken"
  BY DEF Flow, Marked
<1>8. Told(g, b + 1, w, t)
  <2>1. Told(g, b, w, s) /\ <<g, b + 1>> \in RunRecord
    BY <1>2, <1>5 DEF Flow
  <2>2. CASE w[b + 1] \in {"good", "cut"}
    BY <1>1, <1>2, <1>5, <1>7, <2>1, <2>2, ToldNext
  <2>3. CASE w[b + 1] \notin {"good", "cut"}
    BY <1>1, <2>1, <2>3, ToldSkips
  <2> QED
    BY <2>2, <2>3
<1>9. Marked(b + 1, m, w, l, v2)
  <2>1. b + 1 + m = b + k
    BY <1>1, <1>4
  <2>2. \A i \in 1 .. b + 1 : i \in 1 .. b \/ i = b + 1
    BY <1>1
  <2> QED
    BY <1>7, <2>1, <2>2 DEF Flow, Marked
<1>10. l = "running" => m = Len(p)
  BY <1>2, <1>4 DEF Flow
<1> QED
  BY <1>4, <1>6, <1>8, <1>9, <1>10 DEF Flow

\* A record of another run is taken from the same FIFO.
LEMMA FlowTakesOther ==
  ASSUME NEW g, NEW b, NEW k, NEW q \in Seq(RunRecord), NEW w, NEW s \in Seq(RunRecord), NEW l, NEW v,
         Flow(g, b, k, q, w, s, l, v), v \notin {"stuck", "closed"}, q # <<>>, Head(q)[1] # g,
         NEW t, t = s \/ t = Append(s, Head(q)), NEW v2, NEW p, p = Tail(q)
  PROVE  Flow(g, b, k, p, w, t, l, v2)
<1>1. b \in Nat /\ k \in Nat /\ k <= Len(q) /\ b + k <= Len(w)
  BY DEF Flow, Piped
<1>2. PICK n \in Nat : n = Len(q) /\ n >= 1 /\ Len(p) = n - 1 /\ Head(q) = q[1] /\ q[1] \in RunRecord
                       /\ \A i \in 1 .. n - 1 : p[i] = q[i + 1]
  BY Tailed
<1>3. k = 0
  <2>1. ASSUME k # 0 PROVE FALSE
    <3>1. 1 \in 1 .. k
      BY <1>1, <2>1
    <3>2. q[1] = <<g, b + 1>>
      BY <3>1 DEF Flow, Piped
    <3> QED
      BY <1>2, <3>2
  <2> QED
    BY <2>1
<1>4. Piped(g, b, 0, p, w)
  <2>1. ASSUME NEW i \in 1 .. n - 1 PROVE p[i][1] # g
    <3>1. i + 1 \in 0 + 1 .. n
      BY <1>2
    <3> QED
      BY <1>2, <1>3, <2>1, <3>1 DEF Flow, Piped
  <2>2. \A i \in 1 .. 0 : p[i] = <<g, b + i>>
    OBVIOUS
  <2> QED
    BY <1>1, <1>2, <1>3, <2>1, <2>2 DEF Piped
<1>5. Told(g, b, w, t)
  BY <1>1, <1>2, ToldOther DEF Flow
<1>6. Marked(b, 0, w, l, v2)
  BY <1>3 DEF Flow, Marked
<1>7. l # "running"
  BY <1>2, <1>3 DEF Flow
<1> QED
  BY <1>3, <1>4, <1>5, <1>6, <1>7 DEF Flow

\* One of another run is stored from elsewhere.
LEMMA FlowStores ==
  ASSUME NEW g, NEW b, NEW k, NEW q, NEW w, NEW s \in Seq(RunRecord), NEW l, NEW v,
         Flow(g, b, k, q, w, s, l, v), NEW r \in RunRecord, r[1] # g, NEW t, t = Append(s, r)
  PROVE  Flow(g, b, k, q, w, t, l, v)
<1>1. b \in Nat /\ Told(g, b, w, s)
  BY DEF Flow, Piped
<1>2. Told(g, b, w, t)
  BY <1>1, ToldOther
<1> QED
  BY <1>2 DEF Flow

-----------------------------------------------------------------------------
(* The records of all runs *)

\* Where a record is, its process has written it; and one of a run in apart
\* that was stored came through the pipe of that run.
Records ==
  /\ \A h \in Runs : writer[h] \notin Runs => written[h] = <<>>
  /\ \A h \in Runs : \A n \in 1 .. Len(written[h]) :
       written[h][n] \in IF kind = "output" THEN {"good", "broken", "cut"} ELSE {"good", "odd", "broken"}
  /\ \A p \in Runs : \A i \in 1 .. Len(pipe[p]) :
       LET r == pipe[p][i] IN r[2] \in 1 .. Len(written[r[1]]) /\ writer[r[1]] = p
  /\ \A i \in 1 .. Len(stored) :
       LET r == stored[i] IN r[2] \in 1 .. Len(written[r[1]]) /\ (r[1] \in apart => writer[r[1]] = r[1])

FlowOf(g, b, k) == Flow(g, b, k, pipe[g], written[g], stored, life[g], serve[g])

Flows == \A g \in apart : writer[g] = g => \E b, k \in Nat : FlowOf(g, b, k)

\* Who has opened what keeps it.
LEMMA WriterStays ==
  ASSUME TypeInv, Ordered, DataType, Ways, NEW g \in Runs, Transports(g) \/ Goroutine(g) \/ Service(g)
  PROVE  /\ \A h \in Runs : writer[h] \in Runs => writer'[h] = writer[h]
         /\ \A h \in Runs : writer'[h] # writer[h] => h = g /\ writer[h] = NoFile /\ life'[g] = "running"
         /\ writer' = writer \/ writer' = [writer EXCEPT ![g] = g] \/ writer' = [writer EXCEPT ![g] = name]
<1>1. CASE kind = "fifo"
  <2>1. Naming(g)
    BY <1>1, FifoNaming
  <2>2. writer' = writer \/ ServiceOpens(g)
    BY <2>1 DEF Naming, Quiet, names, RemoveOld, Make, OpenFifo, data
  <2>3. ServiceOpens(g) => writer' = [writer EXCEPT ![g] = name] /\ writer[g] = NoFile /\ life' = life /\ life[g] = "running"
    BY DEF ServiceOpens
  <2> QED
    BY <2>2, <2>3, EndpointsAssumption DEF DataType, Runs
<1>2. CASE kind # "fifo"
  <2>1. \/ writer' = writer
        \/ kind = "output" /\ writer' = [writer EXCEPT ![g] = g] /\ life'[g] = "running"
    BY <1>2, OtherNaming
  <2> QED
    BY <2>1, EndpointsAssumption DEF DataType, Ways, Runs
<1> QED
  BY <1>1, <1>2

\* What a step does to the pipes and the stores.
LEMMA DataSteps ==
  ASSUME NEW g \in Runs, Transports(g) \/ Goroutine(g) \/ Service(g)
  PROVE  \/ UNCHANGED <<pipe, written, stored>>
         \/ Waited(g) \/ Decode(g) \/ Capture(g) \/ ServiceWrites(g)
<1> USE DEF data
<1>1. CASE Transports(g)
  BY <1>1 DEF Transports
<1>2. CASE RunStep(g)
  BY <1>2 DEF RunStep, Spawn, SpawnFails, Cancel
<1>3. CASE SocketStep(g)
  BY <1>3 DEF SocketStep, RemoveOld, Make, Chmod, CloseSocket
<1>4. CASE PortStep(g) \/ ScrapeStep(g) \/ OutputStep(g)
  BY <1>4 DEF PortStep, ListenPort, Shutdown, ScrapeStep, Dialled, ScraperEnds, OutputStep, CaptureEnds
<1>5. CASE TracerStep(g)
  BY <1>5 DEF TracerStep, OpenFifo, Opened, Loop, EndOfFile
<1>6. CASE Service(g)
  BY <1>6 DEF Service, Dies, ServiceListens, ServiceOpens
<1> QED
  BY <1>1, <1>2, <1>3, <1>4, <1>5, <1>6 DEF Goroutine

\* A run whose endpoint has come to an end does not go back.
LEMMA StuckStays ==
  ASSUME TypeInv, Ordered, NEW g \in Runs, Transports(g) \/ Goroutine(g) \/ Service(g)
  PROVE  /\ serve[g] \in {"stuck", "closed"} => serve'[g] \in {"stuck", "closed"}
         /\ life'[g] = "running" => life[g] \in {"transports", "running"}
         /\ life[g] \in {"exited", "over"} => life'[g] \in {"exited", "over"}
<1> USE DEF TypeInv, Ordered, data, Goes, At
<1>1. CASE Transports(g)
  BY <1>1 DEF Transports
<1>2. CASE RunStep(g)
  BY <1>2 DEF RunStep, Spawn, SpawnFails, Waited, Cancel
<1>3. CASE SocketStep(g)
  BY <1>3 DEF SocketStep, RemoveOld, Make, Chmod, CloseSocket
<1>4. CASE PortStep(g) \/ ScrapeStep(g) \/ OutputStep(g)
  BY <1>4 DEF PortStep, ListenPort, Shutdown, ScrapeStep, Dialled, ScraperEnds, OutputStep, Capture, CaptureEnds
<1>5. CASE TracerStep(g)
  BY <1>5 DEF TracerStep, OpenFifo, Opened, Loop, Decode, EndOfFile
<1>6. CASE Service(g)
  BY <1>6 DEF Service, Dies, ServiceListens, ServiceOpens, ServiceWrites
<1> QED
  BY <1>1, <1>2, <1>3, <1>4, <1>5, <1>6 DEF Goroutine

DataInv == DataType /\ NamesInv /\ Records /\ Flows

\* Where everybody's pipe is: a pipe that is being read holds the records of its
\* own run first, and a process of a run in apart that writes to another is not read.
LEMMA ReadsOwn ==
  ASSUME TypeInv, Alone, DataType, NamesInv, Records, NEW g \in Runs, kind = "fifo", serve[g] = "decode",
         NEW p \in Runs, p = reader[g], NEW r \in RunRecord, pipe[p] # <<>>, r = Head(pipe[p])
  PROVE  /\ r[2] \in 1 .. Len(written[r[1]]) /\ writer[r[1]] = p
         /\ r[1] \in apart => r[1] = p /\ g = p
         /\ \A a \in apart : a = p /\ writer[a] = a => g = p
<1>1. r = pipe[p][1] /\ 1 \in 1 .. Len(pipe[p])
  <2>1. PICK q \in Seq(RunRecord) : q = pipe[p]
    BY DEF DataType, RunRecord
  <2>2. Len(q) \in Nat /\ Len(q) >= 1 /\ Head(q) = q[1]
    BY <2>1, Tailed
  <2> QED
    BY <2>1, <2>2
<1>2. r[2] \in 1 .. Len(written[r[1]]) /\ writer[r[1]] = p
  <2>1. \A i \in 1 .. Len(pipe[p]) :
          pipe[p][i][2] \in 1 .. Len(written[pipe[p][i][1]]) /\ writer[pipe[p][i][1]] = p
    BY DEF Records
  <2> QED
    BY <1>1, <2>1
<1>3. ASSUME r[1] \in apart PROVE r[1] = p
  <2>1. PICK h \in Runs : h = r[1] /\ h \in apart
    BY <1>3 DEF TypeInv
  <2>2. p <= h
    BY <1>2, <2>1 DEF NamesInv, Ways
  <2>3. ~(g < h)
    BY <2>1 DEF Alone, Ended
  <2>4. reader[g] >= h
    BY <2>1, <2>3 DEF NamesInv, Unmixed, Unshared, Runs
  <2> QED
    BY <2>1, <2>2, <2>4 DEF Runs
<1>4. ASSUME NEW a \in apart, a = p, writer[a] = a PROVE g = p
  <2>1. Unshared(a) /\ a \in Runs
    BY DEF NamesInv, Unmixed, TypeInv
  <2>2. ~(g < a) /\ ~(g > a)
    BY <1>4, <2>1 DEF Unshared
  <2> QED
    BY <1>4, <2>1, <2>2 DEF Runs
<1>5. ASSUME r[1] \in apart PROVE g = p
  <2>1. PICK a \in apart : a = r[1]
    BY <1>5
  <2>2. a = p /\ writer[a] = a
    BY <1>2, <1>3, <2>1
  <2> QED
    BY <1>4, <2>2
<1> QED
  BY <1>2, <1>3, <1>4, <1>5

LEMMA NamesTyped ==
  ASSUME TypeInv, TypeInv', Ordered, DataType, NamesInv, NEW g \in Runs, Local(g),
         Transports(g) \/ Goroutine(g) \/ Service(g)
  PROVE  reader' \in [Runs -> Runs \cup {NoFile}] /\ writer' \in [Runs -> Runs \cup {NoFile, Leftover}]
<1>1. writer' \in [Runs -> Runs \cup {NoFile, Leftover}]
  <2>1. writer' = writer \/ writer' = [writer EXCEPT ![g] = g] \/ writer' = [writer EXCEPT ![g] = name]
    BY WriterStays DEF NamesInv
  <2>2. name \in Runs \cup {NoFile, Leftover} /\ writer \in [Runs -> Runs \cup {NoFile, Leftover}]
    BY DEF DataType, TypeInv
  <2> QED
    BY <2>1, <2>2
<1>2. CASE kind # "fifo"
  BY <1>1, <1>2, OtherNaming DEF DataType
<1>3. CASE kind = "fifo"
  <2>1. Naming(g)
    BY <1>3, FifoNaming
  <2>2. CASE OpenFifo(g)
    <3>1. serve[g] = "made" /\ (reader' = reader \/ (name # NoFile /\ reader' = [reader EXCEPT ![g] = name]))
      BY <2>2 DEF OpenFifo, At
    <3>2. name \in Runs \cup {NoFile}
      BY <1>3, <3>1 DEF NamesInv, Fifos, Early, TypeInv
    <3> QED
      BY <1>1, <3>1, <3>2 DEF DataType
  <2>3. CASE Quiet(g) \/ RemoveOld(g) \/ Make(g) \/ ServiceOpens(g)
    <3>1. reader' = reader
      BY <2>3 DEF Quiet, names, RemoveOld, Make, ServiceOpens, data
    <3> QED
      BY <1>1, <3>1 DEF DataType
  <2> QED
    BY <2>1, <2>2, <2>3 DEF Naming
<1> QED
  BY <1>2, <1>3

\* Nothing is written, read or lost.
LEMMA RecordsRest ==
  ASSUME TypeInv, TypeInv', Ordered, DataType, NamesInv, Records, NEW g \in Runs, Local(g),
         Transports(g) \/ Goroutine(g) \/ Service(g), UNCHANGED <<pipe, written, stored>>
  PROVE  Records'
<1>1. \A h \in Runs : writer[h] \in Runs => writer'[h] = writer[h]
  BY WriterStays DEF NamesInv
<1>2. \A h \in Runs : written[h] # <<>> => writer[h] \in Runs
  BY DEF Records
<1>3. kind' = kind
  BY DEF Local
<1>4. \A h \in Runs : writer'[h] \notin Runs => written[h] = <<>>
  BY <1>1, <1>2
<1>5. \A h \in Runs : \A n \in 1 .. Len(written[h]) : written[h] # <<>>
  OBVIOUS
<1>6. ASSUME NEW p \in Runs, NEW i \in 1 .. Len(pipe[p])
      PROVE  pipe[p][i][2] \in 1 .. Len(written[pipe[p][i][1]]) /\ writer'[pipe[p][i][1]] = p
  <2>1. PICK q \in Seq(RunRecord) : q = pipe[p]
    BY DEF DataType, RunRecord
  <2>2. PICK r \in RunRecord : r = pipe[p][i]
    BY <2>1, ElementOfSeq
  <2>3. r[2] \in 1 .. Len(written[r[1]]) /\ writer[r[1]] = p /\ r[1] \in Runs
    BY <2>2 DEF Records, RunRecord
  <2> QED
    BY <1>1, <2>2, <2>3
<1>7. ASSUME NEW i \in 1 .. Len(stored)
      PROVE  /\ stored[i][2] \in 1 .. Len(written[stored[i][1]])
             /\ stored[i][1] \in apart' => writer'[stored[i][1]] = stored[i][1]
  <2>1. stored \in Seq(RunRecord)
    BY DEF DataType, RunRecord
  <2>2. PICK r \in RunRecord : r = stored[i]
    BY <2>1, ElementOfSeq
  <2>3. r[2] \in 1 .. Len(written[r[1]]) /\ r[1] \in Runs /\ (r[1] \in apart => writer[r[1]] = r[1])
    BY <2>2 DEF Records, RunRecord
  <2>4. CASE r[1] \in apart
    BY <1>1, <2>2, <2>3, <2>4
  <2>5. CASE r[1] \notin apart
    <3>1. r[1] \in apart' => r[1] = g /\ Transports(g)
      BY <2>5 DEF Local
    <3>2. Transports(g) => writer[g] = NoFile
      BY DEF Transports, NamesInv, Ways
    <3>3. r[1] = g => writer[g] \in Runs
      BY <1>2, <1>5, <2>3
    <3> QED
      BY <2>2, <2>3, <3>1, <3>2, <3>3, EndpointsAssumption DEF Runs
  <2> QED
    BY <2>4, <2>5
<1> QED
  BY <1>3, <1>4, <1>6, <1>7 DEF Records

\* A process that has just opened its own pipe finds it empty, and nothing of it
\* has been stored.
LEMMA FlowBegins ==
  ASSUME TypeInv, TypeInv', Ordered, Ordered', DataType, NamesInv, Ways', Records, NEW g \in Runs,
         writer[g] = NoFile, life'[g] = "running", writer' = [writer EXCEPT ![g] = g], NEW l, NEW v
  PROVE  Flow(g, 0, 0, pipe[g], written[g], stored, l, v)
<1>1. written[g] = <<>>
  BY EndpointsAssumption DEF Records, Runs
<1>2. PICK q \in Seq(RunRecord) : q = pipe[g]
  BY DEF DataType, RunRecord
<1>3. \A i \in 1 .. Len(q) : FALSE
  <2> SUFFICES ASSUME NEW i \in 1 .. Len(q) PROVE FALSE
    OBVIOUS
  <2>1. PICK r \in RunRecord : r = q[i]
    BY ElementOfSeq
  <2>2. r[2] \in 1 .. Len(written[r[1]]) /\ writer[r[1]] = g /\ r[1] \in Runs
    BY <1>2, <2>1 DEF Records, RunRecord
  <2>3. PICK h \in Runs : h = r[1] /\ h # g /\ writer[h] = g
    BY <2>2, EndpointsAssumption DEF Runs
  <2>4. g < h
    BY <2>3 DEF NamesInv, Ways, Runs
  <2>5. life'[h] = "none"
    BY <2>4 DEF Ordered, TypeInv, Lives
  <2>6. writer'[h] = NoFile
    BY <2>5 DEF Ways
  <2> QED
    BY <2>3, <2>6, EndpointsAssumption DEF DataType, Runs
<1>4. Len(q) = 0
  BY <1>3, LenProperties
<1>5. stored \in Seq(RunRecord)
  BY DEF DataType, RunRecord
<1>6. \A i \in 1 .. Len(stored) : stored[i][1] # g
  <2> SUFFICES ASSUME NEW i \in 1 .. Len(stored), stored[i][1] = g PROVE FALSE
    OBVIOUS
  <2>1. stored[i][2] \in 1 .. Len(written[g])
    BY DEF Records
  <2> QED
    BY <1>1, <2>1
<1>7. Piped(g, 0, 0, q, written[g])
  BY <1>1, <1>4 DEF Piped
<1>8. Told(g, 0, written[g], stored)
  BY <1>6 DEF Told
<1>9. Marked(0, 0, written[g], l, v)
  BY <1>1 DEF Marked
<1> QED
  BY <1>2, <1>4, <1>7, <1>8, <1>9 DEF Flow

LEMMA FlowsRest ==
  ASSUME TypeInv, TypeInv', Ordered, Ordered', DataType, NamesInv, Ways', Records, Flows, NEW g \in Runs, Local(g),
         Transports(g) \/ Goroutine(g) \/ Service(g), UNCHANGED <<pipe, written, stored>>
  PROVE  Flows'
<1> SUFFICES ASSUME NEW a \in apart', writer'[a] = a PROVE \E b, k \in Nat : FlowOf(a, b, k)'
  BY DEF Flows
<1>1. a \in Runs /\ NoFile \notin Runs
  BY EndpointsAssumption DEF TypeInv, Runs
<1>2. CASE writer[a] = a
  <2>1. a \in apart
    <3>1. a \notin apart => life[a] = "none"
      BY DEF Local, Transports
    <3> QED
      BY <1>1, <1>2, <3>1 DEF NamesInv, Ways
  <2>2. PICK b \in Nat, k \in Nat : FlowOf(a, b, k)
    BY <1>2, <2>1 DEF Flows
  <2>3. life[a] # "transports"
    BY <1>1, <1>2 DEF NamesInv, Ways
  <2>4. /\ life'[a] = "running" => life[a] = "running"
        /\ life[a] \in {"exited", "over"} => life'[a] \in {"exited", "over"}
        /\ serve[a] \in {"stuck", "closed"} => serve'[a] \in {"stuck", "closed"}
    BY <1>1, <2>3, StuckStays DEF Local, TypeInv
  <2>5. Flow(a, b, k, pipe[a], written[a], stored, life'[a], serve'[a])
    BY <2>2, <2>4, FlowLives DEF FlowOf
  <2> QED
    BY <2>5 DEF FlowOf
<1>3. CASE writer[a] # a
  <2>1. a = g /\ writer[g] = NoFile /\ life'[g] = "running" /\ writer' = [writer EXCEPT ![g] = g]
    BY <1>1, <1>3, WriterStays DEF NamesInv, DataType
  <2>2. Flow(a, 0, 0, pipe[a], written[a], stored, life'[a], serve'[a])
    BY <2>1, FlowBegins
  <2> QED
    BY <2>2 DEF FlowOf
<1> QED
  BY <1>2, <1>3

\* A record in a pipe, and one that is stored, is one its process has written.
LEMMA PipeRecord ==
  ASSUME DataType, Records, NEW p \in Runs, NEW i \in 1 .. Len(pipe[p])
  PROVE  /\ pipe[p][i] \in RunRecord /\ pipe[p][i][1] \in Runs /\ pipe[p][i][2] \in Nat
         /\ pipe[p][i][2] \in 1 .. Len(written[pipe[p][i][1]]) /\ writer[pipe[p][i][1]] = p
<1>1. PICK q \in Seq(RunRecord) : q = pipe[p]
  BY DEF DataType, RunRecord
<1>2. q[i] \in RunRecord
  BY <1>1, ElementOfSeq
<1> QED
  BY <1>1, <1>2 DEF Records, RunRecord

LEMMA StoredRecord ==
  ASSUME DataType, Records, NEW i \in 1 .. Len(stored)
  PROVE  /\ stored[i] \in RunRecord /\ stored[i][1] \in Runs /\ stored[i][2] \in Nat
         /\ stored[i][2] \in 1 .. Len(written[stored[i][1]])
         /\ stored[i][1] \in apart => writer[stored[i][1]] = stored[i][1]
<1>1. PICK s \in Seq(RunRecord) : s = stored
  BY DEF DataType, RunRecord
<1>2. s[i] \in RunRecord
  BY <1>1, ElementOfSeq
<1> QED
  BY <1>1, <1>2 DEF Records, RunRecord

\* The next record of the run in its pipe is that after the last one read.
LEMMA HeadIsNext ==
  ASSUME NEW g, NEW b, NEW k, NEW q \in Seq(RunRecord), NEW w, NEW s, NEW l, NEW v,
         Flow(g, b, k, q, w, s, l, v), q # <<>>, Head(q)[1] = g
  PROVE  Head(q) = <<g, b + 1>> /\ b \in Nat /\ k \in Nat /\ k - 1 \in Nat
<1>1. b \in Nat /\ k \in Nat
  BY DEF Flow, Piped
<1>2. Head(q) = q[1] /\ Len(q) >= 1 /\ Len(q) \in Nat
  BY Tailed
<1>3. ASSUME k = 0 PROVE FALSE
  <2>1. 1 \in k + 1 .. Len(q)
    BY <1>2, <1>3
  <2> QED
    BY <1>2, <2>1 DEF Flow, Piped
<1>4. 1 \in 1 .. k
  BY <1>1, <1>3
<1> QED
  BY <1>1, <1>2, <1>4 DEF Flow, Piped

-----------------------------------------------------------------------------
(* The steps that move a record *)

\* cmd.Wait: what is in the pipe of an output is the process's own.
LEMMA Waits ==
  ASSUME TypeInv, DataInv, NEW g \in Runs, Waited(g)
  PROVE  DataType' /\ Records' /\ Flows'
<1>1. /\ life[g] = "dead" /\ life' = [life EXCEPT ![g] = "exited"]
      /\ UNCHANGED <<kind, serve, name, reader, writer, stored, apart>>
  BY DEF Waited
<1>2. PICK q \in Seq(RunRecord) : q = pipe[g] /\ Len(q) \in Nat
  BY LenProperties DEF DataInv, DataType, RunRecord
<1>3. PICK w \in Seq(WriteKinds) : w = written[g] /\ Len(w) \in Nat
  BY LenProperties DEF DataInv, DataType
<1>4. \A i \in 1 .. Len(q) : q[i] \in RunRecord /\ (kind = "output" => q[i][1] = g) /\ (q[i][1] = g => q[i][2] \in 1 .. Len(w))
  <2> SUFFICES ASSUME NEW i \in 1 .. Len(q)
               PROVE q[i] \in RunRecord /\ (kind = "output" => q[i][1] = g) /\ (q[i][1] = g => q[i][2] \in 1 .. Len(w))
    OBVIOUS
  <2>1. q[i] \in RunRecord /\ q[i][1] \in Runs /\ writer[q[i][1]] = g /\ q[i][2] \in 1 .. Len(written[q[i][1]])
    BY <1>2, PipeRecord DEF DataInv
  <2>2. kind = "output" => writer[q[i][1]] \in {NoFile, q[i][1]}
    BY <2>1 DEF DataInv, NamesInv, Ways
  <2> QED
    BY <1>3, <2>1, <2>2, EndpointsAssumption DEF Runs
<1>5. PICK n \in 0 .. Len(q) :
        /\ kind # "output" => n = Len(q)
        /\ pipe' = [pipe EXCEPT ![g] = SubSeq(q, 1, n)]
        /\ \/ written' = written
           \/ kind = "output" /\ n > 0 /\ written' = [written EXCEPT ![g] = [w EXCEPT ![q[n][2]] = "cut"]]
  <2>1. DOMAIN q = 1 .. Len(q)
    BY <1>2, LenProperties
  <2>2. CASE \E n \in 0 .. Len(pipe[g]) :
                /\ kind # "output" => n = Len(pipe[g])
                /\ pipe' = [pipe EXCEPT ![g] = SubSeq(@, 1, n)]
                /\ UNCHANGED written
    <3>1. PICK n \in 0 .. Len(q) : /\ kind # "output" => n = Len(q)
                /\ pipe' = [pipe EXCEPT ![g] = SubSeq(@, 1, n)]
                /\ UNCHANGED written
      BY <1>2, <2>2
    <3> QED
      BY <1>2, <3>1
  <2>3. CASE /\ kind = "output"
             /\ \E n \in DOMAIN pipe[g] :
                  /\ pipe' = [pipe EXCEPT ![g] = SubSeq(@, 1, n)]
                  /\ written' = [written EXCEPT ![g][pipe[g][n][2]] = "cut"]
    <3>1. PICK n \in 1 .. Len(q) : 
                  /\ pipe' = [pipe EXCEPT ![g] = SubSeq(@, 1, n)]
                  /\ written' = [written EXCEPT ![g][pipe[g][n][2]] = "cut"]
      BY <1>2, <2>1, <2>3
    <3>2. n \in 0 .. Len(q) /\ n > 0
      BY <1>2, <3>1
    <3>3. pipe' = [pipe EXCEPT ![g] = SubSeq(q, 1, n)] /\ written' = [written EXCEPT ![g] = [w EXCEPT ![q[n][2]] = "cut"]]
      BY <1>2, <1>3, <3>1
    <3> QED
      BY <2>3, <3>2, <3>3
  <2> QED
    BY <2>2, <2>3 DEF Waited
<1>6. PICK p \in Seq(RunRecord) : p = SubSeq(q, 1, n) /\ Len(p) = n /\ (\A i \in 1 .. n : p[i] = q[i]) /\ (n = Len(q) => p = q)
  <2>1. \A i \in 1 .. n : q[i] \in RunRecord
    BY <1>2, <1>4
  <2>2. n \in Int /\ 1 \in Int /\ n >= 0
    OBVIOUS
  <2>3. /\ SubSeq(q, 1, n) \in Seq(RunRecord) /\ Len(SubSeq(q, 1, n)) = IF 1 <= n THEN n - 1 + 1 ELSE 0
        /\ \A i \in 1 .. n - 1 + 1 : SubSeq(q, 1, n)[i] = q[1 + i - 1]
    BY <2>1, <2>2, SubSeqProperties
  <2>4. SubSeq(q, 1, Len(q)) = q
    BY SubSeqFull
  <2>5. Len(SubSeq(q, 1, n)) = n /\ \A i \in 1 .. n : SubSeq(q, 1, n)[i] = q[i]
    BY <2>2, <2>3
  <2> QED
    BY <2>3, <2>4, <2>5
<1>7. PICK y \in Seq(WriteKinds) :
        /\ Len(y) = Len(w) /\ written' = [written EXCEPT ![g] = y]
        /\ y = w \/ (kind = "output" /\ n > 0 /\ y = [w EXCEPT ![q[n][2]] = "cut"])
        /\ \A i \in 1 .. Len(w) : y[i] = w[i] \/ (kind = "output" /\ y[i] = "cut")
  <2>1. CASE written' = written
    <3>1. written' = [written EXCEPT ![g] = w]
      BY <1>3, <2>1 DEF DataInv, DataType
    <3> QED
      BY <1>3, <3>1
  <2>2. CASE kind = "output" /\ n > 0 /\ written' = [written EXCEPT ![g] = [w EXCEPT ![q[n][2]] = "cut"]]
    <3>1. n \in 1 .. Len(q)
      BY <1>2, <1>5, <2>2
    <3>2. q[n][2] \in 1 .. Len(w)
      BY <1>4, <2>2, <3>1
    <3>3. PICK x \in 1 .. Len(w) : x = q[n][2]
      BY <3>2
    <3>4. /\ [w EXCEPT ![x] = "cut"] \in Seq(WriteKinds) /\ Len([w EXCEPT ![x] = "cut"]) = Len(w)
          /\ \A j \in 1 .. Len(w) : [w EXCEPT ![x] = "cut"][j] = IF j = x THEN "cut" ELSE w[j]
      <4>1. "cut" \in WriteKinds
        BY DEF WriteKinds
      <4> QED
        BY <1>3, <3>3, <4>1, ExceptSeq
    <3> QED
      BY <2>2, <3>3, <3>4
  <2> QED
    BY <1>5, <2>1, <2>2
<1>8. /\ \A h \in Runs : pipe'[h] = IF h = g THEN p ELSE pipe[h]
      /\ \A h \in Runs : written'[h] = IF h = g THEN y ELSE written[h]
      /\ \A h \in Runs : Len(written'[h]) = Len(written[h])
  BY <1>3, <1>5, <1>6, <1>7 DEF DataInv, DataType
<1>9. DataType'
  <2>1. pipe' \in [Runs -> Seq(RunRecord)]
    BY <1>5, <1>6 DEF DataInv, DataType, RunRecord
  <2>2. written' \in [Runs -> Seq(WriteKinds)]
    BY <1>7 DEF DataInv, DataType
  <2> QED
    BY <1>1, <2>1, <2>2 DEF DataInv, DataType, RunRecord
<1>10. Records'
  <2>1. \A h \in Runs : writer'[h] \notin Runs => written'[h] = <<>>
    <3>1. ASSUME writer[g] \notin Runs PROVE y = w
      <4>1. w = <<>> /\ Len(w) = 0
        BY <1>3, <3>1, EmptySeq DEF DataInv, Records
      <4>2. \A i \in 1 .. Len(w) : w[i] = y[i]
        BY <4>1
      <4> QED
        BY <1>3, <1>7, <4>2, SeqEqual
    <3> QED
      BY <1>1, <1>3, <1>8, <3>1 DEF DataInv, Records
  <2>2. ASSUME NEW h \in Runs, NEW i \in 1 .. Len(written'[h])
        PROVE  written'[h][i] \in IF kind = "output" THEN {"good", "broken", "cut"} ELSE {"good", "odd", "broken"}
    <3>1. i \in 1 .. Len(written[h])
      BY <1>8
    <3>2. written[h][i] \in IF kind = "output" THEN {"good", "broken", "cut"} ELSE {"good", "odd", "broken"}
      BY <3>1 DEF DataInv, Records
    <3> QED
      BY <1>3, <1>7, <1>8, <3>1, <3>2
  <2>3. ASSUME NEW h \in Runs, NEW i \in 1 .. Len(pipe'[h])
        PROVE  pipe'[h][i][2] \in 1 .. Len(written'[pipe'[h][i][1]]) /\ writer[pipe'[h][i][1]] = h
    <3>1. i \in 1 .. Len(pipe[h]) /\ pipe'[h][i] = pipe[h][i]
      BY <1>2, <1>5, <1>6, <1>8
    <3>2. /\ pipe[h][i][1] \in Runs /\ pipe[h][i][2] \in 1 .. Len(written[pipe[h][i][1]])
          /\ writer[pipe[h][i][1]] = h
      BY <3>1, PipeRecord DEF DataInv
    <3> QED
      BY <1>8, <3>1, <3>2
  <2>4. ASSUME NEW i \in 1 .. Len(stored)
        PROVE  /\ stored[i][2] \in 1 .. Len(written'[stored[i][1]])
               /\ stored[i][1] \in apart => writer[stored[i][1]] = stored[i][1]
    BY <1>8, StoredRecord DEF DataInv
  <2> QED
    BY <1>1, <2>1, <2>2, <2>3, <2>4 DEF Records
<1>11. Flows'
  <2> SUFFICES ASSUME NEW a \in apart, writer[a] = a PROVE \E b, k \in Nat : FlowOf(a, b, k)'
    BY <1>1 DEF Flows
  <2>1. PICK b \in Nat, k \in Nat : FlowOf(a, b, k)
    BY DEF DataInv, Flows
  <2>2. a \in Runs
    BY DEF TypeInv
  <2>3. CASE a # g
    <3>1. UNCHANGED <<pipe[a], written[a], stored, life[a], serve[a]>>
      BY <1>1, <1>8, <2>2, <2>3 DEF TypeInv
    <3> QED
      BY <2>1, <3>1 DEF FlowOf
  <2>4. CASE a = g /\ kind # "output"
    <3>1. pipe'[a] = pipe[a] /\ written'[a] = written[a]
      BY <1>2, <1>3, <1>5, <1>6, <1>7, <1>8, <2>4
    <3>2. life[a] = "dead" /\ life'[a] = "exited" /\ serve'[a] = serve[a] /\ stored' = stored
      BY <1>1, <2>4 DEF TypeInv
    <3>3. Flow(a, b, k, pipe[a], written[a], stored, "exited", serve[a])
      BY <2>1, <3>2, FlowLives DEF FlowOf
    <3> QED
      BY <3>1, <3>2, <3>3 DEF FlowOf
  <2>5. CASE a = g /\ kind = "output"
    <3>1. Flow(g, b, k, q, w, stored, "dead", serve[g])
      BY <1>1, <1>2, <1>3, <2>1, <2>5 DEF FlowOf
    <3>2. k = Len(q)
      <4>1. k <= Len(q) /\ \A i \in k + 1 .. Len(q) : q[i][1] # g
        BY <3>1 DEF Flow, Piped
      <4>2. ASSUME k < Len(q) PROVE FALSE
        <5>1. k + 1 \in k + 1 .. Len(q) /\ k + 1 \in 1 .. Len(q)
          BY <1>2, <4>2
        <5> QED
          BY <1>4, <2>5, <4>1, <5>1
      <4> QED
        BY <1>2, <4>1, <4>2
    <3>3. n \in 0 .. k
      BY <3>2
    <3>4. y = w \/ (n > 0 /\ y = [w EXCEPT ![b + n] = "cut"])
      <4>1. n > 0 => n \in 1 .. k
        BY <3>3
      <4>2. n > 0 => q[n] = <<g, b + n>>
        BY <3>1, <4>1 DEF Flow, Piped
      <4> QED
        BY <1>7, <4>2
    <3>5. Flow(g, b, n, p, y, stored, "exited", serve[g])
      BY <1>6, <3>1, <3>2, <3>3, <3>4, FlowCut
    <3>6. n \in Nat
      BY <3>3
    <3>7. FlowOf(g, b, n)'
      BY <1>1, <1>8, <3>5 DEF FlowOf, TypeInv
    <3> QED
      BY <2>5, <3>6, <3>7
  <2> QED
    BY <2>3, <2>4, <2>5
<1> QED
  BY <1>9, <1>10, <1>11

\* The tracer takes a record, of its own run if the run is in apart.
LEMMA Decodes ==
  ASSUME TypeInv, Alone, DataInv, NEW g \in Runs, Decode(g)
  PROVE  DataType' /\ Records' /\ Flows'
<1>1. /\ kind = "fifo" /\ serve[g] = "decode" /\ pipe[reader[g]] # <<>>
      /\ UNCHANGED <<kind, life, name, reader, writer, written, apart>>
  BY DEF Decode, At
<1>2. PICK p \in Runs : p = reader[g]
  BY <1>1 DEF DataInv, NamesInv, Fifos, Reading
<1>3. PICK q \in Seq(RunRecord) : q = pipe[p] /\ q # <<>>
  BY <1>1, <1>2 DEF DataInv, DataType, RunRecord
<1>4. PICK r \in RunRecord : r = Head(q) /\ r = q[1] /\ Len(q) \in Nat /\ Len(q) >= 1
  BY <1>3, Tailed
<1>5. PICK t \in Seq(RunRecord) : t = Tail(q) /\ Len(t) = Len(q) - 1 /\ \A i \in 1 .. Len(t) : t[i] = q[i + 1]
  <2>1. /\ Tail(q) \in Seq(RunRecord) /\ Len(Tail(q)) = Len(q) - 1
        /\ \A i \in 1 .. Len(Tail(q)) : Tail(q)[i] = q[i + 1]
    BY <1>3, Tailed
  <2> QED
    BY <2>1
<1>6. PICK s \in Seq(RunRecord) : s = stored /\ Len(s) \in Nat
  BY LenProperties DEF DataInv, DataType, RunRecord
<1>7. /\ pipe' = [pipe EXCEPT ![p] = t]
      /\ stored' = IF KindOf(r) = "good" THEN Append(s, r) ELSE s
      /\ serve' = [serve EXCEPT ![g] = IF KindOf(r) = "broken" THEN "stuck" ELSE "open"]
  BY <1>2, <1>3, <1>4, <1>5, <1>6 DEF Decode, Goes
<1>8. /\ r[1] \in Runs /\ r[2] \in 1 .. Len(written[r[1]]) /\ writer[r[1]] = p
      /\ r[1] \in apart => r[1] = p /\ g = p
      /\ \A a \in apart : a = p /\ writer[a] = a => g = p
  <2>1. pipe[p] # <<>> /\ r = Head(pipe[p]) /\ r[1] \in Runs
    BY <1>3, <1>4 DEF RunRecord
  <2> QED
    BY <1>1, <1>2, <2>1, ReadsOwn DEF DataInv
<1>9. PICK u \in Seq(RunRecord) : /\ u = Append(s, r) /\ Len(u) = Len(s) + 1 /\ u[Len(s) + 1] = r
                                  /\ \A i \in 1 .. Len(s) : u[i] = s[i]
  <2>1. /\ Append(s, r) \in Seq(RunRecord) /\ Len(Append(s, r)) = Len(s) + 1 /\ Append(s, r)[Len(s) + 1] = r
        /\ \A i \in 1 .. Len(s) : Append(s, r)[i] = s[i]
    BY Appended
  <2> QED
    BY <2>1
<1>10. stored' = s \/ stored' = u
  BY <1>7, <1>9
<1>11. \A h \in Runs : pipe'[h] = IF h = p THEN t ELSE pipe[h]
  BY <1>7 DEF DataInv, DataType
<1>12. DataType'
  <2>1. pipe' \in [Runs -> Seq(RunRecord)] /\ stored' \in Seq(RunRecord)
    BY <1>5, <1>6, <1>7, <1>9, <1>10 DEF DataInv, DataType, RunRecord
  <2> QED
    BY <1>1, <2>1 DEF DataInv, DataType, RunRecord
<1>13. Records'
  <2>1. ASSUME NEW h \in Runs, NEW i \in 1 .. Len(pipe'[h])
        PROVE  pipe'[h][i][2] \in 1 .. Len(written[pipe'[h][i][1]]) /\ writer[pipe'[h][i][1]] = h
    <3>1. CASE h = p
      <4>1. i + 1 \in 1 .. Len(pipe[h]) /\ pipe'[h][i] = pipe[h][i + 1]
        <5>1. pipe[h] = q /\ pipe'[h] = t
          BY <1>3, <1>4, <1>5, <1>11, <3>1
        <5>2. i \in 1 .. Len(t)
          BY <5>1
        <5>3. i + 1 \in 1 .. Len(q) /\ t[i] = q[i + 1]
          BY <1>4, <1>5, <5>2
        <5> QED
          BY <5>1, <5>3
      <4> QED
        BY <4>1, PipeRecord DEF DataInv
    <3>2. CASE h # p
      BY <1>11, <3>2, PipeRecord DEF DataInv
    <3> QED
      BY <3>1, <3>2
  <2>2. ASSUME NEW i \in 1 .. Len(stored')
        PROVE  /\ stored'[i][2] \in 1 .. Len(written[stored'[i][1]])
               /\ stored'[i][1] \in apart => writer[stored'[i][1]] = stored'[i][1]
    <3>1. CASE i \in 1 .. Len(s)
      <4>1. stored'[i] = stored[i]
        BY <1>6, <1>9, <1>10, <3>1
      <4> QED
        BY <1>6, <3>1, <4>1, StoredRecord DEF DataInv
    <3>2. CASE i \notin 1 .. Len(s)
      <4>1. stored'[i] = r
        BY <1>6, <1>9, <1>10, <3>2
      <4> QED
        BY <1>8, <4>1
    <3> QED
      BY <3>1, <3>2
  <2> QED
    BY <1>1, <2>1, <2>2 DEF Records, DataInv
<1>14. Flows'
  <2> SUFFICES ASSUME NEW a \in apart, writer[a] = a PROVE \E b, k \in Nat : FlowOf(a, b, k)'
    BY <1>1 DEF Flows
  <2>1. PICK b \in Nat, k \in Nat : FlowOf(a, b, k)
    BY DEF DataInv, Flows
  <2>2. a \in Runs /\ life'[a] = life[a] /\ written'[a] = written[a]
    BY <1>1 DEF TypeInv
  <2>3. CASE a = p
    <3>1. g = a /\ serve[a] = "decode" /\ pipe[a] = q /\ pipe'[a] = t
      BY <1>1, <1>3, <1>8, <1>11, <2>3
    <3>2. Flow(a, b, k, q, written[a], s, life[a], serve[a]) /\ serve[a] \notin {"stuck", "closed"}
      BY <1>6, <2>1, <3>1 DEF FlowOf
    <3>3. CASE r[1] = a
      <4>1. r = <<a, b + 1>> /\ k - 1 \in Nat /\ b + 1 \in Nat
        BY <1>3, <1>4, <3>2, <3>3, HeadIsNext
      <4>2. KindOf(r) = written[a][b + 1]
        BY <4>1 DEF KindOf
      <4>3. written[a][b + 1] # "cut"
        <5>1. b + 1 \in 1 .. Len(written[a]) /\ kind # "output"
          BY <1>1, <1>8, <3>3, <4>1
        <5> QED
          BY <2>2, <5>1 DEF DataInv, Records
      <4>4. written[a][b + 1] = "broken" => serve'[a] = "stuck"
        BY <1>7, <2>2, <3>1, <4>2 DEF TypeInv
      <4>5. IF written[a][b + 1] \in {"good", "cut"} THEN stored' = Append(s, Head(q)) ELSE stored' = s
        BY <1>4, <1>7, <4>2, <4>3
      <4>6. Flow(a, b + 1, k - 1, t, written[a], stored', life[a], serve'[a])
        <5>1. Head(q)[1] = a /\ q # <<>> /\ t = Tail(q)
          BY <1>3, <1>4, <1>5, <3>3
        <5> QED
          BY <3>2, <4>4, <4>5, <5>1, FlowTakes
      <4>7. FlowOf(a, b + 1, k - 1)'
        BY <2>2, <3>1, <4>6 DEF FlowOf
      <4> QED
        BY <4>1, <4>7
    <3>4. CASE r[1] # a
      <4>1. stored' = s \/ stored' = Append(s, Head(q))
        BY <1>4, <1>7
      <4>2. Flow(a, b, k, t, written[a], stored', life[a], serve'[a])
        <5>1. Head(q)[1] # a /\ q # <<>> /\ t = Tail(q)
          BY <1>3, <1>4, <1>5, <3>4
        <5> QED
          BY <3>2, <4>1, <5>1, FlowTakesOther
      <4> QED
        BY <2>2, <3>1, <4>2 DEF FlowOf
    <3> QED
      BY <3>3, <3>4
  <2>4. CASE a # p
    <3>1. r[1] # a /\ pipe'[a] = pipe[a]
      BY <1>8, <1>11, <2>2, <2>4
    <3>2. serve[a] \in {"stuck", "closed"} => serve'[a] \in {"stuck", "closed"}
      BY <1>1, <1>7, <2>2 DEF TypeInv
    <3>3. Flow(a, b, k, pipe[a], written[a], s, life[a], serve'[a])
      BY <1>6, <2>1, <3>2, FlowLives DEF FlowOf
    <3>4. Flow(a, b, k, pipe[a], written[a], stored', life[a], serve'[a])
      BY <1>9, <1>10, <3>1, <3>3, FlowStores
    <3> QED
      BY <2>2, <3>1, <3>4 DEF FlowOf
  <2> QED
    BY <2>3, <2>4
<1> QED
  BY <1>12, <1>13, <1>14

\* captureOutput takes a line, or ends at one too long.
LEMMA Captures ==
  ASSUME TypeInv, DataInv, NEW g \in Runs, Capture(g)
  PROVE  DataType' /\ Records' /\ Flows'
<1>1. /\ kind = "output" /\ serve[g] = "open" /\ pipe[g] # <<>>
      /\ UNCHANGED <<kind, life, name, reader, writer, written, apart>>
  BY DEF Capture, At
<1>3. PICK q \in Seq(RunRecord) : q = pipe[g] /\ q # <<>>
  BY <1>1 DEF DataInv, DataType, RunRecord
<1>4. PICK r \in RunRecord : r = Head(q) /\ r = q[1] /\ Len(q) \in Nat /\ Len(q) >= 1
  BY <1>3, Tailed
<1>5. PICK t \in Seq(RunRecord) : t = Tail(q) /\ Len(t) = Len(q) - 1 /\ \A i \in 1 .. Len(t) : t[i] = q[i + 1]
  <2>1. /\ Tail(q) \in Seq(RunRecord) /\ Len(Tail(q)) = Len(q) - 1
        /\ \A i \in 1 .. Len(Tail(q)) : Tail(q)[i] = q[i + 1]
    BY <1>3, Tailed
  <2> QED
    BY <2>1
<1>6. PICK s \in Seq(RunRecord) : s = stored /\ Len(s) \in Nat
  BY LenProperties DEF DataInv, DataType, RunRecord
<1>8. r[1] = g /\ r[2] \in 1 .. Len(written[g]) /\ writer[g] = g
  <2>1. 1 \in 1 .. Len(pipe[g]) /\ pipe[g][1] = r
    BY <1>3, <1>4
  <2>2. r[1] \in Runs /\ r[2] \in 1 .. Len(written[r[1]]) /\ writer[r[1]] = g
    BY <2>1, PipeRecord DEF DataInv
  <2>3. writer[r[1]] \in {NoFile, r[1]}
    BY <1>1, <2>2 DEF DataInv, NamesInv, Ways
  <2> QED
    BY <2>2, <2>3, EndpointsAssumption DEF Runs
<1>9. CASE KindOf(r) = "broken"
  <2>1. UNCHANGED <<pipe, stored>> /\ serve' = [serve EXCEPT ![g] = "closed"]
    BY <1>3, <1>4, <1>9 DEF Capture, Goes
  <2>2. DataType' /\ Records'
    BY <1>1, <2>1 DEF DataInv, DataType, Records
  <2>3. ASSUME NEW a \in apart, writer[a] = a PROVE \E b, k \in Nat : FlowOf(a, b, k)'
    <3>1. PICK b \in Nat, k \in Nat : FlowOf(a, b, k)
      BY <2>3 DEF DataInv, Flows
    <3>2. serve[a] \in {"stuck", "closed"} => serve'[a] \in {"stuck", "closed"}
      BY <2>1 DEF TypeInv
    <3>3. Flow(a, b, k, pipe[a], written[a], stored, life[a], serve'[a])
      BY <3>1, <3>2, FlowLives DEF FlowOf
    <3> QED
      BY <1>1, <2>1, <3>3 DEF FlowOf
  <2> QED
    BY <1>1, <2>2, <2>3 DEF Flows
<1>10. CASE KindOf(r) # "broken"
  <2>1. /\ pipe' = [pipe EXCEPT ![g] = t] /\ stored' = Append(s, r) /\ UNCHANGED serve
    BY <1>3, <1>4, <1>5, <1>6, <1>10 DEF Capture
  <2>2. PICK u \in Seq(RunRecord) : /\ u = stored' /\ Len(u) = Len(s) + 1 /\ u[Len(s) + 1] = r
                                    /\ \A i \in 1 .. Len(s) : u[i] = s[i]
    <3>1. /\ Append(s, r) \in Seq(RunRecord) /\ Len(Append(s, r)) = Len(s) + 1 /\ Append(s, r)[Len(s) + 1] = r
          /\ \A i \in 1 .. Len(s) : Append(s, r)[i] = s[i]
      BY Appended
    <3> QED
      BY <2>1, <3>1
  <2>3. \A h \in Runs : pipe'[h] = IF h = g THEN t ELSE pipe[h]
    BY <2>1 DEF DataInv, DataType
  <2>4. DataType'
    <3>1. pipe' \in [Runs -> Seq(RunRecord)] /\ stored' \in Seq(RunRecord)
      BY <1>5, <2>1, <2>2 DEF DataInv, DataType, RunRecord
    <3> QED
      BY <1>1, <3>1 DEF DataInv, DataType, RunRecord
  <2>5. Records'
    <3>1. ASSUME NEW h \in Runs, NEW i \in 1 .. Len(pipe'[h])
          PROVE  pipe'[h][i][2] \in 1 .. Len(written[pipe'[h][i][1]]) /\ writer[pipe'[h][i][1]] = h
      <4>1. CASE h = g
        <5>1. i + 1 \in 1 .. Len(pipe[h]) /\ pipe'[h][i] = pipe[h][i + 1]
          <6>1. pipe[h] = q /\ pipe'[h] = t
            BY <1>3, <1>4, <1>5, <2>3, <4>1
          <6>2. i \in 1 .. Len(t)
            BY <6>1
          <6>3. i + 1 \in 1 .. Len(q) /\ t[i] = q[i + 1]
            BY <1>4, <1>5, <6>2
          <6> QED
            BY <6>1, <6>3
        <5> QED
          BY <5>1, PipeRecord DEF DataInv
      <4>2. CASE h # g
        BY <2>3, <4>2, PipeRecord DEF DataInv
      <4> QED
        BY <4>1, <4>2
    <3>2. ASSUME NEW i \in 1 .. Len(stored')
          PROVE  /\ stored'[i][2] \in 1 .. Len(written[stored'[i][1]])
                 /\ stored'[i][1] \in apart => writer[stored'[i][1]] = stored'[i][1]
      <4>1. CASE i \in 1 .. Len(s)
        <5>1. stored'[i] = stored[i]
          BY <1>6, <2>2, <4>1
        <5> QED
          BY <1>6, <4>1, <5>1, StoredRecord DEF DataInv
      <4>2. CASE i \notin 1 .. Len(s)
        <5>1. stored'[i] = r
          BY <1>6, <2>2, <4>2
        <5> QED
          BY <1>8, <5>1
      <4> QED
        BY <4>1, <4>2
    <3> QED
      BY <1>1, <3>1, <3>2 DEF Records, DataInv
  <2>6. ASSUME NEW a \in apart, writer[a] = a PROVE \E b, k \in Nat : FlowOf(a, b, k)'
    <3>1. PICK b \in Nat, k \in Nat : FlowOf(a, b, k)
      BY <2>6 DEF DataInv, Flows
    <3>2. a \in Runs
      BY DEF TypeInv
    <3>3. CASE a = g
      <4>1. Flow(a, b, k, q, written[a], s, life[a], serve[a]) /\ serve[a] = "open"
        BY <1>1, <1>3, <1>6, <3>1, <3>3 DEF FlowOf
      <4>2. r = <<a, b + 1>> /\ k - 1 \in Nat /\ b + 1 \in Nat
        BY <1>3, <1>4, <1>8, <3>3, <4>1, HeadIsNext, SMTT(30)
      <4>3. KindOf(r) = written[a][b + 1]
        BY <4>2 DEF KindOf
      <4>4. written[a][b + 1] \in {"good", "cut"}
        BY <1>1, <1>8, <1>10, <3>2, <3>3, <4>2, <4>3 DEF DataInv, Records
      <4>5. IF written[a][b + 1] \in {"good", "cut"} THEN stored' = Append(s, Head(q)) ELSE stored' = s
        BY <1>4, <2>1, <4>4
      <4>6. Flow(a, b + 1, k - 1, t, written[a], stored', life[a], serve[a])
        <5>1. Head(q)[1] = a /\ q # <<>> /\ t = Tail(q)
          BY <1>3, <1>4, <1>5, <1>8, <3>3
        <5>2. serve[a] \notin {"stuck", "closed"} /\ written[a][b + 1] # "broken"
          BY <4>1, <4>4
        <5>3. Flow(a, b, k, q, written[a], s, life[a], serve[a])
          BY <4>1
        <5> QED
          BY <4>5, <5>1, <5>2, <5>3, FlowTakes
      <4>7. FlowOf(a, b + 1, k - 1)'
        BY <1>1, <2>1, <2>3, <3>2, <3>3, <4>6 DEF FlowOf
      <4> QED
        BY <4>2, <4>7
    <3>4. CASE a # g
      <4>1. Flow(a, b, k, pipe[a], written[a], s, life[a], serve[a])
        BY <1>6, <3>1 DEF FlowOf
      <4>2. Flow(a, b, k, pipe[a], written[a], stored', life[a], serve[a])
        BY <1>8, <2>1, <3>4, <4>1, FlowStores
      <4> QED
        BY <1>1, <2>1, <2>3, <3>2, <3>4, <4>2 DEF FlowOf
    <3> QED
      BY <3>3, <3>4
  <2> QED
    BY <1>1, <2>4, <2>5, <2>6 DEF Flows
<1> QED
  BY <1>9, <1>10

\* The process writes a record behind those that are in its pipe.
LEMMA Writes ==
  ASSUME TypeInv, Ordered, DataInv, NEW g \in Runs, ServiceWrites(g)
  PROVE  DataType' /\ Records' /\ Flows'
<1>1. /\ life[g] = "running" /\ writer[g] \in Runs
      /\ UNCHANGED <<kind, life, serve, name, reader, writer, stored, apart>>
  BY DEF ServiceWrites
<1>2. PICK p \in Runs : p = writer[g]
  BY <1>1
<1>3. PICK q \in Seq(RunRecord) : q = pipe[p] /\ Len(q) \in Nat
  BY LenProperties DEF DataInv, DataType, RunRecord
<1>4. PICK w \in Seq(WriteKinds) : w = written[g] /\ Len(w) \in Nat
  BY LenProperties DEF DataInv, DataType
<1>5. PICK r \in RunRecord : r = <<g, Len(w) + 1>> /\ r[1] = g /\ r[2] = Len(w) + 1
  <2>1. <<g, Len(w) + 1>> \in RunRecord
    BY <1>4 DEF RunRecord
  <2> QED
    BY <2>1
<1>6. PICK x \in {"good", "odd", "broken"} :
        /\ kind = "output" => x # "odd"
        /\ written' = [written EXCEPT ![g] = Append(w, x)]
  BY <1>4 DEF ServiceWrites
<1>7. pipe' = [pipe EXCEPT ![p] = Append(q, r)]
  BY <1>2, <1>3, <1>4, <1>5 DEF ServiceWrites
<1>8. x \in WriteKinds \ {"cut"} /\ x \in WriteKinds
  BY <1>6 DEF WriteKinds
<1>9. PICK y \in Seq(WriteKinds) : /\ y = Append(w, x) /\ Len(y) = Len(w) + 1 /\ y[Len(w) + 1] = x
                                   /\ \A i \in 1 .. Len(w) : y[i] = w[i]
  <2>1. /\ Append(w, x) \in Seq(WriteKinds) /\ Len(Append(w, x)) = Len(w) + 1 /\ Append(w, x)[Len(w) + 1] = x
        /\ \A i \in 1 .. Len(w) : Append(w, x)[i] = w[i]
    BY <1>8, Appended
  <2> QED
    BY <2>1
<1>10. PICK u \in Seq(RunRecord) : /\ u = Append(q, r) /\ Len(u) = Len(q) + 1 /\ u[Len(q) + 1] = r
                                   /\ \A i \in 1 .. Len(q) : u[i] = q[i]
  <2>1. /\ Append(q, r) \in Seq(RunRecord) /\ Len(Append(q, r)) = Len(q) + 1 /\ Append(q, r)[Len(q) + 1] = r
        /\ \A i \in 1 .. Len(q) : Append(q, r)[i] = q[i]
    BY Appended
  <2> QED
    BY <2>1
<1>11. /\ \A h \in Runs : pipe'[h] = IF h = p THEN u ELSE pipe[h]
       /\ \A h \in Runs : written'[h] = IF h = g THEN y ELSE written[h]
  BY <1>6, <1>7, <1>9, <1>10 DEF DataInv, DataType
<1>12. \A h \in Runs : \A n \in 1 .. Len(written[h]) : n \in 1 .. Len(written'[h])
  <2> SUFFICES ASSUME NEW h \in Runs, NEW n \in 1 .. Len(written[h]) PROVE n \in 1 .. Len(written'[h])
    OBVIOUS
  <2>1. CASE h = g
    <3>1. written[h] = w /\ written'[h] = y
      BY <1>4, <1>11, <2>1
    <3>2. n \in 1 .. Len(w)
      BY <3>1
    <3>3. n \in 1 .. Len(y)
      <4>1. Len(y) = Len(w) + 1 /\ Len(w) \in Nat
        BY <1>4, <1>9
      <4> QED
        BY <3>2, <4>1
    <3> QED
      BY <3>1, <3>3
  <2>2. CASE h # g
    BY <1>11, <2>2
  <2> QED
    BY <2>1, <2>2
<1>13. DataType'
  <2>1. pipe' \in [Runs -> Seq(RunRecord)]
    BY <1>7, <1>10 DEF DataInv, DataType, RunRecord
  <2>2. written' \in [Runs -> Seq(WriteKinds)]
    BY <1>6, <1>9 DEF DataInv, DataType
  <2> QED
    BY <1>1, <2>1, <2>2 DEF DataInv, DataType, RunRecord
<1>14. Records'
  <2>1. \A h \in Runs : writer'[h] \notin Runs => written'[h] = <<>>
    BY <1>1, <1>11 DEF DataInv, Records
  <2>2. ASSUME NEW h \in Runs, NEW i \in 1 .. Len(written'[h])
        PROVE  written'[h][i] \in IF kind = "output" THEN {"good", "broken", "cut"} ELSE {"good", "odd", "broken"}
    <3>1. CASE h = g /\ i = Len(w) + 1
      <4>1. written'[h] = y /\ i = Len(w) + 1
        BY <1>11, <3>1
      <4>2. written'[h][i] = x
        BY <1>9, <4>1
      <4> QED
        BY <1>6, <4>2
    <3>2. CASE ~(h = g /\ i = Len(w) + 1)
      <4>1. i \in 1 .. Len(written[h]) /\ written'[h][i] = written[h][i]
        <5>1. CASE h = g
          <6>1. written[h] = w /\ written'[h] = y
            BY <1>4, <1>11, <5>1
          <6>2. i \in 1 .. Len(y) /\ i # Len(w) + 1
            BY <3>2, <5>1, <6>1
          <6>3. i \in 1 .. Len(w)
            <7>1. Len(y) = Len(w) + 1 /\ Len(w) \in Nat
              BY <1>4, <1>9
            <7> QED
              BY <6>2, <7>1
          <6> QED
            BY <1>9, <6>1, <6>3
        <5>2. CASE h # g
          BY <1>11, <5>2
        <5> QED
          BY <5>1, <5>2
      <4> QED
        BY <4>1 DEF DataInv, Records
    <3> QED
      BY <3>1, <3>2
  <2>3. ASSUME NEW h \in Runs, NEW i \in 1 .. Len(pipe'[h])
        PROVE  pipe'[h][i][2] \in 1 .. Len(written'[pipe'[h][i][1]]) /\ writer[pipe'[h][i][1]] = h
    <3>1. CASE h = p /\ i = Len(q) + 1
      <4>1. pipe'[h][i] = r
        BY <1>10, <1>11, <3>1
      <4>2. Len(w) + 1 \in 1 .. Len(written'[g])
        <5>1. written'[g] = y
          BY <1>11
        <5>2. Len(w) + 1 \in 1 .. Len(y)
          BY <1>4, <1>9
        <5> QED
          BY <5>1, <5>2
      <4> QED
        BY <1>2, <1>5, <3>1, <4>1, <4>2
    <3>2. CASE ~(h = p /\ i = Len(q) + 1)
      <4>1. i \in 1 .. Len(pipe[h]) /\ pipe'[h][i] = pipe[h][i]
        <5>1. CASE h = p
          <6>1. pipe[h] = q /\ pipe'[h] = u
            BY <1>3, <1>11, <5>1
          <6>2. i \in 1 .. Len(u) /\ i # Len(q) + 1
            BY <3>2, <5>1, <6>1
          <6>3. i \in 1 .. Len(q)
            <7>1. Len(u) = Len(q) + 1 /\ Len(q) \in Nat
              BY <1>3, <1>10
            <7> QED
              BY <6>2, <7>1
          <6> QED
            BY <1>10, <6>1, <6>3
        <5>2. CASE h # p
          BY <1>11, <5>2
        <5> QED
          BY <5>1, <5>2
      <4>2. /\ pipe[h][i][1] \in Runs /\ pipe[h][i][2] \in 1 .. Len(written[pipe[h][i][1]])
            /\ writer[pipe[h][i][1]] = h
        BY <4>1, PipeRecord DEF DataInv
      <4> QED
        BY <1>12, <4>1, <4>2
    <3> QED
      BY <3>1, <3>2
  <2>4. ASSUME NEW i \in 1 .. Len(stored)
        PROVE  /\ stored[i][2] \in 1 .. Len(written'[stored[i][1]])
               /\ stored[i][1] \in apart => writer[stored[i][1]] = stored[i][1]
    BY <1>12, StoredRecord DEF DataInv
  <2> QED
    BY <1>1, <2>1, <2>2, <2>3, <2>4 DEF Records
<1>15. Flows'
  <2> SUFFICES ASSUME NEW a \in apart, writer[a] = a PROVE \E b, k \in Nat : FlowOf(a, b, k)'
    BY <1>1 DEF Flows
  <2>1. PICK b \in Nat, k \in Nat : FlowOf(a, b, k)
    BY DEF DataInv, Flows
  <2>2. a \in Runs /\ UNCHANGED <<life[a], serve[a]>>
    BY <1>1 DEF TypeInv
  <2>3. CASE a = g
    <3>1. p = g /\ pipe'[a] = u /\ written'[a] = y
      BY <1>2, <1>11, <2>2, <2>3
    <3>2. Flow(g, b, k, q, w, stored, "running", serve[g])
      BY <1>1, <1>3, <1>4, <2>1, <2>3, <3>1 DEF FlowOf
    <3>3. Flow(g, b, k + 1, u, y, stored, "running", serve[g])
      <4>1. <<g, Len(w) + 1>> \in RunRecord /\ u = Append(q, <<g, Len(w) + 1>>)
        BY <1>5, <1>10
      <4> QED
        BY <1>8, <1>9, <3>2, <4>1, FlowWrites
    <3>4. FlowOf(a, b, k + 1)'
      BY <1>1, <2>2, <2>3, <3>1, <3>3 DEF FlowOf
    <3>5. k + 1 \in Nat
      OBVIOUS
    <3> QED
      BY <3>4, <3>5
  <2>4. CASE a # g /\ a = p
    <3>1. life[a] # "running"
      <4>1. a < g => life[a] \in {"exited", "over"}
        BY <1>1, <2>2 DEF Ordered
      <4>2. ~(g < a /\ life[a] = "running")
        BY <1>1, <2>2 DEF Ordered
      <4> QED
        BY <2>2, <2>4, <4>1, <4>2 DEF Runs
    <3>2. Flow(a, b, k, q, written[a], stored, life[a], serve[a])
      BY <1>3, <2>1, <2>4 DEF FlowOf
    <3>3. Flow(a, b, k, u, written[a], stored, life[a], serve[a])
      BY <1>5, <1>10, <2>4, <3>1, <3>2, FlowOther
    <3> QED
      BY <1>1, <1>11, <2>2, <2>4, <3>3 DEF FlowOf
  <2>5. CASE a # g /\ a # p
    BY <1>1, <1>11, <2>1, <2>2, <2>5 DEF FlowOf
  <2> QED
    BY <2>3, <2>4, <2>5
<1> QED
  BY <1>13, <1>14, <1>15

-----------------------------------------------------------------------------
(* The invariant, and what follows from it *)

LEMMA DataInitially == Init => DataInv
<1> SUFFICES ASSUME Init PROVE DataInv
  OBVIOUS
<1>1. DataType
  BY EmptySeq DEF Init, DataType
<1>2. NamesInv
  BY EndpointsAssumption DEF Init, NamesInv, Ways, Fifos, Unmixed, Early, Reading, Runs
<1>3. Records
  BY DEF Init, Records
<1>4. Flows
  BY DEF Init, Flows
<1> QED
  BY <1>1, <1>2, <1>3, <1>4 DEF DataInv

LEMMA DataInductive == IInv /\ DataInv /\ [Next]_vars => DataInv'
<1> SUFFICES ASSUME IInv, DataInv, [Next]_vars PROVE DataInv'
  OBVIOUS
<1>0. IInv' /\ TypeInv /\ TypeInv' /\ Ordered /\ Ordered' /\ Alone
  BY IInvInductive DEF IInv
<1>1. CASE UNCHANGED vars
  BY <1>1 DEF vars, DataInv, DataType, NamesInv, Ways, Fifos, Unmixed, Unshared, Records, Flows, FlowOf, KindOf
<1>2. ASSUME NEW g \in Runs, Transports(g) \/ Goroutine(g) \/ Service(g) PROVE DataInv'
  <2>1. Local(g) /\ DataType /\ NamesInv /\ Ways /\ Fifos /\ Unmixed /\ Records /\ Flows
    BY <1>0, <1>2, StepIsLocal DEF DataInv, NamesInv
  <2>2. NamesInv'
    <3>1. Ways'
      BY <1>0, <1>2, <2>1, WaysStep
    <3>2. Fifos'
      BY <1>0, <1>2, <2>1, FifosStep
    <3>3. Unmixed'
      BY <1>0, <1>2, <2>1, UnmixedStep
    <3> QED
      BY <3>1, <3>2, <3>3 DEF NamesInv
  <2>3. DataType' /\ Records' /\ Flows'
    <3>1. CASE UNCHANGED <<pipe, written, stored>>
      <4>1. reader' \in [Runs -> Runs \cup {NoFile}] /\ writer' \in [Runs -> Runs \cup {NoFile, Leftover}]
        BY <1>0, <1>2, <2>1, NamesTyped
      <4>2. DataType'
        BY <2>1, <3>1, <4>1 DEF DataType
      <4>3. Records'
        BY <1>0, <1>2, <2>1, <3>1, RecordsRest
      <4>4. Ways'
        BY <2>2 DEF NamesInv
      <4>5. Flows'
        BY <1>0, <1>2, <2>1, <3>1, <4>4, FlowsRest
      <4> QED
        BY <4>2, <4>3, <4>5
    <3>2. CASE Waited(g)
      BY <1>0, <3>2, Waits
    <3>3. CASE Decode(g)
      BY <1>0, <3>3, Decodes
    <3>4. CASE Capture(g)
      BY <1>0, <3>4, Captures
    <3>5. CASE ServiceWrites(g)
      BY <1>0, <3>5, Writes
    <3> QED
      BY <1>2, <3>1, <3>2, <3>3, <3>4, <3>5, DataSteps
  <2> QED
    BY <2>2, <2>3 DEF DataInv
<1> QED
  BY <1>1, <1>2 DEF Next

LEMMA DataTells == TypeInv /\ DataInv => StoredAsWritten
<1> SUFFICES ASSUME TypeInv, DataInv, NEW g \in apart, NEW i \in DOMAIN stored, stored[i][1] = g
             PROVE  /\ KindOf(stored[i]) = "cut" \/ Readable(g, stored[i][2])
                    /\ \A n \in 1 .. stored[i][2] - 1 : Readable(g, n) => <<g, n>> \in ToSet(stored)
                    /\ \A j \in i + 1 .. Len(stored) : stored[j][1] = g =>
                          stored[i][2] < stored[j][2] /\ KindOf(stored[i]) # "cut"
  BY DEF StoredAsWritten
<1>1. DOMAIN stored = 1 .. Len(stored) /\ Len(stored) \in Nat
  <2>1. stored \in Seq(RunRecord)
    BY DEF DataInv, DataType, RunRecord
  <2> QED
    BY <2>1, LenProperties
<1>2. /\ stored[i][1] = g /\ stored[i][2] \in Nat /\ stored[i][2] \in 1 .. Len(written[g]) /\ writer[g] = g
  BY <1>1, StoredRecord DEF DataInv
<1>3. PICK b \in Nat, k \in Nat : FlowOf(g, b, k)
  BY <1>2 DEF DataInv, Flows
<1>4. Told(g, b, written[g], stored) /\ Marked(b, k, written[g], life[g], serve[g])
  BY <1>3 DEF FlowOf, Flow
<1>5. \A n : Readable(g, n) <=> Shown(written[g], n)
  BY DEF Readable, Shown
<1>6. stored[i][2] \in 1 .. b /\ (KindOf(stored[i]) = "cut" \/ Readable(g, stored[i][2]))
  BY <1>1, <1>4, <1>5 DEF Told, KindOf
<1>7. ASSUME NEW n \in 1 .. stored[i][2] - 1, Readable(g, n) PROVE <<g, n>> \in ToSet(stored)
  <2>1. n \in 1 .. b
    BY <1>2, <1>6
  <2>2. PICK m \in 1 .. Len(stored) : stored[m] = <<g, n>>
    BY <1>4, <1>5, <1>7, <2>1 DEF Told
  <2> QED
    BY <1>1, <2>2 DEF ToSet
<1>8. ASSUME NEW j \in i + 1 .. Len(stored), stored[j][1] = g
      PROVE  stored[i][2] < stored[j][2] /\ KindOf(stored[i]) # "cut"
  <2>1. j \in 1 .. Len(stored) /\ i < j
    BY <1>1
  <2>2. stored[i][2] < stored[j][2] /\ stored[j][2] \in 1 .. b
    BY <1>1, <1>4, <1>8, <2>1 DEF Told
  <2>3. stored[i][2] # b + k
    BY <1>2, <2>2
  <2>4. written[g][stored[i][2]] # "cut"
    BY <1>2, <1>4, <2>3 DEF Marked
  <2> QED
    BY <1>2, <2>2, <2>4 DEF KindOf
<1> QED
  BY <1>6, <1>7, <1>8

\* The stores get what the process of a run that began apart has written in order,
\* without gaps and once, whatever the runs around it leave under the same name,
\* up to the first record that cannot be read, and only the last may be a part of
\* one (instance/instance.go:442, 600-614; transport/opentracing/fromrunner.go:38-53).
THEOREM StoredInOrder == Spec => []StoredAsWritten
<1>1. Init => IInv /\ DataInv
  BY IInvInitially, DataInitially
<1>2. IInv /\ DataInv /\ [Next]_vars => IInv' /\ DataInv'
  BY IInvInductive, DataInductive
<1>3. IInv /\ DataInv => StoredAsWritten
  BY DataTells DEF IInv
<1> QED
  BY <1>1, <1>2, <1>3, PTL DEF Spec
==============================================================================
