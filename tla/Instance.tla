------------------------------ MODULE Instance ------------------------------
(***************************************************************************)
(* One service instance of qdevrunner (instance/instance.go): the process  *)
(* manager that builds a service, opens its transports, starts its         *)
(* process, lists it in the service mesh registry, reaps the process when  *)
(* it exits, and stops it on request.                                      *)
(*                                                                         *)
(* Instance.mu protects single fields, not operations: Start, StartManual, *)
(* Stop and Restart are called from the boot loop of main, from HTTP       *)
(* handlers, from MCP tools, from the file watcher and from the shutdown   *)
(* loop, each on a goroutine of its own, and every one of them releases    *)
(* the lock between its steps.  A call is therefore a sequence of actions, *)
(* one per critical section or call that other goroutines can see, and the *)
(* goroutine that reaps a process (the waiter) runs beside the calls.      *)
(***************************************************************************)
EXTENDS Naturals, FiniteSets

CONSTANTS
  Calls,    \* the goroutines, each making one call; a call that starts the
            \* service also names its run: its context, process and waiter
  Main,     \* the goroutine of main.go's boot loop
  None,     \* nil
  Overlap   \* FALSE: boot comes first and calls come one at a time, as one
            \* user makes them who waits for each answer

ASSUME CallsAssumption ==
  /\ IsFiniteSet(Calls)
  /\ Main \in Calls
  /\ None \notin Calls
  /\ Overlap \in BOOLEAN

VARIABLES
  \* Fields of the instance.
  status, process, cancel, stopping,
  lastError,    \* lastError # ""
  grpc,         \* "grpc" is among the discovered transports
  toService,    \* the run whose grpcToService the field points to
  registered,   \* occurrences of the instance in the registry
  \* The calls.
  pc, op,
  snap,         \* what Stop read under the lock: [process, cancel]
  \* The runs.
  ctx, proc, waiter

shared == <<status, process, cancel, stopping, lastError, grpc, toService, registered>>
calls == <<pc, op, snap>>
runs == <<ctx, proc, waiter>>
vars == <<status, process, cancel, stopping, lastError, grpc, toService, registered,
          pc, op, snap, ctx, proc, waiter>>

-----------------------------------------------------------------------------
(* Values *)

Statuses == {"stopped", "starting", "running", "error", "manual"}

Final == {"returned", "refused", "failed", "pipeError"}

PCs == {"idle", "check", "context", "build", "transports", "spawn", "publish",
        "register", "announce", "stop", "unregister", "signal", "cancel",
        "settle"} \cup Final

Exited == {"ok", "fail"}

InFlight(k) == pc[k] \notin Final \cup {"idle"}

Manual(k) == op[k] = "manual"

\* The calls a goroutine can make.  Only the boot loop starts an instance in
\* manual mode (main.go), once; every caller reaches Start, Stop and Restart.
Ops(k) == IF k = Main THEN {"start", "manual"} ELSE {"start", "stop", "restart"}

Entry(o) == CASE o = "start"  -> "check"
              [] o = "manual" -> "context"
              [] OTHER        -> "stop"

Init ==
  /\ status = "stopped"
  /\ process = None
  /\ cancel = None
  /\ stopping = FALSE
  /\ lastError = FALSE
  /\ grpc = FALSE
  /\ toService = None
  /\ registered = 0
  /\ pc = [k \in Calls |-> "idle"]
  /\ op = [k \in Calls |-> "none"]
  /\ snap = [k \in Calls |-> [process |-> None, cancel |-> None]]
  /\ ctx = [k \in Calls |-> "none"]
  /\ proc = [k \in Calls |-> "none"]
  /\ waiter = [k \in Calls |-> "none"]

Goto(k, label) == pc' = [pc EXCEPT ![k] = label]

-----------------------------------------------------------------------------
(* A caller arrives.  With Overlap it may arrive at any moment; without, the *)
(* boot loop goes first and nobody calls while a call is in flight.          *)

MayBegin(k) ==
  Overlap \/ /\ \A j \in Calls : ~InFlight(j)
             /\ k = Main \/ pc[Main] # "idle"

Begin(k) ==
  /\ pc[k] = "idle"
  /\ MayBegin(k)
  /\ \E o \in Ops(k) :
       /\ op' = [op EXCEPT ![k] = o]
       /\ Goto(k, Entry(o))
  /\ UNCHANGED <<shared, snap, runs>>

-----------------------------------------------------------------------------
(* Start *)

RefuseRunning(k) ==
  /\ pc[k] = "check"
  /\ process # None
  /\ Goto(k, "refused")
  /\ UNCHANGED <<shared, op, snap, runs>>

\* Mutant of BeginStart: the check for a running process is left out.
BeginStartUnchecked(k) ==
  /\ pc[k] = "check"
  /\ status' = "starting"
  /\ lastError' = FALSE
  /\ stopping' = FALSE
  /\ Goto(k, "context")
  /\ UNCHANGED <<process, cancel, grpc, toService, registered, op, snap, runs>>

\* Mutant of BeginStart: the stopping flag of the last Stop is not reset.
BeginStartStillStopping(k) ==
  /\ pc[k] = "check"
  /\ process = None
  /\ status' = "starting"
  /\ lastError' = FALSE
  /\ Goto(k, "context")
  /\ UNCHANGED <<process, cancel, stopping, grpc, toService, registered, op, snap, runs>>

BeginStart(k) ==
  /\ pc[k] = "check"
  /\ process = None
  /\ status' = "starting"
  /\ lastError' = FALSE
  /\ stopping' = FALSE
  /\ Goto(k, "context")
  /\ UNCHANGED <<process, cancel, grpc, toService, registered, op, snap, runs>>

\* context.WithCancel and the store to i.cancel, which no lock protects.
NewContext(k) ==
  /\ pc[k] = "context"
  /\ ctx' = [ctx EXCEPT ![k] = "live"]
  /\ cancel' = k
  /\ Goto(k, "build")
  /\ UNCHANGED <<status, process, stopping, lastError, grpc, toService, registered,
                 op, snap, proc, waiter>>

\* Mutant of Abort: the error return leaves the context as it is.
AbortKeepingContext(k) ==
  /\ UNCHANGED <<ctx, op, snap, proc, waiter, process, cancel, stopping, grpc, toService, registered>>
  /\ Goto(k, "failed")
  /\ IF Manual(k) THEN UNCHANGED <<status, lastError>>
                  ELSE status' = "error" /\ lastError' = TRUE

\* Mutant of Abort: no error return records its error.
AbortKeepingStatus(k) ==
  /\ ctx' = [ctx EXCEPT ![k] = "cancelled"]
  /\ Goto(k, "failed")
  /\ UNCHANGED <<shared, op, snap, proc, waiter>>

\* An error return of a start: the context is cancelled; Start also records
\* the error under the lock, StartManual does not.  The cancelled context has
\* nobody to observe it before the lock is taken, so the two are one step.
Abort(k) ==
  /\ ctx' = [ctx EXCEPT ![k] = "cancelled"]
  /\ Goto(k, "failed")
  /\ IF Manual(k) THEN UNCHANGED <<status, lastError>>
                  ELSE status' = "error" /\ lastError' = TRUE
  /\ UNCHANGED <<op, snap, proc, waiter, process, cancel, stopping, grpc, toService, registered>>

\* The go build fails, or its context is cancelled and kills it.
BuildFails(k) ==
  /\ pc[k] = "build"
  /\ Abort(k)

\* The build succeeds and the binary's transports are discovered.
BuildOk(k) ==
  /\ pc[k] = "build"
  /\ ctx[k] = "live"
  /\ grpc' \in BOOLEAN
  /\ Goto(k, "transports")
  /\ UNCHANGED <<status, process, cancel, stopping, lastError, toService, registered,
                 op, snap, runs>>

TransportsFail(k) ==
  /\ pc[k] = "transports"
  /\ Abort(k)

TransportsOk(k) ==
  /\ pc[k] = "transports"
  /\ Goto(k, IF Manual(k) THEN "register" ELSE "spawn")
  /\ UNCHANGED <<shared, op, snap, runs>>

\* StdoutPipe or StderrPipe fails: the one error return of Start that leaves
\* the status as it is.
PipeFails(k) ==
  /\ pc[k] = "spawn"
  /\ ctx' = [ctx EXCEPT ![k] = "cancelled"]
  /\ Goto(k, "pipeError")
  /\ UNCHANGED <<shared, op, snap, proc, waiter>>

\* cmd.Start fails, as it does when the context is already cancelled.
SpawnFails(k) ==
  /\ pc[k] = "spawn"
  /\ Abort(k)

Spawn(k) ==
  /\ pc[k] = "spawn"
  /\ ctx[k] = "live"
  /\ proc' = [proc EXCEPT ![k] = "alive"]
  /\ Goto(k, "publish")
  /\ UNCHANGED <<shared, op, snap, ctx, waiter>>

\* Mutant of Publish: the status is left to somebody else.
PublishSilently(k) ==
  /\ pc[k] = "publish"
  /\ process' = k
  /\ Goto(k, "register")
  /\ UNCHANGED <<status, cancel, stopping, lastError, grpc, toService, registered,
                 op, snap, runs>>

Publish(k) ==
  /\ pc[k] = "publish"
  /\ process' = k
  /\ status' = "running"
  /\ Goto(k, "register")
  /\ UNCHANGED <<cancel, stopping, lastError, grpc, toService, registered,
                 op, snap, runs>>

\* The mesh entry, then the goroutine that waits for the exit.
Register(k) ==
  /\ pc[k] = "register"
  /\ ~Manual(k)
  /\ toService' = IF grpc THEN k ELSE toService
  /\ registered' = registered + 1
  /\ waiter' = [waiter EXCEPT ![k] = "wait"]
  /\ Goto(k, "returned")
  /\ UNCHANGED <<status, process, cancel, stopping, lastError, grpc, op, snap, ctx, proc>>

-----------------------------------------------------------------------------
(* StartManual, from where it differs from Start: no check at its entry, no *)
(* process, and a mesh entry only for a service that speaks gRPC.           *)

RegisterManual(k) ==
  /\ pc[k] = "register"
  /\ Manual(k)
  /\ IF grpc THEN toService' = k /\ registered' = registered + 1
             ELSE UNCHANGED <<toService, registered>>
  /\ Goto(k, "announce")
  /\ UNCHANGED <<status, process, cancel, stopping, lastError, grpc, op, snap, runs>>

Announce(k) ==
  /\ pc[k] = "announce"
  /\ status' = "manual"
  /\ Goto(k, "returned")
  /\ UNCHANGED <<process, cancel, stopping, lastError, grpc, toService, registered,
                 op, snap, runs>>

-----------------------------------------------------------------------------
(* Stop; Restart is Stop and then Start on the same goroutine. *)

\* registry.Unregister removes the first occurrence, if there is one.
Unregistered == IF registered > 0 THEN registered - 1 ELSE 0

SnapStop(k) ==
  /\ pc[k] = "stop"
  /\ snap' = [snap EXCEPT ![k] = [process |-> process, cancel |-> cancel]]
  /\ stopping' = TRUE
  /\ Goto(k, "unregister")
  /\ UNCHANGED <<status, process, cancel, lastError, grpc, toService, registered, op, runs>>

\* Mutant of StopUnregister: Stop does not wait for the process to be reaped.
StopWithoutWaiting(k) ==
  /\ pc[k] = "unregister"
  /\ registered' = Unregistered
  /\ Goto(k, "cancel")
  /\ UNCHANGED <<status, process, cancel, stopping, lastError, grpc, toService,
                 op, snap, runs>>

StopUnregister(k) ==
  /\ pc[k] = "unregister"
  /\ registered' = Unregistered
  /\ Goto(k, IF snap[k].process # None THEN "signal" ELSE "cancel")
  /\ UNCHANGED <<status, process, cancel, stopping, lastError, grpc, toService,
                 op, snap, runs>>

\* One turn of the loop of Stop after the deadline: the process the field
\* holds now, which need not be the one Stop read at first, gets SIGKILL.
\* Before the deadline it gets SIGINT, on which a process may or may not exit:
\* ProcessExits, which is always possible, stands for that.
SignalKill(k) ==
  /\ pc[k] = "signal"
  /\ process # None
  /\ proc[process] = "alive"
  /\ proc' = [proc EXCEPT ![process] = "fail"]
  /\ UNCHANGED <<shared, calls, ctx, waiter>>

SignalDone(k) ==
  /\ pc[k] = "signal"
  /\ process = None
  /\ Goto(k, "cancel")
  /\ UNCHANGED <<shared, op, snap, runs>>

StopCancel(k) ==
  /\ pc[k] = "cancel"
  /\ IF snap[k].cancel # None
       THEN ctx' = [ctx EXCEPT ![snap[k].cancel] = "cancelled"]
       ELSE UNCHANGED ctx
  /\ Goto(k, "settle")
  /\ UNCHANGED <<shared, op, snap, proc, waiter>>

SetStopped(k) ==
  /\ pc[k] = "settle"
  /\ status' = "stopped"
  /\ Goto(k, IF op[k] = "restart" THEN "check" ELSE "returned")
  /\ UNCHANGED <<process, cancel, stopping, lastError, grpc, toService, registered,
                 op, snap, runs>>

-----------------------------------------------------------------------------
(* The process and the goroutine that reaps it *)

\* A process may end at any moment, with either outcome.
ProcessExits(r) ==
  /\ proc[r] = "alive"
  /\ \E outcome \in Exited : proc' = [proc EXCEPT ![r] = outcome]
  /\ UNCHANGED <<shared, calls, ctx, waiter>>

\* exec.CommandContext kills the process of a cancelled context.
ContextKills(r) ==
  /\ proc[r] = "alive"
  /\ ctx[r] = "cancelled"
  /\ proc' = [proc EXCEPT ![r] = "fail"]
  /\ UNCHANGED <<shared, calls, ctx, waiter>>

\* Mutant of WaiterUnregister: a process that ends by itself stays listed.
WaiterKeepsRegistered(r) ==
  /\ waiter[r] = "wait"
  /\ proc[r] \in Exited
  /\ waiter' = [waiter EXCEPT ![r] = "settle"]
  /\ UNCHANGED <<shared, calls, ctx, proc>>

WaiterUnregister(r) ==
  /\ waiter[r] = "wait"
  /\ proc[r] \in Exited
  /\ registered' = Unregistered
  /\ waiter' = [waiter EXCEPT ![r] = "settle"]
  /\ UNCHANGED <<status, process, cancel, stopping, lastError, grpc, toService,
                 calls, ctx, proc>>

\* Mutant of WaiterSettle: the process field is not cleared.
WaiterKeepsProcess(r) ==
  /\ waiter[r] = "settle"
  /\ IF proc[r] = "fail" /\ ~stopping
       THEN status' = "error" /\ lastError' = TRUE
       ELSE status' = "stopped" /\ UNCHANGED lastError
  /\ waiter' = [waiter EXCEPT ![r] = "release"]
  /\ UNCHANGED <<process, cancel, stopping, grpc, toService, registered, calls, ctx, proc>>

\* The process field is cleared whichever run it points to.
WaiterSettle(r) ==
  /\ waiter[r] = "settle"
  /\ process' = None
  /\ IF proc[r] = "fail" /\ ~stopping
       THEN status' = "error" /\ lastError' = TRUE
       ELSE status' = "stopped" /\ UNCHANGED lastError
  /\ waiter' = [waiter EXCEPT ![r] = "release"]
  /\ UNCHANGED <<cancel, stopping, grpc, toService, registered, calls, ctx, proc>>

WaiterRelease(r) ==
  /\ waiter[r] = "release"
  /\ ctx' = [ctx EXCEPT ![r] = "cancelled"]
  /\ waiter' = [waiter EXCEPT ![r] = "done"]
  /\ UNCHANGED <<shared, calls, proc>>

-----------------------------------------------------------------------------
StartStep(k) ==
  \/ RefuseRunning(k) \/ BeginStart(k) \/ NewContext(k) \/ BuildFails(k) \/ BuildOk(k)
  \/ TransportsFail(k) \/ TransportsOk(k) \/ PipeFails(k) \/ SpawnFails(k) \/ Spawn(k)
  \/ Publish(k) \/ Register(k) \/ RegisterManual(k) \/ Announce(k)

StopStep(k) ==
  \/ SnapStop(k) \/ StopUnregister(k) \/ SignalKill(k) \/ SignalDone(k)
  \/ StopCancel(k) \/ SetStopped(k)

WaiterStep(r) == WaiterUnregister(r) \/ WaiterSettle(r) \/ WaiterRelease(r)

\* Every call has returned and every process has been reaped.
Terminating ==
  /\ \A k \in Calls : pc[k] \in Final /\ waiter[k] \in {"none", "done"}
  /\ UNCHANGED vars

Next ==
  \/ \E k \in Calls : Begin(k) \/ StartStep(k) \/ StopStep(k)
  \/ \E r \in Calls : ProcessExits(r) \/ ContextKills(r) \/ WaiterStep(r)
  \/ Terminating

Spec == Init /\ [][Next]_vars

\* The Go scheduler runs every goroutine that can run, builds end, Stop's
\* deadline passes and the kernel delivers a kill.  Nothing makes a caller
\* come, nor a process exit by itself.
Fairness ==
  \A k \in Calls : /\ WF_vars(StartStep(k))
                   /\ WF_vars(StopStep(k))
                   /\ WF_vars(ContextKills(k))
                   /\ WF_vars(WaiterStep(k))

FairSpec == Spec /\ Fairness

-----------------------------------------------------------------------------
(* Type invariant *)

\* The fields, program counters and per-run states stay within the values the
\* code gives them (instance.go:35-91).
TypeOK ==
  /\ status \in Statuses
  /\ process \in Calls \cup {None}
  /\ cancel \in Calls \cup {None}
  /\ stopping \in BOOLEAN
  /\ lastError \in BOOLEAN
  /\ grpc \in BOOLEAN
  /\ toService \in Calls \cup {None}
  /\ registered \in Nat
  /\ pc \in [Calls -> PCs]
  /\ op \in [Calls -> {"none", "start", "manual", "stop", "restart"}]
  /\ snap \in [Calls -> [process : Calls \cup {None}, cancel : Calls \cup {None}]]
  /\ ctx \in [Calls -> {"none", "live", "cancelled"}]
  /\ proc \in [Calls -> {"none", "alive"} \cup Exited]
  /\ waiter \in [Calls -> {"none", "wait", "settle", "release", "done"}]

-----------------------------------------------------------------------------
(* What holds whatever the callers do *)

\* The runs that may account for one occurrence each in the registry.
Registrants ==
  {k \in Calls : IF Manual(k) THEN pc[k] \in {"announce", "returned"}
                              ELSE waiter[k] = "wait"}

\* The process field never holds a process that its waiter has settled: Stop
\* polls this field and signals what it finds (instance.go:508-521), so it
\* never waits for, nor signals, a process that is gone for good.
ProcessFieldFresh ==
  process # None => \/ pc[process] = "register" /\ ~Manual(process)
                    \/ waiter[process] \in {"wait", "settle"}

\* The registry never holds more occurrences of the instance than runs that
\* registered and have not ended: with Stop and the waiter both calling
\* Unregister (instance.go:443, 504) no entry survives the last of them.
NoGhostRegistration == registered <= Cardinality(Registrants)

\* Only a call in flight, a process not yet reaped or a manual run holds an
\* open context: whatever overlaps, the transports, sockets and goroutines of
\* a managed run end with it, even when i.cancel was overwritten
\* (instance.go:343, 455, 465).
NoLeakedContext ==
  \A k \in Calls : ctx[k] = "live" =>
    \/ pc[k] \in {"build", "transports", "spawn", "publish", "register", "announce"}
    \/ waiter[k] \in {"wait", "settle", "release"}
    \/ Manual(k) /\ pc[k] = "returned"

\* "starting" is shown only while a Start is on its way or after one failed to
\* make its pipes (instance.go:339, 387-395): no other failure leaves it.
StartingExplained ==
  status = "starting" =>
    \E k \in Calls :
      ~Manual(k) /\ pc[k] \in {"context", "build", "transports", "spawn", "publish", "pipeError"}

\* The strengthening of the four invariants above, in two parts: how far the
\* context, process and waiter of a run have come at each step of its call, and
\* that a cancel function somebody holds is that of a run whose context exists.
BeforeRun == {"idle", "check", "context", "stop", "unregister", "signal", "cancel",
              "settle", "refused"}

Lifecycle ==
  \A k \in Calls :
    /\ pc[k] \in BeforeRun => ctx[k] = "none" /\ proc[k] = "none" /\ waiter[k] = "none"
    /\ pc[k] \in {"build", "transports", "spawn", "announce"} =>
         proc[k] = "none" /\ waiter[k] = "none"
    /\ pc[k] \in {"failed", "pipeError"} =>
         ctx[k] = "cancelled" /\ proc[k] = "none" /\ waiter[k] = "none"
    /\ pc[k] \in {"publish", "register"} => waiter[k] = "none"
    /\ pc[k] = "register" /\ Manual(k) => proc[k] = "none"
    /\ pc[k] \in {"check", "spawn", "publish", "stop", "unregister", "signal", "cancel",
                  "settle"} => ~Manual(k)
    /\ pc[k] = "announce" => Manual(k)
    /\ waiter[k] # "none" => pc[k] = "returned" /\ ~Manual(k)
    /\ pc[k] = "returned" /\ ctx[k] = "live" =>
         Manual(k) \/ waiter[k] \in {"wait", "settle", "release"}
    /\ proc[k] = "alive" => pc[k] \in {"publish", "register"} \/ waiter[k] = "wait"
    /\ waiter[k] \in {"settle", "release", "done"} => proc[k] \in Exited

CancelExists ==
  /\ cancel # None => pc[cancel] \notin BeforeRun
  /\ \A k \in Calls : snap[k].cancel # None => pc[snap[k].cancel] \notin BeforeRun

-----------------------------------------------------------------------------
(* What holds when calls do not overlap *)

AliveRuns == {r \in Calls : proc[r] = "alive"}

\* The instance has one process at most.
AtMostOneProcess == Cardinality(AliveRuns) <= 1

Quiet == \A k \in Calls : ~InFlight(k)

\* Between calls the status tells what the instance does: it shows "running"
\* exactly while the process field is set, the field then holds every process
\* there is, with its transports open and its mesh entry in place until the
\* waiter takes it back, "error" comes with a message, and "manual" means
\* that the boot loop's run still holds the transports.
StatusTellsTruth ==
  Quiet =>
    /\ status = "running" <=> process # None
    /\ AliveRuns \subseteq {process}
    /\ process # None => /\ ctx[process] = "live"
                         /\ waiter[process] = "wait" => registered >= 1
    /\ status = "error" => lastError
    /\ status = "manual" => /\ op[Main] = "manual" /\ cancel = Main
                            /\ ctx[Main] = "live"
                            /\ grpc => registered = 1 /\ toService = Main
    /\ status = "starting" => \E k \in Calls : pc[k] = "pipeError"

\* The strengthening that makes AtMostOneProcess inductive: one call is in
\* flight, a start that passed its check finds no process until it publishes
\* its own, and every process that its waiter has not settled is in the field.
Serial ==
  /\ \A j, k \in Calls : InFlight(j) /\ InFlight(k) => j = k
  /\ \A k \in Calls : ~Manual(k) /\ pc[k] \in {"context", "build", "transports", "spawn", "publish"} =>
       process = None
  /\ \A r \in Calls :
       \/ ~Manual(r) /\ pc[r] = "register"
       \/ waiter[r] \in {"wait", "settle"}
       => process = r
  /\ \A r \in Calls : proc[r] = "alive" => pc[r] = "publish" \/ process = r

\* Stop has taken the mesh entry back.
Ending(k) == pc[k] \in {"signal", "cancel", "settle"}

Waiting == \E r \in Calls : waiter[r] = "wait"

StopAsked == \E k \in Calls : pc[k] \in {"unregister", "signal", "cancel", "settle"}

\* The strengthening of Serial for what the fields of the instance tell, part by
\* part: the boot loop comes first, and is the only one to start in manual mode;
BootFirst ==
  /\ \A k \in Calls : Manual(k) => k = Main
  /\ pc[Main] \notin Final => \A k \in Calls \ {Main} : pc[k] = "idle"
  /\ Manual(Main) /\ pc[Main] \in {"build", "transports", "register", "announce"} => cancel = Main

\* the stopping flag is up while a Stop waits, and down for a run that no Stop
\* has been asked to end;
StopFlag ==
  /\ StopAsked => stopping
  /\ \A r \in Calls :
       \/ waiter[r] \in {"wait", "settle"}
       \/ ~Manual(r) /\ pc[r] \in {"context", "build", "transports", "spawn", "publish", "register"}
       => (stopping => StopAsked)

\* what Stop read is what it would read now, but for the process, which may be
\* reaped meanwhile and is gone when Stop goes on to cancel;
StopReads ==
  \A k \in Calls :
    /\ pc[k] \in {"unregister", "signal", "cancel", "settle"} => snap[k].cancel = cancel
    /\ pc[k] = "unregister" /\ snap[k].process = None => process = None
    /\ pc[k] \in {"cancel", "settle"} => process = None
    /\ pc[k] = "settle" /\ cancel # None => ctx[cancel] = "cancelled"

\* the context of a run is open until its waiter has settled;
ContextOpen ==
  \A r \in Calls :
    \/ pc[r] \in {"build", "transports", "spawn", "publish", "register", "announce"}
    \/ waiter[r] \in {"wait", "settle"}
    => ctx[r] = "live"

\* the mesh lists the manual run and the one whose waiter waits, until a Stop or
\* that waiter takes an entry back;
MeshCounts ==
  /\ registered <= 2 /\ (registered = 2 => Waiting)
  /\ Waiting => registered >= 1 \/ \E k \in Calls : Ending(k)
  /\ (\E k \in Calls : Ending(k)) => registered <= 1 /\ (registered = 1 => Waiting)
  /\ pc[Main] \notin Final \cup {"announce"} => registered = 0
  /\ pc[Main] = "announce" /\ grpc => registered = 1 /\ toService = Main

\* and the status goes with the fields, also in the middle of a call.
StatusFollows ==
  /\ status = "running" <=> process # None
  /\ status = "error" => lastError
  /\ \A k \in Calls :
       ~Manual(k) /\ pc[k] \in {"context", "build", "transports", "spawn", "publish"} => status = "starting"
  /\ status = "manual" =>
       /\ op[Main] = "manual" /\ pc[Main] = "returned" /\ cancel = Main
       /\ \/ \E k \in Calls : Ending(k)
          \/ /\ ctx[Main] = "live"
             /\ grpc => registered = 1 /\ toService = Main

FieldsTell ==
  BootFirst /\ StopFlag /\ StopReads /\ ContextOpen /\ MeshCounts /\ StatusFollows

\* When Stop returns, or hands over to the Start of a Restart, no process runs,
\* the mesh lists nothing, and the only transports still open are those of a
\* manual run whose cancel function a later Start overwrote.
StopMeansStopped ==
  [][\A k \in Calls : pc[k] = "settle" /\ pc'[k] # "settle" =>
       /\ AliveRuns = {} /\ process = None /\ registered = 0
       /\ \A r \in Calls : ctx[r] = "live" /\ waiter[r] # "release" => Manual(r) /\ cancel # r]_vars

\* The outcome of a run is told apart from a stop: the exit of a failed process
\* becomes "error" exactly when no Stop is waiting for it, although the flag
\* that decides it (stopping, instance.go:448, 501) outlives the Stop that set it.
CrashReported ==
  [][\A r \in Calls :
       waiter[r] = "settle" /\ waiter'[r] = "release" =>
         (status' = "error" <=> proc[r] = "fail" /\ ~StopAsked)]_vars

-----------------------------------------------------------------------------
(* Liveness, under Fairness *)

\* Every call returns: no Stop waits for ever for a process (instance.go:508-521).
CallsReturn == \A k \in Calls : InFlight(k) ~> pc[k] \in Final

=============================================================================
