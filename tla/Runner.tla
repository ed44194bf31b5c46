------------------------------- MODULE Runner -------------------------------
(***************************************************************************)
(* The life of the program around one service: the boot loop and the       *)
(* shutdown of main.go, and the file watcher (watcher/watcher.go) that     *)
(* restarts the service when its source changes.  The service is Instance, *)
(* whose calls come here from three goroutines: the boot loop, the         *)
(* callbacks of the watcher's timer, and the shutdown.  Stopping the timer *)
(* does not stop a callback that has begun, so restarts can overlap each   *)
(* other and the shutdown, and Overlap is TRUE where this is run.          *)
(***************************************************************************)
EXTENDS Instance

CONSTANTS
  Restarts,   \* the callbacks of the watcher's timer, each one restart
  Down,       \* the goroutine of the shutdown that stops the service
  MaxEdits,   \* bound: changes of the source
  MaxAtEnd    \* bound: restarts begun in a program that is told to end

\* Each restart takes a change that no other has taken, so that there is a
\* callback for every time the timer fires.
ASSUME RunnerAssumption ==
  /\ MaxEdits \in 0 .. Cardinality(Restarts) /\ MaxAtEnd \in Nat
  /\ Main \notin Restarts /\ Down \notin Restarts \cup {Main}
  /\ Calls = {Main, Down} \cup Restarts

VARIABLES
  phase,        \* of main: boot, wait, close, stop, exited
  interrupted,  \* SIGINT or SIGTERM has come
  watch,        \* the watcher: none, spawned, on, closed
  edits,        \* changes of the source so far
  unseen,       \* the notifier has an event for the watcher's loop
  taken,        \* the loop holds an event it has not scheduled yet
  timer,        \* armed or idle
  \* History, read by no action.
  covered,      \* the changes there were when the latest restart began
  raced         \* two restarts overlapped, or one was due or under way when
                \* the watchers were closed

watching == <<watch, edits, unseen, taken, timer, covered>>
runnerVars == <<vars, phase, interrupted, watching, raced>>

RunnerInit ==
  /\ Init
  /\ phase = "boot" /\ interrupted = FALSE
  /\ watch = "none" /\ edits = 0 /\ unseen = FALSE /\ taken = FALSE /\ timer = "idle"
  /\ covered = 0 /\ raced = FALSE

-----------------------------------------------------------------------------
(* main *)

\* Start or StartManual, as the service is configured,
Boot ==
  /\ phase = "boot"
  /\ Begin(Main)
  /\ UNCHANGED <<phase, interrupted, watching, raced>>

\* and then, whether or not it has succeeded, the watcher if one is configured
\* for a service that main starts.
Booted ==
  /\ phase = "boot"
  /\ pc[Main] \in Final
  /\ phase' = "wait"
  /\ watch' \in IF op[Main] = "start" THEN {"none", "spawned"} ELSE {"none"}
  /\ UNCHANGED <<vars, interrupted, edits, unseen, taken, timer, covered, raced>>

Begun == {k \in Restarts : pc[k] # "idle"}

\* The signal may come at any moment; main looks at it when it has booted.
Interrupt ==
  /\ ~interrupted /\ Cardinality(Begun) <= MaxAtEnd
  /\ interrupted' = TRUE
  /\ UNCHANGED <<vars, phase, watching, raced>>

\* A restart is under way, or will be whether or not the notifier is closed.
RestartDue ==
  taken \/ timer = "armed" \/ watch = "spawned" \/ \E k \in Restarts : InFlight(k)

\* Mutant of CloseWatchers: main forgets the watchers.
CloseNoWatcher ==
  /\ phase = "wait" /\ interrupted
  /\ phase' = "close"
  /\ raced' = (raced \/ RestartDue)
  /\ UNCHANGED <<vars, interrupted, watching>>

\* Watcher.Stop: a watcher that has not come to open its notifier is not closed,
\* an event its loop has taken goes on, and an armed timer is not stopped.
CloseWatchers ==
  /\ phase = "wait" /\ interrupted
  /\ phase' = "close"
  /\ watch' = IF watch = "on" THEN "closed" ELSE watch
  /\ raced' = (raced \/ RestartDue)
  /\ UNCHANGED <<vars, interrupted, edits, unseen, taken, timer, covered>>

\* Stop, on a goroutine of its own that main waits for.
StopService ==
  /\ phase = "close"
  /\ Begin(Down)
  /\ op'[Down] = "stop"
  /\ phase' = "stop"
  /\ UNCHANGED <<interrupted, watching, raced>>

\* Mutant of Exit: main does not wait for the services to stop.
ExitAtOnce ==
  /\ phase = "stop"
  /\ phase' = "exited"
  /\ UNCHANGED <<vars, interrupted, watching, raced>>

\* wg.Wait; with main ends the program.
Exit ==
  /\ phase = "stop"
  /\ pc[Down] = "returned"
  /\ phase' = "exited"
  /\ UNCHANGED <<vars, interrupted, watching, raced>>

-----------------------------------------------------------------------------
(* The watcher *)

\* Its goroutine opens the notifier and adds the directories, or gives up.
WatchBegins ==
  /\ watch = "spawned"
  /\ watch' \in {"on", "closed"}
  /\ UNCHANGED <<vars, phase, interrupted, edits, unseen, taken, timer, covered, raced>>

\* The developer changes a Go file, whatever the timer and the restarts are doing.
Edit ==
  /\ edits < MaxEdits
  /\ edits' = edits + 1
  /\ unseen' = (unseen \/ watch = "on")
  /\ UNCHANGED <<vars, phase, interrupted, watch, taken, timer, covered, raced>>

\* The loop of the watcher receives the event.
Take ==
  /\ watch = "on" /\ unseen /\ ~taken
  /\ unseen' = FALSE /\ taken' = TRUE
  /\ UNCHANGED <<vars, phase, interrupted, watch, edits, timer, covered, raced>>

\* Mutant of Schedule: a change that comes while a restart is under way is taken to
\* be part of it.
ScheduleWhenIdle ==
  /\ taken
  /\ taken' = FALSE
  /\ timer' = IF \E k \in Restarts : InFlight(k) THEN timer ELSE "armed"
  /\ UNCHANGED <<vars, phase, interrupted, watch, edits, unseen, covered, raced>>

\* scheduleRestart stops the timer if it runs, and starts it anew.
Schedule ==
  /\ taken
  /\ taken' = FALSE
  /\ timer' = "armed"
  /\ UNCHANGED <<vars, phase, interrupted, watch, edits, unseen, covered, raced>>

\* The timer fires: Restart, on a goroutine of its own.
Fire(k) ==
  /\ timer = "armed" /\ (interrupted => Cardinality(Begun) < MaxAtEnd)
  /\ timer' = "idle"
  /\ Begin(k)
  /\ op'[k] = "restart"
  /\ covered' = edits
  /\ raced' = (raced \/ \E j \in Restarts : InFlight(j))
  /\ UNCHANGED <<phase, interrupted, watch, edits, unseen, taken>>

-----------------------------------------------------------------------------
Call(k) ==
  /\ StartStep(k) \/ StopStep(k)
  /\ UNCHANGED <<phase, interrupted, watching, raced>>

Reap(k) ==
  /\ ContextKills(k) \/ WaiterStep(k)
  /\ UNCHANGED <<phase, interrupted, watching, raced>>

\* A process may end at any moment, also after the program.
ProcessEnds(k) ==
  /\ ProcessExits(k)
  /\ UNCHANGED <<phase, interrupted, watching, raced>>

ServiceRuns == {Main} \cup Restarts

RunnerNext ==
  \/ /\ phase # "exited"
     /\ \/ Boot \/ Booted \/ Interrupt \/ CloseWatchers \/ StopService \/ Exit
        \/ WatchBegins \/ Edit \/ Take \/ Schedule
        \/ \E k \in Restarts : Fire(k)
        \/ \E k \in ServiceRuns \cup {Down} : Call(k)
        \/ \E k \in ServiceRuns : Reap(k)
  \/ \E k \in ServiceRuns : ProcessEnds(k)

RunnerSpec == RunnerInit /\ [][RunnerNext]_runnerVars

Running(A) == phase # "exited" /\ A

\* Goroutines that can run do, timers fire and the notifier delivers; a signal,
\* an edit and the exit of a process need not come.  No behaviour goes round a
\* circle, so one condition on the steps together passes no goroutine over.
RunnerFairSpec ==
  /\ RunnerSpec
  /\ WF_runnerVars(Running(\/ Boot \/ Booted \/ CloseWatchers \/ StopService \/ Exit
                           \/ WatchBegins \/ Take \/ Schedule
                           \/ \E k \in Restarts : Fire(k)
                           \/ \E k \in ServiceRuns \cup {Down} : Call(k)
                           \/ \E k \in ServiceRuns : Reap(k)))

-----------------------------------------------------------------------------
(* Properties *)

\* When the program ends no process of it goes on, nothing is listed in the mesh
\* and no transport is left open but by a waiter about to close it, unless two
\* restarts overlapped, or one was due or under way when the watchers were closed
\* (main.go:182-197): closing them first keeps a restart from beginning behind the
\* stop.
CleanExit ==
  phase = "exited" /\ ~raced =>
    /\ AliveRuns = {} /\ registered = 0
    /\ \A k \in ServiceRuns : ctx[k] = "live" => waiter[k] = "release"

\* After a change that the watcher could see comes a restart that begins when every
\* change so far has been made (watcher.go:93-106): one that comes while the timer is
\* armed, as it fires, or while a restart it is too late for is under way is not lost.
\* It holds as long as the changes come to an end, since each puts the restart off,
\* and unless the program is being ended.
ChangeRestarts == unseen ~> covered = edits \/ interrupted

\* The program ends when it is told to, with restarts in flight, in the middle of
\* the boot, and with a service that ignores the interrupt.
ShutdownEnds == interrupted ~> phase = "exited"

-----------------------------------------------------------------------------
(* The strengthening of CleanExit *)

RunnerTypeOK ==
  /\ TypeOK
  /\ phase \in {"boot", "wait", "close", "stop", "exited"}
  /\ watch \in {"none", "spawned", "on", "closed"}
  /\ timer \in {"idle", "armed"}
  /\ taken \in BOOLEAN /\ raced \in BOOLEAN

\* The boot call comes first, and the one call of the shutdown is its Stop;
PhasesInTurn ==
  /\ phase = "boot" => watch = "none" /\ \A k \in Calls \ {Main} : pc[k] = "idle"
  /\ phase # "boot" => pc[Main] \in Final
  /\ phase \notin {"stop", "exited"} => pc[Down] = "idle"
  /\ phase \in {"stop", "exited"} =>
       op[Down] = "stop" /\ pc[Down] \in {"stop", "unregister", "signal", "cancel", "settle", "returned"}
  /\ phase = "exited" => pc[Down] = "returned"

\* restarts come from a watcher, and a service in manual mode has none, so that
\* its cancel function stays that of its run;
RestartsAreWatched ==
  /\ watch \in {"none", "spawned"} => ~taken /\ timer = "idle" /\ \A k \in Restarts : pc[k] = "idle"
  /\ Manual(Main) => watch = "none"
  /\ Manual(Main) /\ pc[Main] \notin {"idle", "context"} => cancel = Main

\* once the watchers are closed no restart is due, unless there was a race;
WatchersClosed ==
  phase \in {"close", "stop", "exited"} /\ ~raced => ~RestartDue /\ watch # "on"

\* and what the Stop of the shutdown has ended stays so.
StaysStopped ==
  phase \in {"stop", "exited"} /\ pc[Down] = "returned" /\ ~raced =>
    /\ AliveRuns = {} /\ process = None /\ registered = 0
    /\ \A r \in Calls : ctx[r] = "live" => waiter[r] = "release"
=============================================================================
