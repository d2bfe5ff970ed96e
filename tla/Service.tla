------------------------------ MODULE Service -------------------------------
(***************************************************************************)
(* The life of the service: main() in src/src/main.cc forks the keyboard   *)
(* worker and the touchpad worker, waits for the first one that ends,      *)
(* stops the other one and exits; systemd starts it again or not.          *)
(*                                                                         *)
(* A worker is the sequence of its set-up steps and the loop Consume().    *)
(* Each step may fail.  The touch screen is a device that goes away when   *)
(* the tablet enters pen mode and comes back as a new one.                 *)
(***************************************************************************)
EXTENDS Naturals, Sequences

CONSTANTS
  MaxFaults,       \* bound: failures the environment may cause
  MaxSwitches,     \* bound: switches to pen mode
  StartLimitBurst  \* the unit's limit of starts in StartLimitIntervalSec

ASSUME BoundsAssumption ==
  /\ MaxFaults \in Nat /\ MaxSwitches \in Nat
  /\ StartLimitBurst \in Nat \ {0}

Workers == {"keyboard", "touchpad"}
Other(w) == CHOOSE v \in Workers : v # w

\* A mistake to tell apart: the touchpad consumes events for a device that was
\* never created.
SetUpMutant(w) ==
  IF w = "keyboard"
  THEN <<"construct", "open", "uinput", "enable", "create", "consume">>
  ELSE <<"construct", "open", "uinput", "enable", "axes", "consume">>

\* What a worker does before it consumes events.
SetUp(w) ==
  IF w = "keyboard"
  THEN <<"construct", "open", "uinput", "enable", "create", "consume">>
  ELSE <<"construct", "open", "uinput", "enable", "axes", "create", "consume">>

After(w, step) ==
  LET i == CHOOSE j \in DOMAIN SetUp(w) : SetUp(w)[j] = step
  IN  SetUp(w)[i + 1]

VARIABLES
  source,         \* "there" or "gone": /dev/halo_keyboard
  main,           \* where main() is: none, config, spawn, wait, stop, reap
  stopping,       \* the worker StopWorker() is about
  expected_stop,  \* expected_stop of Supervise()
  worker,         \* worker[w]: none, a step of SetUp(w), or zombie
  status,         \* status[w]: how a zombie ended
  source_fd,      \* source_fd[w]: none, live, or dead (its device is gone)
  uinput,         \* uinput[w]: none, open, or created
  terminated,     \* workers with a SIGTERM on its way
  result,         \* how main() ended the last time
  unit,           \* systemd: idle, active, stopping, restart or failed
  asked,          \* what udev last asked of systemd: nothing, start or stop
  starts,         \* starts of the unit in the current interval
  faults,         \* faults so far
  switches,       \* switches to pen mode so far
  faulty,         \* history: a fault hit this run of the service
  left            \* history: the source was away during this run

main_vars == <<main, stopping, expected_stop, result>>
worker_vars == <<worker, status, source_fd, uinput>>
unit_vars == <<unit, asked, starts>>
world_vars == <<source, switches, left>>
fault_vars == <<faults, faulty>>
vars == <<main_vars, worker_vars, terminated, unit_vars, world_vars, fault_vars>>

Init ==
  /\ source = "there" /\ switches = 0 /\ left = FALSE
  /\ main = "none" /\ stopping = "keyboard" /\ expected_stop = FALSE
  /\ result = "none"
  /\ worker = [w \in Workers |-> "none"]
  /\ status = [w \in Workers |-> "none"]
  /\ source_fd = [w \in Workers |-> "none"]
  /\ uinput = [w \in Workers |-> "none"]
  /\ terminated = {}
  /\ unit = "idle" /\ asked = "start" /\ starts = 0
  /\ faults = 0 /\ faulty = FALSE

Fault == faults < MaxFaults /\ faults' = faults + 1 /\ faulty' = TRUE

-----------------------------------------------------------------------------
(***************************************************************************)
(* A worker.                                                               *)
(***************************************************************************)
Alive(w) == worker[w] \notin {"none", "zombie"}

\* Destructors or the kernel close the descriptors, and with the last one the
\* virtual device is gone.
Ends(w, how) ==
  /\ worker' = [worker EXCEPT ![w] = "zombie"]
  /\ status' = [status EXCEPT ![w] = how]
  /\ source_fd' = [source_fd EXCEPT ![w] = "none"]
  /\ uinput' = [uinput EXCEPT ![w] = "none"]

\* A mistake to tell apart: every error of the source is expected.
ExitOfMutant(error) ==
  IF error \in {"ENOENT", "ENODEV", "EACCES"} THEN "success" ELSE "failure"

\* IsExpectedSourceDeviceError() of the errors the source gives.
ExitOf(error) ==
  IF error \in {"ENOENT", "ENODEV"} THEN "success" ELSE "failure"

OpenSourceDevice(w) ==
  /\ worker[w] = "open" /\ source = "there"
  /\ worker' = [worker EXCEPT ![w] = After(w, "open")]
  /\ source_fd' = [source_fd EXCEPT ![w] = "live"]
  /\ UNCHANGED <<status, uinput>>

SourceMissing(w) ==
  worker[w] = "open" /\ source = "gone" /\ Ends(w, ExitOf("ENOENT"))

\* /dev/uinput, the capabilities; the constructors before.
PrepareDevice(w) ==
  /\ worker[w] \in {"construct", "uinput", "enable"}
  /\ worker' = [worker EXCEPT ![w] = After(w, worker[w])]
  /\ uinput' = IF worker[w] = "uinput"
               THEN [uinput EXCEPT ![w] = "open"] ELSE uinput
  /\ UNCHANGED <<status, source_fd>>

\* CopyABSOutputEvents() asks the source for its axes.
CopyAxes(w) ==
  /\ worker[w] = "axes" /\ source_fd[w] = "live"
  /\ worker' = [worker EXCEPT ![w] = After(w, "axes")]
  /\ UNCHANGED <<status, source_fd, uinput>>

\* It returns false, Run() throws a runtime_error.
AxesMissing(w) ==
  worker[w] = "axes" /\ source_fd[w] = "dead" /\ Ends(w, ExitOf("other"))

FinalizeUinputCreation(w) ==
  /\ worker[w] = "create"
  /\ worker' = [worker EXCEPT ![w] = After(w, "create")]
  /\ uinput' = [uinput EXCEPT ![w] = "created"]
  /\ UNCHANGED <<status, source_fd>>

\* read() fails in GetNextEvent().
SourceLost(w) ==
  worker[w] = "consume" /\ source_fd[w] = "dead" /\ Ends(w, ExitOf("ENODEV"))

\* Any other call that fails, in any step.
WorkerFails(w) ==
  /\ Alive(w)
  /\ Ends(w, ExitOf(IF worker[w] = "open" THEN "EACCES" ELSE "other"))
  /\ Fault

Killed(w) ==
  /\ w \in terminated /\ Alive(w)
  /\ Ends(w, "signal")
  /\ terminated' = terminated \ {w}

WorkerStep(w) ==
  \/ /\ \/ OpenSourceDevice(w) \/ SourceMissing(w) \/ PrepareDevice(w)
        \/ CopyAxes(w) \/ AxesMissing(w) \/ FinalizeUinputCreation(w)
        \/ SourceLost(w)
     /\ UNCHANGED <<main_vars, terminated, unit_vars, world_vars, fault_vars>>
  \/ /\ Killed(w)
     /\ UNCHANGED <<main_vars, unit_vars, world_vars, fault_vars>>

WorkerFault(w) ==
  WorkerFails(w) /\ UNCHANGED <<main_vars, terminated, unit_vars, world_vars>>

-----------------------------------------------------------------------------
(***************************************************************************)
(* main().                                                                 *)
(***************************************************************************)
Exit(how) ==
  /\ main' = "none"
  /\ result' = how

LoadHardwareConfig ==
  /\ main = "config"
  /\ main' = "spawn"
  /\ UNCHANGED <<stopping, expected_stop, result, worker_vars, terminated>>

\* The next worker; the keyboard comes first.
ToSpawn == IF worker["keyboard"] = "none" THEN "keyboard" ELSE "touchpad"

SpawnWorker ==
  /\ main = "spawn"
  /\ worker' = [worker EXCEPT ![ToSpawn] = "construct"]
  /\ main' = IF ToSpawn = "keyboard" THEN "spawn" ELSE "wait"
  /\ UNCHANGED <<stopping, expected_stop, result, status, source_fd, uinput>>
  /\ UNCHANGED terminated

\* Mistakes to tell apart: only the keyboard is waited for; the worker that has
\* ended is stopped, not the other one.
WaitForKeyboard ==
  /\ main = "wait"
  /\ worker["keyboard"] = "zombie"
  /\ worker' = [worker EXCEPT !["keyboard"] = "none"]
  /\ expected_stop' = (status["keyboard"] = "success")
  /\ stopping' = "touchpad"
  /\ main' = "stop"
  /\ UNCHANGED <<result, status, source_fd, uinput, terminated>>

WaitAndStopTheSame ==
  /\ main = "wait"
  /\ \E w \in Workers :
       /\ worker[w] = "zombie"
       /\ worker' = [worker EXCEPT ![w] = "none"]
       /\ expected_stop' = (status[w] = "success")
       /\ stopping' = w
  /\ main' = "stop"
  /\ UNCHANGED <<result, status, source_fd, uinput, terminated>>

\* Supervise() up to StopWorker(): the first worker that ended.
WaitForWorker ==
  /\ main = "wait"
  /\ \E w \in Workers :
       /\ worker[w] = "zombie"
       /\ worker' = [worker EXCEPT ![w] = "none"]
       /\ expected_stop' = (status[w] = "success")
       /\ stopping' = Other(w)
  /\ main' = "stop"
  /\ UNCHANGED <<result, status, source_fd, uinput, terminated>>

\* A mistake to tell apart: kill() without the waitpid().
StopWithoutWaiting ==
  /\ main = "stop"
  /\ terminated' = terminated \cup {stopping}
  /\ Exit(IF expected_stop THEN "success" ELSE "failure")
  /\ UNCHANGED <<stopping, expected_stop, worker_vars>>

\* kill() of StopWorker(), then its waitpid().
StopWorker ==
  /\ main = "stop"
  /\ terminated' = terminated \cup {stopping}
  /\ main' = "reap"
  /\ UNCHANGED <<stopping, expected_stop, result, worker_vars>>

ReapWorker ==
  /\ main = "reap"
  /\ worker[stopping] = "zombie"
  /\ worker' = [worker EXCEPT ![stopping] = "none"]
  /\ terminated' = terminated \ {stopping}
  /\ Exit(IF expected_stop THEN "success" ELSE "failure")
  /\ UNCHANGED <<stopping, expected_stop, status, source_fd, uinput>>

MainStep ==
  /\ LoadHardwareConfig \/ SpawnWorker \/ WaitForWorker \/ StopWorker
       \/ ReapWorker
  /\ UNCHANGED <<unit_vars, world_vars, fault_vars>>

\* An exception in main(): bad configuration, or fork() failed.  The catch block
\* stops the keyboard worker if there is one.
MainFails ==
  /\ main \in {"config", "spawn"}
  /\ IF main = "spawn" /\ ToSpawn = "touchpad"
     THEN /\ main' = "stop" /\ stopping' = "keyboard" /\ expected_stop' = FALSE
          /\ UNCHANGED result
     ELSE Exit("failure") /\ UNCHANGED <<stopping, expected_stop>>
  /\ Fault
  /\ UNCHANGED <<worker_vars, terminated, unit_vars, world_vars>>

-----------------------------------------------------------------------------
(***************************************************************************)
(* udev and systemd, as systemd/halo-keyboard.service and the udev rule    *)
(* ask for: BindsTo, ConditionPathExists, Restart=on-failure with a limit, *)
(* KillMode=control-group.                                                 *)
(***************************************************************************)
EnterPenMode ==
  /\ source = "there" /\ switches < MaxSwitches
  /\ source' = "gone" /\ switches' = switches + 1 /\ left' = TRUE
  /\ source_fd' = [w \in Workers |->
                     IF source_fd[w] = "live" THEN "dead" ELSE source_fd[w]]
  /\ asked' = "stop"
  /\ UNCHANGED <<main_vars, worker, status, uinput, terminated, unit, starts,
                 fault_vars>>

\* The surface is not back before systemd has seen it go: events are in order.
LeavePenMode ==
  /\ source = "gone" /\ asked # "stop"
  /\ source' = "there" /\ asked' = "start"
  /\ UNCHANGED <<main_vars, worker_vars, terminated, unit, starts, switches,
                 left, fault_vars>>

\* RestartSec is over, or udev asks.
StartDue ==
  /\ source = "there"
  /\ unit = "restart" \/ (unit \in {"idle", "failed"} /\ asked = "start")

StartUnit ==
  /\ main = "none" /\ \A w \in Workers : worker[w] = "none"
  /\ StartDue /\ starts < StartLimitBurst
  /\ unit' = "active" /\ asked' = "nothing" /\ starts' = starts + 1
  /\ main' = "config" /\ result' = "none"
  /\ faulty' = FALSE /\ left' = FALSE
  /\ UNCHANGED <<stopping, expected_stop, worker_vars, terminated, source,
                 switches, faults>>

\* The start limit: the unit has failed until the source appears again.
RefuseStart ==
  /\ StartDue /\ starts = StartLimitBurst
  /\ unit' = "failed" /\ asked' = "nothing"
  /\ UNCHANGED <<main_vars, worker_vars, terminated, starts, world_vars, fault_vars>>

IntervalOver ==
  /\ starts # 0 /\ starts' = 0
  /\ UNCHANGED <<main_vars, worker_vars, terminated, unit, asked, world_vars, fault_vars>>

\* BindsTo: the device unit is inactive.
NoticeRemoval ==
  /\ asked = "stop" /\ asked' = "nothing"
  /\ unit' = CASE unit = "active"  -> "stopping"
               [] unit = "restart" -> "idle"
               [] OTHER            -> unit
  /\ UNCHANGED <<main_vars, worker_vars, terminated, starts, world_vars, fault_vars>>

\* SIGTERM to every process of the unit; main() has no handler.
StopUnit ==
  /\ unit = "stopping"
  /\ terminated' = terminated \cup {w \in Workers : Alive(w)}
  /\ main' = "none"
  /\ result' = IF main = "none" THEN result ELSE "signal"
  /\ worker' = [w \in Workers |-> IF worker[w] = "zombie" THEN "none" ELSE worker[w]]
  /\ unit' = "idle"
  /\ UNCHANGED <<stopping, expected_stop, status, source_fd, uinput, asked,
                 starts, world_vars, fault_vars>>

\* main() has exited.
UnitEnds ==
  /\ unit = "active" /\ main = "none"
  /\ unit' = IF result = "failure" THEN "restart" ELSE "idle"
  /\ UNCHANGED <<main_vars, worker_vars, terminated, asked, starts, world_vars,
                 fault_vars>>

\* An orphan of a stopped unit is reaped by init.
InitReaps ==
  /\ main = "none"
  /\ \E w \in Workers : /\ worker[w] = "zombie"
                        /\ worker' = [worker EXCEPT ![w] = "none"]
  /\ UNCHANGED <<main_vars, status, source_fd, uinput, terminated, unit_vars,
                 world_vars, fault_vars>>

SystemStep ==
  NoticeRemoval \/ StartUnit \/ RefuseStart \/ StopUnit \/ UnitEnds \/ InitReaps

-----------------------------------------------------------------------------
Next ==
  \/ \E w \in Workers : WorkerStep(w) \/ WorkerFault(w)
  \/ MainStep \/ MainFails
  \/ SystemStep
  \/ EnterPenMode \/ LeavePenMode \/ IntervalOver

\* The processes are scheduled, signals are delivered, systemd does its work.
Fairness ==
  /\ \A w \in Workers : WF_vars(WorkerStep(w))
  /\ WF_vars(MainStep)
  /\ WF_vars(SystemStep)

Spec == Init /\ [][Next]_vars /\ Fairness
-----------------------------------------------------------------------------
(***************************************************************************)
(* Properties.                                                             *)
(***************************************************************************)
\* The type invariant: the places of every process, descriptor and unit.
TypeOK ==
  /\ source \in {"there", "gone"} /\ left \in BOOLEAN
  /\ main \in {"none", "config", "spawn", "wait", "stop", "reap"}
  /\ stopping \in Workers /\ expected_stop \in BOOLEAN
  /\ result \in {"none", "success", "failure", "signal"}
  /\ \A w \in Workers :
       /\ worker[w] \in {"none", "zombie"} \cup {SetUp(w)[i] : i \in DOMAIN SetUp(w)}
       /\ status[w] \in {"none", "success", "failure", "signal"}
       /\ source_fd[w] \in {"none", "live", "dead"}
       /\ uinput[w] \in {"none", "open", "created"}
       /\ worker[w] = "consume" => uinput[w] = "created" /\ source_fd[w] # "none"
  /\ terminated \subseteq Workers
  /\ unit \in {"idle", "active", "stopping", "restart", "failed"}
  /\ asked \in {"nothing", "start", "stop"} /\ starts \in 0..StartLimitBurst
  /\ faults \in 0..MaxFaults /\ faulty \in BOOLEAN /\ switches \in 0..MaxSwitches

\* When main() has come to its end both workers have ended and are reaped: no
\* worker goes on sending events from a device nobody supervises, and the next
\* start makes the only virtual keyboard (Supervise(), the catch block).
ExitsAlone ==
  main = "none" /\ result \in {"success", "failure"} =>
    \A w \in Workers : worker[w] = "none" /\ uinput[w] = "none"

\* EXIT_SUCCESS, after which systemd does not restart the service, only when
\* the touch screen went away during this run (IsExpectedSourceDeviceError()).
SuccessMeansPenMode == result = "success" => left

\* StopWorker() signals a process that is still a child of main(): not one that
\* was waited for, whose number may be anybody's by now.
SignalsOnlyChildren ==
  [][main = "stop" /\ main' = "reap" => worker[stopping] # "none"]_vars

\* "If either worker fails, the service exits so systemd can restart the
\* complete input stack" (README.md): again and again both workers consume
\* events, or there is no touch screen, or the start limit was hit.
StackComesBack ==
  []<>(\/ \A w \in Workers : worker[w] = "consume" /\ source_fd[w] = "live"
      \/ source = "gone"
      \/ unit = "failed")

\* "Treat the expected Halo surface removal in pen mode as a clean service
\* stop instead of entering a restart loop" (debian/changelog): without any fault
\* the unit is not restarted.
PenModeIsCleanStop == unit = "restart" => faulty
=============================================================================
