--------------------------- MODULE ServiceProofs ----------------------------
(***************************************************************************)
(* For any number of faults, switches to pen mode and restarts: main()     *)
(* exits alone, signals only its children, and succeeds for pen mode only. *)
(***************************************************************************)
EXTENDS Service, TLAPS

Endings == {"none", "success", "failure", "signal"}

\* The steps of a worker, written out.
StepsOf(w) ==
  {"construct", "open", "uinput", "enable", "create", "consume"}
    \cup (IF w = "touchpad" THEN {"axes"} ELSE {})

\* What a worker has opened, by the step it is in.
Holds(w) ==
  /\ worker[w] \in {"none", "zombie", "construct", "open"} =>
       source_fd[w] = "none" /\ uinput[w] = "none"
  /\ worker[w] \in {"uinput", "enable", "axes", "create", "consume"} =>
       source_fd[w] # "none"
  /\ worker[w] = "uinput"  => uinput[w] = "none"
  /\ worker[w] = "consume" => uinput[w] = "created"

WorkersFit ==
  /\ worker \in [Workers -> {"none", "zombie"} \cup StepsOf("touchpad")]
  /\ \A w \in Workers : worker[w] \in {"none", "zombie"} \cup StepsOf(w)
  /\ status \in [Workers -> Endings]
  /\ source_fd \in [Workers -> {"none", "live", "dead"}]
  /\ uinput \in [Workers -> {"none", "open", "created"}]
  /\ \A w \in Workers : Holds(w)

PlacesFit ==
  /\ source \in {"there", "gone"}
  /\ main \in {"none", "config", "spawn", "wait", "stop", "reap"}
  /\ stopping \in Workers
  /\ result \in Endings
  /\ terminated \subseteq Workers
  /\ unit \in {"idle", "active", "stopping", "restart", "failed"}
  /\ asked \in {"nothing", "start", "stop"} /\ starts \in 0 .. StartLimitBurst
  /\ faults \in 0 .. MaxFaults
  /\ switches \in 0 .. MaxSwitches

FlagsFit == left \in BOOLEAN /\ expected_stop \in BOOLEAN /\ faulty \in BOOLEAN

\* The children main() has, by the place it is in.
ChildrenFit ==
  /\ main = "config" => \A w \in Workers : worker[w] = "none"
  /\ main = "spawn"  => worker["touchpad"] = "none"
  /\ main = "wait"   => \A w \in Workers : worker[w] # "none"
  /\ main \in {"stop", "reap"} =>
       worker[stopping] # "none" /\ worker[Other(stopping)] = "none"
  /\ main = "none" /\ result \in {"success", "failure"} =>
       \A w \in Workers : worker[w] = "none"

\* Whatever says that the touch screen is gone goes back to its leaving in this
\* run: the source, a dead descriptor, an exit status, expected_stop, a result.
CausesFit ==
  /\ source = "gone" => left
  /\ \A w \in Workers : source_fd[w] = "dead" => left
  /\ \A w \in Workers : worker[w] = "zombie" /\ status[w] = "success" => left
  /\ main \in {"stop", "reap"} /\ expected_stop => left
  /\ result = "success" => left

ServiceInv == PlacesFit /\ FlagsFit /\ WorkersFit /\ ChildrenFit /\ CausesFit

-----------------------------------------------------------------------------
LEMMA OtherWorker ==
  /\ Other("keyboard") = "touchpad"
  /\ Other("touchpad") = "keyboard"
<1>1. \A v \in Workers : v # "keyboard" <=> v = "touchpad"
  BY DEF Workers
<1>2. \A v \in Workers : v # "touchpad" <=> v = "keyboard"
  BY DEF Workers
<1> QED BY <1>1, <1>2 DEF Other, Workers

LEMMA StepsWrittenOut ==
  ASSUME NEW w \in Workers
  PROVE  {SetUp(w)[i] : i \in DOMAIN SetUp(w)} = StepsOf(w)
<1>1. CASE w = "keyboard"
  <2>1. DOMAIN SetUp(w) = 1 .. 6
    BY <1>1 DEF SetUp
  <2> QED BY <1>1, <2>1 DEF SetUp, StepsOf
<1>2. CASE w = "touchpad"
  <2>1. DOMAIN SetUp(w) = 1 .. 7
    BY <1>2 DEF SetUp
  <2> QED BY <1>2, <2>1 DEF SetUp, StepsOf
<1> QED BY <1>1, <1>2 DEF Workers

\* The step after each step but the last.
LEMMA StepAfter ==
  ASSUME NEW w \in Workers
  PROVE  /\ After(w, "construct") = "open"
         /\ After(w, "open") = "uinput"
         /\ After(w, "uinput") = "enable"
         /\ After(w, "enable") = IF w = "keyboard" THEN "create" ELSE "axes"
         /\ w = "touchpad" => After(w, "axes") = "create"
         /\ After(w, "create") = "consume"
<1> DEFINE At(step) == CHOOSE j \in DOMAIN SetUp(w) : SetUp(w)[j] = step
<1>1. CASE w = "keyboard"
  <2>1. SetUp(w) = <<"construct", "open", "uinput", "enable", "create", "consume">>
        /\ DOMAIN SetUp(w) = 1 .. 6
    BY <1>1 DEF SetUp
  <2>2. At("construct") = 1 /\ At("open") = 2 /\ At("uinput") = 3
        /\ At("enable") = 4 /\ At("create") = 5
    BY <2>1
  <2> QED BY <1>1, <2>1, <2>2 DEF After
<1>2. CASE w = "touchpad"
  <2>1. SetUp(w) = <<"construct", "open", "uinput", "enable", "axes", "create",
                     "consume">>
        /\ DOMAIN SetUp(w) = 1 .. 7
    BY <1>2 DEF SetUp
  <2>2. At("construct") = 1 /\ At("open") = 2 /\ At("uinput") = 3
        /\ At("enable") = 4 /\ At("axes") = 5 /\ At("create") = 6
    BY <2>1
  <2> QED BY <1>2, <2>1, <2>2 DEF After
<1> QED BY <1>1, <1>2 DEF Workers

LEMMA InitFits == Init => ServiceInv
<1> SUFFICES ASSUME Init PROVE ServiceInv
  OBVIOUS
<1> USE DEF Init
<1>1. PlacesFit
  BY BoundsAssumption DEF PlacesFit, Workers, Endings
<1>5. FlagsFit
  BY DEF FlagsFit
<1>2. WorkersFit
  BY DEF WorkersFit, Workers, StepsOf, Endings, Holds
<1>3. ChildrenFit
  BY DEF ChildrenFit, Workers
<1>4. CausesFit
  BY DEF CausesFit, Workers
<1> QED BY <1>1, <1>2, <1>3, <1>4, <1>5 DEF ServiceInv

-----------------------------------------------------------------------------
\* A worker that ends, however it ends, closes what it has opened, and main()
\* still has it as a child.
LEMMA WorkerEnds ==
  ASSUME ServiceInv, NEW w \in Workers, NEW how \in Endings,
         Alive(w), Ends(w, how), UNCHANGED main_vars
  PROVE  WorkersFit' /\ ChildrenFit'
<1> USE DEF ServiceInv, Ends, Alive
<1>1. WorkersFit'
  BY DEF WorkersFit, Holds, Workers, StepsOf
<1>2. ChildrenFit'
  BY OtherWorker DEF ChildrenFit, WorkersFit, PlacesFit, Workers, main_vars
<1> QED BY <1>1, <1>2

\* A worker that goes on.
LEMMA WorkerGoesOn ==
  ASSUME ServiceInv, NEW w \in Workers,
         OpenSourceDevice(w) \/ PrepareDevice(w) \/ CopyAxes(w)
           \/ FinalizeUinputCreation(w),
         UNCHANGED <<main_vars, world_vars>>
  PROVE  WorkersFit' /\ ChildrenFit' /\ CausesFit'
<1> USE DEF ServiceInv
<1> DEFINE step == worker'[w]
<1>1. /\ worker' = [worker EXCEPT ![w] = step]
      /\ worker[w] \notin {"none", "zombie"}
      /\ step \in StepsOf(w)
      /\ Holds(w)'
      /\ status' = status
      /\ \E fd \in {"live", source_fd[w]} : source_fd' = [source_fd EXCEPT ![w] = fd]
      /\ \E u \in {"open", "created", uinput[w]} : uinput' = [uinput EXCEPT ![w] = u]
  <2> USE StepAfter DEF WorkersFit, Holds, StepsOf, Workers
  <2>1. CASE OpenSourceDevice(w)
    BY <2>1 DEF OpenSourceDevice
  <2>2. CASE PrepareDevice(w)
    BY <2>2 DEF PrepareDevice
  <2>3. CASE CopyAxes(w)
    BY <2>3 DEF CopyAxes
  <2>4. CASE FinalizeUinputCreation(w)
    BY <2>4 DEF FinalizeUinputCreation
  <2> QED BY <2>1, <2>2, <2>3, <2>4
<1>2. WorkersFit'
  BY <1>1 DEF WorkersFit, Holds, Workers, StepsOf
<1>3. ChildrenFit'
  BY <1>1, OtherWorker
     DEF ChildrenFit, WorkersFit, PlacesFit, Workers, StepsOf, main_vars
<1>4. CausesFit'
  BY <1>1 DEF CausesFit, WorkersFit, Workers, StepsOf, main_vars, world_vars
<1> QED BY <1>2, <1>3, <1>4

\* A worker may end with success only when the source is gone or its own
\* descriptor is dead.
LEMMA EndHasItsCause ==
  ASSUME ServiceInv, NEW w \in Workers, NEW how \in Endings, Ends(w, how),
         how = "success" => left, UNCHANGED <<main_vars, world_vars>>
  PROVE  CausesFit'
BY DEF ServiceInv, CausesFit, Ends, WorkersFit, Workers, main_vars, world_vars

LEMMA WorkerStepFits ==
  ASSUME ServiceInv, NEW w \in Workers, WorkerStep(w)
  PROVE  ServiceInv'
<1> USE DEF ServiceInv
<1>1. /\ UNCHANGED <<main_vars, unit_vars, world_vars, fault_vars>>
      /\ terminated' \subseteq terminated
  BY DEF WorkerStep, Killed
<1>2. PlacesFit'
  BY <1>1 DEF PlacesFit, main_vars, unit_vars, world_vars, fault_vars
<1>3. FlagsFit'
  BY <1>1, Zenon DEF FlagsFit, main_vars, world_vars, fault_vars
<1>4. WorkersFit' /\ ChildrenFit' /\ CausesFit'
  <2>1. CASE OpenSourceDevice(w) \/ PrepareDevice(w) \/ CopyAxes(w)
               \/ FinalizeUinputCreation(w)
    BY <1>1, <2>1, WorkerGoesOn
  <2>2. ASSUME NEW how \in Endings, Alive(w), Ends(w, how), how = "success" => left
        PROVE  WorkersFit' /\ ChildrenFit' /\ CausesFit'
    <3>1. WorkersFit' /\ ChildrenFit'
      BY <1>1, <2>2, WorkerEnds
    <3>2. CausesFit'
      BY <1>1, <2>2, EndHasItsCause
    <3> QED BY <3>1, <3>2
  <2>3. CASE SourceMissing(w)
    <3>1. /\ Alive(w) /\ Ends(w, "success") /\ left
      BY <2>3 DEF SourceMissing, ExitOf, Alive, CausesFit
    <3> QED BY <2>2, <3>1 DEF Endings
  <2>4. CASE AxesMissing(w)
    <3>1. Alive(w) /\ Ends(w, "failure")
      BY <2>4 DEF AxesMissing, ExitOf, Alive
    <3> QED BY <2>2, <3>1 DEF Endings
  <2>5. CASE SourceLost(w)
    <3>1. Alive(w) /\ Ends(w, "success") /\ left
      BY <2>5 DEF SourceLost, ExitOf, Alive, CausesFit
    <3> QED BY <2>2, <3>1 DEF Endings
  <2>6. CASE Killed(w)
    BY <2>2, <2>6 DEF Killed, Endings
  <2> QED BY <2>1, <2>3, <2>4, <2>5, <2>6 DEF WorkerStep
<1> QED BY <1>2, <1>3, <1>4

LEMMA WorkerFaultFits ==
  ASSUME ServiceInv, NEW w \in Workers, WorkerFault(w)
  PROVE  ServiceInv'
<1> USE DEF ServiceInv
<1>1. /\ Alive(w) /\ Ends(w, "failure") /\ Fault
      /\ UNCHANGED <<main_vars, terminated, unit_vars, world_vars>>
  BY DEF WorkerFault, WorkerFails, ExitOf
<1>2. PlacesFit'
  BY <1>1, BoundsAssumption
     DEF PlacesFit, Fault, main_vars, unit_vars, world_vars
<1>3. FlagsFit'
  BY <1>1, Zenon DEF FlagsFit, Fault, main_vars, world_vars
<1>4. WorkersFit' /\ ChildrenFit'
  BY <1>1, WorkerEnds DEF Endings
<1>5. CausesFit'
  BY <1>1, EndHasItsCause DEF Endings
<1> QED BY <1>2, <1>3, <1>4, <1>5

-----------------------------------------------------------------------------
LEMMA MainStepFits ==
  ASSUME ServiceInv, MainStep
  PROVE  ServiceInv'
<1> USE DEF ServiceInv
<1>1. UNCHANGED <<unit_vars, world_vars, fault_vars>>
  BY DEF MainStep
<1>2. CASE LoadHardwareConfig
  <2> USE <1>2 DEF LoadHardwareConfig
  <2>1. PlacesFit'
    BY <1>1 DEF PlacesFit, unit_vars, world_vars, fault_vars
  <2>2. FlagsFit'
    BY <1>1, Zenon DEF FlagsFit, world_vars, fault_vars
  <2>3. WorkersFit'
    BY DEF WorkersFit, Holds, worker_vars
  <2>4. ChildrenFit'
    BY DEF ChildrenFit, Workers, worker_vars
  <2>5. CausesFit'
    BY <1>1 DEF CausesFit, worker_vars, world_vars
  <2> QED BY <2>1, <2>2, <2>3, <2>4, <2>5
<1>3. CASE SpawnWorker
  <2> USE <1>3 DEF SpawnWorker
  <2>1. PlacesFit'
    BY <1>1 DEF PlacesFit, unit_vars, world_vars, fault_vars
  <2>2. FlagsFit'
    BY <1>1, Zenon DEF FlagsFit, world_vars, fault_vars
  <2>3. ToSpawn \in Workers /\ worker[ToSpawn] = "none"
    BY DEF ToSpawn, ChildrenFit, Workers
  <2>4. WorkersFit'
    BY <2>3 DEF WorkersFit, Holds, StepsOf, Workers
  <2>5. ChildrenFit'
    BY DEF ChildrenFit, Workers, WorkersFit, ToSpawn
  <2>6. CausesFit'
    BY <1>1, <2>3 DEF CausesFit, WorkersFit, world_vars
  <2> QED BY <2>1, <2>2, <2>4, <2>5, <2>6
<1>4. CASE WaitForWorker
  <2>1. PICK w \in Workers : /\ worker[w] = "zombie"
                             /\ worker' = [worker EXCEPT ![w] = "none"]
                             /\ expected_stop' = (status[w] = "success")
                             /\ stopping' = Other(w)
    BY <1>4 DEF WaitForWorker
  <2>2. /\ main = "wait" /\ main' = "stop"
        /\ UNCHANGED <<result, status, source_fd, uinput, terminated>>
    BY <1>4 DEF WaitForWorker
  <2>3. Other(w) \in Workers /\ Other(w) # w /\ Other(Other(w)) = w
    BY OtherWorker DEF Workers
  <2>4. PlacesFit'
    BY <1>1, <2>1, <2>2, <2>3 DEF PlacesFit, unit_vars, world_vars, fault_vars
  <2>5. FlagsFit'
    BY <1>1, <2>1, Zenon DEF FlagsFit, world_vars, fault_vars
  <2>6. WorkersFit'
    BY <2>1, <2>2 DEF WorkersFit, Holds, StepsOf, Workers
  <2>7. ChildrenFit'
    BY <2>1, <2>2, <2>3 DEF ChildrenFit, WorkersFit
  <2>8. CausesFit'
    BY <1>1, <2>1, <2>2 DEF CausesFit, WorkersFit, world_vars
  <2> QED BY <2>4, <2>5, <2>6, <2>7, <2>8
<1>5. CASE StopWorker
  <2> USE <1>5 DEF StopWorker
  <2>1. PlacesFit'
    BY <1>1 DEF PlacesFit, unit_vars, world_vars, fault_vars
  <2>2. FlagsFit'
    BY <1>1, Zenon DEF FlagsFit, world_vars, fault_vars
  <2>3. WorkersFit'
    BY DEF WorkersFit, Holds, worker_vars
  <2>4. ChildrenFit'
    BY DEF ChildrenFit, worker_vars
  <2>5. CausesFit'
    BY <1>1 DEF CausesFit, worker_vars, world_vars
  <2> QED BY <2>1, <2>2, <2>3, <2>4, <2>5
<1>6. CASE ReapWorker
  <2>1. /\ main = "reap" /\ main' = "none"
        /\ result' = IF expected_stop THEN "success" ELSE "failure"
        /\ worker[stopping] = "zombie"
        /\ worker' = [worker EXCEPT ![stopping] = "none"]
        /\ terminated' = terminated \ {stopping}
        /\ UNCHANGED <<stopping, expected_stop, status, source_fd, uinput>>
    BY <1>6 DEF ReapWorker, Exit
  <2>2. PlacesFit'
    BY <1>1, <2>1 DEF PlacesFit, Endings, unit_vars, world_vars, fault_vars
  <2>3. FlagsFit'
    BY <1>1, <2>1, Zenon DEF FlagsFit, world_vars, fault_vars
  <2>4. WorkersFit'
    BY <2>1 DEF WorkersFit, PlacesFit, Holds, StepsOf, Workers
  <2>5. ChildrenFit'
    BY <2>1, OtherWorker DEF ChildrenFit, WorkersFit, PlacesFit, Workers
  <2>6. CausesFit'
    BY <1>1, <2>1 DEF CausesFit, WorkersFit, PlacesFit, world_vars
  <2> QED BY <2>2, <2>3, <2>4, <2>5, <2>6
<1> QED BY <1>2, <1>3, <1>4, <1>5, <1>6 DEF MainStep

LEMMA MainFailsFits ==
  ASSUME ServiceInv, MainFails
  PROVE  ServiceInv'
<1> USE DEF ServiceInv
<1>1. /\ main \in {"config", "spawn"} /\ Fault
      /\ UNCHANGED <<worker_vars, terminated, unit_vars, world_vars>>
  BY DEF MainFails
<1>2. WorkersFit'
  BY <1>1 DEF WorkersFit, Holds, worker_vars
<1>3. CASE main = "spawn" /\ ToSpawn = "touchpad"
  <2>1. /\ main' = "stop" /\ stopping' = "keyboard" /\ expected_stop' = FALSE
        /\ UNCHANGED result
    BY <1>3 DEF MainFails
  <2>2. worker["keyboard"] # "none" /\ worker["touchpad"] = "none"
    BY <1>3 DEF ToSpawn, ChildrenFit, Workers
  <2>3. PlacesFit'
    BY <1>1, <2>1, BoundsAssumption
       DEF PlacesFit, Fault, Workers, unit_vars, world_vars
  <2>4. FlagsFit'
    BY <1>1, <2>1, Zenon DEF FlagsFit, Fault, world_vars
  <2>5. ChildrenFit'
    BY <1>1, <2>1, <2>2, OtherWorker DEF ChildrenFit, worker_vars
  <2>6. CausesFit'
    BY <1>1, <2>1 DEF CausesFit, worker_vars, world_vars
  <2> QED BY <1>2, <2>3, <2>4, <2>5, <2>6
<1>4. CASE ~(main = "spawn" /\ ToSpawn = "touchpad")
  <2>1. /\ main' = "none" /\ result' = "failure"
        /\ UNCHANGED <<stopping, expected_stop>>
    BY <1>4 DEF MainFails, Exit
  <2>2. \A w \in Workers : worker[w] = "none"
    BY <1>1, <1>4 DEF ToSpawn, ChildrenFit, Workers
  <2>3. PlacesFit'
    BY <1>1, <2>1, BoundsAssumption
       DEF PlacesFit, Endings, Fault, unit_vars, world_vars
  <2>4. FlagsFit'
    BY <1>1, <2>1, Zenon DEF FlagsFit, Fault, world_vars
  <2>5. ChildrenFit'
    BY <1>1, <2>1, <2>2 DEF ChildrenFit, worker_vars
  <2>6. CausesFit'
    BY <1>1, <2>1 DEF CausesFit, worker_vars, world_vars
  <2> QED BY <1>2, <2>3, <2>4, <2>5, <2>6
<1> QED BY <1>3, <1>4

-----------------------------------------------------------------------------
\* Steps of systemd and udev that leave the processes alone.
LEMMA UnitStepFits ==
  ASSUME ServiceInv,
         UNCHANGED <<main_vars, worker_vars, terminated, world_vars, fault_vars>>,
         unit' \in {"idle", "active", "stopping", "restart", "failed"},
         asked' \in {"nothing", "start", "stop"},
         starts' \in 0 .. StartLimitBurst
  PROVE  ServiceInv'
<1> USE DEF ServiceInv
<1>1. PlacesFit'
  BY DEF PlacesFit, main_vars, world_vars, fault_vars
<1>2. FlagsFit'
  BY Zenon DEF FlagsFit, main_vars, world_vars, fault_vars
<1>3. WorkersFit'
  BY DEF WorkersFit, Holds, worker_vars
<1>4. ChildrenFit'
  BY DEF ChildrenFit, main_vars, worker_vars
<1>5. CausesFit'
  BY DEF CausesFit, main_vars, worker_vars, world_vars
<1> QED BY <1>1, <1>2, <1>3, <1>4, <1>5

LEMMA StartUnitFits ==
  ASSUME ServiceInv, StartUnit
  PROVE  ServiceInv'
<1> USE DEF ServiceInv
<1>1. /\ \A w \in Workers : worker[w] = "none"
      /\ source = "there" /\ starts < StartLimitBurst
      /\ unit' = "active" /\ asked' = "nothing" /\ starts' = starts + 1
      /\ main' = "config" /\ result' = "none"
      /\ UNCHANGED <<stopping, expected_stop, worker_vars, terminated, source,
                     switches, faults>>
  BY DEF StartUnit, StartDue
<1>2. faulty' = FALSE /\ left' = FALSE
  BY DEF StartUnit
<1>3. PlacesFit'
  BY <1>1, BoundsAssumption DEF PlacesFit, Endings
<1>4. FlagsFit'
  BY <1>1, <1>2, Zenon DEF FlagsFit
<1>5. WorkersFit'
  BY <1>1 DEF WorkersFit, Holds, worker_vars
<1>6. ChildrenFit'
  BY <1>1 DEF ChildrenFit, worker_vars
<1>7. CausesFit'
  BY <1>1 DEF CausesFit, WorkersFit, Holds, worker_vars
<1> QED BY <1>3, <1>4, <1>5, <1>6, <1>7

LEMMA StopUnitFits ==
  ASSUME ServiceInv, StopUnit
  PROVE  ServiceInv'
<1> USE DEF ServiceInv
<1>1. /\ terminated' = terminated \cup {w \in Workers : Alive(w)}
      /\ main' = "none" /\ unit' = "idle"
      /\ result' = IF main = "none" THEN result ELSE "signal"
      /\ worker' = [w \in Workers |->
                       IF worker[w] = "zombie" THEN "none" ELSE worker[w]]
      /\ UNCHANGED <<stopping, expected_stop, status, source_fd, uinput, asked,
                     starts, world_vars, fault_vars>>
  BY DEF StopUnit
<1>2. PlacesFit'
  BY <1>1 DEF PlacesFit, Endings, world_vars, fault_vars
<1>3. FlagsFit'
  BY <1>1, Zenon DEF FlagsFit, world_vars, fault_vars
<1>4. WorkersFit'
  BY <1>1 DEF WorkersFit, Holds, StepsOf, Workers
<1>5. ChildrenFit'
  BY <1>1 DEF ChildrenFit
<1>6. CausesFit'
  BY <1>1 DEF CausesFit, world_vars
<1> QED BY <1>2, <1>3, <1>4, <1>5, <1>6

LEMMA InitReapsFits ==
  ASSUME ServiceInv, InitReaps
  PROVE  ServiceInv'
<1> USE DEF ServiceInv
<1>1. PICK w \in Workers : /\ worker[w] = "zombie"
                           /\ worker' = [worker EXCEPT ![w] = "none"]
  BY DEF InitReaps
<1>2. /\ main = "none"
      /\ UNCHANGED <<main_vars, status, source_fd, uinput, terminated,
                     unit_vars, world_vars, fault_vars>>
  BY DEF InitReaps
<1>3. PlacesFit'
  BY <1>2 DEF PlacesFit, main_vars, unit_vars, world_vars, fault_vars
<1>4. FlagsFit'
  BY <1>2, Zenon DEF FlagsFit, main_vars, world_vars, fault_vars
<1>5. WorkersFit'
  BY <1>1, <1>2 DEF WorkersFit, Holds, StepsOf, Workers
<1>6. ChildrenFit'
  BY <1>1, <1>2 DEF ChildrenFit, WorkersFit, main_vars
<1>7. CausesFit'
  BY <1>1, <1>2 DEF CausesFit, WorkersFit, main_vars, world_vars
<1> QED BY <1>3, <1>4, <1>5, <1>6, <1>7

LEMMA EnterPenModeFits ==
  ASSUME ServiceInv, EnterPenMode
  PROVE  ServiceInv'
<1> USE DEF ServiceInv
<1>1. /\ source' = "gone" /\ switches < MaxSwitches /\ switches' = switches + 1
      /\ source_fd' = [w \in Workers |->
                          IF source_fd[w] = "live" THEN "dead" ELSE source_fd[w]]
      /\ asked' = "stop"
      /\ UNCHANGED <<main_vars, worker, status, uinput, terminated, unit, starts,
                     fault_vars>>
  BY DEF EnterPenMode
<1>2. left' = TRUE
  BY DEF EnterPenMode
<1>3. PlacesFit'
  BY <1>1, BoundsAssumption DEF PlacesFit, main_vars, fault_vars
<1>4. FlagsFit'
  BY <1>1, <1>2, Zenon DEF FlagsFit, main_vars, fault_vars
<1>5. WorkersFit'
  BY <1>1 DEF WorkersFit, Holds
<1>6. ChildrenFit'
  BY <1>1 DEF ChildrenFit, main_vars
<1>7. CausesFit'
  BY <1>1, <1>2 DEF CausesFit
<1> QED BY <1>3, <1>4, <1>5, <1>6, <1>7

LEMMA LeavePenModeFits ==
  ASSUME ServiceInv, LeavePenMode
  PROVE  ServiceInv'
<1> USE DEF ServiceInv
<1>1. /\ source' = "there" /\ asked' = "start"
      /\ UNCHANGED <<main_vars, worker_vars, terminated, unit, starts, switches,
                     left, fault_vars>>
  BY DEF LeavePenMode
<1>2. PlacesFit'
  BY <1>1 DEF PlacesFit, main_vars, fault_vars
<1>3. FlagsFit'
  BY <1>1, Zenon DEF FlagsFit, main_vars, fault_vars
<1>4. WorkersFit'
  BY <1>1 DEF WorkersFit, Holds, worker_vars
<1>5. ChildrenFit'
  BY <1>1 DEF ChildrenFit, main_vars, worker_vars
<1>6. CausesFit'
  BY <1>1 DEF CausesFit, main_vars, worker_vars
<1> QED BY <1>2, <1>3, <1>4, <1>5, <1>6

LEMMA SystemStepFits ==
  ASSUME ServiceInv, SystemStep
  PROVE  ServiceInv'
<1>1. CASE NoticeRemoval
  <2>1. unit' \in {"idle", "active", "stopping", "restart", "failed"}
    BY <1>1 DEF NoticeRemoval, ServiceInv, PlacesFit
  <2> QED BY <1>1, <2>1, UnitStepFits DEF NoticeRemoval, ServiceInv, PlacesFit
<1>2. CASE RefuseStart
  BY <1>2, UnitStepFits DEF RefuseStart, ServiceInv, PlacesFit
<1>3. CASE UnitEnds
  BY <1>3, UnitStepFits DEF UnitEnds, ServiceInv, PlacesFit
<1> QED BY <1>1, <1>2, <1>3, StartUnitFits, StopUnitFits, InitReapsFits
        DEF SystemStep

LEMMA StepFits == ServiceInv /\ [Next]_vars => ServiceInv'
<1> SUFFICES ASSUME ServiceInv, [Next]_vars PROVE ServiceInv'
  OBVIOUS
<1>1. CASE IntervalOver
  BY <1>1, BoundsAssumption, UnitStepFits
     DEF IntervalOver, ServiceInv, PlacesFit
<1>2. CASE UNCHANGED vars
  BY <1>2, UnitStepFits DEF vars, unit_vars, ServiceInv, PlacesFit
<1> QED BY <1>1, <1>2, WorkerStepFits, WorkerFaultFits, MainStepFits,
           MainFailsFits, SystemStepFits, EnterPenModeFits, LeavePenModeFits
        DEF Next

\* What every process, descriptor and unit is about, at every moment of every
\* run of the service.
THEOREM ServiceInvariant == Spec => []ServiceInv
<1>1. Init => ServiceInv
  BY InitFits
<1>2. ServiceInv /\ [Next]_vars => ServiceInv'
  BY StepFits
<1> QED BY <1>1, <1>2, PTL DEF Spec

-----------------------------------------------------------------------------
\* Type correctness for every number of faults, switches and starts.
THEOREM TypeCorrect == Spec => []TypeOK
<1>1. ServiceInv => TypeOK
  <2> SUFFICES ASSUME ServiceInv PROVE TypeOK
    OBVIOUS
  <2> USE DEF ServiceInv
  <2>1. ASSUME NEW w \in Workers
        PROVE  /\ worker[w] \in {"none", "zombie"}
                                 \cup {SetUp(w)[i] : i \in DOMAIN SetUp(w)}
               /\ status[w] \in {"none", "success", "failure", "signal"}
               /\ source_fd[w] \in {"none", "live", "dead"}
               /\ uinput[w] \in {"none", "open", "created"}
               /\ worker[w] = "consume" =>
                    uinput[w] = "created" /\ source_fd[w] # "none"
    BY StepsWrittenOut DEF WorkersFit, Holds, Endings
  <2> HIDE DEF ServiceInv
  <2>2. PlacesFit /\ FlagsFit
    BY DEF ServiceInv
  <2> QED BY <2>1, <2>2, Zenon DEF TypeOK, PlacesFit, FlagsFit, Endings
<1> QED BY <1>1, ServiceInvariant, PTL

\* When main() has exited no worker is left behind, whatever failed and in
\* whichever order the workers ended.
THEOREM MainExitsAlone == Spec => []ExitsAlone
<1>1. ServiceInv => ExitsAlone
  BY DEF ServiceInv, ChildrenFit, WorkersFit, Holds, ExitsAlone
<1> QED BY <1>1, ServiceInvariant, PTL

\* main() succeeds only after the touch screen went away in this run.
THEOREM SuccessIsPenMode == Spec => []SuccessMeansPenMode
<1>1. ServiceInv => SuccessMeansPenMode
  BY DEF ServiceInv, CausesFit, SuccessMeansPenMode
<1> QED BY <1>1, ServiceInvariant, PTL

\* kill() is given the number of a process main() has not waited for.
THEOREM OnlyChildrenAreSignalled == Spec => SignalsOnlyChildren
<1>1. ServiceInv => (main = "stop" /\ main' = "reap" => worker[stopping] # "none")
  BY DEF ServiceInv, ChildrenFit
<1> QED BY <1>1, ServiceInvariant, PTL DEF SignalsOnlyChildren
=============================================================================
