# Halo Keyboard: specifications, checks and proofs

These modules specify `halo-keyboard-handler`, the program in `src/` that turns
the touch surface of a Yoga Book into a virtual keyboard and a virtual touchpad.
They are written from the C++ code. TLC checks them on small instances; TLAPS
proves the theorems of the `*Proofs` modules for every value of the constants.
`PROJECT.json` lists the components, runs, theorems, hazards and findings, and
for each definition the lines of code it models.

Abbreviations of files used below: FK `src/src/fake_keyboard.cc`, FT
`src/src/fake_touchpad.cc`, SM `src/src/multitouch/state_machine.cc`, EV
`src/src/evdev_source.cc`, UD `src/src/uinput_device.cc`, MN `src/src/main.cc`.

## 1. The system

`main()` loads `hardware.csv` and forks two workers. Each opens
`/dev/halo_keyboard` for itself, creates a uinput device and loops forever.

    touch screen --evdev--> [EvdevSource > MtStateMachine > FakeKeyboard] --uinput--> keys
          |                        keyboard worker          |--> haptic motors
          +--------evdev--> [EvdevSource > MtStateMachine > FakeTouchpad] --uinput--> pad
                                   touchpad worker
    systemd/udev --start, SIGTERM--> main() --fork, waitpid, SIGTERM--> both workers

The workers share no memory. They meet in the kernel (one touch screen, two
event buffers) and in `main()` (exit status, signals).

| Component | State | Operations | Hard behaviour | What makes it correct |
|---|---|---|---|---|
| `FakeKeyboard` (FK) | `finger_data_`, `pending_events_`, `fn_key_pressed_` | `Consume`, `ProcessIncomingSnapshot`, `RejectFinger`, `EnqueueEvent`, ... | delayed decisions, fingers in any order within a frame, time-out against input, Fn across fingers | no stuck key, one press and one release per contact, typing order, no press by a palm |
| `MtStateMachine` (SM) | `slots_`, `current_slot_`, `dropping_events_` | `AddEvent`, `Reset`, `FillSnapshot` | lost events, slots beyond `kNumSlots`, unchanged values not repeated | a snapshot is what is on the glass |
| `EvdevSource` (EV) | `source_fd_` | `OpenSourceDevice`, `GetNextEvent` | the device disappears | pen mode is told from a fault |
| `UinputDevice` (UD) | `uinput_fd_`, `device_created_` | creation, capabilities, axes, `SendEvent` | a failure half-way | nobody consumes events for a device that does not exist, and a device that exists has announced what is sent to it |
| `FakeTouchpad` (FT) | `slot_memberships_`, the region | `Consume`, `SyncTouchEvents`, `SendTouchpadBtnEvents` | contacts that slide across the border, lost events, rotation | the virtual device shows what is in the region |
| Supervisor (MN) | two process ids | `SpawnWorker`, `Supervise`, `StopWorker` | either worker ends at any step, fork fails, systemd acts too | both workers come and go together |
| Haptics | descriptors and effect ids of two motors | `Init`, `UploadEffect`, `RegisterFF`, `EventTriggered` | rotation, one motor missing or refusing the effect | the motor is on the side of the key, and a key is felt as asked for |
| Options, `hardware_config.cc` | `Options` | parsing, validation | options given twice, numbers that are not finite | what gets through is accepted by those who use it |
| Packaging, udev, unit files, logging, CSV reader | - | - | restart policy | environment of the service |

The hazards, each with the line where it bites and the properties that would
show it, are in `PROJECT.json`.

## 2. The modules

    KeyTaps   <--refines--  FakeKeyboard (EventList)             one keyboard worker
                              FakeKeyboardProps, MCFakeKeyboard
    DelayLine <--refines--  Deadlines (Timespec)                 its loop over time
                              MCDeadlines
    TouchKernel + MtStateMachine -> TouchReader -> TouchInput    (MCTouchInput)
                                        +--------> FakeTouchpad  (MCFakeTouchpad)
                                        +--------> Pipeline      (MCPipeline)
    FakeKeyboardProps, Geometry --INSTANCE---------^
    Geometry -> Haptics -+
    Options -------------+-> Surface (MCSurface)                 start, devices, a touch
    UinputDevice --------+
    Service                                                      main(), systemd, workers

    FakeKeyboardProofs, DeadlineProofs, ServiceProofs, SurfaceProofs
    ReaderProofs -> InputProofs, TouchpadProofs
    InputProofs, FakeKeyboardProofs --INSTANCE--> PipelineProofs

`FakeTouchpad` takes its rotation from `Geometry`, too.

### KeyTaps and FakeKeyboard

`KeyTaps` is the abstract promise: per contact at most one press, then one
release of the same code; a contact lifted before another one landed is over
before the other types; a lifted contact's key is released eventually.

`FakeKeyboard` is `Consume()` (FK 360-474) and what it calls. One pass of the
loop is cut into `pc` steps where the code has an order it does not fix:

- `wait`: `ReadSnapshot` (an event completed a frame), `PartialEvent` (an event
  that did not: the loop continues without firing), `Timeout` (`select` returned
  at the front deadline).
- `touches`: the loop over the frame, an unordered map, so any contact is next:
  `TouchArrives`, `TouchStays`, `TouchMovesOff`, `TouchIgnored`.
- `leaving`: the loop over `finger_data_`, again in any order: `FingerLeaves`
  (with `HandleLeavingFinger`).
- `drain`: the firing loop, one event at a time: `FireRejected`, `FireSend`,
  then the `SYN_REPORT` in `DrainDone`.

Abstractions. A point is the set of layout keys that contain it, in layout
order, so overlapping keys are covered. Pressure and diameter are the numbers of
the code, with readings at and beyond the bounds. `CLOCK_MONOTONIC` is ticks,
`kEventDelayMS` is `Delay`; `Deadlines` has them as they are. `arrival_time_` is never read and left out, logging
and haptics touch none of this state. `Guarantee` marks the press only: a queue
never holds a release under a live id when a finger leaves, because releases are
enqueued with `kOldTID` (FK 217-222). `keys_down` is what the kernel holds down
for the uinput device and `reported` the same at the last `SYN_REPORT`. `seen`,
`before`, `strokes` and the field `contact` of an event are history; the code's
variables do not depend on them. `KeyTaps` is reached by the mapping `contact <-
ContactState`, computed from `seen` and `snapshot`.

`EventList` is `pending_events_` as a function from ranks to events: equal
deadlines go in last, erasing keeps the order (FK 345-358, 248-255).

### Deadlines and DelayLine

`Deadlines` is the same `Consume()` as a loop over time: the time-out computed
from two timespecs in `int` milliseconds (FK 370-378), the `timeval` made of it
(EV 50-53), `select()` that returns not before its time and as late as it likes,
deadlines made by carrying nanoseconds (FK 142-151) and compared field by field.
Time may pass between any two steps. Events are only deadlines here; what they
are, and which are erased, is `FakeKeyboard`. `DelayLine` says what is needed of
all that in nanoseconds: an event leaves a delay after the frame that caused it,
or later, first in, first out, unless it is erased. `TimeoutFires` is what
licenses the action `Timeout` of `FakeKeyboard`, which has no early time-outs.

### TouchKernel, MtStateMachine, TouchReader, TouchInput

`TouchKernel` is external: multitouch protocol B as the code reads it. A frame
changes one or more slots in any order (`SendSlot`) and ends with `SendReport`;
the reader sees it when it is complete. Only changed values are sent,
`ABS_MT_SLOT` only when the slot changes, and a full buffer is replaced by
`SYN_DROPPED` and the newest event, in the middle of a frame too. A `SYN_REPORT`
carries the truth of its moment as history.

`MtStateMachine` has one action per branch of `AddEvent` (SM 11-43). The two
coordinates stand for every axis beside the tracking id. `TouchReader` joins
kernel, buffer and decoder: `Read` takes one event, as late as it likes.
`TouchInput` is that reader in the keyboard worker, which asks for snapshots.
`StartPoints` and `StartSlots` are where the device was used last: a worker that
is restarted knows nothing of it, and the kernel does not repeat what does not
change.

### Pipeline

`Pipeline` is one keyboard worker from the glass to the keys: `TouchReader` in
front of an instance of `FakeKeyboardProps`, joined as in FK 383-398. A snapshot
of the decoder becomes a frame, with coordinates it does not know as -1 and
readings that may be missing; `Timeout` needs an empty buffer. `FramesAreLegal`
is the guard of `ReadSnapshot`, which is what makes the results on
`FakeKeyboard` apply behind this decoder. `frame_in_step` is history: whether the
decoder was in step when it completed the last frame. While it was and nothing
has happened on the glass since, the worker is `UpToDate`.

### FakeTouchpad, Geometry, Options, Haptics, UinputDevice, Surface

`FakeTouchpad` is that reader in the touchpad worker, plus `SyncTouchEvents`
(FT 265-305). A whole frame is copied in one step, since readers of the virtual
device act on its `SYN_REPORT`. `device` is the state of that device's slots:
the kernel keeps what was sent last, so axes the source slot does not have keep
their old values. Of a slot it has the tracking id and the coordinates; pressure
and diameters are passed on as they are, and stand in `Surface`, where the
question is whether the device announced them.

`Geometry` has the five computations that depend on the rotation: the boxes of
keys (FK 82-110) and of the touchpad (FT 59-91), the announced ranges (FT
117-133), the values passed on (FT 221-256), the motor
(`haptics/touch_ff_manager.cc` 32-97). Lengths are integers in units of 1/MmUnit
millimetre, so that cutting a double to an int is an exact quotient; the
rounding of binary doubles is left out.

`Options` is the loop of `ParseOptions()`, one action per branch. Arguments are
opaque but for their spelling: `AsDouble` and `AsInt` say what `from_chars()`
makes of them. `Haptics` is `FFDriver` and `TouchFFManager`: either motor may be
missing, refuse the effect or give it any id.

`UinputDevice` is the description of a virtual device (UD 53-228), one step per
system call: opening `/dev/uinput`, `UI_SET_EVBIT`, `UI_SET_KEYBIT` and
`UI_SET_ABSBIT` (the three `Enable...` functions), in `CopyABSOutputEvents` the
two `EVIOCGBIT` queries to the source, the test for `EV_ABS` between them, and for
each axis `UI_SET_ABSBIT`, `EVIOCGABS` and `UI_ABS_SETUP`, then `UI_DEV_SETUP` and
`UI_DEV_CREATE`. Each of them may fail, which ends the worker and its device
(`Fail`). `at[w]` is the call that is next, `turn[w]` the turn of the loop around
it. What the kernel makes of the calls and what it then passes on (`Accepts`,
`After`, `PassesKey`, `PassesAbs`) is external. A source is the event types and
the axes of a touch screen.

`Surface` composes the three. A command line is parsed and the motors get the
effect; `LoadKey` is one turn of the loop over `layout.csv` with the validation of
the row (FK 69-120), `LoadLayoutEnds` the failure of a file without rows,
`LoadPad` the row of `touchpad.csv` (FT 41-48). Then `RunKeyboard` and
`RunTouchpad` create the devices: the keyboard enables both codes of every key in
turn (`EnableKey`, `EnableKeyFn`), the touchpad its five buttons and the axes of
the source. The processes share nothing here, so the second worker comes after
the first one. At last the glass is touched once, and `SyncTouchEvents` says what
the touchpad worker sends for it, for each axis and each value the touch screen
may report.

### Service

`Service` is `main()` with both workers as processes. A worker is a list of
set-up steps (`SetUp`: constructor, open, uinput, capabilities, axes, create)
and the loop; any step may fail (`WorkerFails`), the source may be gone
(`SourceMissing`, `AxesMissing`, `SourceLost`), `SIGTERM` may arrive (`Killed`).
`MainStep` is configuration, the two forks, `waitpid(-1)`, `kill`, `waitpid`, exit;
`MainFails` is the catch block. udev and systemd are external and follow
`systemd/halo-keyboard.service` and `udev/60-halo-keyboard.rules`: the device
removed and back, noticed in that order and with delay (`EnterPenMode`,
`NoticeRemoval`, `LeavePenMode`), `BindsTo`, `Restart=on-failure`,
`StartLimitBurst`, `KillMode=control-group`.

## 3. The runs

All passing runs finish without error; the counts are distinct states.

| Run | Shows | Instance | States |
|---|---|---|---|
| `keyboard_fn` | `TypeOK`, `Chronological`, `RefusableEventHasItsFinger`, `FnHeldByFinger`, `NoStuckKey`, `HeldKeyIsDown`, `FingerIsOnItsKey`, `EveryContactFits`, `ImplementsKeyTapsSafely` | 3 contacts (symmetric), Fn, a key with an Fn code, a place beside the keys; 8 ticks, delay 2 | 1.41 M |
| `keyboard_taps` | `PalmRejectedBeforePress`; `ImplementsKeyTaps`, `TapIsDecided` under fairness | 2 contacts, pressures and diameters in and out of range, F1 and the space bar overlapping | 380 k |
| `keyboard_quick_tap` | `GuaranteedMeansChecked` violated | 2 contacts | - |
| `deadlines` | `TypeOK`, `WaitEndsAtTheDeadline`, `TimeoutFires`, `ImplementsDelayLine` | 17 instants around a full second, delay 50 ms, 3 events | 1.39 M |
| `input_loss` | `TypeOK`, `SnapshotIsTruth`, `NoGhostInStep`, `TrackingIdNeverReturns` | 3 device slots of which 2 are kept, 3 points, 2 ids, buffer of 9 | 5.76 M |
| `touchpad_loss` | `TypeOK`, `TouchpadIsTheRegion`, `ButtonsMatchUnlessLost`, `NoPhantomInStep` | 2 slots, points inside and outside, 3 ids, buffer of 9, rotation 270 | 5.54 M |
| `pipeline` | `KeysAreUnderFingers`, `FramesAreLegal` | 1 key, 2 slots, 2 ids, buffer of 6, a new device and a used one | 7.15 M |
| `pipeline_stuck` | `NoKeyLeftDown` violated | the same with 3 ids, buffer of 5 | - |
| `surface_sides` | `PadStaysInRange`, `RotationsAgree`, `MotorIsOnTheSideOfTheKey`, `KeysAreFelt`, `AcceptedOptionsStart`, `EventsArePassedOn` | 13 command lines, 13 sensors, 8 layouts, 5 touchpad files, 2 touch screens, every touch | 877 k |
| `surface_pad` | `PadIsTheRectangle` violated | rectangle with half millimetres | - |
| `service` | `TypeOK`, `ExitsAlone`, `SuccessMeansPenMode`, `SignalsOnlyChildren`, `StackComesBack` | 2 faults, 1 pen mode switch, start limit 2 | 74 k |
| `service_pen_mode` | `PenModeIsCleanStop` violated | no fault, 1 switch | - |

Every property of a passing run has a mutant in `PROJECT.json`: a definition of
the model changed the way a bug would change the code, with which TLC finds the
property violated. The mutated operators stand beside the originals under
"mistake to tell apart".

### Bounds

- Contacts: two fingers show every pairwise interaction (Fn and key, order of
  typing); the third one lets Fn be held by two fingers while a key is typed. An
  id is used once, as in the kernel, so the clock and the ids bound a behaviour.
- Ticks: frames are read in all but the last two or more ticks, so a press or a
  release queued by the last frame still comes due; `Delay = 2` leaves a tick
  between landing and deadline for other fingers.
- Buffer of 9 events, of which it holds 8: two contacts that land at once send 8,
  so that such a frame comes through, but overflows in its middle behind one or
  two unread events. `MaxBacklog` keeps the user from typing into a reader that
  never reads. Two tracking ids give a contact lost and another one beside it, a
  third one another one after it.
- Points: those of `MCTouchInput` have pairs that share a coordinate, so that
  only one is sent.
- Instants: on both sides of a full second and of the milliseconds a wait is
  rounded to, so that nanoseconds are carried and borrowed.
- Pipeline: a buffer of 6 overflows easily, but two contacts that land where the
  slots were used last fit into it; the decoder never learns their coordinates.
  The delay of one tick is shorter than the frames.
- Command lines: the packaged one, each bound and one step beyond it, options
  given twice, help after an option, and everything that is refused.
- Sensors: two coordinates per unit, and one sensor with a pitch that is not
  whole, each in four rotations; one that is coarser than the keys, on which a
  valid row has no coordinate of its own.
- Layouts: five keys, side by side, with and without a code under Fn, one across
  another one; and one file for each check of `LoadLayout()`, refused at its first
  row or after a good one. Touchpad files: a proper one, one with halves, and the
  three that are refused.
- Touch screens: every axis that is passed on but one diameter, which is treated
  as the other is, two axes that are not passed on, and more slots than the ten
  the workers look at; and a device without `EV_ABS`.
- Service: two faults in one run hit both workers, one in each of two runs reach
  the start limit.

### Deadlock

The configurations say `CHECK_DEADLOCK FALSE` because each bounded system may
really stop: the user touches nothing more (ids or ticks used up, nothing
pending), the clock is at its last instant, a surface was touched, its start
failed or the command line asked for help, or the unit is stopped and the bounds
on faults and switches are used up. That a keyboard with work to do never stops
is what `keyboard_taps` checks, and `StackComesBack` for the service.

### Fairness

- `FakeKeyboard`: weak fairness of the handler steps (the worker is scheduled and
  its loops end) and of `Timeout` (`select` is given the front deadline, FK
  364-386). No fairness for the user: nobody has to lift a finger.
- `Service`: weak fairness of each worker's own steps, of `main()` and of
  systemd. Faults, pen mode and the end of the limit's interval need not happen.
- The other specifications state safety only.

## 4. What is proved

`TLAPS` proves the following for every value of the constants: any layout, any
set of contacts, readings, ticks and delays, any clock, any number of slots,
points, ids and any buffer, any region, rotation, configuration and command
line, any number of faults, switches and starts. The assumptions are those
named in the modules, which TLC evaluates in the runs.

| Theorem | Module | Property |
|---|---|---|
| `EnqueueKeepsOrder` | FakeKeyboardProofs | a sorted list stays sorted whatever is enqueued |
| `TypeCorrect` | FakeKeyboardProofs | `TypeOK` |
| `KeyboardInvariant` | FakeKeyboardProofs | the inductive invariant below |
| `QueueIsChronological` | FakeKeyboardProofs | `Chronological` |
| `ContactsFit` | FakeKeyboardProofs | `EveryContactFits` |
| `FnIsHeld` | FakeKeyboardProofs | `FnHeldByFinger` |
| `RefusableHasFinger` | FakeKeyboardProofs | `RefusableEventHasItsFinger` |
| `KeysAreReleased` | FakeKeyboardProofs | `NoStuckKey` |
| `HeldKeysAreDown` | FakeKeyboardProofs | `HeldKeyIsDown` |
| `FingersAreOnTheirKeys` | FakeKeyboardProofs | `FingerIsOnItsKey` |
| `PalmsTypeNothing` | FakeKeyboardProofs | `PalmRejectedBeforePress` |
| `KeyTapsImplemented` | FakeKeyboardProofs | `ImplementsKeyTapsSafely` |
| `TypeCorrect` | DeadlineProofs | `TypeOK` |
| `WaitsEndAtTheDeadline` | DeadlineProofs | `WaitEndsAtTheDeadline` |
| `TimeoutsFire` | DeadlineProofs | `TimeoutFires` |
| `DelayLineImplemented` | DeadlineProofs | `ImplementsDelayLine` |
| `TypeCorrect` | InputProofs | `TypeOK` |
| `SnapshotsAreTrue` | InputProofs | `SnapshotIsTruth`, on a new device |
| `NoGhosts` | InputProofs | `NoGhostInStep` |
| `TrackingIdsNeverReturn` | InputProofs | `TrackingIdNeverReturns` |
| `TypeCorrect` | TouchpadProofs | `TypeOK` |
| `PadShowsTheRegion` | TouchpadProofs | `TouchpadIsTheRegion`, on a new device |
| `ButtonsMatch` | TouchpadProofs | `ButtonsMatchUnlessLost`, on a new device |
| `NoPhantoms` | TouchpadProofs | `NoPhantomInStep` |
| `TypeCorrect` | ServiceProofs | `TypeOK` |
| `MainExitsAlone` | ServiceProofs | `ExitsAlone` |
| `SuccessIsPenMode` | ServiceProofs | `SuccessMeansPenMode` |
| `OnlyChildrenAreSignalled` | ServiceProofs | `SignalsOnlyChildren` |
| `PadInRange` | SurfaceProofs | `PadStaysInRange` |
| `AcceptedOptionsSuffice` | SurfaceProofs | `AcceptedOptionsStart` |
| `NothingIsDropped` | SurfaceProofs | `EventsArePassedOn` |
| `KeysFelt` | SurfaceProofs | `KeysAreFelt` |
| `RotationsAgreeHolds` | SurfaceProofs | `RotationsAgree` |
| `MotorsAreSided` | SurfaceProofs | `MotorIsOnTheSideOfTheKey` |
| `FramesAreAlwaysLegal` | PipelineProofs | `FramesAreLegal` |
| `KeysUnderFingers` | PipelineProofs | `KeysAreUnderFingers`, no key at a negative coordinate |
| `ImplementsInput` | PipelineProofs | the pipeline is a `TouchInput` |
| `ImplementsWorker` | PipelineProofs | the pipeline is a `FakeKeyboard` |
| `TapsFromTheGlass` | PipelineProofs | `ImplementsKeyTapsSafely` of that keyboard |

**The keyboard.** None of the properties is inductive: that no key is stuck
depends on what is queued for a finger that is gone, which depends on what was
sent when it left. `KeyboardInv` therefore gives the phase of every contact:
`Silent`, then `Waiting` (a press queued that may be refused), then `Holding`
(the key is down, nothing queued) or `Tapping` (lifted early, a guaranteed press
and its release queued), then `Releasing`, then `Over`. Beside it stand the order
of the queue, the deadlines (`EventsFit`), the agreement of `finger_data_` with
the frame while the loops are half done (`FramesFit`), of the sent keys with the
contacts (`KeysFit`), of Fn with the fingers on it, and `OrderFits`: a contact
lifted before another one landed is ahead of it in the queue. Each step of the
code is about one contact at most. The proof has one lemma per action and part
of the invariant, and the lemmas on lists say what enqueueing and erasing do to
the ranks. `HeldKeysAreDown` adds to it that a code pressed is down unless
released beside the finger; `FingersAreOnTheirKeys` that whoever is in
`finger_data_` once its loops are done is on a key under its finger in the frame.
From `TidAssumption`, `LayoutAssumption`,
`KeyAssumption`, `ReadingAssumption` and `TimeAssumption`.

**Time.** `DeadlineInv` says that all timespecs are normalised (`TypeOK`), that
the worker never holds a time it has not read from the clock, that no deadline is
further away than one delay from the last reading, so that a new event always
belongs at the end of the queue, and that `timeout_ms` is as computed from the
front.
The lemmas reduce a borrow in the nanoseconds and a quotient that rounds
towards zero to linear facts about nanoseconds (`AddIsExact`). From
`DelayAssumption` and `InstantsAssumption`.

**The decoder.** What a reader knows depends on events that are still in the
buffer. `ReaderInv` says that the unread events lead from the state of the
device the decoder has reached to the one it has now: there is a state of the
device between every two of them (`LeadsTo`), and the decoder agrees with the
first of these. It does so in two ways. If it was in the slot of the device when
it last resumed, whatever it holds is so (`Agrees`). If nothing was lost, what it
does not hold is as on a new device (`Covers`). A dropped event cuts the chain;
the report that ends it joins decoder and device again. Both hold through
overflows in the middle of a frame, frames of any number of slots, slots the code
does not keep and any backlog. `SnapshotsAreTrue`,
`PadShowsTheRegion` and `ButtonsMatch` need the hypothesis `NewDevice` (slots
never used, no contact on a zero coordinate): on a device used before, a value
that does not change is not sent. For the ids, `NewIds` says that those in the
buffer are greater than all that are known, in the order they were given. From
`KernelAssumption` and `SlotsAssumption`.

**The touchpad.** `PadInv` adds that a slot not remembered as inside the region
has no contact on the virtual device; the four rotations are lemmas on
`PassEventsThrough` (`SlotShown`, `PadPointInRange`). From `RegionAssumption`.

**The service.** `ServiceInv` gives for each place of `main()` which children it
has (`ChildrenFit`), for each step of a worker what it has opened (`Holds`), and
traces everything that reads as pen mode, a dead descriptor, an exit status,
`expected_stop`, the result, back to the surface having left in this run
(`CausesFit`). From `BoundsAssumption`.

**The pipeline.** Every step of `Pipeline` is one of `TouchInput`, with `reported`
the ids the worker has seen, or leaves it alone (`PipelineStep`); so the
invariant of the decoder holds in front of the worker. `PipelineInv` adds that
the frame in the worker's hands is the last snapshot (`FrameFits`), and that a
frame completed in step shows only contacts that were on the glass, each
coordinate theirs or unknown (`FrameIsTrue`). From this a frame never has an id
that was gone (`FramesAreAlwaysLegal`), which is what `ReadSnapshot` asks for, so
every step is also one of `FakeKeyboard` and all that is proved of the keyboard
holds behind this decoder, over any lost events (`ImplementsWorker`). In
particular the keys keep the promise of `KeyTaps`. `KeysUnderFingers` joins
`FingersAreOnTheirKeys` with `FrameIsTrue`. It needs `KeysOnGlass`: an unknown
coordinate is passed on as -1, and `LoadLayout()` does not refuse a key there.
From the assumptions of both halves, `BoxesAssumption` and `WorkerAssumption`.

**The surface.** Four invariants, one for each part. `SurfaceInv`: each loaded key
comes from its row of the file and has integer bounds, as has the rectangle
(`LayoutFits`; `Cut`, `Pitch`, `Turned` are lemmas of their own). `OptionsInv`: the
options are in range after every argument. `UinputInv`: at each call of a worker,
its loop has enabled what the turns before this one were for (`KeysEnabled`,
`ButtonsEnabled`, `AxesEnabled`), and no call takes back what an earlier one
announced unless the worker fails. `KeyboardStep`, `ButtonStep`, `CopyStep` and
`TouchpadStep` say so for the functions that make the calls, `CreateKeepsDevices`
for both workers. At the end everything is enabled, for any layout and any axes,
and `NothingIsDropped` compares that with what is sent. `HapticsInv`: a motor that took an effect has the one the command line asks for
under the id it is played with, and nothing is played before the touch. The two
theorems on rotations (`RotationsAgreeHolds`, `MotorsAreSided`) follow from
`SurfaceInv` by lemmas about quotients: neighbours keep their order when the
sensor is turned and edges are cut to whole coordinates, and a cut edge moves by
less than one coordinate. The middle is `touch_max_x_ / 2` as the code rounds it.
From `UnitAssumption`, `ConfigAssumption`,
`FileAssumption`, `ArgumentAssumption`, `EffectAssumption` and
`SourceAssumption` (a touch screen with axes has the slot, the tracking id and
the two positions, and says each axis once).

### Only model-checked

- Liveness (the fair half of `ImplementsKeyTaps`, `TapIsDecided`,
  `StackComesBack`): fairness and ENABLED are out of the prover's reach.

## 5. What the runs found

1. `keyboard_quick_tap`: a finger lifted before its deadline has its press made
   guaranteed without a look at pressure or diameter (FK 198); the comment at
   `fake_keyboard.h:74-79` says such events "are already checked".
2. `pipeline_stuck`: after `SYN_DROPPED` everything up to the next `SYN_REPORT`
   is swallowed and nothing is reported (SM 24). If the finger on a key was
   lifted meanwhile and nobody touches the glass again, the key stays down.
3. `surface_pad`: the rectangle of `touchpad.csv` is cut to whole millimetres
   before it is converted (FT 61).
4. `service_pen_mode`: when the surface leaves while the touchpad worker copies
   its axes, the error code is lost (FT 139): the unit ends as failed and is due
   for a restart instead of having stopped cleanly.

A limit of the decoder that the properties state as a condition: after
`SYN_DROPPED` it is in slot 0 (SM 74) while the device goes on in its own slot
without naming it. Values may then land in the wrong slot, which is why
`NoGhostInStep`, `NoPhantomInStep` and `KeysAreUnderFingers` speak of a decoder
that is in step, and why `SnapshotIsTruth`, `TouchpadIsTheRegion` and
`ButtonsMatchUnlessLost` end with the first lost event. Without these conditions
they do not hold. So what a worker shows while its decoder is out of step is
described by no property. That the decoder still gives the keyboard worker no
frame it is not made for (`FramesAreLegal`), and that each contact still types at
most one press and one release of one code (`TapsFromTheGlass`), holds in that
case too. How many contacts the buttons tell after a loss is not stated either.

## 6. Not modelled

- Reading CSV files (vendored parser), logging, the system call wrapper, the
  maintainer scripts, the backlight script: sequential code that keeps no state
  the program reads again. Of the packaging, `Service` has the restart policy.
- Messages and the usage text; the name, the identity and the resolution of the
  virtual devices, and with it the size of the touchpad in millimetres;
  `UI_DEV_DESTROY` in the destructor (UD 43), as the kernel removes the device
  with the process; the names of the keys.
- The gain of the motors, and `write()` calls that fail and are only logged.
- `waitpid` that fails although there are children (MN 87-91); `GetNextEvent`
  with a null destination or a short read (EV 46-78), which end the worker like
  any fault.
- The rounding of binary doubles in the geometry and in the magnitude.

## 7. Plan

Done: keyboard worker, its time, decoder, touchpad, pipeline, geometry, options,
haptics, devices and service, with proofs of all their safety properties. What
would come next: both workers behind one touch screen, each with its own buffer,
for what they show at the same time.
