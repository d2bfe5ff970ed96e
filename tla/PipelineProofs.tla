--------------------------- MODULE PipelineProofs ----------------------------
(***************************************************************************)
(* The keyboard worker from the glass to the keys, for every touch screen, *)
(* buffer and layout: what reads the touch screen is TouchInput, what      *)
(* processes its frames is FakeKeyboard, so the theorems about both hold   *)
(* here, and together they say what the keys are worth.                    *)
(***************************************************************************)
EXTENDS Pipeline, TLAPS

Input == INSTANCE InputProofs WITH reported <- seen

Worker == INSTANCE FakeKeyboardProofs WITH
            snapshot <- frame,
            Tids <- 1 .. MaxTid,
            OldTid <- kOldTID,
            KeyNums <- DOMAIN Boxes,
            EventCodeFn <- [k \in DOMAIN Boxes |-> 0],
            Positions <- Places,
            KeysAt <- [p \in Places |-> KeysUnder(p)]

-----------------------------------------------------------------------------
(***************************************************************************)
(* The steps of the reader are those of TouchInput.                        *)
(***************************************************************************)
\* The glass changes.
LEMMA TouchIsInput == TouchScreen => Input!TouchScreen
BY DEF TouchScreen, Touch, Frame, Lands, Moves, Lifts, SendSlot, SendReport,
       PushChanges, PushChange, Push, AbsEvent, Report, Dropped,
       kb_vars, decoder_vars, reader_vars,
       Input!TouchScreen, Input!Touch, Input!Frame, Input!Lands, Input!Moves,
       Input!Lifts, Input!SendSlot, Input!SendReport, Input!PushChanges,
       Input!PushChange, Input!Push, Input!AbsEvent, Input!Report, Input!Dropped,
       Input!decoder_vars, Input!reader_vars

\* An event that completes no frame.
LEMMA PartIsInput == ConsumePart => Input!ReadPart(Head(stream))
BY DEF ConsumePart, ReadPart, Read, AddPart, AddDropped, AddWhileDropping,
       AddSlot, AddAxis, NoSlots, SlotIndices, Axes,
       Input!ReadPart, Input!Read, Input!AddPart, Input!AddDropped,
       Input!AddWhileDropping, Input!AddSlot, Input!AddAxis, Input!NoSlots,
       Input!SlotIndices, Input!Axes

\* An event that completes one.
LEMMA ReportIsInput == ConsumeReport => Input!ReadReport(Head(stream), TRUE)
BY DEF ConsumeReport, ReadReport, Read, AddReport, FillSnapshot, TidOf, PointOf,
       FindValueByEvent, kSlotMissingValue, SlotIndices, Max,
       Input!ReadReport, Input!Read, Input!AddReport, Input!FillSnapshot,
       Input!TidOf, Input!PointOf, Input!FindValueByEvent,
       Input!kSlotMissingValue, Input!SlotIndices, Input!Max

-----------------------------------------------------------------------------
(***************************************************************************)
(* The steps of the worker are those of FakeKeyboard.                      *)
(***************************************************************************)
\* The worker starts as it does there.
LEMMA WorkerStarts == KB!Init => Worker!Init
BY DEF KB!Init, Worker!Init

\* A frame is processed with the time of its event.
LEMMA FrameIsRead ==
  ASSUME NEW t, NEW f, KB!ReadFrame(t, f)
  PROVE  Worker!ReadFrame(t, f)
BY DEF KB!ReadFrame, KB!code_vars, KB!sent_vars,
       Worker!ReadFrame, Worker!code_vars, Worker!sent_vars

\* The front deadline is over.
LEMMA TimeoutIsTimeout == KB!Timeout => Worker!Timeout
BY DEF KB!Timeout, KB!IsFront, KB!code_vars, KB!sent_vars, KB!pad_vars,
       Worker!Timeout, Worker!IsFront, Worker!code_vars, Worker!sent_vars,
       Worker!pad_vars

\* Every step of a pass of the loop, with all that it calls.
LEMMA HandlerIsHandler == KB!Handler => Worker!Handler
BY DEF KB!Handler, KB!VisitTouch, KB!TouchesDone, KB!FingerLeaves, KB!LeavingDone,
       KB!FireRejected, KB!FireSend, KB!DrainDone, KB!TouchArrives, KB!TouchStays,
       KB!TouchMovesOff, KB!TouchIgnored, KB!FirstKeyAt, KB!CodeOf,
       KB!ArrivingFinger, KB!Updated, KB!Larger, KB!StillOnFirstKey,
       KB!Unrejected, KB!RejectFinger, KB!RemainingEvents, KB!EventsOf,
       KB!Without, KB!Restrict, KB!EnqueueEvent, KB!PushBack, KB!InsertBefore,
       KB!EndRank, KB!Min, KB!Max, KB!DownEvent, KB!UpEvent, KB!Guarantee,
       KB!UpGuaranteed, KB!HandleLeavingFinger, KB!Ready, KB!IsFront,
       KB!OutOfRange, KB!SendKey, KB!Stroke, KB!kNoKey, KB!kMinTapPressure,
       KB!kMaxTapPressure, KB!kMinTapTouchDiameter, KB!kMaxTapTouchDiameter,
       KB!code_vars, KB!sent_vars, KB!pad_vars,
       Worker!Handler, Worker!VisitTouch, Worker!TouchesDone,
       Worker!FingerLeaves, Worker!LeavingDone, Worker!FireRejected,
       Worker!FireSend, Worker!DrainDone, Worker!TouchArrives, Worker!TouchStays,
       Worker!TouchMovesOff, Worker!TouchIgnored, Worker!FirstKeyAt,
       Worker!CodeOf, Worker!ArrivingFinger, Worker!Updated, Worker!Larger,
       Worker!StillOnFirstKey, Worker!Unrejected, Worker!RejectFinger,
       Worker!RemainingEvents, Worker!EventsOf, Worker!Without,
       Worker!Restrict, Worker!EnqueueEvent, Worker!PushBack,
       Worker!InsertBefore, Worker!EndRank, Worker!Min, Worker!Max,
       Worker!DownEvent, Worker!UpEvent, Worker!Guarantee, Worker!UpGuaranteed,
       Worker!HandleLeavingFinger, Worker!Ready, Worker!IsFront,
       Worker!OutOfRange, Worker!SendKey, Worker!Stroke, Worker!kNoKey,
       Worker!kMinTapPressure, Worker!kMaxTapPressure,
       Worker!kMinTapTouchDiameter, Worker!kMaxTapTouchDiameter,
       Worker!code_vars, Worker!sent_vars, Worker!pad_vars

-----------------------------------------------------------------------------
(***************************************************************************)
(* What links the two: the frame in the hands of the worker.               *)
(***************************************************************************)

\* Each contact of the last frame was on the glass, where the frame has it or
\* with a coordinate missing.
FrameIsTrue ==
  \A t \in DOMAIN snapshot : \E s \in DeviceSlots :
    /\ last_truth[s].tid = t
    /\ \A i \in 1 .. 2 : snapshot[t][i] \in {last_truth[s].at[i], kSlotMissingValue}

FrameFits ==
  /\ DOMAIN frame = DOMAIN snapshot
  /\ DOMAIN snapshot \subseteq seen
  /\ \A t \in DOMAIN snapshot :
       t \in 1 .. MaxTid /\ snapshot[t] \in Places /\ frame[t].pos = snapshot[t]

PipelineInv ==
  /\ Input!InputInv
  /\ FrameFits
  /\ frame_in_step => FrameIsTrue

InputSteps == TouchScreen \/ ConsumePart \/ ConsumeReport

\* What the instances assume.
LEMMA ConstantsFit ==
  /\ Input!KernelAssumption
  /\ Input!SlotsAssumption
  /\ Worker!TidAssumption
  /\ Worker!LayoutAssumption
  /\ Worker!KeyAssumption
  /\ Worker!ReadingAssumption
  /\ Worker!TimeAssumption
<1>1. Input!KernelAssumption /\ Input!SlotsAssumption
  BY KernelAssumption, SlotsAssumption
     DEF Input!KernelAssumption, Input!SlotsAssumption
<1>2. Worker!TidAssumption /\ Worker!KeyAssumption
  BY KernelAssumption DEF Worker!TidAssumption, Worker!KeyAssumption, kOldTID,
                          KEY_FN, KEY_SPACE
<1>3. Worker!LayoutAssumption
  BY BoxesAssumption DEF Worker!LayoutAssumption, KeysUnder
<1>4. Worker!ReadingAssumption /\ Worker!TimeAssumption
  BY WorkerAssumption DEF Worker!ReadingAssumption, Worker!TimeAssumption
<1> QED BY <1>1, <1>2, <1>3, <1>4

\* The decoder only holds ids and coordinates the device sent.
LEMMA FillSnapshotFits ==
  ASSUME Input!DecoderFits, NEW t \in DOMAIN Input!FillSnapshot
  PROVE  t \in 1 .. MaxTid /\ Input!FillSnapshot[t] \in Places
<1> DEFINE S == {s \in Input!SlotIndices : Input!TidOf(s) = t}
           m == Input!Max(S)
<1>1. PICK u \in Input!SlotIndices : Input!TidOf(u) = t /\ t # -1
  BY DEF Input!FillSnapshot
<1>2. m \in Input!SlotIndices /\ Input!TidOf(m) = t
  <2>1. /\ S \subseteq Nat /\ u \in S /\ kNumSlots \in Nat
        /\ \A y \in S : y <= kNumSlots
    BY <1>1, SlotsAssumption DEF Input!SlotIndices
  <2> HIDE DEF S
  <2>2. Worker!Max(S) \in S
    BY <2>1, ConstantsFit, Worker!MaxOfNats
  <2>3. m \in S
    BY <2>2 DEF Worker!Max, Input!Max
  <2> QED BY <2>3 DEF S
<1>3. Input!FillSnapshot[t] = Input!PointOf(m)
  BY DEF Input!FillSnapshot
<1> HIDE DEF m
<1>4. /\ DOMAIN slots[m] \subseteq Input!Axes
      /\ \A a \in DOMAIN slots[m] : slots[m][a] \in Input!Values(a)
  BY <1>2 DEF Input!DecoderFits
<1>5. t \in 1 .. MaxTid
  <2>1. Input!TID \in DOMAIN slots[m] /\ t = slots[m][Input!TID]
    BY <1>1, <1>2 DEF Input!TidOf, Input!FindValueByEvent, Input!TID,
                      Input!kSlotMissingValue
  <2> QED BY <1>1, <1>4, <2>1 DEF Input!Values, Input!TrackingIds
<1>6. /\ Input!PointOf(m)[1] \in Coordinates(1)
      /\ Input!PointOf(m)[2] \in Coordinates(2)
      /\ Input!PointOf(m) = <<Input!PointOf(m)[1], Input!PointOf(m)[2]>>
  <2>1. /\ Input!Coordinate(1) \cup {-1} = Coordinates(1)
        /\ Input!Coordinate(2) \cup {-1} = Coordinates(2)
    BY DEF Input!Coordinate, Input!GlassPoints, Coordinates, kSlotMissingValue
  <2>2. /\ Input!FindValueByEvent(slots[m], Input!X) \in Input!Coordinate(1) \cup {-1}
        /\ Input!FindValueByEvent(slots[m], Input!Y) \in Input!Coordinate(2) \cup {-1}
    BY <1>4 DEF Input!FindValueByEvent, Input!Values, Input!TID, Input!X, Input!Y,
                Input!kSlotMissingValue
  <2>3. /\ Input!PointOf(m)[1] = Input!FindValueByEvent(slots[m], Input!X)
        /\ Input!PointOf(m)[2] = Input!FindValueByEvent(slots[m], Input!Y)
        /\ Input!PointOf(m) = <<Input!PointOf(m)[1], Input!PointOf(m)[2]>>
    BY DEF Input!PointOf, Input!X, Input!Y
  <2> QED BY <2>1, <2>2, <2>3
<1> QED BY <1>3, <1>5, <1>6 DEF Places

\* A worker starts with nothing in its hands, on any device.
LEMMA PipelineStart == Init => PipelineInv
<1> SUFFICES ASSUME Init PROVE PipelineInv
  OBVIOUS
<1>1. Input!Init
  BY DEF Init, ReaderInit, KernelInit, DecoderInit, NoSlots, SlotIndices, KB!Init,
         Input!Init, Input!ReaderInit, Input!KernelInit, Input!DecoderInit,
         Input!NoSlots, Input!SlotIndices
<1>2. Input!InputInv
  BY <1>1, ConstantsFit, Input!InputInit
<1>3. snapshot = <<>> /\ frame = <<>>
  BY DEF Init, ReaderInit, DecoderInit, KB!Init
<1>4. FrameFits /\ FrameIsTrue
  BY <1>3 DEF FrameFits, FrameIsTrue
<1> QED BY <1>2, <1>4 DEF PipelineInv

\* A frame is handed to the worker.
LEMMA ReportFits ==
  ASSUME PipelineInv, ConsumeReport
  PROVE  PipelineInv' /\ Input!ReadEvent
<1>1. Input!ReadReport(Head(stream), TRUE)
  BY ReportIsInput
<1>2. PICK time \in FrameTicks, reading \in [DOMAIN snapshot' -> Readings] :
        KB!ReadFrame(time, [c \in DOMAIN snapshot' |->
            [pos |-> snapshot'[c], p |-> reading[c].p,
             touch_major |-> reading[c].touch_major]])
  BY DEF ConsumeReport
<1>3. /\ DOMAIN frame' = DOMAIN snapshot'
      /\ \A c \in DOMAIN snapshot' : frame'[c].pos = snapshot'[c]
      /\ seen' = seen \cup DOMAIN snapshot'
  BY <1>2 DEF KB!ReadFrame
<1>4. Input!ReadEvent
  BY <1>1, <1>3 DEF Input!ReadEvent, ConsumeReport
<1>5. Input!InputInv'
  BY <1>4, ConstantsFit, Input!ReadEventFits DEF PipelineInv
<1>6. FrameFits'
  <2>1. snapshot' = Input!FillSnapshot /\ Input!DecoderFits
    BY <1>1 DEF Input!ReadReport, Input!AddReport, PipelineInv, Input!InputInv,
                Input!ReaderInv
  <2>2. \A t \in DOMAIN snapshot' : t \in 1 .. MaxTid /\ snapshot'[t] \in Places
    BY <2>1, FillSnapshotFits
  <2> QED BY <1>3, <2>2 DEF FrameFits
<1>7. frame_in_step' => FrameIsTrue'
  <2> SUFFICES ASSUME in_step, NEW t \in DOMAIN snapshot'
               PROVE  \E s \in DeviceSlots :
                        /\ last_truth'[s].tid = t
                        /\ \A i \in 1 .. 2 :
                             snapshot'[t][i] \in {last_truth'[s].at[i], kSlotMissingValue}
    BY DEF ConsumeReport, FrameIsTrue
  <2>1. PICK c \in Input!Contacts(last_truth') :
          /\ c.tid = t
          /\ \A i \in 1 .. 2 : snapshot'[t][i] \in {c.at[i], Input!kSlotMissingValue}
    BY <1>1, ConstantsFit, Input!ReportHasNoGhost DEF PipelineInv
  <2> QED BY <2>1 DEF Input!Contacts, Input!kSlotMissingValue, kSlotMissingValue
<1> QED BY <1>4, <1>5, <1>6, <1>7 DEF PipelineInv

\* The worker keeps the frame it has until it reads the next one.
LEMMA WorkerKeepsFrame ==
  ASSUME KB!Timeout \/ KB!Handler
  PROVE  UNCHANGED <<frame, seen>>
BY DEF KB!Timeout, KB!Handler, KB!VisitTouch, KB!TouchesDone, KB!FingerLeaves,
       KB!LeavingDone, KB!FireRejected, KB!FireSend, KB!DrainDone, KB!pad_vars

\* Every step keeps the invariant, and is a step of the reader or none.
LEMMA PipelineStep == PipelineInv /\ [Next]_vars => PipelineInv' /\ [Input!Next]_(Input!vars)
<1> SUFFICES ASSUME PipelineInv, [Next]_vars
             PROVE  PipelineInv' /\ [Input!Next]_(Input!vars)
  OBVIOUS
<1> USE DEF PipelineInv
<1>1. CASE TouchScreen
  <2>1. Input!TouchScreen
    BY <1>1, TouchIsInput
  <2>2. Input!InputInv'
    BY <2>1, ConstantsFit, Input!TouchScreenFits
  <2>3. UNCHANGED <<snapshot, frame, seen, last_truth, frame_in_step>>
    BY <1>1 DEF TouchScreen, Touch, kb_vars, decoder_vars, reader_vars
  <2>4. FrameFits' /\ (frame_in_step' => FrameIsTrue')
    BY <2>3 DEF FrameFits, FrameIsTrue
  <2> QED BY <2>1, <2>2, <2>4 DEF Input!Next
<1>2. CASE ConsumePart
  <2>1. Input!ReadPart(Head(stream)) /\ stream # <<>>
    BY <1>2, PartIsInput DEF ConsumePart
  <2>2. UNCHANGED <<snapshot, frame, seen, last_truth, frame_in_step>>
    BY <1>2, <2>1 DEF ConsumePart, kb_vars, Input!ReadPart, Input!AddPart,
                      Input!AddDropped, Input!AddWhileDropping, Input!AddSlot,
                      Input!AddAxis
  <2>3. Input!ReadEvent
    BY <2>1, <2>2 DEF Input!ReadEvent, FrameFits
  <2>4. Input!InputInv'
    BY <2>3, ConstantsFit, Input!ReadEventFits
  <2>5. FrameFits' /\ (frame_in_step' => FrameIsTrue')
    BY <2>2 DEF FrameFits, FrameIsTrue
  <2> QED BY <2>3, <2>4, <2>5 DEF Input!Next
<1>3. CASE ConsumeReport
  BY <1>3, ReportFits DEF Input!Next
<1>4. CASE Timeout \/ Handler \/ UNCHANGED vars
  <2>1. UNCHANGED <<input_vars, frame, seen>>
    BY <1>4, WorkerKeepsFrame DEF Timeout, Handler, vars, kb_vars
  <2>2. UNCHANGED Input!vars
    BY <2>1 DEF input_vars, kernel_vars, decoder_vars, reader_vars, Input!vars,
                Input!kernel_vars, Input!decoder_vars, Input!reader_vars
  <2>3. Input!InputInv'
    BY <2>2, ConstantsFit, Input!InputStutters
  <2>4. FrameFits' /\ (frame_in_step' => FrameIsTrue')
    BY <2>1 DEF FrameFits, FrameIsTrue, input_vars, decoder_vars, reader_vars
  <2> QED BY <2>2, <2>3, <2>4
<1> QED BY <1>1, <1>2, <1>3, <1>4 DEF Next

\* The frame in the hands of the worker is the one the decoder handed out, has
\* only ids and coordinates the device sent, and shows no contact that was not
\* on the glass when the decoder was in step.
THEOREM PipelineInvariant == Spec => []PipelineInv
BY PipelineStart, PipelineStep, PTL DEF Spec

-----------------------------------------------------------------------------
\* What reads the touch screen is the input half that InputProofs is about.
THEOREM ImplementsInput == Spec => Input!Spec
<1>1. Init => Input!Init
  BY DEF Init, ReaderInit, KernelInit, DecoderInit, NoSlots, SlotIndices, KB!Init,
         Input!Init, Input!ReaderInit, Input!KernelInit, Input!DecoderInit,
         Input!NoSlots, Input!SlotIndices
<1> QED BY <1>1, PipelineStep, PipelineInvariant, PTL DEF Spec, Input!Spec

-----------------------------------------------------------------------------
(***************************************************************************)
(* The worker only gets frames it is made for.                             *)
(***************************************************************************)
\* No contact of a frame has the id of one that was lifted.
LEMMA NoIdComesBack ==
  ASSUME PipelineInv, ConsumeReport
  PROVE  /\ DOMAIN frame' = DOMAIN snapshot'
         /\ DOMAIN frame' \cap seen \subseteq DOMAIN frame
<1>1. Input!ReadReport(Head(stream), TRUE) /\ Input!ReadEvent /\ PipelineInv'
  BY ReportIsInput, ReportFits
<1>2. DOMAIN snapshot' \cap seen \subseteq DOMAIN snapshot
  BY <1>1, ConstantsFit, Input!ReadReportIds
     DEF PipelineInv, Input!InputInv, Input!ReadEvent
<1> QED BY <1>1, <1>2 DEF PipelineInv, FrameFits

\* Reading a frame is what FakeKeyboard calls reading one.
LEMMA ReportIsReadSnapshot ==
  ASSUME PipelineInv, ConsumeReport
  PROVE  Worker!ReadSnapshot
<1>1. PICK t \in FrameTicks, reading \in [DOMAIN snapshot' -> Readings] :
        /\ t > now
        /\ KB!ReadFrame(t, [c \in DOMAIN snapshot' |->
            [pos |-> snapshot'[c], p |-> reading[c].p,
             touch_major |-> reading[c].touch_major]])
  BY DEF ConsumeReport
<1> DEFINE on == DOMAIN snapshot'
           pos == [c \in on |-> snapshot'[c]]
           f == [c \in on |-> [pos |-> pos[c], p |-> reading[c].p,
                               touch_major |-> reading[c].touch_major]]
<1>2. PipelineInv' /\ DOMAIN frame' = on /\ on \cap seen \subseteq DOMAIN frame
  BY ReportFits, NoIdComesBack
<1>3. on \in SUBSET (1 .. MaxTid) /\ pos \in [on -> Places]
  BY <1>2 DEF PipelineInv, FrameFits
<1>4. KB!ReadFrame(t, f)
  BY <1>1
<1>5. Worker!ReadFrame(t, f)
  BY <1>4, FrameIsRead
<1>6. pc = "wait" /\ reading \in [on -> Readings]
  BY DEF ConsumeReport
<1> HIDE DEF on, pos
<1> QED BY <1>1, <1>2, <1>3, <1>5, <1>6 DEF Worker!ReadSnapshot

\* Every step of the pipeline is a step of the worker or none.
LEMMA WorkerStep == PipelineInv /\ [Next]_vars => [Worker!Next]_(Worker!vars)
<1> SUFFICES ASSUME PipelineInv, [Next]_vars PROVE [Worker!Next]_(Worker!vars)
  OBVIOUS
<1>1. CASE ConsumeReport
  BY <1>1, ReportIsReadSnapshot DEF Worker!Next
<1>2. CASE Timeout \/ Handler
  BY <1>2, TimeoutIsTimeout, HandlerIsHandler DEF Timeout, Handler, Worker!Next
<1>3. CASE TouchScreen \/ ConsumePart \/ UNCHANGED vars
  <2>1. UNCHANGED kb_vars
    BY <1>3 DEF TouchScreen, ConsumePart, vars
  <2> QED BY <2>1 DEF kb_vars, Worker!vars, Worker!code_vars, Worker!sent_vars,
                      Worker!pad_vars
<1> QED BY <1>1, <1>2, <1>3 DEF Next

\* No id comes back and every point is a place, whatever is lost: the decoder
\* keeps what the worker behind it assumes.
THEOREM FramesAreAlwaysLegal == Spec => FramesAreLegal
<1>1. PipelineInv /\ [Next]_vars =>
        (frame' # frame =>
           /\ DOMAIN frame' \cap seen \subseteq DOMAIN frame
           /\ \A t \in DOMAIN frame' : t \in 1 .. MaxTid /\ frame'[t].pos \in Places)
  <2> SUFFICES ASSUME PipelineInv, [Next]_vars, frame' # frame
               PROVE  /\ DOMAIN frame' \cap seen \subseteq DOMAIN frame
                      /\ \A t \in DOMAIN frame' :
                           t \in 1 .. MaxTid /\ frame'[t].pos \in Places
    OBVIOUS
  <2>1. ConsumeReport
    <3>1. TouchScreen \/ ConsumePart \/ UNCHANGED vars => frame' = frame
      BY DEF TouchScreen, ConsumePart, vars, kb_vars
    <3>2. Timeout \/ Handler => frame' = frame
      BY WorkerKeepsFrame DEF Timeout, Handler
    <3> QED BY <3>1, <3>2 DEF Next
  <2> QED BY <2>1, ReportFits, NoIdComesBack DEF PipelineInv, FrameFits
<1> QED BY <1>1, PipelineInvariant, PTL DEF Spec, FramesAreLegal

\* What processes the frames is the worker that FakeKeyboardProofs is about,
\* which takes legal frames for granted.
THEOREM ImplementsWorker == Spec => Worker!Spec
<1>1. Init => Worker!Init
  BY WorkerStarts DEF Init
<1> QED BY <1>1, WorkerStep, PipelineInvariant, PTL DEF Spec, Worker!Spec

-----------------------------------------------------------------------------
\* Once the buffer is read and the queue is empty, a key is down only under a
\* contact that is on the glass.
LEMMA QuietKeys ==
  ASSUME KeysOnGlass, PipelineInv, Worker!KeyboardInv, Worker!NoStuckKey,
         Worker!FingerIsOnItsKey
  PROVE  KeysAreUnderFingers
<1> SUFFICES ASSUME Quiet, UpToDate, NEW code \in reported
             PROVE  \E s \in DeviceSlots, k \in DOMAIN Boxes :
                      /\ hw[s].tid # -1
                      /\ k \in KeysUnder(hw[s].at)
                      /\ EventCode[k] = code
  BY DEF KeysAreUnderFingers
<1>1. pc = "wait" /\ pending = <<>> /\ last_truth = hw /\ FrameIsTrue
  BY DEF Quiet, UpToDate, PipelineInv
<1>2. PICK t \in DOMAIN finger_data \cap DOMAIN frame :
        /\ finger_data[t].rejection_status = "kNotRejectedYet"
        /\ finger_data[t].event_code = code
  BY <1>1 DEF Worker!NoStuckKey
<1>3. t \notin todo
  BY <1>1 DEF Worker!KeyboardInv, Worker!FramesFit
<1> DEFINE key == finger_data[t].starting_key_number
<1>4. /\ t \in DOMAIN snapshot /\ t \in 1 .. MaxTid
      /\ snapshot[t] \in Places /\ frame[t].pos = snapshot[t]
  BY <1>2 DEF PipelineInv, FrameFits
<1>5. /\ key \in [p \in Places |-> KeysUnder(p)][frame[t].pos]
      /\ finger_data[t].event_code
           \in {EventCode[key], [k \in DOMAIN Boxes |-> 0][key]} \ {0}
  BY <1>2, <1>3 DEF Worker!FingerIsOnItsKey, Worker!Unrejected
<1>6. key \in DOMAIN Boxes /\ key \in KeysUnder(snapshot[t])
  BY <1>4, <1>5 DEF KeysUnder
<1>7. EventCode[key] = code
  BY <1>2, <1>5, <1>6
<1>8. PICK s \in DeviceSlots :
        /\ hw[s].tid = t
        /\ \A i \in 1 .. 2 : snapshot[t][i] \in {hw[s].at[i], kSlotMissingValue}
  BY <1>1, <1>4 DEF FrameIsTrue
<1>9. snapshot[t][1] = hw[s].at[1] /\ snapshot[t][2] = hw[s].at[2]
  <2>1. /\ snapshot[t][1] \in {hw[s].at[1], -1}
        /\ snapshot[t][2] \in {hw[s].at[2], -1}
    BY <1>8 DEF kSlotMissingValue
  <2>2. /\ Boxes[key].x1 \in Int /\ Boxes[key].x1 >= 0
        /\ Boxes[key].y1 \in Int /\ Boxes[key].y1 >= 0
    BY <1>6, BoxesAssumption DEF KeysOnGlass
  <2>3. Boxes[key].x1 <= snapshot[t][1] /\ Boxes[key].y1 <= snapshot[t][2]
    BY <1>6 DEF KeysUnder, G!KeyContains
  <2> QED BY <2>1, <2>2, <2>3
<1>10. key \in KeysUnder(hw[s].at)
  BY <1>6, <1>9 DEF KeysUnder
<1>11. hw[s].tid # -1
  BY <1>4, <1>8, KernelAssumption
<1> QED BY <1>6, <1>7, <1>10, <1>11

\* No key is down without a finger on it, for every layout on the glass, touch
\* screen and buffer, whatever was lost.
THEOREM KeysUnderFingers ==
  ASSUME KeysOnGlass
  PROVE  Spec => []KeysAreUnderFingers
<1>1. PipelineInv /\ Worker!KeyboardInv /\ Worker!NoStuckKey
        /\ Worker!FingerIsOnItsKey => KeysAreUnderFingers
  BY KeysOnGlass, QuietKeys
<1>2. Worker!Spec => []Worker!KeyboardInv /\ []Worker!NoStuckKey
                       /\ []Worker!FingerIsOnItsKey
  BY ConstantsFit, Worker!KeyboardInvariant, Worker!KeysAreReleased,
     Worker!FingersAreOnTheirKeys
<1> QED BY <1>1, <1>2, ImplementsWorker, PipelineInvariant, PTL

\* From the glass to the keys: each contact presses one key at most, once, and
\* releases it, in the order the contacts were lifted, whatever the buffer loses.
THEOREM TapsFromTheGlass == Spec => Worker!ImplementsKeyTapsSafely
BY ConstantsFit, ImplementsWorker, Worker!KeyTapsImplemented, PTL
=============================================================================
