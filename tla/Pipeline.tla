------------------------------ MODULE Pipeline ------------------------------
(***************************************************************************)
(* The keyboard worker from the glass to the keys: the touch screen and    *)
(* its buffer, the decoder, and the worker behind it.  Consume() feeds     *)
(* what GetNextEvent() returns to AddEvent() and processes the snapshot    *)
(* when a frame is complete (src/src/fake_keyboard.cc:383-398).            *)
(***************************************************************************)
EXTENDS TouchReader

CONSTANTS
  Boxes,       \* Boxes[k]: the rectangle of key k in sensor coordinates
  EventCode,   \* its code
  Readings,    \* [p, touch_major] of a contact of a frame
  Ticks, FrameTicks, Delay

ASSUME BoxesAssumption ==
  /\ DOMAIN Boxes \subseteq Nat
  /\ Boxes \in [DOMAIN Boxes -> [x1 : Int, x2 : Int, y1 : Int, y2 : Int]]
  /\ EventCode \in [DOMAIN Boxes -> Nat \ {0}]
ASSUME WorkerAssumption ==
  /\ Readings \subseteq [p : Int, touch_major : Int]
  /\ FrameTicks \subseteq Ticks
  /\ Ticks \subseteq Nat
  /\ Delay \in Nat

VARIABLES
  frame_in_step, \* history: in_step when the last frame was complete
  frame,       \* the snapshot in the hands of the keyboard
  pc, now, todo, finger_data, pending, fn_key_pressed,
  needs_syn, keys_down, reported, seen, before, strokes

kb_vars == <<frame, pc, now, todo, finger_data, pending, fn_key_pressed,
             needs_syn, keys_down, reported, seen, before, strokes>>
input_vars == <<kernel_vars, decoder_vars, reader_vars, frame_in_step>>
vars == <<input_vars, kb_vars>>

G == INSTANCE Geometry WITH MmUnit <- 1

kOldTID == -999
KEY_FN == 464
KEY_SPACE == 57

\* A coordinate the decoder does not know is -1, which is on no key.
Coordinates(i) == {p[i] : p \in Points \cup StartPoints} \cup {kSlotMissingValue}
Places == Coordinates(1) \X Coordinates(2)
KeysUnder(p) == {k \in DOMAIN Boxes : G!KeyContains(Boxes[k], p[1], p[2])}

KB == INSTANCE FakeKeyboardProps WITH
        snapshot <- frame,
        Tids <- 1 .. MaxTid,
        OldTid <- kOldTID,
        KeyNums <- DOMAIN Boxes,
        EventCodeFn <- [k \in DOMAIN Boxes |-> 0],
        Positions <- Places,
        KeysAt <- [p \in Places |-> KeysUnder(p)]

Init == ReaderInit /\ frame_in_step = in_step /\ KB!Init

-----------------------------------------------------------------------------
\* The glass changes while the worker waits.  What happens on the glass while
\* the worker computes reaches it through the buffer only, and is as good as a
\* change just before or after.
TouchScreen ==
  /\ pc = "wait"
  /\ Touch
  /\ UNCHANGED <<frame_in_step, kb_vars>>

\* An event that completes no frame: `continue`.
ConsumePart ==
  /\ pc = "wait"
  /\ stream # <<>>
  /\ ReadPart(Head(stream))
  /\ UNCHANGED <<frame_in_step, kb_vars>>

\* One that does.  The pressure and the diameter are axes like the coordinates,
\* and may be missing like them.
ConsumeReport ==
  /\ pc = "wait"
  /\ stream # <<>>
  /\ ReadReport(Head(stream), TRUE)
  /\ frame_in_step' = in_step
  /\ \E t \in FrameTicks, reading \in [DOMAIN snapshot' -> Readings] :
       /\ t > now
       /\ KB!ReadFrame(t, [c \in DOMAIN snapshot' |->
            [pos |-> snapshot'[c], p |-> reading[c].p,
             touch_major |-> reading[c].touch_major]])

\* select() times out: nothing is in the buffer.
Timeout ==
  /\ stream = <<>>
  /\ KB!Timeout
  /\ UNCHANGED input_vars

Handler ==
  /\ KB!Handler
  /\ UNCHANGED input_vars

Next == TouchScreen \/ ConsumePart \/ ConsumeReport \/ Timeout \/ Handler

Spec == Init /\ [][Next]_vars

-----------------------------------------------------------------------------
\* Nothing is left to do until somebody touches the glass again.
Quiet == stream = <<>> /\ pc = "wait" /\ pending = <<>>

\* The last complete frame is what is on the glass, and the decoder that handed
\* it out was in the slot of the device when it started, or resumed after losses.
UpToDate == last_truth = hw /\ frame_in_step

\* No key lies at a negative coordinate.  LoadLayout() does not check it.
KeysOnGlass == \A k \in DOMAIN Boxes : Boxes[k].x1 >= 0 /\ Boxes[k].y1 >= 0

\* No key is down without a finger on it.  Once the buffer is read and the queue
\* is empty, each key readers see down lies under a contact that is on the glass
\* now, through lost events, unknown coordinates and slots without an id.
KeysAreUnderFingers ==
  Quiet /\ UpToDate =>
    \A code \in reported :
      \E s \in DeviceSlots, k \in DOMAIN Boxes :
        /\ hw[s].tid # -1
        /\ k \in KeysUnder(hw[s].at)
        /\ EventCode[k] = code

\* The worker is only given frames it is made for: no id comes back, and every
\* point is one of its positions.  This is the guard of ReadSnapshot in
\* FakeKeyboard, so what is proved there holds behind this decoder.
FramesAreLegal ==
  [][frame' # frame =>
       /\ DOMAIN frame' \cap seen \subseteq DOMAIN frame
       /\ \A t \in DOMAIN frame' : t \in 1 .. MaxTid /\ frame'[t].pos \in Places]_vars

\* "A 'key up' event must be sent eventually" (fake_keyboard.h:139): when nobody
\* touches the glass and nothing is left to do, no key is down.
NoKeyLeftDown ==
  Quiet /\ (\A s \in DeviceSlots : hw[s].tid = -1) => reported = {}
=============================================================================
