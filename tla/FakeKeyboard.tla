---------------------------- MODULE FakeKeyboard ----------------------------
(***************************************************************************)
(* The keyboard worker: class FakeKeyboard, src/src/fake_keyboard.cc.      *)
(*                                                                         *)
(* One process loops in Consume().  It reads a frame of the touch screen   *)
(* or times out, updates finger_data_ and the list pending_events_ of      *)
(* delayed key events, then fires the events whose deadline has passed.    *)
(* A pass of the loop is cut into the steps the code takes in an order it  *)
(* does not fix (both loops over unordered maps) or repeats (the firing    *)
(* loop): wait -> touches -> leaving -> drain -> wait.                     *)
(*                                                                         *)
(* Coordinates are abstracted to the set of layout keys that contain the   *)
(* point, time to clock ticks.  arrival_time_ is left out (never read),    *)
(* and so are logging and the haptic effect of a landing finger, which     *)
(* touches none of this state.                                             *)
(***************************************************************************)
EXTENDS Integers, Sequences, EventList

CONSTANTS
  Tids,        \* tracking ids the kernel hands out, each to one contact
  OldTid,      \* kOldTID, the id of an event that belongs to no live finger
  KeyNums,     \* the indices of layout_
  EventCode,   \* layout_[k].event_code_
  EventCodeFn, \* layout_[k].event_code_fn_, 0 when the key has none
  KEY_FN, KEY_SPACE,
  Positions,   \* the points of the glass a finger may be at
  KeysAt,      \* KeysAt[p]: the keys whose rectangle contains p
  Readings,    \* [p, touch_major] pairs the sensor reports, -1 if missing
  Ticks,       \* the readings of CLOCK_MONOTONIC
  FrameTicks,  \* those at which an input event may be read
  Delay        \* kEventDelayMS in ticks

kNoKey == -1
kMinTapPressure == 50
kMaxTapPressure == 110
kMinTapTouchDiameter == 300
kMaxTapTouchDiameter == 3000

ASSUME TidAssumption == OldTid \notin Tids
ASSUME LayoutAssumption ==
  /\ KeyNums \subseteq Nat
  /\ EventCode \in [KeyNums -> Nat \ {0}]
  /\ EventCodeFn \in [KeyNums -> Nat]
  /\ KeysAt \in [Positions -> SUBSET KeyNums]
ASSUME KeyAssumption == KEY_FN \in Nat \ {0} /\ KEY_SPACE \in Nat \ {0}
ASSUME ReadingAssumption == Readings \subseteq [p : Int, touch_major : Int]
ASSUME TimeAssumption ==
  /\ FrameTicks \subseteq Ticks
  /\ Ticks \subseteq Nat
  /\ Delay \in Nat

Codes == ({EventCode[k] : k \in KeyNums} \cup {EventCodeFn[k] : k \in KeyNums})
           \ {0}

VARIABLES
  pc,              \* where Consume() is
  now,             \* the clock when Consume() last read it
  snapshot,        \* the last frame: the position and reading of each contact
  todo,            \* contacts of the frame the first loop has not visited
  finger_data,     \* finger_data_, a function on the tracked ids
  pending,         \* pending_events_: rank in the list -> event
  fn_key_pressed,  \* fn_key_pressed_
  needs_syn,       \* needs_syn of this pass
  keys_down,       \* keys the kernel holds down for the uinput device
  reported,        \* keys_down at the last SYN_REPORT, what readers act on
  seen,            \* ids the kernel has handed out so far
  before,          \* before[t]: contacts lifted before t landed
  strokes          \* strokes[t]: the key events sent because of t

code_vars == <<finger_data, pending, fn_key_pressed>>
sent_vars == <<needs_syn, keys_down, reported, strokes>>
pad_vars  == <<snapshot, seen, before>>
vars == <<pc, now, todo, code_vars, sent_vars, pad_vars>>

RejectionStatus ==
  {"kNotRejectedYet", "kRejectTouchdownOffKey", "kRejectMovedOffKey",
   "kRejectPressure", "kRejectTouchDiameter"}

FingerData ==
  [max_pressure : Int, max_touch_major : Int,
   starting_key_number : KeyNums \cup {kNoKey}, event_code : Codes \cup {0},
   down_sent : BOOLEAN, rejection_status : RejectionStatus]

\* contact is history: the contact an event is due to.  kOldTID hides it from
\* the code, and only strokes reads it.
Event ==
  [code : Codes, is_down : BOOLEAN, is_guaranteed : BOOLEAN,
   tid : Tids \cup {OldTid}, deadline : Nat, contact : Tids]

Finger == [pos : Positions, p : Int, touch_major : Int]

Stroke(code, down) == [code |-> code, down |-> down]

Init ==
  /\ pc = "wait"
  /\ now = 0
  /\ snapshot = <<>>
  /\ todo = {}
  /\ finger_data = <<>>
  /\ pending = <<>>
  /\ fn_key_pressed = FALSE
  /\ needs_syn = FALSE
  /\ keys_down = {}
  /\ reported = {}
  /\ seen = {}
  /\ before = [t \in Tids |-> {}]
  /\ strokes = [t \in Tids |-> <<>>]

-----------------------------------------------------------------------------
DownEvent(code, t) ==
  [code |-> code, is_down |-> TRUE, is_guaranteed |-> FALSE,
   tid |-> t, deadline |-> now + Delay, contact |-> t]

\* A mistake to tell apart: the release keeps the id of its finger, so the
\* firing loop checks the finger once more.
UpEventMutant(code, t) ==
  [code |-> code, is_down |-> FALSE, is_guaranteed |-> TRUE,
   tid |-> t, deadline |-> now + Delay, contact |-> t]

UpEvent(code, t) ==
  [code |-> code, is_down |-> FALSE, is_guaranteed |-> TRUE,
   tid |-> OldTid, deadline |-> now + Delay, contact |-> t]

EventsOf(q, t) == {r \in DOMAIN q : q[r].tid = t}
-----------------------------------------------------------------------------
(***************************************************************************)
(* Waiting for the touch screen or for the front deadline.                 *)
(***************************************************************************)

\* The frame f is processed with the time t.
ReadFrame(t, f) ==
  /\ snapshot' = f
  /\ now' = t
  /\ todo' = DOMAIN f
  /\ seen' = seen \cup DOMAIN f
  /\ before' = [c \in Tids |-> IF c \in DOMAIN f \ seen
                               THEN seen \ DOMAIN snapshot
                               ELSE before[c]]
  /\ pc' = "touches"
  /\ UNCHANGED <<code_vars, sent_vars>>

\* A frame in which some contacts land, move or are lifted.  An id is never
\* handed out twice.  The clock is read anew after the read() of the event, so
\* no two frames have the same time.
ReadSnapshot ==
  /\ pc = "wait"
  /\ \E t \in FrameTicks, on \in SUBSET Tids :
       /\ t > now
       /\ on \cap seen \subseteq DOMAIN snapshot
       /\ \E pos \in [on -> Positions], reading \in [on -> Readings] :
            ReadFrame(t, [c \in on |-> [pos |-> pos[c], p |-> reading[c].p,
                                       touch_major |-> reading[c].touch_major]])

\* An input event that does not end a frame: `continue`, nothing is fired.
PartialEvent ==
  /\ pc = "wait"
  /\ \E t \in FrameTicks : t > now /\ now' = t
  /\ UNCHANGED <<pc, todo, code_vars, sent_vars, pad_vars>>

\* select() does not return early: the deadline of the front has passed.
Timeout ==
  /\ pc = "wait"
  /\ \E r \in DOMAIN pending, t \in Ticks :
       /\ IsFront(pending, r)
       /\ t >= now /\ t >= pending[r].deadline
       /\ now' = t
  /\ pc' = "drain"
  /\ UNCHANGED <<todo, code_vars, sent_vars, pad_vars>>

-----------------------------------------------------------------------------
(***************************************************************************)
(* ProcessIncomingSnapshot, the loop over the fingers of the frame.        *)
(***************************************************************************)
FirstKeyAt(pos) == IF KeysAt[pos] = {} THEN kNoKey ELSE Min(KeysAt[pos])

\* A mistake to tell apart: a key without an Fn code types 0 under Fn.
CodeOfMutant(key) ==
  IF fn_key_pressed THEN EventCodeFn[key] ELSE EventCode[key]

CodeOf(key) ==
  IF fn_key_pressed /\ EventCodeFn[key] # 0 THEN EventCodeFn[key]
                                            ELSE EventCode[key]

ArrivingFinger(finger, key, code) ==
  [max_pressure |-> finger.p, max_touch_major |-> finger.touch_major,
   starting_key_number |-> key, event_code |-> code, down_sent |-> FALSE,
   rejection_status |-> IF key = kNoKey THEN "kRejectTouchdownOffKey"
                                        ELSE "kNotRejectedYet"]

TouchArrives(t) ==
  LET key  == FirstKeyAt(snapshot[t].pos)
      code == IF key = kNoKey THEN 0 ELSE CodeOf(key)
      data == ArrivingFinger(snapshot[t], key, code)
  IN  /\ t \notin DOMAIN finger_data
      /\ pending' = IF key = kNoKey THEN pending
                    ELSE EnqueueEvent(pending, DownEvent(code, t))
      /\ fn_key_pressed' = (fn_key_pressed \/ code = KEY_FN)
      /\ finger_data' = [c \in DOMAIN finger_data \cup {t} |->
                           IF c = t THEN data ELSE finger_data[c]]

Larger(a, b) == IF a >= b THEN a ELSE b

Updated(data, finger) ==
  [data EXCEPT !.max_pressure = Larger(@, finger.p),
               !.max_touch_major = Larger(@, finger.touch_major)]

\* A mistake to tell apart: any key will do.
StillOnFirstKeyMutant(finger, data) ==
  data.starting_key_number # kNoKey /\ KeysAt[finger.pos] # {}

StillOnFirstKey(finger, data) ==
  /\ data.starting_key_number # kNoKey
  /\ data.starting_key_number \in KeysAt[finger.pos]

Unrejected(data) == data.rejection_status = "kNotRejectedYet"

TouchStays(t) ==
  /\ t \in DOMAIN finger_data
  /\ Unrejected(finger_data[t])
  /\ StillOnFirstKey(snapshot[t], finger_data[t])
  /\ finger_data' = [finger_data EXCEPT ![t] = Updated(@, snapshot[t])]
  /\ UNCHANGED <<pending, fn_key_pressed>>

\* A mistake to tell apart: Fn stays pressed.
RejectFingerMutant(t, data, reason) ==
  /\ finger_data' =
       [finger_data EXCEPT ![t] = [data EXCEPT !.rejection_status = reason]]
  /\ UNCHANGED fn_key_pressed

\* The finger is marked; RemainingEvents is the other half of the function.
RejectFinger(t, data, reason) ==
  /\ finger_data' =
       [finger_data EXCEPT ![t] = [data EXCEPT !.rejection_status = reason]]
  /\ fn_key_pressed' = (fn_key_pressed /\ data.event_code # KEY_FN)

\* A mistake to tell apart: the events of the rejected finger are kept.
RemainingEventsMutant(q, t) == q

RemainingEvents(q, t) == Without(q, EventsOf(q, t))

\* A mistake to tell apart: a key that is already down is not released.
TouchMovesOffMutant(t) ==
  /\ t \in DOMAIN finger_data
  /\ Unrejected(finger_data[t])
  /\ ~StillOnFirstKey(snapshot[t], finger_data[t])
  /\ RejectFinger(t, Updated(finger_data[t], snapshot[t]),
                  "kRejectMovedOffKey")
  /\ pending' = RemainingEvents(pending, t)

TouchMovesOff(t) ==
  /\ t \in DOMAIN finger_data
  /\ Unrejected(finger_data[t])
  /\ ~StillOnFirstKey(snapshot[t], finger_data[t])
  /\ RejectFinger(t, Updated(finger_data[t], snapshot[t]),
                  "kRejectMovedOffKey")
  /\ pending' = LET rest == RemainingEvents(pending, t)
                IN  IF finger_data[t].down_sent
                    THEN EnqueueEvent(rest,
                                      UpEvent(finger_data[t].event_code, t))
                    ELSE rest

TouchIgnored(t) ==
  /\ t \in DOMAIN finger_data
  /\ ~Unrejected(finger_data[t])
  /\ UNCHANGED code_vars

VisitTouch ==
  /\ pc = "touches"
  /\ \E t \in todo :
       /\ \/ TouchArrives(t)
          \/ TouchStays(t)
          \/ TouchMovesOff(t)
          \/ TouchIgnored(t)
       /\ todo' = todo \ {t}
  /\ UNCHANGED <<pc, now, sent_vars, pad_vars>>

TouchesDone ==
  /\ pc = "touches"
  /\ todo = {}
  /\ pc' = "leaving"
  /\ UNCHANGED <<now, todo, code_vars, sent_vars, pad_vars>>

-----------------------------------------------------------------------------
(***************************************************************************)
(* ProcessIncomingSnapshot, the loop over the fingers that left.           *)
(***************************************************************************)

\* The first event with the id of the finger is marked guaranteed.
Guarantee(q, t) ==
  IF EventsOf(q, t) = {} THEN q
  ELSE [q EXCEPT ![Min(EventsOf(q, t))].is_guaranteed = TRUE]

UpGuaranteed(q, t) ==
  EventsOf(q, t) # {} /\ ~q[Min(EventsOf(q, t))].is_down

\* Mistakes to tell apart: the release takes the code the key has now; a
\* release only follows a press that was sent; a finger lifted before its press
\* is due is dropped.
HandleLeavingFingerCodeNow(t) ==
  LET data == finger_data[t]
  IN  IF ~Unrejected(data) THEN UNCHANGED <<pending, fn_key_pressed>>
      ELSE /\ pending' = EnqueueEvent(Guarantee(pending, t),
                           UpEvent(CodeOf(data.starting_key_number), t))
           /\ fn_key_pressed' = (fn_key_pressed /\ data.event_code # KEY_FN)

HandleLeavingFingerSentOnly(t) ==
  LET data == finger_data[t]
  IN  IF ~Unrejected(data) \/ ~data.down_sent
      THEN pending' = Guarantee(pending, t) /\ UNCHANGED fn_key_pressed
      ELSE /\ pending' = EnqueueEvent(pending, UpEvent(data.event_code, t))
           /\ fn_key_pressed' = (fn_key_pressed /\ data.event_code # KEY_FN)

HandleLeavingFingerDropped(t) ==
  LET data == finger_data[t]
  IN  /\ pending' = IF data.down_sent /\ Unrejected(data)
                    THEN EnqueueEvent(pending, UpEvent(data.event_code, t))
                    ELSE RemainingEvents(pending, t)
      /\ fn_key_pressed' = (fn_key_pressed /\ data.event_code # KEY_FN)

HandleLeavingFinger(t) ==
  LET data == finger_data[t]
      marked == IF data.down_sent THEN pending ELSE Guarantee(pending, t)
  IN  IF \/ ~Unrejected(data)
         \/ ~data.down_sent /\ UpGuaranteed(pending, t)
      THEN /\ pending' = IF Unrejected(data) THEN marked ELSE pending
           /\ UNCHANGED fn_key_pressed
      ELSE /\ pending' = EnqueueEvent(marked, UpEvent(data.event_code, t))
           /\ fn_key_pressed' = (fn_key_pressed /\ data.event_code # KEY_FN)

FingerLeaves ==
  /\ pc = "leaving"
  /\ \E t \in DOMAIN finger_data \ DOMAIN snapshot :
       /\ t # OldTid
       /\ HandleLeavingFinger(t)
       /\ finger_data' = Without(finger_data, {t})
  /\ UNCHANGED <<pc, now, todo, sent_vars, pad_vars>>

LeavingDone ==
  /\ pc = "leaving"
  /\ DOMAIN finger_data \subseteq DOMAIN snapshot \cup {OldTid}
  /\ pc' = "drain"
  /\ UNCHANGED <<now, todo, code_vars, sent_vars, pad_vars>>

-----------------------------------------------------------------------------
(***************************************************************************)
(* The firing loop of Consume(), with the clock read before it.            *)
(***************************************************************************)
Ready(r) == IsFront(pending, r) /\ pending[r].deadline <= now

\* Why a finger whose event is due may not type, if it may not.
OutOfRange(data) ==
  LET space == EventCode[data.starting_key_number] = KEY_SPACE
  IN  IF data.max_pressure # -1
      THEN \/ data.max_pressure < kMinTapPressure
           \/ ~space /\ data.max_pressure > kMaxTapPressure
      ELSE \/ data.max_touch_major < kMinTapTouchDiameter
           \/ ~space /\ data.max_touch_major > kMaxTapTouchDiameter

FireRejected ==
  /\ pc = "drain"
  /\ \E r \in DOMAIN pending :
       LET t == pending[r].tid
       IN  /\ Ready(r)
           /\ t \in DOMAIN finger_data
           /\ OutOfRange(finger_data[t])
           /\ RejectFinger(t, finger_data[t],
                           IF finger_data[t].max_pressure # -1
                           THEN "kRejectPressure" ELSE "kRejectTouchDiameter")
           /\ pending' = RemainingEvents(Without(pending, {r}), t)
  /\ UNCHANGED <<pc, now, todo, sent_vars, pad_vars>>

\* SendEvent(EV_KEY, code, value): a uinput device drops an event that
\* changes nothing, so the kernel keeps a set of keys.
SendKey(ev) ==
  /\ keys_down' = IF ev.is_down THEN keys_down \cup {ev.code}
                                ELSE keys_down \ {ev.code}
  /\ strokes' = [strokes EXCEPT ![ev.contact] =
                   Append(@, Stroke(ev.code, ev.is_down))]

FireSend ==
  /\ pc = "drain"
  /\ \E r \in DOMAIN pending :
       LET ev == pending[r]
           live == ev.tid \in DOMAIN finger_data
       IN  /\ Ready(r)
           /\ live => ~OutOfRange(finger_data[ev.tid])
           /\ SendKey(ev)
           /\ pending' = Without(pending, {r})
           /\ finger_data' = IF live /\ ev.is_down
                             THEN [finger_data EXCEPT ![ev.tid].down_sent = TRUE]
                             ELSE finger_data
  /\ needs_syn' = TRUE
  /\ UNCHANGED <<pc, now, todo, fn_key_pressed, reported, pad_vars>>

\* Nothing is due: the SYN_REPORT, and the next pass clears needs_syn.
DrainDone ==
  /\ pc = "drain"
  /\ ~\E r \in DOMAIN pending : Ready(r)
  /\ reported' = IF needs_syn THEN keys_down ELSE reported
  /\ needs_syn' = FALSE
  /\ pc' = "wait"
  /\ UNCHANGED <<now, todo, code_vars, keys_down, strokes, pad_vars>>

-----------------------------------------------------------------------------
Handler ==
  VisitTouch \/ TouchesDone \/ FingerLeaves \/ LeavingDone
    \/ FireRejected \/ FireSend \/ DrainDone

Next == ReadSnapshot \/ PartialEvent \/ Timeout \/ Handler

(***************************************************************************)
(* The process is scheduled again, and select() returns once the front     *)
(* deadline is over.  Nothing makes the user touch or lift a finger.       *)
(***************************************************************************)
Fairness == WF_vars(Handler) /\ WF_vars(Timeout)

Spec == Init /\ [][Next]_vars
FairSpec == Spec /\ Fairness
=============================================================================
