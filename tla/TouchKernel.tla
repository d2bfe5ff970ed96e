---------------------------- MODULE TouchKernel -----------------------------
(***************************************************************************)
(* The kernel's side of the touch screen as the workers see it: the        *)
(* multitouch slots of the device, and the evdev buffer one reader has.    *)
(* External to the repository, modelled from what the code reads           *)
(* (GetNextEvent, MtStateMachine::AddEvent): protocol B sends only what    *)
(* changed, ABS_MT_SLOT only when the slot changes, and a full buffer is   *)
(* replaced by SYN_DROPPED and the newest event.  A frame may change       *)
(* several slots.                                                          *)
(***************************************************************************)
EXTENDS Integers, Sequences

CONSTANTS
  DeviceSlots,  \* the slots the device has, some beyond kNumSlots
  Points,       \* the points of the glass, pairs of coordinates
  MaxTid,       \* bound: tracking ids 1..MaxTid are handed out
  MaxBacklog,   \* bound: no frame while more events than this are unread
  BufSize,      \* capacity of the reader's buffer
  StartPoints,  \* where the slots were last used when the worker opens the
                \* device: <<0, 0>> for a new one
  StartSlots    \* the slot the device was in then: 0 for a new one

ASSUME KernelAssumption ==
  /\ DeviceSlots \subseteq Nat
  /\ Points \subseteq Nat \X Nat
  /\ StartPoints \subseteq Nat \X Nat
  /\ StartSlots \subseteq DeviceSlots
  /\ MaxTid \in Nat /\ MaxBacklog \in Nat
  /\ BufSize \in Nat \ 0 .. 2

VARIABLES
  hw,        \* hw[s]: tracking id (-1: none) and point of device slot s
  hw_slot,   \* the slot the last event sent was about
  next_tid,  \* the next tracking id
  stream,    \* the unread events
  changed    \* the slots the frame being sent is about

kernel_vars == <<hw, hw_slot, next_tid, stream, changed>>

\* truth is history: the contacts at the time of a SYN_REPORT.  The reader
\* does not see it.
AbsEvent(axis, v) == [type |-> axis, value |-> v]
Report(truth, slot) == [type |-> "SYN_REPORT", truth |-> truth, slot |-> slot]
Dropped       == [type |-> "SYN_DROPPED"]

KernelInit ==
  /\ hw \in [DeviceSlots -> [tid : {-1}, at : StartPoints]]
  /\ hw_slot \in StartSlots
  /\ next_tid = 1
  /\ stream = <<>>
  /\ changed = {}

Push(q, ev) == IF Len(q) + 1 = BufSize THEN <<Dropped, ev>> ELSE Append(q, ev)

PushChange(q, axis, old, new) ==
  IF old = new THEN q ELSE Push(q, AbsEvent(axis, new))

\* The events about slot s when it takes the values of `new`.
PushChanges(s, new) ==
  LET slot == PushChange(stream, "ABS_MT_SLOT", hw_slot, s)
      tid  == PushChange(slot, "ABS_MT_TRACKING_ID", hw[s].tid, new.tid)
      x    == PushChange(tid, "ABS_MT_POSITION_X", hw[s].at[1], new.at[1])
  IN  PushChange(x, "ABS_MT_POSITION_Y", hw[s].at[2], new.at[2])

\* A frame is sent slot by slot, each at most once: the changes only.
SendSlot(s, new) ==
  /\ s \notin changed
  /\ new # hw[s]
  /\ changed = {} => Len(stream) <= MaxBacklog
  /\ hw' = [hw EXCEPT ![s] = new]
  /\ hw_slot' = s
  /\ stream' = PushChanges(s, new)
  /\ changed' = changed \cup {s}

Lands(s) ==
  /\ hw[s].tid = -1 /\ next_tid <= MaxTid
  /\ \E p \in Points : SendSlot(s, [tid |-> next_tid, at |-> p])
  /\ next_tid' = next_tid + 1

Moves(s) ==
  /\ hw[s].tid # -1
  /\ \E p \in Points : SendSlot(s, [hw[s] EXCEPT !.at = p])
  /\ UNCHANGED next_tid

Lifts(s) ==
  /\ hw[s].tid # -1
  /\ SendSlot(s, [hw[s] EXCEPT !.tid = -1])
  /\ UNCHANGED next_tid

\* A SYN_REPORT ends it.  The reader sees a frame when all of it is there.
SendReport ==
  /\ changed # {}
  /\ stream' = Push(stream, Report(hw, hw_slot))
  /\ changed' = {}
  /\ UNCHANGED <<hw, hw_slot, next_tid>>

Frame == (\E s \in DeviceSlots : Lands(s) \/ Moves(s) \/ Lifts(s)) \/ SendReport
=============================================================================
