--------------------------- MODULE MtStateMachine ---------------------------
(***************************************************************************)
(* The frame decoder both workers use: class MtStateMachine,               *)
(* src/src/multitouch/state_machine.cc.  One action per branch of          *)
(* AddEvent().  The two coordinates stand for every axis but the tracking  *)
(* id; a slot keeps the axes it has been sent, and an axis it has not been *)
(* sent reads -1.                                                          *)
(***************************************************************************)
EXTENDS Integers, Sequences, FiniteSetsExt, Functions

CONSTANT kNumSlots
ASSUME SlotsAssumption == kNumSlots \in Nat \ {0}

VARIABLES
  slots,            \* slots_, partial functions from axes to values
  current_slot,     \* current_slot_, -1 for a slot that is not stored
  dropping_events,  \* dropping_events_
  snapshot          \* the last snapshot handed out: tracking id -> point

decoder_vars == <<slots, current_slot, dropping_events, snapshot>>

Axes == {"ABS_MT_TRACKING_ID", "ABS_MT_POSITION_X", "ABS_MT_POSITION_Y"}
kSlotMissingValue == -1
SlotIndices == 0 .. kNumSlots - 1

FindValueByEvent(slot, axis) ==
  IF axis \in DOMAIN slot THEN slot[axis] ELSE kSlotMissingValue

TidOf(s) == FindValueByEvent(slots[s], "ABS_MT_TRACKING_ID")
PointOf(s) == <<FindValueByEvent(slots[s], "ABS_MT_POSITION_X"),
                FindValueByEvent(slots[s], "ABS_MT_POSITION_Y")>>

\* A mistake to tell apart: only the slot of the last event is reported.
FillSnapshotMutant ==
  [t \in {TidOf(s) : s \in SlotIndices \cap {current_slot}} \ {-1} |->
     PointOf(current_slot)]

\* Of two slots with one id the later one wins.
FillSnapshot ==
  [t \in {TidOf(s) : s \in SlotIndices} \ {-1} |->
     PointOf(Max({s \in SlotIndices : TidOf(s) = t}))]

NoSlots == [s \in SlotIndices |-> <<>>]

DecoderInit ==
  /\ slots = NoSlots
  /\ current_slot = 0
  /\ dropping_events = FALSE
  /\ snapshot = <<>>

\* A mistake to tell apart: the slots keep what they had.
AddDroppedMutant(ev) ==
  /\ ev.type = "SYN_DROPPED"
  /\ current_slot' = 0
  /\ dropping_events' = TRUE
  /\ UNCHANGED <<slots, snapshot>>

\* SYN_DROPPED: Reset(), then swallow events.
AddDropped(ev) ==
  /\ ev.type = "SYN_DROPPED"
  /\ slots' = NoSlots
  /\ current_slot' = 0
  /\ dropping_events' = TRUE
  /\ UNCHANGED snapshot

AddWhileDropping(ev) ==
  /\ dropping_events
  /\ ev.type # "SYN_DROPPED"
  /\ dropping_events' = (ev.type # "SYN_REPORT")
  /\ UNCHANGED <<slots, current_slot, snapshot>>

\* Mistakes to tell apart: no bound on the slot; a slot that is not stored
\* leaves the old one current.
AddSlotUnchecked(ev) ==
  /\ ~dropping_events
  /\ ev.type = "ABS_MT_SLOT"
  /\ current_slot' = ev.value
  /\ UNCHANGED <<slots, dropping_events, snapshot>>

AddSlotKeepsOld(ev) ==
  /\ ~dropping_events
  /\ ev.type = "ABS_MT_SLOT"
  /\ current_slot' = IF ev.value \in SlotIndices THEN ev.value ELSE current_slot
  /\ UNCHANGED <<slots, dropping_events, snapshot>>

AddSlot(ev) ==
  /\ ~dropping_events
  /\ ev.type = "ABS_MT_SLOT"
  /\ current_slot' = IF ev.value \in SlotIndices THEN ev.value ELSE -1
  /\ UNCHANGED <<slots, dropping_events, snapshot>>

\* A frame is complete: true is returned, and the snapshot is filled if the
\* caller wants one.
AddReport(ev, wants_snapshot) ==
  /\ ~dropping_events
  /\ ev.type = "SYN_REPORT"
  /\ snapshot' = IF wants_snapshot THEN FillSnapshot ELSE snapshot
  /\ UNCHANGED <<slots, current_slot, dropping_events>>

AddAxis(ev) ==
  /\ ~dropping_events
  /\ ev.type \in Axes
  /\ slots' = IF current_slot = -1 THEN slots
              ELSE [slots EXCEPT ![current_slot] =
                      [a \in DOMAIN @ \cup {ev.type} |->
                         IF a = ev.type THEN ev.value ELSE @[a]]]
  /\ UNCHANGED <<current_slot, dropping_events, snapshot>>

\* The branches that return false.
AddPart(ev) ==
  AddDropped(ev) \/ AddWhileDropping(ev) \/ AddSlot(ev) \/ AddAxis(ev)
=============================================================================
