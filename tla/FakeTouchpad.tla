---------------------------- MODULE FakeTouchpad ----------------------------
(***************************************************************************)
(* The touchpad worker: class FakeTouchpad, src/src/fake_touchpad.cc.  It  *)
(* decodes the touch screen through a reader of its own and, at every      *)
(* complete frame, copies the slots inside its region to a virtual device. *)
(* A frame is copied in one step: readers of the device act on SYN_REPORT. *)
(***************************************************************************)
EXTENDS TouchReader, Geometry

CONSTANTS
  region,   \* xmin_, xmax_, ymin_, ymax_ as [x1, x2, y1, y2]
  rotation  \* hardware_config_.rotation

ASSUME RegionAssumption ==
  /\ region \in [x1 : Nat, x2 : Nat, y1 : Nat, y2 : Nat]
  /\ region.x1 <= region.x2 /\ region.y1 <= region.y2
  /\ rotation \in Rotations

VARIABLES
  slot_memberships,  \* slot_memberships_
  device,            \* device[s]: the axes of slot s of the virtual device
  buttons            \* the BTN_ codes that are down on it

pad_vars == <<slot_memberships, device, buttons>>
vars == <<kernel_vars, decoder_vars, reader_vars, pad_vars>>

Init ==
  /\ ReaderInit
  /\ slot_memberships = [s \in SlotIndices |-> FALSE]
  /\ device = [s \in SlotIndices |->
                 [a \in Axes |-> IF a = "ABS_MT_TRACKING_ID" THEN -1 ELSE 0]]
  /\ buttons = {}

-----------------------------------------------------------------------------
\* Axes nobody has sent read -1, which is outside the region.
InRegion(slot) ==
  PadContains(region, FindValueByEvent(slot, "ABS_MT_POSITION_X"),
                   FindValueByEvent(slot, "ABS_MT_POSITION_Y"))

\* A mistake to tell apart: the coordinates of the sensor are passed on.
PassEventsThroughMutant(slot, old) ==
  [a \in Axes |-> IF a \in DOMAIN slot THEN slot[a] ELSE old[a]]

\* A slot of the device after the events of PassEventsThrough(): only axes the
\* source has sent are sent.
PassEventsThrough(slot, old) ==
  [a \in Axes |->
     IF \E b \in DOMAIN slot : PadAxis(rotation, b) = a
     THEN LET b == CHOOSE c \in DOMAIN slot : PadAxis(rotation, c) = a
          IN  PadValue(rotation, region, b, slot[b])
     ELSE old[a]]

WithTid(old, tid) == [old EXCEPT !["ABS_MT_TRACKING_ID"] = tid]

\* Mistakes to tell apart: a contact that leaves the region is not lifted; one
\* that is lifted inside it still counts.
SyncSlotMutant(slot, member, old) ==
  IF InRegion(slot) THEN PassEventsThrough(slot, old) ELSE old
IsCountedMutant(slot) == InRegion(slot)

\* A contact that leaves the region is lifted, one that enters it lands.
SyncSlot(slot, member, old) ==
  IF ~InRegion(slot)
  THEN IF member THEN WithTid(old, -1) ELSE old
  ELSE PassEventsThrough(slot,
         IF member THEN old
         ELSE WithTid(old, FindValueByEvent(slot, "ABS_MT_TRACKING_ID")))

\* The slots whose contacts are on the touchpad.
IsCounted(slot) ==
  /\ InRegion(slot)
  /\ FindValueByEvent(slot, "ABS_MT_TRACKING_ID") # -1

TouchCount == Quantify(SlotIndices, LAMBDA s : IsCounted(slots[s]))

SendTouchpadBtnEvents(touch_count) ==
  {b \in {"BTN_TOUCH", "BTN_TOOL_FINGER", "BTN_TOOL_DOUBLETAP",
          "BTN_TOOL_TRIPLETAP", "BTN_TOOL_QUADTAP"} :
     CASE b = "BTN_TOUCH" -> touch_count > 0
       [] b = "BTN_TOOL_FINGER" -> touch_count = 1
       [] b = "BTN_TOOL_DOUBLETAP" -> touch_count = 2
       [] b = "BTN_TOOL_TRIPLETAP" -> touch_count = 3
       [] b = "BTN_TOOL_QUADTAP" -> touch_count = 4}

-----------------------------------------------------------------------------
TouchScreen == Touch /\ UNCHANGED pad_vars

ConsumePart ==
  /\ stream # <<>>
  /\ ReadPart(Head(stream))
  /\ UNCHANGED pad_vars

\* AddEvent(ev, nullptr) returned true: SyncTouchEvents, the buttons, SYN.
ConsumeReport ==
  /\ stream # <<>>
  /\ ReadReport(Head(stream), FALSE)
  /\ device' = [s \in SlotIndices |->
                  SyncSlot(slots[s], slot_memberships[s], device[s])]
  /\ slot_memberships' = [s \in SlotIndices |-> InRegion(slots[s])]
  /\ buttons' = SendTouchpadBtnEvents(TouchCount)

Next == TouchScreen \/ ConsumePart \/ ConsumeReport

Spec == Init /\ [][Next]_vars
-----------------------------------------------------------------------------
Active(s) == device[s]["ABS_MT_TRACKING_ID"] # -1
PointOnPad(s) ==
  <<device[s]["ABS_MT_POSITION_X"], device[s]["ABS_MT_POSITION_Y"]>>

\* The type invariant: the axes of the device stay in the ranges Run() has
\* announced for it.
TypeOK ==
  /\ slot_memberships \in [SlotIndices -> BOOLEAN]
  /\ DOMAIN device = SlotIndices
  /\ \A s \in SlotIndices :
       /\ DOMAIN device[s] = Axes
       /\ device[s]["ABS_MT_TRACKING_ID"] \in -1 .. MaxTid
       /\ device[s]["ABS_MT_POSITION_X"] \in 0 .. PadWidth(rotation, region)
       /\ device[s]["ABS_MT_POSITION_Y"] \in 0 .. PadHeight(rotation, region)
  /\ buttons \subseteq {"BTN_TOUCH", "BTN_TOOL_FINGER", "BTN_TOOL_DOUBLETAP",
                        "BTN_TOOL_TRIPLETAP", "BTN_TOOL_QUADTAP"}

\* The contacts on the glass inside the region as the last frame had them, in
\* the coordinates of the touchpad.
ContactsInRegion ==
  {[slot |-> s, tid |-> last_truth[s].tid,
    at |-> ToPad(rotation, region, last_truth[s].at[1], last_truth[s].at[2])] :
   s \in {d \in SlotIndices \cap DeviceSlots :
            /\ last_truth[d].tid # -1
            /\ PadContains(region, last_truth[d].at[1], last_truth[d].at[2])}}

ContactsOnPad ==
  {[slot |-> s, tid |-> device[s]["ABS_MT_TRACKING_ID"], at |-> PointOnPad(s)] :
   s \in {d \in SlotIndices : Active(d)}}

\* "The illusion of a normal touchpad" (fake_touchpad.h:30): as long as no event
\* was lost, the virtual device has the contacts that are inside the region, at
\* their places, whether they landed there, slid in or out or were lifted.
TouchpadIsTheRegion == ~lost => ContactsOnPad = ContactsInRegion

\* The buttons are those "based on the number of fingers currently being
\* reported by the fake touchpad" (fake_touchpad.cc:173).
ButtonsMatchContacts ==
  buttons = SendTouchpadBtnEvents(
              Quantify(SlotIndices, LAMBDA s : Active(s)))

\* The same, as long as no event was lost.
ButtonsMatchUnlessLost == ~lost => ButtonsMatchContacts

\* After events were lost, a decoder that resumed in the slot of the device puts
\* no contact on the touchpad where nobody touches the region, and each one that
\* it shows where it is.
NoPhantomInStep ==
  [][ReadReport(Head(stream), FALSE) /\ in_step =>
       \A s \in SlotIndices :
         Active(s)' => \E c \in ContactsInRegion' :
                         c.slot = s /\ c.at = PointOnPad(s)']_vars
=============================================================================
