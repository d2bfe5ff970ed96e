--------------------------- MODULE TouchpadProofs ---------------------------
(***************************************************************************)
(* What the virtual touchpad shows, for every region, rotation, number of  *)
(* slots, contacts and events, with and without lost events.               *)
(***************************************************************************)
EXTENDS FakeTouchpad, ReaderProofs, FiniteSetTheorems

\* A slot of the virtual device.
PadSlots ==
  {f \in [Axes -> Int] :
     /\ f[TID] \in TrackingIds
     /\ f[X] \in 0 .. PadWidth(rotation, region)
     /\ f[Y] \in 0 .. PadHeight(rotation, region)}

\* A slot that is not in the region has no contact on the virtual device.
PadFits ==
  /\ slot_memberships \in [SlotIndices -> BOOLEAN]
  /\ device \in [SlotIndices -> PadSlots]
  /\ \A s \in SlotIndices : ~slot_memberships[s] => ~Active(s)

PadInv ==
  /\ ReaderInv
  /\ PadFits
  /\ buttons \subseteq {"BTN_TOUCH", "BTN_TOOL_FINGER", "BTN_TOOL_DOUBLETAP",
                        "BTN_TOOL_TRIPLETAP", "BTN_TOOL_QUADTAP"}
  /\ NewDevice => TouchpadIsTheRegion
  /\ NewDevice => ButtonsMatchUnlessLost

-----------------------------------------------------------------------------
LEMMA RegionFacts ==
  /\ region.x1 \in Nat /\ region.x2 \in Nat
  /\ region.y1 \in Nat /\ region.y2 \in Nat
  /\ region.x1 <= region.x2 /\ region.y1 <= region.y2
  /\ rotation \in {0, 90, 180, 270}
BY RegionAssumption DEF Rotations

\* The two coordinates change places or keep them.
LEMMA AxisFrom ==
  ASSUME NEW a \in Axes
  PROVE  /\ PadAxis(rotation, a) \in Axes
         /\ \A b \in Axes : PadAxis(rotation, b) = a <=> b = PadAxis(rotation, a)
         /\ a = TID <=> PadAxis(rotation, a) = TID
BY RegionFacts DEF PadAxis, Axes, TID

LEMMA PassedAxis ==
  ASSUME NEW slot, DOMAIN slot \subseteq Axes, NEW old, NEW a \in Axes
  PROVE  PassEventsThrough(slot, old)[a] =
           IF PadAxis(rotation, a) \in DOMAIN slot
           THEN PadValue(rotation, region, PadAxis(rotation, a),
                         slot[PadAxis(rotation, a)])
           ELSE old[a]
<1> DEFINE from == PadAxis(rotation, a)
<1>1. /\ from \in Axes
      /\ \A b \in DOMAIN slot : PadAxis(rotation, b) = a <=> b = from
  BY AxisFrom
<1> HIDE DEF from
<1>2. CASE from \in DOMAIN slot
  <2>1. (CHOOSE c \in DOMAIN slot : PadAxis(rotation, c) = a) = from
    BY <1>1, <1>2
  <2>2. \E b \in DOMAIN slot : PadAxis(rotation, b) = a
    BY <1>1, <1>2
  <2> QED BY <1>2, <2>1, <2>2 DEF PassEventsThrough, from
<1>3. CASE from \notin DOMAIN slot
  <2>1. ~ \E b \in DOMAIN slot : PadAxis(rotation, b) = a
    BY <1>1, <1>3
  <2> QED BY <1>3, <2>1 DEF PassEventsThrough, from
<1> QED BY <1>2, <1>3

\* Coordinates nobody has sent are not in the region.
LEMMA InRegionKnown ==
  ASSUME NEW slot, InRegion(slot)
  PROVE  /\ X \in DOMAIN slot /\ Y \in DOMAIN slot
         /\ PadContains(region, slot[X], slot[Y])
<1>1. PadContains(region, FindValueByEvent(slot, X), FindValueByEvent(slot, Y))
  BY DEF InRegion, X, Y
<1>2. ~(region.x1 <= -1) /\ ~(region.y1 <= -1)
  BY RegionFacts
<1> QED BY <1>1, <1>2 DEF PadContains, FindValueByEvent, kSlotMissingValue

\* A slot in the region is shown where it is, with the id it was sent.
LEMMA SlotShown ==
  ASSUME NEW slot, DOMAIN slot \subseteq Axes, InRegion(slot),
         NEW old \in [Axes -> Int], NEW member \in BOOLEAN
  PROVE  LET new == SyncSlot(slot, member, old) IN
         /\ <<new[X], new[Y]>> = ToPad(rotation, region, slot[X], slot[Y])
         /\ new[TID] = IF TID \in DOMAIN slot THEN slot[TID]
                       ELSE IF member THEN old[TID] ELSE -1
         /\ DOMAIN new = Axes
<1> DEFINE base == IF member THEN old
                   ELSE WithTid(old, FindValueByEvent(slot, TID))
           new  == SyncSlot(slot, member, old)
<1>1. new = PassEventsThrough(slot, base)
  BY DEF SyncSlot, TID
<1>2. X \in DOMAIN slot /\ Y \in DOMAIN slot
  BY InRegionKnown
<1>3. TID \in Axes /\ X \in Axes /\ Y \in Axes
  BY DEF Axes, TID, X, Y
<1>4. base[TID] = IF member THEN old[TID]
                  ELSE IF TID \in DOMAIN slot THEN slot[TID] ELSE -1
  BY <1>3 DEF WithTid, FindValueByEvent, kSlotMissingValue, TID
<1> HIDE DEF base
<1>5. new[TID] = IF TID \in DOMAIN slot THEN slot[TID] ELSE base[TID]
  <2>1. PadAxis(rotation, TID) = TID
    BY <1>3, AxisFrom
  <2>2. \A v : PadValue(rotation, region, TID, v) = v
    BY DEF PadValue, TID
  <2> QED BY <1>1, <1>3, <2>1, <2>2, PassedAxis
<1>6. <<new[X], new[Y]>> = ToPad(rotation, region, slot[X], slot[Y])
  <2>1. PadAxis(rotation, X) \in {X, Y} /\ PadAxis(rotation, Y) \in {X, Y}
    BY DEF PadAxis, X, Y
  <2>2. /\ new[X] = PadValue(rotation, region, PadAxis(rotation, X),
                             slot[PadAxis(rotation, X)])
        /\ new[Y] = PadValue(rotation, region, PadAxis(rotation, Y),
                             slot[PadAxis(rotation, Y)])
    BY <1>1, <1>2, <1>3, <2>1, PassedAxis
  <2>3. \/ PadAxis(rotation, X) = X /\ PadAxis(rotation, Y) = Y
        \/ PadAxis(rotation, X) = Y /\ PadAxis(rotation, Y) = X
    BY DEF PadAxis, X, Y
  <2>4. X # Y
    BY DEF X, Y
  <2> QED BY <2>2, <2>3, <2>4 DEF ToPad, X, Y
<1>7. DOMAIN new = Axes
  BY <1>1 DEF PassEventsThrough
<1> QED BY <1>4, <1>5, <1>6, <1>7

LEMMA PadPointInRange ==
  ASSUME NEW x \in Int, NEW y \in Int, PadContains(region, x, y)
  PROVE  /\ ToPad(rotation, region, x, y)[1] \in 0 .. PadWidth(rotation, region)
         /\ ToPad(rotation, region, x, y)[2] \in 0 .. PadHeight(rotation, region)
<1> DEFINE dx == x - region.x1
           dy == y - region.y1
           w  == region.x2 - region.x1
           h  == region.y2 - region.y1
<1>1. /\ dx \in 0 .. w /\ w - dx \in 0 .. w
      /\ dy \in 0 .. h /\ h - dy \in 0 .. h
  BY RegionFacts DEF PadContains
<1>2. /\ PadWidth(rotation, region) = IF rotation \in {0, 180} THEN w ELSE h
      /\ PadHeight(rotation, region) = IF rotation \in {0, 180} THEN h ELSE w
  BY DEF PadWidth, PadHeight
<1>3. ToPad(rotation, region, x, y) =
        CASE rotation = 0   -> <<dx, dy>>
          [] rotation = 90  -> <<h - dy, dx>>
          [] rotation = 180 -> <<w - dx, h - dy>>
          [] rotation = 270 -> <<dy, w - dx>>
  BY RegionFacts DEF ToPad, PadValue, PadAxis
<1> HIDE DEF dx, dy, w, h
<1> QED BY <1>1, <1>2, <1>3, RegionFacts

-----------------------------------------------------------------------------
LEMMA SyncFits ==
  ASSUME DecoderFits, NEW s \in SlotIndices, NEW old \in PadSlots,
         NEW member \in BOOLEAN, ~member => old[TID] = -1
  PROVE  /\ SyncSlot(slots[s], member, old) \in PadSlots
         /\ ~InRegion(slots[s]) => SyncSlot(slots[s], member, old)[TID] = -1
<1> DEFINE new == SyncSlot(slots[s], member, old)
<1>1. /\ Axes = {TID, X, Y} /\ TID # X /\ TID # Y /\ X # Y
      /\ -1 \in TrackingIds
  BY KernelAssumption DEF Axes, TID, X, Y, TrackingIds
<1>2. /\ old \in [Axes -> Int] /\ old[TID] \in TrackingIds
      /\ old[X] \in 0 .. PadWidth(rotation, region)
      /\ old[Y] \in 0 .. PadHeight(rotation, region)
  BY DEF PadSlots
<1>3. CASE ~InRegion(slots[s])
  <2>1. new = IF member THEN [old EXCEPT ![TID] = -1] ELSE old
    BY <1>3 DEF SyncSlot, WithTid, TID
  <2> QED BY <1>1, <1>2, <1>3, <2>1 DEF PadSlots
<1>4. CASE InRegion(slots[s])
  <2>1. /\ DOMAIN slots[s] \subseteq Axes
        /\ \A a \in DOMAIN slots[s] : slots[s][a] \in Values(a)
    BY DEF DecoderFits
  <2>2. /\ X \in DOMAIN slots[s] /\ Y \in DOMAIN slots[s]
        /\ slots[s][X] \in Int /\ slots[s][Y] \in Int
        /\ PadContains(region, slots[s][X], slots[s][Y])
    BY <1>1, <1>4, <2>1, InRegionKnown, SentValues DEF Values, TID, X, Y
  <2>3. /\ <<new[X], new[Y]>> = ToPad(rotation, region, slots[s][X], slots[s][Y])
        /\ new[TID] = IF TID \in DOMAIN slots[s] THEN slots[s][TID]
                      ELSE IF member THEN old[TID] ELSE -1
    BY <1>2, <1>4, <2>1, SlotShown
  <2>4. /\ new[X] \in 0 .. PadWidth(rotation, region)
        /\ new[Y] \in 0 .. PadHeight(rotation, region)
    BY <2>2, <2>3, PadPointInRange
  <2>5. new[TID] \in TrackingIds
    BY <1>1, <1>2, <2>1, <2>3 DEF Values
  <2>6. new = [a \in Axes |-> new[a]]
    BY <1>4 DEF SyncSlot, PassEventsThrough
  <2>7. \A a \in Axes : new[a] \in Int
    <3> HIDE DEF new
    <3>1. TrackingIds \subseteq Int
      BY KernelAssumption DEF TrackingIds
    <3>2. /\ PadWidth(rotation, region) \in Int
          /\ PadHeight(rotation, region) \in Int
      BY RegionFacts DEF PadWidth, PadHeight
    <3>3. new[TID] \in Int
      BY <2>5, <3>1
    <3>4. new[X] \in Int
      BY <2>4, <3>2
    <3>5. new[Y] \in Int
      BY <2>4, <3>2
    <3> QED BY <1>1, <3>3, <3>4, <3>5
  <2> HIDE DEF new
  <2>8. new \in [Axes -> Int]
    BY <2>6, <2>7
  <2>9. new \in PadSlots
    BY <2>4, <2>5, <2>8 DEF PadSlots
  <2> QED BY <1>4, <2>9 DEF new
<1> QED BY <1>3, <1>4

\* A decoder that knows all that is not as on a new device has in the region the
\* contacts that are there.
LEMMA SlotsInRegion ==
  ASSUME NewDevice, DecoderFits, NEW d \in Devices, NEW truth \in Screens,
         d.axes = AxesOf(truth), Agrees(d), Covers(d), NEW s \in SlotIndices
  PROVE  /\ InRegion(slots[s]) =>
              /\ s \in DeviceSlots /\ TID \in DOMAIN slots[s]
              /\ slots[s][TID] = truth[s].tid
              /\ slots[s][X] = truth[s].at[1] /\ slots[s][Y] = truth[s].at[2]
              /\ PadContains(region, truth[s].at[1], truth[s].at[2])
         /\ s \in DeviceSlots /\ truth[s].tid # -1
              /\ PadContains(region, truth[s].at[1], truth[s].at[2])
              => InRegion(slots[s])
<1>1. TID \in Axes /\ X \in Axes /\ Y \in Axes /\ X # TID /\ Y # TID
  BY DEF Axes, TID, X, Y
<1>2. s \in DeviceSlots =>
        /\ d.axes[s][TID] = truth[s].tid
        /\ d.axes[s][X] = truth[s].at[1] /\ d.axes[s][Y] = truth[s].at[2]
  BY AxesOfSlot
<1>3. ASSUME InRegion(slots[s])
      PROVE  /\ s \in DeviceSlots /\ TID \in DOMAIN slots[s]
             /\ slots[s][TID] = truth[s].tid
             /\ slots[s][X] = truth[s].at[1] /\ slots[s][Y] = truth[s].at[2]
             /\ PadContains(region, truth[s].at[1], truth[s].at[2])
  <2>1. /\ X \in DOMAIN slots[s] /\ Y \in DOMAIN slots[s]
        /\ PadContains(region, slots[s][X], slots[s][Y])
    BY <1>3, InRegionKnown
  <2>2. /\ s \in DeviceSlots
        /\ slots[s][X] = truth[s].at[1] /\ slots[s][Y] = truth[s].at[2]
    BY <1>2, <2>1 DEF Agrees
  <2>3. TID \in DOMAIN slots[s]
    BY <1>1, <2>1, <2>2 DEF Agrees, Covers
  <2> QED BY <1>2, <2>1, <2>2, <2>3 DEF Agrees
<1>4. ASSUME s \in DeviceSlots, truth[s].tid # -1,
             PadContains(region, truth[s].at[1], truth[s].at[2])
      PROVE  InRegion(slots[s])
  <2>1. truth[s].at[1] # 0 /\ truth[s].at[2] # 0
    BY <1>4 DEF Screens, NewDevice
  <2>2. X \in DOMAIN slots[s] /\ Y \in DOMAIN slots[s]
    BY <1>1, <1>2, <1>4, <2>1 DEF Covers
  <2>3. slots[s][X] = truth[s].at[1] /\ slots[s][Y] = truth[s].at[2]
    BY <1>2, <2>2 DEF Agrees
  <2> QED BY <1>4, <2>2, <2>3 DEF InRegion, FindValueByEvent, X, Y
<1> QED BY <1>3, <1>4

LEMMA PadInit ==
  ASSUME Init
  PROVE  PadInv
<1>1. ReaderInv
  BY InitFits DEF Init
<1>2. \A s \in SlotIndices : /\ device[s] \in [Axes -> Int]
                             /\ device[s][TID] = -1
                             /\ device[s][X] = 0 /\ device[s][Y] = 0
  BY DEF Init, Axes, TID, X, Y
<1>3. device \in [SlotIndices -> PadSlots]
  <2>1. /\ PadWidth(rotation, region) \in Nat
        /\ PadHeight(rotation, region) \in Nat
    BY RegionFacts DEF PadWidth, PadHeight
  <2>2. -1 \in TrackingIds
    BY KernelAssumption DEF TrackingIds
  <2>3. \A s \in SlotIndices : device[s] \in PadSlots
    BY <1>2, <2>1, <2>2 DEF PadSlots
  <2>4. device = [s \in SlotIndices |-> device[s]]
    BY DEF Init
  <2> QED BY <2>3, <2>4
<1>4. \A s \in SlotIndices : ~Active(s)
  BY <1>2 DEF Active, TID
<1>5. slot_memberships \in [SlotIndices -> BOOLEAN]
  BY DEF Init
<1>6. ContactsOnPad = ContactsInRegion
  <2>1. ContactsOnPad = {}
    BY <1>4 DEF ContactsOnPad
  <2>2. \A s \in DeviceSlots : last_truth[s].tid = -1
    BY DEF Init, ReaderInit, KernelInit
  <2> QED BY <2>1, <2>2 DEF ContactsInRegion
<1>7. ButtonsMatchContacts
  <2>1. {s \in SlotIndices : Active(s)} = {}
    BY <1>4
  <2>2. Quantify(SlotIndices, LAMBDA s : Active(s)) = 0
    BY <2>1, FS_EmptySet DEF Quantify
  <2>3. buttons = {}
    BY DEF Init
  <2>4. SendTouchpadBtnEvents(0) = {}
    <3> SUFFICES ASSUME NEW b \in SendTouchpadBtnEvents(0) PROVE FALSE
      OBVIOUS
    <3>1. ~(0 > 0) /\ 0 # 1 /\ 0 # 2 /\ 0 # 3 /\ 0 # 4
      OBVIOUS
    <3>2. CASE b = "BTN_TOUCH"
      BY <3>1, <3>2 DEF SendTouchpadBtnEvents
    <3>3. CASE b = "BTN_TOOL_FINGER"
      BY <3>1, <3>3 DEF SendTouchpadBtnEvents
    <3>4. CASE b \in {"BTN_TOOL_DOUBLETAP", "BTN_TOOL_TRIPLETAP", "BTN_TOOL_QUADTAP"}
      BY <3>1, <3>4 DEF SendTouchpadBtnEvents
    <3> QED BY <3>2, <3>3, <3>4 DEF SendTouchpadBtnEvents
  <2>5. ButtonsMatchContacts <=>
          {} = SendTouchpadBtnEvents(Quantify(SlotIndices, LAMBDA s : Active(s)))
    BY <2>3 DEF ButtonsMatchContacts
  <2> QED BY <2>2, <2>4, <2>5
<1> QED BY <1>1, <1>3, <1>4, <1>5, <1>6, <1>7
        DEF Init, PadInv, PadFits, TouchpadIsTheRegion, ButtonsMatchUnlessLost

LEMMA PadKept ==
  ASSUME PadInv, ReaderInv', UNCHANGED pad_vars, UNCHANGED last_truth,
         ~lost' => ~lost
  PROVE  PadInv'
<1>1. PadFits'
  BY DEF PadInv, PadFits, pad_vars, Active
<1>2. TouchpadIsTheRegion => TouchpadIsTheRegion'
  BY DEF TouchpadIsTheRegion, ContactsOnPad, ContactsInRegion, pad_vars, Active,
         PointOnPad
<1>3. ButtonsMatchUnlessLost => ButtonsMatchUnlessLost'
  <2>1. ButtonsMatchContacts' <=> ButtonsMatchContacts
    <3>1. {s \in SlotIndices : Active(s)}' = {s \in SlotIndices : Active(s)}
      BY DEF pad_vars, Active
    <3>2. Quantify(SlotIndices, LAMBDA s : Active(s))' =
            Quantify(SlotIndices, LAMBDA s : Active(s))
      BY <3>1 DEF Quantify
    <3> QED BY <3>2 DEF ButtonsMatchContacts, pad_vars
  <2> QED BY <2>1 DEF ButtonsMatchUnlessLost
<1> QED BY <1>1, <1>2, <1>3 DEF PadInv, pad_vars

\* A complete frame: the device gets the slots in the region.
LEMMA ReportFits ==
  ASSUME PadInv, ConsumeReport
  PROVE  PadInv'
<1> DEFINE New(s) == SyncSlot(slots[s], slot_memberships[s], device[s])
<1>1. /\ ReaderInv /\ DecoderFits /\ PadFits
      /\ stream # <<>> /\ ReadReport(Head(stream), FALSE)
      /\ device' = [s \in SlotIndices |-> New(s)]
      /\ slot_memberships' = [s \in SlotIndices |-> InRegion(slots[s])]
      /\ buttons' = SendTouchpadBtnEvents(TouchCount)
  BY DEF PadInv, ReaderInv, ConsumeReport
<1>2. /\ ReaderInv' /\ last_truth' \in Screens /\ slots' = slots /\ lost' = lost
      /\ \E d \in Devices : d.axes = AxesOf(last_truth') /\ Mirrors(d)
  BY <1>1, ReadReportFits
<1>3. ASSUME NEW s \in SlotIndices
      PROVE  /\ device'[s] = New(s) /\ New(s) \in PadSlots
             /\ ~InRegion(slots[s]) => New(s)[TID] = -1
             /\ slot_memberships[s] \in BOOLEAN /\ device[s] \in PadSlots
  <2>1. /\ slot_memberships[s] \in BOOLEAN /\ device[s] \in PadSlots
        /\ ~slot_memberships[s] => device[s][TID] = -1
    BY <1>1 DEF PadFits, Active, TID
  <2> QED BY <1>1, <2>1, SyncFits
<1>4. \A s \in SlotIndices : Active(s)' <=> New(s)[TID] # -1
  BY <1>3 DEF Active, TID
<1> HIDE DEF New
<1>5. PadFits'
  <2>1. device' \in [SlotIndices -> PadSlots]
    BY <1>1, <1>3
  <2>2. slot_memberships' \in [SlotIndices -> BOOLEAN]
    <3>1. \A s \in SlotIndices : InRegion(slots[s]) \in BOOLEAN
      BY Zenon DEF InRegion, PadContains
    <3> QED BY <1>1, <3>1
  <2>3. \A s \in SlotIndices : ~slot_memberships'[s] => ~Active(s)'
    BY <1>1, <1>3, <1>4
  <2> QED BY <2>1, <2>2, <2>3 DEF PadFits
<1>6. buttons' \subseteq {"BTN_TOUCH", "BTN_TOOL_FINGER", "BTN_TOOL_DOUBLETAP",
                          "BTN_TOOL_TRIPLETAP", "BTN_TOOL_QUADTAP"}
  BY <1>1 DEF SendTouchpadBtnEvents
<1>7. ASSUME NewDevice, ~lost
      PROVE  ContactsOnPad' = ContactsInRegion' /\ ButtonsMatchContacts'
  <2>1. PICK d \in Devices : d.axes = AxesOf(last_truth') /\ Agrees(d) /\ Covers(d)
    BY <1>2, <1>7 DEF Mirrors
  <2>2. ASSUME NEW s \in SlotIndices
        PROVE  /\ InRegion(slots[s]) =>
                    /\ s \in DeviceSlots /\ TID \in DOMAIN slots[s]
                    /\ slots[s][TID] = last_truth'[s].tid
                    /\ slots[s][X] = last_truth'[s].at[1]
                    /\ slots[s][Y] = last_truth'[s].at[2]
                    /\ PadContains(region, last_truth'[s].at[1], last_truth'[s].at[2])
               /\ s \in DeviceSlots /\ last_truth'[s].tid # -1
                    /\ PadContains(region, last_truth'[s].at[1], last_truth'[s].at[2])
                    => InRegion(slots[s])
    BY <1>1, <1>2, <1>7, <2>1, SlotsInRegion
  <2>3. ASSUME NEW s \in SlotIndices, InRegion(slots[s])
        PROVE  /\ New(s)[TID] = last_truth'[s].tid
               /\ PointOnPad(s)' = ToPad(rotation, region, last_truth'[s].at[1],
                                         last_truth'[s].at[2])
    <3>1. DOMAIN slots[s] \subseteq Axes /\ device[s] \in [Axes -> Int]
      BY <1>1, <1>3 DEF DecoderFits, PadSlots
    <3>2. /\ <<New(s)[X], New(s)[Y]>> =
               ToPad(rotation, region, slots[s][X], slots[s][Y])
          /\ TID \in DOMAIN slots[s] => New(s)[TID] = slots[s][TID]
      BY <1>3, <2>3, <3>1, SlotShown DEF New
    <3> QED BY <1>3, <2>2, <2>3, <3>2 DEF PointOnPad, X, Y
  <2>4. \A s \in SlotIndices :
          Active(s)' <=> /\ s \in DeviceSlots /\ last_truth'[s].tid # -1
                         /\ PadContains(region, last_truth'[s].at[1],
                                        last_truth'[s].at[2])
    BY <1>3, <1>4, <2>2, <2>3
  <2>5. ASSUME NEW s \in SlotIndices, Active(s)'
        PROVE  /\ device'[s]["ABS_MT_TRACKING_ID"] = last_truth'[s].tid
               /\ PointOnPad(s)' = ToPad(rotation, region, last_truth'[s].at[1],
                                         last_truth'[s].at[2])
    BY <1>3, <1>4, <2>2, <2>3, <2>4, <2>5 DEF TID
  <2>6. {s \in SlotIndices : Active(s)'} =
          {s \in SlotIndices \cap DeviceSlots :
             /\ last_truth'[s].tid # -1
             /\ PadContains(region, last_truth'[s].at[1], last_truth'[s].at[2])}
    BY <2>4
  <2>7. ContactsOnPad' = ContactsInRegion'
    BY <2>5, <2>6 DEF ContactsOnPad, ContactsInRegion
  <2>8. \A s \in SlotIndices : IsCounted(slots[s]) <=> Active(s)'
    BY <1>3, <1>4, <2>2, <2>3 DEF IsCounted, FindValueByEvent, TID
  <2>9. {s \in SlotIndices : IsCounted(slots[s])} = {s \in SlotIndices : Active(s)'}
    BY <2>8
  <2>10. ButtonsMatchContacts'
    BY <1>1, <2>9 DEF ButtonsMatchContacts, TouchCount, Quantify
  <2> QED BY <2>7, <2>10
<1> QED BY <1>2, <1>5, <1>6, <1>7
        DEF PadInv, TouchpadIsTheRegion, ButtonsMatchUnlessLost

\* What the unread events lead to, and what the virtual device shows.
THEOREM PadInvariant == Spec => []PadInv
<1>1. Init => PadInv
  BY PadInit
<1>2. PadInv /\ [Next]_vars => PadInv'
  <2> SUFFICES ASSUME PadInv, [Next]_vars PROVE PadInv'
    OBVIOUS
  <2>1. CASE UNCHANGED vars
    <3>1. ReaderInv'
      BY <2>1 DEF vars, kernel_vars, decoder_vars, reader_vars, PadInv,
         ReaderInv, KernelFits, DecoderFits, FlagsFit, LeadsTo, Mirrors, Agrees,
         Covers, DeviceNow, NoSlots
    <3> QED BY <2>1, <3>1, PadKept DEF vars, reader_vars
  <2>2. CASE TouchScreen
    <3>1. ReaderInv'
      BY <2>2, TouchFits DEF TouchScreen, PadInv
    <3> QED BY <2>2, <3>1, PadKept DEF TouchScreen, Touch, reader_vars
  <2>3. CASE ConsumePart
    <3>1. ReaderInv'
      BY <2>3, ReadPartFits DEF ConsumePart, PadInv
    <3>2. UNCHANGED pad_vars /\ UNCHANGED last_truth
      BY <2>3 DEF ConsumePart, ReadPart
    <3>3. ~lost' => ~lost
      BY <2>3, Zenon DEF ConsumePart, ReadPart, Read
    <3> QED BY <3>1, <3>2, <3>3, PadKept
  <2> QED BY <2>1, <2>2, <2>3, ReportFits DEF Next
<1> QED BY <1>1, <1>2, PTL DEF Spec

-----------------------------------------------------------------------------
\* Type correctness: the axes of the virtual device stay in the ranges it was
\* announced with, for every region and rotation.
THEOREM TypeCorrect == Spec => []TypeOK
<1>1. PadInv => TypeOK
  BY SentValues DEF PadInv, PadFits, PadSlots, TypeOK, TID, X, Y
<1> QED BY <1>1, PadInvariant, PTL

\* A worker that starts on a new device shows the contacts that are in the
\* region where they are, until events are lost.
THEOREM PadShowsTheRegion ==
  ASSUME NewDevice
  PROVE  Spec => []TouchpadIsTheRegion
<1>1. PadInv => TouchpadIsTheRegion
  BY NewDevice DEF PadInv
<1> QED BY <1>1, PadInvariant, PTL

\* Its buttons tell how many there are, until events are lost.
THEOREM ButtonsMatch ==
  ASSUME NewDevice
  PROVE  Spec => []ButtonsMatchUnlessLost
<1>1. PadInv => ButtonsMatchUnlessLost
  BY NewDevice DEF PadInv
<1> QED BY <1>1, PadInvariant, PTL

\* A decoder that resumed in the slot of the device, after whatever loss and on
\* a device used before, puts no contact on the touchpad that is not there.
THEOREM NoPhantoms == Spec => NoPhantomInStep
<1>1. PadInv /\ [Next]_vars =>
        (ReadReport(Head(stream), FALSE) /\ in_step =>
           \A s \in SlotIndices :
             Active(s)' => \E c \in ContactsInRegion' :
                             c.slot = s /\ c.at = PointOnPad(s)')
  <2> SUFFICES ASSUME PadInv, [Next]_vars, ReadReport(Head(stream), FALSE), in_step,
                      NEW s \in SlotIndices, Active(s)'
               PROVE  \E c \in ContactsInRegion' :
                        c.slot = s /\ c.at = PointOnPad(s)'
    OBVIOUS
  <2> DEFINE new == SyncSlot(slots[s], slot_memberships[s], device[s])
  <2>1. /\ ReaderInv /\ KernelFits /\ DecoderFits /\ PadFits
        /\ stream # <<>> /\ stream \in Seq(Events)
        /\ stream' = Tail(stream)
    BY DEF PadInv, ReaderInv, KernelFits, Queues, ReadReport, Read
  <2>2. ConsumeReport
    <3>1. ~TouchScreen
      <4> SUFFICES ASSUME Frame PROVE FALSE
        BY DEF TouchScreen, Touch
      <4>1. changed = {} /\ changed' = {}
        BY DEF ReadReport, Read
      <4>2. ~SendReport
        BY <4>1 DEF SendReport
      <4>3. PICK t \in DeviceSlots, v \in [tid : TrackingIds, at : GlassPoints] :
              Changes(t, v)
        BY <2>1, <4>2, FrameChanges
      <4>4. t \in changed'
        BY <4>3 DEF Changes, SendSlot
      <4> QED BY <4>1, <4>4
    <3>2. ~ConsumePart
      BY DEF ConsumePart, ReadPart, ReadReport, AddPart, AddReport, AddDropped,
             AddWhileDropping, AddSlot, AddAxis, Axes
    <3>3. stream' # stream
      BY <2>1
    <3> QED BY <3>1, <3>2, <3>3 DEF Next, vars, kernel_vars
  <2>3. PICK d \in Devices : d.axes = AxesOf(last_truth') /\ Agrees(d)
    <3>1. /\ ~dropping_events
          /\ \E e \in Devices : e.axes = AxesOf(last_truth') /\ Mirrors(e)
      BY <2>1, ReadReportFits
    <3> QED BY <3>1 DEF Mirrors
  <2>4. last_truth' \in Screens
    BY <2>1, ReadReportFits
  <2>5. /\ device[s] \in PadSlots /\ slot_memberships[s] \in BOOLEAN
        /\ ~slot_memberships[s] => device[s][TID] = -1
    BY <2>1 DEF PadFits, Active, TID
  <2>6. device'[s] = new
    BY <2>2 DEF ConsumeReport
  <2>7. InRegion(slots[s])
    BY <2>1, <2>5, <2>6, SyncFits DEF Active, TID
  <2>8. DOMAIN slots[s] \subseteq Axes /\ device[s] \in [Axes -> Int]
    BY <2>1, <2>5 DEF DecoderFits, PadSlots
  <2>9. /\ <<new[X], new[Y]>> = ToPad(rotation, region, slots[s][X], slots[s][Y])
        /\ TID \in DOMAIN slots[s] => new[TID] = slots[s][TID]
    BY <2>5, <2>7, <2>8, SlotShown
  <2> HIDE DEF new
  <2>10. /\ X \in DOMAIN slots[s] /\ Y \in DOMAIN slots[s]
         /\ PadContains(region, slots[s][X], slots[s][Y])
    BY <2>7, InRegionKnown
  <2>11. /\ s \in DeviceSlots
         /\ slots[s][X] = last_truth'[s].at[1] /\ slots[s][Y] = last_truth'[s].at[2]
    BY <2>3, <2>4, <2>10, AxesOfSlot DEF Agrees
  <2>12. last_truth'[s].tid # -1
    <3>1. d.axes[s][TID] = last_truth'[s].tid
      BY <2>3, <2>4, <2>11, AxesOfSlot
    <3>2. TID \in DOMAIN slots[s] => slots[s][TID] # -1
      BY <2>6, <2>9 DEF Active, TID
    <3> QED BY <2>3, <2>10, <3>1, <3>2 DEF Agrees
  <2>13. PointOnPad(s)' = ToPad(rotation, region, last_truth'[s].at[1],
                                last_truth'[s].at[2])
    BY <2>6, <2>9, <2>11 DEF PointOnPad, X, Y
  <2>14. s \in {t \in SlotIndices \cap DeviceSlots :
                 /\ last_truth'[t].tid # -1
                 /\ PadContains(region, last_truth'[t].at[1],
                                last_truth'[t].at[2])}
    BY <2>10, <2>11, <2>12
  <2> DEFINE c == [slot |-> s, tid |-> last_truth'[s].tid,
                   at |-> ToPad(rotation, region, last_truth'[s].at[1],
                                last_truth'[s].at[2])]
  <2>15. c \in ContactsInRegion'
    BY <2>14 DEF ContactsInRegion
  <2> QED BY <2>13, <2>15
<1> QED BY <1>1, PadInvariant, PTL DEF Spec, NoPhantomInStep
=============================================================================
