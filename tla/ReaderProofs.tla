---------------------------- MODULE ReaderProofs ----------------------------
(***************************************************************************)
(* What a worker knows of the touch screen, for every number of slots,     *)
(* contacts and events: the events that are not read yet lead from what    *)
(* the decoder holds to what is on the glass, unless some were dropped.    *)
(***************************************************************************)
EXTENDS TouchReader, TLAPS

TID == "ABS_MT_TRACKING_ID"
X   == "ABS_MT_POSITION_X"
Y   == "ABS_MT_POSITION_Y"

TrackingIds == {-1} \cup 1 .. MaxTid
GlassPoints == Points \cup StartPoints

\* What may be on the glass: a contact is at a point, and has an id of its own.
Screens ==
  {h \in [DeviceSlots -> [tid : TrackingIds, at : GlassPoints]] :
     \A s \in DeviceSlots : h[s].tid # -1 =>
       /\ h[s].at \in Points
       /\ \A t \in DeviceSlots \ {s} : h[t].tid # h[s].tid}

\* The first and the second coordinates the device may send.
Coordinate(i) == {p[i] : p \in GlassPoints}

Values(axis) == IF axis = TID THEN TrackingIds
                ELSE IF axis = X THEN Coordinate(1) ELSE Coordinate(2)

Events ==
  [type : {"ABS_MT_SLOT"}, value : DeviceSlots]
    \cup [type : {TID}, value : TrackingIds]
    \cup [type : {X}, value : Coordinate(1)]
    \cup [type : {Y}, value : Coordinate(2)]
    \cup [type : {"SYN_REPORT"}, truth : Screens, slot : DeviceSlots]
    \cup {Dropped}

DroppedFirst(q) == \A i \in 1 .. Len(q) : q[i].type = "SYN_DROPPED" => i = 1

Queues ==
  {q \in Seq(Events) : Len(q) < BufSize /\ DroppedFirst(q)}

\* The device between two events: the slot it is in, and the axes of each slot.
Devices == [slot : DeviceSlots, axes : [DeviceSlots -> [Axes -> Int]]]

AxesOf(screen) ==
  [s \in DeviceSlots |->
     [a \in Axes |-> IF a = TID THEN screen[s].tid
                     ELSE IF a = X THEN screen[s].at[1] ELSE screen[s].at[2]]]

DeviceNow == [slot |-> hw_slot, axes |-> AxesOf(hw)]

\* Event ev leads the device from d to e.
Leads(d, ev, e) ==
  CASE ev.type = "SYN_DROPPED" -> TRUE
    [] ev.type = "ABS_MT_SLOT" -> e.slot = ev.value /\ e.axes = d.axes
    [] ev.type = "SYN_REPORT"  -> e = d /\ d.slot = ev.slot
                                        /\ d.axes = AxesOf(ev.truth)
    [] OTHER -> /\ e.slot = d.slot
                /\ e.axes = [d.axes EXCEPT ![d.slot] =
                               [d.axes[d.slot] EXCEPT ![ev.type] = ev.value]]
                /\ ev.type # TID => d.axes[d.slot][TID] # -1

\* g tells the states of the device between the events of q.
Tells(g, q) ==
  /\ g \in [0 .. Len(q) -> Devices]
  /\ \A i \in 1 .. Len(q) : Leads(g[i - 1], q[i], g[i])

\* A touch screen nobody has used.
NewDevice ==
  /\ StartSlots = {0} /\ StartPoints = {<<0, 0>>}
  /\ \A p \in Points : p[1] # 0 /\ p[2] # 0

\* What the decoder holds is so on the device, and what it knows of a slot
\* without its id is about a contact.
Agrees(d) ==
  /\ current_slot = IF d.slot \in SlotIndices THEN d.slot ELSE -1
  /\ \A s \in SlotIndices : \A a \in DOMAIN slots[s] :
       /\ s \in DeviceSlots
       /\ slots[s][a] = d.axes[s][a]
       /\ TID \notin DOMAIN slots[s] => d.axes[s][TID] # -1

\* What it does not hold is as on a new device.
Covers(d) ==
  \A s \in SlotIndices \cap DeviceSlots : \A a \in Axes \ DOMAIN slots[s] :
    d.axes[s][a] = IF a = TID THEN -1 ELSE 0

Mirrors(d) ==
  /\ in_step /\ ~dropping_events => Agrees(d)
  /\ NewDevice /\ ~lost => Agrees(d) /\ Covers(d)

\* The queue leads from what the decoder holds to the device d.
LeadsTo(q, d) ==
  \E g : /\ Tells(g, q)
         /\ g[Len(q)] = d
         /\ (q # <<>> => q[1].type # "SYN_DROPPED") => Mirrors(g[0])

KernelFits ==
  /\ hw \in Screens /\ hw_slot \in DeviceSlots
  /\ next_tid \in 1 .. MaxTid + 1
  /\ \A s \in DeviceSlots : hw[s].tid < next_tid
  /\ stream \in Queues
  /\ changed \subseteq DeviceSlots
  /\ last_truth \in Screens

DecoderFits ==
  /\ slots = [s \in SlotIndices |-> slots[s]]
  /\ \A s \in SlotIndices :
       /\ DOMAIN slots[s] \subseteq Axes
       /\ \A a \in DOMAIN slots[s] : slots[s][a] \in Values(a)
  /\ current_slot \in {-1} \cup SlotIndices
  /\ dropping_events => lost /\ slots = NoSlots /\ current_slot = 0

FlagsFit ==
  dropping_events \in BOOLEAN /\ lost \in BOOLEAN /\ in_step \in BOOLEAN

ReaderInv ==
  /\ KernelFits
  /\ DecoderFits
  /\ FlagsFit
  /\ LeadsTo(stream, DeviceNow)

-----------------------------------------------------------------------------
LEMMA SentValues ==
  /\ TrackingIds \subseteq -1 .. MaxTid
  /\ Coordinate(1) \subseteq Nat /\ Coordinate(2) \subseteq Nat
BY KernelAssumption DEF TrackingIds, Coordinate, GlassPoints

LEMMA AxesAreInts ==
  ASSUME NEW screen \in Screens
  PROVE  AxesOf(screen) \in [DeviceSlots -> [Axes -> Int]]
<1>1. /\ DeviceSlots \subseteq Nat /\ MaxTid \in Nat
      /\ Points \subseteq Nat \X Nat /\ StartPoints \subseteq Nat \X Nat
  BY KernelAssumption
<1>2. ASSUME NEW s \in DeviceSlots
      PROVE  screen[s].tid \in Int /\ screen[s].at[1] \in Nat
                                   /\ screen[s].at[2] \in Nat
  <2>1. screen[s] \in [tid : TrackingIds, at : GlassPoints]
    BY DEF Screens
  <2> QED BY <1>1, <2>1 DEF TrackingIds, GlassPoints
<1> QED BY <1>2 DEF AxesOf

LEMMA AxesOfSlot ==
  ASSUME NEW screen \in Screens, NEW s \in DeviceSlots
  PROVE  /\ AxesOf(screen)[s][TID] = screen[s].tid
         /\ AxesOf(screen)[s][X] = screen[s].at[1]
         /\ AxesOf(screen)[s][Y] = screen[s].at[2]
BY DEF AxesOf, Axes, TID, X, Y

\* An event is added at the end, or takes the place of all others.
LEMMA PushLeads ==
  ASSUME NEW q \in Queues, NEW d \in Devices, LeadsTo(q, d),
         NEW ev \in Events, ev.type # "SYN_DROPPED",
         NEW e \in Devices, Leads(d, ev, e)
  PROVE  Push(q, ev) \in Queues /\ LeadsTo(Push(q, ev), e)
<1>1. PICK g : /\ Tells(g, q)
               /\ g[Len(q)] = d
               /\ (q # <<>> => q[1].type # "SYN_DROPPED") => Mirrors(g[0])
  BY DEF LeadsTo
<1>2. /\ q \in Seq(Events) /\ Len(q) \in Nat /\ Len(q) < BufSize
      /\ BufSize \in Nat \ 0 .. 2
  BY KernelAssumption DEF Queues
<1>3. CASE Len(q) + 1 = BufSize
  <2> DEFINE p == <<Dropped, ev>>
             h == [i \in 0 .. 2 |-> IF i = 2 THEN e ELSE d]
  <2>1. Push(q, ev) = p
    BY <1>3 DEF Push
  <2>2. /\ p \in Seq(Events) /\ Len(p) = 2 /\ p[1] = Dropped /\ p[2] = ev
    BY DEF Events
  <2>3. p \in Queues
    BY <1>2, <2>2 DEF Queues, DroppedFirst
  <2>4. Tells(h, p)
    <3>1. h \in [0 .. Len(p) -> Devices]
      BY <2>2
    <3>2. Leads(h[0], p[1], h[1])
      BY <2>2 DEF Leads, Dropped
    <3>3. Leads(h[1], p[2], h[2])
      BY <2>2
    <3> QED BY <2>2, <3>1, <3>2, <3>3 DEF Tells
  <2>5. h[Len(p)] = e /\ p # <<>> /\ p[1].type = "SYN_DROPPED"
    BY <2>2 DEF Dropped
  <2> HIDE DEF p, h
  <2>6. LeadsTo(p, e)
    BY <2>4, <2>5 DEF LeadsTo
  <2> QED BY <2>1, <2>3, <2>6
<1>4. CASE Len(q) + 1 # BufSize
  <2> DEFINE p == Append(q, ev)
             h == [i \in 0 .. Len(q) + 1 |-> IF i = Len(q) + 1 THEN e ELSE g[i]]
  <2>1. Push(q, ev) = p
    BY <1>4 DEF Push
  <2>2. /\ p \in Seq(Events) /\ Len(p) = Len(q) + 1 /\ p[Len(q) + 1] = ev
        /\ \A i \in 1 .. Len(q) : p[i] = q[i]
    BY <1>2
  <2>3. p \in Queues
    <3>1. ASSUME NEW i \in 1 .. Len(p), p[i].type = "SYN_DROPPED"
          PROVE  i = 1
      BY <1>2, <2>2, <3>1 DEF Queues, DroppedFirst
    <3>2. DroppedFirst(p)
      BY <3>1 DEF DroppedFirst
    <3>3. Len(p) < BufSize
      BY <1>2, <1>4, <2>2
    <3> QED BY <2>2, <3>2, <3>3 DEF Queues
  <2>4. Tells(h, p)
    <3>1. h \in [0 .. Len(p) -> Devices]
      BY <1>1, <1>2, <2>2 DEF Tells
    <3>2. ASSUME NEW i \in 1 .. Len(p) PROVE Leads(h[i - 1], p[i], h[i])
      <4>1. CASE i = Len(q) + 1
        <5>1. h[i] = e /\ h[i - 1] = d /\ p[i] = ev
          BY <1>1, <1>2, <2>2, <4>1
        <5> QED BY <5>1
      <4>2. CASE i # Len(q) + 1
        <5>1. /\ i \in 1 .. Len(q) /\ h[i] = g[i] /\ h[i - 1] = g[i - 1]
              /\ p[i] = q[i]
          BY <1>2, <2>2, <4>2
        <5> QED BY <1>1, <5>1 DEF Tells
      <4> QED BY <4>1, <4>2
    <3> QED BY <3>1, <3>2 DEF Tells
  <2>5. h[Len(p)] = e /\ h[0] = g[0]
    BY <1>2, <2>2
  <2>6. ASSUME p # <<>> => p[1].type # "SYN_DROPPED"
        PROVE  q # <<>> => q[1].type # "SYN_DROPPED"
    BY <1>2, <2>2, <2>6
  <2> HIDE DEF p, h
  <2>7. LeadsTo(p, e)
    BY <1>1, <2>4, <2>5, <2>6 DEF LeadsTo
  <2> QED BY <2>1, <2>3, <2>7
<1> QED BY <1>3, <1>4

\* A value that is pushed only when it changes.
LEMMA PushChangeLeads ==
  ASSUME NEW q \in Queues, NEW d \in Devices, LeadsTo(q, d),
         NEW axis \in {"ABS_MT_SLOT"} \cup Axes, NEW old, NEW new,
         NEW e \in Devices, old = new => e = d,
         old # new => AbsEvent(axis, new) \in Events
                        /\ Leads(d, AbsEvent(axis, new), e)
  PROVE  PushChange(q, axis, old, new) \in Queues
           /\ LeadsTo(PushChange(q, axis, old, new), e)
<1>1. CASE old = new
  BY <1>1 DEF PushChange
<1>2. CASE old # new
  <2>1. AbsEvent(axis, new).type # "SYN_DROPPED"
    BY DEF AbsEvent, Axes
  <2> QED BY <1>2, <2>1, PushLeads DEF PushChange
<1> QED BY <1>1, <1>2

LEMMA AxisKept ==
  ASSUME NEW d \in Devices, NEW a \in Axes, NEW v,
         d.axes[d.slot][a] = v
  PROVE  [slot |-> d.slot,
          axes |-> [d.axes EXCEPT ![d.slot] =
                      [d.axes[d.slot] EXCEPT ![a] = v]]] = d
<1>1. d.axes[d.slot] \in [Axes -> Int] /\ d.axes \in [DeviceSlots -> [Axes -> Int]]
  BY DEF Devices
<1>2. [d.axes[d.slot] EXCEPT ![a] = v] = d.axes[d.slot]
  BY <1>1
<1>3. [d.axes EXCEPT ![d.slot] = d.axes[d.slot]] = d.axes
  BY <1>1
<1> QED BY <1>2, <1>3 DEF Devices

\* A slot takes new values: the reader is told of each that changes.
LEMMA SlotLeads ==
  ASSUME KernelFits, LeadsTo(stream, DeviceNow), NEW s \in DeviceSlots,
         NEW new \in [tid : TrackingIds, at : GlassPoints],
         new.at # hw[s].at => new.tid # -1,
         SendSlot(s, new)
  PROVE  stream' \in Queues /\ LeadsTo(stream', DeviceNow')
<1> DEFINE Axis(d, a, v) == [slot |-> s, axes |-> [d.axes EXCEPT ![s] = [d.axes[s] EXCEPT ![a] = v]]]
           d1 == [slot |-> s, axes |-> AxesOf(hw)]
           d2 == Axis(d1, TID, new.tid)
           d3 == Axis(d2, X, new.at[1])
           d4 == Axis(d3, Y, new.at[2])
           q1 == PushChange(stream, "ABS_MT_SLOT", hw_slot, s)
           q2 == PushChange(q1, TID, hw[s].tid, new.tid)
           q3 == PushChange(q2, X, hw[s].at[1], new.at[1])
           q4 == PushChange(q3, Y, hw[s].at[2], new.at[2])
<1>1. /\ hw \in Screens /\ hw_slot \in DeviceSlots /\ stream \in Queues
      /\ hw' = [hw EXCEPT ![s] = new] /\ hw_slot' = s
      /\ stream' = q4
  BY DEF KernelFits, SendSlot, PushChanges, TID, X, Y
<1>2. /\ AxesOf(hw) \in [DeviceSlots -> [Axes -> Int]]
      /\ AxesOf(hw)[s][TID] = hw[s].tid
      /\ AxesOf(hw)[s][X] = hw[s].at[1]
      /\ AxesOf(hw)[s][Y] = hw[s].at[2]
  BY <1>1, AxesAreInts, AxesOfSlot
<1>3. /\ new.tid \in TrackingIds /\ new.tid \in Int
      /\ new.at[1] \in Nat /\ new.at[2] \in Nat /\ new.at = <<new.at[1], new.at[2]>>
      /\ hw[s].at = <<hw[s].at[1], hw[s].at[2]>>
      /\ new.at[1] \in Coordinate(1) /\ new.at[2] \in Coordinate(2)
  <2>1. hw[s] \in [tid : TrackingIds, at : GlassPoints]
    BY <1>1 DEF Screens
  <2>2. new.at[1] \in Coordinate(1) /\ new.at[2] \in Coordinate(2)
    BY DEF Coordinate
  <2> QED BY <2>1, <2>2, KernelAssumption DEF TrackingIds, GlassPoints
<1>4. /\ TID \in Axes /\ X \in Axes /\ Y \in Axes
      /\ TID # X /\ TID # Y /\ X # Y
  BY DEF Axes, TID, X, Y
<1>5. /\ DeviceNow \in Devices /\ d1 \in Devices /\ d2 \in Devices
      /\ d3 \in Devices /\ d4 \in Devices
  BY <1>1, <1>2, <1>3, <1>4 DEF Devices, DeviceNow
<1>6. /\ d1.axes[s][TID] = hw[s].tid /\ d2.axes[s][TID] = new.tid
      /\ d3.axes[s][TID] = new.tid
      /\ d2.axes[s][X] = hw[s].at[1] /\ d3.axes[s][Y] = hw[s].at[2]
  BY <1>2, <1>3, <1>4
<1>7. q1 \in Queues /\ LeadsTo(q1, d1)
  <2>1. hw_slot = s => d1 = DeviceNow
    BY DEF DeviceNow
  <2>2. AbsEvent("ABS_MT_SLOT", s) \in Events
    BY DEF AbsEvent, Events
  <2>3. Leads(DeviceNow, AbsEvent("ABS_MT_SLOT", s), d1)
    BY DEF Leads, AbsEvent, DeviceNow
  <2> QED BY <1>1, <1>5, <2>1, <2>2, <2>3, PushChangeLeads
<1>8. q2 \in Queues /\ LeadsTo(q2, d2)
  <2>1. hw[s].tid = new.tid => d2 = d1
    BY <1>2, <1>4, <1>5, AxisKept
  <2>2. AbsEvent(TID, new.tid) \in Events
    BY <1>3 DEF AbsEvent, Events
  <2>3. Leads(d1, AbsEvent(TID, new.tid), d2)
    BY DEF Leads, AbsEvent, TID
  <2> QED BY <1>4, <1>5, <1>7, <2>1, <2>2, <2>3, PushChangeLeads
<1>9. q3 \in Queues /\ LeadsTo(q3, d3)
  <2>1. hw[s].at[1] = new.at[1] => d3 = d2
    BY <1>4, <1>5, <1>6, AxisKept
  <2>2. AbsEvent(X, new.at[1]) \in Events
    BY <1>3 DEF AbsEvent, Events
  <2>3. hw[s].at[1] # new.at[1] => Leads(d2, AbsEvent(X, new.at[1]), d3)
    BY <1>6 DEF Leads, AbsEvent, X
  <2> QED BY <1>4, <1>5, <1>8, <2>1, <2>2, <2>3, PushChangeLeads
<1>10. q4 \in Queues /\ LeadsTo(q4, d4)
  <2>1. hw[s].at[2] = new.at[2] => d4 = d3
    BY <1>4, <1>5, <1>6, AxisKept
  <2>2. AbsEvent(Y, new.at[2]) \in Events
    BY <1>3 DEF AbsEvent, Events
  <2>3. hw[s].at[2] # new.at[2] => Leads(d3, AbsEvent(Y, new.at[2]), d4)
    BY <1>6 DEF Leads, AbsEvent, Y
  <2> QED BY <1>4, <1>5, <1>9, <2>1, <2>2, <2>3, PushChangeLeads
<1>11. d4 = DeviceNow'
  <2>1. ASSUME NEW t \in DeviceSlots \ {s}
        PROVE  d4.axes[t] = AxesOf(hw')[t]
    <3>1. hw'[t] = hw[t]
      BY <1>1 DEF Screens
    <3>2. d4.axes[t] = AxesOf(hw)[t]
      BY <1>2
    <3> QED BY <3>1, <3>2 DEF AxesOf
  <2>2. d4.axes[s] = AxesOf(hw')[s]
    <3>1. hw'[s] = new
      BY <1>1 DEF Screens
    <3>2. d4.axes[s] = [a \in Axes |-> IF a = TID THEN new.tid
                          ELSE IF a = X THEN new.at[1] ELSE new.at[2]]
      BY <1>2, <1>4 DEF Axes, TID, X, Y
    <3> QED BY <3>1, <3>2 DEF AxesOf
  <2>3. d4.axes = AxesOf(hw')
    <3>1. DOMAIN d4.axes = DeviceSlots /\ d4.axes = [t \in DeviceSlots |-> d4.axes[t]]
      BY <1>5 DEF Devices
    <3>2. AxesOf(hw') = [t \in DeviceSlots |-> AxesOf(hw')[t]]
      BY DEF AxesOf
    <3> HIDE DEF d4
    <3> QED BY <2>1, <2>2, <3>1, <3>2
  <2> QED BY <1>1, <2>3 DEF DeviceNow
<1> QED BY <1>1, <1>10, <1>11

\* A SYN_REPORT changes nothing: it says what there is.
LEMMA ReportLeads ==
  ASSUME KernelFits, LeadsTo(stream, DeviceNow), SendReport
  PROVE  stream' \in Queues /\ LeadsTo(stream', DeviceNow')
<1>1. /\ hw \in Screens /\ hw_slot \in DeviceSlots /\ stream \in Queues
      /\ stream' = Push(stream, Report(hw, hw_slot))
      /\ DeviceNow' = DeviceNow
  BY DEF KernelFits, SendReport, DeviceNow
<1>2. DeviceNow \in Devices
  BY <1>1, AxesAreInts DEF Devices, DeviceNow
<1>3. /\ Report(hw, hw_slot) \in Events
      /\ Report(hw, hw_slot).type # "SYN_DROPPED"
      /\ Leads(DeviceNow, Report(hw, hw_slot), DeviceNow)
  BY <1>1 DEF Report, Events, Leads, DeviceNow
<1> QED BY <1>1, <1>2, <1>3, PushLeads

-----------------------------------------------------------------------------
LEMMA InitFits ==
  ASSUME ReaderInit
  PROVE  ReaderInv
<1> USE DEF ReaderInit, KernelInit, DecoderInit
<1>1. KernelFits
  <2>1. hw \in Screens
    <3>1. hw \in [DeviceSlots -> [tid : {-1}, at : StartPoints]]
      OBVIOUS
    <3>2. hw \in [DeviceSlots -> [tid : TrackingIds, at : GlassPoints]]
      BY <3>1, KernelAssumption DEF TrackingIds, GlassPoints
    <3>3. \A s \in DeviceSlots : hw[s].tid = -1
      BY <3>1
    <3> QED BY <3>2, <3>3 DEF Screens
  <2>2. stream \in Queues
    BY KernelAssumption DEF Queues, DroppedFirst
  <2>3. \A s \in DeviceSlots : hw[s].tid < next_tid
    OBVIOUS
  <2> QED BY <2>1, <2>2, <2>3, KernelAssumption DEF KernelFits
<1>2. DecoderFits
  BY SlotsAssumption DEF DecoderFits, NoSlots, SlotIndices
<1>3. FlagsFit
  <2>1. dropping_events = FALSE /\ lost = FALSE
    BY DEF ReaderInit
  <2>2. in_step \in BOOLEAN
    <3>1. in_step = (hw_slot = current_slot)
      BY DEF ReaderInit
    <3> QED BY <3>1, Zenon
  <2> QED BY <2>1, <2>2, Zenon DEF FlagsFit
<1>4. LeadsTo(stream, DeviceNow)
  <2> DEFINE g == [i \in 0 .. 0 |-> DeviceNow]
  <2>1. /\ hw \in Screens /\ hw_slot \in DeviceSlots
        /\ hw \in [DeviceSlots -> [tid : {-1}, at : StartPoints]]
        /\ slots = NoSlots /\ current_slot = 0 /\ hw_slot \in StartSlots
        /\ in_step = (hw_slot = 0) /\ stream = <<>>
    BY <1>1 DEF KernelFits
  <2>2. DeviceNow \in Devices
    BY <2>1, AxesAreInts DEF Devices, DeviceNow
  <2>3. Tells(g, stream)
    BY <2>1, <2>2 DEF Tells
  <2>4. hw_slot = 0 => Agrees(DeviceNow)
    BY <2>1, SlotsAssumption DEF Agrees, DeviceNow, NoSlots, SlotIndices
  <2>5. NewDevice => hw_slot = 0 /\ Covers(DeviceNow)
    <3> SUFFICES ASSUME NewDevice PROVE hw_slot = 0 /\ Covers(DeviceNow)
      OBVIOUS
    <3>1. hw_slot = 0
      BY <2>1 DEF NewDevice
    <3>2. ASSUME NEW s \in DeviceSlots, NEW a \in Axes
          PROVE  DeviceNow.axes[s][a] = IF a = TID THEN -1 ELSE 0
      <4>1. hw[s].tid = -1 /\ hw[s].at = <<0, 0>>
        BY <2>1 DEF NewDevice
      <4> QED BY <4>1 DEF DeviceNow, AxesOf
    <3> QED BY <3>1, <3>2 DEF Covers
  <2>6. Mirrors(DeviceNow)
    BY <2>1, <2>4, <2>5 DEF Mirrors
  <2> QED BY <2>1, <2>3, <2>6 DEF LeadsTo
<1> QED BY <1>1, <1>2, <1>3, <1>4 DEF ReaderInv

\* What the changes of a slot have in common: an id is the next one, and only
\* contacts have places.
Changes(s, new) ==
  /\ SendSlot(s, new)
  /\ \/ new.tid \in {-1, hw[s].tid}
     \/ new.tid = next_tid /\ next_tid < next_tid'
  /\ new.tid # -1 => new.at \in Points
  /\ new.at # hw[s].at => new.tid # -1
  /\ new.tid < next_tid' /\ next_tid <= next_tid'
  /\ next_tid' \in 1 .. MaxTid + 1

LEMMA FrameChanges ==
  ASSUME KernelFits, Frame
  PROVE  \/ SendReport
         \/ \E s \in DeviceSlots, new \in [tid : TrackingIds, at : GlassPoints] :
              Changes(s, new)
<1> SUFFICES ASSUME ~SendReport
             PROVE  \E s \in DeviceSlots, new \in [tid : TrackingIds, at : GlassPoints] :
                      Changes(s, new)
  OBVIOUS
<1>1. /\ hw \in Screens /\ next_tid \in 1 .. MaxTid + 1
      /\ \A s \in DeviceSlots : hw[s] \in [tid : TrackingIds, at : GlassPoints]
      /\ \A s \in DeviceSlots : hw[s].tid < next_tid
      /\ MaxTid \in Nat
  BY KernelAssumption DEF KernelFits, Screens
<1>2. PICK s \in DeviceSlots : Lands(s) \/ Moves(s) \/ Lifts(s)
  BY DEF Frame
<1>3. \E new \in [tid : TrackingIds, at : GlassPoints] : Changes(s, new)
  <2>1. CASE Lands(s)
    <3>1. PICK p \in Points : SendSlot(s, [tid |-> next_tid, at |-> p])
      BY <2>1 DEF Lands
    <3>2. [tid |-> next_tid, at |-> p] \in [tid : TrackingIds, at : GlassPoints]
      BY <1>1, <2>1 DEF Lands, TrackingIds, GlassPoints
    <3> QED BY <1>1, <2>1, <3>1, <3>2 DEF Lands, Changes
  <2>2. CASE Moves(s)
    <3>1. PICK p \in Points : SendSlot(s, [hw[s] EXCEPT !.at = p])
      BY <2>2 DEF Moves
    <3>2. [hw[s] EXCEPT !.at = p] \in [tid : TrackingIds, at : GlassPoints]
      BY <1>1 DEF GlassPoints
    <3> QED BY <1>1, <2>2, <3>1, <3>2 DEF Moves, Changes
  <2>3. CASE Lifts(s)
    <3>1. [hw[s] EXCEPT !.tid = -1] \in [tid : TrackingIds, at : GlassPoints]
      BY <1>1 DEF TrackingIds
    <3> QED BY <1>1, <2>3, <3>1 DEF Lifts, Changes
  <2> QED BY <1>2, <2>1, <2>2, <2>3
<1> QED BY <1>3

LEMMA TouchFits ==
  ASSUME ReaderInv, Touch
  PROVE  ReaderInv'
<1> USE DEF ReaderInv
<1>1. UNCHANGED <<decoder_vars, reader_vars>> /\ Frame
  BY DEF Touch
<1>2. KernelFits' /\ LeadsTo(stream', DeviceNow')
  <2>1. CASE SendReport
    <3>1. stream' \in Queues /\ LeadsTo(stream', DeviceNow')
      BY <2>1, ReportLeads
    <3> QED BY <1>1, <2>1, <3>1 DEF SendReport, KernelFits, reader_vars
  <2>2. ASSUME NEW s \in DeviceSlots, NEW new \in [tid : TrackingIds, at : GlassPoints],
               Changes(s, new)
        PROVE  KernelFits' /\ LeadsTo(stream', DeviceNow')
    <3>1. /\ hw \in Screens /\ next_tid \in 1 .. MaxTid + 1
          /\ \A t \in DeviceSlots : hw[t] \in [tid : TrackingIds, at : GlassPoints]
          /\ \A t \in DeviceSlots : hw[t].tid < next_tid
          /\ MaxTid \in Nat
      BY KernelAssumption DEF KernelFits, Screens
    <3>2. /\ SendSlot(s, new)
          /\ new.tid \in {-1, hw[s].tid, next_tid}
          /\ new.tid # -1 => new.at \in Points
          /\ new.at # hw[s].at => new.tid # -1
          /\ new.tid < next_tid' /\ next_tid <= next_tid'
          /\ next_tid' \in 1 .. MaxTid + 1
      BY <2>2 DEF Changes
    <3>3. /\ hw' = [hw EXCEPT ![s] = new] /\ hw_slot' = s
          /\ changed' = changed \cup {s}
      BY <3>2 DEF SendSlot
    <3>4. hw' \in Screens
      <4>1. hw \in [DeviceSlots -> [tid : TrackingIds, at : GlassPoints]]
        BY <3>1 DEF Screens
      <4>2. hw' \in [DeviceSlots -> [tid : TrackingIds, at : GlassPoints]]
        BY <3>3, <4>1
      <4>3. ASSUME NEW t \in DeviceSlots, hw'[t].tid # -1
            PROVE  hw'[t].at \in Points
        BY <3>1, <3>2, <3>3, <4>1, <4>3 DEF Screens
      <4>4. ASSUME NEW t \in DeviceSlots, NEW u \in DeviceSlots \ {t}, hw'[t].tid # -1
            PROVE  hw'[t].tid # hw'[u].tid
        <5>1. \A v \in DeviceSlots : hw[v].tid # next_tid
          BY <3>1 DEF TrackingIds
        <5> QED BY <3>1, <3>2, <3>3, <4>1, <4>4, <5>1 DEF Screens
      <4> QED BY <4>2, <4>3, <4>4 DEF Screens
    <3>5. stream' \in Queues /\ LeadsTo(stream', DeviceNow')
      BY <3>2, SlotLeads
    <3>6. KernelFits'
      <4>1. \A t \in DeviceSlots : hw'[t].tid < next_tid'
        BY <3>1, <3>2, <3>3 DEF Screens, TrackingIds
      <4> QED BY <1>1, <3>2, <3>3, <3>4, <3>5, <4>1 DEF KernelFits, reader_vars
    <3> QED BY <3>5, <3>6
  <2> QED BY <1>1, <2>1, <2>2, FrameChanges
<1>3. DecoderFits'
  BY <1>1 DEF DecoderFits, NoSlots, decoder_vars, reader_vars
<1>4. FlagsFit'
  BY <1>1, Zenon DEF FlagsFit, decoder_vars, reader_vars
<1>5. LeadsTo(stream, DeviceNow)'
  BY <1>1, <1>2 DEF LeadsTo, Mirrors, Agrees, Covers, decoder_vars, reader_vars
<1> QED BY <1>2, <1>3, <1>4, <1>5

-----------------------------------------------------------------------------
LEMMA HeadLeads ==
  ASSUME NEW q \in Queues, q # <<>>, NEW g, Tells(g, q)
  PROVE  /\ Head(q) \in Events /\ Tail(q) \in Queues
         /\ g[0] \in Devices /\ g[1] \in Devices /\ Leads(g[0], Head(q), g[1])
         /\ Tail(q) # <<>> => Tail(q)[1].type # "SYN_DROPPED"
         /\ \E h : /\ Tells(h, Tail(q))
                  /\ h[0] = g[1] /\ h[Len(Tail(q))] = g[Len(q)]
<1> DEFINE p == Tail(q)
           h == [i \in 0 .. Len(q) - 1 |-> g[i + 1]]
<1>1. /\ q \in Seq(Events) /\ Len(q) \in Nat /\ Len(q) > 0 /\ Len(q) < BufSize
      /\ BufSize \in Nat
  BY KernelAssumption DEF Queues
<1>2. /\ p \in Seq(Events) /\ Len(p) = Len(q) - 1
      /\ \A i \in 1 .. Len(p) : p[i] = q[i + 1]
      /\ Head(q) = q[1] /\ q[1] \in Events
  BY <1>1
<1>3. \A i \in 1 .. Len(p) : p[i].type # "SYN_DROPPED"
  <2> SUFFICES ASSUME NEW i \in 1 .. Len(p), p[i].type = "SYN_DROPPED"
               PROVE  FALSE
    OBVIOUS
  <2>1. i + 1 \in 1 .. Len(q) /\ q[i + 1].type = "SYN_DROPPED"
    BY <1>1, <1>2
  <2>2. DroppedFirst(q)
    BY DEF Queues
  <2> QED BY <2>1, <2>2 DEF DroppedFirst
<1>4. p \in Queues
  <2>1. Len(p) < BufSize
    BY <1>1, <1>2
  <2>2. DroppedFirst(p)
    BY <1>3 DEF DroppedFirst
  <2> QED BY <1>2, <2>1, <2>2 DEF Queues
<1>5. g[0] \in Devices /\ g[1] \in Devices /\ Leads(g[0], q[1], g[1])
  BY <1>1 DEF Tells
<1>6. p # <<>> => p[1].type # "SYN_DROPPED"
  BY <1>2, <1>3
<1>7. Tells(h, p)
  <2>1. h \in [0 .. Len(p) -> Devices]
    BY <1>1, <1>2 DEF Tells
  <2>2. ASSUME NEW i \in 1 .. Len(p) PROVE Leads(h[i - 1], p[i], h[i])
    <3>1. /\ i + 1 \in 1 .. Len(q) /\ h[i] = g[i + 1] /\ h[i - 1] = g[i]
          /\ p[i] = q[i + 1] /\ (i + 1) - 1 = i
      BY <1>1, <1>2
    <3>2. Leads(g[(i + 1) - 1], q[i + 1], g[i + 1])
      BY <3>1 DEF Tells
    <3> QED BY <3>1, <3>2
  <2> QED BY <2>1, <2>2 DEF Tells
<1>8. h[0] = g[1] /\ h[Len(p)] = g[Len(q)]
  BY <1>1, <1>2
<1> HIDE DEF h, p
<1>9. \E f : Tells(f, p) /\ f[0] = g[1] /\ f[Len(p)] = g[Len(q)]
  BY <1>7, <1>8
<1> QED BY <1>2, <1>4, <1>5, <1>6, <1>9 DEF p

\* The decoder follows the device, event by event.
LEMMA ReadPartLeads ==
  ASSUME ReaderInv, NEW ev, ReadPart(ev), DecoderFits',
         NEW d \in Devices, NEW e \in Devices, ev \in Events, Leads(d, ev, e),
         ev.type # "SYN_DROPPED" => Mirrors(d)
  PROVE  Mirrors(e)'
<1> USE DEF ReaderInv
<1>1. CASE ev.type = "SYN_DROPPED"
  <2>1. dropping_events' = TRUE /\ lost' = TRUE
    BY <1>1 DEF ReadPart, Read, AddPart, AddDropped, AddWhileDropping, AddSlot,
                AddAxis, Axes
  <2> QED BY <2>1 DEF Mirrors
<1>2. CASE ev.type # "SYN_DROPPED" /\ dropping_events
  <2>1. /\ dropping_events' = (ev.type # "SYN_REPORT")
        /\ UNCHANGED <<slots, current_slot>>
        /\ lost' = TRUE
        /\ slots = NoSlots /\ current_slot = 0
    <3>1. lost /\ slots = NoSlots /\ current_slot = 0
      BY <1>2 DEF DecoderFits
    <3> QED BY <1>2, <3>1 DEF ReadPart, Read, AddPart, AddDropped,
              AddWhileDropping, AddSlot, AddAxis
  <2>2. CASE ev.type = "SYN_REPORT"
    <3>1. in_step' = (ev.slot = current_slot) /\ d.slot = ev.slot /\ e = d
      BY <2>2 DEF ReadPart, Leads
    <3>2. in_step' => e.slot = 0
      BY <2>1, <3>1, Zenon
    <3>3. ASSUME e.slot = 0 PROVE Agrees(e)'
      <4>1. \A s \in SlotIndices : DOMAIN slots'[s] = {}
        BY <2>1 DEF NoSlots
      <4> QED BY <2>1, <3>3, <4>1, SlotsAssumption DEF Agrees, SlotIndices
    <3> QED BY <2>1, <3>2, <3>3 DEF Mirrors
  <2>3. CASE ev.type # "SYN_REPORT"
    BY <2>1, <2>3 DEF Mirrors
  <2> QED BY <2>2, <2>3
<1>3. CASE ev.type # "SYN_DROPPED" /\ ~dropping_events
  <2>1. /\ AddSlot(ev) \/ AddAxis(ev)
        /\ in_step' => in_step /\ ~dropping_events
        /\ ~lost' => ~lost
    <3>1. AddSlot(ev) \/ AddAxis(ev)
      BY <1>3, Zenon DEF ReadPart, AddPart, AddDropped, AddWhileDropping
    <3>2. ev.type # "SYN_REPORT"
      BY <3>1 DEF AddSlot, AddAxis, Axes
    <3>3. in_step' = in_step /\ lost' = (lost \/ ev.type = "SYN_DROPPED")
      BY <3>2, Zenon DEF ReadPart, Read
    <3> QED BY <1>3, <3>1, <3>3, Zenon
  <2>2. CASE AddSlot(ev)
    <3>1. /\ ev.type = "ABS_MT_SLOT"
          /\ current_slot' = IF ev.value \in SlotIndices THEN ev.value ELSE -1
          /\ slots' = slots /\ e.slot = ev.value /\ e.axes = d.axes
      BY <2>2 DEF AddSlot, Leads
    <3>2. Agrees(d) => Agrees(e)'
      BY <3>1 DEF Agrees
    <3>3. Covers(d) => Covers(e)'
      BY <3>1 DEF Covers
    <3> QED BY <1>3, <2>1, <3>2, <3>3 DEF Mirrors
  <2>3. CASE AddAxis(ev)
    <3>1. /\ ev.type \in Axes
          /\ slots' = IF current_slot = -1 THEN slots
                      ELSE [slots EXCEPT ![current_slot] =
                              [a \in DOMAIN slots[current_slot] \cup {ev.type} |->
                                 IF a = ev.type THEN ev.value
                                 ELSE slots[current_slot][a]]]
          /\ current_slot' = current_slot
      BY <2>3 DEF AddAxis
    <3>2. /\ e.slot = d.slot
          /\ e.axes = [d.axes EXCEPT ![d.slot] =
                          [d.axes[d.slot] EXCEPT ![ev.type] = ev.value]]
          /\ ev.type # TID => d.axes[d.slot][TID] # -1
          /\ d.axes \in [DeviceSlots -> [Axes -> Int]] /\ d.slot \in DeviceSlots
      BY <3>1 DEF Leads, Axes, Devices
    <3>3. slots = [s \in SlotIndices |-> slots[s]]
      BY DEF DecoderFits
    <3>4. Agrees(d) => Agrees(e)' /\ (Covers(d) => Covers(e)')
      <4> SUFFICES ASSUME Agrees(d)
                   PROVE  Agrees(e)' /\ (Covers(d) => Covers(e)')
        OBVIOUS
      <4>1. CASE d.slot \in SlotIndices
        <5> DEFINE c == current_slot
        <5>1. c = d.slot /\ c # -1 /\ c \in SlotIndices
          BY <4>1, SlotsAssumption DEF Agrees, SlotIndices
        <5>2. /\ \A s \in SlotIndices \ {c} : slots'[s] = slots[s]
              /\ DOMAIN slots'[c] = DOMAIN slots[c] \cup {ev.type}
              /\ \A a \in DOMAIN slots[c] \cup {ev.type} :
                   slots'[c][a] = IF a = ev.type THEN ev.value ELSE slots[c][a]
          BY <3>1, <3>3, <5>1
        <5>3. /\ \A s \in DeviceSlots \ {c} : e.axes[s] = d.axes[s]
              /\ \A a \in Axes :
                   e.axes[c][a] = IF a = ev.type THEN ev.value ELSE d.axes[c][a]
          BY <3>2, <5>1
        <5>4. ASSUME NEW s \in SlotIndices, NEW a \in DOMAIN slots'[s]
              PROVE  /\ s \in DeviceSlots
                     /\ slots'[s][a] = e.axes[s][a]
                     /\ TID \notin DOMAIN slots'[s] => e.axes[s][TID] # -1
          <6>1. TID \in Axes /\ DOMAIN slots[s] \subseteq Axes
            BY DEF Axes, TID, DecoderFits
          <6>2. CASE s = c
            <7>1. slots'[s][a] = e.axes[s][a]
              <8>1. a \in DOMAIN slots[c] \cup {ev.type} /\ a \in Axes
                BY <3>1, <5>2, <5>4, <6>1, <6>2
              <8>2. a # ev.type => slots[c][a] = d.axes[c][a]
                BY <5>1, <8>1 DEF Agrees
              <8>3. /\ slots'[c][a] = IF a = ev.type THEN ev.value ELSE slots[c][a]
                    /\ e.axes[c][a] = IF a = ev.type THEN ev.value ELSE d.axes[c][a]
                BY <5>2, <5>3, <8>1
              <8> QED BY <6>2, <8>2, <8>3
            <7>2. TID \notin DOMAIN slots'[s] => e.axes[s][TID] # -1
              BY <3>2, <5>1, <5>2, <5>3, <6>1, <6>2
            <7> QED BY <3>2, <5>1, <6>2, <7>1, <7>2
          <6>3. CASE s # c
            BY <5>2, <5>3, <5>4, <6>1, <6>3 DEF Agrees
          <6> QED BY <6>2, <6>3
        <5>5. ASSUME Covers(d), NEW s \in SlotIndices \cap DeviceSlots,
                     NEW a \in Axes \ DOMAIN slots'[s]
              PROVE  e.axes[s][a] = IF a = TID THEN -1 ELSE 0
          BY <5>2, <5>3, <5>5 DEF Covers
        <5>6. Agrees(e)'
          BY <3>1, <3>2, <5>1, <5>4 DEF Agrees
        <5>7. Covers(d) => Covers(e)'
          BY <5>5 DEF Covers
        <5> QED BY <5>6, <5>7
      <4>2. CASE d.slot \notin SlotIndices
        <5>1. current_slot = -1 /\ slots' = slots
          BY <3>1, <4>2 DEF Agrees
        <5>2. \A s \in SlotIndices : s \in DeviceSlots => e.axes[s] = d.axes[s]
          BY <3>2, <4>2
        <5>3. Agrees(e)'
          BY <3>1, <3>2, <4>2, <5>1, <5>2 DEF Agrees
        <5>4. Covers(d) => Covers(e)'
          BY <5>1, <5>2 DEF Covers
        <5> QED BY <5>3, <5>4
      <4> QED BY <4>1, <4>2
    <3> QED BY <1>3, <2>1, <3>4 DEF Mirrors
  <2> QED BY <2>1, <2>2, <2>3
<1> QED BY <1>1, <1>2, <1>3

LEMMA ReadPartTypes ==
  ASSUME ReaderInv, NEW ev \in Events, ReadPart(ev)
  PROVE  DecoderFits' /\ FlagsFit'
<1> USE DEF ReaderInv
<1>1. lost' = (lost \/ ev.type = "SYN_DROPPED")
  BY DEF ReadPart, Read
<1>2. lost => lost'
  BY <1>1, Zenon
<1>3. DecoderFits'
  <2>1. CASE AddDropped(ev)
    <3>1. lost'
      BY <1>1, <2>1, Zenon DEF AddDropped
    <3>2. slots' = NoSlots /\ current_slot' = 0
      BY <2>1 DEF AddDropped
    <3> QED BY <3>1, <3>2, SlotsAssumption DEF DecoderFits, NoSlots, SlotIndices
  <2>2. CASE AddWhileDropping(ev)
    BY <1>2, <2>2 DEF AddWhileDropping, DecoderFits, NoSlots
  <2>3. CASE AddSlot(ev)
    BY <2>3 DEF AddSlot, DecoderFits, NoSlots
  <2>4. CASE AddAxis(ev)
    <3>1. /\ ~dropping_events /\ ~dropping_events' /\ current_slot' = current_slot
          /\ ev.type \in Axes
          /\ slots' = IF current_slot = -1 THEN slots
                      ELSE [slots EXCEPT ![current_slot] =
                              [a \in DOMAIN slots[current_slot] \cup {ev.type} |->
                                 IF a = ev.type THEN ev.value
                                 ELSE slots[current_slot][a]]]
      BY <2>4 DEF AddAxis
    <3>2. ev.value \in Values(ev.type)
      BY <3>1 DEF Events, Values, Axes, TID, X, Y, Dropped
    <3>3. slots = [s \in SlotIndices |-> slots[s]]
      BY DEF DecoderFits
    <3>4. CASE current_slot = -1
      BY <3>1, <3>4 DEF DecoderFits
    <3>5. CASE current_slot # -1
      <4>1. current_slot \in SlotIndices
        BY <3>5 DEF DecoderFits
      <4>2. slots' = [s \in SlotIndices |-> slots'[s]]
        BY <3>1, <3>3, <3>5, <4>1
      <4>3. ASSUME NEW s \in SlotIndices
            PROVE  /\ DOMAIN slots'[s] \subseteq Axes
                   /\ \A a \in DOMAIN slots'[s] : slots'[s][a] \in Values(a)
        <5>1. CASE s = current_slot
          BY <3>1, <3>2, <3>3, <3>5, <4>1, <5>1 DEF DecoderFits
        <5>2. CASE s # current_slot
          BY <3>1, <3>3, <3>5, <4>1, <5>2 DEF DecoderFits
        <5> QED BY <5>1, <5>2
      <4> QED BY <3>1, <4>1, <4>2, <4>3 DEF DecoderFits
    <3> QED BY <3>4, <3>5
  <2> QED BY <2>1, <2>2, <2>3, <2>4 DEF ReadPart, AddPart
<1>4. lost' \in BOOLEAN
  BY <1>1, Zenon DEF FlagsFit
<1>5. in_step' \in BOOLEAN
  <2>1. in_step' = IF ev.type = "SYN_REPORT" THEN ev.slot = current_slot
                                             ELSE in_step
    BY DEF ReadPart
  <2> QED BY <2>1, Zenon DEF FlagsFit
<1>6. dropping_events' \in BOOLEAN
  <2>1. \/ dropping_events' = TRUE \/ dropping_events' = (ev.type # "SYN_REPORT")
        \/ dropping_events' = dropping_events
    BY Zenon DEF ReadPart, AddPart, AddDropped, AddWhileDropping, AddSlot, AddAxis
  <2> QED BY <2>1, Zenon DEF FlagsFit
<1> QED BY <1>3, <1>4, <1>5, <1>6, Zenon DEF FlagsFit

LEMMA ReadPartFits ==
  ASSUME ReaderInv, stream # <<>>, ReadPart(Head(stream))
  PROVE  ReaderInv'
<1> DEFINE ev == Head(stream)
<1>1. /\ stream \in Queues /\ hw \in Screens /\ hw_slot \in DeviceSlots
      /\ stream' = Tail(stream)
      /\ UNCHANGED <<hw, hw_slot, next_tid, changed, last_truth>>
  BY DEF ReaderInv, KernelFits, ReadPart, Read
<1>2. PICK g : /\ Tells(g, stream)
               /\ g[Len(stream)] = DeviceNow
               /\ stream[1].type # "SYN_DROPPED" => Mirrors(g[0])
  BY DEF ReaderInv, LeadsTo
<1>3. /\ ev \in Events /\ Tail(stream) \in Queues
      /\ g[0] \in Devices /\ g[1] \in Devices /\ Leads(g[0], ev, g[1])
      /\ \E h : /\ Tells(h, Tail(stream))
               /\ h[0] = g[1] /\ h[Len(Tail(stream))] = DeviceNow
  BY <1>1, <1>2, HeadLeads
<1>4. ev = stream[1]
  BY <1>1 DEF Queues
<1>5. DecoderFits' /\ FlagsFit'
  BY <1>3, ReadPartTypes
<1>6. Mirrors(g[1])'
  BY <1>2, <1>3, <1>4, <1>5, ReadPartLeads
<1>7. LeadsTo(stream, DeviceNow)'
  BY <1>1, <1>3, <1>6 DEF LeadsTo, DeviceNow
<1>8. KernelFits'
  BY <1>1, <1>3 DEF ReaderInv, KernelFits
<1> QED BY <1>5, <1>7, <1>8 DEF ReaderInv

\* A frame is complete: the decoder holds what was on the glass.
LEMMA ReadReportFits ==
  ASSUME ReaderInv, stream # <<>>,
         NEW wants_snapshot, ReadReport(Head(stream), wants_snapshot)
  PROVE  /\ ReaderInv'
         /\ last_truth' \in Screens
         /\ UNCHANGED <<slots, current_slot, lost, in_step>>
         /\ \E d \in Devices : d.axes = AxesOf(last_truth') /\ Mirrors(d)
         /\ ~dropping_events
<1> DEFINE ev == Head(stream)
<1>1. /\ stream \in Queues /\ hw \in Screens /\ hw_slot \in DeviceSlots
      /\ stream' = Tail(stream)
      /\ ev.type = "SYN_REPORT" /\ ~dropping_events
      /\ last_truth' = ev.truth
      /\ UNCHANGED <<hw, hw_slot, next_tid, changed, slots, current_slot,
                     dropping_events, in_step>>
  BY DEF ReaderInv, KernelFits, ReadReport, Read, AddReport
<1>2. lost' = lost
  BY <1>1, Zenon DEF ReadReport, Read, ReaderInv, FlagsFit
<1>3. PICK g : /\ Tells(g, stream)
               /\ g[Len(stream)] = DeviceNow
               /\ stream[1].type # "SYN_DROPPED" => Mirrors(g[0])
  BY DEF ReaderInv, LeadsTo
<1>4. /\ ev \in Events /\ Tail(stream) \in Queues
      /\ g[0] \in Devices /\ g[1] \in Devices /\ Leads(g[0], ev, g[1])
      /\ \E h : /\ Tells(h, Tail(stream))
               /\ h[0] = g[1] /\ h[Len(Tail(stream))] = DeviceNow
  BY <1>1, <1>3, HeadLeads
<1>5. ev = stream[1]
  BY <1>1 DEF Queues
<1>6. g[1] = g[0] /\ g[0].axes = AxesOf(ev.truth)
  BY <1>1, <1>4 DEF Leads
<1>7. ev.truth \in Screens
  BY <1>1, <1>4 DEF Events, Dropped, TID, X, Y
<1>8. Mirrors(g[0]) /\ Mirrors(g[0])'
  BY <1>1, <1>2, <1>3, <1>5 DEF Mirrors, Agrees, Covers
<1>9. LeadsTo(stream, DeviceNow)'
  BY <1>1, <1>4, <1>6, <1>8 DEF LeadsTo, DeviceNow
<1>10. KernelFits'
  BY <1>1, <1>4, <1>7 DEF ReaderInv, KernelFits
<1>11. DecoderFits'
  BY <1>1 DEF ReaderInv, DecoderFits
<1>12. FlagsFit'
  BY <1>1, <1>2, Zenon DEF ReaderInv, FlagsFit
<1> QED BY <1>1, <1>2, <1>4, <1>6, <1>7, <1>8, <1>9, <1>10, <1>11, <1>12
        DEF ReaderInv
=============================================================================
