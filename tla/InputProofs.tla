---------------------------- MODULE InputProofs -----------------------------
(***************************************************************************)
(* The snapshots the keyboard worker gets, for every number of slots,      *)
(* contacts and events, with and without lost events.                      *)
(***************************************************************************)
EXTENDS TouchInput, ReaderProofs

IsId(ev) == ev.type = TID /\ ev.value # -1

\* The ids in q are new to those who know the ids in K, each greater than the
\* one before it, and less than n.
NewIds(q, K, n) ==
  \A i \in 1 .. Len(q) : IsId(q[i]) =>
    /\ q[i].value < n
    /\ \A k \in K : k < q[i].value
    /\ \A j \in 1 .. i - 1 : IsId(q[j]) => q[j].value < q[i].value

KnownIds == (reported \cup {TidOf(s) : s \in SlotIndices}) \ {-1}

\* What was reported and is held is in the last snapshot.
IdsFit ==
  /\ KnownIds \subseteq TrackingIds
  /\ \A k \in KnownIds : k < next_tid
  /\ -1 \notin reported
  /\ DOMAIN snapshot \subseteq reported
  /\ \A s \in SlotIndices : TidOf(s) \in reported => TidOf(s) \in DOMAIN snapshot
  /\ NewIds(stream, KnownIds, next_tid)

InputInv ==
  /\ ReaderInv
  /\ IdsFit
  /\ NewDevice => SnapshotIsTruth

-----------------------------------------------------------------------------
LEMMA PushNewIds ==
  ASSUME NEW q \in Seq(Events), NEW ev \in Events,
         NEW K \in SUBSET Int, NEW n \in Nat, NEW m \in Nat, n <= m,
         NewIds(q, K, n), \A k \in K : k < n,
         IsId(ev) => n <= ev.value /\ ev.value < m
  PROVE  Push(q, ev) \in Seq(Events) /\ NewIds(Push(q, ev), K, m)
<1>1. \A e \in Events : IsId(e) => e.value \in Int
  BY KernelAssumption DEF Events, IsId, TrackingIds, TID, X, Y, Dropped
<1>2. CASE Len(q) + 1 = BufSize
  <2> DEFINE p == <<Dropped, ev>>
  <2>1. Push(q, ev) = p
    BY <1>2 DEF Push
  <2>2. p \in Seq(Events) /\ Len(p) = 2 /\ p[1] = Dropped /\ p[2] = ev
    BY DEF Events
  <2>3. ~IsId(p[1])
    BY <2>2 DEF IsId, Dropped, TID
  <2>4. NewIds(p, K, m)
    <3> SUFFICES ASSUME NEW i \in 1 .. Len(p), IsId(p[i])
                 PROVE  /\ p[i].value < m
                        /\ \A k \in K : k < p[i].value
                        /\ \A j \in 1 .. i - 1 : IsId(p[j]) => p[j].value < p[i].value
      BY DEF NewIds
    <3>1. i = 2 /\ p[i] = ev
      BY <2>2, <2>3
    <3>2. ev.value \in Int
      BY <1>1, <3>1
    <3> QED BY <2>3, <3>1, <3>2
  <2> QED BY <2>1, <2>2, <2>4
<1>3. CASE Len(q) + 1 # BufSize
  <2> DEFINE p == Append(q, ev)
  <2>1. Push(q, ev) = p
    BY <1>3 DEF Push
  <2>2. /\ p \in Seq(Events) /\ Len(p) = Len(q) + 1 /\ p[Len(q) + 1] = ev
        /\ \A i \in 1 .. Len(q) : p[i] = q[i] /\ q[i] \in Events
        /\ Len(q) \in Nat
    OBVIOUS
  <2>3. NewIds(p, K, m)
    <3> SUFFICES ASSUME NEW i \in 1 .. Len(p), IsId(p[i])
                 PROVE  /\ p[i].value < m
                        /\ \A k \in K : k < p[i].value
                        /\ \A j \in 1 .. i - 1 : IsId(p[j]) => p[j].value < p[i].value
      BY DEF NewIds
    <3> HIDE DEF p
    <3>1. CASE i = Len(q) + 1
      <4>1. p[i] = ev /\ ev.value \in Int /\ n <= ev.value /\ ev.value < m
        BY <1>1, <2>2, <3>1
      <4>2. ASSUME NEW j \in 1 .. i - 1, IsId(p[j])
            PROVE  p[j].value < p[i].value
        <5>1. j \in 1 .. Len(q) /\ p[j] = q[j] /\ q[j].value \in Int
          BY <1>1, <2>2, <3>1, <4>2
        <5>2. q[j].value < n
          BY <4>2, <5>1 DEF NewIds
        <5> QED BY <4>1, <5>1, <5>2
      <4> QED BY <4>1, <4>2
    <3>2. CASE i # Len(q) + 1
      <4>1. i \in 1 .. Len(q) /\ p[i] = q[i] /\ q[i].value \in Int
        BY <1>1, <2>2, <3>2
      <4>2. /\ q[i].value < n
            /\ \A k \in K : k < q[i].value
            /\ \A j \in 1 .. i - 1 : IsId(q[j]) => q[j].value < q[i].value
        BY <4>1 DEF NewIds
      <4>3. \A j \in 1 .. i - 1 : p[j] = q[j]
        BY <2>2, <4>1
      <4> QED BY <4>1, <4>2, <4>3
    <3> QED BY <3>1, <3>2
  <2> QED BY <2>1, <2>2, <2>3
<1> QED BY <1>2, <1>3

LEMMA PushChangeNewIds ==
  ASSUME NEW q \in Seq(Events), NEW axis, NEW old, NEW new,
         old # new => AbsEvent(axis, new) \in Events,
         NEW K \in SUBSET Int, NEW n \in Nat, NEW m \in Nat, n <= m,
         NewIds(q, K, n), \A k \in K : k < n,
         old # new /\ axis = TID => new = -1 \/ (n <= new /\ new < m)
  PROVE  /\ PushChange(q, axis, old, new) \in Seq(Events)
         /\ NewIds(PushChange(q, axis, old, new), K, m)
<1>1. CASE old = new
  <2>1. PushChange(q, axis, old, new) = q
    BY <1>1 DEF PushChange
  <2>2. ASSUME NEW i \in 1 .. Len(q), IsId(q[i]) PROVE q[i].value < m
    <3>1. q[i] \in Events /\ q[i].value < n
      BY <2>2 DEF NewIds
    <3>2. q[i].value \in Int
      BY <2>2, <3>1, KernelAssumption
         DEF Events, IsId, TrackingIds, TID, X, Y, Dropped
    <3> QED BY <3>1, <3>2
  <2> QED BY <2>1, <2>2 DEF NewIds
<1>2. CASE old # new
  <2>1. IsId(AbsEvent(axis, new)) => n <= new /\ new < m
    BY <1>2 DEF IsId, AbsEvent
  <2>2. AbsEvent(axis, new).value = new
    BY DEF AbsEvent
  <2> QED BY <1>2, <2>1, <2>2, PushNewIds DEF PushChange
<1> QED BY <1>1, <1>2

LEMMA BoundAbove ==
  ASSUME NEW K \in SUBSET Int, NEW n \in Nat, NEW m \in Nat, n <= m,
         \A k \in K : k < n
  PROVE  m <= m /\ \A k \in K : k < m
OBVIOUS

\* A slot that changes brings the next id at most.
LEMMA SlotNewIds ==
  ASSUME KernelFits, NEW K \in SUBSET Int, \A k \in K : k < next_tid,
         NewIds(stream, K, next_tid),
         NEW s \in DeviceSlots, NEW new \in [tid : TrackingIds, at : GlassPoints],
         SendSlot(s, new),
         NEW m \in Nat, next_tid <= m,
         new.tid \in {-1, hw[s].tid} \/ (new.tid = next_tid /\ next_tid < m)
  PROVE  NewIds(stream', K, m)
<1> DEFINE q1 == PushChange(stream, "ABS_MT_SLOT", hw_slot, s)
           q2 == PushChange(q1, TID, hw[s].tid, new.tid)
           q3 == PushChange(q2, X, hw[s].at[1], new.at[1])
           q4 == PushChange(q3, Y, hw[s].at[2], new.at[2])
<1>1. /\ stream \in Seq(Events) /\ next_tid \in Nat
      /\ stream' = q4
  BY DEF KernelFits, Queues, SendSlot, PushChanges, TID, X, Y
<1>2. /\ AbsEvent("ABS_MT_SLOT", s) \in Events
      /\ AbsEvent(TID, new.tid) \in Events
      /\ AbsEvent(X, new.at[1]) \in Events /\ AbsEvent(Y, new.at[2]) \in Events
  <2>1. /\ new.at[1] \in Coordinate(1) /\ new.at[2] \in Coordinate(2)
        /\ new.tid \in TrackingIds
    BY DEF Coordinate
  <2> QED BY <2>1 DEF AbsEvent, Events
<1>3. "ABS_MT_SLOT" # TID /\ X # TID /\ Y # TID
  BY DEF TID, X, Y
<1>4. m <= m /\ \A k \in K : k < m
  BY <1>1, BoundAbove, Zenon
<1>5. q1 \in Seq(Events) /\ NewIds(q1, K, next_tid)
  BY <1>1, <1>2, <1>3, PushChangeNewIds
<1> HIDE DEF q1
<1>6. q2 \in Seq(Events) /\ NewIds(q2, K, m)
  BY <1>1, <1>2, <1>5, PushChangeNewIds
<1> HIDE DEF q2
<1>7. q3 \in Seq(Events) /\ NewIds(q3, K, m)
  <2>1. AbsEvent(X, new.at[1]) \in Events /\ ~(X = TID)
    BY <1>2, <1>3
  <2> QED BY <1>4, <1>6, <2>1, PushChangeNewIds
<1> HIDE DEF q3
<1>8. q4 \in Seq(Events) /\ NewIds(q4, K, m)
  BY <1>2, <1>3, <1>4, <1>7, PushChangeNewIds
<1> QED BY <1>1, <1>8

\* A SYN_REPORT brings none.
LEMMA ReportNewIds ==
  ASSUME KernelFits, NEW K \in SUBSET Int, \A k \in K : k < next_tid,
         NewIds(stream, K, next_tid), SendReport
  PROVE  NewIds(stream', K, next_tid)
<1>1. /\ stream \in Seq(Events) /\ next_tid \in Nat
      /\ stream' = Push(stream, Report(hw, hw_slot))
  BY DEF KernelFits, Queues, SendReport
<1>2. Report(hw, hw_slot) \in Events /\ ~IsId(Report(hw, hw_slot))
  BY DEF KernelFits, Report, Events, IsId, TID
<1> QED BY <1>1, <1>2, PushNewIds

-----------------------------------------------------------------------------
\* A frame of a decoder that agrees with the device: each id is the one of a
\* single slot, whose contact is on the glass.
LEMMA SlotOfId ==
  ASSUME DecoderFits, NEW d \in Devices, NEW truth \in Screens,
         d.axes = AxesOf(truth), Agrees(d), NEW t \in DOMAIN FillSnapshot
  PROVE  \E s \in SlotIndices \cap DeviceSlots :
           /\ t # -1 /\ truth[s].tid = t
           /\ FillSnapshot[t] = PointOf(s)
           /\ \A i \in 1 .. 2 : PointOf(s)[i] \in {truth[s].at[i], kSlotMissingValue}
<1>1. PICK s \in SlotIndices : TidOf(s) = t /\ t # -1
  BY DEF FillSnapshot
<1>2. ASSUME NEW u \in SlotIndices, TidOf(u) # -1
      PROVE  /\ u \in DeviceSlots /\ TID \in DOMAIN slots[u]
             /\ TidOf(u) = truth[u].tid
  <2>1. TID \in DOMAIN slots[u] /\ TidOf(u) = slots[u][TID]
    BY <1>2 DEF TidOf, FindValueByEvent, kSlotMissingValue, TID
  <2>2. u \in DeviceSlots /\ slots[u][TID] = AxesOf(truth)[u][TID]
    BY <2>1 DEF Agrees
  <2> QED BY <2>1, <2>2, AxesOfSlot
<1>3. s \in DeviceSlots /\ truth[s].tid = t
  BY <1>1, <1>2
<1>4. {u \in SlotIndices : TidOf(u) = t} = {s}
  <2> SUFFICES ASSUME NEW u \in SlotIndices, TidOf(u) = t PROVE u = s
    BY <1>1
  <2>1. u \in DeviceSlots /\ truth[u].tid = t
    BY <1>1, <1>2
  <2> QED BY <1>1, <1>3, <2>1 DEF Screens
<1>5. Max({s}) = s
  <2>1. s \in Int
    BY DEF SlotIndices
  <2> QED BY <2>1 DEF Max
<1>6. FillSnapshot[t] = PointOf(s)
  BY <1>1, <1>4, <1>5 DEF FillSnapshot
<1>7. \A i \in 1 .. 2 : PointOf(s)[i] \in {truth[s].at[i], kSlotMissingValue}
  <2>1. X \in DOMAIN slots[s] => slots[s][X] = truth[s].at[1]
    BY <1>3, AxesOfSlot DEF Agrees
  <2>2. Y \in DOMAIN slots[s] => slots[s][Y] = truth[s].at[2]
    BY <1>3, AxesOfSlot DEF Agrees
  <2>3. /\ PointOf(s)[1] = FindValueByEvent(slots[s], X)
        /\ PointOf(s)[2] = FindValueByEvent(slots[s], Y)
    BY DEF PointOf, X, Y
  <2> QED BY <2>1, <2>2, <2>3 DEF FindValueByEvent
<1> QED BY <1>1, <1>3, <1>6, <1>7

\* One that knows all that is not as on a new device: every contact is there.
LEMMA SnapshotOfAll ==
  ASSUME NewDevice, DecoderFits, NEW d \in Devices, NEW truth \in Screens,
         d.axes = AxesOf(truth), Agrees(d), Covers(d)
  PROVE  {[tid |-> t, at |-> FillSnapshot[t]] : t \in DOMAIN FillSnapshot}
           = Contacts(truth)
<1>1. ASSUME NEW s \in SlotIndices \cap DeviceSlots, truth[s].tid # -1
      PROVE  /\ PointOf(s) = truth[s].at
             /\ TidOf(s) = truth[s].tid
  <2>1. /\ truth[s].at \in Points /\ truth[s].at[1] # 0 /\ truth[s].at[2] # 0
        /\ truth[s].at = <<truth[s].at[1], truth[s].at[2]>>
    BY <1>1, KernelAssumption DEF Screens, NewDevice
  <2>2. /\ d.axes[s][TID] = truth[s].tid
        /\ d.axes[s][X] = truth[s].at[1] /\ d.axes[s][Y] = truth[s].at[2]
    BY AxesOfSlot
  <2>3. TID \in Axes /\ X \in Axes /\ Y \in Axes /\ X # TID /\ Y # TID
    BY DEF Axes, TID, X, Y
  <2>4. TID \in DOMAIN slots[s] /\ X \in DOMAIN slots[s] /\ Y \in DOMAIN slots[s]
    BY <1>1, <2>1, <2>2, <2>3 DEF Covers
  <2>5. /\ slots[s][TID] = truth[s].tid
        /\ slots[s][X] = truth[s].at[1] /\ slots[s][Y] = truth[s].at[2]
    BY <2>2, <2>4 DEF Agrees
  <2> QED BY <2>1, <2>4, <2>5 DEF PointOf, TidOf, FindValueByEvent, TID, X, Y
<1>2. ASSUME NEW t \in DOMAIN FillSnapshot
      PROVE  [tid |-> t, at |-> FillSnapshot[t]] \in Contacts(truth)
  <2>1. PICK s \in SlotIndices \cap DeviceSlots :
          t # -1 /\ truth[s].tid = t /\ FillSnapshot[t] = PointOf(s)
    BY SlotOfId
  <2>2. FillSnapshot[t] = truth[s].at /\ truth[s] \in [tid : TrackingIds, at : GlassPoints]
    BY <1>1, <2>1 DEF Screens
  <2>3. [tid |-> t, at |-> FillSnapshot[t]] = truth[s]
    BY <2>1, <2>2
  <2> QED BY <2>1, <2>3 DEF Contacts
<1>3. ASSUME NEW c \in Contacts(truth)
      PROVE  \E t \in DOMAIN FillSnapshot : c = [tid |-> t, at |-> FillSnapshot[t]]
  <2>1. PICK s \in SlotIndices \cap DeviceSlots : c = truth[s] /\ truth[s].tid # -1
    BY DEF Contacts
  <2>2. truth[s].tid \in DOMAIN FillSnapshot
    BY <1>1, <2>1 DEF FillSnapshot
  <2>3. PICK u \in SlotIndices \cap DeviceSlots :
          truth[u].tid = truth[s].tid /\ FillSnapshot[truth[s].tid] = PointOf(u)
    BY <2>2, SlotOfId
  <2>4. u = s
    BY <2>1, <2>3 DEF Screens
  <2>5. FillSnapshot[truth[s].tid] = truth[s].at
    BY <1>1, <2>1, <2>3, <2>4
  <2>6. truth[s] = [tid |-> truth[s].tid, at |-> truth[s].at]
    <3>1. truth[s] \in [tid : TrackingIds, at : GlassPoints]
      BY DEF Screens
    <3> QED BY <3>1
  <2> QED BY <2>1, <2>2, <2>5, <2>6
<1> QED BY <1>2, <1>3

-----------------------------------------------------------------------------
LEMMA InputInit ==
  ASSUME Init
  PROVE  InputInv
<1>1. ReaderInv
  BY InitFits DEF Init
<1>2. IdsFit
  <2>1. \A s \in SlotIndices : TidOf(s) = -1
    BY DEF Init, ReaderInit, DecoderInit, NoSlots, TidOf, FindValueByEvent,
           kSlotMissingValue
  <2>2. /\ reported = {} /\ stream = <<>> /\ snapshot = <<>> /\ next_tid = 1
    BY DEF Init, ReaderInit, KernelInit, DecoderInit
  <2>3. -1 \in TrackingIds
    BY KernelAssumption DEF TrackingIds
  <2> QED BY <2>1, <2>2, <2>3 DEF IdsFit, KnownIds, NewIds
<1>3. SnapshotIsTruth
  <2>1. DOMAIN snapshot = {} /\ last_truth = hw
    BY DEF Init, ReaderInit, DecoderInit
  <2>2. \A s \in DeviceSlots : hw[s].tid = -1
    BY DEF Init, ReaderInit, KernelInit
  <2> QED BY <2>1, <2>2 DEF SnapshotIsTruth, Contacts
<1> QED BY <1>1, <1>2, <1>3 DEF InputInv

LEMMA TouchScreenFits ==
  ASSUME InputInv, TouchScreen
  PROVE  InputInv'
<1>1. /\ ReaderInv /\ IdsFit /\ KernelFits /\ Touch
      /\ UNCHANGED <<decoder_vars, reader_vars, reported>>
  BY DEF InputInv, ReaderInv, TouchScreen, Touch
<1>2. ReaderInv'
  BY <1>1, TouchFits
<1>3. KnownIds' = KnownIds
  BY <1>1 DEF KnownIds, TidOf, decoder_vars
<1>4. KnownIds \in SUBSET Int
  BY <1>1, KernelAssumption DEF IdsFit, TrackingIds
<1>5. /\ next_tid \in Nat /\ next_tid' \in Nat
      /\ \A k \in KnownIds : k < next_tid
  BY <1>1, <1>2 DEF ReaderInv, KernelFits, IdsFit
<1>6. next_tid <= next_tid' /\ NewIds(stream', KnownIds, next_tid')
  <2>1. CASE SendReport
    <3>1. next_tid' = next_tid
      BY <2>1 DEF SendReport
    <3> QED BY <1>1, <1>4, <1>5, <2>1, <3>1, ReportNewIds DEF IdsFit
  <2>2. ASSUME NEW s \in DeviceSlots, NEW new \in [tid : TrackingIds, at : GlassPoints],
               Changes(s, new)
        PROVE  next_tid <= next_tid' /\ NewIds(stream', KnownIds, next_tid')
    BY <1>1, <1>4, <1>5, <2>2, SlotNewIds DEF Changes, IdsFit
  <2> QED BY <1>1, <2>1, <2>2, FrameChanges DEF Touch
<1>7. \A k \in KnownIds : k < next_tid'
  BY <1>4, <1>5, <1>6
<1>8. IdsFit'
  BY <1>1, <1>3, <1>6, <1>7 DEF IdsFit, TidOf, decoder_vars
<1>9. SnapshotIsTruth => SnapshotIsTruth'
  BY <1>1 DEF SnapshotIsTruth, Contacts, decoder_vars, reader_vars
<1> QED BY <1>2, <1>8, <1>9 DEF InputInv

\* Reading takes the first event away, whose id becomes known.
LEMMA TailNewIds ==
  ASSUME NEW q \in Seq(Events), q # <<>>, NEW K \in SUBSET Int, NEW n,
         NewIds(q, K, n)
  PROVE  NewIds(Tail(q), K \cup (IF IsId(Head(q)) THEN {Head(q).value} ELSE {}), n)
<1> DEFINE p == Tail(q)
<1>1. /\ Len(q) \in Nat /\ Len(q) > 0 /\ Len(p) = Len(q) - 1
      /\ \A i \in 1 .. Len(p) : p[i] = q[i + 1]
      /\ Head(q) = q[1]
  OBVIOUS
<1> HIDE DEF p
<1>2. ASSUME NEW i \in 1 .. Len(p), IsId(p[i])
      PROVE  /\ p[i].value < n
             /\ \A k \in K : k < p[i].value
             /\ IsId(Head(q)) => Head(q).value < p[i].value
             /\ \A j \in 1 .. i - 1 : IsId(p[j]) => p[j].value < p[i].value
  <2>1. i + 1 \in 1 .. Len(q) /\ p[i] = q[i + 1]
    BY <1>1
  <2>2. /\ q[i + 1].value < n
        /\ \A k \in K : k < q[i + 1].value
        /\ \A j \in 1 .. (i + 1) - 1 : IsId(q[j]) => q[j].value < q[i + 1].value
    BY <1>2, <2>1 DEF NewIds
  <2>3. IsId(Head(q)) => Head(q).value < p[i].value
    <3>1. 1 \in 1 .. (i + 1) - 1
      BY <1>1
    <3> QED BY <1>1, <2>1, <2>2, <3>1
  <2>4. ASSUME NEW j \in 1 .. i - 1, IsId(p[j]) PROVE p[j].value < p[i].value
    <3>1. j + 1 \in 1 .. (i + 1) - 1 /\ p[j] = q[j + 1]
      BY <1>1, <2>1
    <3> QED BY <2>1, <2>2, <2>4, <3>1
  <2> QED BY <2>1, <2>2, <2>3, <2>4
<1>3. NewIds(p, K \cup (IF IsId(Head(q)) THEN {Head(q).value} ELSE {}), n)
  BY <1>2 DEF NewIds
<1> QED BY <1>3 DEF p

LEMMA SlotIds ==
  ASSUME ReaderInv, NEW ev, ReadPart(ev), NEW s \in SlotIndices
  PROVE  TidOf(s)' \in {-1, TidOf(s)} \cup (IF ev.type = TID THEN {ev.value} ELSE {})
<1> USE DEF TidOf, FindValueByEvent, kSlotMissingValue, TID
<1>1. slots = [u \in SlotIndices |-> slots[u]]
  BY DEF ReaderInv, DecoderFits
<1>2. CASE AddDropped(ev)
  BY <1>2 DEF AddDropped, NoSlots
<1>3. CASE AddWhileDropping(ev) \/ AddSlot(ev)
  BY <1>3 DEF AddWhileDropping, AddSlot
<1>4. CASE AddAxis(ev)
  <2>1. slots' = IF current_slot = -1 THEN slots
                 ELSE [slots EXCEPT ![current_slot] =
                         [a \in DOMAIN slots[current_slot] \cup {ev.type} |->
                            IF a = ev.type THEN ev.value
                            ELSE slots[current_slot][a]]]
    BY <1>4 DEF AddAxis
  <2>2. CASE current_slot = -1 \/ s # current_slot
    <3>1. slots'[s] = slots[s]
      BY <1>1, <2>1, <2>2
    <3> QED BY <3>1
  <2>3. CASE current_slot # -1 /\ s = current_slot
    <3>1. slots'[s] = [a \in DOMAIN slots[s] \cup {ev.type} |->
                         IF a = ev.type THEN ev.value ELSE slots[s][a]]
      BY <1>1, <2>1, <2>3
    <3> QED BY <3>1
  <2> QED BY <2>2, <2>3
<1> QED BY <1>2, <1>3, <1>4 DEF ReadPart, AddPart

LEMMA ReadPartIds ==
  ASSUME ReaderInv, IdsFit, stream # <<>>, ReadPart(Head(stream)),
         reported' = reported \cup DOMAIN snapshot'
  PROVE  IdsFit'
<1> DEFINE ev == Head(stream)
           K  == KnownIds \cup (IF IsId(ev) THEN {ev.value} ELSE {})
<1>1. /\ stream \in Seq(Events) /\ stream' = Tail(stream) /\ next_tid' = next_tid
      /\ snapshot' = snapshot
  BY DEF ReaderInv, KernelFits, Queues, ReadPart, Read, AddPart, AddDropped,
         AddWhileDropping, AddSlot, AddAxis
<1>2. reported' = reported /\ -1 \notin reported
  BY <1>1 DEF IdsFit
<1>3. KnownIds \in SUBSET Int
  BY KernelAssumption DEF IdsFit, TrackingIds
<1>4. IsId(ev) => /\ ev.value \in TrackingIds /\ ev.value < next_tid
                  /\ \A k \in KnownIds : k < ev.value
  <2>1. ev \in Events /\ 1 \in 1 .. Len(stream) /\ stream[1] = ev
    BY <1>1
  <2>2. IsId(ev) => ev.value \in TrackingIds
    BY <2>1 DEF IsId, Events, TID, X, Y, Dropped
  <2> QED BY <2>1, <2>2 DEF IdsFit, NewIds
<1>5. KnownIds' \subseteq K
  BY <1>2, SlotIds DEF KnownIds, IsId
<1>6. NewIds(stream', K, next_tid)
  BY <1>1, <1>3, TailNewIds DEF IdsFit
<1>7. NewIds(stream', KnownIds', next_tid')
  BY <1>1, <1>5, <1>6 DEF NewIds
<1>8. /\ K \subseteq TrackingIds
      /\ \A k \in K : k < next_tid
  BY <1>4 DEF IdsFit
<1>9. ASSUME NEW s \in SlotIndices, TidOf(s)' \in reported
      PROVE  TidOf(s)' \in DOMAIN snapshot
  <2>1. TidOf(s)' \in {-1, TidOf(s)} \cup (IF ev.type = TID THEN {ev.value} ELSE {})
    BY SlotIds
  <2>2. CASE TidOf(s)' = TidOf(s)
    BY <1>9, <2>2 DEF IdsFit
  <2>3. CASE IsId(ev) /\ TidOf(s)' = ev.value
    <3>1. ev.value \in KnownIds /\ ev.value \in Int
      BY <1>2, <1>3, <1>9, <2>3 DEF KnownIds
    <3> QED BY <1>4, <2>3, <3>1
  <2> QED BY <1>2, <1>9, <2>1, <2>2, <2>3 DEF IsId
<1> HIDE DEF K
<1>10. /\ KnownIds' \subseteq TrackingIds
       /\ \A k \in KnownIds' : k < next_tid'
  BY <1>1, <1>5, <1>8
<1> QED BY <1>1, <1>2, <1>7, <1>9, <1>10 DEF IdsFit

LEMMA ReadReportIds ==
  ASSUME ReaderInv, IdsFit, stream # <<>>, ReadReport(Head(stream), TRUE),
         reported' = reported \cup DOMAIN snapshot'
  PROVE  IdsFit' /\ DOMAIN snapshot' \cap reported \subseteq DOMAIN snapshot
<1> DEFINE ev == Head(stream)
<1>1. /\ stream \in Seq(Events) /\ stream' = Tail(stream) /\ next_tid' = next_tid
      /\ ev.type = "SYN_REPORT" /\ slots' = slots /\ snapshot' = FillSnapshot
  BY DEF ReaderInv, KernelFits, Queues, ReadReport, Read, AddReport
<1>2. DOMAIN snapshot' = {TidOf(s) : s \in SlotIndices} \ {-1}
  BY <1>1 DEF FillSnapshot
<1>3. \A s \in SlotIndices : TidOf(s)' = TidOf(s)
  BY <1>1 DEF TidOf
<1>4. KnownIds' = KnownIds
  BY <1>2, <1>3 DEF KnownIds
<1>5. KnownIds \in SUBSET Int
  BY KernelAssumption DEF IdsFit, TrackingIds
<1>6. NewIds(stream', KnownIds, next_tid)
  <2>1. ~IsId(ev)
    BY <1>1 DEF IsId, TID
  <2> QED BY <1>1, <1>5, <2>1, TailNewIds DEF IdsFit
<1>7. DOMAIN snapshot' \cap reported \subseteq DOMAIN snapshot
  BY <1>2 DEF IdsFit
<1>8. IdsFit'
  BY <1>1, <1>2, <1>3, <1>4, <1>6 DEF IdsFit
<1> QED BY <1>7, <1>8

LEMMA ReadEventFits ==
  ASSUME InputInv, ReadEvent
  PROVE  InputInv'
<1>1. /\ ReaderInv /\ IdsFit /\ stream # <<>>
      /\ ReadPart(Head(stream)) \/ ReadReport(Head(stream), TRUE)
      /\ reported' = reported \cup DOMAIN snapshot'
  BY DEF InputInv, ReadEvent
<1>2. CASE ReadPart(Head(stream))
  <2>1. ReaderInv' /\ IdsFit'
    BY <1>1, <1>2, ReadPartFits, ReadPartIds
  <2>2. snapshot' = snapshot /\ last_truth' = last_truth
    BY <1>2 DEF ReadPart, AddPart, AddDropped, AddWhileDropping, AddSlot, AddAxis
  <2>3. ~lost' => ~lost
    BY <1>2, Zenon DEF ReadPart, Read
  <2>4. SnapshotIsTruth => SnapshotIsTruth'
    BY <2>2, <2>3 DEF SnapshotIsTruth, Contacts
  <2> QED BY <2>1, <2>4 DEF InputInv
<1>3. CASE ReadReport(Head(stream), TRUE)
  <2>1. /\ ReaderInv' /\ last_truth' \in Screens /\ lost' = lost
        /\ \E d \in Devices : d.axes = AxesOf(last_truth') /\ Mirrors(d)
    BY <1>1, <1>3, ReadReportFits
  <2>2. IdsFit'
    BY <1>1, <1>3, ReadReportIds
  <2>3. ASSUME NewDevice, ~lost
        PROVE  {[tid |-> t, at |-> snapshot'[t]] : t \in DOMAIN snapshot'}
                 = Contacts(last_truth')
    <3>1. PICK d \in Devices : d.axes = AxesOf(last_truth') /\ Agrees(d) /\ Covers(d)
      BY <2>1, <2>3 DEF Mirrors
    <3>2. snapshot' = FillSnapshot
      BY <1>3 DEF ReadReport, AddReport
    <3>3. DecoderFits
      BY <1>1 DEF ReaderInv
    <3> QED BY <2>1, <2>3, <3>1, <3>2, <3>3, SnapshotOfAll
  <2>4. NewDevice => SnapshotIsTruth'
    BY <2>1, <2>3 DEF SnapshotIsTruth, Contacts
  <2> QED BY <2>1, <2>2, <2>4 DEF InputInv
<1> QED BY <1>1, <1>2, <1>3

LEMMA InputStutters ==
  ASSUME InputInv, UNCHANGED vars
  PROVE  InputInv'
<1>1. ReaderInv'
  BY DEF vars, kernel_vars, decoder_vars, reader_vars, InputInv, ReaderInv,
         KernelFits, DecoderFits, FlagsFit, LeadsTo, Mirrors, Agrees, Covers,
         DeviceNow, NoSlots
<1>2. IdsFit'
  BY DEF vars, kernel_vars, decoder_vars, InputInv, IdsFit, KnownIds, TidOf
<1>3. SnapshotIsTruth => SnapshotIsTruth'
  BY DEF vars, decoder_vars, reader_vars, SnapshotIsTruth, Contacts
<1> QED BY <1>1, <1>2, <1>3 DEF InputInv

\* What the unread events lead to, which ids are new, and what was reported.
THEOREM InputInvariant == Spec => []InputInv
<1>1. Init => InputInv
  BY InputInit
<1>2. InputInv /\ [Next]_vars => InputInv'
  <2> SUFFICES ASSUME InputInv, [Next]_vars PROVE InputInv'
    OBVIOUS
  <2> QED BY TouchScreenFits, ReadEventFits, InputStutters DEF Next
<1> QED BY <1>1, <1>2, PTL DEF Spec

-----------------------------------------------------------------------------
\* Type correctness for every number of slots, points, ids and events.
THEOREM TypeCorrect == Spec => []TypeOK
<1>1. InputInv => TypeOK
  <2> SUFFICES ASSUME InputInv PROVE TypeOK
    OBVIOUS
  <2>1. /\ hw \in [DeviceSlots -> [tid : Ids, at : Places]]
        /\ hw_slot \in DeviceSlots /\ next_tid \in 1 .. MaxTid + 1
        /\ Len(stream) < BufSize /\ changed \subseteq DeviceSlots
    <3>1. hw \in [DeviceSlots -> [tid : TrackingIds, at : GlassPoints]]
      BY DEF InputInv, ReaderInv, KernelFits, Screens
    <3>2. TrackingIds \subseteq Ids /\ GlassPoints = Places
      BY SentValues DEF Ids, Places, GlassPoints
    <3>3. hw \in [DeviceSlots -> [tid : Ids, at : Places]]
      BY <3>1, <3>2
    <3> QED BY <3>3 DEF InputInv, ReaderInv, KernelFits, Queues
  <2>2. /\ \A s \in SlotIndices : DOMAIN slots[s] \subseteq Axes
        /\ current_slot \in {-1} \cup SlotIndices
    BY DEF InputInv, ReaderInv, DecoderFits
  <2>3. dropping_events \in BOOLEAN
    BY Zenon DEF InputInv, ReaderInv, FlagsFit
  <2>4. DOMAIN snapshot \subseteq Ids \ {-1}
    BY SentValues DEF InputInv, IdsFit, KnownIds, Ids
  <2> QED BY <2>1, <2>2, <2>3, <2>4, Zenon DEF TypeOK
<1> QED BY <1>1, InputInvariant, PTL

\* A worker that starts on a new device sees in every snapshot what is on the
\* glass, until events are lost.
THEOREM SnapshotsAreTrue ==
  ASSUME NewDevice
  PROVE  Spec => []SnapshotIsTruth
<1>1. InputInv => SnapshotIsTruth
  BY NewDevice DEF InputInv
<1> QED BY <1>1, InputInvariant, PTL

\* A complete frame of a decoder in step: each contact is on the glass.
LEMMA ReportHasNoGhost ==
  ASSUME InputInv, ReadReport(Head(stream), TRUE), in_step,
         NEW t \in DOMAIN snapshot'
  PROVE  \E c \in Contacts(last_truth') :
           /\ c.tid = t
           /\ \A i \in 1 .. 2 : snapshot'[t][i] \in {c.at[i], kSlotMissingValue}
<1>1. stream # <<>> /\ ReaderInv /\ DecoderFits
  BY DEF InputInv, ReaderInv, ReadReport, Read
<1>2. /\ last_truth' \in Screens /\ ~dropping_events
      /\ \E d \in Devices : d.axes = AxesOf(last_truth') /\ Mirrors(d)
  BY <1>1, ReadReportFits
<1>3. PICK d \in Devices : d.axes = AxesOf(last_truth') /\ Agrees(d)
  BY <1>2 DEF Mirrors
<1>4. snapshot' = FillSnapshot
  BY DEF ReadReport, AddReport
<1>5. PICK s \in SlotIndices \cap DeviceSlots :
        /\ t # -1 /\ last_truth'[s].tid = t
        /\ FillSnapshot[t] = PointOf(s)
        /\ \A i \in 1 .. 2 :
             PointOf(s)[i] \in {last_truth'[s].at[i], kSlotMissingValue}
  BY <1>1, <1>2, <1>3, <1>4, SlotOfId
<1>6. last_truth'[s] \in Contacts(last_truth')
  BY <1>5 DEF Contacts
<1> QED BY <1>4, <1>5, <1>6

\* A decoder that resumed in the slot of the device, after whatever loss and on
\* a device used before, shows only contacts that are there.
THEOREM NoGhosts == Spec => NoGhostInStep
<1>1. InputInv =>
        (ReadReport(Head(stream), TRUE) /\ in_step =>
           \A t \in DOMAIN snapshot' :
             \E c \in Contacts(last_truth') :
               /\ c.tid = t
               /\ \A i \in 1 .. 2 :
                    snapshot'[t][i] \in {c.at[i], kSlotMissingValue})
  BY ReportHasNoGhost
<1> QED BY <1>1, InputInvariant, PTL DEF Spec, NoGhostInStep

\* No tracking id comes back, whatever is lost.
THEOREM TrackingIdsNeverReturn == Spec => TrackingIdNeverReturns
<1>1. InputInv /\ [Next]_vars => DOMAIN snapshot' \cap reported \subseteq DOMAIN snapshot
  <2> SUFFICES ASSUME InputInv, [Next]_vars
               PROVE  DOMAIN snapshot' \cap reported \subseteq DOMAIN snapshot
    OBVIOUS
  <2>1. CASE ReadEvent /\ ReadReport(Head(stream), TRUE)
    BY <2>1, ReadReportIds DEF ReadEvent, InputInv
  <2>2. CASE ~(ReadEvent /\ ReadReport(Head(stream), TRUE))
    <3>1. snapshot' = snapshot
      BY <2>2 DEF Next, TouchScreen, Touch, ReadEvent, ReadPart, AddPart,
         AddDropped, AddWhileDropping, AddSlot, AddAxis, vars, decoder_vars
    <3> QED BY <3>1
  <2> QED BY <2>1, <2>2
<1> QED BY <1>1, InputInvariant, PTL DEF Spec, TrackingIdNeverReturns
=============================================================================
