----------------------------- MODULE TouchInput -----------------------------
(***************************************************************************)
(* The input half of the keyboard worker: Consume() up to the snapshot.    *)
(***************************************************************************)
EXTENDS TouchReader

VARIABLE reported  \* history: every tracking id a snapshot ever had

vars == <<kernel_vars, decoder_vars, reader_vars, reported>>

Init == ReaderInit /\ reported = {}

TouchScreen == Touch /\ UNCHANGED reported

ReadEvent ==
  /\ stream # <<>>
  /\ \/ ReadPart(Head(stream))
     \/ ReadReport(Head(stream), TRUE)
  /\ reported' = reported \cup DOMAIN snapshot'

Next == TouchScreen \/ ReadEvent

Spec == Init /\ [][Next]_vars
-----------------------------------------------------------------------------
Ids == -1 .. MaxTid
Places == Points \cup StartPoints

\* Every variable has its type.
TypeOK ==
  /\ hw \in [DeviceSlots -> [tid : Ids, at : Places]]
  /\ hw_slot \in DeviceSlots
  /\ next_tid \in 1 .. MaxTid + 1
  /\ Len(stream) < BufSize
  /\ changed \subseteq DeviceSlots
  /\ \A s \in SlotIndices : DOMAIN slots[s] \subseteq Axes
  /\ current_slot \in {-1} \cup SlotIndices
  /\ dropping_events \in BOOLEAN
  /\ DOMAIN snapshot \subseteq Ids \ {-1}

\* The contacts of the last report that lie in slots the decoder keeps.
Contacts(truth) ==
  {truth[s] : s \in {d \in DeviceSlots \cap SlotIndices : truth[d].tid # -1}}

\* "The snapshot is a mapping from tracking IDs to finger data at the time of
\* the SYN event" (state_machine.h:36), as long as no event was lost, whatever
\* is sent about slots beyond kNumSlots.
SnapshotIsTruth ==
  ~lost => {[tid |-> t, at |-> snapshot[t]] : t \in DOMAIN snapshot}
             = Contacts(last_truth)

\* After events were lost, a decoder that resumed in the slot of the device
\* reports no contact that is gone, and each one where it is or with a
\* coordinate missing (the kernel does not repeat an unchanged value).
NoGhostInStep ==
  [][ReadReport(Head(stream), TRUE) /\ in_step =>
       \A t \in DOMAIN snapshot' :
         \E c \in Contacts(last_truth') :
           /\ c.tid = t
           /\ \A i \in 1 .. 2 :
                snapshot'[t][i] \in {c.at[i], kSlotMissingValue}]_vars

\* A tracking id that left the snapshots never comes back, not even after lost
\* events: what FakeKeyboard relies on when it keeps events of a lifted finger
\* under its id.
TrackingIdNeverReturns ==
  [][DOMAIN snapshot' \cap reported \subseteq DOMAIN snapshot]_vars
=============================================================================
