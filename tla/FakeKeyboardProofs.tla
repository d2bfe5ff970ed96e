------------------------- MODULE FakeKeyboardProofs -------------------------
(***************************************************************************)
(* Theorems about the keyboard worker, for any layout, any number of       *)
(* contacts, any readings and any clock: the types of its variables, what  *)
(* its list operations do, its inductive invariant, what follows from it,  *)
(* and that it implements KeyTaps.                                         *)
(***************************************************************************)
EXTENDS FakeKeyboardProps, WellFoundedInduction, TLAPS

-----------------------------------------------------------------------------
(***************************************************************************)
(* What the list operations do, for lists of any length.                   *)
(***************************************************************************)

\* A list: its ranks are natural numbers, and there is a last one.
IsList(q) ==
  /\ DOMAIN q \subseteq Nat
  /\ \E n \in Nat : \A r \in DOMAIN q : r <= n

\* Event deadlines do not decrease from the front to the back.
Sorted(q) ==
  \A r, s \in DOMAIN q : r < s => q[r].deadline <= q[s].deadline

\* A non-empty set of natural numbers has a minimum.
LEMMA MinOfNats ==
  ASSUME NEW S, S \subseteq Nat, S # {}
  PROVE  /\ Min(S) \in S
         /\ \A y \in S : Min(S) <= y
<1>1. PICK x \in S : \A y \in S : <<y, x>> \notin OpToRel(<, Nat)
  BY NatLessThanWellFounded, WFMin
<1>2. ASSUME NEW y \in S PROVE x <= y
  <2>1. <<y, x>> \in Nat \X Nat
    OBVIOUS
  <2>2. ~(<<y, x>>[1] < <<y, x>>[2])
    BY <1>1, <2>1 DEF OpToRel
  <2>3. ~(y < x)
    BY <2>2
  <2>4. x \in Nat /\ y \in Nat
    OBVIOUS
  <2>5. QED
    BY <2>3, <2>4
<1>3. QED
  BY <1>2 DEF Min

\* A non-empty, bounded set of natural numbers has a maximum.
LEMMA MaxOfNats ==
  ASSUME NEW S, S \subseteq Nat, S # {},
         NEW n \in Nat, \A y \in S : y <= n
  PROVE  /\ Max(S) \in S
         /\ \A y \in S : y <= Max(S)
<1> DEFINE Bounds == {b \in Nat : \A y \in S : y <= b}
<1>1. Bounds \subseteq Nat /\ Bounds # {}
  OBVIOUS
<1> DEFINE m == Min(Bounds)
<1>2. m \in Bounds /\ \A b \in Bounds : m <= b
  BY <1>1, MinOfNats
<1> HIDE DEF m
<1>3. m \in S
  <2>1. SUFFICES ASSUME m \notin S PROVE FALSE
    OBVIOUS
  <2>2. \A y \in S : y <= m - 1
    BY <1>2, <2>1
  <2>3. m - 1 \in Nat
    <3>1. PICK y \in S : y <= m - 1
      BY <2>2
    <3>2. QED
      BY <1>2, <3>1
  <2>4. m - 1 \in Bounds
    BY <2>2, <2>3
  <2>5. QED
    BY <1>2, <2>4
<1>4. QED
  BY <1>2, <1>3 DEF Max

\* The end of a list is a rank of its own, behind all others.
LEMMA EndRankIsNew ==
  ASSUME NEW q, IsList(q)
  PROVE  /\ EndRank(q) \in Nat
         /\ EndRank(q) \notin DOMAIN q
         /\ \A r \in DOMAIN q : r < EndRank(q)
<1>1. CASE DOMAIN q = {}
  BY <1>1 DEF EndRank
<1>2. CASE DOMAIN q # {}
  <2>1. PICK n \in Nat : \A r \in DOMAIN q : r <= n
    BY DEF IsList
  <2>2. Max(DOMAIN q) \in DOMAIN q /\ \A r \in DOMAIN q : r <= Max(DOMAIN q)
    BY <1>2, <2>1, MaxOfNats DEF IsList
  <2>3. EndRank(q) = Max(DOMAIN q) + 1
    BY <1>2 DEF EndRank
  <2>4. QED
    BY <2>2, <2>3 DEF IsList
<1>3. QED
  BY <1>1, <1>2

\* push_back leaves the list as it is and adds one event behind it.
LEMMA PushBackAdds ==
  ASSUME NEW q, NEW ev, IsList(q)
  PROVE  /\ IsList(PushBack(q, ev))
         /\ DOMAIN PushBack(q, ev) = DOMAIN q \cup {EndRank(q)}
         /\ PushBack(q, ev)[EndRank(q)] = ev
         /\ \A r \in DOMAIN q : PushBack(q, ev)[r] = q[r]
<1>1. /\ EndRank(q) \in Nat
      /\ EndRank(q) \notin DOMAIN q
      /\ \A r \in DOMAIN q : r < EndRank(q)
  BY EndRankIsNew
<1>2. DOMAIN PushBack(q, ev) = DOMAIN q \cup {EndRank(q)}
  BY DEF PushBack
<1>3. PushBack(q, ev)[EndRank(q)] = ev
  BY DEF PushBack
<1>4. \A r \in DOMAIN q : PushBack(q, ev)[r] = q[r]
  BY <1>1 DEF PushBack
<1>5. \A r \in DOMAIN PushBack(q, ev) : r <= EndRank(q)
  BY <1>1, <1>2 DEF IsList
<1>6. IsList(PushBack(q, ev))
  BY <1>1, <1>2, <1>5 DEF IsList
<1>7. QED
  BY <1>2, <1>3, <1>4, <1>6

\* An event that is not earlier than any other one goes to the end.
LEMMA EnqueueLatest ==
  ASSUME NEW q, NEW ev,
         \A r \in DOMAIN q : ~(q[r].deadline > ev.deadline)
  PROVE  EnqueueEvent(q, ev) = PushBack(q, ev)
BY DEF EnqueueEvent

\* push_back of an event that is not earlier keeps a list sorted.
LEMMA PushBackKeepsOrder ==
  ASSUME NEW q, NEW ev, IsList(q), Sorted(q),
         \A r \in DOMAIN q : q[r].deadline <= ev.deadline,
         ev.deadline \in Int
  PROVE  Sorted(PushBack(q, ev))
<1> DEFINE new == PushBack(q, ev)
<1>1. /\ EndRank(q) \in Nat
      /\ \A r \in DOMAIN q : r < EndRank(q)
  BY EndRankIsNew
<1>2. /\ DOMAIN new = DOMAIN q \cup {EndRank(q)}
      /\ new[EndRank(q)] = ev
      /\ \A r \in DOMAIN q : new[r] = q[r]
  BY ZenonT(30), PushBackAdds
<1> HIDE DEF new
<1>3. Sorted(new)
  BY <1>1, <1>2 DEF Sorted, IsList
<1>4. QED
  BY <1>3 DEF new

\* insert(it, ev) in front of the first later event of a sorted list leaves it
\* sorted.
LEMMA InsertKeepsOrder ==
  ASSUME NEW q, NEW ev, IsList(q), Sorted(q),
         ev.deadline \in Int, \A r \in DOMAIN q : q[r].deadline \in Int,
         NEW at \in DOMAIN q, q[at].deadline > ev.deadline,
         \A r \in DOMAIN q : q[r].deadline > ev.deadline => at <= r
  PROVE  IsList(InsertBefore(q, at, ev)) /\ Sorted(InsertBefore(q, at, ev))
<1> DEFINE new == InsertBefore(q, at, ev)
           head == {i \in DOMAIN q : i < at}
           back == {i + 1 : i \in {j \in DOMAIN q : j >= at}}
<1>1. DOMAIN new = head \cup {at} \cup back
  BY DEF InsertBefore
<1>2. /\ \A r \in head : r \in DOMAIN q /\ r < at /\ new[r] = q[r]
      /\ new[at] = ev
      /\ \A r \in back : r - 1 \in DOMAIN q /\ r - 1 >= at /\ new[r] = q[r - 1]
  BY DEF InsertBefore, IsList
<1>3. head \cup {at} \cup back \subseteq Nat
  BY DEF IsList
<1> HIDE DEF new, head, back
<1>4. IsList(new)
  <2>1. PICK n \in Nat : \A r \in DOMAIN q : r <= n
    BY DEF IsList
  <2>2. \A r \in DOMAIN new : r <= n + 1
    BY <1>1, <1>2, <1>3, <2>1 DEF IsList
  <2>3. DOMAIN new \subseteq Nat /\ n + 1 \in Nat
    BY <1>1, <1>3
  <2>4. QED
    BY <2>2, <2>3 DEF IsList
<1>5. Sorted(new)
  <2>1. SUFFICES ASSUME NEW r \in DOMAIN new, NEW s \in DOMAIN new, r < s
                 PROVE  new[r].deadline <= new[s].deadline
    BY DEF Sorted
  <2>2. \A i \in head : q[i].deadline <= ev.deadline
    BY <1>2 DEF IsList
  <2>3. \A i \in back : q[i - 1].deadline > ev.deadline
    <3>1. \A i \in back : q[at].deadline <= q[i - 1].deadline
      BY <1>2, <1>3, <2>1 DEF IsList, Sorted
    <3>2. QED
      BY <1>2, <3>1
  <2>4. CASE r \in head
    BY <1>1, <1>2, <1>3, <2>1, <2>2, <2>3, <2>4 DEF Sorted
  <2>5. CASE r = at
    BY <1>1, <1>2, <1>3, <2>1, <2>3, <2>5
  <2>6. CASE r \in back
    BY <1>1, <1>2, <1>3, <2>1, <2>6 DEF Sorted
  <2>7. QED
    BY <1>1, <2>1, <2>4, <2>5, <2>6
<1>6. QED
  BY <1>4, <1>5 DEF new

\* EnqueueEvent, "maintaining chronological order of the deadlines"
\* (fake_keyboard.h:203): whatever is enqueued, a sorted list stays sorted.
THEOREM EnqueueKeepsOrder ==
  ASSUME NEW q, NEW ev, IsList(q), Sorted(q),
         ev.deadline \in Int, \A r \in DOMAIN q : q[r].deadline \in Int
  PROVE  IsList(EnqueueEvent(q, ev)) /\ Sorted(EnqueueEvent(q, ev))
<1> DEFINE later == {r \in DOMAIN q : q[r].deadline > ev.deadline}
<1>1. CASE later = {}
  <2>1. EnqueueEvent(q, ev) = PushBack(q, ev)
    BY <1>1 DEF EnqueueEvent
  <2>2. IsList(PushBack(q, ev))
    BY PushBackAdds
  <2>3. Sorted(PushBack(q, ev))
    BY <1>1, PushBackKeepsOrder
  <2>4. QED
    BY <2>1, <2>2, <2>3
<1>2. CASE later # {}
  <2>1. EnqueueEvent(q, ev) = InsertBefore(q, Min(later), ev)
    BY <1>2 DEF EnqueueEvent
  <2>2. Min(later) \in later /\ \A r \in later : Min(later) <= r
    BY <1>2, MinOfNats DEF IsList
  <2>3. QED
    BY <2>1, <2>2, InsertKeepsOrder
<1>3. QED
  BY <1>1, <1>2

\* Erasing events keeps a list a list.
LEMMA WithoutShrinks ==
  ASSUME NEW q, NEW ranks
  PROVE  /\ DOMAIN Without(q, ranks) = DOMAIN q \ ranks
         /\ \A r \in DOMAIN q \ ranks : Without(q, ranks)[r] = q[r]
         /\ IsList(q) => IsList(Without(q, ranks))
         /\ Sorted(q) => Sorted(Without(q, ranks))
<1>1. /\ DOMAIN Without(q, ranks) = DOMAIN q \ ranks
      /\ \A r \in DOMAIN q \ ranks : Without(q, ranks)[r] = q[r]
  BY DEF Without, Restrict
<1>2. IsList(q) => IsList(Without(q, ranks))
  BY <1>1 DEF IsList
<1>3. Sorted(q) => Sorted(Without(q, ranks))
  BY <1>1 DEF Sorted
<1>4. QED
  BY <1>1, <1>2, <1>3

-----------------------------------------------------------------------------
(***************************************************************************)
(* The queue.                                                              *)
(***************************************************************************)

\* A queue of well-formed events, none due later than a delay after `time`.
QueueOK(q, time) ==
  /\ IsList(q)
  /\ q \in [DOMAIN q -> Event]
  /\ \A r \in DOMAIN q : EventFits(q[r], time)

\* Erasing events keeps the queue well-formed.
LEMMA WithoutOK ==
  ASSUME NEW q, NEW ranks, NEW time, QueueOK(q, time)
  PROVE  QueueOK(Without(q, ranks), time)
<1>1. /\ DOMAIN Without(q, ranks) = DOMAIN q \ ranks
      /\ \A r \in DOMAIN q \ ranks : Without(q, ranks)[r] = q[r]
      /\ IsList(Without(q, ranks))
  BY WithoutShrinks DEF QueueOK
<1>2. Without(q, ranks) \in [DOMAIN Without(q, ranks) -> Event]
  BY <1>1 DEF QueueOK, Without, Restrict
<1>3. QED
  BY <1>1, <1>2 DEF QueueOK

\* Later, it still is.
LEMMA LaterOK ==
  ASSUME NEW q, NEW time \in Nat, NEW later \in Nat, time <= later,
         QueueOK(q, time)
  PROVE  QueueOK(q, later)
BY TimeAssumption DEF QueueOK, EventFits, Event

\* Marking an event guaranteed changes nothing else.
LEMMA GuaranteeOK ==
  ASSUME NEW q, NEW t, NEW time, QueueOK(q, time)
  PROVE  /\ QueueOK(Guarantee(q, t), time)
         /\ DOMAIN Guarantee(q, t) = DOMAIN q
         /\ \A r \in DOMAIN q :
              /\ Guarantee(q, t)[r].code = q[r].code
              /\ Guarantee(q, t)[r].is_down = q[r].is_down
              /\ Guarantee(q, t)[r].tid = q[r].tid
              /\ Guarantee(q, t)[r].deadline = q[r].deadline
              /\ Guarantee(q, t)[r].contact = q[r].contact
<1>1. CASE EventsOf(q, t) = {}
  BY <1>1 DEF Guarantee
<1>2. CASE EventsOf(q, t) # {}
  <2> DEFINE m == Min(EventsOf(q, t))
             new == [q EXCEPT ![m].is_guaranteed = TRUE]
  <2>1. Guarantee(q, t) = new
    BY <1>2 DEF Guarantee
  <2> HIDE DEF m
  <2>2. DOMAIN new = DOMAIN q
    OBVIOUS
  <2>3. \A r \in DOMAIN q :
          /\ new[r] \in Event
          /\ new[r].code = q[r].code
          /\ new[r].is_down = q[r].is_down
          /\ new[r].is_guaranteed = (r = m \/ q[r].is_guaranteed)
          /\ new[r].tid = q[r].tid
          /\ new[r].deadline = q[r].deadline
          /\ new[r].contact = q[r].contact
    BY DEF QueueOK, Event
  <2>4. new \in [DOMAIN new -> Event]
    BY <2>2, <2>3
  <2> HIDE DEF new
  <2>5. IsList(new)
    BY <2>2 DEF QueueOK, IsList
  <2>6. \A r \in DOMAIN new : EventFits(new[r], time)
    BY <2>2, <2>3 DEF QueueOK, EventFits
  <2>7. QED
    BY <2>1, <2>2, <2>3, <2>4, <2>5, <2>6 DEF QueueOK
<1>3. QED
  BY <1>1, <1>2

\* An event due a delay from now goes to the end of the queue.
LEMMA EnqueueOK ==
  ASSUME NEW q, NEW time \in Nat, QueueOK(q, time),
         NEW ev \in Event, EventFits(ev, time), ev.deadline = time + Delay
  PROVE  /\ QueueOK(EnqueueEvent(q, ev), time)
         /\ EnqueueEvent(q, ev) = PushBack(q, ev)
<1>1. \A r \in DOMAIN q : q[r] \in Event /\ q[r].deadline <= time + Delay
  BY DEF QueueOK, EventFits
<1>2. \A r \in DOMAIN q : ~(q[r].deadline > ev.deadline)
  BY <1>1, TimeAssumption DEF Event
<1>3. EnqueueEvent(q, ev) = PushBack(q, ev)
  BY <1>2, EnqueueLatest
<1>4. /\ IsList(PushBack(q, ev))
      /\ DOMAIN PushBack(q, ev) = DOMAIN q \cup {EndRank(q)}
      /\ PushBack(q, ev)[EndRank(q)] = ev
      /\ \A r \in DOMAIN q : PushBack(q, ev)[r] = q[r]
  BY ZenonT(30), PushBackAdds DEF QueueOK
<1>5. \A r \in DOMAIN PushBack(q, ev) :
        PushBack(q, ev)[r] \in Event /\ EventFits(PushBack(q, ev)[r], time)
  BY <1>1, <1>4 DEF QueueOK
<1>6. PushBack(q, ev) \in [DOMAIN PushBack(q, ev) -> Event]
  BY <1>5 DEF PushBack
<1>7. QED
  BY <1>3, <1>4, <1>5, <1>6 DEF QueueOK

\* The two events the code builds.
LEMMA NewEvents ==
  ASSUME NEW code \in Codes, NEW t \in Tids, now \in Nat
  PROVE  /\ DownEvent(code, t) \in Event
         /\ EventFits(DownEvent(code, t), now)
         /\ DownEvent(code, t).deadline = now + Delay
         /\ UpEvent(code, t) \in Event
         /\ EventFits(UpEvent(code, t), now)
         /\ UpEvent(code, t).deadline = now + Delay
BY TimeAssumption DEF DownEvent, UpEvent, Event, EventFits

-----------------------------------------------------------------------------
(***************************************************************************)
(* Types.                                                                  *)
(***************************************************************************)

\* A landing finger gets a key of the layout and one of its codes.
LEMMA LandingKey ==
  ASSUME NEW pos \in Positions, FirstKeyAt(pos) # kNoKey
  PROVE  /\ FirstKeyAt(pos) \in KeyNums /\ FirstKeyAt(pos) \in KeysAt[pos]
         /\ CodeOf(FirstKeyAt(pos)) \in Codes
<1>1. KeysAt[pos] \subseteq KeyNums /\ KeysAt[pos] # {}
  BY LayoutAssumption DEF FirstKeyAt
<1>2. FirstKeyAt(pos) = Min(KeysAt[pos])
  BY <1>1 DEF FirstKeyAt
<1>3. FirstKeyAt(pos) \in KeyNums /\ FirstKeyAt(pos) \in KeysAt[pos]
  BY <1>1, <1>2, MinOfNats, LayoutAssumption
<1>4. \A k \in KeyNums : CodeOf(k) \in Codes
  BY LayoutAssumption DEF CodeOf, Codes
<1>5. QED
  BY <1>3, <1>4

\* The empty function.
LEMMA EmptyFunction ==
  ASSUME NEW S
  PROVE  /\ DOMAIN <<>> = {}
         /\ <<>> \in [DOMAIN <<>> -> S]
         /\ <<>> \in Seq(S)
<1>1. DOMAIN <<>> = {}
  OBVIOUS
<1>2. <<>> = [x \in {} |-> x]
  OBVIOUS
<1>3. <<>> \in [DOMAIN <<>> -> S]
  BY <1>1, <1>2
<1>4. QED
  BY <1>1, <1>3

\* Appending an element of a set to a sequence over it gives such a sequence.
LEMMA AppendType ==
  ASSUME NEW S, NEW q \in Seq(S), NEW e \in S
  PROVE  Append(q, e) \in Seq(S)
OBVIOUS

\* TypeOK with what it needs to be preserved.
TypeInv ==
  /\ TypeOK
  /\ QueueOK(pending, now)
  /\ FingersFit
  /\ todo \subseteq DOMAIN snapshot

\* The variables have their types at the start.
LEMMA TypeInit == Init => TypeInv
<1> SUFFICES ASSUME Init PROVE TypeInv
  OBVIOUS
<1>1. DOMAIN pending = {} /\ DOMAIN finger_data = {} /\ DOMAIN snapshot = {}
  BY DEF Init
<1>2. TypeOK
  <2>1. /\ snapshot \in [DOMAIN snapshot -> Finger]
        /\ finger_data \in [DOMAIN finger_data -> FingerData]
        /\ pending \in [DOMAIN pending -> Event]
    BY EmptyFunction DEF Init
  <2>2. strokes \in [Tids -> Seq([code : Codes, down : BOOLEAN])]
    BY EmptyFunction DEF Init
  <2>3. QED
    BY <1>1, <2>1, <2>2 DEF Init, TypeOK
<1>3. QueueOK(pending, now)
  BY <1>1 DEF Init, QueueOK, IsList
<1>4. FingersFit
  BY <1>1 DEF FingersFit
<1>5. QED
  BY <1>2, <1>3, <1>4 DEF TypeInv, Init

\* Reading the clock and the next frame.
LEMMA TypeWaiting ==
  ASSUME TypeInv, ReadSnapshot \/ PartialEvent \/ Timeout
  PROVE  TypeInv'
<1> USE DEF TypeInv
<1>1. CASE ReadSnapshot
  <2>1. PICK t \in FrameTicks, on \in SUBSET Tids :
          /\ t > now
          /\ \E pos \in [on -> Positions], reading \in [on -> Readings] :
               snapshot' = [c \in on |-> [pos |-> pos[c], p |-> reading[c].p,
                                touch_major |-> reading[c].touch_major]]
          /\ now' = t
          /\ todo' = on
          /\ seen' = seen \cup on
          /\ before' = [c \in Tids |-> IF c \in on \ seen
                                       THEN seen \ DOMAIN snapshot
                                       ELSE before[c]]
    BY <1>1 DEF ReadSnapshot, ReadFrame
  <2>2. PICK pos \in [on -> Positions], reading \in [on -> Readings] :
          snapshot' = [c \in on |-> [pos |-> pos[c], p |-> reading[c].p,
                           touch_major |-> reading[c].touch_major]]
    BY <2>1
  <2>3. DOMAIN snapshot' \subseteq Tids /\ snapshot' \in [on -> Finger]
    BY <2>2, ReadingAssumption DEF Finger
  <2>4. now' \in Nat /\ now <= now'
    BY <2>1, TimeAssumption DEF TypeOK
  <2>5. before' \in [Tids -> SUBSET Tids]
    BY <2>1 DEF TypeOK
  <2>6. UNCHANGED <<code_vars, sent_vars>> /\ pc' = "touches"
    BY <1>1 DEF ReadSnapshot, ReadFrame
  <2>7. TypeOK'
    BY <2>1, <2>2, <2>3, <2>4, <2>5, <2>6 DEF TypeOK, code_vars, sent_vars
  <2>8. QueueOK(pending, now')
    BY <2>4, LaterOK DEF TypeOK
  <2>9. QED
    BY <2>1, <2>3, <2>6, <2>7, <2>8 DEF FingersFit, code_vars
<1>2. CASE PartialEvent
  <2>1. now' \in Nat /\ now <= now'
    BY <1>2, TimeAssumption DEF PartialEvent, TypeOK
  <2>2. QueueOK(pending, now')
    BY <2>1, LaterOK DEF TypeOK
  <2>3. UNCHANGED <<pc, todo, code_vars, sent_vars, pad_vars>>
    BY <1>2 DEF PartialEvent
  <2>4. QED
    BY <2>1, <2>2, <2>3
       DEF TypeOK, FingersFit, code_vars, sent_vars, pad_vars
<1>3. CASE Timeout
  <2>1. now' \in Nat /\ now <= now'
    BY <1>3, TimeAssumption DEF Timeout, TypeOK
  <2>2. QueueOK(pending, now')
    BY <2>1, LaterOK DEF TypeOK
  <2>3. pc' = "drain" /\ UNCHANGED <<todo, code_vars, sent_vars, pad_vars>>
    BY <1>3 DEF Timeout
  <2>4. QED
    BY <2>1, <2>2, <2>3
       DEF TypeOK, FingersFit, code_vars, sent_vars, pad_vars
<1>4. QED
  BY <1>1, <1>2, <1>3

\* The parts of TypeInv the loop over the touches and the loop over the leaving
\* fingers change.
DataOK(data, q, fn) ==
  /\ DOMAIN data \subseteq Tids
  /\ data \in [DOMAIN data -> FingerData]
  /\ \A t \in DOMAIN data :
       Unrejected(data[t]) => /\ data[t].starting_key_number \in KeyNums
                              /\ data[t].event_code \in Codes
  /\ QueueOK(q, now)
  /\ fn \in BOOLEAN

\* A step that changes only the finger data, the queue and Fn keeps the types if
\* the new values fit.
LEMMA TypeFromData ==
  ASSUME TypeInv, DataOK(finger_data', pending', fn_key_pressed'),
         pc' \in {"wait", "touches", "leaving", "drain"}, todo' \subseteq todo,
         UNCHANGED <<now, sent_vars, pad_vars>>
  PROVE  TypeInv'
<1>1. TypeOK'
  BY DEF TypeInv, TypeOK, DataOK, QueueOK, IsList, sent_vars, pad_vars
<1>2. QueueOK(pending', now') /\ FingersFit'
  BY DEF DataOK, FingersFit
<1>3. QED
  BY <1>1, <1>2 DEF TypeInv, pad_vars

\* Rejecting a finger leaves data that fits.
LEMMA RejectOK ==
  ASSUME TypeInv, NEW t \in DOMAIN finger_data, NEW data \in FingerData,
         NEW reason \in RejectionStatus \ {"kNotRejectedYet"},
         RejectFinger(t, data, reason)
  PROVE  /\ DOMAIN finger_data' = DOMAIN finger_data
         /\ finger_data' \in [DOMAIN finger_data -> FingerData]
         /\ ~Unrejected(finger_data'[t])
         /\ \A u \in DOMAIN finger_data \ {t} : finger_data'[u] = finger_data[u]
         /\ fn_key_pressed' = (fn_key_pressed /\ data.event_code # KEY_FN)
<1> DEFINE new == [data EXCEPT !.rejection_status = reason]
<1>1. new \in FingerData /\ new.rejection_status = reason
  BY DEF FingerData
<1> HIDE DEF new
<1>2. finger_data' = [finger_data EXCEPT ![t] = new]
  BY DEF RejectFinger, new
<1>3. finger_data \in [DOMAIN finger_data -> FingerData]
  BY DEF TypeInv, TypeOK
<1>4. QED
  BY <1>1, <1>2, <1>3 DEF Unrejected, RejectFinger

\* A landing finger leaves data that fits.
LEMMA ArrivesOK ==
  ASSUME TypeInv, NEW t \in DOMAIN snapshot, TouchArrives(t)
  PROVE  DataOK(finger_data', pending', fn_key_pressed')
<1> DEFINE key  == FirstKeyAt(snapshot[t].pos)
           code == IF key = kNoKey THEN 0 ELSE CodeOf(key)
           data == ArrivingFinger(snapshot[t], key, code)
<1>1. t \in Tids /\ snapshot[t] \in Finger
  BY DEF TypeInv, TypeOK
<1>2. key # kNoKey => key \in KeyNums /\ code \in Codes
  BY <1>1, LandingKey DEF Finger
<1>3. key \in KeyNums \cup {kNoKey} /\ code \in Codes \cup {0}
  BY <1>2
<1>4. /\ t \notin DOMAIN finger_data
      /\ pending' = IF key = kNoKey THEN pending
                    ELSE EnqueueEvent(pending, DownEvent(code, t))
      /\ fn_key_pressed' = (fn_key_pressed \/ code = KEY_FN)
      /\ finger_data' = [c \in DOMAIN finger_data \cup {t} |->
                           IF c = t THEN data ELSE finger_data[c]]
  BY DEF TouchArrives
<1>5. data \in FingerData /\ (Unrejected(data) => key # kNoKey)
  BY <1>1, <1>3
     DEF ArrivingFinger, FingerData, Finger, Unrejected, RejectionStatus
<1>6. data.starting_key_number = key /\ data.event_code = code
  BY DEF ArrivingFinger
<1>7. QueueOK(pending', now)
  BY <1>1, <1>2, <1>4, NewEvents, EnqueueOK DEF TypeInv, TypeOK
<1> HIDE DEF key, code, data
<1>8. QED
  BY <1>1, <1>2, <1>4, <1>5, <1>6, <1>7 DEF DataOK, TypeInv, TypeOK, FingersFit

\* New readings change the two maxima of a finger and nothing else.
LEMMA UpdatedOK ==
  ASSUME NEW data \in FingerData, NEW finger \in Finger
  PROVE  /\ Updated(data, finger) \in FingerData
         /\ Updated(data, finger).starting_key_number = data.starting_key_number
         /\ Updated(data, finger).event_code = data.event_code
         /\ Updated(data, finger).down_sent = data.down_sent
         /\ Updated(data, finger).rejection_status = data.rejection_status
BY DEF Updated, Larger, FingerData, Finger

\* A finger that stays on its key leaves data that fits.
LEMMA StaysOK ==
  ASSUME TypeInv, NEW t \in DOMAIN snapshot, TouchStays(t)
  PROVE  DataOK(finger_data', pending', fn_key_pressed')
<1>1. /\ t \in DOMAIN finger_data
      /\ finger_data' = [finger_data EXCEPT ![t] = Updated(finger_data[t], snapshot[t])]
      /\ UNCHANGED <<pending, fn_key_pressed>>
  BY DEF TouchStays
<1>2. finger_data[t] \in FingerData /\ snapshot[t] \in Finger
  BY <1>1 DEF TypeInv, TypeOK
<1> DEFINE new == Updated(finger_data[t], snapshot[t])
<1>3. /\ new \in FingerData
      /\ new.starting_key_number = finger_data[t].starting_key_number
      /\ new.event_code = finger_data[t].event_code
      /\ new.rejection_status = finger_data[t].rejection_status
  BY <1>2, UpdatedOK
<1> HIDE DEF new
<1>4. finger_data' = [finger_data EXCEPT ![t] = new]
  BY <1>1 DEF new
<1>5. QED
  BY <1>1, <1>3, <1>4 DEF DataOK, TypeInv, TypeOK, FingersFit, Unrejected

\* A finger that slides off its key leaves data that fits.
LEMMA MovesOffOK ==
  ASSUME TypeInv, NEW t \in DOMAIN snapshot, TouchMovesOff(t)
  PROVE  DataOK(finger_data', pending', fn_key_pressed')
<1> DEFINE new == Updated(finger_data[t], snapshot[t])
           rest == RemainingEvents(pending, t)
           code == finger_data[t].event_code
<1>1. /\ t \in DOMAIN finger_data
      /\ Unrejected(finger_data[t])
      /\ RejectFinger(t, new, "kRejectMovedOffKey")
      /\ pending' = IF finger_data[t].down_sent
                    THEN EnqueueEvent(rest, UpEvent(code, t)) ELSE rest
  BY DEF TouchMovesOff
<1>2. new \in FingerData
  BY <1>1, UpdatedOK DEF TypeInv, TypeOK
<1> HIDE DEF new
<1>3. /\ DOMAIN finger_data' = DOMAIN finger_data
      /\ finger_data' \in [DOMAIN finger_data -> FingerData]
      /\ ~Unrejected(finger_data'[t])
      /\ \A u \in DOMAIN finger_data \ {t} : finger_data'[u] = finger_data[u]
      /\ fn_key_pressed' = (fn_key_pressed /\ new.event_code # KEY_FN)
  BY <1>1, <1>2, RejectOK DEF RejectionStatus
<1>4. QueueOK(rest, now)
  BY WithoutOK DEF TypeInv, RemainingEvents
<1>5. t \in Tids /\ code \in Codes
  BY <1>1 DEF TypeInv, TypeOK, FingersFit
<1> HIDE DEF rest, code
<1>6. QueueOK(pending', now)
  BY <1>1, <1>4, <1>5, NewEvents, EnqueueOK DEF TypeInv, TypeOK
<1>7. fn_key_pressed' \in BOOLEAN
  BY <1>3 DEF TypeInv, TypeOK
<1>8. QED
  BY <1>3, <1>6, <1>7 DEF DataOK, TypeInv, TypeOK, FingersFit

\* A lifted finger leaves data that fits.
LEMMA LeavesOK ==
  ASSUME TypeInv, NEW t \in DOMAIN finger_data, HandleLeavingFinger(t),
         finger_data' = Without(finger_data, {t})
  PROVE  DataOK(finger_data', pending', fn_key_pressed')
<1> DEFINE data == finger_data[t]
           marked == IF data.down_sent THEN pending ELSE Guarantee(pending, t)
<1>1. \/ pending' = (IF Unrejected(data) THEN marked ELSE pending)
           /\ UNCHANGED fn_key_pressed
      \/ /\ Unrejected(data)
         /\ pending' = EnqueueEvent(marked, UpEvent(data.event_code, t))
         /\ fn_key_pressed' = (fn_key_pressed /\ data.event_code # KEY_FN)
  BY DEF HandleLeavingFinger
<1>2. QueueOK(pending, now) /\ QueueOK(marked, now)
  BY GuaranteeOK DEF TypeInv
<1>3. t \in Tids /\ (Unrejected(data) => data.event_code \in Codes)
  BY DEF TypeInv, TypeOK, FingersFit
<1> HIDE DEF marked
<1>4. QueueOK(pending', now)
  BY <1>1, <1>2, <1>3, NewEvents, EnqueueOK DEF TypeInv, TypeOK
<1>5. fn_key_pressed' \in BOOLEAN
  BY <1>1 DEF TypeInv, TypeOK
<1>6. /\ DOMAIN finger_data' = DOMAIN finger_data \ {t}
      /\ \A u \in DOMAIN finger_data \ {t} : finger_data'[u] = finger_data[u]
      /\ finger_data' \in [DOMAIN finger_data \ {t} -> FingerData]
  BY DEF Without, Restrict, TypeInv, TypeOK
<1>7. QED
  BY <1>4, <1>5, <1>6 DEF DataOK, TypeInv, TypeOK, FingersFit

\* ProcessIncomingSnapshot keeps the types.
LEMMA TypeSnapshot ==
  ASSUME TypeInv, VisitTouch \/ TouchesDone \/ FingerLeaves \/ LeavingDone
  PROVE  TypeInv'
<1>1. DataOK(finger_data, pending, fn_key_pressed)
  BY DEF TypeInv, TypeOK, DataOK, FingersFit
<1>2. CASE VisitTouch
  <2>1. PICK t \in todo :
          /\ \/ TouchArrives(t)
             \/ TouchStays(t)
             \/ TouchMovesOff(t)
             \/ TouchIgnored(t)
          /\ todo' = todo \ {t}
    BY <1>2 DEF VisitTouch
  <2>2. UNCHANGED <<pc, now, sent_vars, pad_vars>>
    BY <1>2 DEF VisitTouch
  <2>3. DataOK(finger_data', pending', fn_key_pressed')
    <3>1. t \in DOMAIN snapshot
      BY DEF TypeInv
    <3>2. CASE TouchIgnored(t)
      BY <1>1, <3>2 DEF TouchIgnored, code_vars, DataOK
    <3>3. QED
      BY <2>1, <3>1, <3>2, ArrivesOK, StaysOK, MovesOffOK
  <2>4. QED
    BY <2>1, <2>2, <2>3, TypeFromData DEF TypeInv, TypeOK
<1>3. CASE TouchesDone
  BY <1>3 DEF TouchesDone, TypeInv, TypeOK, FingersFit,
              code_vars, sent_vars, pad_vars
<1>4. CASE FingerLeaves
  <2>1. PICK t \in DOMAIN finger_data : /\ HandleLeavingFinger(t)
                                        /\ finger_data' = Without(finger_data, {t})
    BY <1>4 DEF FingerLeaves
  <2>2. UNCHANGED <<pc, now, todo, sent_vars, pad_vars>>
    BY <1>4 DEF FingerLeaves
  <2>3. DataOK(finger_data', pending', fn_key_pressed')
    BY <2>1, LeavesOK
  <2>4. QED
    BY <2>2, <2>3, TypeFromData DEF TypeInv, TypeOK
<1>5. CASE LeavingDone
  BY <1>5 DEF LeavingDone, TypeInv, TypeOK, FingersFit,
              code_vars, sent_vars, pad_vars
<1>6. QED
  BY <1>2, <1>3, <1>4, <1>5

\* The firing loop keeps the types.
LEMMA TypeFiring ==
  ASSUME TypeInv, FireRejected \/ FireSend \/ DrainDone
  PROVE  TypeInv'
<1>1. CASE FireRejected
  <2>1. PICK r \in DOMAIN pending :
          LET t == pending[r].tid
          IN  /\ t \in DOMAIN finger_data
              /\ RejectFinger(t, finger_data[t],
                              IF finger_data[t].max_pressure # -1
                              THEN "kRejectPressure" ELSE "kRejectTouchDiameter")
              /\ pending' = RemainingEvents(Without(pending, {r}), t)
    BY <1>1 DEF FireRejected
  <2> DEFINE t == pending[r].tid
  <2>2. finger_data[t] \in FingerData
    BY <2>1 DEF TypeInv, TypeOK
  <2>3. /\ DOMAIN finger_data' = DOMAIN finger_data
        /\ finger_data' \in [DOMAIN finger_data -> FingerData]
        /\ ~Unrejected(finger_data'[t])
        /\ \A u \in DOMAIN finger_data \ {t} : finger_data'[u] = finger_data[u]
        /\ fn_key_pressed' =
             (fn_key_pressed /\ finger_data[t].event_code # KEY_FN)
    BY <2>1, <2>2, RejectOK DEF RejectionStatus
  <2>4. QueueOK(pending', now)
    BY <2>1, WithoutOK DEF TypeInv, RemainingEvents
  <2>5. DataOK(finger_data', pending', fn_key_pressed')
    BY <2>3, <2>4 DEF DataOK, TypeInv, TypeOK, FingersFit
  <2>6. UNCHANGED <<pc, now, todo, sent_vars, pad_vars>>
    BY <1>1 DEF FireRejected
  <2>7. QED
    BY <2>5, <2>6, TypeFromData DEF TypeInv, TypeOK
<1>2. CASE FireSend
  <2>1. PICK r \in DOMAIN pending :
          /\ SendKey(pending[r])
          /\ pending' = Without(pending, {r})
          /\ \/ finger_data' = finger_data
             \/ /\ pending[r].tid \in DOMAIN finger_data
                /\ finger_data' =
                     [finger_data EXCEPT ![pending[r].tid].down_sent = TRUE]
    BY <1>2 DEF FireSend
  <2>2. /\ needs_syn' = TRUE
        /\ UNCHANGED <<pc, now, todo, fn_key_pressed, reported, pad_vars>>
    BY <1>2 DEF FireSend
  <2>3. pending[r] \in Event
    BY DEF TypeInv, TypeOK
  <2>4. keys_down' \subseteq Codes
    BY <2>1, <2>3 DEF SendKey, TypeInv, TypeOK, Event
  <2>5. strokes' \in [Tids -> Seq([code : Codes, down : BOOLEAN])]
    <3> DEFINE c == pending[r].contact
               k == Stroke(pending[r].code, pending[r].is_down)
    <3>1. strokes' = [strokes EXCEPT ![c] = Append(strokes[c], k)]
      BY <2>1 DEF SendKey
    <3>2. c \in Tids /\ k \in [code : Codes, down : BOOLEAN]
      BY <2>3 DEF Event, Stroke
    <3>3. strokes \in [Tids -> Seq([code : Codes, down : BOOLEAN])]
      BY DEF TypeInv, TypeOK
    <3> HIDE DEF c, k
    <3>4. Append(strokes[c], k) \in Seq([code : Codes, down : BOOLEAN])
      BY <3>2, <3>3, AppendType
    <3>5. QED
      BY <3>1, <3>3, <3>4
  <2>6. QueueOK(pending', now)
    BY <2>1, WithoutOK DEF TypeInv
  <2>7. /\ DOMAIN finger_data' = DOMAIN finger_data
        /\ \A u \in DOMAIN finger_data :
             /\ finger_data'[u] \in FingerData
             /\ finger_data'[u].starting_key_number =
                  finger_data[u].starting_key_number
             /\ finger_data'[u].event_code = finger_data[u].event_code
             /\ finger_data'[u].rejection_status = finger_data[u].rejection_status
        /\ finger_data' \in [DOMAIN finger_data' -> FingerData]
    <3>1. CASE finger_data' = finger_data
      BY <3>1 DEF TypeInv, TypeOK
    <3>2. CASE /\ pending[r].tid \in DOMAIN finger_data
               /\ finger_data' =
                    [finger_data EXCEPT ![pending[r].tid].down_sent = TRUE]
      <4>1. /\ DOMAIN finger_data' = DOMAIN finger_data
            /\ \A u \in DOMAIN finger_data :
                 \/ finger_data'[u] = finger_data[u]
                 \/ finger_data'[u] = [finger_data[u] EXCEPT !.down_sent = TRUE]
        BY <3>2
      <4>2. ASSUME NEW d \in FingerData, NEW e,
                   e = d \/ e = [d EXCEPT !.down_sent = TRUE]
            PROVE  /\ e \in FingerData
                   /\ e.starting_key_number = d.starting_key_number
                   /\ e.event_code = d.event_code
                   /\ e.rejection_status = d.rejection_status
        BY <4>2 DEF FingerData
      <4>3. \A u \in DOMAIN finger_data : finger_data[u] \in FingerData
        BY DEF TypeInv, TypeOK
      <4>4. \A u \in DOMAIN finger_data :
              /\ finger_data'[u] \in FingerData
              /\ finger_data'[u].starting_key_number =
                   finger_data[u].starting_key_number
              /\ finger_data'[u].event_code = finger_data[u].event_code
              /\ finger_data'[u].rejection_status =
                   finger_data[u].rejection_status
        BY <4>1, <4>2, <4>3
      <4>5. finger_data' = [u \in DOMAIN finger_data |-> finger_data'[u]]
        BY <3>2
      <4>6. finger_data' \in [DOMAIN finger_data' -> FingerData]
        BY <4>1, <4>4, <4>5
      <4>7. QED
        BY <4>1, <4>4, <4>6
    <3>3. QED
      BY <2>1, <3>1, <3>2
  <2>8. TypeOK'
    BY <2>2, <2>4, <2>5, <2>6, <2>7
       DEF TypeInv, TypeOK, QueueOK, IsList, pad_vars
  <2>9. FingersFit'
    BY <2>7 DEF TypeInv, FingersFit, Unrejected
  <2>10. QED
    BY <2>2, <2>6, <2>8, <2>9 DEF TypeInv, pad_vars
<1>3. CASE DrainDone
  BY <1>3 DEF DrainDone, TypeInv, TypeOK, FingersFit, code_vars, pad_vars
<1>4. QED
  BY <1>1, <1>2, <1>3

\* Every step keeps the types.
LEMMA TypeStep == TypeInv /\ [Next]_vars => TypeInv'
<1> SUFFICES ASSUME TypeInv, [Next]_vars PROVE TypeInv'
  OBVIOUS
<1>1. CASE Next
  BY <1>1, TypeWaiting, TypeSnapshot, TypeFiring DEF Next, Handler
<1>2. CASE UNCHANGED vars
  BY <1>2 DEF vars, code_vars, sent_vars, pad_vars, TypeInv, TypeOK, FingersFit
<1>3. QED
  BY <1>1, <1>2

\* The variables keep their types, for every layout and number of contacts.
THEOREM TypeCorrect == Spec => []TypeOK
<1>1. TypeInv => TypeOK
  BY DEF TypeInv
<1>2. QED
  BY <1>1, TypeInit, TypeStep, PTL DEF Spec

-----------------------------------------------------------------------------
(***************************************************************************)
(* Where a finger is and what it types.                                    *)
(***************************************************************************)

TypesItsKey(data) ==
  data.event_code \in {EventCode[data.starting_key_number],
                       EventCodeFn[data.starting_key_number]} \ {0}

OnItsKey(data, pos) ==
  data.starting_key_number \in KeysAt[pos] /\ TypesItsKey(data)

\* Every finger that is not refused has a code of its key, seen or not.
KeyOfFinger ==
  \A t \in DOMAIN finger_data :
    Unrejected(finger_data[t]) => TypesItsKey(finger_data[t])

KeyInv == KeyOfFinger /\ FingerIsOnItsKey

\* The first loop visits a finger: it is on its key, or it is refused.
LEMMA VisitedIsOnItsKey ==
  ASSUME TypeInv, KeyOfFinger, NEW t \in todo,
         \/ TouchArrives(t) \/ TouchStays(t) \/ TouchMovesOff(t) \/ TouchIgnored(t),
         t \in DOMAIN finger_data', Unrejected(finger_data'[t])
  PROVE  OnItsKey(finger_data'[t], snapshot[t].pos)
<1>1. t \in DOMAIN snapshot /\ snapshot[t] \in Finger /\ snapshot[t].pos \in Positions
  BY DEF TypeInv, TypeOK, Finger
<1>2. CASE TouchArrives(t)
  <2> DEFINE key == FirstKeyAt(snapshot[t].pos)
             code == IF key = kNoKey THEN 0 ELSE CodeOf(key)
  <2>1. finger_data'[t] = ArrivingFinger(snapshot[t], key, code)
    BY <1>2 DEF TouchArrives
  <2>2. key # kNoKey
    BY <2>1 DEF ArrivingFinger, Unrejected
  <2>3. /\ finger_data'[t].starting_key_number = key
        /\ finger_data'[t].event_code = CodeOf(key)
    BY <2>1, <2>2 DEF ArrivingFinger
  <2>4. key \in KeysAt[snapshot[t].pos]
    BY <1>1, <2>2, LandingKey
  <2>5. key \in KeyNums /\ EventCode[key] # 0
    BY <1>1, <2>4, LayoutAssumption
  <2>6. CodeOf(key) \in {EventCode[key], EventCodeFn[key]} \ {0}
    BY <2>5 DEF CodeOf
  <2> QED BY <2>3, <2>4, <2>6 DEF OnItsKey, TypesItsKey
<1>3. CASE TouchStays(t)
  <2>1. /\ t \in DOMAIN finger_data /\ finger_data[t] \in FingerData
        /\ StillOnFirstKey(snapshot[t], finger_data[t])
        /\ finger_data' = [finger_data EXCEPT
                             ![t] = Updated(finger_data[t], snapshot[t])]
    BY <1>3 DEF TouchStays, TypeInv, TypeOK
  <2> DEFINE new == Updated(finger_data[t], snapshot[t])
  <2>2. /\ finger_data'[t] = new
        /\ new.starting_key_number = finger_data[t].starting_key_number
        /\ new.event_code = finger_data[t].event_code
        /\ new.rejection_status = finger_data[t].rejection_status
    BY <1>1, <2>1, UpdatedOK
  <2> HIDE DEF new
  <2>3. finger_data[t].starting_key_number \in KeysAt[snapshot[t].pos]
    BY <2>1 DEF StillOnFirstKey
  <2>4. TypesItsKey(finger_data[t])
    BY <1>3, <2>1 DEF TouchStays, KeyOfFinger
  <2> QED BY <2>2, <2>3, <2>4 DEF OnItsKey, TypesItsKey
<1>4. CASE TouchMovesOff(t)
  <2> DEFINE new == Updated(finger_data[t], snapshot[t])
  <2>1. /\ t \in DOMAIN finger_data /\ finger_data[t] \in FingerData
        /\ finger_data' = [finger_data EXCEPT
              ![t] = [new EXCEPT !.rejection_status = "kRejectMovedOffKey"]]
    BY <1>4 DEF TouchMovesOff, RejectFinger, TypeInv, TypeOK
  <2>2. new \in FingerData
    BY <1>1, <2>1, UpdatedOK
  <2> HIDE DEF new
  <2>3. finger_data'[t].rejection_status = "kRejectMovedOffKey"
    BY <2>1, <2>2 DEF FingerData
  <2> QED BY <2>3 DEF Unrejected
<1>5. CASE TouchIgnored(t)
  BY <1>5 DEF TouchIgnored, code_vars
<1> QED BY <1>2, <1>3, <1>4, <1>5

\* A step that visits nobody leaves every finger that is not refused as it is.
LEMMA OthersStayOnTheirKeys ==
  ASSUME KeyInv, UNCHANGED <<snapshot, todo>>,
         \A t \in DOMAIN finger_data' : Unrejected(finger_data'[t]) =>
           /\ t \in DOMAIN finger_data /\ Unrejected(finger_data[t])
           /\ finger_data'[t].starting_key_number =
                finger_data[t].starting_key_number
           /\ finger_data'[t].event_code = finger_data[t].event_code
  PROVE  KeyInv'
BY DEF KeyInv, KeyOfFinger, FingerIsOnItsKey, TypesItsKey

\* Every step keeps the fingers on their keys.
LEMMA KeyStep == TypeInv /\ TypeInv' /\ KeyInv /\ [Next]_vars => KeyInv'
<1> SUFFICES ASSUME TypeInv, TypeInv', KeyInv, [Next]_vars PROVE KeyInv'
  OBVIOUS
<1>1. CASE ReadSnapshot
  <2>1. todo' = DOMAIN snapshot' /\ finger_data' = finger_data
    BY <1>1 DEF ReadSnapshot, ReadFrame, code_vars
  <2> QED BY <2>1 DEF KeyInv, KeyOfFinger, FingerIsOnItsKey
<1>2. CASE PartialEvent \/ Timeout \/ TouchesDone \/ LeavingDone \/ DrainDone
             \/ UNCHANGED vars
  <2>1. UNCHANGED <<finger_data, snapshot, todo>>
    BY <1>2 DEF PartialEvent, Timeout, TouchesDone, LeavingDone, DrainDone, vars,
                code_vars, pad_vars
  <2> QED BY <2>1 DEF KeyInv, KeyOfFinger, FingerIsOnItsKey
<1>3. CASE VisitTouch
  <2>1. PICK t \in todo :
          /\ \/ TouchArrives(t) \/ TouchStays(t)
             \/ TouchMovesOff(t) \/ TouchIgnored(t)
          /\ todo' = todo \ {t} /\ UNCHANGED snapshot
    BY <1>3 DEF VisitTouch, pad_vars
  <2>2. \A u \in DOMAIN finger_data' \ {t} :
          u \in DOMAIN finger_data /\ finger_data'[u] = finger_data[u]
    BY <2>1 DEF TouchArrives, TouchStays, TouchMovesOff, TouchIgnored,
                RejectFinger, code_vars
  <2>3. t \in DOMAIN finger_data' /\ Unrejected(finger_data'[t])
          => OnItsKey(finger_data'[t], snapshot[t].pos)
    BY <2>1, VisitedIsOnItsKey DEF KeyInv
  <2> QED BY <2>1, <2>2, <2>3
          DEF KeyInv, KeyOfFinger, FingerIsOnItsKey, OnItsKey, TypesItsKey
<1>4. CASE FingerLeaves
  <2>1. PICK t \in DOMAIN finger_data : finger_data' = Without(finger_data, {t})
    BY <1>4 DEF FingerLeaves
  <2>2. \A u \in DOMAIN finger_data' :
          u \in DOMAIN finger_data /\ finger_data'[u] = finger_data[u]
    BY <2>1 DEF Without, Restrict
  <2>3. UNCHANGED <<snapshot, todo>>
    BY <1>4 DEF FingerLeaves, pad_vars
  <2> QED BY <2>2, <2>3, OthersStayOnTheirKeys
<1>5. CASE FireRejected
  <2>1. PICK t \in DOMAIN finger_data, reason \in RejectionStatus :
          /\ reason # "kNotRejectedYet"
          /\ RejectFinger(t, finger_data[t], reason)
    BY <1>5 DEF FireRejected, RejectionStatus
  <2>2. finger_data[t] \in FingerData /\ UNCHANGED <<snapshot, todo>>
    BY <1>5 DEF FireRejected, pad_vars, TypeInv, TypeOK
  <2>3. finger_data' = [finger_data EXCEPT
                          ![t] = [finger_data[t] EXCEPT !.rejection_status = reason]]
    BY <2>1 DEF RejectFinger
  <2>4. finger_data'[t].rejection_status = reason
    BY <2>2, <2>3 DEF FingerData
  <2>5. \A u \in DOMAIN finger_data' \ {t} :
          u \in DOMAIN finger_data /\ finger_data'[u] = finger_data[u]
    BY <2>3
  <2> QED BY <2>1, <2>2, <2>4, <2>5, OthersStayOnTheirKeys DEF Unrejected
<1>6. CASE FireSend
  <2>1. PICK r \in DOMAIN pending :
          finger_data' = IF pending[r].tid \in DOMAIN finger_data /\ pending[r].is_down
                         THEN [finger_data EXCEPT ![pending[r].tid].down_sent = TRUE]
                         ELSE finger_data
    BY <1>6 DEF FireSend
  <2>2. UNCHANGED <<snapshot, todo>> /\ \A t \in DOMAIN finger_data : finger_data[t] \in FingerData
    BY <1>6 DEF FireSend, pad_vars, TypeInv, TypeOK
  <2>3. \A t \in DOMAIN finger_data' :
          /\ t \in DOMAIN finger_data
          /\ finger_data'[t].rejection_status = finger_data[t].rejection_status
          /\ finger_data'[t].starting_key_number =
               finger_data[t].starting_key_number
          /\ finger_data'[t].event_code = finger_data[t].event_code
    BY <2>1, <2>2 DEF FingerData
  <2> QED BY <2>2, <2>3, OthersStayOnTheirKeys DEF Unrejected
<1> QED BY <1>1, <1>2, <1>3, <1>4, <1>5, <1>6 DEF Next, Handler

\* Every finger that is not refused is on the key it landed on, and types a code
\* of that key, whatever the layout, and however it slides on and off keys.
THEOREM FingersAreOnTheirKeys == Spec => []FingerIsOnItsKey
<1>1. Init => KeyInv
  BY EmptyFunction DEF Init, KeyInv, KeyOfFinger, FingerIsOnItsKey
<1>2. KeyInv => FingerIsOnItsKey
  BY DEF KeyInv
<1> QED BY <1>1, <1>2, KeyStep, TypeInit, TypeStep, PTL DEF Spec

-----------------------------------------------------------------------------
(***************************************************************************)
(* The inductive invariant: every step is about at most one contact, takes *)
(* that contact from one phase of its life to the next and leaves all      *)
(* others where they are.                                                  *)
(***************************************************************************)

KeyboardInv ==
  /\ TypeInv
  /\ Sorted(pending)
  /\ EveryContactFits
  /\ FramesFit
  /\ KeysFit
  /\ FnHeldByFinger
  /\ OrderFits

-----------------------------------------------------------------------------
(***************************************************************************)
(* Contacts a step is not about.                                           *)
(***************************************************************************)

\* Nothing of contact u changes.
Kept(u) ==
  /\ Due(u)' = Due(u)
  /\ \A r \in Due(u) : pending'[r] = pending[r]
  /\ strokes'[u] = strokes[u]
  /\ u \in DOMAIN finger_data' <=> u \in DOMAIN finger_data
  /\ u \in DOMAIN finger_data =>
       /\ finger_data'[u].event_code = finger_data[u].event_code
       /\ finger_data'[u].down_sent = finger_data[u].down_sent
       /\ finger_data'[u].rejection_status = finger_data[u].rejection_status

\* A contact nothing changes for stays in its phase.
LEMMA KeptFits ==
  ASSUME NEW u \in Tids, Kept(u)
  PROVE  /\ ContactOK(u) => ContactOK(u)'
         /\ Silent(u) => Silent(u)'
<1>1. /\ Due(u)' = Due(u)
      /\ \A r \in Due(u) : pending'[r] = pending[r] /\ r \in DOMAIN pending'
      /\ strokes'[u] = strokes[u]
  BY DEF Kept, Due
<1>2. Silent(u) => Silent(u)'
  BY <1>1 DEF Silent
<1>3. Over(u) => Over(u)'
  BY <1>1 DEF Over
<1>4. Releasing(u) => Releasing(u)'
  BY <1>1 DEF Releasing
<1>5. Tapping(u) => Tapping(u)'
  BY <1>1 DEF Tapping
<1>6. ASSUME u \in DOMAIN finger_data
      PROVE  /\ Waiting(u) => Waiting(u)'
             /\ Holding(u) => Holding(u)'
  BY <1>1, <1>6 DEF Waiting, Holding, Kept
<1>7. ContactOK(u) => ContactOK(u)'
  BY <1>2, <1>3, <1>4, <1>5, <1>6 DEF ContactOK, Kept, Unrejected
<1>8. QED
  BY <1>2, <1>7

\* Steps that change neither the queue, nor the finger data, nor what was sent.
LEMMA SameFits ==
  ASSUME UNCHANGED <<finger_data, pending, strokes>>, EveryContactFits
  PROVE  EveryContactFits' /\ \A u \in Tids : Due(u)' = Due(u)
                                        /\ (Silent(u) => Silent(u)')
<1>1. \A u \in Tids : Kept(u)
  BY DEF Kept, Due
<1>2. QED
  BY <1>1, KeptFits DEF EveryContactFits, Kept

-----------------------------------------------------------------------------
(***************************************************************************)
(* What the list operations do to the events of a contact.                 *)
(***************************************************************************)
DueIn(q, u) == {r \in DOMAIN q : q[r].contact = u}

\* new is the list q with ev behind it.
Appended(q, ev, new) ==
  \E end \in Nat :
    /\ \A r \in DOMAIN q : r < end
    /\ DOMAIN new = DOMAIN q \cup {end}
    /\ \A r \in DOMAIN q : new[r] = q[r]
    /\ new[end] = ev

\* An event due a delay from now is added behind all others.
LEMMA EnqueueAdds ==
  ASSUME NEW q, NEW time \in Nat, QueueOK(q, time),
         NEW ev \in Event, EventFits(ev, time), ev.deadline = time + Delay
  PROVE  Appended(q, ev, EnqueueEvent(q, ev))
<1>1. EnqueueEvent(q, ev) = PushBack(q, ev)
  BY EnqueueOK
<1>2. /\ DOMAIN PushBack(q, ev) = DOMAIN q \cup {EndRank(q)}
      /\ PushBack(q, ev)[EndRank(q)] = ev
      /\ \A r \in DOMAIN q : PushBack(q, ev)[r] = q[r]
  BY PushBackAdds DEF QueueOK
<1>3. /\ EndRank(q) \in Nat
      /\ \A r \in DOMAIN q : r < EndRank(q)
  BY EndRankIsNew DEF QueueOK
<1>4. QED
  BY <1>1, <1>2, <1>3 DEF Appended

\* An event due a delay from now keeps the queue sorted.
LEMMA EnqueueSorted ==
  ASSUME NEW q, NEW time, QueueOK(q, time), Sorted(q), NEW ev \in Event
  PROVE  Sorted(EnqueueEvent(q, ev))
<1>1. ev.deadline \in Int /\ \A r \in DOMAIN q : q[r].deadline \in Int
  BY DEF QueueOK, Event
<1>2. QED
  BY <1>1, EnqueueKeepsOrder DEF QueueOK

\* The events under the id of a contact are its presses.
LEMMA EventsOfDue ==
  ASSUME NEW q, NEW time, QueueOK(q, time), NEW t \in Tids
  PROVE  EventsOf(q, t) = {r \in DueIn(q, t) : q[r].is_down}
<1>1. \A r \in DOMAIN q :
        /\ q[r].is_down \in BOOLEAN /\ q[r].contact \in Tids
        /\ q[r].tid = IF q[r].is_down THEN q[r].contact ELSE OldTid
  BY DEF QueueOK, EventFits, Event
<1>2. QED
  BY <1>1, TidAssumption DEF EventsOf, DueIn

\* Erasing nothing changes nothing.
LEMMA WithoutNone ==
  ASSUME NEW q, NEW time, QueueOK(q, time)
  PROVE  Without(q, {}) = q
BY DEF Without, Restrict, QueueOK

\* A press waiting alone for its finger is the one that is marked guaranteed.
LEMMA GuaranteeOne ==
  ASSUME NEW q, NEW time, QueueOK(q, time), NEW t \in Tids,
         NEW r \in DOMAIN q, EventsOf(q, t) = {r}
  PROVE  /\ Guarantee(q, t)[r].is_guaranteed
         /\ \A s \in DOMAIN q \ {r} : Guarantee(q, t)[s] = q[s]
         /\ UpGuaranteed(q, t) <=> ~q[r].is_down
<1>1. Min({r}) = r
  BY MinOfNats DEF QueueOK, IsList
<1>2. Guarantee(q, t) = [q EXCEPT ![r].is_guaranteed = TRUE]
  BY <1>1 DEF Guarantee
<1>3. /\ Guarantee(q, t)[r].is_guaranteed
      /\ \A s \in DOMAIN q \ {r} : Guarantee(q, t)[s] = q[s]
  BY <1>2 DEF QueueOK, Event
<1>4. UpGuaranteed(q, t) <=> ~q[r].is_down
  BY <1>1 DEF UpGuaranteed
<1>5. QED
  BY <1>3, <1>4

-----------------------------------------------------------------------------
(***************************************************************************)
(* Steps about one contact.                                                *)
(***************************************************************************)

\* The step is about contact t: nothing of another contact changes, and what
\* is added to the queue goes to its end.
About(t) ==
  /\ \A u \in Tids \ {t} : Kept(u)
  /\ \A r \in Due(t)' \ Due(t), s \in DOMAIN pending : s < r
  /\ DOMAIN finger_data' \ {t} = DOMAIN finger_data \ {t}
  /\ Sorted(pending')

\* A finger lands: its contact was silent; it waits, or is rejected at once.
LEMMA ArrivesFits ==
  ASSUME KeyboardInv, NEW t \in todo, TouchArrives(t), UNCHANGED strokes
  PROVE  About(t) /\ ContactOK(t)' /\ FnHeldByFinger'
<1> DEFINE key  == FirstKeyAt(snapshot[t].pos)
           code == IF key = kNoKey THEN 0 ELSE CodeOf(key)
           data == ArrivingFinger(snapshot[t], key, code)
<1>1. /\ t \notin DOMAIN finger_data
      /\ pending' = IF key = kNoKey THEN pending
                    ELSE EnqueueEvent(pending, DownEvent(code, t))
      /\ fn_key_pressed' = (fn_key_pressed \/ code = KEY_FN)
      /\ finger_data' = [c \in DOMAIN finger_data \cup {t} |->
                           IF c = t THEN data ELSE finger_data[c]]
  BY DEF TouchArrives
<1>2. /\ t \in DOMAIN snapshot /\ t \in Tids /\ snapshot[t].pos \in Positions
      /\ QueueOK(pending, now) /\ now \in Nat
  BY DEF KeyboardInv, TypeInv, TypeOK, Finger
<1>3. Silent(t)
  BY <1>1, <1>2 DEF KeyboardInv, FramesFit
<1>4. /\ data.event_code = code /\ data.down_sent = FALSE
      /\ Unrejected(data) <=> key # kNoKey
  BY DEF ArrivingFinger, Unrejected
<1>5. key # kNoKey => key \in KeyNums /\ code \in Codes
  BY <1>2, LandingKey
<1>6. key = kNoKey => code # KEY_FN
  BY KeyAssumption
<1> HIDE DEF key, code, data
<1>7. /\ DOMAIN finger_data' = DOMAIN finger_data \cup {t}
      /\ finger_data'[t] = data
      /\ \A u \in DOMAIN finger_data : finger_data'[u] = finger_data[u]
  BY <1>1
<1>8. FnHeldByFinger'
  BY <1>1, <1>4, <1>6, <1>7 DEF KeyboardInv, FnHeldByFinger, Unrejected
<1>9. CASE key = kNoKey
  <2>1. pending' = pending
    BY <1>1, <1>9
  <2>2. About(t)
    BY <1>7, <2>1 DEF About, Kept, Due, KeyboardInv
  <2>3. ContactOK(t)'
    BY <1>3, <1>4, <1>7, <1>9, <2>1 DEF ContactOK, Silent, Due, Unrejected
  <2>4. QED
    BY <1>8, <2>2, <2>3
<1>10. CASE key # kNoKey
  <2> DEFINE ev == DownEvent(code, t)
  <2>1. pending' = EnqueueEvent(pending, ev)
    BY <1>1, <1>10
  <2>2. /\ ev \in Event /\ EventFits(ev, now) /\ ev.deadline = now + Delay
        /\ ev.contact = t /\ ev.is_down /\ ~ev.is_guaranteed /\ ev.code = code
    BY <1>2, <1>5, <1>10, NewEvents DEF DownEvent
  <2> HIDE DEF ev
  <2>3. PICK end \in Nat :
          /\ \A r \in DOMAIN pending : r < end
          /\ DOMAIN pending' = DOMAIN pending \cup {end}
          /\ \A r \in DOMAIN pending : pending'[r] = pending[r]
          /\ pending'[end] = ev
    <3>1. Appended(pending, ev, pending')
      BY <1>2, <2>1, <2>2, EnqueueAdds
    <3>2. QED
      BY <3>1 DEF Appended
  <2>4. Sorted(pending')
    BY <1>2, <2>1, <2>2, EnqueueSorted DEF KeyboardInv
  <2>5. Due(t)' = {end} /\ \A u \in Tids \ {t} : Due(u)' = Due(u)
    BY <1>3, <2>2, <2>3 DEF Silent, Due
  <2>6. About(t)
    <3>1. \A u : Due(u) \subseteq DOMAIN pending
      BY DEF Due
    <3>2. QED
      BY <1>7, <2>3, <2>4, <2>5, <3>1 DEF About, Kept
  <2>7. Waiting(t)'
    BY <1>3, <1>4, <1>7, <2>2, <2>3, <2>5 DEF Waiting, Silent
  <2>8. ContactOK(t)'
    BY <1>4, <1>7, <1>10, <2>7 DEF ContactOK, Unrejected
  <2>9. QED
    BY <1>8, <2>6, <2>8
<1>11. QED
  BY <1>9, <1>10

\* A finger stays on its key: only its readings change.
LEMMA StaysFits ==
  ASSUME KeyboardInv, NEW t \in todo, TouchStays(t), UNCHANGED strokes
  PROVE  About(t) /\ ContactOK(t)' /\ FnHeldByFinger'
<1> DEFINE new == Updated(finger_data[t], snapshot[t])
<1>1. /\ t \in DOMAIN finger_data /\ t \in DOMAIN snapshot /\ t \in Tids
      /\ finger_data[t] \in FingerData /\ snapshot[t] \in Finger
      /\ finger_data' = [finger_data EXCEPT ![t] = new]
      /\ UNCHANGED <<pending, fn_key_pressed>>
  BY DEF TouchStays, KeyboardInv, TypeInv, TypeOK
<1>2. /\ new.event_code = finger_data[t].event_code
      /\ new.down_sent = finger_data[t].down_sent
      /\ new.rejection_status = finger_data[t].rejection_status
  BY <1>1, UpdatedOK
<1> HIDE DEF new
<1>3. \A u \in Tids : Kept(u)
  BY <1>1, <1>2 DEF Kept, Due
<1>4. ContactOK(t)'
  BY <1>1, <1>3, KeptFits DEF KeyboardInv, EveryContactFits
<1>5. About(t)
  BY <1>1, <1>3 DEF About, KeyboardInv, Due
<1>6. FnHeldByFinger'
  BY <1>1, <1>2 DEF KeyboardInv, FnHeldByFinger
<1>7. QED
  BY <1>4, <1>5, <1>6

\* Rejecting an accepted finger on Fn, or forgetting it, switches Fn off.
LEMMA FnFollows ==
  ASSUME FnHeldByFinger, NEW t \in DOMAIN finger_data,
         \A u \in DOMAIN finger_data \ {t} :
           u \in DOMAIN finger_data' /\ finger_data'[u] = finger_data[u],
         \/ fn_key_pressed' =
               (fn_key_pressed /\ finger_data[t].event_code # KEY_FN)
         \/ ~Unrejected(finger_data[t]) /\ fn_key_pressed' = fn_key_pressed
  PROVE  FnHeldByFinger'
BY DEF FnHeldByFinger, Unrejected

\* A finger slides off its key: its press is withdrawn, or its key released.
LEMMA MovesOffFits ==
  ASSUME KeyboardInv, NEW t \in todo, TouchMovesOff(t), UNCHANGED strokes
  PROVE  About(t) /\ ContactOK(t)' /\ FnHeldByFinger'
<1> DEFINE new  == Updated(finger_data[t], snapshot[t])
           rest == RemainingEvents(pending, t)
           code == finger_data[t].event_code
<1>1. /\ t \in DOMAIN finger_data
      /\ Unrejected(finger_data[t])
      /\ RejectFinger(t, new, "kRejectMovedOffKey")
      /\ pending' = IF finger_data[t].down_sent
                    THEN EnqueueEvent(rest, UpEvent(code, t)) ELSE rest
  BY DEF TouchMovesOff
<1>2. /\ t \in Tids /\ t \in DOMAIN snapshot /\ code \in Codes
      /\ QueueOK(pending, now) /\ now \in Nat
      /\ finger_data[t] \in FingerData /\ snapshot[t] \in Finger
  BY <1>1 DEF KeyboardInv, TypeInv, TypeOK, FingersFit
<1>3. new \in FingerData /\ new.event_code = code
  BY <1>2, UpdatedOK
<1> HIDE DEF new
<1>4. /\ DOMAIN finger_data' = DOMAIN finger_data
      /\ ~Unrejected(finger_data'[t])
      /\ \A u \in DOMAIN finger_data \ {t} : finger_data'[u] = finger_data[u]
      /\ fn_key_pressed' = (fn_key_pressed /\ code # KEY_FN)
  BY <1>1, <1>3, RejectOK DEF RejectionStatus, KeyboardInv
<1>5. FnHeldByFinger'
  BY <1>1, <1>4, FnFollows DEF KeyboardInv
<1>6. ContactOK(t)
  BY <1>2 DEF KeyboardInv, EveryContactFits
<1>7. EventsOf(pending, t) = {r \in Due(t) : pending[r].is_down}
  BY <1>2, EventsOfDue DEF DueIn, Due
<1>8. CASE finger_data[t].down_sent
  <2> DEFINE ev == UpEvent(code, t)
  <2>1. Holding(t)
    BY <1>1, <1>6, <1>8 DEF ContactOK
  <2>2. rest = pending
    BY <1>2, <1>7, <2>1, WithoutNone DEF Holding, RemainingEvents
  <2>3. /\ ev \in Event /\ EventFits(ev, now) /\ ev.deadline = now + Delay
        /\ ev.contact = t /\ ~ev.is_down /\ ev.code = code
    BY <1>2, NewEvents DEF UpEvent
  <2>4. pending' = EnqueueEvent(pending, ev)
    BY <1>1, <1>8, <2>2
  <2> HIDE DEF ev, rest
  <2>5. PICK end \in Nat :
          /\ \A r \in DOMAIN pending : r < end
          /\ DOMAIN pending' = DOMAIN pending \cup {end}
          /\ \A r \in DOMAIN pending : pending'[r] = pending[r]
          /\ pending'[end] = ev
    <3>1. Appended(pending, ev, pending')
      BY <1>2, <2>3, <2>4, EnqueueAdds
    <3>2. QED
      BY <3>1 DEF Appended
  <2>6. Sorted(pending')
    BY <1>2, <2>3, <2>4, EnqueueSorted DEF KeyboardInv
  <2>7. Due(t)' = {end} /\ \A u \in Tids \ {t} : Due(u)' = Due(u)
    BY <2>1, <2>3, <2>5 DEF Holding, Due
  <2>8. About(t)
    <3>1. \A u : Due(u) \subseteq DOMAIN pending
      BY DEF Due
    <3>2. QED
      BY <1>4, <2>5, <2>6, <2>7, <3>1 DEF About, Kept
  <2>9. Releasing(t)'
    BY <2>1, <2>3, <2>5, <2>7 DEF Releasing, Holding
  <2>10. ContactOK(t)'
    BY <1>1, <1>4, <2>9 DEF ContactOK, Unrejected
  <2>11. QED
    BY <1>5, <2>8, <2>10
<1>9. CASE ~finger_data[t].down_sent
  <2>1. Waiting(t)
    BY <1>1, <1>6, <1>9 DEF ContactOK
  <2>2. EventsOf(pending, t) = Due(t)
    BY <1>7, <2>1 DEF Waiting
  <2>3. pending' = Without(pending, Due(t))
    BY <1>1, <1>9, <2>2 DEF RemainingEvents
  <2> HIDE DEF rest
  <2>4. /\ DOMAIN pending' = DOMAIN pending \ Due(t)
        /\ \A r \in DOMAIN pending \ Due(t) : pending'[r] = pending[r]
        /\ Sorted(pending')
    BY <2>3, WithoutShrinks DEF KeyboardInv
  <2>5. Due(t)' = {} /\ \A u \in Tids \ {t} : Due(u)' = Due(u)
    BY <2>4 DEF Due
  <2>6. About(t)
    <3>1. \A u \in Tids \ {t} : Due(u) \subseteq DOMAIN pending \ Due(t)
      BY DEF Due
    <3>2. QED
      BY <1>4, <2>4, <2>5, <3>1 DEF About, Kept
  <2>7. Silent(t)'
    BY <2>1, <2>5 DEF Silent, Waiting
  <2>8. ContactOK(t)'
    BY <1>1, <1>4, <2>7 DEF ContactOK, Unrejected
  <2>9. QED
    BY <1>5, <2>6, <2>8
<1>10. QED
  BY <1>8, <1>9

\* A finger is lifted: its key is released, or press and release both go out,
\* or there is nothing to do for it.
LEMMA LeavesFits ==
  ASSUME KeyboardInv, NEW t \in DOMAIN finger_data, HandleLeavingFinger(t),
         finger_data' = Without(finger_data, {t}), UNCHANGED strokes
  PROVE  About(t) /\ ContactOK(t)' /\ FnHeldByFinger'
<1> DEFINE data == finger_data[t]
           code == data.event_code
           ev   == UpEvent(code, t)
<1>1. /\ t \in Tids /\ QueueOK(pending, now) /\ now \in Nat /\ Sorted(pending)
      /\ Unrejected(data) => code \in Codes
  BY DEF KeyboardInv, TypeInv, TypeOK, FingersFit
<1>2. /\ DOMAIN finger_data' = DOMAIN finger_data \ {t}
      /\ \A u \in DOMAIN finger_data \ {t} : finger_data'[u] = finger_data[u]
  BY WithoutShrinks
<1>3. ContactOK(t)
  BY <1>1 DEF KeyboardInv, EveryContactFits
<1>4. EventsOf(pending, t) = {r \in Due(t) : pending[r].is_down}
  BY <1>1, EventsOfDue DEF DueIn, Due
<1>5. CASE ~Unrejected(data)
  <2>1. UNCHANGED <<pending, fn_key_pressed>>
    BY <1>5 DEF HandleLeavingFinger
  <2>2. FnHeldByFinger'
    BY <1>2, <1>5, <2>1, FnFollows DEF KeyboardInv
  <2>3. ContactOK(t)'
    BY <1>2, <1>3, <1>5, <2>1
       DEF ContactOK, Silent, Releasing, Over, Due
  <2>4. About(t)
    BY <1>1, <1>2, <2>1 DEF About, Kept, Due
  <2>5. QED
    BY <2>2, <2>3, <2>4
<1>6. CASE Unrejected(data) /\ data.down_sent
  <2>1. /\ pending' = EnqueueEvent(pending, ev)
        /\ fn_key_pressed' = (fn_key_pressed /\ code # KEY_FN)
    BY <1>6 DEF HandleLeavingFinger
  <2>2. FnHeldByFinger'
    BY <1>2, <2>1, FnFollows DEF KeyboardInv
  <2>3. Holding(t)
    BY <1>3, <1>6 DEF ContactOK
  <2>4. /\ ev \in Event /\ EventFits(ev, now) /\ ev.deadline = now + Delay
        /\ ev.contact = t /\ ~ev.is_down /\ ev.code = code
    BY <1>1, <1>6, NewEvents DEF UpEvent
  <2> HIDE DEF ev
  <2>5. PICK end \in Nat :
          /\ \A r \in DOMAIN pending : r < end
          /\ DOMAIN pending' = DOMAIN pending \cup {end}
          /\ \A r \in DOMAIN pending : pending'[r] = pending[r]
          /\ pending'[end] = ev
    <3>1. Appended(pending, ev, pending')
      BY <1>1, <2>1, <2>4, EnqueueAdds
    <3>2. QED
      BY <3>1 DEF Appended
  <2>6. Sorted(pending')
    BY <1>1, <2>1, <2>4, EnqueueSorted
  <2>7. Due(t)' = {end} /\ \A u \in Tids \ {t} : Due(u)' = Due(u)
    BY <2>3, <2>4, <2>5 DEF Holding, Due
  <2>8. About(t)
    <3>1. \A u : Due(u) \subseteq DOMAIN pending
      BY DEF Due
    <3>2. QED
      BY <1>2, <2>5, <2>6, <2>7, <3>1 DEF About, Kept
  <2>9. Releasing(t)'
    BY <2>3, <2>4, <2>5, <2>7 DEF Releasing, Holding
  <2>10. ContactOK(t)'
    BY <1>2, <2>9 DEF ContactOK
  <2>11. QED
    BY <2>2, <2>8, <2>10
<1>7. CASE Unrejected(data) /\ ~data.down_sent
  <2> DEFINE marked == Guarantee(pending, t)
  <2>1. PICK r \in DOMAIN pending :
          /\ Due(t) = {r}
          /\ pending[r].is_down
          /\ pending[r].code = code
          /\ strokes[t] = <<>>
    BY <1>3, <1>7 DEF ContactOK, Waiting
  <2>2. EventsOf(pending, t) = {r}
    BY <1>4, <2>1
  <2>3. /\ ~UpGuaranteed(pending, t)
        /\ marked[r].is_guaranteed
        /\ \A s \in DOMAIN pending \ {r} : marked[s] = pending[s]
    BY <1>1, <2>1, <2>2, GuaranteeOne
  <2>4. /\ pending' = EnqueueEvent(marked, ev)
        /\ fn_key_pressed' = (fn_key_pressed /\ code # KEY_FN)
    BY <1>7, <2>3 DEF HandleLeavingFinger
  <2>5. /\ QueueOK(marked, now)
        /\ DOMAIN marked = DOMAIN pending
        /\ \A s \in DOMAIN pending :
             /\ marked[s].code = pending[s].code
             /\ marked[s].is_down = pending[s].is_down
             /\ marked[s].deadline = pending[s].deadline
             /\ marked[s].contact = pending[s].contact
    BY <1>1, GuaranteeOK
  <2> HIDE DEF marked
  <2>6. FnHeldByFinger'
    BY <1>2, <2>4, FnFollows DEF KeyboardInv
  <2>7. /\ ev \in Event /\ EventFits(ev, now) /\ ev.deadline = now + Delay
        /\ ev.contact = t /\ ~ev.is_down /\ ev.code = code
    BY <1>1, <1>7, NewEvents DEF UpEvent
  <2> HIDE DEF ev
  <2>8. PICK end \in Nat :
          /\ \A s \in DOMAIN pending : s < end
          /\ DOMAIN pending' = DOMAIN pending \cup {end}
          /\ \A s \in DOMAIN pending : pending'[s] = marked[s]
          /\ pending'[end] = ev
    <3>1. Appended(marked, ev, pending')
      BY <1>1, <2>4, <2>5, <2>7, EnqueueAdds
    <3>2. QED
      BY <2>5, <3>1 DEF Appended
  <2>9. Sorted(marked)
    BY <1>1, <2>5 DEF Sorted
  <2>10. Sorted(pending')
    BY <2>4, <2>5, <2>7, <2>9, EnqueueSorted
  <2>11. Due(t)' = {r, end} /\ \A u \in Tids \ {t} : Due(u)' = Due(u)
    BY <2>1, <2>5, <2>7, <2>8 DEF Due
  <2>12. About(t)
    <3>1. \A u \in Tids \ {t} : Due(u) \subseteq DOMAIN pending \ {r}
      BY <2>1 DEF Due
    <3>2. QED
      BY <1>2, <2>1, <2>3, <2>8, <2>10, <2>11, <3>1 DEF About, Kept
  <2>13. Tapping(t)'
    BY <2>1, <2>3, <2>5, <2>7, <2>8, <2>11 DEF Tapping
  <2>14. ContactOK(t)'
    BY <1>2, <2>13 DEF ContactOK
  <2>15. QED
    BY <2>6, <2>12, <2>14
<1>8. QED
  BY <1>5, <1>6, <1>7

-----------------------------------------------------------------------------
(***************************************************************************)
(* The firing loop.                                                        *)
(***************************************************************************)

\* An event under the id of a tracked finger is the press that finger waits
\* for.
LEMMA PressOfFinger ==
  ASSUME TypeInv, EveryContactFits,
         NEW r \in DOMAIN pending, pending[r].tid \in DOMAIN finger_data
  PROVE  LET t == pending[r].tid
         IN  /\ t \in Tids /\ pending[r].contact = t
             /\ Due(t) = {r} /\ strokes[t] = <<>>
             /\ pending[r].is_down /\ ~pending[r].is_guaranteed
             /\ pending[r].code = finger_data[t].event_code
             /\ Unrejected(finger_data[t])
<1> DEFINE t == pending[r].tid
<1>1. t \in Tids
  BY DEF TypeInv, TypeOK
<1>2. /\ pending[r] \in Event
      /\ t = IF pending[r].is_down THEN pending[r].contact ELSE OldTid
  BY DEF TypeInv, QueueOK, EventFits
<1>3. pending[r].is_down /\ pending[r].contact = t
  BY <1>1, <1>2, TidAssumption
<1>4. r \in Due(t)
  BY <1>3 DEF Due
<1> HIDE DEF t
<1>5. t \in DOMAIN finger_data
  BY DEF t
<1>6. ContactOK(t)
  BY <1>1 DEF EveryContactFits
<1>7. ~Silent(t) /\ ~Over(t) /\ ~Holding(t) /\ ~Releasing(t)
  BY <1>3, <1>4 DEF Silent, Over, Holding, Releasing
<1>8. Waiting(t) /\ Unrejected(finger_data[t])
  BY <1>5, <1>6, <1>7 DEF ContactOK
<1>9. Due(t) = {r}
  BY <1>4, <1>8 DEF Waiting
<1>10. /\ strokes[t] = <<>> /\ ~pending[r].is_guaranteed
       /\ pending[r].code = finger_data[t].event_code
  BY <1>8, <1>9 DEF Waiting
<1>11. QED
  BY <1>1, <1>3, <1>8, <1>9, <1>10 DEF t

\* A due finger is refused: its press was all there was of it.
LEMMA RejectedFits ==
  ASSUME KeyboardInv, NEW r \in DOMAIN pending, NEW t, t = pending[r].tid,
         t \in DOMAIN finger_data,
         NEW reason \in RejectionStatus \ {"kNotRejectedYet"},
         RejectFinger(t, finger_data[t], reason),
         pending' = RemainingEvents(Without(pending, {r}), t),
         UNCHANGED strokes
  PROVE  About(t) /\ ContactOK(t)' /\ Silent(t)' /\ FnHeldByFinger'
<1>1. /\ t \in Tids /\ Due(t) = {r} /\ strokes[t] = <<>>
      /\ pending[r].contact = t /\ Unrejected(finger_data[t])
  BY PressOfFinger DEF KeyboardInv
<1>2. finger_data[t] \in FingerData /\ QueueOK(pending, now) /\ Sorted(pending)
  BY DEF KeyboardInv, TypeInv, TypeOK
<1>3. /\ DOMAIN finger_data' = DOMAIN finger_data
      /\ ~Unrejected(finger_data'[t])
      /\ \A u \in DOMAIN finger_data \ {t} : finger_data'[u] = finger_data[u]
      /\ fn_key_pressed' = (fn_key_pressed /\ finger_data[t].event_code # KEY_FN)
  BY <1>2, RejectOK DEF KeyboardInv
<1>4. FnHeldByFinger'
  BY <1>3, FnFollows DEF KeyboardInv
<1> DEFINE rest == Without(pending, {r})
<1>5. /\ DOMAIN rest = DOMAIN pending \ {r}
      /\ \A s \in DOMAIN pending \ {r} : rest[s] = pending[s]
      /\ QueueOK(rest, now) /\ Sorted(rest)
  BY <1>2, WithoutOK, WithoutShrinks
<1> HIDE DEF rest
<1>6. EventsOf(rest, t) = {}
  <2>1. EventsOf(rest, t) = {s \in DueIn(rest, t) : rest[s].is_down}
    BY <1>1, <1>5, EventsOfDue
  <2>2. DueIn(rest, t) = {}
    BY <1>1, <1>5 DEF DueIn, Due
  <2>3. QED
    BY <2>1, <2>2
<1>7. pending' = rest
  BY <1>5, <1>6, WithoutNone DEF RemainingEvents, rest
<1>8. Due(t)' = {} /\ \A u \in Tids \ {t} : Due(u)' = Due(u)
  <2>1. \A u : Due(u)' = Due(u) \ {r}
    BY <1>5, <1>7 DEF Due
  <2>2. \A u \in Tids \ {t} : r \notin Due(u)
    BY <1>1 DEF Due
  <2>3. QED
    BY <1>1, <2>1, <2>2
<1>9. About(t)
  <2>1. \A u \in Tids \ {t} : Due(u) \subseteq DOMAIN pending \ {r}
    BY <1>1 DEF Due
  <2>2. QED
    BY <1>3, <1>5, <1>7, <1>8, <2>1 DEF About, Kept
<1>10. Silent(t)'
  BY <1>1, <1>8 DEF Silent
<1>11. ContactOK(t)'
  BY <1>3, <1>10 DEF ContactOK
<1>12. QED
  BY <1>4, <1>9, <1>10, <1>11

\* Sequences of two with the same elements are the same.
LEMMA PairsEqual ==
  ASSUME NEW S, NEW a \in Seq(S), NEW b \in Seq(S), Len(a) = 2, Len(b) = 2,
         a[1] = b[1], a[2] = b[2]
  PROVE  a = b
OBVIOUS

\* A short sequence gets longer by one.
LEMMA AppendOne ==
  ASSUME NEW k
  PROVE  /\ Append(<<>>, k) = <<k>>
         /\ \A j : Append(<<j>>, k) = <<j, k>>
<1>1. Append(<<>>, k) = <<k>>
  OBVIOUS
<1>2. ASSUME NEW j PROVE Append(<<j>>, k) = <<j, k>>
  <2> DEFINE longer == Append(<<j>>, k)
             pair == <<j, k>>
  <2>1. <<j>> \in Seq({j, k}) /\ k \in {j, k}
    OBVIOUS
  <2>2. longer \in Seq({j, k}) /\ Len(longer) = 2
    BY <2>1
  <2>3. longer[1] = j /\ longer[2] = k
    BY <2>1
  <2>4. pair \in Seq({j, k}) /\ Len(pair) = 2 /\ pair[1] = j /\ pair[2] = k
    OBVIOUS
  <2> HIDE DEF longer, pair
  <2>5. longer = pair
    BY <2>2, <2>3, <2>4, PairsEqual
  <2>6. QED
    BY <2>5 DEF longer, pair
<1>3. QED
  BY <1>1, <1>2

\* The front event is sent: the contact presses, once and before its release,
\* or releases what it pressed.
Sends(r) ==
  LET ev == pending[r]
      c  == ev.contact
      stroke == Stroke(ev.code, ev.is_down)
  IN  /\ strokes' = [strokes EXCEPT ![c] = Append(@, stroke)]
      /\ strokes[c] = IF ev.is_down THEN <<>> ELSE <<Stroke(ev.code, TRUE)>>
      /\ strokes'[c] = IF ev.is_down THEN <<Stroke(ev.code, TRUE)>>
                       ELSE <<Stroke(ev.code, TRUE), Stroke(ev.code, FALSE)>>

\* The front event is sent: its contact goes on to the next phase.
LEMMA SendFits ==
  ASSUME KeyboardInv, NEW r \in DOMAIN pending, IsFront(pending, r),
         NEW ev, ev = pending[r], NEW c, c = ev.contact,
         SendKey(pending[r]), pending' = Without(pending, {r}),
         finger_data' =
           IF pending[r].tid \in DOMAIN finger_data /\ pending[r].is_down
           THEN [finger_data EXCEPT ![pending[r].tid].down_sent = TRUE]
           ELSE finger_data,
         UNCHANGED fn_key_pressed
  PROVE  /\ c \in Tids /\ Sends(r)
         /\ About(c) /\ ContactOK(c)' /\ FnHeldByFinger'
<1>1. /\ ev \in Event /\ c \in Tids
      /\ ev.tid = IF ev.is_down THEN c ELSE OldTid
      /\ Sorted(pending)
      /\ OldTid \notin DOMAIN finger_data
      /\ finger_data \in [DOMAIN finger_data -> FingerData]
      /\ strokes \in [Tids -> Seq([code : Codes, down : BOOLEAN])]
      /\ DOMAIN pending \subseteq Nat
  BY TidAssumption DEF KeyboardInv, TypeInv, TypeOK, QueueOK, EventFits, Event
<1>2. r \in Due(c) /\ ContactOK(c)
  BY <1>1 DEF Due, KeyboardInv, EveryContactFits
<1>3. /\ DOMAIN pending' = DOMAIN pending \ {r}
      /\ \A s \in DOMAIN pending \ {r} : pending'[s] = pending[s]
      /\ Sorted(pending')
  <2>1. Sorted(pending)
    BY <1>1
  <2>2. QED
    BY <2>1, WithoutShrinks
<1>4. Due(c)' = Due(c) \ {r} /\ \A u \in Tids \ {c} : Due(u)' = Due(u)
  <2>1. \A u : Due(u)' = Due(u) \ {r}
    BY <1>3 DEF Due
  <2>2. \A u \in Tids \ {c} : r \notin Due(u)
    BY DEF Due
  <2>3. QED
    BY <1>2, <2>1, <2>2
<1>5. strokes' = [strokes EXCEPT ![c] = Append(@, Stroke(ev.code, ev.is_down))]
  BY DEF SendKey
<1>6. /\ \A u \in Tids \ {c} : strokes'[u] = strokes[u]
      /\ strokes[c] = <<>> /\ ev.is_down
           => strokes'[c] = <<Stroke(ev.code, TRUE)>>
      /\ strokes[c] = <<Stroke(ev.code, TRUE)>> /\ ~ev.is_down
           => strokes'[c] = <<Stroke(ev.code, TRUE), Stroke(ev.code, FALSE)>>
  <2> DEFINE k == Stroke(ev.code, ev.is_down)
  <2>1. \A u \in Tids \ {c} : strokes'[u] = strokes[u]
    BY <1>1, <1>5
  <2>2. strokes'[c] = Append(strokes[c], k)
    BY <1>1, <1>5
  <2>3. /\ ev.is_down => k = Stroke(ev.code, TRUE)
        /\ ~ev.is_down => k = Stroke(ev.code, FALSE)
    BY <1>1 DEF Event
  <2> HIDE DEF k
  <2>4. Append(<<>>, k) = <<k>> /\ \A j : Append(<<j>>, k) = <<j, k>>
    BY AppendOne
  <2>5. QED
    BY <2>1, <2>2, <2>3, <2>4
<1>7. /\ DOMAIN finger_data' = DOMAIN finger_data
      /\ \A u \in DOMAIN finger_data :
           /\ finger_data'[u].event_code = finger_data[u].event_code
           /\ finger_data'[u].rejection_status = finger_data[u].rejection_status
           /\ IF u = c /\ ev.is_down
              THEN finger_data'[u].down_sent
              ELSE finger_data'[u].down_sent = finger_data[u].down_sent
  <2>1. CASE c \in DOMAIN finger_data /\ ev.is_down
    <3>1. finger_data' = [finger_data EXCEPT ![c].down_sent = TRUE]
      BY <1>1, <2>1
    <3>2. QED
      BY <1>1, <2>1, <3>1 DEF FingerData
  <2>2. CASE ~(c \in DOMAIN finger_data /\ ev.is_down)
    <3>1. finger_data' = finger_data
      BY <1>1, <2>2
    <3>2. QED
      BY <1>1, <2>2, <3>1 DEF FingerData
  <2>3. QED
    BY <2>1, <2>2
<1>8. FnHeldByFinger'
  BY <1>7 DEF KeyboardInv, FnHeldByFinger
<1>9. About(c)
  <2>1. \A u \in Tids \ {c} : Due(u) \subseteq DOMAIN pending \ {r}
    BY <1>1 DEF Due
  <2>2. QED
    BY <1>3, <1>4, <1>6, <1>7, <2>1 DEF About, Kept
<1>10. CASE ev.is_down /\ c \in DOMAIN finger_data
  <2>1. /\ Due(c) = {r} /\ strokes[c] = <<>>
        /\ ev.code = finger_data[c].event_code /\ Unrejected(finger_data[c])
    BY <1>1, <1>10, PressOfFinger DEF KeyboardInv
  <2>2. Holding(c)'
    BY ZenonT(30), <1>4, <1>6, <1>7, <1>10, <2>1 DEF Holding
  <2>3. ContactOK(c)'
    BY <1>7, <1>10, <2>1, <2>2 DEF ContactOK, Unrejected
  <2>4. Sends(r)
    BY <1>5, <1>6, <1>10, <2>1 DEF Sends
  <2>5. QED
    BY <1>1, <1>8, <1>9, <2>3, <2>4
<1>11. CASE ev.is_down /\ c \notin DOMAIN finger_data
  <2>1. Tapping(c)
    BY <1>2, <1>11 DEF ContactOK, Silent, Over, Releasing
  <2>2. PICK s \in DOMAIN pending :
          /\ Due(c) = {r, s} /\ r < s
          /\ ~pending[s].is_down /\ pending[s].code = ev.code
          /\ strokes[c] = <<>>
    BY <1>2, <1>11, <2>1 DEF Tapping
  <2>3. Due(c)' = {s} /\ s \in DOMAIN pending' /\ pending'[s] = pending[s]
    <3>1. r # s
      BY <1>1, <2>2
    <3>2. QED
      BY <1>3, <1>4, <2>2, <3>1
  <2>4. Releasing(c)'
    BY ZenonT(30), <1>6, <1>11, <2>2, <2>3 DEF Releasing
  <2>5. ContactOK(c)'
    BY <1>7, <1>11, <2>4 DEF ContactOK
  <2>6. Sends(r)
    BY <1>5, <1>6, <1>11, <2>2 DEF Sends
  <2>7. QED
    BY <1>1, <1>8, <1>9, <2>5, <2>6
<1>12. CASE ~ev.is_down
  <2>1. ~Silent(c) /\ ~Over(c) /\ ~Holding(c) /\ ~Waiting(c)
    BY <1>2, <1>12 DEF Silent, Over, Holding, Waiting
  <2>2. ~Tapping(c)
    <3>1. SUFFICES ASSUME Tapping(c) PROVE FALSE
      OBVIOUS
    <3>2. PICK i, s \in DOMAIN pending :
            Due(c) = {i, s} /\ i < s /\ pending[i].is_down
      BY <3>1 DEF Tapping
    <3>3. r = s /\ r <= i
      BY <1>2, <1>12, <3>2 DEF IsFront
    <3>4. QED
      BY <1>1, <3>2, <3>3
  <2>3. Releasing(c) /\ (c \in DOMAIN finger_data => ~Unrejected(finger_data[c]))
    BY <1>2, <2>1, <2>2 DEF ContactOK
  <2>4. Due(c) = {r} /\ strokes[c] = <<Stroke(ev.code, TRUE)>>
    BY <1>2, <2>3 DEF Releasing
  <2>5. Over(c)'
    BY <1>1, <1>4, <1>6, <1>12, <2>4 DEF Over, Event
  <2>6. ContactOK(c)'
    BY <1>7, <2>3, <2>5 DEF ContactOK, Unrejected
  <2>7. Sends(r)
    BY <1>5, <1>6, <1>12, <2>4 DEF Sends
  <2>8. QED
    BY <1>1, <1>8, <1>9, <2>6, <2>7
<1>13. QED
  BY <1>10, <1>11, <1>12

-----------------------------------------------------------------------------
(***************************************************************************)
(* The invariant is inductive.                                             *)
(***************************************************************************)

\* A step about one contact that sends nothing keeps what is not about frames.
LEMMA QuietStep ==
  ASSUME KeyboardInv, NEW t \in Tids,
         t \in DOMAIN snapshot \cup DOMAIN finger_data,
         About(t), ContactOK(t)', FnHeldByFinger',
         UNCHANGED <<sent_vars, pad_vars, pc>>
  PROVE  /\ Sorted(pending)' /\ EveryContactFits' /\ FnHeldByFinger'
         /\ OrderFits' /\ KeysFit'
         /\ \A u \in Tids \ {t} : Silent(u) => Silent(u)'
<1>1. \A u \in Tids \ {t} : Kept(u)
  BY DEF About
<1>2. EveryContactFits' /\ \A u \in Tids \ {t} : Silent(u) => Silent(u)'
  BY <1>1, KeptFits DEF EveryContactFits, KeyboardInv
<1>3. OrderFits'
  <2>1. SUFFICES ASSUME NEW u \in Tids, NEW a \in before'[u]
                 PROVE  /\ u \in seen' /\ a \in seen'
                        /\ a \notin DOMAIN snapshot' /\ a \notin DOMAIN finger_data'
                        /\ \A r \in Due(u)', s \in Due(a)' : s < r
                        /\ strokes'[u] # <<>> => Due(a)' = {}
    BY DEF OrderFits
  <2>2. /\ u \in seen /\ a \in seen /\ a \in Tids
        /\ a \notin DOMAIN snapshot /\ a \notin DOMAIN finger_data
        /\ \A r \in Due(u), s \in Due(a) : s < r
        /\ strokes[u] # <<>> => Due(a) = {}
    BY <2>1 DEF KeyboardInv, OrderFits, TypeInv, TypeOK, pad_vars
  <2>3. a # t
    BY <2>2
  <2>4. Due(a)' = Due(a)
    BY <1>1, <2>2, <2>3 DEF Kept
  <2>5. \A r \in Due(u)' \ Due(u), s \in Due(a) : s < r
    BY <1>1 DEF About, Kept, Due
  <2>6. a \notin DOMAIN finger_data'
    BY <2>2, <2>3 DEF About
  <2>7. UNCHANGED <<snapshot, seen, strokes>>
    BY DEF pad_vars, sent_vars
  <2>8. QED
    BY <2>2, <2>4, <2>5, <2>6, <2>7
<1>4. KeysFit'
  BY DEF KeysFit, KeyboardInv, sent_vars
<1>5. QED
  BY <1>2, <1>3, <1>4 DEF About

\* The loop over the touches keeps the invariant.
LEMMA VisitKeeps ==
  ASSUME KeyboardInv, TypeInv', VisitTouch
  PROVE  KeyboardInv'
<1>1. PICK t \in todo :
        /\ \/ TouchArrives(t)
           \/ TouchStays(t)
           \/ TouchMovesOff(t)
           \/ TouchIgnored(t)
        /\ todo' = todo \ {t}
  BY DEF VisitTouch
<1>2. /\ pc = "touches" /\ UNCHANGED <<sent_vars, pad_vars, pc>>
      /\ UNCHANGED strokes
  BY DEF VisitTouch, sent_vars
<1>3. t \in DOMAIN snapshot /\ t \in Tids
  BY DEF KeyboardInv, TypeInv, TypeOK
<1>4. About(t) /\ ContactOK(t)' /\ FnHeldByFinger'
  <2>1. CASE TouchIgnored(t)
    <3>1. UNCHANGED <<finger_data, pending, fn_key_pressed>>
      BY <2>1 DEF TouchIgnored, code_vars
    <3>2. EveryContactFits' /\ \A u \in Tids : Kept(u)
      BY <1>2, <3>1, SameFits DEF KeyboardInv, Kept, Due
    <3>3. QED
      BY <1>3, <3>1, <3>2
         DEF About, EveryContactFits, KeyboardInv, FnHeldByFinger, Due
  <2>2. QED
    BY <1>1, <1>2, <2>1, ArrivesFits, StaysFits, MovesOffFits
<1>5. t \in DOMAIN finger_data'
  BY <1>1 DEF TouchArrives, TouchStays, TouchMovesOff, TouchIgnored,
              RejectFinger, code_vars
<1>6. /\ Sorted(pending)' /\ EveryContactFits' /\ OrderFits' /\ KeysFit'
      /\ \A u \in Tids \ {t} : Silent(u) => Silent(u)'
  BY <1>2, <1>3, <1>4, QuietStep
<1>7. FramesFit'
  <2>1. UNCHANGED <<snapshot, seen>>
    BY <1>2 DEF pad_vars
  <2>2. DOMAIN finger_data' = DOMAIN finger_data \cup {t}
    BY <1>4, <1>5 DEF About
  <2>3. QED
    BY <1>1, <1>2, <1>3, <1>6, <2>1, <2>2 DEF KeyboardInv, FramesFit
<1>8. QED
  BY <1>4, <1>6, <1>7 DEF KeyboardInv

\* The loop over the leaving fingers keeps the invariant.
LEMMA LeaveKeeps ==
  ASSUME KeyboardInv, TypeInv', FingerLeaves
  PROVE  KeyboardInv'
<1>1. PICK t \in DOMAIN finger_data \ DOMAIN snapshot :
        HandleLeavingFinger(t) /\ finger_data' = Without(finger_data, {t})
  BY DEF FingerLeaves
<1>2. /\ pc = "leaving" /\ UNCHANGED <<sent_vars, pad_vars, pc, todo>>
      /\ UNCHANGED strokes
  BY DEF FingerLeaves, sent_vars
<1>3. t \in Tids
  BY DEF KeyboardInv, TypeInv, TypeOK
<1>4. About(t) /\ ContactOK(t)' /\ FnHeldByFinger'
  BY <1>1, <1>2, LeavesFits
<1>5. /\ Sorted(pending)' /\ EveryContactFits' /\ OrderFits' /\ KeysFit'
      /\ \A u \in Tids \ {t} : Silent(u) => Silent(u)'
  BY <1>2, <1>3, <1>4, QuietStep
<1>6. FramesFit'
  <2>1. UNCHANGED <<snapshot, seen>>
    BY <1>2 DEF pad_vars
  <2>2. DOMAIN finger_data' = DOMAIN finger_data \ {t}
    BY <1>1, WithoutShrinks
  <2>3. QED
    BY <1>1, <1>2, <1>5, <2>1, <2>2 DEF KeyboardInv, FramesFit
<1>7. QED
  BY <1>4, <1>5, <1>6 DEF KeyboardInv

\* Refusing a due finger keeps the invariant.
LEMMA RejectKeeps ==
  ASSUME KeyboardInv, TypeInv', FireRejected
  PROVE  KeyboardInv'
<1>1. PICK r \in DOMAIN pending :
        /\ pending[r].tid \in DOMAIN finger_data
        /\ RejectFinger(pending[r].tid, finger_data[pending[r].tid],
                        IF finger_data[pending[r].tid].max_pressure # -1
                        THEN "kRejectPressure" ELSE "kRejectTouchDiameter")
        /\ pending' = RemainingEvents(Without(pending, {r}), pending[r].tid)
  BY DEF FireRejected
<1>2. /\ pc = "drain" /\ UNCHANGED <<sent_vars, pad_vars, pc, todo>>
      /\ UNCHANGED strokes
  BY DEF FireRejected, sent_vars
<1>3. PICK t : t = pending[r].tid
  OBVIOUS
<1>4. PICK reason \in RejectionStatus \ {"kNotRejectedYet"} :
        RejectFinger(t, finger_data[t], reason)
  BY <1>1, <1>3 DEF RejectionStatus
<1>5. t \in DOMAIN finger_data /\ t \in Tids
  BY <1>1, <1>3 DEF KeyboardInv, TypeInv, TypeOK
<1>6. About(t) /\ ContactOK(t)' /\ FnHeldByFinger'
  BY <1>1, <1>2, <1>3, <1>4, <1>5, RejectedFits
<1>7. /\ Sorted(pending)' /\ EveryContactFits' /\ OrderFits' /\ KeysFit'
      /\ \A u \in Tids \ {t} : Silent(u) => Silent(u)'
  BY <1>2, <1>5, <1>6, QuietStep
<1>8. FramesFit'
  <2>1. UNCHANGED <<snapshot, seen>>
    BY <1>2 DEF pad_vars
  <2>2. DOMAIN finger_data' = DOMAIN finger_data
    BY <1>4 DEF RejectFinger
  <2>3. QED
    BY <1>2, <1>5, <1>7, <2>1, <2>2 DEF KeyboardInv, FramesFit
<1>9. QED
  BY <1>6, <1>7, <1>8 DEF KeyboardInv

\* What sending the front event does, for the contact it is due to.
LEMMA SendDoes ==
  ASSUME KeyboardInv, FireSend
  PROVE  \E r \in DOMAIN pending, c \in Tids :
           /\ IsFront(pending, r) /\ c = pending[r].contact
           /\ SendKey(pending[r]) /\ Sends(r)
           /\ DOMAIN finger_data' = DOMAIN finger_data
           /\ \A u \in DOMAIN finger_data :
                finger_data'[u].rejection_status = finger_data[u].rejection_status
           /\ About(c) /\ ContactOK(c)' /\ FnHeldByFinger'
           /\ Due(c)' \subseteq Due(c)
<1>1. PICK r \in DOMAIN pending :
        LET ev == pending[r]
            live == ev.tid \in DOMAIN finger_data
        IN  /\ IsFront(pending, r)
            /\ SendKey(ev)
            /\ pending' = Without(pending, {r})
            /\ finger_data' = IF live /\ ev.is_down
                              THEN [finger_data EXCEPT ![ev.tid].down_sent = TRUE]
                              ELSE finger_data
  BY DEF FireSend, Ready
<1>2. PICK ev, c : ev = pending[r] /\ c = ev.contact
  OBVIOUS
<1>3. UNCHANGED fn_key_pressed
  BY DEF FireSend
<1>4. c \in Tids /\ Sends(r) /\ About(c) /\ ContactOK(c)' /\ FnHeldByFinger'
  BY <1>1, <1>2, <1>3, SendFits
<1>5. /\ DOMAIN finger_data' = DOMAIN finger_data
      /\ \A u \in DOMAIN finger_data :
           finger_data'[u].rejection_status = finger_data[u].rejection_status
  <2>1. \A u \in DOMAIN finger_data : finger_data[u] \in FingerData
    BY DEF KeyboardInv, TypeInv, TypeOK
  <2>2. QED
    BY <1>1, <2>1 DEF FingerData
<1>6. Due(c)' \subseteq Due(c)
  <2>1. /\ DOMAIN pending' = DOMAIN pending \ {r}
        /\ \A s \in DOMAIN pending \ {r} : pending'[s] = pending[s]
    BY <1>1, WithoutShrinks
  <2>2. QED
    BY <2>1 DEF Due
<1>7. QED
  BY <1>1, <1>2, <1>4, <1>5, <1>6

\* Sending the front event keeps the invariant.
LEMMA SendKeeps ==
  ASSUME KeyboardInv, TypeInv', FireSend
  PROVE  KeyboardInv'
<1>1. PICK r \in DOMAIN pending, c \in Tids :
        /\ IsFront(pending, r) /\ c = pending[r].contact
        /\ SendKey(pending[r]) /\ Sends(r)
        /\ DOMAIN finger_data' = DOMAIN finger_data
        /\ About(c) /\ ContactOK(c)' /\ FnHeldByFinger'
        /\ Due(c)' \subseteq Due(c)
  BY SendDoes
<1>2. PICK ev : ev = pending[r]
  OBVIOUS
<1>3. /\ pc = "drain" /\ UNCHANGED <<pc, todo, snapshot, seen, before>>
      /\ needs_syn' = TRUE
  BY DEF FireSend, pad_vars
<1>4. /\ \A u \in Tids \ {c} : Kept(u)
      /\ Sorted(pending)'
  BY <1>1 DEF About
<1>5. EveryContactFits' /\ \A u \in Tids \ {c} : Silent(u) => Silent(u)'
  BY <1>1, <1>4, KeptFits DEF EveryContactFits, KeyboardInv
<1>6. r \in Due(c)
  BY <1>1 DEF Due
<1>7. FramesFit'
  <2>1. ~Silent(c)
    BY <1>6 DEF Silent
  <2>2. QED
    BY <1>1, <1>3, <1>5, <2>1 DEF KeyboardInv, FramesFit
<1>8. KeysFit'
  <2>1. /\ keys_down' = IF ev.is_down THEN keys_down \cup {ev.code}
                                      ELSE keys_down \ {ev.code}
        /\ strokes[c] = IF ev.is_down THEN <<>> ELSE <<Stroke(ev.code, TRUE)>>
        /\ ev.is_down => strokes'[c] = <<Stroke(ev.code, TRUE)>>
    BY <1>1, <1>2 DEF SendKey, Sends
  <2>2. SUFFICES ASSUME NEW code \in keys_down'
                 PROVE  \E t \in Tids : strokes'[t] = <<Stroke(code, TRUE)>>
    BY <1>3 DEF KeysFit
  <2>3. CASE ev.is_down /\ code = ev.code
    BY <2>1, <2>3
  <2>4. CASE ~(ev.is_down /\ code = ev.code)
    <3>1. code \in keys_down /\ (~ev.is_down => code # ev.code)
      BY <2>1, <2>4
    <3>2. PICK t \in Tids : strokes[t] = <<Stroke(code, TRUE)>>
      BY <3>1 DEF KeyboardInv, KeysFit
    <3>3. t # c
      BY <2>1, <3>1, <3>2 DEF Stroke
    <3>4. QED
      BY <1>4, <3>2, <3>3 DEF Kept
  <2>5. QED
    BY <2>3, <2>4
<1>9. OrderFits'
  <2>1. SUFFICES ASSUME NEW u \in Tids, NEW a \in before'[u]
                 PROVE  /\ u \in seen' /\ a \in seen'
                        /\ a \notin DOMAIN snapshot' /\ a \notin DOMAIN finger_data'
                        /\ \A i \in Due(u)', s \in Due(a)' : s < i
                        /\ strokes'[u] # <<>> => Due(a)' = {}
    BY DEF OrderFits
  <2>2. /\ u \in seen /\ a \in seen /\ a \in Tids
        /\ a \notin DOMAIN snapshot /\ a \notin DOMAIN finger_data
        /\ \A i \in Due(u), s \in Due(a) : s < i
        /\ strokes[u] # <<>> => Due(a) = {}
    BY <1>3, <2>1 DEF KeyboardInv, OrderFits, TypeInv, TypeOK
  <2>3. Due(a)' \subseteq Due(a) /\ Due(u)' \subseteq Due(u)
    BY <1>1, <1>4, <2>2 DEF Kept
  <2>4. ASSUME strokes'[u] # <<>> PROVE Due(a) = {}
    <3>1. CASE u = c
      <4>1. \A s \in Due(a) : s < r /\ r <= s /\ s \in Nat /\ r \in Nat
        BY <1>1, <1>6, <2>2, <3>1
           DEF IsFront, Due, KeyboardInv, TypeInv, TypeOK
      <4>2. QED
        BY <4>1
    <3>2. CASE u # c
      BY <1>4, <2>2, <2>4, <3>2 DEF Kept
    <3>3. QED
      BY <3>1, <3>2
  <2>5. QED
    BY <1>1, <1>3, <2>2, <2>3, <2>4
<1>10. QED
  BY <1>1, <1>4, <1>5, <1>7, <1>8, <1>9 DEF KeyboardInv

\* A frame keeps the invariant: whoever is new in it has done nothing yet.
LEMMA FrameKeeps ==
  ASSUME KeyboardInv, TypeInv', ReadSnapshot
  PROVE  KeyboardInv'
<1>1. PICK on \in SUBSET Tids :
        /\ on \cap seen \subseteq DOMAIN snapshot
        /\ DOMAIN snapshot' = on
        /\ todo' = on
        /\ seen' = seen \cup on
        /\ before' = [t \in Tids |-> IF t \in on \ seen
                                     THEN seen \ DOMAIN snapshot
                                     ELSE before[t]]
  BY DEF ReadSnapshot, ReadFrame
<1>2. /\ pc = "wait" /\ pc' = "touches"
      /\ UNCHANGED <<finger_data, pending, fn_key_pressed>>
      /\ UNCHANGED <<needs_syn, keys_down, reported, strokes>>
  BY DEF ReadSnapshot, ReadFrame, code_vars, sent_vars
<1>3. /\ EveryContactFits'
      /\ \A u \in Tids : Due(u)' = Due(u) /\ (Silent(u) => Silent(u)')
  BY <1>2, SameFits DEF KeyboardInv
<1>4. /\ DOMAIN finger_data = DOMAIN snapshot /\ DOMAIN snapshot \subseteq seen
      /\ \A u \in Tids : u \notin seen => Silent(u)
  BY <1>2 DEF KeyboardInv, FramesFit
<1>5. FramesFit'
  BY <1>1, <1>2, <1>3, <1>4 DEF FramesFit
<1>6. KeysFit'
  BY <1>2 DEF KeyboardInv, KeysFit
<1>7. OrderFits'
  <2>1. SUFFICES ASSUME NEW u \in Tids, NEW a \in before'[u]
                 PROVE  /\ u \in seen' /\ a \in seen'
                        /\ a \notin DOMAIN snapshot' /\ a \notin DOMAIN finger_data'
                        /\ \A r \in Due(u)', s \in Due(a)' : s < r
                        /\ strokes'[u] # <<>> => Due(a)' = {}
    BY DEF OrderFits
  <2>2. CASE u \in on \ seen
    <3>1. a \in seen \ DOMAIN snapshot /\ a \in Tids
      BY <1>1, <2>1, <2>2 DEF KeyboardInv, TypeInv, TypeOK
    <3>2. Due(u)' = {} /\ strokes'[u] = <<>>
      BY <1>2, <1>3, <1>4, <2>2 DEF Silent
    <3>3. QED
      BY <1>1, <1>2, <1>4, <2>2, <3>1, <3>2
  <2>3. CASE u \notin on \ seen
    <3>1. a \in before[u]
      BY <1>1, <2>1, <2>3
    <3>2. /\ u \in seen /\ a \in seen /\ a \in Tids
          /\ a \notin DOMAIN snapshot /\ a \notin DOMAIN finger_data
          /\ \A r \in Due(u), s \in Due(a) : s < r
          /\ strokes[u] # <<>> => Due(a) = {}
      BY <3>1 DEF KeyboardInv, OrderFits, TypeInv, TypeOK
    <3>3. QED
      BY <1>1, <1>2, <1>3, <3>2
  <2>4. QED
    BY <2>2, <2>3
<1>8. QED
  BY <1>2, <1>3, <1>5, <1>6, <1>7 DEF KeyboardInv, FnHeldByFinger

\* Steps that only move on to the next part of the loop keep the invariant.
LEMMA MoveOnKeeps ==
  ASSUME KeyboardInv, TypeInv',
         PartialEvent \/ Timeout \/ TouchesDone \/ LeavingDone \/ DrainDone
           \/ UNCHANGED vars
  PROVE  KeyboardInv'
<1>1. /\ UNCHANGED <<finger_data, pending, fn_key_pressed>>
      /\ UNCHANGED <<todo, strokes, keys_down, snapshot, seen, before>>
  BY DEF PartialEvent, Timeout, TouchesDone, LeavingDone, DrainDone,
         vars, code_vars, sent_vars, pad_vars
<1>2. /\ EveryContactFits'
      /\ \A u \in Tids : Due(u)' = Due(u) /\ (Silent(u) => Silent(u)')
  BY <1>1, SameFits DEF KeyboardInv
<1>3. OrderFits'
  <2>1. \A u \in Tids : \A a \in before[u] : a \in Tids
    BY DEF KeyboardInv, TypeInv, TypeOK
  <2>2. QED
    BY <1>1, <1>2, <2>1 DEF KeyboardInv, OrderFits
<1>4. \/ UNCHANGED <<pc, needs_syn, reported>>
      \/ Timeout \/ TouchesDone \/ LeavingDone \/ DrainDone
  BY DEF PartialEvent, vars, sent_vars
<1>5. KeysFit'
  <2>1. \/ pc' = pc /\ UNCHANGED <<needs_syn, reported>>
        \/ pc' = "drain" /\ UNCHANGED <<needs_syn, reported>>
        \/ pc = "touches" /\ UNCHANGED <<needs_syn, reported>>
        \/ /\ needs_syn' = FALSE
           /\ reported' = IF needs_syn THEN keys_down ELSE reported
    BY <1>4 DEF Timeout, TouchesDone, LeavingDone, DrainDone, sent_vars
  <2>2. /\ needs_syn => pc = "drain"
        /\ ~needs_syn => reported = keys_down
    BY DEF KeyboardInv, KeysFit
  <2>3. /\ needs_syn' => pc' = "drain"
        /\ ~needs_syn' => reported' = keys_down'
    <3>1. CASE needs_syn' = FALSE
               /\ reported' = IF needs_syn THEN keys_down ELSE reported
      BY <1>1, <2>2, <3>1
    <3>2. CASE UNCHANGED <<needs_syn, reported>>
      BY <1>1, <2>1, <2>2, <3>2
    <3>3. QED
      BY <2>1, <3>1, <3>2
  <2>4. QED
    BY <1>1, <2>3 DEF KeyboardInv, KeysFit
<1>6. FramesFit'
  <2>1. \/ pc' = pc
        \/ pc = "wait" /\ pc' = "drain"
        \/ pc = "touches" /\ pc' = "leaving" /\ todo = {}
        \/ /\ pc = "leaving" /\ pc' = "drain"
           /\ DOMAIN finger_data \subseteq DOMAIN snapshot \cup {OldTid}
        \/ pc = "drain" /\ pc' = "wait"
    BY <1>4 DEF Timeout, TouchesDone, LeavingDone, DrainDone
  <2>2. DOMAIN finger_data \subseteq Tids
    BY DEF KeyboardInv, TypeInv, TypeOK
  <2>3. QED
    BY <1>1, <1>2, <2>1, <2>2, TidAssumption DEF KeyboardInv, FramesFit
<1>7. QED
  BY <1>1, <1>2, <1>3, <1>5, <1>6 DEF KeyboardInv, FnHeldByFinger

\* The invariant holds at the start.
LEMMA KeyboardStart == Init => KeyboardInv
<1> SUFFICES ASSUME Init PROVE KeyboardInv
  OBVIOUS
<1>1. TypeInv
  BY TypeInit
<1>2. \A t \in Tids : Silent(t)
  BY EmptyFunction DEF Init, Silent, Due
<1>3. Sorted(pending) /\ EveryContactFits /\ FramesFit
  BY <1>2, EmptyFunction
     DEF Init, Sorted, EveryContactFits, ContactOK, FramesFit
<1>4. KeysFit /\ FnHeldByFinger /\ OrderFits
  BY DEF Init, KeysFit, FnHeldByFinger, OrderFits
<1>5. QED
  BY <1>1, <1>3, <1>4 DEF KeyboardInv

\* Every step keeps the invariant.
LEMMA KeyboardStep == KeyboardInv /\ [Next]_vars => KeyboardInv'
<1> SUFFICES ASSUME KeyboardInv, [Next]_vars PROVE KeyboardInv'
  OBVIOUS
<1>1. TypeInv'
  BY TypeStep DEF KeyboardInv
<1>2. QED
  BY <1>1, FrameKeeps, VisitKeeps, LeaveKeeps, RejectKeeps, SendKeeps,
     MoveOnKeeps DEF Next, Handler

\* The inductive invariant holds throughout, for every value of the constants.
THEOREM KeyboardInvariant == Spec => []KeyboardInv
BY KeyboardStart, KeyboardStep, PTL DEF Spec

-----------------------------------------------------------------------------
(***************************************************************************)
(* What the worker guarantees, and that it implements KeyTaps.             *)
(***************************************************************************)

\* pending_events_ is in the order of the deadlines, after every step.
THEOREM QueueIsChronological == Spec => []Chronological
<1>1. KeyboardInv => Chronological
  BY DEF KeyboardInv, Sorted, Chronological
<1>2. QED
  BY <1>1, KeyboardInvariant, PTL

\* The phases of all contacts stay consistent with the queue and the finger
\* data.
THEOREM ContactsFit == Spec => []EveryContactFits
<1>1. KeyboardInv => EveryContactFits
  BY DEF KeyboardInv
<1>2. QED
  BY <1>1, KeyboardInvariant, PTL

\* Fn is on only while an accepted finger holds it.
THEOREM FnIsHeld == Spec => []FnHeldByFinger
<1>1. KeyboardInv => FnHeldByFinger
  BY DEF KeyboardInv
<1>2. QED
  BY <1>1, KeyboardInvariant, PTL

\* The firing loop always finds the finger of an event it may refuse.
THEOREM RefusableHasFinger == Spec => []RefusableEventHasItsFinger
<1>1. ASSUME KeyboardInv, NEW r \in DOMAIN pending, ~pending[r].is_guaranteed
      PROVE  /\ pending[r].tid \in DOMAIN finger_data
             /\ Unrejected(finger_data[pending[r].tid])
             /\ finger_data[pending[r].tid].starting_key_number # kNoKey
             /\ finger_data[pending[r].tid].event_code = pending[r].code
  <2>1. /\ pending[r].is_down /\ pending[r].tid = pending[r].contact
        /\ pending[r].contact \in Tids
    BY <1>1 DEF KeyboardInv, TypeInv, QueueOK, EventFits, Event
  <2>2. PICK t \in Tids : t = pending[r].contact
    BY <2>1
  <2>3. r \in Due(t) /\ ContactOK(t)
    BY <1>1, <2>2 DEF Due, KeyboardInv, EveryContactFits
  <2>4. ~Silent(t) /\ ~Over(t) /\ ~Releasing(t) /\ ~Holding(t)
    BY <2>1, <2>3 DEF Silent, Over, Releasing, Holding
  <2>5. ~Tapping(t)
    BY <1>1, <2>1, <2>3 DEF Tapping
  <2>6. t \in DOMAIN finger_data
    BY <2>3, <2>4, <2>5 DEF ContactOK
  <2>7. QED
    <3>1. /\ Unrejected(finger_data[t])
          /\ finger_data[t].event_code = pending[r].code
      BY <1>1, <2>1, <2>2, <2>6, PressOfFinger DEF KeyboardInv
    <3>2. finger_data[t].starting_key_number \in Nat
      BY <1>1, <2>6, <3>1, LayoutAssumption DEF KeyboardInv, TypeInv, FingersFit
    <3>3. QED
      BY <2>1, <2>2, <2>6, <3>1, <3>2 DEF kNoKey
<1>2. KeyboardInv => RefusableEventHasItsFinger
  BY <1>1 DEF RefusableEventHasItsFinger, Unrejected
<1>3. QED
  BY <1>2, KeyboardInvariant, PTL

\* A key that readers see down is held by a finger or about to be released.
THEOREM KeysAreReleased == Spec => []NoStuckKey
<1>1. ASSUME KeyboardInv, pc = "wait", NEW code \in reported
      PROVE  \/ \E t \in DOMAIN finger_data \cap DOMAIN snapshot :
                  /\ Unrejected(finger_data[t])
                  /\ finger_data[t].down_sent
                  /\ finger_data[t].event_code = code
             \/ \E r \in DOMAIN pending :
                  ~pending[r].is_down /\ pending[r].code = code
  <2>1. reported = keys_down /\ DOMAIN finger_data = DOMAIN snapshot
    BY <1>1 DEF KeyboardInv, KeysFit, FramesFit
  <2>2. PICK t \in Tids : strokes[t] = <<Stroke(code, TRUE)>>
    BY <1>1, <2>1 DEF KeyboardInv, KeysFit
  <2>3. ContactOK(t)
    BY <1>1 DEF KeyboardInv, EveryContactFits
  <2>4. ~Silent(t) /\ ~Over(t) /\ ~Waiting(t) /\ ~Tapping(t)
    BY <2>2 DEF Silent, Over, Waiting, Tapping
  <2>5. CASE Releasing(t)
    <3>1. PICK r \in DOMAIN pending :
            ~pending[r].is_down /\ strokes[t] = <<Stroke(pending[r].code, TRUE)>>
      BY <2>5 DEF Releasing
    <3>2. pending[r].code = code
      BY <2>2, <3>1 DEF Stroke
    <3>3. QED
      BY <3>1, <3>2
  <2>6. CASE ~Releasing(t)
    <3>1. /\ t \in DOMAIN finger_data /\ Unrejected(finger_data[t])
          /\ finger_data[t].down_sent /\ Holding(t)
      BY <2>3, <2>4, <2>6 DEF ContactOK
    <3>2. finger_data[t].event_code = code
      BY <2>2, <3>1 DEF Holding, Stroke
    <3>3. QED
      BY <2>1, <3>1, <3>2
  <2>7. QED
    BY <2>5, <2>6
<1>2. KeyboardInv => NoStuckKey
  BY <1>1 DEF NoStuckKey, Unrejected
<1>3. QED
  BY <1>2, KeyboardInvariant, PTL

-----------------------------------------------------------------------------
(***************************************************************************)
(* Two fingers, one code.                                                  *)
(***************************************************************************)
ReleasedBeside(t, code) ==
  \E u \in Tids \ before[t] :
    u # t /\ strokes[u] = <<Stroke(code, TRUE), Stroke(code, FALSE)>>

\* A code some contact has pressed and not released is down, or another contact
\* has released it since.
PressedIsDown ==
  \A t \in Tids, code \in Codes :
    strokes[t] = <<Stroke(code, TRUE)>>
      => code \in keys_down \/ ReleasedBeside(t, code)

\* Only a release of the same code ends it.
LEMMA PressedSend ==
  ASSUME KeyboardInv, FireSend, PressedIsDown
  PROVE  PressedIsDown'
<1>1. PICK r \in DOMAIN pending, c \in Tids :
        /\ IsFront(pending, r) /\ c = pending[r].contact
        /\ SendKey(pending[r]) /\ Sends(r) /\ About(c)
  BY SendDoes
<1>2. PICK sent, down : sent = pending[r].code /\ down = pending[r].is_down
  OBVIOUS
<1>3. /\ keys_down' = IF down THEN keys_down \cup {sent} ELSE keys_down \ {sent}
      /\ strokes[c] = IF down THEN <<>> ELSE <<Stroke(sent, TRUE)>>
      /\ strokes'[c] = IF down THEN <<Stroke(sent, TRUE)>>
                       ELSE <<Stroke(sent, TRUE), Stroke(sent, FALSE)>>
  BY <1>1, <1>2 DEF SendKey, Sends
<1>4. \A u \in Tids \ {c} : strokes'[u] = strokes[u]
  BY <1>1 DEF About, Kept
<1>5. before' = before
  BY DEF FireSend, pad_vars
<1>6. SUFFICES ASSUME NEW t \in Tids, NEW code \in Codes,
                      strokes'[t] = <<Stroke(code, TRUE)>>
               PROVE  \/ code \in keys_down'
                      \/ \E u \in Tids \ before[t] :
                           /\ u # t
                           /\ strokes'[u] = <<Stroke(code, TRUE),
                                              Stroke(code, FALSE)>>
  BY <1>5 DEF PressedIsDown, ReleasedBeside
<1>7. CASE t = c
  <2>1. \A i, j, k : <<i>> # <<j, k>>
    <3>1. \A i, j, k : Len(<<i>>) # Len(<<j, k>>)
      OBVIOUS
    <3> QED BY <3>1
  <2>2. down /\ code = sent
    BY <1>3, <1>6, <1>7, <2>1 DEF Stroke
  <2> QED BY <1>3, <2>2
<1>8. CASE t # c
  <2>1. strokes[t] = <<Stroke(code, TRUE)>>
    BY <1>4, <1>6, <1>8
  <2>2. CASE ~down /\ code = sent
    <3>1. c \notin before[t]
      <4>1. r \in Due(c)
        BY <1>1 DEF Due
      <4>2. strokes[t] # <<>>
        <5>1. \A i : Len(<<i>>) = 1 /\ Len(<<>>) = 0
          OBVIOUS
        <5> QED BY <2>1, <5>1
      <4> QED BY <4>1, <4>2 DEF KeyboardInv, OrderFits
    <3> QED BY <1>3, <1>8, <2>2, <3>1
  <2>3. CASE (down \/ code # sent) /\ code \in keys_down
    BY <1>3, <2>3
  <2>4. CASE code \notin keys_down
    <3>1. PICK u \in Tids \ before[t] :
            u # t /\ strokes[u] = <<Stroke(code, TRUE), Stroke(code, FALSE)>>
      BY <2>1, <2>4 DEF PressedIsDown, ReleasedBeside
    <3>2. u # c
      <4>1. \A i, j, k : /\ Len(<<i, j>>) = 2 /\ Len(<<k>>) = 1 /\ Len(<<>>) = 0
        OBVIOUS
      <4>2. Len(strokes[u]) = 2 /\ Len(strokes[c]) # 2
        BY <1>3, <3>1, <4>1
      <4> QED BY <4>2
    <3> QED BY <1>4, <3>1, <3>2
  <2> QED BY <2>2, <2>3, <2>4
<1> QED BY <1>7, <1>8

\* Every step keeps pressed codes down, but for those released beside the finger.
LEMMA PressedKept ==
  ASSUME KeyboardInv, PressedIsDown, [Next]_vars
  PROVE  PressedIsDown'
<1>1. CASE UNCHANGED <<strokes, keys_down, before>>
  BY <1>1 DEF PressedIsDown, ReleasedBeside
<1>2. CASE PartialEvent \/ Timeout \/ VisitTouch \/ TouchesDone \/ FingerLeaves
             \/ LeavingDone \/ FireRejected \/ DrainDone \/ UNCHANGED vars
  BY <1>1, <1>2 DEF PartialEvent, Timeout, VisitTouch, TouchesDone, FingerLeaves,
                    LeavingDone, FireRejected, DrainDone, vars, sent_vars, pad_vars
<1>3. CASE ReadSnapshot
  <2>1. UNCHANGED <<strokes, keys_down>>
    BY <1>3 DEF ReadSnapshot, ReadFrame, sent_vars
  <2>2. \A t \in seen : before'[t] = before[t]
    BY <1>3 DEF ReadSnapshot, ReadFrame, KeyboardInv, TypeInv, TypeOK
  <2>3. ASSUME NEW t \in Tids, NEW k, strokes[t] = <<k>>
        PROVE  t \in seen
    <3>1. \A i : Len(<<i>>) = 1 /\ Len(<<>>) = 0
      OBVIOUS
    <3>2. ~Silent(t)
      BY <2>3, <3>1 DEF Silent
    <3> QED BY <3>2 DEF KeyboardInv, FramesFit
  <2> QED BY <2>1, <2>2, <2>3 DEF PressedIsDown, ReleasedBeside
<1> QED BY <1>2, <1>3, PressedSend DEF Next, Handler

\* A held key only goes up under its finger because another finger typed the
\* same code meanwhile and was lifted.
THEOREM HeldKeysAreDown == Spec => []HeldKeyIsDown
<1>1. Init => PressedIsDown
  <2>1. \A i : Len(<<i>>) = 1 /\ Len(<<>>) = 0
    OBVIOUS
  <2> QED BY <2>1 DEF Init, PressedIsDown
<1>2. KeyboardInv /\ PressedIsDown /\ [Next]_vars => PressedIsDown'
  BY PressedKept
<1>3. KeyboardInv /\ PressedIsDown => HeldKeyIsDown
  <2> SUFFICES ASSUME KeyboardInv, PressedIsDown, NEW t \in DOMAIN finger_data,
                      Unrejected(finger_data[t]), finger_data[t].down_sent,
                      NEW code, code = finger_data[t].event_code
               PROVE  code \in keys_down \/ ReleasedBeside(t, code)
    BY DEF HeldKeyIsDown, ReleasedBeside
  <2>1. t \in Tids /\ code \in Codes
    BY DEF KeyboardInv, TypeInv, TypeOK, FingersFit
  <2>2. strokes[t] = <<Stroke(code, TRUE)>>
    BY <2>1 DEF KeyboardInv, EveryContactFits, ContactOK, Holding
  <2> QED BY <2>1, <2>2 DEF PressedIsDown
<1> QED BY <1>1, <1>2, <1>3, KeyboardInvariant, PTL DEF Spec

-----------------------------------------------------------------------------
(***************************************************************************)
(* Palms.                                                                  *)
(***************************************************************************)
Refused(data) ==
  data.rejection_status \in {"kRejectPressure", "kRejectTouchDiameter"}

\* A contact refused as a palm has nothing queued and has sent nothing.
RefusedIsSilent == \A t \in DOMAIN finger_data : Refused(finger_data[t]) => Silent(t)

\* A step about one contact may only refuse a contact that ends up silent.
LEMMA PalmStep ==
  ASSUME KeyboardInv, RefusedIsSilent, NEW t \in Tids, About(t), TypeInv',
         t \in DOMAIN finger_data' /\ Refused(finger_data'[t]) => Silent(t)'
  PROVE  RefusedIsSilent'
<1>1. SUFFICES ASSUME NEW u \in DOMAIN finger_data', Refused(finger_data'[u])
               PROVE  Silent(u)'
  BY DEF RefusedIsSilent
<1>2. u \in Tids
  BY DEF TypeInv, TypeOK
<1>3. CASE u # t
  <2>1. u \in DOMAIN finger_data /\ Kept(u)
    BY <1>2, <1>3 DEF About
  <2>2. Refused(finger_data[u])
    BY <1>1, <2>1 DEF Refused, Kept
  <2>3. QED
    BY <1>2, <2>1, <2>2, KeptFits DEF RefusedIsSilent
<1>4. QED
  BY <1>1, <1>3

\* Every step keeps refused contacts silent.
LEMMA PalmKept ==
  ASSUME KeyboardInv, RefusedIsSilent, TypeInv', [Next]_vars
  PROVE  RefusedIsSilent'
<1>1. ASSUME UNCHANGED <<finger_data, pending, strokes>>
      PROVE  RefusedIsSilent'
  <2>1. \A u \in Tids : Silent(u) => Silent(u)'
    BY <1>1, SameFits DEF KeyboardInv
  <2>2. DOMAIN finger_data \subseteq Tids
    BY DEF KeyboardInv, TypeInv, TypeOK
  <2>3. QED
    BY <1>1, <2>1, <2>2 DEF RefusedIsSilent
<1>2. CASE ReadSnapshot \/ PartialEvent \/ Timeout \/ TouchesDone \/ LeavingDone
             \/ DrainDone \/ UNCHANGED vars
  BY <1>1, <1>2 DEF ReadSnapshot, ReadFrame, PartialEvent, Timeout, TouchesDone,
                    LeavingDone, DrainDone, vars, code_vars, sent_vars
<1>3. CASE VisitTouch
  <2>1. PICK t \in todo : \/ TouchArrives(t)
                          \/ TouchStays(t)
                          \/ TouchMovesOff(t)
                          \/ TouchIgnored(t)
    BY <1>3 DEF VisitTouch
  <2>2. UNCHANGED strokes /\ t \in Tids /\ t \in DOMAIN snapshot
    BY <1>3 DEF VisitTouch, sent_vars, KeyboardInv, TypeInv, TypeOK
  <2>3. CASE TouchIgnored(t)
    BY <1>1, <2>2, <2>3 DEF TouchIgnored, code_vars
  <2>4. CASE TouchArrives(t)
    <3>1. ~Refused(finger_data'[t])
      BY <2>4 DEF TouchArrives, ArrivingFinger, Refused
    <3>2. QED
      BY <2>2, <2>4, <3>1, ArrivesFits, PalmStep
  <2>5. CASE TouchStays(t)
    <3>1. /\ Unrejected(finger_data[t]) /\ t \in DOMAIN finger_data
          /\ finger_data' = [finger_data EXCEPT
                               ![t] = Updated(finger_data[t], snapshot[t])]
          /\ finger_data[t] \in FingerData /\ snapshot[t] \in Finger
      BY <2>2, <2>5 DEF TouchStays, KeyboardInv, TypeInv, TypeOK
    <3>2. finger_data'[t].rejection_status = finger_data[t].rejection_status
      BY <3>1, UpdatedOK
    <3>3. ~Refused(finger_data'[t])
      BY <3>1, <3>2 DEF Refused, Unrejected
    <3>4. QED
      BY <2>2, <2>5, <3>3, StaysFits, PalmStep
  <2>6. CASE TouchMovesOff(t)
    <3> DEFINE new == Updated(finger_data[t], snapshot[t])
    <3>1. /\ t \in DOMAIN finger_data
          /\ finger_data[t] \in FingerData /\ snapshot[t] \in Finger
          /\ finger_data' = [finger_data EXCEPT
                 ![t] = [new EXCEPT !.rejection_status = "kRejectMovedOffKey"]]
      BY <2>2, <2>6 DEF TouchMovesOff, RejectFinger, KeyboardInv, TypeInv, TypeOK
    <3>2. new \in FingerData
      BY <3>1, UpdatedOK
    <3> HIDE DEF new
    <3>3. finger_data'[t].rejection_status = "kRejectMovedOffKey"
      BY <3>1, <3>2 DEF FingerData
    <3>4. ~Refused(finger_data'[t])
      BY <3>3 DEF Refused
    <3>5. QED
      BY <2>2, <2>6, <3>4, MovesOffFits, PalmStep
  <2>7. QED
    BY <2>1, <2>3, <2>4, <2>5, <2>6
<1>4. CASE FingerLeaves
  <2>1. PICK t \in DOMAIN finger_data :
          HandleLeavingFinger(t) /\ finger_data' = Without(finger_data, {t})
    BY <1>4 DEF FingerLeaves
  <2>2. UNCHANGED strokes /\ t \in Tids
    BY <1>4 DEF FingerLeaves, sent_vars, KeyboardInv, TypeInv, TypeOK
  <2>3. t \notin DOMAIN finger_data'
    BY <2>1 DEF Without, Restrict
  <2>4. QED
    BY <2>1, <2>2, <2>3, LeavesFits, PalmStep
<1>5. CASE FireRejected
  <2>1. PICK r \in DOMAIN pending :
          /\ pending[r].tid \in DOMAIN finger_data
          /\ RejectFinger(pending[r].tid, finger_data[pending[r].tid],
                          IF finger_data[pending[r].tid].max_pressure # -1
                          THEN "kRejectPressure" ELSE "kRejectTouchDiameter")
          /\ pending' = RemainingEvents(Without(pending, {r}), pending[r].tid)
    BY <1>5 DEF FireRejected
  <2>2. PICK t : t = pending[r].tid
    OBVIOUS
  <2>3. PICK reason \in RejectionStatus \ {"kNotRejectedYet"} :
          RejectFinger(t, finger_data[t], reason)
    BY <2>1, <2>2 DEF RejectionStatus
  <2>4. UNCHANGED strokes /\ t \in DOMAIN finger_data /\ t \in Tids
    BY <1>5, <2>1, <2>2 DEF FireRejected, sent_vars, KeyboardInv, TypeInv, TypeOK
  <2>5. About(t) /\ Silent(t)'
    BY <2>1, <2>2, <2>3, <2>4, RejectedFits
  <2>6. QED
    BY <2>4, <2>5, PalmStep
<1>6. CASE FireSend
  <2>1. PICK r \in DOMAIN pending, c \in Tids :
          /\ c = pending[r].contact /\ About(c)
          /\ \A u \in DOMAIN finger_data :
               finger_data'[u].rejection_status = finger_data[u].rejection_status
          /\ DOMAIN finger_data' = DOMAIN finger_data
    BY <1>6, SendDoes
  <2>2. ~Silent(c)
    BY <2>1 DEF Silent, Due
  <2>3. c \in DOMAIN finger_data' => ~Refused(finger_data'[c])
    BY <2>1, <2>2 DEF RefusedIsSilent, Refused
  <2>4. QED
    BY <2>1, <2>3, PalmStep
<1>7. QED
  BY <1>2, <1>3, <1>4, <1>5, <1>6 DEF Next, Handler

\* A palm is refused before its key goes down, never after.
THEOREM PalmsTypeNothing == Spec => []PalmRejectedBeforePress
<1>1. Init => RefusedIsSilent
  BY EmptyFunction DEF Init, RefusedIsSilent
<1>2. KeyboardInv /\ KeyboardInv' /\ RefusedIsSilent /\ [Next]_vars
        => RefusedIsSilent'
  BY PalmKept DEF KeyboardInv
<1>3. RefusedIsSilent => PalmRejectedBeforePress
  BY DEF RefusedIsSilent, Refused, Silent, PalmRejectedBeforePress
<1>4. QED
  BY <1>1, <1>2, <1>3, KeyboardInvariant, PTL DEF Spec

-----------------------------------------------------------------------------
(***************************************************************************)
(* The worker implements the safety half of KeyTaps.                       *)
(***************************************************************************)

\* Initially nobody has landed.
LEMMA TapsStart == Init => Taps!Init
BY EmptyFunction DEF Init, Taps!Init, ContactState

\* A frame is a frame: new ids land, the missing ones are lifted.
LEMMA TapsFrame ==
  ASSUME KeyboardInv, ReadSnapshot
  PROVE  Taps!Next
<1>1. PICK on \in SUBSET Tids :
        /\ on \cap seen \subseteq DOMAIN snapshot
        /\ DOMAIN snapshot' = on
        /\ seen' = seen \cup on
        /\ before' = [t \in Tids |-> IF t \in on \ seen
                                     THEN seen \ DOMAIN snapshot
                                     ELSE before[t]]
  BY DEF ReadSnapshot, ReadFrame
<1>2. UNCHANGED strokes
  BY DEF ReadSnapshot, ReadFrame, sent_vars
<1>3. seen \subseteq Tids /\ DOMAIN snapshot \subseteq seen
  BY DEF KeyboardInv, TypeInv, TypeOK, FramesFit
<1> DEFINE land == on \ seen
           lift == DOMAIN snapshot \ on
<1>4. /\ \A c \in land : ContactState[c] = "none"
      /\ \A c \in lift : ContactState[c] = "on"
  BY <1>3 DEF ContactState
<1>5. ContactState' = [c \in Tids |-> CASE c \in land -> "on"
                                        [] c \in lift -> "off"
                                        [] OTHER -> ContactState[c]]
  <2>1. \A c \in Tids :
          (IF c \notin seen' THEN "none"
           ELSE IF c \in DOMAIN snapshot' THEN "on" ELSE "off")
          = CASE c \in land -> "on" [] c \in lift -> "off"
              [] OTHER -> ContactState[c]
    BY <1>1, <1>3 DEF ContactState
  <2>2. QED
    BY <2>1 DEF ContactState
<1>6. before' = [c \in Tids |-> IF c \in land
                               THEN {d \in Tids : ContactState[d] = "off"}
                               ELSE before[c]]
  <2>1. {d \in Tids : ContactState[d] = "off"} = seen \ DOMAIN snapshot
    BY <1>3 DEF ContactState
  <2>2. QED
    BY <1>1, <2>1
<1>7. Taps!Frame(land, lift)
  BY <1>2, <1>4, <1>5, <1>6 DEF Taps!Frame
<1>8. land \in SUBSET Tids /\ lift \in SUBSET Tids
  BY <1>3
<1>9. QED
  BY <1>7, <1>8 DEF Taps!Next

\* Sending an event is pressing or releasing: in order, and each once.
LEMMA TapsSend ==
  ASSUME KeyboardInv, FireSend
  PROVE  Taps!Next
<1>1. PICK r \in DOMAIN pending, c \in Tids :
        IsFront(pending, r) /\ c = pending[r].contact /\ Sends(r)
  BY SendDoes
<1>2. PICK code : code = pending[r].code
  OBVIOUS
<1>3. /\ strokes' = [strokes EXCEPT
                       ![c] = Append(@, Stroke(code, pending[r].is_down))]
      /\ strokes[c] = IF pending[r].is_down THEN <<>> ELSE <<Stroke(code, TRUE)>>
      /\ strokes'[c] = IF pending[r].is_down THEN <<Stroke(code, TRUE)>>
                       ELSE <<Stroke(code, TRUE), Stroke(code, FALSE)>>
      /\ strokes \in [Tids -> Seq([code : Codes, down : BOOLEAN])]
      /\ pending[r] \in Event
  BY <1>1, <1>2 DEF Sends, KeyboardInv, TypeInv, TypeOK
<1>4. UNCHANGED <<ContactState, before>>
  BY DEF FireSend, pad_vars, ContactState
<1>5. r \in Due(c)
  BY <1>1 DEF Due
<1>6. CASE pending[r].is_down
  <2>1. ContactState[c] # "none"
    <3>1. c \in seen
      BY <1>5 DEF KeyboardInv, FramesFit, Silent
    <3>2. QED
      BY <3>1 DEF ContactState
  <2>2. ASSUME NEW a \in before[c] PROVE Len(strokes[a]) # 1
    <3>1. /\ a \in Tids /\ a \notin DOMAIN finger_data
          /\ \A s \in Due(a) : s < r
      BY <1>5, <2>2 DEF KeyboardInv, OrderFits, TypeInv, TypeOK
    <3>2. Due(a) = {}
      BY <1>1, <3>1 DEF IsFront, Due, KeyboardInv, TypeInv, TypeOK
    <3>3. Silent(a) \/ Over(a)
      BY <3>1, <3>2 DEF KeyboardInv, EveryContactFits, ContactOK, Tapping,
                        Releasing
    <3>4. CASE strokes[a] = <<>>
      <4>1. Len(<<>>) = 0
        OBVIOUS
      <4>2. QED
        BY <3>4, <4>1
    <3>5. CASE \E k : strokes[a] = <<Stroke(k, TRUE), Stroke(k, FALSE)>>
      <4>1. PICK i, j : strokes[a] = <<i, j>>
        BY <3>5
      <4>2. Len(<<i, j>>) = 2
        OBVIOUS
      <4>3. QED
        BY <4>1, <4>2
    <3>6. QED
      BY <3>3, <3>4, <3>5 DEF Silent, Over
  <2>3. \A d \in Tids : c \in before[d] => strokes[d] = <<>>
    BY <1>5 DEF KeyboardInv, OrderFits
  <2>4. code \in Codes
    BY <1>2, <1>3 DEF Event
  <2>5. strokes' = [strokes EXCEPT ![c] = <<Stroke(code, TRUE)>>]
    BY <1>3, <1>6
  <2>6. Taps!Press(c, code)
    BY <1>3, <1>4, <1>6, <2>1, <2>2, <2>3, <2>5
       DEF Taps!Press, Taps!Stroke, Stroke
  <2>7. QED
    BY <2>4, <2>6 DEF Taps!Next
<1>7. CASE ~pending[r].is_down
  <2>1. strokes[c] = <<Stroke(code, TRUE)>>
    BY <1>3, <1>7
  <2>2. Len(strokes[c]) = 1 /\ strokes[c][1].code = code
    BY <2>1 DEF Stroke
  <2>3. pending[r].is_down = FALSE
    BY <1>3, <1>7 DEF Event
  <2>4. strokes' = [strokes EXCEPT
                     ![c] = Append(@, Stroke(strokes[c][1].code, FALSE))]
    BY <1>3, <2>2, <2>3
  <2>5. Taps!Release(c)
    BY <1>4, <2>2, <2>4 DEF Taps!Release, Taps!Stroke, Stroke
  <2>6. QED
    BY <2>5 DEF Taps!Next
<1>8. QED
  BY <1>6, <1>7

\* Every step is a step of KeyTaps or none.
LEMMA TapsStep == KeyboardInv /\ [Next]_vars => [Taps!Next]_(Taps!vars)
<1> SUFFICES ASSUME KeyboardInv, [Next]_vars PROVE [Taps!Next]_(Taps!vars)
  OBVIOUS
<1>1. ASSUME UNCHANGED <<snapshot, seen, before, strokes>>
      PROVE  UNCHANGED Taps!vars
  BY <1>1 DEF Taps!vars, ContactState
<1>2. CASE PartialEvent \/ Timeout \/ VisitTouch \/ TouchesDone \/ FingerLeaves
             \/ LeavingDone \/ FireRejected \/ DrainDone \/ UNCHANGED vars
  BY <1>1, <1>2 DEF PartialEvent, Timeout, VisitTouch, TouchesDone, FingerLeaves,
                    LeavingDone, FireRejected, DrainDone, vars, sent_vars, pad_vars
<1>3. QED
  BY <1>2, TapsFrame, TapsSend DEF Next, Handler

\* For every layout, number of contacts, timing and reading: a contact types at
\* most one key, each press is followed by one release of the same code, and
\* sequential typing comes out in order.
THEOREM KeyTapsImplemented == Spec => ImplementsKeyTapsSafely
<1>1. KeyboardInv /\ [Next]_vars => [Taps!Next]_(Taps!vars)
  BY TapsStep
<1>2. QED
  BY <1>1, TapsStart, KeyboardInvariant, PTL DEF Spec, ImplementsKeyTapsSafely
=============================================================================
