--------------------------- MODULE DeadlineProofs ---------------------------
(***************************************************************************)
(* The time arithmetic of Consume() is exact enough for every clock and    *)
(* delay: the time-out reaches the deadline, and the loop implements       *)
(* DelayLine.                                                              *)
(***************************************************************************)
EXTENDS Deadlines, SequenceTheorems, TLAPS

LEMMA Units == NsPerMs = 1000000 /\ NsPerSec = 1000000000
BY SMT DEF NsPerMs, NsPerSec

\* The fields of a timespec; the units stay folded, the prover has no use for
\* an interval of this size.
LEMMA Fields ==
  ASSUME NEW t \in Timespec
  PROVE  /\ t.tv_sec \in Nat /\ t.tv_nsec \in Nat
         /\ t.tv_nsec < 1000000000
         /\ Ns(t) = t.tv_sec * 1000000000 + t.tv_nsec
         /\ Ns(t) \in Nat
<1>1. NsPerSec \in Nat
  BY SMT, Units
<1>2. t.tv_sec \in Nat /\ t.tv_nsec \in Nat /\ t.tv_nsec < NsPerSec
  BY SMT, <1>1 DEF Timespec
<1>3. Ns(t) = t.tv_sec * NsPerSec + t.tv_nsec
  BY SMT DEF Ns
<1> QED BY SMT, <1>2, <1>3, Units

LEMMA DivisionBySec ==
  ASSUME NEW n \in Nat
  PROVE  /\ n \div NsPerSec \in Nat
         /\ (n % NsPerSec) \in 0 .. NsPerSec - 1
         /\ n = (n \div NsPerSec) * 1000000000 + (n % NsPerSec)
<1>1. NsPerSec \in Nat /\ NsPerSec > 0
  BY SMT, Units
<1>2. (n % NsPerSec) \in 0 .. NsPerSec - 1 /\ n \div NsPerSec \in Int
  BY SMT, <1>1
<1>3. n = (n \div 1000000000) * 1000000000 + (n % 1000000000)
  BY SMT
<1>4. n \div 1000000000 >= 0
  BY SMT
<1>5. /\ n \div NsPerSec = n \div 1000000000
      /\ (n % NsPerSec) = (n % 1000000000)
  BY SMT DEF NsPerSec
<1> QED BY SMT, <1>2, <1>3, <1>4, <1>5

\* Adding milliseconds keeps a timespec normalised and adds just them.
LEMMA AddIsExact ==
  ASSUME NEW t \in Timespec, NEW ms \in Nat
  PROVE  /\ AddMsToTimespec(t, ms) \in Timespec
         /\ Ns(AddMsToTimespec(t, ms)) = Ns(t) + ms * NsPerMs
<1> DEFINE n == t.tv_nsec + ms * NsPerMs
           q == n \div NsPerSec
           r == n % NsPerSec
           sum == [tv_sec |-> t.tv_sec + q, tv_nsec |-> r]
<1>1. n \in Nat /\ n = t.tv_nsec + ms * 1000000
  BY SMT, Fields, Units
<1>2. q \in Nat /\ r \in 0 .. NsPerSec - 1 /\ n = q * 1000000000 + r
  <2> HIDE DEF n
  <2> QED BY SMT, <1>1, DivisionBySec
<1>3. AddMsToTimespec(t, ms) = sum
  BY SMT DEF AddMsToTimespec
<1> HIDE DEF n, q, r
<1>4. sum \in Timespec
  BY SMT, <1>2, Fields DEF Timespec
<1>5. Ns(sum) = (t.tv_sec + q) * 1000000000 + r
  BY SMT, <1>2, <1>4, Fields
<1> HIDE DEF sum
<1>6. Ns(sum) = Ns(t) + ms * 1000000
  BY SMT, <1>1, <1>2, <1>5, Fields
<1> QED BY SMT, <1>3, <1>4, <1>6, Units

\* Later means later in nanoseconds.
LEMMA LaterIsLater ==
  ASSUME NEW s \in Timespec, NEW t \in Timespec
  PROVE  TimespecIsLater(s, t) <=> Ns(s) > Ns(t)
BY SMT, Fields DEF TimespecIsLater

LEMMA WaitIsTheTimeout ==
  ASSUME NEW ms \in Nat
  PROVE  WaitNs(ms) = ms * 1000000
<1> DEFINE q == ms \div 1000
           r == ms % 1000
<1>1. q \in Nat /\ r \in Nat /\ ms = q * 1000 + r
  BY SMT
<1>2. WaitNs(ms) = q * 1000000000 + r * 1000 * 1000
  BY SMT, Units DEF WaitNs
<1> HIDE DEF q, r
<1> QED BY SMT, <1>1, <1>2

\* A quotient that was rounded towards zero, and the division it is for.
LEMMA QuotientBounds ==
  ASSUME NEW a \in Int
  PROVE  /\ Quotient(a, NsPerMs) \in Int
         /\ a - 1000000 < Quotient(a, NsPerMs) * 1000000
         /\ Quotient(a, NsPerMs) * 1000000 < a + 1000000
<1>1. CASE a >= 0
  <2>1. Quotient(a, NsPerMs) = a \div 1000000
    BY SMT, <1>1, Units DEF Quotient
  <2>2. /\ a \div 1000000 \in Int
        /\ (a \div 1000000) * 1000000 <= a
        /\ a < (a \div 1000000) * 1000000 + 1000000
    BY SMT, <1>1
  <2> QED BY SMT, <2>1, <2>2
<1>2. CASE a < 0
  <2> DEFINE b == -a
  <2>1. Quotient(a, NsPerMs) = -(b \div 1000000)
    BY SMT, <1>2, Units DEF Quotient
  <2>2. b \in Nat /\ a = -b
    BY SMT, <1>2
  <2> HIDE DEF b
  <2>3. /\ b \div 1000000 \in Int
        /\ (b \div 1000000) * 1000000 <= b
        /\ b < (b \div 1000000) * 1000000 + 1000000
    BY SMT, <2>2
  <2> QED BY SMT, <2>1, <2>2, <2>3
<1> QED BY SMT, <1>1, <1>2

\* The time-out neither misses the deadline nor sleeps past it by two
\* milliseconds.
LEMMA TimeoutReaches ==
  ASSUME NEW d \in Timespec, NEW t \in Timespec
  PROVE  /\ TimeoutMs(d, t) \in Nat
         /\ Ns(d) <= Ns(t) + WaitNs(TimeoutMs(d, t))
         /\ Ns(t) + WaitNs(TimeoutMs(d, t)) <= Later(Ns(d), Ns(t)) + 2 * NsPerMs
<1> DEFINE a == d.tv_nsec - t.tv_nsec
           s == d.tv_sec - t.tv_sec
           q == Quotient(a, NsPerMs)
           m == s * 1000 + q + 1
<1>1. /\ Ns(d) \in Nat /\ Ns(t) \in Nat /\ a \in Int /\ s \in Int
      /\ Ns(d) - Ns(t) = s * 1000000000 + a
  BY SMT, Fields
<1>2. /\ q \in Int
      /\ a - 1000000 < q * 1000000 /\ q * 1000000 < a + 1000000
  <2> HIDE DEF a
  <2> QED BY SMT, <1>1, QuotientBounds
<1>3. TimeoutMs(d, t) = IF m < 0 THEN 1 ELSE m
  BY SMT DEF TimeoutMs, Milliseconds
<1>4. m = s * 1000 + q + 1
  BY SMT
<1> HIDE DEF a, s, q, m
<1>5. /\ m \in Int
      /\ Ns(d) < Ns(t) + m * 1000000
      /\ Ns(t) + m * 1000000 < Ns(d) + 2 * 1000000
  BY SMT, <1>1, <1>2, <1>4
<1>6. TimeoutMs(d, t) \in Nat
  BY SMT, <1>3, <1>5
<1>7. WaitNs(TimeoutMs(d, t)) = TimeoutMs(d, t) * 1000000
  BY SMT, <1>6, WaitIsTheTimeout
<1> QED BY SMT, <1>1, <1>3, <1>5, <1>6, <1>7, Units DEF Later

-----------------------------------------------------------------------------
(***************************************************************************)
(* The loop.  What TypeOK and the properties rest on: Consume() never has  *)
(* a time it has not read from the clock, no deadline is further away than *)
(* one delay from the last reading, and the time-out is that of the front. *)
(***************************************************************************)
DelayNs == kEventDelayMS * NsPerMs

DeadlineInv ==
  /\ TypeOK
  /\ Ns(now) <= Ns(clock)
  /\ pc = "wait" => Ns(now) <= Ns(asked_at)
  /\ \A i \in DOMAIN pending : Ns(pending[i]) <= Ns(now) + DelayNs
  /\ pc \in {"call", "wait"} =>
       timeout_ms = IF pending = <<>> THEN -1 ELSE TimeoutMs(Head(pending), now)

LEMMA DelayType == DelayNs \in Nat
BY SMT, DelayAssumption, Units DEF DelayNs

LEMMA InitInv == Init => DeadlineInv
<1> SUFFICES ASSUME Init PROVE DeadlineInv
  OBVIOUS
<1>1. clock \in Timespec
  BY SMT, InstantsAssumption DEF Init
<1> QED BY SMT, <1>1, Fields DEF Init, DeadlineInv, TypeOK

\* A frame's events go to the end: nothing in the queue is due later.
LEMMA EnqueueAppends ==
  ASSUME DeadlineInv
  PROVE  LET d == AddMsToTimespec(now, kEventDelayMS)
         IN  /\ d \in Timespec
             /\ Ns(d) = Ns(now) + DelayNs
             /\ Inserted(pending, d) = Append(pending, d)
<1> DEFINE d == AddMsToTimespec(now, kEventDelayMS)
<1>1. d \in Timespec /\ Ns(d) = Ns(now) + DelayNs
  BY SMT, AddIsExact, DelayAssumption DEF DeadlineInv, TypeOK, DelayNs
<1> HIDE DEF d
<1>2. \A i \in 1 .. Len(pending) : ~TimespecIsLater(pending[i], d)
  <2> SUFFICES ASSUME NEW i \in 1 .. Len(pending)
               PROVE  ~TimespecIsLater(pending[i], d)
    OBVIOUS
  <2>1. pending[i] \in Timespec /\ Ns(pending[i]) <= Ns(now) + DelayNs
    BY SMT DEF DeadlineInv, TypeOK
  <2>2. Ns(now) \in Nat
    BY SMT, Fields DEF DeadlineInv, TypeOK
  <2> QED BY SMT, <1>1, <2>1, <2>2, LaterIsLater, Fields, DelayType
<1>3. SelectInSeq(pending, LAMBDA e : TimespecIsLater(e, d)) = 0
  BY <1>2 DEF SelectInSeq
<1> QED BY <1>1, <1>3 DEF Inserted, d

LEMMA StepInv == DeadlineInv /\ [Next]_vars => DeadlineInv'
<1> SUFFICES ASSUME DeadlineInv, [Next]_vars
             PROVE  DeadlineInv'
  OBVIOUS
<1> USE DEF DeadlineInv, TypeOK
<1>1. /\ Ns(clock) \in Nat /\ Ns(now) \in Nat /\ Ns(asked_at) \in Nat
      /\ DelayNs \in Nat
  BY SMT, Fields, DelayType
<1>2. \A i \in DOMAIN pending : Ns(pending[i]) \in Nat
  BY SMT, Fields
<1>3. CASE TimePasses
  <2>1. clock' \in Timespec /\ Ns(clock') > Ns(clock)
    BY SMT, <1>3, InstantsAssumption DEF TimePasses
  <2>2. Ns(clock') > Ns(clock) /\ Ns(clock') \in Nat
    BY SMT, <2>1, Fields
  <2>3. (Ns(clock))' = Ns(clock') /\ (Ns(now))' = Ns(now)
        /\ (Ns(asked_at))' = Ns(asked_at)
    BY SMT, <1>3 DEF TimePasses, Ns
  <2> QED BY SMT, <1>1, <1>3, <2>1, <2>2, <2>3 DEF TimePasses
<1>4. CASE ComputeTimeout
  <2>1. timeout_ms' \in Int
    <3>1. CASE pending = <<>>
      BY SMT, <1>4, <3>1 DEF ComputeTimeout
    <3>2. CASE pending # <<>>
      <4>1. Head(pending) \in Timespec /\ clock \in Timespec
        BY SMT, <3>2
      <4>2. TimeoutMs(Head(pending), clock) \in Nat
        BY Zenon, <4>1, TimeoutReaches
      <4> QED BY SMT, <1>4, <3>2, <4>2 DEF ComputeTimeout
    <3> QED BY <3>1, <3>2
  <2> QED BY SMT, <1>1, <1>2, <1>4, <2>1 DEF ComputeTimeout
<1>5. CASE GetNextEvent
  BY SMT, <1>1, <1>5 DEF GetNextEvent
<1>6. CASE TimedOut
  BY SMT, <1>1, <1>2, <1>6 DEF TimedOut
<1>7. CASE PartialEvent
  BY SMT, <1>1, <1>2, <1>7 DEF PartialEvent
<1>8. CASE Snapshot
  BY SMT, <1>1, <1>2, <1>8 DEF Snapshot
<1>9. CASE EnqueueEvent
  <2> DEFINE d == AddMsToTimespec(now, kEventDelayMS)
  <2>1. d \in Timespec /\ Ns(d) = Ns(now) + DelayNs /\ pending' = Append(pending, d)
    BY <1>9, EnqueueAppends DEF EnqueueEvent
  <2> HIDE DEF d
  <2> QED BY SMT, <1>1, <1>2, <1>9, <2>1 DEF EnqueueEvent
<1>10. CASE EraseEvent
  <2>1. PICK i \in DOMAIN pending : pending' = Without(pending, i)
    BY <1>10 DEF EraseEvent
  <2>2. /\ pending' \in Seq(Timespec)
        /\ \A j \in DOMAIN pending' : \E k \in DOMAIN pending : pending'[j] = pending[k]
    BY SMT, <2>1 DEF Without
  <2> QED BY SMT, <1>1, <1>2, <1>10, <2>2 DEF EraseEvent
<1>11. CASE FrameDone
  BY SMT, <1>1, <1>11 DEF FrameDone
<1>12. CASE Fire
  <2>1. /\ pending' \in Seq(Timespec)
        /\ \A j \in DOMAIN pending' : \E k \in DOMAIN pending : pending'[j] = pending[k]
    BY SMT, <1>12 DEF Fire, Due
  <2> QED BY SMT, <1>1, <1>2, <1>12, <2>1 DEF Fire
<1>13. CASE DrainDone
  BY SMT, <1>1, <1>13 DEF DrainDone
<1>14. CASE UNCHANGED vars
  BY SMT, <1>14 DEF vars
<1> QED BY <1>3, <1>4, <1>5, <1>6, <1>7, <1>8, <1>9, <1>10, <1>11, <1>12, <1>13,
           <1>14 DEF Next

LEMMA DeadlineInvHolds == Spec => []DeadlineInv
BY InitInv, StepInv, PTL DEF Spec

\* Every timespec Consume() computes or reads is normalised.
THEOREM TypeCorrect == Spec => []TypeOK
<1>1. DeadlineInv => TypeOK
  BY DEF DeadlineInv
<1> QED BY <1>1, DeadlineInvHolds, PTL

\* The wait ends at the front deadline or less than two milliseconds after it,
\* for every clock, delay and queue.
THEOREM WaitsEndAtTheDeadline == Spec => []WaitEndsAtTheDeadline
<1>1. DeadlineInv => WaitEndsAtTheDeadline
  <2> SUFFICES ASSUME DeadlineInv, pc \in {"call", "wait"}, pending # <<>>
               PROVE  /\ timeout_ms >= 0
                      /\ Ns(Head(pending)) <= Ns(now) + WaitNs(timeout_ms)
                      /\ Ns(now) + WaitNs(timeout_ms)
                           <= Later(Ns(Head(pending)), Ns(now)) + 2 * NsPerMs
    BY DEF WaitEndsAtTheDeadline
  <2>1. Head(pending) \in Timespec /\ now \in Timespec
    BY SMT DEF DeadlineInv, TypeOK
  <2>2. timeout_ms = TimeoutMs(Head(pending), now)
    BY DEF DeadlineInv
  <2> QED BY SMT, <2>1, <2>2, TimeoutReaches
<1> QED BY <1>1, DeadlineInvHolds, PTL

\* A time-out always finds an event that is due.
THEOREM TimeoutsFire == Spec => TimeoutFires
<1>1. DeadlineInv /\ [Next]_vars => [TimedOut => Due']_vars
  <2> SUFFICES ASSUME DeadlineInv, TimedOut
               PROVE  Due'
    OBVIOUS
  <2>1. /\ pc = "wait" /\ timeout_ms >= 0 /\ now' = clock /\ pending' = pending
        /\ Ns(clock) >= Ns(asked_at) + WaitNs(timeout_ms)
    BY DEF TimedOut
  <2>2. pending # <<>> /\ timeout_ms = TimeoutMs(Head(pending), now)
    BY SMT, <2>1 DEF DeadlineInv
  <2>3. Head(pending) \in Timespec /\ now \in Timespec /\ clock \in Timespec
        /\ asked_at \in Timespec
    BY SMT, <2>2 DEF DeadlineInv, TypeOK
  <2>4. timeout_ms \in Nat /\ WaitNs(timeout_ms) \in Nat
    <3>1. timeout_ms \in Nat
      BY SMT, <2>1 DEF DeadlineInv, TypeOK
    <3> QED BY SMT, <3>1, WaitIsTheTimeout
  <2>5. Ns(Head(pending)) <= Ns(now) + WaitNs(timeout_ms)
    BY Zenon, <2>2, <2>3, TimeoutReaches
  <2>6. Ns(now) <= Ns(asked_at)
    BY <2>1 DEF DeadlineInv
  <2>7. Ns(Head(pending)) <= Ns(clock)
    BY SMT, <2>1, <2>3, <2>4, <2>5, <2>6, Fields
  <2>8. ~TimespecIsLater(Head(pending), clock)
    BY SMT, <2>3, <2>7, LaterIsLater, Fields
  <2> QED BY <2>1, <2>2, <2>8 DEF Due
<1> QED BY <1>1, DeadlineInvHolds, PTL DEF Spec, TimeoutFires

-----------------------------------------------------------------------------
LEMMA LineInit == Init => Line!Init
<1> SUFFICES ASSUME Init PROVE Line!Init
  OBVIOUS
<1>1. clock \in Timespec
  BY SMT, InstantsAssumption DEF Init
<1> QED BY SMT, <1>1, Fields DEF Init, Line!Init

LEMMA LineStep ==
  ASSUME DeadlineInv, [Next]_vars
  PROVE  [Line!Next]_(Line!vars)
<1> DEFINE due == [i \in DOMAIN pending |-> Ns(pending[i])]
<1> USE DEF DeadlineInv, TypeOK, Line!Next, Line!vars
<1>1. CASE TimePasses
  <2>1. clock' \in Timespec /\ Ns(clock') > Ns(clock)
    BY SMT, <1>1, InstantsAssumption DEF TimePasses
  <2>2. Ns(clock') > Ns(clock) /\ Ns(clock') \in Nat
    BY SMT, <2>1, Fields
  <2>3. Ns(clock') >= Ns(clock)
    BY SMT, <2>1, <2>2, Fields
  <2> QED BY <1>1, <2>2, <2>3 DEF TimePasses, Line!Pass, Ns
<1>2. CASE ComputeTimeout \/ TimedOut \/ PartialEvent \/ Snapshot
  BY <1>2 DEF ComputeTimeout, TimedOut, PartialEvent, Snapshot, Line!Read, Ns
<1>3. CASE GetNextEvent \/ FrameDone \/ DrainDone
  BY <1>3 DEF GetNextEvent, FrameDone, DrainDone
<1>4. CASE EnqueueEvent
  <2> DEFINE d == AddMsToTimespec(now, kEventDelayMS)
  <2>1. d \in Timespec /\ Ns(d) = Ns(now) + DelayNs /\ pending' = Append(pending, d)
    BY <1>4, EnqueueAppends DEF EnqueueEvent
  <2> HIDE DEF d
  <2>2. [i \in DOMAIN pending' |-> Ns(pending'[i])] = Append(due, Ns(now) + DelayNs)
    BY SMT, <2>1
  <2> QED BY <1>4, <2>2 DEF EnqueueEvent, Line!Put, DelayNs, Ns
<1>5. CASE EraseEvent
  <2>1. PICK i \in DOMAIN pending : pending' = Without(pending, i)
    BY <1>5 DEF EraseEvent
  <2>2. [j \in DOMAIN pending' |-> Ns(pending'[j])]
          = [j \in 1 .. Len(due) - 1 |-> IF j < i THEN due[j] ELSE due[j + 1]]
    BY SMT, <2>1 DEF Without
  <2> QED BY <1>5, <2>2 DEF EraseEvent, Line!Erase, Ns
<1>6. CASE Fire
  <2>1. [j \in DOMAIN pending' |-> Ns(pending'[j])] = Tail(due)
    BY SMT, <1>6 DEF Fire, Due
  <2>2. due # <<>> /\ Head(due) <= Ns(clock)
    <3>1. pending # <<>> /\ Head(pending) \in Timespec
          /\ ~TimespecIsLater(Head(pending), now)
      BY SMT, <1>6 DEF Fire, Due
    <3>2. Ns(Head(pending)) <= Ns(clock)
      BY SMT, <3>1, LaterIsLater, Fields
    <3> QED BY SMT, <3>1, <3>2
  <2> QED BY <1>6, <2>1, <2>2 DEF Fire, Line!Take, Ns
<1>7. CASE UNCHANGED vars
  BY <1>7 DEF vars
<1> QED BY <1>1, <1>2, <1>3, <1>4, <1>5, <1>6, <1>7 DEF Next

\* The loop implements DelayLine.
THEOREM DelayLineImplemented == Spec => ImplementsDelayLine
<1>1. DeadlineInv /\ [Next]_vars => [Line!Next]_(Line!vars)
  BY LineStep
<1> QED BY <1>1, LineInit, DeadlineInvHolds, PTL
           DEF Spec, ImplementsDelayLine, Line!Spec
=============================================================================
