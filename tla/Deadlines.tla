----------------------------- MODULE Deadlines ------------------------------
(***************************************************************************)
(* Consume() of src/src/fake_keyboard.cc as a loop over time: it computes  *)
(* how long select() may wait, waits, reads the clock and takes from       *)
(* pending_events_ what is due.  FakeKeyboard says what the events are;    *)
(* here they are only deadlines, with the timespecs of the code.           *)
(***************************************************************************)
EXTENDS Timespec, Sequences, SequencesExt

CONSTANTS
  kEventDelayMS,
  Instants,   \* bound: the instants the clock may show
  MaxPending  \* bound: events in the queue

ASSUME DelayAssumption == kEventDelayMS \in Nat
ASSUME InstantsAssumption == Instants \subseteq Timespec

VARIABLES
  pc,         \* where Consume() is
  clock,      \* CLOCK_MONOTONIC
  now,        \* the clock when Consume() last read it
  timeout_ms, \* what GetNextEvent() is given
  asked_at,   \* the clock when select() was entered
  pending     \* pending_events_: the deadlines

vars == <<pc, clock, now, timeout_ms, asked_at, pending>>

Init ==
  /\ pc = "loop"
  /\ clock \in Instants
  /\ now = clock
  /\ timeout_ms = -1
  /\ asked_at = clock
  /\ pending = <<>>

\* The process may be off the processor for any time between two steps.
TimePasses ==
  /\ clock' \in {t \in Instants : Ns(t) > Ns(clock)}
  /\ UNCHANGED <<pc, now, timeout_ms, asked_at, pending>>

ComputeTimeout ==
  /\ pc = "loop"
  /\ now' = clock
  /\ timeout_ms' = IF pending = <<>> THEN -1 ELSE TimeoutMs(Head(pending), clock)
  /\ pc' = "call"
  /\ UNCHANGED <<clock, asked_at, pending>>

\* A negative time-out goes to read() at once.
GetNextEvent ==
  /\ pc = "call"
  /\ asked_at' = clock
  /\ pc' = "wait"
  /\ UNCHANGED <<clock, now, timeout_ms, pending>>

\* select() returns 0: not before its time, and as much later as it likes.
TimedOut ==
  /\ pc = "wait"
  /\ timeout_ms >= 0
  /\ Ns(clock) >= Ns(asked_at) + WaitNs(timeout_ms)
  /\ now' = clock
  /\ pc' = "drain"
  /\ UNCHANGED <<clock, timeout_ms, asked_at, pending>>

\* An input event that does not end a frame: the loop starts over.
PartialEvent ==
  /\ pc = "wait"
  /\ now' = clock
  /\ pc' = "loop"
  /\ UNCHANGED <<clock, timeout_ms, asked_at, pending>>

Snapshot ==
  /\ pc = "wait"
  /\ now' = clock
  /\ pc' = "frame"
  /\ UNCHANGED <<clock, timeout_ms, asked_at, pending>>

\* The code inserts before the first event that is later, else at the end.
Inserted(queue, deadline) ==
  LET i == SelectInSeq(queue, LAMBDA d : TimespecIsLater(d, deadline))
  IN  IF i = 0 THEN Append(queue, deadline) ELSE InsertAt(queue, i, deadline)

\* ProcessIncomingSnapshot() adds events one by one, all with one `now`.
EnqueueEvent ==
  /\ pc = "frame"
  /\ Len(pending) < MaxPending
  /\ pending' = Inserted(pending, AddMsToTimespec(now, kEventDelayMS))
  /\ UNCHANGED <<pc, clock, now, timeout_ms, asked_at>>

\* RejectFinger() erases the events of a finger, wherever they are.
Without(queue, i) ==
  [j \in 1 .. Len(queue) - 1 |-> IF j < i THEN queue[j] ELSE queue[j + 1]]

EraseEvent ==
  /\ pc \in {"frame", "drain"}
  /\ \E i \in DOMAIN pending : pending' = Without(pending, i)
  /\ UNCHANGED <<pc, clock, now, timeout_ms, asked_at>>

FrameDone ==
  /\ pc = "frame"
  /\ pc' = "drain"
  /\ UNCHANGED <<clock, now, timeout_ms, asked_at, pending>>

Due == pending # <<>> /\ ~TimespecIsLater(Head(pending), now)

Fire ==
  /\ pc = "drain"
  /\ Due
  /\ pending' = Tail(pending)
  /\ UNCHANGED <<pc, clock, now, timeout_ms, asked_at>>

DrainDone ==
  /\ pc = "drain"
  /\ ~Due
  /\ pc' = "loop"
  /\ UNCHANGED <<clock, now, timeout_ms, asked_at, pending>>

Next ==
  \/ TimePasses \/ ComputeTimeout \/ GetNextEvent \/ TimedOut \/ PartialEvent
  \/ Snapshot \/ EnqueueEvent \/ EraseEvent \/ FrameDone \/ Fire \/ DrainDone

Spec == Init /\ [][Next]_vars
-----------------------------------------------------------------------------
\* Every variable has its type; all timespecs are normalised.
TypeOK ==
  /\ pc \in {"loop", "call", "wait", "frame", "drain"}
  /\ clock \in Timespec /\ now \in Timespec /\ asked_at \in Timespec
  /\ timeout_ms \in Int
  /\ pending \in Seq(Timespec)

Later(a, b) == IF a >= b THEN a ELSE b

\* "So as to not undershoot" (fake_keyboard.cc:373), and without oversleeping:
\* while an event is pending the wait has an end, which is not before its
\* deadline and less than two milliseconds after it, or after now when the
\* deadline is over, whatever is borrowed from the seconds.
WaitEndsAtTheDeadline ==
  pc \in {"call", "wait"} /\ pending # <<>> =>
    LET deadline == Ns(Head(pending))
        end == Ns(now) + WaitNs(timeout_ms)
    IN  /\ timeout_ms >= 0
        /\ deadline <= end
        /\ end <= Later(deadline, Ns(now)) + 2 * NsPerMs

\* A time-out is never in vain: when select() gives up, an event is due.  So
\* Timeout in FakeKeyboard needs no step for a time-out that is early.
TimeoutFires == [][TimedOut => Due']_vars

Line == INSTANCE DelayLine WITH
          Delay <- kEventDelayMS * NsPerMs,
          time <- Ns(clock),
          read_at <- Ns(now),
          due <- [i \in DOMAIN pending |-> Ns(pending[i])]

\* The loop implements DelayLine: a key event leaves the queue when its delay
\* after the frame that caused it is over, in the order of the frames, or is
\* erased.
ImplementsDelayLine == Line!Spec
=============================================================================
