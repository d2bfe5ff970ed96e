------------------------------ MODULE Timespec ------------------------------
(***************************************************************************)
(* The arithmetic of instants: AddMsToTimespec() and TimespecIsLater() of  *)
(* src/src/fake_keyboard.cc, the time-out Consume() computes and the       *)
(* timeval GetNextEvent() makes of it.                                     *)
(***************************************************************************)
EXTENDS Integers

NsPerMs == 1000000
NsPerSec == 1000000000

Timespec == [tv_sec : Nat, tv_nsec : 0 .. NsPerSec - 1]

\* The reference for all of it: nanoseconds since the clock started.
Ns(t) == t.tv_sec * NsPerSec + t.tv_nsec
Instant(ns) == [tv_sec |-> ns \div NsPerSec, tv_nsec |-> ns % NsPerSec]

\* A mistake to tell apart: nothing is carried to the seconds.
AddMsToTimespecMutant(orig, additional_ms) ==
  [orig EXCEPT !.tv_nsec = @ + additional_ms * NsPerMs]

\* The loop that carries, as the quotient and the remainder it computes.
AddMsToTimespec(orig, additional_ms) ==
  LET tv_nsec == orig.tv_nsec + additional_ms * NsPerMs
  IN  [tv_sec |-> orig.tv_sec + tv_nsec \div NsPerSec,
       tv_nsec |-> tv_nsec % NsPerSec]

\* A mistake to tell apart: the seconds are not compared first.
TimespecIsLaterMutant(t1, t2) ==
  t1.tv_sec > t2.tv_sec \/ t1.tv_nsec > t2.tv_nsec

TimespecIsLater(t1, t2) ==
  \/ t1.tv_sec > t2.tv_sec
  \/ t1.tv_sec = t2.tv_sec /\ t1.tv_nsec > t2.tv_nsec

\* Division in C rounds towards zero.
Quotient(a, b) == IF a >= 0 THEN a \div b ELSE -((-a) \div b)

Milliseconds(deadline, now) ==
  (deadline.tv_sec - now.tv_sec) * 1000
    + Quotient(deadline.tv_nsec - now.tv_nsec, NsPerMs)

\* Mistakes to tell apart: the millisecond that makes up for the division is
\* missing; a deadline that is over gives a negative time-out.
TimeoutMsShort(deadline, now) ==
  LET timeout_ms == Milliseconds(deadline, now)
  IN  IF timeout_ms < 0 THEN 1 ELSE timeout_ms
TimeoutMsNegative(deadline, now) == Milliseconds(deadline, now) + 1

TimeoutMs(deadline, now) ==
  LET timeout_ms == Milliseconds(deadline, now) + 1
  IN  IF timeout_ms < 0 THEN 1 ELSE timeout_ms

\* How long the timeval of GetNextEvent() makes select() wait.
WaitNs(timeout_ms) ==
  (timeout_ms \div 1000) * NsPerSec + (timeout_ms % 1000) * 1000 * 1000
=============================================================================
