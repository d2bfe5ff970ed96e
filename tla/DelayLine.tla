----------------------------- MODULE DelayLine ------------------------------
(***************************************************************************)
(* What the delayed key events need of time, without clocks of two fields, *)
(* time-outs or system calls: an event comes out a fixed delay after the   *)
(* input that caused it was read, or later, first in, first out, unless it *)
(* is erased.  Deadlines is shown to implement it.                         *)
(***************************************************************************)
EXTENDS Naturals, Sequences

CONSTANT Delay

VARIABLES
  time,     \* nanoseconds
  read_at,  \* when the last input was read
  due       \* when the events in the line are due

vars == <<time, read_at, due>>

Init == time \in Nat /\ read_at <= time /\ due = <<>>

Pass == time' >= time /\ time' \in Nat /\ UNCHANGED <<read_at, due>>
Read == read_at' = time /\ UNCHANGED <<time, due>>
Put  == due' = Append(due, read_at + Delay) /\ UNCHANGED <<time, read_at>>
Take ==
  /\ due # <<>> /\ Head(due) <= time
  /\ due' = Tail(due)
  /\ UNCHANGED <<time, read_at>>

\* An event of a finger that was rejected.
Erase ==
  /\ \E i \in DOMAIN due :
       due' = [j \in 1 .. Len(due) - 1 |-> IF j < i THEN due[j] ELSE due[j + 1]]
  /\ UNCHANGED <<time, read_at>>

Next == Pass \/ Read \/ Put \/ Take \/ Erase

Spec == Init /\ [][Next]_vars
=============================================================================
