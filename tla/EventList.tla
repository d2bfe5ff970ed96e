----------------------------- MODULE EventList ------------------------------
(***************************************************************************)
(* std::list<Event>, the type of FakeKeyboard::pending_events_, kept as a  *)
(* function from ranks to events: erasing an element leaves a gap in the   *)
(* ranks, inserting one moves the later ranks up.                          *)
(***************************************************************************)
EXTENDS Integers, FiniteSetsExt, Functions

\* r is where begin() points.
IsFront(q, r) == r \in DOMAIN q /\ \A s \in DOMAIN q : r <= s

EndRank(q) == IF DOMAIN q = {} THEN 0 ELSE Max(DOMAIN q) + 1

PushBack(q, ev) ==
  [r \in DOMAIN q \cup {EndRank(q)} |-> IF r = EndRank(q) THEN ev ELSE q[r]]

InsertBefore(q, at, ev) ==
  [r \in {i \in DOMAIN q : i < at} \cup {at} \cup
         {i + 1 : i \in {j \in DOMAIN q : j >= at}} |->
     IF r < at THEN q[r] ELSE IF r = at THEN ev ELSE q[r - 1]]

Without(q, ranks) == Restrict(q, DOMAIN q \ ranks)

\* A mistake to tell apart: the new event goes before the first one that is
\* not later.
EnqueueEventMutant(q, ev) ==
  LET others == {r \in DOMAIN q : q[r].deadline <= ev.deadline}
  IN  IF others = {} THEN PushBack(q, ev)
                     ELSE InsertBefore(q, Min(others), ev)

\* FakeKeyboard::EnqueueEvent: before the first event with a later deadline.
EnqueueEvent(q, ev) ==
  LET later == {r \in DOMAIN q : q[r].deadline > ev.deadline}
  IN  IF later = {} THEN PushBack(q, ev)
                    ELSE InsertBefore(q, Min(later), ev)
=============================================================================
