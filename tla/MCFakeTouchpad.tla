--------------------------- MODULE MCFakeTouchpad ---------------------------
(***************************************************************************)
(* Small instances of the touchpad worker for TLC.                         *)
(***************************************************************************)
EXTENDS FakeTouchpad

\* The region, two points in opposite corners of it and one left of it.
MCRegion == [x1 |-> 2, x2 |-> 4, y1 |-> 2, y2 |-> 3]
InAndOut == {<<2, 3>>, <<4, 2>>, <<1, 2>>}
Origin == {<<0, 0>>}
=============================================================================
