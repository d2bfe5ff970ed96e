---------------------------- MODULE MCTouchInput ----------------------------
(***************************************************************************)
(* Small instances of the input half of the keyboard worker for TLC.       *)
(***************************************************************************)
EXTENDS TouchInput

\* Two points that differ in both coordinates; the third shares one with each.
MCPoints == {<<1, 1>>, <<2, 2>>, <<2, 1>>}
\* The coordinates of a slot nobody used.
Origin == {<<0, 0>>}
=============================================================================
