----------------------------- MODULE MCPipeline -----------------------------
(***************************************************************************)
(* A small keyboard for TLC: one key, and a place beside it.               *)
(***************************************************************************)
EXTENDS Pipeline

Box(x1, x2, y1, y2) == [x1 |-> x1, x2 |-> x2, y1 |-> y1, y2 |-> y2]
MCBoxes == <<Box(1, 2, 1, 2)>>
MCEventCode == <<59>>
MCPoints == {<<1, 1>>, <<2, 1>>}
MCStartPoints == {<<0, 0>>, <<1, 1>>}
Firm == [p |-> 80, touch_major |-> -1]
Missing == [p |-> -1, touch_major |-> -1]
MCReadingsMissing == {Firm, Missing}
=============================================================================
