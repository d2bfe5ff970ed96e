----------------------------- MODULE MCSurface ------------------------------
(***************************************************************************)
(* A small surface for TLC, in half millimetres.                           *)
(***************************************************************************)
EXTENDS Surface, TLC

Hardware(rx, ry, w, h, l, t, r) ==
  [res_x |-> rx, res_y |-> ry, width |-> w, height |-> h,
   left_margin |-> l, top_margin |-> t, rotation |-> r]
Box(a, b, c, d) == [x1 |-> a, x2 |-> b, y1 |-> c, y2 |-> d]

\* A sensor of 6 by 5 mm with two coordinates to the half millimetre, one of
\* 5 by 7 mm whose pitch is not whole, and one that is coarser than the keys.
MCConfigs ==
  {Hardware(24, 20, 12, 10, l, 1, r) : l \in {0, 1}, r \in Rotations}
    \cup {Hardware(17, 23, 10, 14, 1, 0, r) : r \in Rotations}
    \cup {Hardware(3, 3, 12, 10, 0, 0, 0)}

Row(box, code, code_fn) ==
  [finite |-> TRUE, box |-> box, code |-> code, code_fn |-> code_fn]
F1 == Row(Box(0, 3, 0, 4), 59, 113)

\* Keys side by side, one with a code of its own under Fn and the last one
\* across another one; then files that are refused, some only after a good row.
MCLayouts ==
  {<<F1, Row(Box(3, 6, 0, 4), 60, 114), Row(Box(4, 8, 4, 7), 57, 0),
     Row(Box(6, 8, 0, 3), 464, 767), Row(Box(5, 7, 5, 7), 30, 0)>>,
   <<>>,
   <<F1, [F1 EXCEPT !.finite = FALSE]>>,
   <<F1, Row(Box(3, 3, 0, 4), 60, 0)>>,
   <<Row(Box(0, 3, 0, 4), 0, 0)>>,
   <<F1, Row(Box(3, 6, 0, 4), 768, 0)>>,
   <<Row(Box(0, 3, 0, 4), 59, -1)>>,
   <<Row(Box(0, 3, 0, 4), 59, 768)>>}
PackagedLayouts == {l \in MCLayouts : Len(l) > 2}

PadRow(box) == [finite |-> TRUE, box |-> box]
WholePads == {<<PadRow(Box(2, 6, 2, 6))>>}
HalfPads == {<<PadRow(Box(1, 5, 3, 6))>>}
MCPads == WholePads \cup HalfPads
            \cup {<<>>, <<PadRow(Box(2, 2, 2, 6))>>,
                  <<[finite |-> FALSE, box |-> Box(2, 6, 2, 6)]>>}

Axis(code, maximum) == [code |-> code, minimum |-> 0, maximum |-> maximum]

\* Axes that are passed on, two that are not, more slots than the workers look
\* at; and a device without axes.
TouchScreen ==
  [types |-> {"EV_SYN", "EV_KEY", "EV_ABS"},
   axes |-> <<Axis("ABS_X", 24), Axis("ABS_MT_SLOT", 11),
              Axis("ABS_MT_TOUCH_MAJOR", 2), Axis("ABS_MT_ORIENTATION", 1),
              Axis("ABS_MT_POSITION_X", 24), Axis("ABS_MT_POSITION_Y", 24),
              Axis("ABS_MT_TRACKING_ID", 3), Axis("ABS_MT_PRESSURE", 1)>>]
MCSources == {TouchScreen, [types |-> {"EV_SYN", "EV_KEY"}, axes |-> <<>>]}
TouchScreens == {TouchScreen}

\* The packaged command line, boundaries, values that override others, help
\* after an option, and everything that is refused.
MCAsDouble == ("1.0" :> Number(100)) @@ ("0.25" :> Number(25))
                @@ ("0" :> Number(0)) @@ ("1.1" :> Number(110))
                @@ ("nan" :> [finite |-> FALSE, hundredths |-> 0])
MCAsInt == ("12" :> 12) @@ ("1000" :> 1000) @@ ("0" :> 0) @@ ("1001" :> 1001)
MCArgumentLists ==
  {<<"--config-directory", "/etc/halo-keyboard", "-m", "1.0", "-D", "12">>,
   <<"-m", "0.25", "-D", "1000">>, <<"-m", "1.0", "-m", "0", "-m", "0.25">>,
   <<"-d", "-h">>, <<"-m", "-h">>, <<"-c", "">>, <<"-x">>, <<"-d", "-D">>,
   <<"-m", "1.1">>, <<"-m", "nan">>, <<"-D", "0">>, <<"-D", "1001">>,
   <<"-D", "12ms">>}
PackagedArguments ==
  {<<"--config-directory", "/etc/halo-keyboard", "-m", "1.0", "-D", "12">>}
=============================================================================
