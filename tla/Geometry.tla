------------------------------ MODULE Geometry ------------------------------
(***************************************************************************)
(* Where things are on the glass: the rectangles LoadLayout() gives to the *)
(* keys and to the touchpad, what the virtual touchpad makes of a touch,   *)
(* and the motor that answers it, for each rotation of the sensor.         *)
(*                                                                         *)
(* Lengths of the configuration are whole units of 1/MmUnit mm, so that a  *)
(* double the code cuts off is an exact quotient here.  The rounding of    *)
(* the doubles themselves is left out.                                     *)
(***************************************************************************)
EXTENDS Integers

CONSTANT MmUnit  \* units per millimetre
ASSUME UnitAssumption == MmUnit \in Nat \ {0}

Rotations == {0, 90, 180, 270}

\* What hardware_config.cc:15 lets pass.
HardwareConfig(c) ==
  /\ c.res_x > 0 /\ c.res_y > 0 /\ c.width > 0 /\ c.height > 0
  /\ c.left_margin >= 0 /\ c.top_margin >= 0
  /\ c.rotation \in Rotations

\* A double becomes an int: the fraction is cut off.
Cut(a, b) == IF a >= 0 THEN a \div b ELSE -((-a) \div b)

\* Lengths to sensor coordinates.
Pitch(c, box) ==
  [x1 |-> Cut(box.x1 * c.res_x, c.width), x2 |-> Cut(box.x2 * c.res_x, c.width),
   y1 |-> Cut(box.y1 * c.res_y, c.height), y2 |-> Cut(box.y2 * c.res_y, c.height)]

\* Where the sensor has the box the user sees, x to the right and y downwards.
Turned(c, box) ==
  LET l == c.left_margin + box.x1
      r == c.left_margin + box.x2
      t == c.top_margin + box.y1
      b == c.top_margin + box.y2
  IN  CASE c.rotation = 0 ->
             [x1 |-> l, x2 |-> r, y1 |-> t, y2 |-> b]
        [] c.rotation = 90 ->
             [x1 |-> t, x2 |-> b, y1 |-> c.height - r, y2 |-> c.height - l]
        [] c.rotation = 180 ->
             [x1 |-> c.width - r, x2 |-> c.width - l,
              y1 |-> c.height - b, y2 |-> c.height - t]
        [] c.rotation = 270 ->
             [x1 |-> c.width - b, x2 |-> c.width - t, y1 |-> l, y2 |-> r]

\* A mistake to tell apart: a rotation by 90 degrees goes the other way.
KeyBoxMutant(c, box) ==
  Pitch(c, Turned([c EXCEPT !.rotation = IF @ = 90 THEN 270 ELSE @], box))

KeyBox(c, box) == Pitch(c, Turned(c, box))

KeyContains(k, x, y) == k.x1 <= x /\ x < k.x2 /\ k.y1 <= y /\ y < k.y2

\* The ints are assigned in millimetres and multiplied with the pitch then.
WholeMm(v) == Cut(v, MmUnit) * MmUnit

PadBox(c, area) ==
  LET turned == Turned(c, area)
  IN  Pitch(c, [x1 |-> WholeMm(turned.x1), x2 |-> WholeMm(turned.x2),
                y1 |-> WholeMm(turned.y1), y2 |-> WholeMm(turned.y2)])

PadContains(pad, x, y) ==
  pad.x1 <= x /\ x <= pad.x2 /\ pad.y1 <= y /\ y <= pad.y2

\* The size of the axes Run() announces.
PadWidth(rotation, pad) ==
  IF rotation \in {0, 180} THEN pad.x2 - pad.x1 ELSE pad.y2 - pad.y1
PadHeight(rotation, pad) ==
  IF rotation \in {0, 180} THEN pad.y2 - pad.y1 ELSE pad.x2 - pad.x1

\* The axis an axis of the sensor is passed on as, and its value.
PadAxis(rotation, axis) ==
  IF rotation \in {0, 180} THEN axis
  ELSE CASE axis = "ABS_MT_POSITION_X" -> "ABS_MT_POSITION_Y"
         [] axis = "ABS_MT_POSITION_Y" -> "ABS_MT_POSITION_X"
         [] OTHER -> axis

\* A mistake to tell apart: an inverted axis forgets where the region starts.
PadValueMutant(rotation, pad, axis, value) ==
  CASE axis = "ABS_MT_POSITION_X" ->
         IF rotation \in {180, 270} THEN (pad.x2 - pad.x1) - value
                                    ELSE value - pad.x1
    [] axis = "ABS_MT_POSITION_Y" ->
         IF rotation \in {90, 180} THEN (pad.y2 - pad.y1) - value
                                   ELSE value - pad.y1
    [] OTHER -> value

PadValue(rotation, pad, axis, value) ==
  CASE axis = "ABS_MT_POSITION_X" ->
         IF rotation \in {180, 270} THEN (pad.x2 - pad.x1) - (value - pad.x1)
                                    ELSE value - pad.x1
    [] axis = "ABS_MT_POSITION_Y" ->
         IF rotation \in {90, 180} THEN (pad.y2 - pad.y1) - (value - pad.y1)
                                   ELSE value - pad.y1
    [] OTHER -> value

\* A point of the sensor in the coordinates of the virtual touchpad.
ToPad(rotation, pad, x, y) ==
  LET px == PadValue(rotation, pad, "ABS_MT_POSITION_X", x)
      py == PadValue(rotation, pad, "ABS_MT_POSITION_Y", y)
  IN  IF PadAxis(rotation, "ABS_MT_POSITION_X") = "ABS_MT_POSITION_X"
      THEN <<px, py>> ELSE <<py, px>>

\* touch_max_x_, and the motor EventTriggered() plays.
HapticWidth(c) == IF c.rotation \in {0, 180} THEN c.res_x ELSE c.res_y

\* A mistake to tell apart: the two quarter turns are taken for each other.
HapticPositionMutant(c, x, y) ==
  CASE c.rotation = 0 -> x
    [] c.rotation = 90 -> y
    [] c.rotation = 180 -> HapticWidth(c) - x
    [] c.rotation = 270 -> HapticWidth(c) - y

HapticPosition(c, x, y) ==
  CASE c.rotation = 0 -> x
    [] c.rotation = 90 -> HapticWidth(c) - y
    [] c.rotation = 180 -> HapticWidth(c) - x
    [] c.rotation = 270 -> y

Motor(c, x, y) ==
  IF HapticPosition(c, x, y) < HapticWidth(c) \div 2 THEN "left" ELSE "right"
=============================================================================
