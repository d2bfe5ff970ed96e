--------------------------- MODULE SurfaceProofs ----------------------------
(***************************************************************************)
(* For every sensor, rectangle, rotation, layout and command line: the     *)
(* virtual touchpad keeps to the ranges it has announced, what is accepted *)
(* at the start is enough for the haptics, both devices announce all they  *)
(* are used for, keys and touchpad agree on left and right, up and down,   *)
(* and a key is felt, on its side, by the motor that works.                *)
(***************************************************************************)
EXTENDS Surface, TLAPS

\* Cutting a double to an int gives an integer.
LEMMA CutIsInt ==
  ASSUME NEW a \in Int, NEW b \in Nat \ {0}
  PROVE  Cut(a, b) \in Int
BY DEF Cut

\* A rectangle in sensor coordinates has integer edges.
LEMMA PitchIsBox ==
  ASSUME NEW c \in Configs, HardwareConfig(c), NEW box \in Rectangle
  PROVE  Pitch(c, box) \in Rectangle
<1>1. /\ c.res_x \in Int /\ c.res_y \in Int
      /\ c.width \in Nat \ {0} /\ c.height \in Nat \ {0}
  BY ConfigAssumption DEF HardwareConfig
<1>2. /\ box.x1 * c.res_x \in Int /\ box.x2 * c.res_x \in Int
      /\ box.y1 * c.res_y \in Int /\ box.y2 * c.res_y \in Int
  BY <1>1 DEF Rectangle
<1>3. /\ Cut(box.x1 * c.res_x, c.width) \in Int
      /\ Cut(box.x2 * c.res_x, c.width) \in Int
      /\ Cut(box.y1 * c.res_y, c.height) \in Int
      /\ Cut(box.y2 * c.res_y, c.height) \in Int
  BY <1>1, <1>2, CutIsInt
<1> QED BY <1>3 DEF Pitch, Rectangle

\* So has one that is turned.
LEMMA TurnedIsBox ==
  ASSUME NEW c \in Configs, HardwareConfig(c), NEW box \in Rectangle
  PROVE  Turned(c, box) \in Rectangle
<1>1. /\ c.width \in Int /\ c.height \in Int
      /\ c.left_margin \in Int /\ c.top_margin \in Int
      /\ c.rotation \in {0, 90, 180, 270}
  BY ConfigAssumption DEF HardwareConfig, Rotations
<1>2. /\ box.x1 \in Int /\ box.x2 \in Int /\ box.y1 \in Int /\ box.y2 \in Int
  BY DEF Rectangle
<1> QED BY <1>1, <1>2 DEF Turned, Rectangle

\* So has the rectangle of the touchpad.
LEMMA PadBoxIsBox ==
  ASSUME NEW c \in Configs, HardwareConfig(c), NEW box \in Rectangle
  PROVE  PadBox(c, box) \in Rectangle
<1> DEFINE turned == Turned(c, box)
           whole  == [x1 |-> WholeMm(turned.x1), x2 |-> WholeMm(turned.x2),
                      y1 |-> WholeMm(turned.y1), y2 |-> WholeMm(turned.y2)]
<1>1. turned \in Rectangle
  BY TurnedIsBox
<1>2. ASSUME NEW v \in Int
      PROVE  WholeMm(v) \in Int
  BY CutIsInt, UnitAssumption DEF WholeMm
<1>3. whole \in Rectangle
  BY <1>1, <1>2 DEF Rectangle
<1>4. PadBox(c, box) = Pitch(c, whole)
  BY DEF PadBox
<1> QED BY <1>3, <1>4, PitchIsBox

\* A touch in the region lands in the announced ranges, whichever axes the
\* rotation swaps and inverts.
LEMMA ToPadInRange ==
  ASSUME NEW rotation \in Rotations, NEW pad \in Rectangle,
         NEW x \in Int, NEW y \in Int, PadContains(pad, x, y)
  PROVE  /\ ToPad(rotation, pad, x, y)[1] \in 0 .. PadWidth(rotation, pad)
         /\ ToPad(rotation, pad, x, y)[2] \in 0 .. PadHeight(rotation, pad)
<1> DEFINE dx == x - pad.x1
           dy == y - pad.y1
           w  == pad.x2 - pad.x1
           h  == pad.y2 - pad.y1
<1>1. /\ dx \in 0 .. w /\ w - dx \in 0 .. w
      /\ dy \in 0 .. h /\ h - dy \in 0 .. h
  BY DEF PadContains, Rectangle
<1>2. CASE rotation = 0
  <2>1. ToPad(rotation, pad, x, y) = <<dx, dy>>
    BY <1>2 DEF ToPad, PadValue, PadAxis
  <2>2. PadWidth(rotation, pad) = w /\ PadHeight(rotation, pad) = h
    BY <1>2 DEF PadWidth, PadHeight
  <2> QED BY <1>1, <2>1, <2>2
<1>3. CASE rotation = 90
  <2>1. ToPad(rotation, pad, x, y) = <<h - dy, dx>>
    BY <1>3 DEF ToPad, PadValue, PadAxis
  <2>2. PadWidth(rotation, pad) = h /\ PadHeight(rotation, pad) = w
    BY <1>3 DEF PadWidth, PadHeight
  <2> QED BY <1>1, <2>1, <2>2
<1>4. CASE rotation = 180
  <2>1. ToPad(rotation, pad, x, y) = <<w - dx, h - dy>>
    BY <1>4 DEF ToPad, PadValue, PadAxis
  <2>2. PadWidth(rotation, pad) = w /\ PadHeight(rotation, pad) = h
    BY <1>4 DEF PadWidth, PadHeight
  <2> QED BY <1>1, <2>1, <2>2
<1>5. CASE rotation = 270
  <2>1. ToPad(rotation, pad, x, y) = <<dy, w - dx>>
    BY <1>5 DEF ToPad, PadValue, PadAxis
  <2>2. PadWidth(rotation, pad) = h /\ PadHeight(rotation, pad) = w
    BY <1>5 DEF PadWidth, PadHeight
  <2> QED BY <1>1, <2>1, <2>2
<1> QED BY <1>2, <1>3, <1>4, <1>5 DEF Rotations

-----------------------------------------------------------------------------
(***************************************************************************)
(* Left and right, up and down: what cutting the edges off does to the     *)
(* order of two points.                                                    *)
(***************************************************************************)

\* What a quotient is, in products.
LEMMA DivBounds ==
  ASSUME NEW a \in Nat, NEW b \in Nat \ {0}
  PROVE  /\ a \div b \in Nat
         /\ (a \div b) * b <= a
         /\ a < (a \div b) * b + b
BY SMT

\* What is cut off is less than one.
LEMMA CutBounds ==
  ASSUME NEW a \in Int, NEW b \in Nat \ {0}
  PROVE  /\ Cut(a, b) \in Int
         /\ a - b < Cut(a, b) * b
         /\ Cut(a, b) * b < a + b
<1>1. CASE a >= 0
  <2>1. Cut(a, b) = a \div b
    BY <1>1 DEF Cut
  <2> QED BY <1>1, <2>1, DivBounds
<1>2. CASE a < 0
  <2> DEFINE n == -a
             q == n \div b
  <2>1. n \in Nat /\ a = -n /\ Cut(a, b) = -q
    BY <1>2 DEF Cut
  <2> HIDE DEF n
  <2>2. q \in Nat /\ q * b <= n /\ n < q * b + b
    BY <2>1, DivBounds
  <2> HIDE DEF q
  <2>3. (-q) * b = -(q * b)
    BY <2>2
  <2> QED BY <2>1, <2>2, <2>3
<1> QED BY <1>1, <1>2

\* A positive factor can be cancelled.
LEMMA ProductOrder ==
  ASSUME NEW p \in Int, NEW q \in Int, NEW b \in Nat \ {0}, p * b < q * b
  PROVE  p < q
BY SMT

\* A larger number has no smaller quotient.
LEMMA DivMonotone ==
  ASSUME NEW a \in Nat, NEW c \in Nat, a <= c, NEW b \in Nat \ {0}
  PROVE  a \div b <= c \div b
<1> DEFINE p == a \div b
           q == c \div b
<1>1. p \in Nat /\ q \in Nat /\ p * b <= a /\ c < q * b + b
  BY DivBounds
<1> HIDE DEF p, q
<1>2. p * b < (q + 1) * b
  BY <1>1
<1>3. p < q + 1
  BY <1>1, <1>2, ProductOrder
<1> QED BY <1>1, <1>3 DEF p, q

\* Nor is a larger length cut to a smaller one.
LEMMA CutMonotone ==
  ASSUME NEW a \in Int, NEW c \in Int, a <= c, NEW b \in Nat \ {0}
  PROVE  Cut(a, b) <= Cut(c, b)
<1>1. CASE a >= 0
  BY <1>1, DivMonotone DEF Cut
<1>2. CASE c < 0
  <2>1. -c \in Nat /\ -a \in Nat /\ -c <= -a
    BY <1>2
  <2>2. (-c) \div b <= (-a) \div b /\ (-c) \div b \in Nat /\ (-a) \div b \in Nat
    BY <2>1, DivMonotone, DivBounds
  <2> QED BY <1>2, <2>2 DEF Cut
<1>3. CASE a < 0 /\ c >= 0
  <2>1. (-a) \div b \in Nat /\ c \div b \in Nat
    BY <1>3, DivBounds
  <2> QED BY <1>3, <2>1 DEF Cut
<1> QED BY <1>1, <1>2, <1>3

\* Where a key is, in the coordinates of the sensor.
InKey(c, k, x, y) == KeyContains(KeyBox(c, k), x, y)

\* Coordinate v lies between the edges p and q of a key.
Within(v, p, q, res, len) == Cut(p * res, len) <= v /\ v < Cut(q * res, len)

\* The edges the user sees.
Left(c, k)   == c.left_margin + k.x1
Right(c, k)  == c.left_margin + k.x2
Top(c, k)    == c.top_margin + k.y1
Bottom(c, k) == c.top_margin + k.y2

\* Which edges a point of the sensor is between, for each rotation.
LEMMA EdgesOfKey ==
  ASSUME NEW c, NEW k, NEW x, NEW y, InKey(c, k, x, y)
  PROVE  /\ c.rotation = 0 =>
              /\ Within(x, Left(c, k), Right(c, k), c.res_x, c.width)
              /\ Within(y, Top(c, k), Bottom(c, k), c.res_y, c.height)
         /\ c.rotation = 90 =>
              /\ Within(x, Top(c, k), Bottom(c, k), c.res_x, c.width)
              /\ Within(y, c.height - Right(c, k), c.height - Left(c, k),
                        c.res_y, c.height)
         /\ c.rotation = 180 =>
              /\ Within(x, c.width - Right(c, k), c.width - Left(c, k),
                        c.res_x, c.width)
              /\ Within(y, c.height - Bottom(c, k), c.height - Top(c, k),
                        c.res_y, c.height)
         /\ c.rotation = 270 =>
              /\ Within(x, c.width - Bottom(c, k), c.width - Top(c, k),
                        c.res_x, c.width)
              /\ Within(y, Left(c, k), Right(c, k), c.res_y, c.height)
<1> DEFINE box == Turned(c, k)
<1>1. /\ c.rotation = 0 =>
           box = [x1 |-> Left(c, k), x2 |-> Right(c, k),
                  y1 |-> Top(c, k), y2 |-> Bottom(c, k)]
      /\ c.rotation = 90 =>
           box = [x1 |-> Top(c, k), x2 |-> Bottom(c, k),
                  y1 |-> c.height - Right(c, k), y2 |-> c.height - Left(c, k)]
      /\ c.rotation = 180 =>
           box = [x1 |-> c.width - Right(c, k), x2 |-> c.width - Left(c, k),
                  y1 |-> c.height - Bottom(c, k), y2 |-> c.height - Top(c, k)]
      /\ c.rotation = 270 =>
           box = [x1 |-> c.width - Bottom(c, k), x2 |-> c.width - Top(c, k),
                  y1 |-> Left(c, k), y2 |-> Right(c, k)]
  BY DEF Turned, Left, Right, Top, Bottom
<1>2. /\ Within(x, box.x1, box.x2, c.res_x, c.width)
      /\ Within(y, box.y1, box.y2, c.res_y, c.height)
  BY DEF InKey, KeyContains, KeyBox, Pitch, Within
<1> HIDE DEF box
<1> QED BY <1>1, <1>2

\* What hardware.csv gives, and the edges of a key, in numbers.
LEMMA SensorFacts ==
  ASSUME NEW c \in Configs, HardwareConfig(c), NEW k \in Rectangle
  PROVE  /\ c.res_x \in Nat \ {0} /\ c.res_y \in Nat \ {0}
         /\ c.width \in Nat \ {0} /\ c.height \in Nat \ {0}
         /\ c.left_margin \in Nat /\ c.top_margin \in Nat
         /\ c.rotation \in {0, 90, 180, 270}
         /\ k.x1 \in Int /\ k.x2 \in Int /\ k.y1 \in Int /\ k.y2 \in Int
BY ConfigAssumption DEF HardwareConfig, Rotations, Rectangle

\* Lengths keep their order when they are scaled.
LEMMA ScaleOrder ==
  ASSUME NEW a \in Int, NEW b \in Int, a <= b, NEW n \in Nat
  PROVE  a * n <= b * n
BY SMT

\* Edges in the order of their lengths are in this order on the sensor.
LEMMA EdgesKeepOrder ==
  ASSUME NEW a \in Int, NEW b \in Int, a <= b, NEW res \in Nat, NEW w \in Nat \ {0}
  PROVE  /\ Cut(a * res, w) <= Cut(b * res, w)
         /\ Cut(a * res, w) \in Int /\ Cut(b * res, w) \in Int
<1>1. a * res \in Int /\ b * res \in Int /\ a * res <= b * res
  BY ScaleOrder
<1> QED BY <1>1, CutMonotone, CutBounds

\* A point between edges is before one between later edges.
LEMMA WithinInOrder ==
  ASSUME NEW res \in Nat, NEW len \in Nat \ {0}, NEW x \in Int, NEW u \in Int,
         NEW a, NEW b \in Int, NEW p \in Int, NEW q, b <= p,
         Within(x, a, b, res, len), Within(u, p, q, res, len)
  PROVE  x < u
<1>1. x < Cut(b * res, len) /\ Cut(p * res, len) <= u
  BY DEF Within
<1>2. /\ Cut(b * res, len) <= Cut(p * res, len)
      /\ Cut(b * res, len) \in Int /\ Cut(p * res, len) \in Int
  BY EdgesKeepOrder
<1> QED BY <1>1, <1>2

\* A key that the user sees left of another one is left of it for the motors.
LEMMA ColumnsInOrder ==
  ASSUME NEW c \in Configs, HardwareConfig(c), NEW k \in Rectangle, NEW o \in Rectangle,
         NEW x \in Int, NEW y \in Int, InKey(c, k, x, y),
         NEW u \in Int, NEW v \in Int, InKey(c, o, u, v), k.x2 <= o.x1
  PROVE  HapticPosition(c, x, y) < HapticPosition(c, u, v)
<1>1. /\ c.res_x \in Nat /\ c.width \in Nat \ {0}
      /\ c.res_y \in Nat /\ c.height \in Nat \ {0}
      /\ Right(c, k) \in Int /\ Left(c, o) \in Int /\ Right(c, k) <= Left(c, o)
  BY SensorFacts DEF Right, Left
<1>2. CASE c.rotation = 0
  <2>1. x < u
    BY <1>1, <1>2, EdgesOfKey, WithinInOrder
  <2> QED BY <1>2, <2>1 DEF HapticPosition
<1>3. CASE c.rotation = 90
  <2>1. /\ c.height - Left(c, o) \in Int /\ c.height - Right(c, k) \in Int
        /\ c.height - Left(c, o) <= c.height - Right(c, k)
    BY <1>1
  <2>2. v < y
    BY <1>1, <1>3, <2>1, EdgesOfKey, WithinInOrder
  <2> QED BY <1>1, <1>3, <2>2 DEF HapticPosition, HapticWidth
<1>4. CASE c.rotation = 180
  <2>1. /\ c.width - Left(c, o) \in Int /\ c.width - Right(c, k) \in Int
        /\ c.width - Left(c, o) <= c.width - Right(c, k)
    BY <1>1
  <2>2. u < x
    BY <1>1, <1>4, <2>1, EdgesOfKey, WithinInOrder
  <2> QED BY <1>1, <1>4, <2>2 DEF HapticPosition, HapticWidth
<1>5. CASE c.rotation = 270
  <2>1. y < v
    BY <1>1, <1>5, EdgesOfKey, WithinInOrder
  <2> QED BY <1>5, <2>1 DEF HapticPosition
<1> QED BY <1>2, <1>3, <1>4, <1>5, SensorFacts

\* Left for the motors is left on the touchpad.
LEMMA ColumnsOfPad ==
  ASSUME NEW c \in Configs, HardwareConfig(c), NEW pad \in Rectangle,
         NEW x \in Int, NEW y \in Int, NEW u \in Int, NEW v \in Int,
         HapticPosition(c, x, y) < HapticPosition(c, u, v)
  PROVE  ToPad(c.rotation, pad, x, y)[1] < ToPad(c.rotation, pad, u, v)[1]
<1>1. /\ pad.x1 \in Int /\ pad.x2 \in Int /\ pad.y1 \in Int /\ pad.y2 \in Int
  BY DEF Rectangle
<1>2. CASE c.rotation = 0
  BY <1>1, <1>2 DEF ToPad, PadValue, PadAxis, HapticPosition
<1>3. CASE c.rotation = 90
  BY <1>1, <1>3, SensorFacts DEF ToPad, PadValue, PadAxis, HapticPosition, HapticWidth
<1>4. CASE c.rotation = 180
  BY <1>1, <1>4, SensorFacts DEF ToPad, PadValue, PadAxis, HapticPosition, HapticWidth
<1>5. CASE c.rotation = 270
  BY <1>1, <1>5 DEF ToPad, PadValue, PadAxis, HapticPosition
<1> QED BY <1>2, <1>3, <1>4, <1>5, SensorFacts

\* A key that the user sees above another one is above it on the touchpad.
LEMMA RowsInOrder ==
  ASSUME NEW c \in Configs, HardwareConfig(c), NEW k \in Rectangle, NEW o \in Rectangle,
         NEW pad \in Rectangle,
         NEW x \in Int, NEW y \in Int, InKey(c, k, x, y),
         NEW u \in Int, NEW v \in Int, InKey(c, o, u, v), k.y2 <= o.y1
  PROVE  ToPad(c.rotation, pad, x, y)[2] < ToPad(c.rotation, pad, u, v)[2]
<1>1. /\ c.res_x \in Nat /\ c.width \in Nat \ {0}
      /\ c.res_y \in Nat /\ c.height \in Nat \ {0}
      /\ Bottom(c, k) \in Int /\ Top(c, o) \in Int /\ Bottom(c, k) <= Top(c, o)
      /\ pad.x1 \in Int /\ pad.x2 \in Int /\ pad.y1 \in Int /\ pad.y2 \in Int
  BY SensorFacts DEF Bottom, Top, Rectangle
<1>2. CASE c.rotation = 0
  <2>1. y < v
    BY <1>1, <1>2, EdgesOfKey, WithinInOrder
  <2> QED BY <1>1, <1>2, <2>1 DEF ToPad, PadValue, PadAxis
<1>3. CASE c.rotation = 90
  <2>1. x < u
    BY <1>1, <1>3, EdgesOfKey, WithinInOrder
  <2> QED BY <1>1, <1>3, <2>1 DEF ToPad, PadValue, PadAxis
<1>4. CASE c.rotation = 180
  <2>1. /\ c.height - Top(c, o) \in Int /\ c.height - Bottom(c, k) \in Int
        /\ c.height - Top(c, o) <= c.height - Bottom(c, k)
    BY <1>1
  <2>2. v < y
    BY <1>1, <1>4, <2>1, EdgesOfKey, WithinInOrder
  <2> QED BY <1>1, <1>4, <2>2 DEF ToPad, PadValue, PadAxis
<1>5. CASE c.rotation = 270
  <2>1. /\ c.width - Top(c, o) \in Int /\ c.width - Bottom(c, k) \in Int
        /\ c.width - Top(c, o) <= c.width - Bottom(c, k)
    BY <1>1
  <2>2. u < x
    BY <1>1, <1>5, <2>1, EdgesOfKey, WithinInOrder
  <2> QED BY <1>1, <1>5, <2>2 DEF ToPad, PadValue, PadAxis
<1> QED BY <1>2, <1>3, <1>4, <1>5, SensorFacts

\* A distance can be scaled edge by edge.
LEMMA ScaleDistributes ==
  ASSUME NEW a \in Int, NEW b \in Int, NEW n \in Int
  PROVE  (a - b) * n = a * n - b * n
BY SMT

\* How far a point between two edges is from them.
LEMMA WithinBounds ==
  ASSUME NEW v \in Int, NEW p \in Int, NEW q \in Int,
         NEW res \in Nat, NEW len \in Nat \ {0}, Within(v, p, q, res, len)
  PROVE  p * res - len < v * len /\ v * len < q * res
<1> DEFINE e == Cut(p * res, len)
           f == Cut(q * res, len)
<1>0. p * res \in Int /\ q * res \in Int
  OBVIOUS
<1>1. /\ e \in Int /\ p * res - len < e * len
      /\ f \in Int /\ f * len < q * res + len
  BY <1>0, CutBounds
<1>2. e <= v /\ v + 1 <= f
  BY <1>1 DEF Within
<1> HIDE DEF e, f
<1>3. e * len <= v * len /\ (v + 1) * len <= f * len
  BY <1>1, <1>2, ScaleOrder
<1>4. (v + 1) * len = v * len + len
  BY SMT
<1>5. v * len \in Int /\ e * len \in Int /\ f * len \in Int
      /\ p * res \in Int /\ q * res \in Int
  BY <1>1
<1> QED BY <1>1, <1>3, <1>4, <1>5

\* The width of the keyboard the user sees.
WidthSeen(c) == IF c.rotation \in {0, 180} THEN c.width ELSE c.height

\* Where the motors see a point of a key, against the edges of the key.
LEMMA HapticPositionInKey ==
  ASSUME NEW c \in Configs, HardwareConfig(c), NEW k \in Rectangle,
         NEW x \in Int, NEW y \in Int, InKey(c, k, x, y)
  PROVE  /\ HapticPosition(c, x, y) \in Int
         /\ Left(c, k) * HapticWidth(c) - WidthSeen(c)
              < HapticPosition(c, x, y) * WidthSeen(c)
         /\ HapticPosition(c, x, y) * WidthSeen(c)
              < Right(c, k) * HapticWidth(c) + WidthSeen(c)
<1> DEFINE l == Left(c, k)
           r == Right(c, k)
<1>1. /\ c.res_x \in Nat /\ c.width \in Nat \ {0}
      /\ c.res_y \in Nat /\ c.height \in Nat \ {0}
      /\ l \in Int /\ r \in Int
  BY SensorFacts DEF Right, Left
<1>2. ASSUME NEW v \in Int, NEW res \in Nat, NEW len \in Nat \ {0},
             Within(v, l, r, res, len)
      PROVE  /\ l * res - len < v * len /\ v * len < r * res + len
  <2>1. l * res - len < v * len /\ v * len < r * res
    BY <1>1, <1>2, WithinBounds
  <2>2. v * len \in Int /\ r * res \in Int
    BY <1>1
  <2> QED BY <2>1, <2>2
<1>3. ASSUME NEW v \in Int, NEW res \in Nat, NEW len \in Nat \ {0},
             Within(v, len - r, len - l, res, len)
      PROVE  /\ l * res - len < (res - v) * len
             /\ (res - v) * len < r * res + len
  <2>1. (len - r) * res - len < v * len /\ v * len < (len - l) * res
    <3>1. len - r \in Int /\ len - l \in Int
      BY <1>1
    <3> QED BY <1>3, <3>1, WithinBounds
  <2>2. /\ (len - r) * res = len * res - r * res
        /\ (len - l) * res = len * res - l * res
        /\ (res - v) * len = res * len - v * len
    BY <1>1, ScaleDistributes
  <2>3. len * res = res * len
    BY SMT
  <2>4. len * res \in Int /\ r * res \in Int /\ l * res \in Int /\ v * len \in Int
    BY <1>1
  <2> QED BY <2>1, <2>2, <2>3, <2>4
<1> HIDE DEF l, r
<1>4. CASE c.rotation = 0
  BY <1>1, <1>2, <1>4, EdgesOfKey DEF HapticPosition, HapticWidth, WidthSeen, l, r
<1>5. CASE c.rotation = 90
  BY <1>1, <1>3, <1>5, EdgesOfKey DEF HapticPosition, HapticWidth, WidthSeen, l, r
<1>6. CASE c.rotation = 180
  BY <1>1, <1>3, <1>6, EdgesOfKey DEF HapticPosition, HapticWidth, WidthSeen, l, r
<1>7. CASE c.rotation = 270
  BY <1>1, <1>2, <1>7, EdgesOfKey DEF HapticPosition, HapticWidth, WidthSeen, l, r
<1> QED BY <1>4, <1>5, <1>6, <1>7, SensorFacts

-----------------------------------------------------------------------------
\* What the two LoadLayout() leave behind: each key has the rectangle and the
\* codes of its row, and the touchpad a rectangle of sensor coordinates.
LoadedKey == [box : Rectangle, event_code : Int, event_code_fn : Int]

LayoutFits ==
  /\ layout \in Seq(LoadedKey)
  /\ Len(layout) <= Len(layout_csv)
  /\ \A i \in DOMAIN layout : layout[i] = Key(layout_csv[i])

Loaded == step \in {"devices", "touched"}

SurfaceInv ==
  /\ config \in Configs /\ HardwareConfig(config)
  /\ layout_csv \in Layouts /\ touchpad_csv \in Pads
  /\ LayoutFits
  /\ Loaded => region \in Rectangle
  /\ Touched => step = "touched" /\ touch \in Int \X Int

\* A row of layout.csv becomes a key.
LEMMA RowBecomesKey ==
  ASSUME config \in Configs, HardwareConfig(config), layout_csv \in Layouts,
         NEW i \in DOMAIN layout_csv
  PROVE  layout_csv[i].box \in Rectangle /\ Key(layout_csv[i]) \in LoadedKey
<1> DEFINE Rows == [finite : BOOLEAN, box : Rectangle, code : Int, code_fn : Int]
<1>1. layout_csv \in Seq(Rows)
  BY FileAssumption
<1> HIDE DEF Rows
<1>2. layout_csv[i] \in Rows
  BY <1>1
<1>3. /\ layout_csv[i].box \in Rectangle
      /\ layout_csv[i].code \in Int /\ layout_csv[i].code_fn \in Int
  BY <1>2 DEF Rows
<1>4. KeyBox(config, layout_csv[i].box) \in Rectangle
  BY <1>3, TurnedIsBox, PitchIsBox DEF KeyBox
<1> QED BY <1>3, <1>4 DEF Key, LoadedKey

\* Every key that is loaded is from the row of its number.
LEMMA LayoutIsFromFile ==
  ASSUME SurfaceInv, NEW i \in DOMAIN layout
  PROVE  i \in DOMAIN layout_csv /\ layout[i] = Key(layout_csv[i])
<1>1. layout_csv \in Seq([finite : BOOLEAN, box : Rectangle,
                         code : Int, code_fn : Int])
  BY FileAssumption DEF SurfaceInv
<1>2. /\ Len(layout) \in Nat /\ DOMAIN layout = 1 .. Len(layout)
      /\ Len(layout_csv) \in Nat /\ DOMAIN layout_csv = 1 .. Len(layout_csv)
      /\ Len(layout) <= Len(layout_csv)
  BY <1>1 DEF SurfaceInv, LayoutFits
<1> QED BY <1>2 DEF SurfaceInv, LayoutFits

\* A list that is not empty has a first element.
LEMMA FirstIsElement ==
  ASSUME NEW S, NEW s \in Seq(S), s # <<>>
  PROVE  s[1] \in S
OBVIOUS

\* One turn of the loop keeps the keys in step with the rows.
LEMMA LoadKeyFits ==
  ASSUME SurfaceInv, LoadKey
  PROVE  LayoutFits'
<1>1. UNCHANGED <<config, layout_csv>>
  BY DEF LoadKey, file_vars
<1>2. CASE UNCHANGED layout
  BY <1>1, <1>2 DEF SurfaceInv, LayoutFits, Key
<1>3. CASE ~UNCHANGED layout
  <2> DEFINE n == Len(layout)
             key == Key(layout_csv[n + 1])
  <2>1. layout' = Append(layout, key) /\ n < Len(layout_csv)
    BY <1>3 DEF LoadKey
  <2>2. /\ layout \in Seq(LoadedKey) /\ n \in Nat
        /\ Len(layout_csv) \in Nat /\ DOMAIN layout_csv = 1 .. Len(layout_csv)
    <3>1. layout_csv \in Seq([finite : BOOLEAN, box : Rectangle,
                              code : Int, code_fn : Int])
      BY FileAssumption DEF SurfaceInv
    <3> QED BY <3>1 DEF SurfaceInv, LayoutFits
  <2>3. n + 1 \in DOMAIN layout_csv
    BY <2>1, <2>2
  <2>4. key \in LoadedKey
    BY <2>3, RowBecomesKey DEF SurfaceInv
  <2> HIDE DEF key
  <2>5. /\ layout' \in Seq(LoadedKey) /\ Len(layout') = n + 1
        /\ DOMAIN layout' = 1 .. n + 1 /\ DOMAIN layout = 1 .. n
        /\ \A i \in 1 .. n : layout'[i] = layout[i]
        /\ layout'[n + 1] = key
    BY <2>1, <2>2, <2>4
  <2>6. ASSUME NEW i \in 1 .. n + 1
        PROVE  layout'[i] = Key(layout_csv[i])
    <3>1. CASE i = n + 1
      BY <2>5, <3>1 DEF key
    <3>2. CASE i # n + 1
      <4>1. i \in 1 .. n
        BY <2>2, <3>2
      <4> QED BY <2>5, <4>1 DEF SurfaceInv, LayoutFits
    <3> QED BY <3>1, <3>2
  <2>7. \A i : Key(layout_csv[i])' = Key(layout_csv[i])
    BY <1>1 DEF Key
  <2> QED BY <1>1, <2>1, <2>2, <2>5, <2>6, <2>7 DEF LayoutFits
<1> QED BY <1>2, <1>3

\* The configuration, the layout and the region keep their types.
LEMMA SurfaceInvHolds == Spec => []SurfaceInv
<1>1. Init => SurfaceInv
  <2> SUFFICES ASSUME Init
               PROVE  SurfaceInv
    OBVIOUS
  <2>1. layout = <<>> /\ layout_csv \in Layouts
    BY DEF Init
  <2>2. Len(layout_csv) \in Nat
    BY <2>1, FileAssumption
  <2>3. /\ layout \in Seq(LoadedKey) /\ Len(layout) = 0
        /\ DOMAIN layout = {}
    BY <2>1
  <2>4. LayoutFits
    BY <2>2, <2>3 DEF LayoutFits
  <2> QED BY <2>4 DEF Init, SurfaceInv, Loaded, Touched
<1>2. SurfaceInv /\ [Next]_vars => SurfaceInv'
  <2> SUFFICES ASSUME SurfaceInv, [Next]_vars
               PROVE  SurfaceInv'
    OBVIOUS
  <2> USE DEF Touched, Loaded
  <2>1. ASSUME UNCHANGED <<config, layout_csv, layout>>
        PROVE  LayoutFits'
    BY <2>1 DEF SurfaceInv, LayoutFits, Key
  <2>2. CASE LoadKey
    <3>1. LayoutFits'
      BY <2>2, LoadKeyFits
    <3>2. step = "layout" /\ step' \in {"layout", "failed"}
      BY <2>2 DEF LoadKey
    <3> QED BY <2>2, <3>1, <3>2 DEF LoadKey, file_vars, SurfaceInv
  <2>3. CASE LoadLayoutEnds
    BY <2>1, <2>3 DEF LoadLayoutEnds, SurfaceInv, file_vars, loaded_vars
  <2>4. CASE LoadPad
    <3>1. UNCHANGED <<file_vars, layout, touch>> /\ step = "pad"
      BY <2>4 DEF LoadPad
    <3>2. CASE step' = "failed"
      BY <2>1, <3>1, <3>2 DEF SurfaceInv, file_vars
    <3>3. CASE step' # "failed"
      <4>1. /\ region' = PadBox(config, touchpad_csv[1].box)
            /\ touchpad_csv # <<>>
        BY <2>4, <3>3 DEF LoadPad
      <4>2. touchpad_csv \in Seq([finite : BOOLEAN, box : Rectangle])
        BY FileAssumption DEF SurfaceInv
      <4>3. touchpad_csv[1] \in [finite : BOOLEAN, box : Rectangle]
        BY <4>1, <4>2, FirstIsElement
      <4>4. touchpad_csv[1].box \in Rectangle
        BY <4>3
      <4>5. region' \in Rectangle
        BY <4>1, <4>4, PadBoxIsBox DEF SurfaceInv
      <4> QED BY <2>1, <3>1, <4>5 DEF SurfaceInv, file_vars
    <3> QED BY <3>2, <3>3
  <2>5. CASE Touch
    <3>1. touch' \in Int \X Int
      BY <2>5, ConfigAssumption DEF Touch, SurfaceInv
    <3> QED BY <2>1, <2>5, <3>1 DEF Touch, SurfaceInv, file_vars, loaded_vars
  <2>6. CASE Parse
    BY <2>1, <2>6 DEF SurfaceInv, Parse, file_vars, loaded_vars
  <2>7. CASE Start
    BY <2>1, <2>7 DEF SurfaceInv, Start, file_vars, loaded_vars
  <2>8. CASE Create
    BY <2>1, <2>8 DEF SurfaceInv, Create, file_vars, loaded_vars
  <2>9. CASE UNCHANGED vars
    BY <2>1, <2>9 DEF SurfaceInv, vars, file_vars, loaded_vars
  <2> QED BY <2>2, <2>3, <2>4, <2>5, <2>6, <2>7, <2>8, <2>9 DEF Next
<1> QED BY <1>1, <1>2, PTL DEF Spec

\* The keys a finger is on, as the lemmas about the geometry have it.
LEMMA KeysTouchedAreInLayout ==
  ASSUME SurfaceInv, NEW i \in KeysTouched
  PROVE  /\ step = "touched" /\ i \in DOMAIN layout
         /\ touch[1] \in Int /\ touch[2] \in Int
         /\ layout_csv[i].box \in Rectangle
         /\ InKey(config, layout_csv[i].box, touch[1], touch[2])
<1>1. /\ Touched /\ i \in DOMAIN layout
      /\ KeyContains(layout[i].box, touch[1], touch[2])
  BY DEF KeysTouched, KeysAt
<1>2. i \in DOMAIN layout_csv /\ layout[i] = Key(layout_csv[i])
  BY <1>1, LayoutIsFromFile
<1>3. layout_csv[i].box \in Rectangle
  BY <1>2, RowBecomesKey DEF SurfaceInv
<1> QED BY <1>1, <1>2, <1>3 DEF SurfaceInv, InKey, Key

\* The events PassEventsThrough() sends for a touch in the region lie in the
\* ranges Run() announced with CopyABSOutputEvents(), for every sensor that
\* passes the validation and every rectangle.
THEOREM PadInRange == Spec => []PadStaysInRange
<1>1. SurfaceInv => PadStaysInRange
  <2> SUFFICES ASSUME SurfaceInv, OnPad
               PROVE  /\ ToPad(config.rotation, region, touch[1], touch[2])[1]
                           \in 0 .. PadWidth(config.rotation, region)
                      /\ ToPad(config.rotation, region, touch[1], touch[2])[2]
                           \in 0 .. PadHeight(config.rotation, region)
    BY DEF PadStaysInRange
  <2>1. region \in Rectangle /\ touch[1] \in Int /\ touch[2] \in Int
    BY DEF SurfaceInv, Loaded, OnPad
  <2>2. PadContains(region, touch[1], touch[2])
    BY DEF OnPad
  <2>3. config.rotation \in Rotations
    BY DEF SurfaceInv, HardwareConfig
  <2> QED BY <2>1, <2>2, <2>3, ToPadInRange
<1> QED BY <1>1, SurfaceInvHolds, PTL

-----------------------------------------------------------------------------
\* The values that pass the checks of ParseOptions() are in range all along.
OptionsFit ==
  /\ options.haptic_magnitude.finite
  /\ options.haptic_magnitude.hundredths \in 0 .. 100
  /\ options.haptic_duration_ms \in 1 .. 1000

OptionsInv ==
  /\ DOMAIN options = {"debug_level", "haptic_magnitude",
                       "haptic_duration_ms", "config_directory"}
  /\ OptionsFit

\* One turn of the loop keeps them in range, whatever the arguments are.
LEMMA ParseKeepsOptions ==
  ASSUME OptionsInv, ParseOptions
  PROVE  OptionsInv'
<1> USE DEF OptionsInv, OptionsFit
<1>1. CASE ParseEnd \/ ParseHelp \/ ParseError
  <2>1. options' = options
    BY <1>1 DEF ParseEnd, ParseHelp, ParseError
  <2> QED BY <2>1
<1>2. CASE ParseDebug
  <2>1. options' = [options EXCEPT !.debug_level = @ + 1]
    BY <1>2 DEF ParseDebug
  <2> QED BY <2>1
<1>3. CASE ParseMagnitude
  <2>1. AsDouble[Value].finite /\ AsDouble[Value].hundredths \in 0 .. 100
    BY <1>3 DEF ParseMagnitude, Magnitude
  <2>2. options' = [options EXCEPT !.haptic_magnitude = AsDouble[Value]]
    BY <1>3 DEF ParseMagnitude
  <2> QED BY <2>1, <2>2
<1>4. CASE ParseDuration
  <2>1. AsInt[Value] \in 1 .. 1000
    BY <1>4 DEF ParseDuration, Duration
  <2>2. options' = [options EXCEPT !.haptic_duration_ms = AsInt[Value]]
    BY <1>4 DEF ParseDuration
  <2> QED BY <2>1, <2>2
<1>5. CASE ParseDirectory
  <2>1. options' = [options EXCEPT !.config_directory = Value]
    BY <1>5 DEF ParseDirectory
  <2> QED BY <2>1
<1> QED BY <1>1, <1>2, <1>3, <1>4, <1>5 DEF ParseOptions

\* The options are in range after every argument.
LEMMA OptionsInvHolds == Spec => []OptionsInv
<1>1. Init => OptionsInv
  <2> SUFFICES ASSUME OptionsInit
               PROVE  OptionsInv
    BY DEF Init
  <2>1. options = [debug_level |-> 0, haptic_magnitude |-> Number(100),
                   haptic_duration_ms |-> 12, config_directory |-> ""]
    BY DEF OptionsInit
  <2>2. Number(100).finite /\ Number(100).hundredths = 100
    BY DEF Number
  <2>3. /\ options.haptic_magnitude = Number(100)
        /\ options.haptic_duration_ms = 12
    BY <2>1
  <2>4. DOMAIN options = {"debug_level", "haptic_magnitude",
                          "haptic_duration_ms", "config_directory"}
    BY <2>1
  <2> QED BY <2>2, <2>3, <2>4 DEF OptionsInv, OptionsFit
<1>2. OptionsInv /\ [Next]_vars => OptionsInv'
  <2> SUFFICES ASSUME OptionsInv, [Next]_vars
               PROVE  OptionsInv'
    OBVIOUS
  <2>1. CASE Parse
    BY <2>1, ParseKeepsOptions DEF Parse
  <2>2. CASE UNCHANGED option_vars
    BY <2>2 DEF option_vars, OptionsInv, OptionsFit
  <2> QED BY <2>1, <2>2 DEF Next, Start, LoadKey, LoadLayoutEnds, LoadPad, Create, Touch, vars,
         option_vars
<1> QED BY <1>1, <1>2, PTL DEF Spec

\* No command line that is accepted, and no configuration that is, makes the
\* constructor of TouchFFManager throw or UploadEffect() refuse its parameters,
\* whatever from_chars() makes of the arguments.
THEOREM AcceptedOptionsSuffice == Spec => []AcceptedOptionsStart
<1>1. SurfaceInv /\ OptionsInv => AcceptedOptionsStart
  BY DEF SurfaceInv, OptionsInv, OptionsFit, AcceptedOptionsStart,
         ManagerAccepts, EffectIsValid, HardwareConfig
<1> QED BY <1>1, SurfaceInvHolds, OptionsInvHolds, PTL

-----------------------------------------------------------------------------
(***************************************************************************)
(* The devices.  Whatever a worker has enabled stays enabled until it      *)
(* fails, and each loop has enabled what its turns so far were for.        *)
(***************************************************************************)
Both == {"keyboard", "touchpad"}

\* The names of axes, and those the functions use for types and calls.
Names ==
  STRING \cup {"EV_KEY", "EV_ABS", "CreateUinputFD", "EnableKeyboardEvents",
               "EnableKeyEvent", "event_code_fn", "EnableEventType",
               "CopyABSOutputEvents", "IsEventSupported", "EVIOCGBIT",
               "EnableAbsEvent", "EVIOCGABS", "UI_ABS_SETUP", "UI_DEV_SETUP",
               "UI_DEV_CREATE", "Consume", "failed"}

KeyNames == Int \cup {TouchpadButtons[i] : i \in DOMAIN TouchpadButtons}
AxisRange == [minimum : Int, maximum : Int]
AxisRanges == UNION {[S -> AxisRange] : S \in SUBSET Names}
DeviceState == [open : BOOLEAN, types : SUBSET Names, keys : SUBSET KeyNames,
                abs : SUBSET Names, ranges : AxisRanges,
                setup : BOOLEAN, created : BOOLEAN]

Call == [call : {"open", "UI_DEV_SETUP", "UI_DEV_CREATE"}]
          \cup [call : {"UI_SET_EVBIT", "UI_SET_ABSBIT"}, code : Names]
          \cup [call : {"UI_SET_KEYBIT"}, code : KeyNames]
          \cup [call : {"UI_ABS_SETUP"}, code : Names, absinfo : AxisRange]

\* What a call is good for.
Done(d, c) ==
  /\ c.call = "UI_DEV_CREATE" => d.created
  /\ c.call = "UI_SET_EVBIT" => c.code \in d.types
  /\ c.call = "UI_SET_KEYBIT" => c.code \in d.keys
  /\ c.call = "UI_SET_ABSBIT" => c.code \in d.abs
  /\ c.call = "UI_ABS_SETUP" =>
       c.code \in DOMAIN d.ranges /\ d.ranges[c.code] = c.absinfo

\* After the call c a device e knows all that d knew, but for the range it sets.
Keeps(d, e, c) ==
  /\ d.types \subseteq e.types /\ d.keys \subseteq e.keys /\ d.abs \subseteq e.abs
  /\ \A a \in DOMAIN d.ranges :
       (c.call = "UI_ABS_SETUP" => a # c.code) =>
         a \in DOMAIN e.ranges /\ e.ranges[a] = d.ranges[a]

\* A call that succeeds is done and undoes no other one.
LEMMA CallIsDone ==
  ASSUME NEW d \in DeviceState, NEW c \in Call
  PROVE  /\ After(d, c) \in DeviceState /\ Done(After(d, c), c)
         /\ Keeps(d, After(d, c), c)
<1> USE DEF Keeps
<1>1. CASE c \in [call : {"open", "UI_DEV_SETUP", "UI_DEV_CREATE"}]
  BY <1>1 DEF After, Done, DeviceState
<1>2. CASE c \in [call : {"UI_SET_EVBIT", "UI_SET_ABSBIT"}, code : Names]
  BY <1>2 DEF After, Done, DeviceState
<1>3. CASE c \in [call : {"UI_SET_KEYBIT"}, code : KeyNames]
  BY <1>3 DEF After, Done, DeviceState
<1>4. CASE c \in [call : {"UI_ABS_SETUP"}, code : Names, absinfo : AxisRange]
  <2> DEFINE ranges == [a \in DOMAIN d.ranges \cup {c.code} |->
                          IF a = c.code THEN c.absinfo ELSE d.ranges[a]]
  <2>1. After(d, c) = [d EXCEPT !.ranges = ranges]
    BY <1>4 DEF After
  <2>2. PICK S \in SUBSET Names : d.ranges \in [S -> AxisRange]
    BY DEF DeviceState, AxisRanges
  <2>3. ranges \in [S \cup {c.code} -> AxisRange] /\ S \cup {c.code} \in SUBSET Names
    BY <1>4, <2>2
  <2>4. ranges \in AxisRanges
    BY <2>3 DEF AxisRanges
  <2>5. /\ c.code \in DOMAIN ranges /\ ranges[c.code] = c.absinfo
        /\ \A a \in DOMAIN d.ranges :
             a # c.code => a \in DOMAIN ranges /\ ranges[a] = d.ranges[a]
    OBVIOUS
  <2> HIDE DEF ranges
  <2>6. After(d, c) \in DeviceState
    BY <2>1, <2>4 DEF DeviceState
  <2>7. /\ After(d, c).ranges = ranges /\ After(d, c).types = d.types
        /\ After(d, c).keys = d.keys /\ After(d, c).abs = d.abs
    BY <2>1 DEF DeviceState
  <2> QED BY <1>4, <2>5, <2>6, <2>7 DEF Done
<1> QED BY <1>1, <1>2, <1>3, <1>4 DEF Call

\* A device that was not opened yet has announced nothing.
LEMMA NoDeviceIsDevice == NoDevice \in DeviceState
<1>1. <<>> \in [{} -> AxisRange]
  OBVIOUS
<1>2. <<>> \in AxisRanges
  BY <1>1 DEF AxisRanges
<1> QED BY <1>2 DEF NoDevice, DeviceState

Typed ==
  /\ source \in Sources
  /\ device \in [Both -> DeviceState]
  /\ at \in [Both -> Names]
  /\ turn \in [Both -> Nat \ {0}]

\* A step of one worker leaves the device of the other one alone.
OnlyOf(w) ==
  /\ device' \in [Both -> DeviceState] /\ at' \in [Both -> Names]
  /\ \A v \in Both \ {w} : device'[v] = device[v] /\ at'[v] = at[v]

\* The call of the worker fails, or it is done and undoes no other one.
Called(w, c, then) ==
  \/ at'[w] = "failed"
  \/ /\ at'[w] = then
     /\ Done(device'[w], c) /\ Keeps(device[w], device'[w], c)

\* A worker whose call failed has no device any more.
LEMMA FailOutcome ==
  ASSUME Typed, NEW w \in Both, Fail(w)
  PROVE  OnlyOf(w) /\ at'[w] = "failed"
<1>1. /\ device' = [device EXCEPT ![w] = NoDevice]
      /\ at' = [at EXCEPT ![w] = "failed"]
  BY DEF Fail, GoTo
<1>2. NoDevice \in DeviceState /\ "failed" \in Names
  BY NoDeviceIsDevice DEF Names
<1>3. device' \in [Both -> DeviceState] /\ at' \in [Both -> Names]
  BY <1>1, <1>2 DEF Typed
<1> QED BY <1>1, <1>3 DEF Typed, OnlyOf

\* A call on the control descriptor fails or is done, and undoes no other one.
LEMMA IoctlOutcome ==
  ASSUME Typed, NEW w \in Both, NEW c \in Call, NEW then \in Names,
         Ioctl(w, c, then)
  PROVE  OnlyOf(w) /\ Called(w, c, then)
<1>1. CASE Fail(w)
  BY <1>1, FailOutcome DEF Called
<1>2. CASE device' = [device EXCEPT ![w] = After(@, c)] /\ GoTo(w, then)
  <2>1. After(device[w], c) \in DeviceState
    BY CallIsDone DEF Typed
  <2>2. device'[w] = After(device[w], c)
    BY <1>2 DEF Typed
  <2>3. Done(device'[w], c) /\ Keeps(device[w], device'[w], c)
    BY <2>2, CallIsDone DEF Typed
  <2>4. at' = [at EXCEPT ![w] = then]
    BY <1>2 DEF GoTo
  <2>5. OnlyOf(w) /\ at'[w] = then
    BY <1>2, <2>1, <2>4 DEF Typed, OnlyOf
  <2> QED BY <2>3, <2>5 DEF Called
<1> QED BY <1>1, <1>2 DEF Ioctl

\* A question to the source and a jump change nothing the kernel knows.
LEMMA QueryOutcome ==
  ASSUME Typed, NEW w \in Both, NEW then \in Names,
         Query(w, then) \/ Fail(w) \/ (UNCHANGED device /\ GoTo(w, then))
  PROVE  /\ OnlyOf(w)
         /\ \/ at'[w] = "failed"
            \/ at'[w] = then /\ device'[w] = device[w]
<1>1. CASE Fail(w)
  BY <1>1, FailOutcome
<1>2. CASE UNCHANGED device /\ GoTo(w, then)
  <2>1. at' = [at EXCEPT ![w] = then]
    BY <1>2 DEF GoTo
  <2> QED BY <1>2, <2>1 DEF Typed, OnlyOf
<1> QED BY <1>1, <1>2 DEF Query

\* The functions of UinputDevice, each with what its call adds; all else that was
\* announced stays, but for an axis whose range is set.
GrowsBut(w, code) ==
  LET d == device[w]
      e == device'[w]
  IN  /\ d.types \subseteq e.types /\ d.keys \subseteq e.keys /\ d.abs \subseteq e.abs
      /\ \A a \in DOMAIN d.ranges :
           a # code => a \in DOMAIN e.ranges /\ e.ranges[a] = d.ranges[a]

Grows(w) ==
  LET d == device[w]
      e == device'[w]
  IN  /\ d.types \subseteq e.types /\ d.keys \subseteq e.keys /\ d.abs \subseteq e.abs
      /\ \A a \in DOMAIN d.ranges : a \in DOMAIN e.ranges /\ e.ranges[a] = d.ranges[a]

Failed(w) == at'[w] = "failed"

\* EnableEventType() announces the type.
LEMMA TypeOutcome ==
  ASSUME Typed, NEW w \in Both, NEW type \in Names, NEW then \in Names,
         EnableEventType(w, type, then)
  PROVE  OnlyOf(w) /\ \/ Failed(w)
                      \/ at'[w] = then /\ Grows(w) /\ type \in device'[w].types
<1> DEFINE c == [call |-> "UI_SET_EVBIT", code |-> type]
<1>1. c \in Call /\ Ioctl(w, c, then)
  BY DEF Call, EnableEventType
<1>2. \A d, e : Done(e, c) /\ Keeps(d, e, c) =>
        /\ d.types \subseteq e.types /\ d.keys \subseteq e.keys /\ d.abs \subseteq e.abs
        /\ \A a \in DOMAIN d.ranges : a \in DOMAIN e.ranges /\ e.ranges[a] = d.ranges[a]
        /\ type \in e.types
  BY DEF Done, Keeps
<1> HIDE DEF c
<1> QED BY <1>1, <1>2, IoctlOutcome DEF Called, Grows, Failed

\* EnableKeyEvent() announces the key.
LEMMA KeyOutcome ==
  ASSUME Typed, NEW w \in Both, NEW code \in KeyNames, NEW then \in Names,
         EnableKeyEvent(w, code, then)
  PROVE  OnlyOf(w) /\ \/ Failed(w)
                      \/ at'[w] = then /\ Grows(w) /\ code \in device'[w].keys
<1> DEFINE c == [call |-> "UI_SET_KEYBIT", code |-> code]
<1>1. c \in Call /\ Ioctl(w, c, then)
  BY DEF Call, EnableKeyEvent
<1>2. \A d, e : Done(e, c) /\ Keeps(d, e, c) =>
        /\ d.types \subseteq e.types /\ d.keys \subseteq e.keys /\ d.abs \subseteq e.abs
        /\ \A a \in DOMAIN d.ranges : a \in DOMAIN e.ranges /\ e.ranges[a] = d.ranges[a]
        /\ code \in e.keys
  BY DEF Done, Keeps
<1> HIDE DEF c
<1> QED BY <1>1, <1>2, IoctlOutcome DEF Called, Grows, Failed

\* EnableAbsEvent() announces the axis.
LEMMA AbsOutcome ==
  ASSUME Typed, NEW w \in Both, NEW code \in Names, NEW then \in Names,
         EnableAbsEvent(w, code, then)
  PROVE  OnlyOf(w) /\ \/ Failed(w)
                      \/ at'[w] = then /\ Grows(w) /\ code \in device'[w].abs
<1> DEFINE c == [call |-> "UI_SET_ABSBIT", code |-> code]
<1>1. c \in Call /\ Ioctl(w, c, then)
  BY DEF Call, EnableAbsEvent
<1>2. \A d, e : Done(e, c) /\ Keeps(d, e, c) =>
        /\ d.types \subseteq e.types /\ d.keys \subseteq e.keys /\ d.abs \subseteq e.abs
        /\ \A a \in DOMAIN d.ranges : a \in DOMAIN e.ranges /\ e.ranges[a] = d.ranges[a]
        /\ code \in e.abs
  BY DEF Done, Keeps
<1> HIDE DEF c
<1> QED BY <1>1, <1>2, IoctlOutcome DEF Called, Grows, Failed

\* The range of an axis, the only call that replaces something.
SetRange(w, code, range, then) ==
  Ioctl(w, [call |-> "UI_ABS_SETUP", code |-> code, absinfo |-> range], then)

\* It announces the range and keeps those of the other axes.
LEMMA RangeOutcome ==
  ASSUME Typed, NEW w \in Both, NEW code \in Names, NEW range \in AxisRange,
         NEW then \in Names, SetRange(w, code, range, then)
  PROVE  OnlyOf(w) /\ \/ Failed(w)
                      \/ /\ at'[w] = then /\ GrowsBut(w, code)
                         /\ code \in DOMAIN device'[w].ranges
                         /\ device'[w].ranges[code] = range
<1> DEFINE c == [call |-> "UI_ABS_SETUP", code |-> code, absinfo |-> range]
<1>1. c \in Call /\ Ioctl(w, c, then)
  BY DEF Call, SetRange
<1>2. \A d, e : Done(e, c) /\ Keeps(d, e, c) =>
        /\ d.types \subseteq e.types /\ d.keys \subseteq e.keys /\ d.abs \subseteq e.abs
        /\ \A a \in DOMAIN d.ranges :
             a # code => a \in DOMAIN e.ranges /\ e.ranges[a] = d.ranges[a]
        /\ code \in DOMAIN e.ranges /\ e.ranges[code] = range
  BY DEF Done, Keeps
<1> HIDE DEF c
<1> QED BY <1>1, <1>2, IoctlOutcome DEF Called, GrowsBut, Failed

\* Opening, UI_DEV_SETUP and UI_DEV_CREATE announce nothing.
LEMMA PlainOutcome ==
  ASSUME Typed, NEW w \in Both, NEW then \in Names,
         NEW name \in {"open", "UI_DEV_SETUP", "UI_DEV_CREATE"},
         Ioctl(w, [call |-> name], then)
  PROVE  OnlyOf(w) /\ \/ Failed(w)
                      \/ /\ at'[w] = then /\ Grows(w)
                         /\ name = "UI_DEV_CREATE" => device'[w].created
<1> DEFINE c == [call |-> name]
<1>1. c \in Call /\ Ioctl(w, c, then)
  BY DEF Call
<1>2. \A d, e : Done(e, c) /\ Keeps(d, e, c) =>
        /\ d.types \subseteq e.types /\ d.keys \subseteq e.keys /\ d.abs \subseteq e.abs
        /\ \A a \in DOMAIN d.ranges : a \in DOMAIN e.ranges /\ e.ranges[a] = d.ranges[a]
        /\ name = "UI_DEV_CREATE" => e.created
  BY DEF Done, Keeps
<1> HIDE DEF c
<1> QED BY <1>1, <1>2, IoctlOutcome DEF Called, Grows, Failed

\* The last two calls, after which a device exists.
LEMMA FinalOutcome ==
  ASSUME Typed, NEW w \in Both, FinalizeUinputCreation(w)
  PROVE  /\ at[w] \in {"UI_DEV_SETUP", "UI_DEV_CREATE"} /\ UNCHANGED turn
         /\ OnlyOf(w)
         /\ \/ Failed(w)
            \/ at[w] = "UI_DEV_SETUP" /\ at'[w] = "UI_DEV_CREATE" /\ Grows(w)
            \/ /\ at[w] = "UI_DEV_CREATE" /\ at'[w] = "Consume" /\ Grows(w)
               /\ device'[w].created
<1>1. "UI_DEV_CREATE" \in Names /\ "Consume" \in Names
  BY DEF Names
<1>2. CASE at[w] = "UI_DEV_SETUP" /\ Ioctl(w, [call |-> "UI_DEV_SETUP"], "UI_DEV_CREATE")
  BY <1>1, <1>2, PlainOutcome DEF FinalizeUinputCreation
<1>3. CASE at[w] = "UI_DEV_CREATE" /\ Ioctl(w, [call |-> "UI_DEV_CREATE"], "Consume")
  BY <1>1, <1>3, PlainOutcome DEF FinalizeUinputCreation
<1> QED BY <1>2, <1>3 DEF FinalizeUinputCreation

\* A loop that goes on: only the turn of its own worker moves.
LEMMA NextTurn ==
  ASSUME Typed, NEW w \in Both, UNCHANGED turn \/ turn' = [turn EXCEPT ![w] = @ + 1]
                                  \/ turn' = [turn EXCEPT ![w] = 1]
  PROVE  /\ turn' \in [Both -> Nat \ {0}]
         /\ \A v \in Both \ {w} : turn'[v] = turn[v]
         /\ turn[w] \in Nat \ {0}
         /\ UNCHANGED turn => turn'[w] = turn[w]
         /\ turn' = [turn EXCEPT ![w] = @ + 1] => turn'[w] = turn[w] + 1
         /\ turn' = [turn EXCEPT ![w] = 1] => turn'[w] = 1
BY DEF Typed

\* The calls that follow a loop.
Finish == {"UI_DEV_SETUP", "UI_DEV_CREATE", "Consume"}

\* What a keyboard at the call "now" of its turn t has announced.
KeysEnabled(now, t, d) ==
  LET InLoop == {"EnableKeyEvent", "event_code_fn"}
  IN  /\ now \in {"CreateUinputFD", "EnableKeyboardEvents"} => t = 1
      /\ now \in InLoop \cup Finish => "EV_KEY" \in d.types
      /\ \A i \in DOMAIN layout :
           (now \in InLoop /\ i < t) \/ now \in Finish =>
             CodesOf(layout[i]) \subseteq d.keys
      /\ now = "event_code_fn" =>
           t \in DOMAIN layout /\ layout[t].event_code \in d.keys
      /\ now = "Consume" => d.created

\* Every step of the keyboard worker adds what it is for.
LEMMA KeyboardStep ==
  ASSUME SurfaceInv, Typed, RunKeyboard,
         KeysEnabled(at["keyboard"], turn["keyboard"], device["keyboard"])
  PROVE  /\ OnlyOf("keyboard")
         /\ turn' \in [Both -> Nat \ {0}] /\ turn'["touchpad"] = turn["touchpad"]
         /\ KeysEnabled(at'["keyboard"], turn'["keyboard"], device'["keyboard"])
<1> DEFINE w == "keyboard"
           now == at[w]
           t == turn[w]
           d == device[w]
           e == device'[w]
           TurnGoesOn == /\ turn' \in [Both -> Nat \ {0}]
                         /\ turn'["touchpad"] = turn["touchpad"]
<1>1. /\ w \in Both /\ "touchpad" \in Both \ {w} /\ t \in Nat \ {0}
      /\ DOMAIN layout = 1 .. Len(layout) /\ Len(layout) \in Nat
      /\ \A i \in DOMAIN layout : /\ layout[i].event_code \in KeyNames
                                  /\ layout[i].event_code_fn \in KeyNames
  <2>1. layout \in Seq(LoadedKey)
    BY DEF SurfaceInv, LayoutFits
  <2>2. \A i \in DOMAIN layout : layout[i] \in LoadedKey
    BY <2>1
  <2>3. w \in Both /\ "touchpad" \in Both \ {w} /\ t \in Nat \ {0}
    BY DEF Both, Typed
  <2> QED BY <2>1, <2>2, <2>3 DEF LoadedKey, KeyNames
<1>2. \A then \in {"EnableKeyboardEvents", "EnableKeyEvent", "event_code_fn",
                   "UI_DEV_SETUP", "EV_KEY"} : then \in Names
  BY DEF Names
<1>3. ASSUME UNCHANGED turn
      PROVE  TurnGoesOn /\ turn'[w] = t
  BY <1>1, <1>3, NextTurn
<1>4. Failed(w) => KeysEnabled(at'[w], turn'[w], e)
  BY DEF Failed, KeysEnabled, Finish
<1>5. CASE CreateUinputFD(w, "EnableKeyboardEvents")
  <2>1. /\ now = "CreateUinputFD" /\ UNCHANGED turn
        /\ Ioctl(w, [call |-> "open"], "EnableKeyboardEvents")
    BY <1>5 DEF CreateUinputFD
  <2>2. OnlyOf(w) /\ (Failed(w) \/ at'[w] = "EnableKeyboardEvents")
    BY <1>1, <1>2, <2>1, PlainOutcome
  <2>3. t = 1
    BY <2>1 DEF KeysEnabled
  <2> QED BY <1>3, <1>4, <2>1, <2>2, <2>3 DEF KeysEnabled, Finish
<1>6. CASE now = "EnableKeyboardEvents" /\ EnableEventType(w, "EV_KEY", "EnableKeyEvent")
           /\ UNCHANGED turn
  <2>1. "EV_KEY" \in Names /\ "EnableKeyEvent" \in Names
        /\ EnableEventType(w, "EV_KEY", "EnableKeyEvent")
    BY <1>2, <1>6
  <2>2. OnlyOf(w) /\ (Failed(w) \/ (at'[w] = "EnableKeyEvent" /\ "EV_KEY" \in e.types))
    BY <1>1, <2>1, TypeOutcome
  <2>3. t = 1 /\ \A i \in DOMAIN layout : ~(i < 1)
    BY <1>1, <1>6 DEF KeysEnabled
  <2> QED BY <1>3, <1>4, <1>6, <2>2, <2>3 DEF KeysEnabled, Finish
<1>7. CASE EnableKey
  <2>1. now = "EnableKeyEvent" /\ UNCHANGED turn
    BY <1>7 DEF EnableKey
  <2>2. CASE t <= Len(layout)
    <3> DEFINE code == layout[t].event_code
    <3>1. t \in DOMAIN layout /\ code \in KeyNames
      BY <1>1, <2>2
    <3>2. EnableKeyEvent(w, code, "event_code_fn")
      BY <1>7, <2>2 DEF EnableKey
    <3>3. OnlyOf(w) /\ \/ Failed(w)
                       \/ at'[w] = "event_code_fn" /\ Grows(w) /\ code \in e.keys
      BY <1>1, <1>2, <3>1, <3>2, KeyOutcome
    <3> QED BY <1>3, <1>4, <2>1, <3>1, <3>3 DEF KeysEnabled, Finish, Grows
  <2>3. CASE ~(t <= Len(layout))
    <3>1. OnlyOf(w) /\ (Failed(w) \/ (at'[w] = "UI_DEV_SETUP" /\ e = d))
      BY <1>1, <1>2, <1>7, <2>3, QueryOutcome DEF EnableKey, Failed
    <3>2. \A i \in DOMAIN layout : i < t
      BY <1>1, <2>3
    <3> QED BY <1>3, <1>4, <2>1, <3>1, <3>2 DEF KeysEnabled, Finish
  <2> QED BY <2>2, <2>3
<1>8. CASE EnableKeyFn
  <2> DEFINE code == layout[t].event_code_fn
  <2>1. now = "event_code_fn" /\ turn' = [turn EXCEPT ![w] = @ + 1]
    BY <1>8 DEF EnableKeyFn
  <2>2. t \in DOMAIN layout /\ layout[t].event_code \in d.keys /\ "EV_KEY" \in d.types
    BY <2>1 DEF KeysEnabled
  <2>3. TurnGoesOn /\ turn'[w] = t + 1
    BY <1>1, <2>1, NextTurn
  <2>4. OnlyOf(w) /\ \/ Failed(w)
                     \/ /\ at'[w] = "EnableKeyEvent"
                        /\ d.types \subseteq e.types /\ d.keys \subseteq e.keys
                        /\ code # 0 => code \in e.keys
    <3>1. CASE code # 0
      <4>1. EnableKeyEvent(w, code, "EnableKeyEvent") /\ code \in KeyNames
        BY <1>1, <1>8, <2>2, <3>1 DEF EnableKeyFn
      <4> QED BY <1>1, <1>2, <4>1, KeyOutcome DEF Grows
    <3>2. CASE code = 0
      <4>1. OnlyOf(w) /\ (Failed(w) \/ (at'[w] = "EnableKeyEvent" /\ e = d))
        BY <1>1, <1>2, <1>8, <3>2, QueryOutcome DEF EnableKeyFn, Failed
      <4> QED BY <3>2, <4>1
    <3> QED BY <3>1, <3>2
  <2>5. CASE ~Failed(w)
    <3>1. ASSUME NEW i \in DOMAIN layout, i < t + 1
          PROVE  CodesOf(layout[i]) \subseteq e.keys
      <4>1. CASE i = t
        BY <2>2, <2>4, <2>5, <4>1 DEF CodesOf
      <4>2. CASE i # t
        <5>1. i < t
          BY <1>1, <3>1, <4>2
        <5>2. CodesOf(layout[i]) \subseteq d.keys
          BY <2>1, <5>1 DEF KeysEnabled
        <5> QED BY <2>4, <2>5, <5>2
      <4> QED BY <4>1, <4>2
    <3> QED BY <2>2, <2>3, <2>4, <2>5, <3>1 DEF KeysEnabled, Finish
  <2> QED BY <1>4, <2>3, <2>4, <2>5
<1>9. CASE FinalizeUinputCreation(w)
  <2>1. /\ "EV_KEY" \in d.types
        /\ \A i \in DOMAIN layout : CodesOf(layout[i]) \subseteq d.keys
    BY <1>1, <1>9, FinalOutcome DEF KeysEnabled, Finish
  <2> QED BY <1>1, <1>3, <1>4, <1>9, <2>1, FinalOutcome DEF KeysEnabled, Finish, Grows
<1> QED BY <1>5, <1>6, <1>7, <1>8, <1>9 DEF RunKeyboard, EnableKeyboardEvents

\* What a touchpad has announced for an axis of the screen.
AxisDone(d, i) ==
  LET axis == source.axes[i]
  IN  /\ axis.code \in d.abs /\ axis.code \in DOMAIN d.ranges
      /\ d.ranges[axis.code] = AbsInfo(axis, PadWidth(config.rotation, region),
                                             PadHeight(config.rotation, region))

\* The calls of the loop over the axes, and those after the earlier ones.
AxisLoop == {"EnableAbsEvent", "EVIOCGABS", "UI_ABS_SETUP"}
AxesKnown == {"EVIOCGBIT"} \cup AxisLoop \cup Finish
ButtonsDone == {"CopyABSOutputEvents", "IsEventSupported", "EV_ABS"} \cup AxesKnown

\* What a touchpad at the call "now" of its turn t has announced.
ButtonsEnabled(now, t, d) ==
  /\ now \in {"CreateUinputFD", "EnableEventType"} => t = 1
  /\ now = "EnableKeyEvent" => t \in DOMAIN TouchpadButtons
  /\ now \in {"EnableKeyEvent"} \cup ButtonsDone => "EV_KEY" \in d.types
  /\ \A i \in DOMAIN TouchpadButtons :
       (now = "EnableKeyEvent" /\ i < t) \/ now \in ButtonsDone =>
         TouchpadButtons[i] \in d.keys

AxesEnabled(now, t, d) ==
  /\ now \in {"EV_ABS"} \cup AxesKnown => "EV_ABS" \in source.types
  /\ now \in AxesKnown => "EV_ABS" \in d.types
  /\ now \in {"EVIOCGABS", "UI_ABS_SETUP"} =>
       t \in DOMAIN source.axes /\ source.axes[t].code \in d.abs
  /\ \A i \in DOMAIN source.axes :
       (now \in AxisLoop /\ i < t) \/ now \in Finish => AxisDone(d, i)
  /\ now = "Consume" => d.created

Axis == [code : STRING, minimum : Int, maximum : Int]

\* The axes of a touch screen, each with its own code.
LEMMA AxesAreTyped ==
  ASSUME Typed
  PROVE  /\ DOMAIN source.axes = 1 .. Len(source.axes) /\ Len(source.axes) \in Nat
         /\ \A i \in DOMAIN source.axes : source.axes[i] \in Axis
         /\ \A i, j \in DOMAIN source.axes :
              source.axes[i].code = source.axes[j].code => i = j
<1>1. /\ source.axes \in Seq(Axis)
      /\ \A i, j \in DOMAIN source.axes :
           source.axes[i].code = source.axes[j].code => i = j
  BY SourceAssumption DEF Typed, Axis
<1> QED BY <1>1

\* The size of the region is a pair of whole numbers.
LEMMA PadIsTyped ==
  ASSUME region \in Rectangle
  PROVE  /\ PadWidth(config.rotation, region) \in Int
         /\ PadHeight(config.rotation, region) \in Int
BY DEF Rectangle, PadWidth, PadHeight

\* The buttons, which end where the axes begin.
LEMMA ButtonStep ==
  ASSUME Typed,
         CreateUinputFD("touchpad", "EnableEventType") \/ EnableButtons,
         ButtonsEnabled(at["touchpad"], turn["touchpad"], device["touchpad"])
  PROVE  /\ OnlyOf("touchpad")
         /\ turn' \in [Both -> Nat \ {0}] /\ turn'["keyboard"] = turn["keyboard"]
         /\ at'["touchpad"] \in {"EnableEventType", "EnableKeyEvent",
                                 "CopyABSOutputEvents", "failed"}
         /\ ButtonsEnabled(at'["touchpad"], turn'["touchpad"], device'["touchpad"])
<1> DEFINE w == "touchpad"
           now == at[w]
           t == turn[w]
           d == device[w]
           e == device'[w]
           TurnGoesOn == /\ turn' \in [Both -> Nat \ {0}]
                         /\ turn'["keyboard"] = turn["keyboard"]
<1>1. w \in Both /\ "keyboard" \in Both \ {w} /\ t \in Nat \ {0}
  BY DEF Both, Typed
<1>2. \A then \in {"EnableEventType", "EnableKeyEvent", "CopyABSOutputEvents",
                   "EV_KEY"} : then \in Names
  BY DEF Names
<1>3. ASSUME UNCHANGED turn
      PROVE  TurnGoesOn /\ turn'[w] = t
  BY <1>1, <1>3, NextTurn
<1>4. Failed(w) => /\ at'[w] = "failed" /\ ButtonsEnabled(at'[w], turn'[w], e)
  BY DEF Failed, ButtonsEnabled, ButtonsDone, AxesKnown, AxisLoop, Finish
<1>5. DOMAIN TouchpadButtons = 1 .. 5 /\ Len(TouchpadButtons) = 5
  BY DEF TouchpadButtons
<1>6. CASE CreateUinputFD(w, "EnableEventType")
  <2>1. /\ now = "CreateUinputFD" /\ UNCHANGED turn
        /\ Ioctl(w, [call |-> "open"], "EnableEventType")
    BY <1>6 DEF CreateUinputFD
  <2>2. OnlyOf(w) /\ (Failed(w) \/ at'[w] = "EnableEventType")
    BY <1>1, <1>2, <2>1, PlainOutcome
  <2>3. t = 1
    BY <2>1 DEF ButtonsEnabled
  <2>4. at'[w] = "EnableEventType" => ButtonsEnabled(at'[w], turn'[w], e)
    BY <1>3, <2>1, <2>3
       DEF ButtonsEnabled, ButtonsDone, AxesKnown, AxisLoop, Finish
  <2> QED BY <1>3, <1>4, <2>1, <2>2, <2>4
<1>7. CASE now = "EnableEventType" /\ EnableEventType(w, "EV_KEY", "EnableKeyEvent")
           /\ UNCHANGED turn
  <2>1. "EV_KEY" \in Names /\ "EnableKeyEvent" \in Names
        /\ EnableEventType(w, "EV_KEY", "EnableKeyEvent")
    BY <1>2, <1>7
  <2>2. OnlyOf(w) /\ (Failed(w) \/ (at'[w] = "EnableKeyEvent" /\ "EV_KEY" \in e.types))
    BY <1>1, <2>1, TypeOutcome
  <2>3. t = 1 /\ \A i \in DOMAIN TouchpadButtons : ~(i < 1)
    BY <1>5, <1>7 DEF ButtonsEnabled
  <2>4. at'[w] = "EnableKeyEvent" /\ "EV_KEY" \in e.types =>
          ButtonsEnabled(at'[w], turn'[w], e)
    BY <1>3, <1>5, <1>7, <2>3
       DEF ButtonsEnabled, ButtonsDone, AxesKnown, AxisLoop, Finish
  <2> QED BY <1>3, <1>4, <1>7, <2>2, <2>4
<1>8. CASE EnableButtons /\ now = "EnableKeyEvent"
  <2> DEFINE then == IF t < 5 THEN "EnableKeyEvent" ELSE "CopyABSOutputEvents"
             button == TouchpadButtons[t]
  <2>1. t \in 1 .. 5 /\ "EV_KEY" \in d.types
        /\ \A i \in 1 .. 5 : i < t => TouchpadButtons[i] \in d.keys
    BY <1>5, <1>8 DEF ButtonsEnabled
  <2>2. EnableKeyEvent(w, button, then) /\ turn' = [turn EXCEPT ![w] = @ + 1]
    BY <1>5, <1>8 DEF EnableButtons
  <2>3. button \in KeyNames /\ then \in Names
    BY <1>2, <1>5, <2>1 DEF KeyNames
  <2> HIDE DEF button
  <2>4. OnlyOf(w) /\ \/ Failed(w)
                     \/ at'[w] = then /\ Grows(w) /\ button \in e.keys
    <3> HIDE DEF then
    <3> QED BY <1>1, <2>2, <2>3, KeyOutcome
  <2>5. TurnGoesOn /\ turn'[w] = t + 1
    BY <1>1, <2>2, NextTurn
  <2>6. CASE ~Failed(w)
    <3>1. \A i \in 1 .. 5 : i < t + 1 => TouchpadButtons[i] \in e.keys
      BY <2>1, <2>4, <2>6 DEF Grows, button
    <3>2. "EV_KEY" \in e.types
      BY <2>1, <2>4, <2>6 DEF Grows
    <3>3. CASE t < 5
      <4>1. at'[w] = "EnableKeyEvent" /\ t + 1 \in 1 .. 5
        BY <2>1, <2>4, <2>6, <3>3
      <4> QED BY <1>5, <2>4, <2>5, <3>1, <3>2, <4>1
              DEF ButtonsEnabled, ButtonsDone, AxesKnown, AxisLoop, Finish
    <3>4. CASE ~(t < 5)
      <4>1. at'[w] = "CopyABSOutputEvents" /\ \A i \in 1 .. 5 : i < t + 1
        BY <2>1, <2>4, <2>6, <3>4
      <4> QED BY <1>5, <2>4, <2>5, <3>1, <3>2, <4>1
              DEF ButtonsEnabled, ButtonsDone, AxesKnown, AxisLoop, Finish
    <3> QED BY <3>3, <3>4
  <2> QED BY <1>4, <2>4, <2>5, <2>6
<1> QED BY <1>6, <1>7, <1>8 DEF EnableButtons

\* After the buttons the worker only adds to its device.
LEMMA ButtonsStay ==
  ASSUME NEW now \in ButtonsDone, NEW t, NEW d, ButtonsEnabled(now, t, d),
         NEW then \in ButtonsDone \cup {"failed"}, NEW u, NEW e,
         then # "failed" => d.types \subseteq e.types /\ d.keys \subseteq e.keys
  PROVE  ButtonsEnabled(then, u, e)
BY DEF ButtonsEnabled, ButtonsDone, AxesKnown, AxisLoop, Finish

\* Nor does it take back an axis, unless it sets its range again.
LEMMA AxisStays ==
  ASSUME NEW w \in Both, NEW i, AxisDone(device[w], i),
         \/ Grows(w)
         \/ \E code : GrowsBut(w, code) /\ source.axes[i].code # code
  PROVE  AxisDone(device'[w], i)
BY DEF Grows, GrowsBut, AxisDone

\* The loop over the axes announces one with its range in every turn.
LEMMA CopyStep ==
  ASSUME Typed, region \in Rectangle,
         CopyABSOutputEvents("touchpad", PadWidth(config.rotation, region),
                             PadHeight(config.rotation, region)),
         ButtonsEnabled(at["touchpad"], turn["touchpad"], device["touchpad"]),
         AxesEnabled(at["touchpad"], turn["touchpad"], device["touchpad"])
  PROVE  /\ OnlyOf("touchpad")
         /\ turn' \in [Both -> Nat \ {0}] /\ turn'["keyboard"] = turn["keyboard"]
         /\ ButtonsEnabled(at'["touchpad"], turn'["touchpad"], device'["touchpad"])
         /\ AxesEnabled(at'["touchpad"], turn'["touchpad"], device'["touchpad"])
<1> DEFINE w == "touchpad"
           now == at[w]
           t == turn[w]
           d == device[w]
           e == device'[w]
           width == PadWidth(config.rotation, region)
           height == PadHeight(config.rotation, region)
           more == t <= Len(source.axes)
           axis == source.axes[t]
           TurnGoesOn == /\ turn' \in [Both -> Nat \ {0}]
                         /\ turn'["keyboard"] = turn["keyboard"]
           AskTypes == /\ now = "CopyABSOutputEvents"
                       /\ Query(w, "IsEventSupported") /\ UNCHANGED turn
           HasAxes == /\ now = "IsEventSupported" /\ "EV_ABS" \in source.types
                      /\ GoTo(w, "EV_ABS") /\ UNCHANGED <<device, turn>>
           HasNoAxes == /\ now = "IsEventSupported" /\ Fail(w) /\ UNCHANGED turn
           SetType == /\ now = "EV_ABS"
                      /\ EnableEventType(w, "EV_ABS", "EVIOCGBIT") /\ UNCHANGED turn
           AskAxes == /\ now = "EVIOCGBIT"
                      /\ Query(w, "EnableAbsEvent") /\ turn' = [turn EXCEPT ![w] = 1]
           SetAxis == /\ now = "EnableAbsEvent" /\ more
                      /\ EnableAbsEvent(w, axis.code, "EVIOCGABS") /\ UNCHANGED turn
           AskRange == /\ now = "EVIOCGABS" /\ Query(w, "UI_ABS_SETUP") /\ UNCHANGED turn
           GiveRange == /\ now = "UI_ABS_SETUP"
                        /\ SetRange(w, axis.code, AbsInfo(axis, width, height),
                                    "EnableAbsEvent")
                        /\ turn' = [turn EXCEPT ![w] = @ + 1]
           LoopEnds == /\ now = "EnableAbsEvent" /\ ~more
                       /\ GoTo(w, "UI_DEV_SETUP") /\ UNCHANGED <<device, turn>>
<1>1. w \in Both /\ "keyboard" \in Both \ {w} /\ t \in Nat \ {0}
  BY DEF Both, Typed
<1>2. \A then \in {"IsEventSupported", "EV_ABS", "EVIOCGBIT", "EnableAbsEvent",
                   "EVIOCGABS", "UI_ABS_SETUP", "UI_DEV_SETUP"} : then \in Names
  BY DEF Names
<1>3. ASSUME UNCHANGED turn
      PROVE  TurnGoesOn /\ turn'[w] = t
  BY <1>1, <1>3, NextTurn
<1>4. Failed(w) => /\ ButtonsEnabled(at'[w], turn'[w], e)
                   /\ AxesEnabled(at'[w], turn'[w], e)
  BY DEF Failed, ButtonsEnabled, AxesEnabled, ButtonsDone, AxesKnown, AxisLoop, Finish
<1>5. ASSUME now \in ButtonsDone, at'[w] \in ButtonsDone,
             d.types \subseteq e.types, d.keys \subseteq e.keys
      PROVE  ButtonsEnabled(at'[w], turn'[w], e)
  BY <1>5, ButtonsStay
<1>6. /\ DOMAIN source.axes = 1 .. Len(source.axes) /\ Len(source.axes) \in Nat
      /\ \A i \in DOMAIN source.axes : source.axes[i] \in Axis
      /\ \A i, j \in DOMAIN source.axes :
           source.axes[i].code = source.axes[j].code => i = j
  BY AxesAreTyped
<1>7. ButtonsDone = {"CopyABSOutputEvents", "IsEventSupported", "EV_ABS", "EVIOCGBIT",
                     "EnableAbsEvent", "EVIOCGABS", "UI_ABS_SETUP",
                     "UI_DEV_SETUP", "UI_DEV_CREATE", "Consume"}
  BY DEF ButtonsDone, AxesKnown, AxisLoop, Finish
<1>8. CASE AskTypes
  <2>1. Query(w, "IsEventSupported") /\ "IsEventSupported" \in Names
    BY <1>2, <1>8
  <2>2. OnlyOf(w) /\ (Failed(w) \/ (at'[w] = "IsEventSupported" /\ e = d))
    BY <1>1, <2>1, QueryOutcome DEF Failed
  <2>3. CASE ~Failed(w)
    <3>1. AxesEnabled(at'[w], turn'[w], e)
      BY <2>2, <2>3 DEF AxesEnabled, AxesKnown, AxisLoop, Finish
    <3> QED BY <1>3, <1>5, <1>7, <1>8, <2>2, <2>3, <3>1
  <2> QED BY <1>3, <1>4, <1>8, <2>2, <2>3
<1>9. CASE HasAxes
  <2>1. GoTo(w, "EV_ABS") /\ UNCHANGED device /\ "EV_ABS" \in Names
    BY <1>2, <1>9
  <2>2. OnlyOf(w) /\ (Failed(w) \/ (at'[w] = "EV_ABS" /\ e = d))
    BY <1>1, <2>1, QueryOutcome DEF Failed
  <2>3. CASE ~Failed(w)
    <3>1. AxesEnabled(at'[w], turn'[w], e)
      BY <1>9, <2>2, <2>3 DEF AxesEnabled, AxesKnown, AxisLoop, Finish
    <3> QED BY <1>3, <1>5, <1>7, <1>9, <2>2, <2>3, <3>1
  <2> QED BY <1>3, <1>4, <1>9, <2>2, <2>3
<1>10. CASE HasNoAxes
  <2>1. OnlyOf(w) /\ Failed(w)
    BY <1>1, <1>10, FailOutcome DEF Failed
  <2> QED BY <1>3, <1>4, <1>10, <2>1
<1>11. CASE SetType
  <2>1. /\ EnableEventType(w, "EV_ABS", "EVIOCGBIT")
        /\ "EVIOCGBIT" \in Names /\ "EV_ABS" \in Names
    BY <1>2, <1>11
  <2>2. OnlyOf(w) /\ \/ Failed(w)
                     \/ at'[w] = "EVIOCGBIT" /\ Grows(w) /\ "EV_ABS" \in e.types
    BY <1>1, <2>1, TypeOutcome
  <2>3. CASE ~Failed(w)
    <3>1. "EV_ABS" \in source.types
      BY <1>11 DEF AxesEnabled
    <3>2. AxesEnabled(at'[w], turn'[w], e)
      BY <2>2, <2>3, <3>1 DEF AxesEnabled, AxesKnown, AxisLoop, Finish
    <3> QED BY <1>3, <1>5, <1>7, <1>11, <2>2, <2>3, <3>2 DEF Grows
  <2> QED BY <1>3, <1>4, <1>11, <2>2, <2>3
<1>12. CASE AskAxes
  <2>1. Query(w, "EnableAbsEvent") /\ "EnableAbsEvent" \in Names
    BY <1>2, <1>12
  <2>2. OnlyOf(w) /\ (Failed(w) \/ (at'[w] = "EnableAbsEvent" /\ e = d))
    BY <1>1, <2>1, QueryOutcome DEF Failed
  <2>3. TurnGoesOn /\ turn'[w] = 1
    BY <1>1, <1>12, NextTurn
  <2>4. CASE ~Failed(w)
    <3>1. "EV_ABS" \in source.types /\ "EV_ABS" \in d.types
      BY <1>12 DEF AxesEnabled, AxesKnown
    <3>2. \A i \in DOMAIN source.axes : ~(i < 1)
      BY <1>6
    <3>3. AxesEnabled(at'[w], turn'[w], e)
      BY <2>2, <2>3, <2>4, <3>1, <3>2 DEF AxesEnabled, AxesKnown, AxisLoop, Finish
    <3> QED BY <1>5, <1>7, <1>12, <2>2, <2>3, <2>4, <3>3
  <2> QED BY <1>4, <2>2, <2>3, <2>4
<1>13. ASSUME now \in AxisLoop
       PROVE  /\ "EV_ABS" \in source.types /\ "EV_ABS" \in d.types
              /\ \A i \in DOMAIN source.axes : i < t => AxisDone(d, i)
  BY <1>13 DEF AxesEnabled, AxesKnown
<1>14. CASE SetAxis
  <2>1. t \in DOMAIN source.axes
    BY <1>1, <1>6, <1>14
  <2>2. /\ EnableAbsEvent(w, axis.code, "EVIOCGABS")
        /\ "EVIOCGABS" \in Names /\ axis.code \in Names
    BY <1>2, <1>6, <1>14, <2>1 DEF Axis, Names
  <2>3. OnlyOf(w) /\ \/ Failed(w)
                     \/ at'[w] = "EVIOCGABS" /\ Grows(w) /\ axis.code \in e.abs
    BY <1>1, <2>2, AbsOutcome
  <2>4. CASE ~Failed(w)
    <3>1. \A i \in DOMAIN source.axes : i < t => AxisDone(e, i)
      BY <1>1, <1>13, <1>14, <2>3, <2>4, AxisStays DEF AxisLoop
    <3>2. "EV_ABS" \in source.types /\ "EV_ABS" \in e.types
      BY <1>13, <1>14, <2>3, <2>4 DEF AxisLoop, Grows
    <3>3. AxesEnabled(at'[w], turn'[w], e)
      BY <1>3, <1>14, <2>1, <2>3, <2>4, <3>1, <3>2
         DEF AxesEnabled, AxesKnown, AxisLoop, Finish
    <3> QED BY <1>3, <1>5, <1>7, <1>14, <2>3, <2>4, <3>3 DEF Grows
  <2> QED BY <1>3, <1>4, <1>14, <2>3, <2>4
<1>15. CASE AskRange
  <2>1. Query(w, "UI_ABS_SETUP") /\ "UI_ABS_SETUP" \in Names
    BY <1>2, <1>15
  <2>2. OnlyOf(w) /\ (Failed(w) \/ (at'[w] = "UI_ABS_SETUP" /\ e = d))
    BY <1>1, <2>1, QueryOutcome DEF Failed
  <2>3. CASE ~Failed(w)
    <3>1. t \in DOMAIN source.axes /\ axis.code \in d.abs
      BY <1>15 DEF AxesEnabled
    <3>2. AxesEnabled(at'[w], turn'[w], e)
      BY <1>3, <1>13, <1>15, <2>2, <2>3, <3>1
         DEF AxesEnabled, AxesKnown, AxisLoop, Finish
    <3> QED BY <1>3, <1>5, <1>7, <1>15, <2>2, <2>3, <3>2
  <2> QED BY <1>3, <1>4, <1>15, <2>2, <2>3
<1>16. CASE GiveRange
  <2> DEFINE range == AbsInfo(axis, width, height)
  <2>1. t \in DOMAIN source.axes /\ axis.code \in d.abs
    BY <1>16 DEF AxesEnabled
  <2>2. axis \in Axis /\ axis.code \in Names /\ "EnableAbsEvent" \in Names
    BY <1>2, <1>6, <2>1 DEF Axis, Names
  <2>3. range \in AxisRange
    BY <2>2, PadIsTyped DEF AbsInfo, AxisRange, Axis
  <2>4. SetRange(w, axis.code, range, "EnableAbsEvent")
    BY <1>16
  <2> HIDE DEF range
  <2>5. OnlyOf(w) /\ \/ Failed(w)
                     \/ /\ at'[w] = "EnableAbsEvent" /\ GrowsBut(w, axis.code)
                        /\ axis.code \in DOMAIN e.ranges
                        /\ e.ranges[axis.code] = range
    BY <1>1, <2>2, <2>3, <2>4, RangeOutcome
  <2>6. TurnGoesOn /\ turn'[w] = t + 1
    BY <1>1, <1>16, NextTurn
  <2>7. CASE ~Failed(w)
    <3>1. ASSUME NEW i \in DOMAIN source.axes, i < t + 1
          PROVE  AxisDone(e, i)
      <4>1. CASE i = t
        BY <2>1, <2>5, <2>7, <4>1 DEF AxisDone, GrowsBut, range
      <4>2. CASE i # t
        <5>1. i < t
          BY <1>1, <1>6, <3>1, <4>2
        <5>2. AxisDone(d, i)
          BY <1>13, <1>16, <5>1 DEF AxisLoop
        <5>3. source.axes[i].code # axis.code
          BY <1>6, <2>1, <4>2
        <5> QED BY <1>1, <2>5, <2>7, <5>2, <5>3, AxisStays
      <4> QED BY <4>1, <4>2
    <3>2. "EV_ABS" \in source.types /\ "EV_ABS" \in e.types
      BY <1>13, <1>16, <2>5, <2>7 DEF AxisLoop, GrowsBut
    <3>3. AxesEnabled(at'[w], turn'[w], e)
      BY <2>5, <2>6, <2>7, <3>1, <3>2 DEF AxesEnabled, AxesKnown, AxisLoop, Finish
    <3> QED BY <1>5, <1>7, <1>16, <2>5, <2>6, <2>7, <3>3 DEF GrowsBut
  <2> QED BY <1>4, <2>5, <2>6, <2>7
<1>17. CASE LoopEnds
  <2>1. GoTo(w, "UI_DEV_SETUP") /\ UNCHANGED device /\ "UI_DEV_SETUP" \in Names
    BY <1>2, <1>17
  <2>2. OnlyOf(w) /\ (Failed(w) \/ (at'[w] = "UI_DEV_SETUP" /\ e = d))
    BY <1>1, <2>1, QueryOutcome DEF Failed
  <2>3. CASE ~Failed(w)
    <3>1. \A i \in DOMAIN source.axes : i < t
      BY <1>1, <1>6, <1>17
    <3>2. \A i \in DOMAIN source.axes : AxisDone(e, i)
      BY <1>13, <1>17, <2>2, <2>3, <3>1 DEF AxisLoop
    <3>3. AxesEnabled(at'[w], turn'[w], e)
      BY <1>13, <1>17, <2>2, <2>3, <3>2 DEF AxesEnabled, AxesKnown, AxisLoop, Finish
    <3> QED BY <1>3, <1>5, <1>7, <1>17, <2>2, <2>3, <3>3
  <2> QED BY <1>3, <1>4, <1>17, <2>2, <2>3
<1>18. \/ AskTypes \/ HasAxes \/ HasNoAxes \/ SetType \/ AskAxes
       \/ SetAxis \/ AskRange \/ GiveRange \/ LoopEnds
  BY DEF CopyABSOutputEvents, SetRange
<1> HIDE DEF AskTypes, HasAxes, HasNoAxes, SetType, AskAxes, SetAxis,
             AskRange, GiveRange, LoopEnds
<1> QED BY <1>8, <1>9, <1>10, <1>11, <1>12, <1>14, <1>15, <1>16, <1>17, <1>18

\* Every step of the touchpad worker adds what it is for.
LEMMA TouchpadStep ==
  ASSUME Typed, region \in Rectangle, RunTouchpad,
         ButtonsEnabled(at["touchpad"], turn["touchpad"], device["touchpad"]),
         AxesEnabled(at["touchpad"], turn["touchpad"], device["touchpad"])
  PROVE  /\ OnlyOf("touchpad")
         /\ turn' \in [Both -> Nat \ {0}] /\ turn'["keyboard"] = turn["keyboard"]
         /\ ButtonsEnabled(at'["touchpad"], turn'["touchpad"], device'["touchpad"])
         /\ AxesEnabled(at'["touchpad"], turn'["touchpad"], device'["touchpad"])
<1> DEFINE w == "touchpad"
<1>1. CASE CreateUinputFD(w, "EnableEventType") \/ EnableButtons
  <2>1. AxesEnabled(at'[w], turn'[w], device'[w])
    BY <1>1, ButtonStep DEF AxesEnabled, AxesKnown, AxisLoop, Finish
  <2> QED BY <1>1, <2>1, ButtonStep
<1>2. CASE CopyABSOutputEvents(w, PadWidth(config.rotation, region),
                               PadHeight(config.rotation, region))
  BY <1>2, CopyStep
<1>3. CASE FinalizeUinputCreation(w)
  <2> DEFINE d == device[w]
             e == device'[w]
  <2>1. /\ at[w] \in {"UI_DEV_SETUP", "UI_DEV_CREATE"} /\ UNCHANGED turn
        /\ OnlyOf(w) /\ w \in Both /\ "keyboard" \in Both \ {w}
        /\ \/ Failed(w)
           \/ at'[w] = "UI_DEV_CREATE" /\ Grows(w)
           \/ at'[w] = "Consume" /\ Grows(w) /\ e.created
    BY <1>3, FinalOutcome DEF Both
  <2>2. turn' \in [Both -> Nat \ {0}] /\ turn'["keyboard"] = turn["keyboard"]
    BY <2>1, NextTurn
  <2>3. CASE Failed(w)
    BY <2>1, <2>2, <2>3
       DEF Failed, ButtonsEnabled, AxesEnabled, ButtonsDone, AxesKnown, AxisLoop, Finish
  <2>4. CASE ~Failed(w)
    <3>1. at[w] \in ButtonsDone /\ at'[w] \in ButtonsDone
      BY <2>1, <2>4 DEF ButtonsDone, AxesKnown, Finish
    <3>2. ButtonsEnabled(at'[w], turn'[w], e)
      BY <2>1, <2>4, <3>1, ButtonsStay DEF Grows
    <3>3. /\ "EV_ABS" \in source.types /\ "EV_ABS" \in d.types
          /\ \A i \in DOMAIN source.axes : AxisDone(d, i)
      BY <2>1 DEF AxesEnabled, AxesKnown, Finish
    <3>4. \A i \in DOMAIN source.axes : AxisDone(e, i)
      BY <2>1, <2>4, <3>3, AxisStays
    <3>5. "EV_ABS" \in e.types
      BY <2>1, <2>4, <3>3 DEF Grows
    <3>6. AxesEnabled(at'[w], turn'[w], e)
      BY <2>1, <2>4, <3>3, <3>4, <3>5 DEF AxesEnabled, AxesKnown, AxisLoop, Finish
    <3> QED BY <2>1, <2>2, <3>2, <3>6
  <2> QED BY <2>3, <2>4
<1> QED BY <1>1, <1>2, <1>3 DEF RunTouchpad

\* Both devices while the workers start, and that a touch finds them created.
UinputInv ==
  /\ Typed
  /\ KeysEnabled(at["keyboard"], turn["keyboard"], device["keyboard"])
  /\ ButtonsEnabled(at["touchpad"], turn["touchpad"], device["touchpad"])
  /\ AxesEnabled(at["touchpad"], turn["touchpad"], device["touchpad"])
  /\ ~Loaded => \A w \in Both : at[w] = "CreateUinputFD"
  /\ step = "touched" => \A w \in Both : at[w] = "Consume"

\* What was announced fits the files, as they are loaded before.
LEMMA DevicesStay ==
  ASSUME UinputInv, UNCHANGED uinput_vars,
         ~Loaded \/ UNCHANGED <<config, layout, region>>,
         Loaded => Loaded',
         step' = "touched" => \A w \in Both : at[w] = "Consume"
  PROVE  UinputInv'
<1>1. UNCHANGED <<source, device, at, turn>>
  BY DEF uinput_vars
<1>2. Typed' /\ (~Loaded' => \A w \in Both : at'[w] = "CreateUinputFD")
             /\ (step' = "touched" => \A w \in Both : at'[w] = "Consume")
  BY <1>1 DEF UinputInv, Typed
<1>3. CASE ~Loaded
  <2>1. /\ at["keyboard"] = "CreateUinputFD" /\ at["touchpad"] = "CreateUinputFD"
        /\ turn["keyboard"] = 1 /\ turn["touchpad"] = 1
    BY <1>3 DEF UinputInv, Both, KeysEnabled, ButtonsEnabled
  <2>2. KeysEnabled(at["keyboard"], turn["keyboard"], device["keyboard"])'
    BY <1>1, <2>1 DEF KeysEnabled, Finish
  <2>3. /\ ButtonsEnabled(at["touchpad"], turn["touchpad"], device["touchpad"])'
        /\ AxesEnabled(at["touchpad"], turn["touchpad"], device["touchpad"])'
    BY <1>1, <2>1
       DEF ButtonsEnabled, AxesEnabled, ButtonsDone, AxesKnown, AxisLoop, Finish
  <2> QED BY <1>2, <2>2, <2>3 DEF UinputInv
<1>4. CASE UNCHANGED <<config, layout, region>>
  BY <1>1, <1>2, <1>4 DEF UinputInv, KeysEnabled, ButtonsEnabled, AxesEnabled, AxisDone
<1> QED BY <1>3, <1>4

\* A step of one of the workers.
LEMMA CreateKeepsDevices ==
  ASSUME SurfaceInv, UinputInv, Create
  PROVE  UinputInv'
<1>1. /\ step = "devices" /\ Loaded /\ region \in Rectangle
      /\ UNCHANGED <<source, config, layout, region, step>>
  BY DEF Create, Loaded, SurfaceInv, file_vars, loaded_vars
<1>2. CASE RunKeyboard
  <2>1. /\ OnlyOf("keyboard") /\ turn' \in [Both -> Nat \ {0}]
        /\ turn'["touchpad"] = turn["touchpad"]
        /\ KeysEnabled(at'["keyboard"], turn'["keyboard"], device'["keyboard"])
    BY <1>2, KeyboardStep DEF UinputInv
  <2>2. device'["touchpad"] = device["touchpad"] /\ at'["touchpad"] = at["touchpad"]
    BY <2>1 DEF OnlyOf, Both
  <2>3. KeysEnabled(at["keyboard"], turn["keyboard"], device["keyboard"])'
    BY <1>1, <2>1 DEF KeysEnabled
  <2>4. /\ ButtonsEnabled(at["touchpad"], turn["touchpad"], device["touchpad"])'
        /\ AxesEnabled(at["touchpad"], turn["touchpad"], device["touchpad"])'
    BY <1>1, <2>1, <2>2 DEF UinputInv, ButtonsEnabled, AxesEnabled, AxisDone
  <2>5. Typed'
    BY <1>1, <2>1 DEF UinputInv, Typed, OnlyOf
  <2> QED BY <1>1, <2>3, <2>4, <2>5 DEF UinputInv, Loaded
<1>3. CASE RunTouchpad
  <2>1. /\ OnlyOf("touchpad") /\ turn' \in [Both -> Nat \ {0}]
        /\ turn'["keyboard"] = turn["keyboard"]
        /\ ButtonsEnabled(at'["touchpad"], turn'["touchpad"], device'["touchpad"])
        /\ AxesEnabled(at'["touchpad"], turn'["touchpad"], device'["touchpad"])
    BY <1>1, <1>3, TouchpadStep DEF UinputInv
  <2>2. device'["keyboard"] = device["keyboard"] /\ at'["keyboard"] = at["keyboard"]
    BY <2>1 DEF OnlyOf, Both
  <2>3. KeysEnabled(at["keyboard"], turn["keyboard"], device["keyboard"])'
    BY <1>1, <2>1, <2>2 DEF UinputInv, KeysEnabled
  <2>4. /\ ButtonsEnabled(at["touchpad"], turn["touchpad"], device["touchpad"])'
        /\ AxesEnabled(at["touchpad"], turn["touchpad"], device["touchpad"])'
    BY <1>1, <2>1 DEF ButtonsEnabled, AxesEnabled, AxisDone
  <2>5. Typed'
    BY <1>1, <2>1 DEF UinputInv, Typed, OnlyOf
  <2> QED BY <1>1, <2>3, <2>4, <2>5 DEF UinputInv, Loaded
<1> QED BY <1>2, <1>3 DEF Create

\* Both devices know what they are used for when the first finger lands.
LEMMA UinputInvHolds == Spec => []UinputInv
<1>1. Init => UinputInv
  <2> SUFFICES ASSUME Init
               PROVE  UinputInv
    OBVIOUS
  <2>1. /\ source \in Sources
        /\ device = [w \in Both |-> NoDevice]
        /\ at = [w \in Both |-> "CreateUinputFD"]
        /\ turn = [w \in Both |-> 1]
    BY DEF Init, UinputInit, Both
  <2>2. "CreateUinputFD" \in Names /\ 1 \in Nat \ {0}
    BY DEF Names
  <2>3. Typed
    BY <2>1, <2>2, NoDeviceIsDevice DEF Typed
  <2>4. \A w \in Both : at[w] = "CreateUinputFD" /\ turn[w] = 1
    BY <2>1
  <2>5. KeysEnabled(at["keyboard"], turn["keyboard"], device["keyboard"])
    BY <2>4 DEF Both, KeysEnabled, Finish
  <2>6. /\ ButtonsEnabled(at["touchpad"], turn["touchpad"], device["touchpad"])
        /\ AxesEnabled(at["touchpad"], turn["touchpad"], device["touchpad"])
    BY <2>4
       DEF Both, ButtonsEnabled, AxesEnabled, ButtonsDone, AxesKnown, AxisLoop, Finish
  <2>7. step = "options"
    BY DEF Init
  <2> QED BY <2>3, <2>4, <2>5, <2>6, <2>7 DEF UinputInv
<1>2. SurfaceInv /\ UinputInv /\ [Next]_vars => UinputInv'
  <2> SUFFICES ASSUME SurfaceInv, UinputInv, [Next]_vars
               PROVE  UinputInv'
    OBVIOUS
  <2>1. CASE Create
    BY <2>1, CreateKeepsDevices
  <2>2. CASE Parse \/ Start \/ LoadKey \/ LoadLayoutEnds \/ LoadPad
    <3>1. /\ UNCHANGED uinput_vars /\ ~Loaded /\ step' # "touched"
      BY <2>2 DEF Parse, Start, LoadKey, LoadLayoutEnds, LoadPad, Loaded
    <3> QED BY <3>1, DevicesStay
  <2>3. CASE Touch
    <3>1. /\ UNCHANGED uinput_vars /\ UNCHANGED <<config, layout, region>> /\ Loaded'
      BY <2>3 DEF Touch, Loaded, file_vars, loaded_vars
    <3>2. \A w \in Both : at[w] = "Consume"
      BY <2>3 DEF Touch, UinputInv, Typed
    <3> QED BY <3>1, <3>2, DevicesStay
  <2>4. CASE UNCHANGED vars
    <3>1. /\ UNCHANGED uinput_vars /\ UNCHANGED <<config, layout, region, step>>
      BY <2>4 DEF vars, file_vars, loaded_vars
    <3>2. Loaded' = Loaded /\ (step' = "touched" => \A w \in Both : at[w] = "Consume")
      BY <3>1 DEF Loaded, UinputInv
    <3> QED BY <3>1, <3>2, DevicesStay
  <2> QED BY <2>1, <2>2, <2>3, <2>4 DEF Next
<1> QED BY <1>1, <1>2, SurfaceInvHolds, PTL DEF Spec

\* The kernel passes on what the workers send for a touch, for every layout,
\* touch screen, sensor and rectangle, and whichever calls fail before: the codes
\* of every key, the five buttons, the slot and its tracking id, and the values
\* of every axis that is passed through, in the range they were announced with.
THEOREM NothingIsDropped == Spec => []EventsArePassedOn
<1>1. SurfaceInv /\ UinputInv => EventsArePassedOn
  <2> SUFFICES ASSUME SurfaceInv, UinputInv, Touched
               PROVE  EventsArePassedOn
    BY DEF EventsArePassedOn
  <2> DEFINE k == device["keyboard"]
             d == device["touchpad"]
             width == PadWidth(config.rotation, region)
             height == PadHeight(config.rotation, region)
  <2>1. /\ step = "touched" /\ touch[1] \in Int /\ touch[2] \in Int
        /\ region \in Rectangle /\ config.rotation \in Rotations
    BY DEF SurfaceInv, Loaded, HardwareConfig
  <2>2. at["keyboard"] = "Consume" /\ at["touchpad"] = "Consume"
    BY <2>1 DEF UinputInv, Both
  <2>3. ASSUME NEW i \in KeysTouched, NEW code \in CodesOf(layout[i])
        PROVE  PassesKey(k, code)
    <3>1. i \in DOMAIN layout
      BY KeysTouchedAreInLayout
    <3>2. k.created /\ "EV_KEY" \in k.types /\ CodesOf(layout[i]) \subseteq k.keys
      BY <2>2, <3>1 DEF UinputInv, KeysEnabled, Finish
    <3> QED BY <2>3, <3>2 DEF PassesKey
  <2>4. d.created /\ "EV_ABS" \in d.types /\ "EV_ABS" \in source.types
    BY <2>2 DEF UinputInv, AxesEnabled, AxesKnown, Finish
  <2>5. ASSUME NEW i \in DOMAIN TouchpadButtons
        PROVE  PassesKey(d, TouchpadButtons[i])
    BY <2>2, <2>4 DEF UinputInv, ButtonsEnabled, ButtonsDone, AxesKnown, Finish, PassesKey
  <2>6. \A i \in DOMAIN source.axes : source.axes[i] \in Axis /\ AxisDone(d, i)
    BY <2>2, AxesAreTyped DEF UinputInv, AxesEnabled, Finish
  <2>7. ASSUME NEW i \in DOMAIN source.axes,
               NEW v \in AbsInfo(source.axes[i], width, height).minimum
                         .. AbsInfo(source.axes[i], width, height).maximum
        PROVE  PassesAbs(d, source.axes[i].code, v)
    BY <2>4, <2>6, <2>7 DEF AxisDone, PassesAbs
  <2>8. \A code \in {"ABS_MT_TRACKING_ID", "ABS_MT_POSITION_X", "ABS_MT_POSITION_Y"} :
          \E i \in DOMAIN source.axes : source.axes[i].code = code
    <3>1. source \in Sources
      BY DEF UinputInv, Typed
    <3>2. "EV_ABS" \in source.types =>
            \A code \in {"ABS_MT_SLOT", "ABS_MT_TRACKING_ID",
                         "ABS_MT_POSITION_X", "ABS_MT_POSITION_Y"} :
              \E i \in DOMAIN source.axes : source.axes[i].code = code
      BY <3>1, SourceAssumption
    <3> QED BY <2>4, <3>2
  <2>9. PassesAbs(d, "ABS_MT_TRACKING_ID", -1)
    <3>1. PICK i \in DOMAIN source.axes : source.axes[i].code = "ABS_MT_TRACKING_ID"
      BY <2>8
    <3> QED BY <2>4, <2>6, <3>1 DEF AxisDone, PassesAbs
  <2>10. ASSUME NEW v \in 0 .. width
         PROVE  PassesAbs(d, "ABS_MT_POSITION_X", v)
    <3>1. PICK i \in DOMAIN source.axes : source.axes[i].code = "ABS_MT_POSITION_X"
      BY <2>8
    <3>2. AbsInfo(source.axes[i], width, height) = [minimum |-> 0, maximum |-> width]
      BY <3>1 DEF AbsInfo
    <3> QED BY <2>7, <2>10, <3>1, <3>2
  <2>11. ASSUME NEW v \in 0 .. height
         PROVE  PassesAbs(d, "ABS_MT_POSITION_Y", v)
    <3>1. PICK i \in DOMAIN source.axes : source.axes[i].code = "ABS_MT_POSITION_Y"
      BY <2>8
    <3>2. AbsInfo(source.axes[i], width, height) = [minimum |-> 0, maximum |-> height]
      BY <3>1 DEF AbsInfo
    <3> QED BY <2>7, <2>11, <3>1, <3>2
  <2>12. ASSUME NEW i \in DOMAIN source.axes, NEW v \in Readings(source.axes[i]),
                source.axes[i].code \notin {"ABS_X", "ABS_Y", "ABS_MT_POSITION_X",
                                            "ABS_MT_POSITION_Y"}
         PROVE  PassesAbs(d, source.axes[i].code, v)
    <3>1. v \in source.axes[i].minimum .. source.axes[i].maximum
      BY <2>12 DEF Readings
    <3>2. AbsInfo(source.axes[i], width, height)
            = [minimum |-> source.axes[i].minimum, maximum |-> source.axes[i].maximum]
      BY <2>12 DEF AbsInfo
    <3> QED BY <2>7, <3>1, <3>2
  <2>13. ASSUME OnPad, NEW i \in DOMAIN source.axes, NEW v \in Readings(source.axes[i]),
                IsSupportedForTouchpads(source.axes[i].code)
         PROVE  PassesAbs(d, PadAxis(config.rotation, source.axes[i].code),
                          PadValue(config.rotation, region, source.axes[i].code, v))
    <3> DEFINE code == source.axes[i].code
               px == PadValue(config.rotation, region, "ABS_MT_POSITION_X", touch[1])
               py == PadValue(config.rotation, region, "ABS_MT_POSITION_Y", touch[2])
               p == ToPad(config.rotation, region, touch[1], touch[2])
    <3>1. p[1] \in 0 .. width /\ p[2] \in 0 .. height
      BY <2>1, <2>13, ToPadInRange DEF OnPad
    <3>2. p = IF config.rotation \in {0, 180} THEN <<px, py>> ELSE <<py, px>>
      BY DEF ToPad, PadAxis
    <3> HIDE DEF px, py, p, width, height, d
    <3>3. CASE code = "ABS_MT_POSITION_X"
      <4>1. PadValue(config.rotation, region, code, v) = px
        BY <2>13, <3>3 DEF Readings, px
      <4>2. PadAxis(config.rotation, code) =
              IF config.rotation \in {0, 180} THEN "ABS_MT_POSITION_X"
                                              ELSE "ABS_MT_POSITION_Y"
        BY <3>3 DEF PadAxis
      <4> QED BY <2>10, <2>11, <3>1, <3>2, <4>1, <4>2
    <3>4. CASE code = "ABS_MT_POSITION_Y"
      <4>1. PadValue(config.rotation, region, code, v) = py
        BY <2>13, <3>4 DEF Readings, py
      <4>2. PadAxis(config.rotation, code) =
              IF config.rotation \in {0, 180} THEN "ABS_MT_POSITION_Y"
                                              ELSE "ABS_MT_POSITION_X"
        BY <3>4 DEF PadAxis
      <4> QED BY <2>10, <2>11, <3>1, <3>2, <4>1, <4>2
    <3>5. CASE code \notin {"ABS_MT_POSITION_X", "ABS_MT_POSITION_Y"}
      <4>1. /\ PadAxis(config.rotation, code) = code
            /\ PadValue(config.rotation, region, code, v) = v
        BY <3>5 DEF PadAxis, PadValue
      <4>2. code \notin {"ABS_X", "ABS_Y"}
        BY <2>13 DEF IsSupportedForTouchpads
      <4> QED BY <2>12, <3>5, <4>1, <4>2
    <3> QED BY <3>3, <3>4, <3>5
  <2>14. ASSUME NEW i \in DOMAIN source.axes, NEW ev \in SyncTouchEvents(source.axes[i])
         PROVE  PassesAbs(d, ev.code, ev.value)
    <3> DEFINE axis == source.axes[i]
    <3>1. CASE /\ axis.code \in {"ABS_MT_SLOT", "ABS_MT_TRACKING_ID"}
               /\ \E v \in Readings(axis) : ev = [code |-> axis.code, value |-> v]
      BY <2>12, <3>1
    <3>2. CASE ev = [code |-> "ABS_MT_TRACKING_ID", value |-> -1]
      BY <2>9, <3>2
    <3>3. CASE OnPad /\ ev \in PassEventsThrough(axis)
      <4>1. /\ IsSupportedForTouchpads(axis.code)
            /\ \E v \in Readings(axis) :
                 ev = [code |-> PadAxis(config.rotation, axis.code),
                       value |-> PadValue(config.rotation, region, axis.code, v)]
        BY <3>3 DEF PassEventsThrough
      <4> QED BY <2>13, <3>3, <4>1
    <3> QED BY <2>14, <3>1, <3>2, <3>3 DEF SyncTouchEvents
  <2> QED BY <2>3, <2>5, <2>14 DEF EventsArePassedOn
<1> QED BY <1>1, SurfaceInvHolds, UinputInvHolds, PTL

-----------------------------------------------------------------------------
(***************************************************************************)
(* The motors.                                                             *)
(***************************************************************************)
Asked == Effect(options.haptic_magnitude, options.haptic_duration_ms)

\* What the constructor leaves behind when the uploads returned id.
Registered(id) ==
  \A s \in Sides :
    /\ id[s] # -1 => s \in opened
    /\ effects[s] = [i \in {id[s]} \ {-1} |-> Asked]
    /\ fflib[s] = IF id[s] >= 0 THEN [e \in {"FingerDown"} |-> id[s]] ELSE <<>>

\* The effects are there from the start on, and nothing is played before the
\* finger lands.
HapticsInv ==
  /\ step \notin {"options", "haptics"} =>
       \E id \in [Sides -> EffectIds \cup {-1}] : Registered(id)
  /\ step # "touched" => touch = <<>> /\ played = <<>>
  /\ KeysAreFelt

\* The empty list has no index.
LEMMA EmptyDomain == DOMAIN <<>> = {}
OBVIOUS

\* A touch on a key plays the effect of the motor on its side, if there is one.
LEMMA TouchIsFelt ==
  ASSUME HapticsInv, Touch
  PROVE  KeysAreFelt'
<1> DEFINE motor == Motor(config, touch'[1], touch'[2])
           on == KeysAt(touch'[1], touch'[2]) # {}
<1>1. /\ step = "devices" /\ touch' # <<>>
      /\ UNCHANGED <<options, config, layout, opened, effects, fflib>>
  BY DEF Touch, EventTriggered, haptic_vars, option_vars, file_vars, loaded_vars
<1>2. PICK id \in [Sides -> EffectIds \cup {-1}] : Registered(id)
  BY <1>1 DEF HapticsInv
<1>3. played = <<>>
  BY <1>1 DEF HapticsInv
<1>4. /\ motor \in Sides
      /\ Motor(config, touch[1], touch[2])' = motor
      /\ OnKey' <=> on
      /\ Effect(options.haptic_magnitude, options.haptic_duration_ms)' = Asked
      /\ Touched'
  BY <1>1 DEF Motor, Sides, OnKey, KeysTouched, KeysAt, Touched, Asked
<1>5. /\ on => PlayEffectOfEvent("FingerDown", motor)
      /\ ~on => played' = played
  BY DEF Touch, EventTriggered, haptic_vars
<1> HIDE DEF motor, on
<1>6. /\ id[motor] # -1 => motor \in opened
      /\ effects[motor] = [i \in {id[motor]} \ {-1} |-> Asked]
      /\ fflib[motor] = IF id[motor] >= 0 THEN [e \in {"FingerDown"} |-> id[motor]]
                                          ELSE <<>>
  BY <1>2, <1>4 DEF Registered
<1>10. id[motor] \in EffectIds \cup {-1}
  BY <1>4
<1>7. CASE on /\ effects[motor] # <<>>
  <2>1. id[motor] # -1
    <3> SUFFICES ASSUME id[motor] = -1
                 PROVE  effects[motor] = <<>>
      BY <1>7
    <3>1. effects[motor] = [i \in {} |-> Asked]
      BY <1>6
    <3> QED BY <3>1
  <2>2. id[motor] \in Nat /\ id[motor] >= 0 /\ motor \in opened
    <3>1. id[motor] \in Nat
      BY <1>10, <2>1, EffectAssumption
    <3> QED BY <1>6, <2>1, <3>1
  <2>3. fflib[motor] = [e \in {"FingerDown"} |-> id[motor]]
    BY <1>6, <2>2
  <2>4. played' = Append(played, [side |-> motor, code |-> id[motor]])
    BY <1>5, <1>7, <2>2, <2>3 DEF PlayEffectOfEvent, PlayEffect
  <2>5. played' = <<[side |-> motor, code |-> id[motor]]>>
    BY <1>3, <2>4
  <2>6. /\ id[motor] \in DOMAIN effects[motor]
        /\ effects[motor][id[motor]] = Asked
    BY <1>6, <2>1
  <2> QED BY <1>1, <1>4, <1>7, <2>5, <2>6 DEF KeysAreFelt
<1>8. CASE on /\ effects[motor] = <<>>
  <2>1. id[motor] = -1
    <3>1. DOMAIN effects[motor] = {}
      BY <1>8, EmptyDomain
    <3>2. DOMAIN effects[motor] = {id[motor]} \ {-1}
      BY <1>6
    <3> QED BY <3>1, <3>2
  <2>2. DOMAIN fflib[motor] = {}
    BY <1>6, <2>1, EmptyDomain
  <2>3. played' = <<>>
    BY <1>3, <1>5, <1>8, <2>2 DEF PlayEffectOfEvent
  <2> QED BY <1>1, <1>4, <1>8, <2>3 DEF KeysAreFelt
<1>9. CASE ~on
  BY <1>1, <1>3, <1>4, <1>5, <1>9 DEF KeysAreFelt
<1> QED BY <1>7, <1>8, <1>9

\* The constructor of TouchFFManager.
LEMMA StartRegisters ==
  ASSUME Start
  PROVE  \E id \in [Sides -> EffectIds \cup {-1}] : Registered(id)'
<1> DEFINE m == options.haptic_magnitude
           d == options.haptic_duration_ms
<1>1. PICK id \in [Sides -> EffectIds \cup {-1}] :
        /\ \A s \in Sides : id[s] \in UploadEffect(s, m, d)
        /\ effects' = [s \in Sides |-> [i \in {id[s]} \ {-1} |-> Effect(m, d)]]
        /\ RegisterFF(id)
  BY DEF Start, StartHaptics
<1>2. Asked' = Effect(m, d)
  BY DEF Start, option_vars, Asked
<1>3. ASSUME NEW s \in Sides, id[s] # -1
      PROVE  s \in opened'
  BY <1>1, <1>3 DEF UploadEffect
<1>4. \A s \in Sides : effects'[s] = [i \in {id[s]} \ {-1} |-> Asked']
  BY <1>1, <1>2
<1>5. \A s \in Sides :
        fflib'[s] = IF id[s] >= 0 THEN [e \in {"FingerDown"} |-> id[s]] ELSE <<>>
  BY <1>1 DEF RegisterFF
<1>6. Registered(id)'
  BY <1>3, <1>4, <1>5 DEF Registered
<1> QED BY <1>6

\* A step that leaves the motors alone leaves what is known of them.
LEMMA MotorsStay ==
  ASSUME HapticsInv, UNCHANGED <<options, config, haptic_vars, touch>>,
         UNCHANGED layout \/ touch = <<>>,
         step' \in {"options", "haptics"} \/ step \notin {"options", "haptics"},
         step = "touched" => step' = "touched"
  PROVE  HapticsInv'
<1>1. UNCHANGED <<options, config, opened, effects, fflib, played, touch>>
  BY DEF haptic_vars
<1>2. \A id : Registered(id)' <=> Registered(id)
  BY <1>1 DEF Registered, Asked
<1>3. step' \notin {"options", "haptics"} =>
        \E id \in [Sides -> EffectIds \cup {-1}] : Registered(id)'
  BY <1>2 DEF HapticsInv
<1>4. CASE touch = <<>>
  BY <1>1, <1>3, <1>4 DEF HapticsInv, KeysAreFelt, Touched
<1>5. CASE touch # <<>>
  <2>1. KeysAreFelt' <=> KeysAreFelt
    BY <1>1, <1>5 DEF KeysAreFelt, Touched, OnKey, KeysTouched, KeysAt
  <2> QED BY <1>1, <1>3, <2>1 DEF HapticsInv
<1> QED BY <1>4, <1>5

\* A finger that lands on a key plays the motor of its half, once, with the
\* effect the command line asks for, if that motor took it; one beside the keys
\* plays none.  For every number of motors, ids of effects and their failures.
THEOREM KeysFelt == Spec => []KeysAreFelt
<1>1. Init => HapticsInv
  BY DEF Init, HapticsInit, HapticsInv, KeysAreFelt, Touched
<1>2. HapticsInv /\ [Next]_vars => HapticsInv'
  <2> SUFFICES ASSUME HapticsInv, [Next]_vars
               PROVE  HapticsInv'
    OBVIOUS
  <2>1. CASE Parse
    <3>1. /\ step = "options" /\ step' \in {"options", "haptics"}
          /\ touch' = <<>> /\ played' = <<>>
      BY <2>1 DEF Parse, HapticsInv, haptic_vars
    <3> QED BY <3>1 DEF HapticsInv, KeysAreFelt, Touched
  <2>2. CASE Start
    <3>1. /\ step' = "layout" /\ touch' = <<>> /\ played' = <<>>
      BY <2>2 DEF Start, StartHaptics, HapticsInv
    <3> QED BY <2>2, <3>1, StartRegisters DEF HapticsInv, KeysAreFelt, Touched
  <2>3. CASE LoadKey \/ LoadLayoutEnds \/ LoadPad
    <3>1. /\ step \in {"layout", "pad"} /\ touch = <<>>
          /\ step' \in {"layout", "pad", "devices", "failed"}
      BY <2>3 DEF LoadKey, LoadLayoutEnds, LoadPad, HapticsInv
    <3>2. UNCHANGED <<options, config, haptic_vars, touch>>
      BY <2>3 DEF LoadKey, LoadLayoutEnds, LoadPad, option_vars, file_vars
    <3> QED BY <3>1, <3>2, MotorsStay
  <2>4. CASE Create
    <3>1. step = "devices" /\ step' # "touched"
      BY <2>4 DEF Create
    <3>2. UNCHANGED <<options, config, haptic_vars, touch, layout>>
      BY <2>4 DEF Create, option_vars, file_vars, loaded_vars
    <3> QED BY <3>1, <3>2, MotorsStay
  <2>5. CASE Touch
    <3>1. /\ step = "devices" /\ step' = "touched"
          /\ UNCHANGED <<options, opened, effects, fflib>>
      BY <2>5 DEF Touch, EventTriggered, haptic_vars, option_vars
    <3>2. \A id : Registered(id)' <=> Registered(id)
      BY <3>1 DEF Registered, Asked
    <3> QED BY <2>5, <3>1, <3>2, TouchIsFelt DEF HapticsInv
  <2>6. CASE UNCHANGED vars
    <3>1. UNCHANGED <<options, config, haptic_vars, touch, layout, step>>
      BY <2>6 DEF vars, option_vars, file_vars, loaded_vars
    <3> QED BY <3>1, MotorsStay
  <2> QED BY <2>1, <2>2, <2>3, <2>4, <2>5, <2>6 DEF Next
<1>3. HapticsInv => KeysAreFelt
  BY DEF HapticsInv
<1> QED BY <1>1, <1>2, <1>3, PTL DEF Spec

-----------------------------------------------------------------------------
\* For every sensor, rotation and layout: a key that the layout has left of
\* (above) another one is left of (above) it for the touchpad and the motors.
THEOREM RotationsAgreeHolds == Spec => []RotationsAgree
<1>1. SurfaceInv => RotationsAgree
  <2> SUFFICES ASSUME SurfaceInv, NEW i \in KeysTouched, NEW j \in DOMAIN layout,
                      NEW u \in layout[j].box.x1 .. layout[j].box.x2 - 1,
                      NEW v \in layout[j].box.y1 .. layout[j].box.y2 - 1
               PROVE  /\ layout_csv[i].box.x2 <= layout_csv[j].box.x1 =>
                           /\ ToPad(config.rotation, region, touch[1], touch[2])[1]
                                < ToPad(config.rotation, region, u, v)[1]
                           /\ HapticPosition(config, touch[1], touch[2])
                                < HapticPosition(config, u, v)
                      /\ layout_csv[i].box.y2 <= layout_csv[j].box.y1 =>
                           ToPad(config.rotation, region, touch[1], touch[2])[2]
                             < ToPad(config.rotation, region, u, v)[2]
    BY DEF RotationsAgree
  <2> DEFINE key   == layout_csv[i].box
             other == layout_csv[j].box
  <2>1. /\ key \in Rectangle /\ touch[1] \in Int /\ touch[2] \in Int
        /\ InKey(config, key, touch[1], touch[2]) /\ step = "touched"
    BY KeysTouchedAreInLayout
  <2>2. /\ config \in Configs /\ HardwareConfig(config) /\ region \in Rectangle
    BY <2>1 DEF SurfaceInv, Loaded
  <2>3. j \in DOMAIN layout_csv /\ layout[j] = Key(layout_csv[j])
    BY LayoutIsFromFile
  <2>4. other \in Rectangle
    BY <2>3, RowBecomesKey DEF SurfaceInv
  <2>5. layout[j].box = KeyBox(config, other) /\ KeyBox(config, other) \in Rectangle
    BY <2>2, <2>3, <2>4, TurnedIsBox, PitchIsBox DEF KeyBox, Key
  <2>6. u \in Int /\ v \in Int /\ InKey(config, other, u, v)
    BY <2>5 DEF InKey, KeyContains, Rectangle
  <2> HIDE DEF key, other
  <2>7. ASSUME key.x2 <= other.x1
        PROVE  HapticPosition(config, touch[1], touch[2]) < HapticPosition(config, u, v)
    BY <2>1, <2>2, <2>4, <2>6, <2>7, ColumnsInOrder
  <2>8. ASSUME key.y2 <= other.y1
        PROVE  ToPad(config.rotation, region, touch[1], touch[2])[2]
                 < ToPad(config.rotation, region, u, v)[2]
    BY <2>1, <2>2, <2>4, <2>6, <2>8, RowsInOrder
  <2> QED BY <2>1, <2>2, <2>6, <2>7, <2>8, ColumnsOfPad DEF key, other
<1> QED BY <1>1, SurfaceInvHolds, PTL

\* For every sensor, rotation, margin and layout: a key in the left (right) half
\* of the keyboard plays no motor but the left (right) one.
THEOREM MotorsAreSided == Spec => []MotorIsOnTheSideOfTheKey
<1>1. SurfaceInv /\ KeysAreFelt => MotorIsOnTheSideOfTheKey
  <2> SUFFICES ASSUME SurfaceInv, KeysAreFelt, NEW n \in KeysTouched
               PROVE  LET key    == layout_csv[n].box
                          width  == WidthSeen(config)
                          middle == (HapticWidth(config) \div 2) * width
                          left   == Left(config, key) * HapticWidth(config)
                          right  == Right(config, key) * HapticWidth(config)
                          Only(s) == \A i \in DOMAIN played : played[i].side = s
                      IN  /\ right + width <= middle => Only("left")
                          /\ middle <= left => Only("right")
    BY DEF MotorIsOnTheSideOfTheKey, WidthSeen, Left, Right
  <2> DEFINE key    == layout_csv[n].box
             width  == WidthSeen(config)
             span   == HapticWidth(config)
             middle == span \div 2
             left   == Left(config, key) * span
             right  == Right(config, key) * span
             pos    == HapticPosition(config, touch[1], touch[2])
             motor  == Motor(config, touch[1], touch[2])
  <2>1. /\ key \in Rectangle /\ touch[1] \in Int /\ touch[2] \in Int
        /\ InKey(config, key, touch[1], touch[2]) /\ step = "touched"
    BY KeysTouchedAreInLayout
  <2>2. config \in Configs /\ HardwareConfig(config)
    BY DEF SurfaceInv
  <2>3. /\ pos \in Int /\ left - width < pos * width /\ pos * width < right + width
    BY <2>1, <2>2, HapticPositionInKey
  <2>4. /\ width \in Nat \ {0} /\ span \in Nat /\ middle \in Nat
        /\ Left(config, key) \in Int /\ Right(config, key) \in Int
    BY <2>1, <2>2, SensorFacts, DivBounds
       DEF WidthSeen, HapticWidth, Left, Right
  <2>5. motor = IF pos < middle THEN "left" ELSE "right"
    BY DEF Motor
  <2>6. \A i \in DOMAIN played : played[i].side = motor
    BY EmptyDomain DEF KeysAreFelt, OnKey, KeysTouched
  <2> HIDE DEF key, width, span, middle, left, right, pos, motor
  <2>7. /\ left \in Int /\ right \in Int /\ middle * width \in Int
        /\ pos * width \in Int
    BY <2>3, <2>4 DEF left, right
  <2>8. ASSUME right + width <= middle * width
        PROVE  motor = "left"
    <3>1. pos * width < middle * width
      BY <2>3, <2>4, <2>7, <2>8
    <3> QED BY <2>3, <2>4, <2>5, <3>1, ProductOrder
  <2>9. ASSUME middle * width <= left
        PROVE  motor = "right"
    <3>1. (middle - 1) * width = middle * width - 1 * width
      BY <2>4, ScaleDistributes
    <3>2. (middle - 1) * width < pos * width
      BY <2>3, <2>4, <2>7, <2>9, <3>1
    <3>3. middle - 1 < pos
      BY <2>3, <2>4, <3>2, ProductOrder
    <3> QED BY <2>3, <2>4, <2>5, <3>3
  <2> QED BY <2>6, <2>8, <2>9 DEF key, width, span, middle, left, right
<1> QED BY <1>1, SurfaceInvHolds, KeysFelt, PTL
=============================================================================
