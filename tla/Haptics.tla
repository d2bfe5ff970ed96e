------------------------------ MODULE Haptics -------------------------------
(***************************************************************************)
(* The two vibration motors: class FFDriver and class TouchFFManager,      *)
(* src/src/haptics/.  A motor may be missing, refuse the effect or give it *)
(* any id.  The gain and a write() that fails are only logged.             *)
(***************************************************************************)
EXTENDS Geometry, Sequences

CONSTANT EffectIds  \* the ids the kernel gives to effects
ASSUME EffectAssumption == EffectIds \subseteq Nat

Sides == {"left", "right"}

VARIABLES
  opened,   \* the motors whose fd_ is not -1
  effects,  \* effects[s]: the effects the device of motor s holds, by id
  fflib,    \* fflib[s]: left_driver_fflib_ and right_driver_fflib_
  played    \* history: the play events written to motors

haptic_vars == <<opened, effects, fflib, played>>

HapticsInit ==
  /\ opened = {}
  /\ effects = [s \in Sides |-> <<>>]
  /\ fflib = [s \in Sides |-> <<>>]
  /\ played = <<>>

kMaxDriverInput == 65535

\* FFDriver::Init() of both drivers.
OpenMotors == opened' \in SUBSET Sides

EffectIsValid(magnitude, time_ms) ==
  /\ magnitude.finite /\ magnitude.hundredths \in 0 .. 100
  /\ time_ms > 0 /\ time_ms <= 1000

\* What the device is given.
Effect(magnitude, time_ms) ==
  [strong_magnitude |-> (magnitude.hundredths * kMaxDriverInput) \div 100,
   length |-> time_ms]

\* What UploadEffect() may return.
UploadEffect(s, magnitude, time_ms) ==
  {-1} \cup IF s \in opened' /\ EffectIsValid(magnitude, time_ms)
            THEN EffectIds ELSE {}

\* A mistake to tell apart: both motors get the id of the left one.
RegisterFFMutant(id) ==
  fflib' = [s \in Sides |-> IF id["left"] >= 0
                            THEN [e \in {"FingerDown"} |-> id["left"]] ELSE <<>>]

\* RegisterFF(): an upload that failed leaves no entry.
RegisterFF(id) ==
  fflib' = [s \in Sides |-> IF id[s] >= 0 THEN [e \in {"FingerDown"} |-> id[s]]
                                         ELSE <<>>]

\* What the constructor of TouchFFManager does not throw at.
ManagerAccepts(c, magnitude, duration_ms) ==
  /\ c.res_x > 0 /\ c.res_y > 0
  /\ magnitude.finite /\ magnitude.hundredths \in 0 .. 100
  /\ duration_ms \in 1 .. 1000
  /\ c.rotation \in Rotations

\* The constructor.
StartHaptics(c, magnitude, duration_ms) ==
  /\ ManagerAccepts(c, magnitude, duration_ms)
  /\ OpenMotors
  /\ \E id \in [Sides -> EffectIds \cup {-1}] :
       /\ \A s \in Sides : id[s] \in UploadEffect(s, magnitude, duration_ms)
       /\ effects' = [s \in Sides |-> [i \in {id[s]} \ {-1} |->
                                         Effect(magnitude, duration_ms)]]
       /\ RegisterFF(id)
  /\ UNCHANGED played

PlayEffect(s, id) ==
  played' = IF s \in opened /\ id >= 0
            THEN Append(played, [side |-> s, code |-> id]) ELSE played

PlayEffectOfEvent(event, s) ==
  IF event \in DOMAIN fflib[s] THEN PlayEffect(s, fflib[s][event])
                               ELSE UNCHANGED played

EventTriggered(c, event, x, y) ==
  /\ PlayEffectOfEvent(event, Motor(c, x, y))
  /\ UNCHANGED <<opened, effects, fflib>>
=============================================================================
