------------------------------ MODULE Surface -------------------------------
(***************************************************************************)
(* Both workers start with a command line and a configuration and create   *)
(* their devices, then the user touches the glass: do the keys, the        *)
(* touchpad and the motors agree on what is left, right, up and down, and  *)
(* does the kernel pass on what is sent?                                   *)
(***************************************************************************)
EXTENDS Options, Haptics, UinputDevice

CONSTANTS
  Configs,  \* hardware configurations
  Layouts,  \* files layout.csv, as sequences of rows
  Pads      \* files touchpad.csv, as sequences of rows

\* x2 is x + width; a row whose numbers are not all finite says so.
Rectangle == [x1 : Int, x2 : Int, y1 : Int, y2 : Int]

ASSUME ConfigAssumption ==
  Configs \subseteq [res_x : Int, res_y : Int, width : Int, height : Int,
                     left_margin : Int, top_margin : Int, rotation : Int]

ASSUME FileAssumption ==
  /\ Layouts \subseteq Seq([finite : BOOLEAN, box : Rectangle,
                           code : Int, code_fn : Int])
  /\ Pads \subseteq Seq([finite : BOOLEAN, box : Rectangle])

VARIABLES
  config,        \* hardware.csv
  layout_csv,
  touchpad_csv,
  step,          \* how far the start is
  layout,        \* layout_: the keys as they are loaded
  region,        \* xmin_, xmax_, ymin_ and ymax_
  touch          \* the point of the sensor where a finger landed

file_vars == <<config, layout_csv, touchpad_csv>>
loaded_vars == <<layout, region>>
vars == <<option_vars, haptic_vars, uinput_vars, file_vars, loaded_vars, step, touch>>

Init ==
  /\ OptionsInit
  /\ HapticsInit
  /\ UinputInit
  /\ config \in {c \in Configs : HardwareConfig(c)}
  /\ layout_csv \in Layouts
  /\ touchpad_csv \in Pads
  /\ step = "options"
  /\ layout = <<>>
  /\ region = <<>>
  /\ touch = <<>>

\* main() goes on if the command line was parsed.
Parse ==
  /\ step = "options"
  /\ ParseOptions
  /\ step' = IF parsed' = "kSuccess" THEN "haptics" ELSE "options"
  /\ UNCHANGED <<haptic_vars, uinput_vars, file_vars, loaded_vars, touch>>

\* The first thing the keyboard worker constructs.
Start ==
  /\ step = "haptics"
  /\ StartHaptics(config, options.haptic_magnitude, options.haptic_duration_ms)
  /\ step' = "layout"
  /\ UNCHANGED <<option_vars, uinput_vars, file_vars, loaded_vars, touch>>
-----------------------------------------------------------------------------
KEY_MAX == 767

ProperBox(box) == box.x1 < box.x2 /\ box.y1 < box.y2

ValidKey(row) ==
  /\ row.finite /\ ProperBox(row.box)
  /\ row.code > 0 /\ row.code <= KEY_MAX
  /\ row.code_fn >= 0 /\ row.code_fn <= KEY_MAX

Key(row) == [box |-> KeyBox(config, row.box),
             event_code |-> row.code, event_code_fn |-> row.code_fn]

\* One turn of the loop over layout.csv; the constructor throws at a row that
\* is not a key and at one that has no sensor coordinate of its own.
LoadKey ==
  /\ step = "layout" /\ Len(layout) < Len(layout_csv)
  /\ LET row == layout_csv[Len(layout) + 1]
     IN  \/ /\ ValidKey(row) /\ ProperBox(Key(row).box)
            /\ layout' = Append(layout, Key(row))
            /\ UNCHANGED step
         \/ /\ ~ValidKey(row)
            /\ step' = "failed"
            /\ UNCHANGED layout
         \/ /\ ValidKey(row) /\ ~ProperBox(Key(row).box)
            /\ step' = "failed"
            /\ UNCHANGED layout
  /\ UNCHANGED <<option_vars, haptic_vars, uinput_vars, file_vars, region, touch>>

\* The constructor throws if there was no row.
LoadLayoutEnds ==
  /\ step = "layout" /\ Len(layout) = Len(layout_csv)
  /\ step' = IF layout = <<>> THEN "failed" ELSE "pad"
  /\ UNCHANGED <<option_vars, haptic_vars, uinput_vars, file_vars, loaded_vars, touch>>

\* The touchpad worker reads one row of its file.
LoadPad ==
  /\ step = "pad"
  /\ IF touchpad_csv # <<>> /\ touchpad_csv[1].finite /\ ProperBox(touchpad_csv[1].box)
     THEN region' = PadBox(config, touchpad_csv[1].box) /\ step' = "devices"
     ELSE step' = "failed" /\ UNCHANGED region
  /\ UNCHANGED <<option_vars, haptic_vars, uinput_vars, file_vars, layout, touch>>
-----------------------------------------------------------------------------
\* A mistake to tell apart: the loop ends before the last key.
EnableKeyMutant ==
  LET w == "keyboard"
  IN  /\ at[w] = "EnableKeyEvent"
      /\ IF turn[w] < Len(layout)
         THEN EnableKeyEvent(w, layout[turn[w]].event_code, "event_code_fn")
         ELSE GoTo(w, "UI_DEV_SETUP") /\ UNCHANGED device
      /\ UNCHANGED turn

EnableKey ==
  LET w == "keyboard"
  IN  /\ at[w] = "EnableKeyEvent"
      /\ IF turn[w] <= Len(layout)
         THEN EnableKeyEvent(w, layout[turn[w]].event_code, "event_code_fn")
         ELSE GoTo(w, "UI_DEV_SETUP") /\ UNCHANGED device
      /\ UNCHANGED turn

EnableKeyFn ==
  LET w == "keyboard"
      code == layout[turn[w]].event_code_fn
  IN  /\ at[w] = "event_code_fn"
      /\ IF code # 0 THEN EnableKeyEvent(w, code, "EnableKeyEvent")
                     ELSE GoTo(w, "EnableKeyEvent") /\ UNCHANGED device
      /\ turn' = [turn EXCEPT ![w] = @ + 1]

EnableKeyboardEvents ==
  \/ /\ at["keyboard"] = "EnableKeyboardEvents"
     /\ EnableEventType("keyboard", "EV_KEY", "EnableKeyEvent")
     /\ UNCHANGED turn
  \/ EnableKey
  \/ EnableKeyFn

RunKeyboard ==
  \/ CreateUinputFD("keyboard", "EnableKeyboardEvents")
  \/ EnableKeyboardEvents
  \/ FinalizeUinputCreation("keyboard")

TouchpadButtons == <<"BTN_TOUCH", "BTN_TOOL_FINGER", "BTN_TOOL_DOUBLETAP",
                     "BTN_TOOL_TRIPLETAP", "BTN_TOOL_QUADTAP">>

EnableButtons ==
  LET w == "touchpad"
  IN  \/ /\ at[w] = "EnableEventType"
         /\ EnableEventType(w, "EV_KEY", "EnableKeyEvent")
         /\ UNCHANGED turn
      \/ /\ at[w] = "EnableKeyEvent"
         /\ EnableKeyEvent(w, TouchpadButtons[turn[w]],
                           IF turn[w] < Len(TouchpadButtons) THEN "EnableKeyEvent"
                                                    ELSE "CopyABSOutputEvents")
         /\ turn' = [turn EXCEPT ![w] = @ + 1]

RunTouchpad ==
  \/ CreateUinputFD("touchpad", "EnableEventType")
  \/ EnableButtons
  \/ CopyABSOutputEvents("touchpad", PadWidth(config.rotation, region),
                         PadHeight(config.rotation, region))
  \/ FinalizeUinputCreation("touchpad")

\* Both workers create their devices.  The processes share nothing here, so one
\* order of their calls stands for all.
Create ==
  /\ step = "devices"
  /\ \/ RunKeyboard
     \/ at["keyboard"] = "Consume" /\ RunTouchpad
  /\ UNCHANGED <<option_vars, haptic_vars, source, file_vars, loaded_vars, step, touch>>

\* The keys a finger is on; GenerateEventForArrivingFinger() takes the first.
KeysAt(x, y) == {i \in DOMAIN layout : KeyContains(layout[i].box, x, y)}

\* A finger lands; FakeKeyboard tells the motors if it is on a key.
Touch ==
  /\ step = "devices" /\ \A w \in DOMAIN at : at[w] = "Consume"
  /\ touch' \in (0 .. config.res_x) \X (0 .. config.res_y)
  /\ IF KeysAt(touch'[1], touch'[2]) # {}
     THEN EventTriggered(config, "FingerDown", touch'[1], touch'[2])
     ELSE UNCHANGED haptic_vars
  /\ step' = "touched"
  /\ UNCHANGED <<option_vars, uinput_vars, file_vars, loaded_vars>>

Next == \/ Parse \/ Start \/ LoadKey \/ LoadLayoutEnds \/ LoadPad
        \/ Create \/ Touch

Spec == Init /\ [][Next]_vars
-----------------------------------------------------------------------------
(***************************************************************************)
(* What the workers send for the touch.                                    *)
(***************************************************************************)
Touched == touch # <<>>
KeysTouched == IF Touched THEN KeysAt(touch[1], touch[2]) ELSE {}
OnKey == KeysTouched # {}
OnPad == Touched /\ PadContains(region, touch[1], touch[2])

kNumSlots == 10

IsSupportedForTouchpads(code) ==
  code \in {"ABS_MT_TRACKING_ID", "ABS_MT_PRESSURE", "ABS_MT_POSITION_X",
            "ABS_MT_POSITION_Y", "ABS_MT_TOUCH_MAJOR", "ABS_MT_TOUCH_MINOR"}

\* The key events: the code the key has with Fn and the one without.
CodesOf(key) == {key.event_code, key.event_code_fn} \ {0}

\* What the touch screen may say of an axis for this touch.
Readings(axis) ==
  CASE axis.code = "ABS_MT_POSITION_X" -> {touch[1]}
    [] axis.code = "ABS_MT_POSITION_Y" -> {touch[2]}
    [] axis.code = "ABS_MT_SLOT" ->
           (axis.minimum .. axis.maximum) \cap (0 .. kNumSlots - 1)
    [] OTHER -> axis.minimum .. axis.maximum

\* The values of a slot as they are passed on.
PassEventsThrough(axis) ==
  IF IsSupportedForTouchpads(axis.code)
  THEN {[code |-> PadAxis(config.rotation, axis.code),
         value |-> PadValue(config.rotation, region, axis.code, v)] : v \in Readings(axis)}
  ELSE {}

\* The slot is named before anything about it, an id when it enters the region
\* and -1 when it leaves.  Slots the screen does not have are empty.
SyncTouchEvents(axis) ==
  (IF axis.code \in {"ABS_MT_SLOT", "ABS_MT_TRACKING_ID"}
   THEN {[code |-> axis.code, value |-> v] : v \in Readings(axis)} ELSE {})
    \cup {[code |-> "ABS_MT_TRACKING_ID", value |-> -1]}
    \cup (IF OnPad THEN PassEventsThrough(axis) ELSE {})
-----------------------------------------------------------------------------
\* What PassEventsThrough() sends lies in the ranges Run() announced.
PadStaysInRange ==
  OnPad =>
    LET p == ToPad(config.rotation, region, touch[1], touch[2])
    IN  /\ p[1] \in 0 .. PadWidth(config.rotation, region)
        /\ p[2] \in 0 .. PadHeight(config.rotation, region)

\* The kernel drops nothing of what the workers send for a touch, whichever key
\* of the layout it is on: both codes of the key were enabled, the buttons that
\* count the contacts too, and every axis of the slot, with its number and its
\* tracking id, goes to an axis that was announced with a range for the value.
\* (SyncTouchEvents() also names the slots the screen does not have, which the
\* kernel ignores; there is never anything to say about them.)
EventsArePassedOn ==
  Touched =>
    /\ \A i \in KeysTouched : \A code \in CodesOf(layout[i]) :
         PassesKey(device["keyboard"], code)
    /\ \A i \in DOMAIN TouchpadButtons :
         PassesKey(device["touchpad"], TouchpadButtons[i])
    /\ \A i \in DOMAIN source.axes : \A ev \in SyncTouchEvents(source.axes[i]) :
         PassesAbs(device["touchpad"], ev.code, ev.value)

\* A key that the layout has left of (above) another one is left of (above) it
\* for the touchpad and the motors too, in each of the four rotations: the five
\* switch statements about the rotation turn the same way.
RotationsAgree ==
  \A i \in KeysTouched, j \in DOMAIN layout :
    LET key   == layout_csv[i].box
        other == layout_csv[j].box
        x == touch[1]
        y == touch[2]
        Pad(u, v) == ToPad(config.rotation, region, u, v)
    IN  \A u \in layout[j].box.x1 .. layout[j].box.x2 - 1,
           v \in layout[j].box.y1 .. layout[j].box.y2 - 1 :
          /\ key.x2 <= other.x1 =>
               /\ Pad(x, y)[1] < Pad(u, v)[1]
               /\ HapticPosition(config, x, y) < HapticPosition(config, u, v)
          /\ key.y2 <= other.y1 => Pad(x, y)[2] < Pad(u, v)[2]

\* "When the event is on the left half of touch surface, only the left vibrator
\* will run" (touch_ff_manager.cc:71): a key in the left (right) half as the user
\* sees it plays the left (right) motor.  The middle is touch_max_x_ / 2, a whole
\* coordinate; a key in the left half keeps one coordinate away from it, as an
\* edge that is cut off in a turned sensor moves to the right by less than that.
MotorIsOnTheSideOfTheKey ==
  \A i \in KeysTouched :
    LET key    == layout_csv[i].box
        width  == IF config.rotation \in {0, 180} THEN config.width
                                                  ELSE config.height
        middle == (HapticWidth(config) \div 2) * width
        left   == (config.left_margin + key.x1) * HapticWidth(config)
        right  == (config.left_margin + key.x2) * HapticWidth(config)
        Only(s) == \A n \in DOMAIN played : played[n].side = s
    IN  /\ right + width <= middle => Only("left")
        /\ middle <= left => Only("right")

\* A finger that lands on a key is felt, with the strength and for the time the
\* command line asks for, if the motor of its half took the effect, whatever
\* became of the other motor; one that lands beside the keys is not.
KeysAreFelt ==
  LET motor == Motor(config, touch[1], touch[2])
      asked == Effect(options.haptic_magnitude, options.haptic_duration_ms)
  IN  Touched =>
        IF OnKey /\ effects[motor] # <<>>
        THEN \E id \in DOMAIN effects[motor] :
               /\ played = <<[side |-> motor, code |-> id]>>
               /\ effects[motor][id] = asked
        ELSE played = <<>>

\* What ParseOptions() lets pass, TouchFFManager and FFDriver do not refuse: no
\* command line makes the keyboard worker throw, which systemd would answer with
\* restarts, or go without haptics.
AcceptedOptionsStart ==
  parsed = "kSuccess" =>
    /\ ManagerAccepts(config, options.haptic_magnitude,
                      options.haptic_duration_ms)
    /\ EffectIsValid(options.haptic_magnitude, options.haptic_duration_ms)

\* "touchpad.csv: virtual touchpad rectangle" (README.md:77): a touch that is
\* inside the configured rectangle by a sensor coordinate is on the touchpad,
\* one that is outside by as much is not.
PadIsTheRectangle ==
  Touched =>
    LET wanted == Pitch(config, Turned(config, touchpad_csv[1].box))
        inside(m) == /\ wanted.x1 + m <= touch[1] /\ touch[1] + m <= wanted.x2
                     /\ wanted.y1 + m <= touch[2] /\ touch[2] + m <= wanted.y2
    IN  (inside(1) => OnPad) /\ (OnPad => inside(-1))
=============================================================================
