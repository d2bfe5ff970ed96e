---------------------------- MODULE UinputDevice ----------------------------
(***************************************************************************)
(* How a worker describes its virtual device to the kernel: the functions  *)
(* of class UinputDevice, src/src/uinput_device.cc, one step per system    *)
(* call, and what the kernel makes of each of them.                        *)
(*                                                                         *)
(* Every call may fail: the function returns false, Run() throws, the      *)
(* process ends and the kernel forgets the device.  Left out are the name  *)
(* and the identity of the device, the resolution of its axes, and that    *)
(* the destructor destroys a device the kernel removes with the process.   *)
(***************************************************************************)
EXTENDS Integers, Sequences

CONSTANT Sources  \* touch screens: their event types, and their axes by code

\* A screen with axes at all has the ones of the multitouch protocol.
ASSUME SourceAssumption ==
  \A s \in Sources :
    /\ s.axes \in Seq([code : STRING, minimum : Int, maximum : Int])
    /\ \A i, j \in DOMAIN s.axes : s.axes[i].code = s.axes[j].code => i = j
    /\ "EV_ABS" \in s.types =>
         \A code \in {"ABS_MT_SLOT", "ABS_MT_TRACKING_ID",
                      "ABS_MT_POSITION_X", "ABS_MT_POSITION_Y"} :
           \E i \in DOMAIN s.axes : s.axes[i].code = code

VARIABLES
  source,  \* the touch screen that is copied
  device,  \* device[w]: what the kernel knows of the device of worker w
  at,      \* at[w]: the call of its Run() that is next
  turn     \* turn[w]: the turn its loop is in

uinput_vars == <<source, device, at, turn>>

NoDevice == [open |-> FALSE, types |-> {}, keys |-> {}, abs |-> {},
             ranges |-> <<>>, setup |-> FALSE, created |-> FALSE]

UinputInit ==
  /\ source \in Sources
  /\ device = [w \in {"keyboard", "touchpad"} |-> NoDevice]
  /\ at = [w \in {"keyboard", "touchpad"} |-> "CreateUinputFD"]
  /\ turn = [w \in {"keyboard", "touchpad"} |-> 1]

\* What the kernel does not refuse.
Accepts(d, c) ==
  CASE c.call = "open" -> ~d.open
    [] c.call = "UI_DEV_CREATE" -> d.setup /\ ~d.created
    [] OTHER -> d.open /\ ~d.created

\* What it makes of the call.
After(d, c) ==
  CASE c.call = "open" -> [d EXCEPT !.open = TRUE]
    [] c.call = "UI_SET_EVBIT" -> [d EXCEPT !.types = @ \cup {c.code}]
    [] c.call = "UI_SET_KEYBIT" -> [d EXCEPT !.keys = @ \cup {c.code}]
    [] c.call = "UI_SET_ABSBIT" -> [d EXCEPT !.abs = @ \cup {c.code}]
    [] c.call = "UI_ABS_SETUP" ->
         [d EXCEPT !.ranges = [a \in DOMAIN @ \cup {c.code} |->
                                 IF a = c.code THEN c.absinfo ELSE @[a]]]
    [] c.call = "UI_DEV_SETUP" -> [d EXCEPT !.setup = TRUE]
    [] c.call = "UI_DEV_CREATE" -> [d EXCEPT !.created = TRUE]

GoTo(w, then) == at' = [at EXCEPT ![w] = then]

Fail(w) == device' = [device EXCEPT ![w] = NoDevice] /\ GoTo(w, "failed")

\* A call on the control descriptor, and one that only asks the source.
Ioctl(w, c, then) ==
  \/ /\ Accepts(device[w], c)
     /\ device' = [device EXCEPT ![w] = After(@, c)]
     /\ GoTo(w, then)
  \/ Fail(w)

Query(w, then) ==
  \/ UNCHANGED device /\ GoTo(w, then)
  \/ Fail(w)

EnableEventType(w, ev_type, then) ==
  Ioctl(w, [call |-> "UI_SET_EVBIT", code |-> ev_type], then)
EnableKeyEvent(w, ev_code, then) ==
  Ioctl(w, [call |-> "UI_SET_KEYBIT", code |-> ev_code], then)
EnableAbsEvent(w, ev_code, then) ==
  Ioctl(w, [call |-> "UI_SET_ABSBIT", code |-> ev_code], then)

CreateUinputFD(w, then) ==
  /\ at[w] = "CreateUinputFD"
  /\ Ioctl(w, [call |-> "open"], then)
  /\ UNCHANGED turn

\* The range of a copied axis: positions get the size of the virtual device.
AbsInfo(axis, width, height) ==
  CASE axis.code \in {"ABS_X", "ABS_MT_POSITION_X"} -> [minimum |-> 0, maximum |-> width]
    [] axis.code \in {"ABS_Y", "ABS_MT_POSITION_Y"} -> [minimum |-> 0, maximum |-> height]
    [] OTHER -> [minimum |-> axis.minimum, maximum |-> axis.maximum]

\* Asks what the source supports, then copies its axes one after the other.
CopyABSOutputEvents(w, width, height) ==
  LET more == turn[w] <= Len(source.axes)
      axis == source.axes[turn[w]]
  IN  \/ /\ at[w] = "CopyABSOutputEvents"
         /\ Query(w, "IsEventSupported")
         /\ UNCHANGED turn
      \/ /\ at[w] = "IsEventSupported" /\ "EV_ABS" \in source.types
         /\ GoTo(w, "EV_ABS")
         /\ UNCHANGED <<device, turn>>
      \/ /\ at[w] = "IsEventSupported" /\ "EV_ABS" \notin source.types
         /\ Fail(w)
         /\ UNCHANGED turn
      \/ /\ at[w] = "EV_ABS"
         /\ EnableEventType(w, "EV_ABS", "EVIOCGBIT")
         /\ UNCHANGED turn
      \/ /\ at[w] = "EVIOCGBIT"
         /\ Query(w, "EnableAbsEvent")
         /\ turn' = [turn EXCEPT ![w] = 1]
      \/ /\ at[w] = "EnableAbsEvent" /\ more
         /\ EnableAbsEvent(w, axis.code, "EVIOCGABS")
         /\ UNCHANGED turn
      \/ /\ at[w] = "EVIOCGABS"
         /\ Query(w, "UI_ABS_SETUP")
         /\ UNCHANGED turn
      \/ /\ at[w] = "UI_ABS_SETUP"
         /\ Ioctl(w, [call |-> "UI_ABS_SETUP", code |-> axis.code,
                      absinfo |-> AbsInfo(axis, width, height)], "EnableAbsEvent")
         /\ turn' = [turn EXCEPT ![w] = @ + 1]
      \/ /\ at[w] = "EnableAbsEvent" /\ ~more
         /\ GoTo(w, "UI_DEV_SETUP")
         /\ UNCHANGED <<device, turn>>

FinalizeUinputCreation(w) ==
  /\ \/ /\ at[w] = "UI_DEV_SETUP"
        /\ Ioctl(w, [call |-> "UI_DEV_SETUP"], "UI_DEV_CREATE")
     \/ /\ at[w] = "UI_DEV_CREATE"
        /\ Ioctl(w, [call |-> "UI_DEV_CREATE"], "Consume")
  /\ UNCHANGED turn

\* The kernel passes on what a created device has announced and drops the rest;
\* readers of an axis rely on its range, and take the tracking id -1 for a lift.
PassesKey(d, code) == d.created /\ "EV_KEY" \in d.types /\ code \in d.keys
PassesAbs(d, code, value) ==
  /\ d.created /\ "EV_ABS" \in d.types
  /\ code \in d.abs \cap DOMAIN d.ranges
  /\ \/ value \in d.ranges[code].minimum .. d.ranges[code].maximum
     \/ code = "ABS_MT_TRACKING_ID" /\ value = -1
=============================================================================
