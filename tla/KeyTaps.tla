------------------------------ MODULE KeyTaps ------------------------------
(***************************************************************************)
(* What the virtual keyboard promises for every contact on the glass,      *)
(* with no queue, no deadline and no clock: a contact produces at most     *)
(* one press, a press is followed by exactly one release of the same key   *)
(* code, a contact that was lifted before another one landed is over       *)
(* before the other one types, and a pressed key whose contact is lifted   *)
(* is released in the end.  FakeKeyboard is shown to implement it.         *)
(***************************************************************************)
EXTENDS Naturals, Sequences

CONSTANTS
  Contacts,   \* the contacts the touch screen ever reports
  Codes       \* the key codes a contact may type

VARIABLES
  contact,    \* contact[c]: "none" (not landed yet), "on" or "off" (lifted)
  before,     \* before[c]: the contacts already lifted when c landed
  strokes     \* strokes[c]: the key events sent because of c, in order

vars == <<contact, before, strokes>>

Stroke(code, down) == [code |-> code, down |-> down]

Init ==
  /\ contact = [c \in Contacts |-> "none"]
  /\ before = [c \in Contacts |-> {}]
  /\ strokes = [c \in Contacts |-> <<>>]

-----------------------------------------------------------------------------

(***************************************************************************)
(* A new frame: some contacts land, some are lifted, and none comes back.  *)
(***************************************************************************)
Frame(land, lift) ==
  /\ \A c \in land : contact[c] = "none"
  /\ \A c \in lift : contact[c] = "on"
  /\ contact' = [c \in Contacts |-> CASE c \in land -> "on"
                                      [] c \in lift -> "off"
                                      [] OTHER -> contact[c]]
  /\ before' = [c \in Contacts |->
                  IF c \in land THEN {d \in Contacts : contact[d] = "off"}
                                ELSE before[c]]
  /\ UNCHANGED strokes

(***************************************************************************)
(* The key goes down for c, once.  Nobody lifted before c landed is still  *)
(* holding a key, and nobody who landed after c was lifted has typed yet.  *)
(***************************************************************************)
Press(c, code) ==
  /\ contact[c] # "none"
  /\ strokes[c] = <<>>
  /\ \A a \in before[c] : Len(strokes[a]) # 1
  /\ \A d \in Contacts : c \in before[d] => strokes[d] = <<>>
  /\ strokes' = [strokes EXCEPT ![c] = <<Stroke(code, TRUE)>>]
  /\ UNCHANGED <<contact, before>>

Release(c) ==
  /\ Len(strokes[c]) = 1
  /\ strokes' = [strokes EXCEPT ![c] =
                   Append(@, Stroke(strokes[c][1].code, FALSE))]
  /\ UNCHANGED <<contact, before>>

ReleaseLifted(c) == contact[c] = "off" /\ Release(c)

Next ==
  \/ \E land, lift \in SUBSET Contacts : Frame(land, lift)
  \/ \E c \in Contacts : \/ \E code \in Codes : Press(c, code)
                         \/ Release(c)

Spec == Init /\ [][Next]_vars /\ \A c \in Contacts : WF_vars(ReleaseLifted(c))

=============================================================================
