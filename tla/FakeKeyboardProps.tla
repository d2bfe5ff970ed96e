------------------------- MODULE FakeKeyboardProps --------------------------
(***************************************************************************)
(* What must hold of the keyboard worker, and the refinement of KeyTaps.   *)
(***************************************************************************)
EXTENDS FakeKeyboard

\* Every variable has its type.
TypeOK ==
  /\ pc \in {"wait", "touches", "leaving", "drain"}
  /\ now \in Nat
  /\ DOMAIN snapshot \subseteq Tids
  /\ snapshot \in [DOMAIN snapshot -> Finger]
  /\ todo \subseteq Tids
  /\ DOMAIN finger_data \subseteq Tids
  /\ finger_data \in [DOMAIN finger_data -> FingerData]
  /\ DOMAIN pending \subseteq Nat
  /\ pending \in [DOMAIN pending -> Event]
  /\ fn_key_pressed \in BOOLEAN
  /\ needs_syn \in BOOLEAN
  /\ keys_down \subseteq Codes
  /\ reported \subseteq Codes
  /\ seen \subseteq Tids
  /\ before \in [Tids -> SUBSET Tids]
  /\ strokes \in [Tids -> Seq([code : Codes, down : BOOLEAN])]

-----------------------------------------------------------------------------
\* pending_events_ "stores all pending events in chronological order based on
\* their deadlines" (fake_keyboard.h:250), whatever was inserted or erased.
Chronological ==
  \A r, s \in DOMAIN pending :
    r < s => pending[r].deadline <= pending[s].deadline

\* An event that may still be refused belongs to a finger that is tracked, is
\* not rejected, started on a key and types that very code.  So the firing loop
\* never finds "No finger data for event that should have some"
\* (fake_keyboard.cc:450), never indexes layout_ with kNoKey (:425, :435), and a
\* rejected finger types nothing more.
RefusableEventHasItsFinger ==
  \A r \in DOMAIN pending :
    ~pending[r].is_guaranteed =>
      /\ pending[r].tid \in DOMAIN finger_data
      /\ LET data == finger_data[pending[r].tid]
         IN  /\ data.rejection_status = "kNotRejectedYet"
             /\ data.starting_key_number # kNoKey
             /\ data.event_code = pending[r].code

\* Fn is on only while an accepted finger that landed on Fn is still tracked,
\* however fingers on Fn and on other keys come, go and are rejected.
FnHeldByFinger ==
  fn_key_pressed =>
    \E t \in DOMAIN finger_data :
      /\ finger_data[t].rejection_status = "kNotRejectedYet"
      /\ finger_data[t].event_code = KEY_FN

\* A finger types the key it is on.  As long as it is not refused it is, in the
\* frame processed last, on the very key it landed on, not on any other, and has
\* a code of that key, under Fn or not ("The finger isn't on its starting key
\* anymore", fake_keyboard.cc:211).
FingerIsOnItsKey ==
  \A t \in (DOMAIN finger_data \cap DOMAIN snapshot) \ todo :
    Unrejected(finger_data[t]) =>
      LET key == finger_data[t].starting_key_number
      IN  /\ key \in KeysAt[snapshot[t].pos]
          /\ finger_data[t].event_code \in {EventCode[key], EventCodeFn[key]} \ {0}

\* A key that readers of the device see down between two passes of the loop is
\* held by an accepted finger that is still on the glass, or its release is
\* already queued: no key is stuck.
NoStuckKey ==
  pc = "wait" =>
    \A code \in reported :
      \/ \E t \in DOMAIN finger_data \cap DOMAIN snapshot :
           /\ finger_data[t].rejection_status = "kNotRejectedYet"
           /\ finger_data[t].down_sent
           /\ finger_data[t].event_code = code
      \/ \E r \in DOMAIN pending :
           ~pending[r].is_down /\ pending[r].code = code

\* A key goes up under the finger that holds it for one reason only: another
\* finger that typed the same code, and was not lifted before this one landed,
\* was lifted (the kernel keeps one state per code, and the firing loop,
\* fake_keyboard.cc:459, sends a release for each finger).
HeldKeyIsDown ==
  \A t \in DOMAIN finger_data :
    Unrejected(finger_data[t]) /\ finger_data[t].down_sent =>
      LET code == finger_data[t].event_code
      IN  \/ code \in keys_down
          \/ \E u \in Tids \ before[t] :
               u # t /\ strokes[u] = <<Stroke(code, TRUE), Stroke(code, FALSE)>>

\* A palm is told from a finger before its key goes down, never after: a contact
\* refused for its pressure or diameter has typed nothing, although its readings
\* keep growing while it rests on a key it has typed.
PalmRejectedBeforePress ==
  \A t \in DOMAIN finger_data :
    finger_data[t].rejection_status \in {"kRejectPressure",
                                        "kRejectTouchDiameter"}
      => strokes[t] = <<>>

-----------------------------------------------------------------------------
(***************************************************************************)
(* The life of one contact: its queued events, oldest first, together with *)
(* the key events already sent for it.                                     *)
(***************************************************************************)
Due(t) == {r \in DOMAIN pending : pending[r].contact = t}

\* Nothing was sent and nothing is queued.
Silent(t) == Due(t) = {} /\ strokes[t] = <<>>

\* The press is queued and may still be refused.
Waiting(t) ==
  /\ strokes[t] = <<>>
  /\ \E r \in DOMAIN pending :
       /\ Due(t) = {r}
       /\ pending[r].is_down /\ ~pending[r].is_guaranteed
       /\ pending[r].code = finger_data[t].event_code

\* The key is down and no release is queued.
Holding(t) ==
  /\ Due(t) = {}
  /\ strokes[t] = <<Stroke(finger_data[t].event_code, TRUE)>>

\* Lifted early: a guaranteed press and its release are queued.
Tapping(t) ==
  /\ strokes[t] = <<>>
  /\ \E r, s \in DOMAIN pending :
       /\ Due(t) = {r, s} /\ r < s
       /\ pending[r].is_down /\ pending[r].is_guaranteed
       /\ ~pending[s].is_down
       /\ pending[r].code = pending[s].code

\* The key is down and its release is queued.
Releasing(t) ==
  \E r \in DOMAIN pending :
    /\ Due(t) = {r}
    /\ ~pending[r].is_down
    /\ strokes[t] = <<Stroke(pending[r].code, TRUE)>>

\* Both were sent.
Over(t) ==
  /\ Due(t) = {}
  /\ \E code \in Codes :
       strokes[t] = <<Stroke(code, TRUE), Stroke(code, FALSE)>>

ContactOK(t) ==
  IF t \in DOMAIN finger_data
  THEN IF Unrejected(finger_data[t])
       THEN IF finger_data[t].down_sent THEN Holding(t) ELSE Waiting(t)
       ELSE Silent(t) \/ Releasing(t) \/ Over(t)
  ELSE Silent(t) \/ Tapping(t) \/ Releasing(t) \/ Over(t)

\* Whatever the fingers do, the queue, the finger data and the events already
\* sent fit together for every contact: a held key has no event queued, an
\* untracked contact is on its way to being over, and so on.
EveryContactFits == \A t \in Tids : ContactOK(t)

\* An event belongs to its contact, a release to nobody, and none is due later
\* than a delay from now.
EventFits(ev, time) ==
  /\ ev.tid = IF ev.is_down THEN ev.contact ELSE OldTid
  /\ ~ev.is_down => ev.is_guaranteed
  /\ ev.deadline <= time + Delay

EventsFit == \A r \in DOMAIN pending : EventFits(pending[r], now)

\* An accepted finger is on a key and has the code of a key.
FingersFit ==
  \A t \in DOMAIN finger_data :
    Unrejected(finger_data[t]) =>
      /\ finger_data[t].starting_key_number \in KeyNums
      /\ finger_data[t].event_code \in Codes

\* finger_data_ follows the frames: it catches up with the fingers that landed
\* in the first loop and with those that left in the second one.
FramesFit ==
  /\ DOMAIN finger_data \subseteq seen
  /\ DOMAIN snapshot \subseteq seen
  /\ todo \subseteq DOMAIN snapshot
  /\ DOMAIN snapshot \ DOMAIN finger_data \subseteq todo
  /\ pc # "touches" => todo = {}
  /\ pc \in {"wait", "drain"} => DOMAIN finger_data = DOMAIN snapshot
  /\ \A t \in Tids :
       t \notin seen \/ t \in DOMAIN snapshot \ DOMAIN finger_data => Silent(t)

\* A key is down in the kernel only for a contact that has not been released,
\* and readers have been told of it by the end of the pass.
KeysFit ==
  /\ \A code \in keys_down :
       \E t \in Tids : strokes[t] = <<Stroke(code, TRUE)>>
  /\ needs_syn => pc = "drain"
  /\ ~needs_syn => reported = keys_down

\* A contact lifted before another one landed is out of the queue before it.
OrderFits ==
  \A t \in Tids : \A a \in before[t] :
    /\ t \in seen
    /\ a \in seen /\ a \notin DOMAIN snapshot /\ a \notin DOMAIN finger_data
    /\ \A r \in Due(t), s \in Due(a) : s < r
    /\ strokes[t] # <<>> => Due(a) = {}

-----------------------------------------------------------------------------
ContactState ==
  [t \in Tids |-> IF t \notin seen THEN "none"
                  ELSE IF t \in DOMAIN snapshot THEN "on" ELSE "off"]

Taps == INSTANCE KeyTaps WITH Contacts <- Tids, contact <- ContactState

\* The worker implements KeyTaps: one press and one release of one code per
\* contact, sequential typing comes out in order, and a key whose finger was
\* lifted is released ("a 'key up' event must be sent eventually",
\* fake_keyboard.h:139).
ImplementsKeyTaps == Taps!Spec

\* The safety half of it.
ImplementsKeyTapsSafely == Taps!Init /\ [][Taps!Next]_(Taps!vars)

\* No tap is forgotten: a finger accepted on a key types, unless it is rejected
\* first, even if it is lifted before its event is due.
TapIsDecided ==
  \A t \in Tids :
    (t \in DOMAIN finger_data /\ Unrejected(finger_data[t]))
      ~> \/ strokes[t] # <<>>
         \/ t \in DOMAIN finger_data /\ ~Unrejected(finger_data[t])

-----------------------------------------------------------------------------
\* The comment on Event::is_guaranteed_ (fake_keyboard.h:74-79): an event is
\* made guaranteed when the finger leaves, because "they are already checked and
\* ready to go": the finger passes the check at the moment its press is marked.
GuaranteedMeansChecked ==
  [][\A r \in DOMAIN pending \cap DOMAIN pending' :
       (/\ pending[r].tid = pending'[r].tid
        /\ pending[r].tid \in DOMAIN finger_data
        /\ ~pending[r].is_guaranteed
        /\ pending'[r].is_guaranteed)
         => ~OutOfRange(finger_data[pending[r].tid])]_vars
=============================================================================
