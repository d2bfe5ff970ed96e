--------------------------- MODULE MCFakeKeyboard ---------------------------
(***************************************************************************)
(* Small instances of the keyboard worker for TLC.                         *)
(***************************************************************************)
EXTENDS FakeKeyboardProps, TLC

CONSTANTS t1, t2, t3

\* Key 0 is Fn, key 1 the space bar, key 2 F1 with a code of its own under Fn.
\* Keys 1 and 2 overlap at one point, where the first of them wins.
MCEventCode == (0 :> 464) @@ (1 :> 57) @@ (2 :> 59)
MCEventCodeFn == (0 :> 0) @@ (1 :> 0) @@ (2 :> 113)
MCKeysAt == [p \in Positions |->
               CASE p = "fn" -> {0}
                 [] p = "f1" -> {2}
                 [] p = "edge" -> {1, 2}
                 [] p = "off" -> {}]

Reading(p, m) == [p |-> p, touch_major |-> m]
\* A firm tap only.
Firm == {Reading(80, -1)}
\* A pressure below, at the lower bound of, and above the accepted range.
Pressures == {Reading(49, 1000), Reading(50, 1000), Reading(111, 1000)}
\* The diameter decides as long as no pressure is known; the space bar takes a
\* pressure that F1 refuses.
Mixed == {Reading(-1, 3000), Reading(111, 1000)}

Contacts2 == {t1, t2}
Contacts3 == {t1, t2, t3}
Symmetric == Permutations(Tids)
=============================================================================
