---------------------------- MODULE TouchReader -----------------------------
(***************************************************************************)
(* One reader of the touch screen: the evdev buffer it empties one event   *)
(* at a time, as late as it likes, so that the buffer may overflow, and    *)
(* the decoder it feeds with GetNextEvent() and AddEvent().                *)
(***************************************************************************)
EXTENDS TouchKernel, MtStateMachine

VARIABLES
  last_truth,  \* history: hw at the SYN_REPORT of the last complete frame
  lost,        \* history: some events were lost
  in_step      \* history: the slot of the device was the decoder's one when
               \* the decoder last resumed

reader_vars == <<last_truth, lost, in_step>>

ReaderInit ==
  /\ KernelInit
  /\ DecoderInit
  /\ last_truth = hw
  /\ lost = FALSE
  /\ in_step = (hw_slot = current_slot)

\* The user touches the screen.
Touch == Frame /\ UNCHANGED <<decoder_vars, reader_vars>>

\* The next event of a complete frame is taken from the buffer.
Read(ev) ==
  /\ changed = {}
  /\ stream # <<>>
  /\ ev = Head(stream)
  /\ stream' = Tail(stream)
  /\ lost' = (lost \/ ev.type = "SYN_DROPPED")
  /\ UNCHANGED <<hw, hw_slot, next_tid, changed>>

\* It does not complete a frame.
ReadPart(ev) ==
  /\ Read(ev)
  /\ AddPart(ev)
  /\ in_step' = IF ev.type = "SYN_REPORT" THEN ev.slot = current_slot
                                          ELSE in_step
  /\ UNCHANGED last_truth

\* It completes a frame.
ReadReport(ev, wants_snapshot) ==
  /\ Read(ev)
  /\ AddReport(ev, wants_snapshot)
  /\ last_truth' = ev.truth
  /\ UNCHANGED in_step
=============================================================================
