----------------------------- MODULE FrameChain -----------------------------
(***************************************************************************)
(* What docs/ARCHITECTURE.md promises of frame pacing, for every renderer: *)
(* the next frame is rendered only from the callback of the one before; a  *)
(* hidden surface has no callback outstanding and submits nothing; being   *)
(* shown again starts the chain again.                                     *)
(*                                                                         *)
(* One step is one handler, seen from the compositor: how the surface is   *)
(* shown, whether a callback is armed, and the frames that are committed.  *)
(***************************************************************************)
EXTENDS Naturals

CONSTANT MayStarve  \* a Boolean: there may be nothing to draw into

VARIABLES
  part,    \* "before" the first frame, "on", "over"
  shown,   \* the surface is not known to be hidden
  open,    \* the renderer has not been asked to end
  armed,   \* a frame callback is outstanding
  frames   \* frames committed, modulo 2

chain == <<part, shown, open, armed, frames>>

Init ==
  /\ part = "before"
  /\ shown = TRUE /\ open = TRUE /\ armed = FALSE /\ frames = 0

\* Commit a frame and arm the next callback; the commit may fail, which ends
\* the renderer but leaves the callback to be destroyed.
Draw ==
  /\ open /\ shown'
  /\ frames' = 1 - frames
  /\ armed' = TRUE
  /\ open' \in BOOLEAN

\* The renderer is ending, the surface hidden, or there is nothing to draw
\* into: the chain ends here.
Rest ==
  /\ armed' = FALSE /\ UNCHANGED frames
  /\ open' => open
  /\ ~open' \/ ~shown' \/ MayStarve

Begin == part = "before" /\ part' = "on" /\ UNCHANGED shown /\ (Draw \/ Rest)

\* The compositor fires the callback.
Fire == part = "on" /\ armed /\ UNCHANGED <<part, shown>> /\ (Draw \/ Rest)

Hide ==
  /\ part # "over"
  /\ shown' = FALSE /\ armed' = FALSE
  /\ UNCHANGED <<part, open, frames>>

\* Before the first frame showing draws nothing.
Show ==
  /\ ~shown /\ shown' = TRUE
  /\ UNCHANGED part
  /\ \/ part = "before" /\ UNCHANGED <<open, armed, frames>>
     \/ part = "on" /\ (Draw \/ Rest)

Close == open' = FALSE /\ UNCHANGED <<part, shown, armed, frames>>

End == part' = "over" /\ armed' = FALSE /\ UNCHANGED <<shown, open, frames>>

Next == Begin \/ Fire \/ Hide \/ Show \/ Close \/ End

Spec == Init /\ [][Next]_chain

=============================================================================
