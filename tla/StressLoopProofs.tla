-------------------------- MODULE StressLoopProofs --------------------------
(***************************************************************************)
(* Theorems about StressLoop, for every set of exposures and every pacing. *)
(* The argument is that of WaylandEglProofs; what is new is that a frame   *)
(* may be drawn without a callback, out of turn, in the other pacings.     *)
(***************************************************************************)
EXTENDS StressLoop, WebosShellProofs

\* What is chosen at the start, and the parts of the loop.
LoopTypes ==
  /\ pacing \in {"frame", "swap", "offscreen", "pbuffer"}
  /\ multipass \in BOOLEAN /\ timed \in BOOLEAN /\ expired \in BOOLEAN
  /\ queued \in BOOLEAN /\ turn \in {"render", "dispatch"}

\* The callback chain.  A loop that is ending may still be armed, but not when
\* hidden.
ChainInv ==
  /\ phase \in {"setup", "attached", "loop", "exited"}
  /\ running \in BOOLEAN /\ frame_cb \in BOOLEAN /\ frames \in {0, 1}
  /\ render_visible \in BOOLEAN /\ render_visible = effective_visible
  /\ phase \in {"setup", "attached"} => ~frame_cb
  /\ frame_cb => pacing = "frame"
  /\ phase = "loop" /\ frame_cb => render_visible
  /\ StressOneChain

-----------------------------------------------------------------------------
(* What the parts of a handler do                                          *)

\* A frame has been drawn, or none has: the two outcomes of render when no
\* callback is armed.
Drawn ==
  /\ running /\ frames' = 1 - frames /\ frames' \in {0, 1}
  /\ running' \in BOOLEAN
  /\ pacing = "frame" => render_visible' /\ frame_cb' = TRUE /\ callbacks' = 1
  /\ pacing # "frame" => frame_cb' = FALSE /\ callbacks' = 0

NotDrawn ==
  /\ frames' = frames
  /\ running' \in BOOLEAN /\ (running' => running)
  /\ frame_cb' = FALSE /\ callbacks' = 0
  /\ pacing = "frame" => ~running' \/ ~render_visible'

LEMMA RenderChain ==
  ASSUME ChainInv, render(FALSE, 0)
  PROVE  Drawn \/ NotDrawn
<1>1. 1 - frames \in {0, 1}
  BY DEF ChainInv
<1>2. CASE /\ ~running \/ expired \/ (Presents /\ render_visible' /\ multipass)
           /\ running' = FALSE
           /\ Chain(FALSE, 0) /\ UNCHANGED <<queued, frames>>
  BY <1>2 DEF NotDrawn, Chain
<1>3. CASE /\ running /\ ~expired /\ Presents /\ ~render_visible'
           /\ Chain(FALSE, 0) /\ UNCHANGED <<running, queued, frames>>
  BY <1>3 DEF NotDrawn, Chain, ChainInv
<1>4. CASE /\ running /\ ~expired
           /\ Presents => render_visible' /\ ~multipass
           /\ Draw(FALSE, 0)
  <2>1. running' \in BOOLEAN /\ frames' = 1 - frames
    BY <1>4 DEF Draw
  <2>2. CASE pacing = "frame"
    BY <1>1, <1>4, <2>1, <2>2 DEF Drawn, Draw, Chain, Presents
  <2>3. CASE pacing # "frame"
    BY <1>1, <1>4, <2>1, <2>3 DEF Drawn, Draw, Chain
  <2> QED  BY <2>2, <2>3
<1> QED  BY <1>2, <1>3, <1>4 DEF render

\* Either outcome, in the loop, keeps the chain.
LEMMA AfterRender ==
  ASSUME ChainInv, phase' = "loop", pacing' = pacing,
         render_visible' \in BOOLEAN, render_visible' = effective_visible',
         Drawn \/ NotDrawn
  PROVE  ChainInv'
<1>1. CASE Drawn
  <2>1. CASE pacing = "frame"
    <3>1. frame_cb' = TRUE /\ callbacks' = 1 /\ render_visible' = TRUE
      BY <1>1, <2>1 DEF Drawn
    <3>2. StressOneChain'
      BY <2>1, <3>1 DEF StressOneChain
    <3> QED  BY <1>1, <2>1, <3>1, <3>2 DEF ChainInv, Drawn
  <2>2. CASE pacing # "frame"
    <3>1. frame_cb' = FALSE /\ callbacks' = 0
      BY <1>1, <2>2 DEF Drawn
    <3>2. StressOneChain'
      BY <2>2, <3>1 DEF StressOneChain
    <3> QED  BY <1>1, <3>1, <3>2 DEF ChainInv, Drawn
  <2> QED  BY <2>1, <2>2
<1>2. CASE NotDrawn
  <2>1. StressOneChain'
    <3>1. frame_cb' = FALSE /\ callbacks' = 0
      BY <1>2 DEF NotDrawn
    <3>2. running' => ~(pacing = "frame" /\ render_visible')
      BY <1>2 DEF NotDrawn
    <3> QED  BY <3>1, <3>2 DEF StressOneChain
  <2> QED  BY <1>2, <2>1 DEF ChainInv, NotDrawn
<1> QED  BY <1>1, <1>2

\* A change of the flag reaches the renderer's copy.
LEMMA ReportCopies ==
  ASSUME ChainInv,
         \/ \E s \in ShellStates : handle_state_changed(s)
         \/ \E values \in Exposures : handle_exposed(values)
  PROVE  /\ effective_visible' \in BOOLEAN
         /\ render_visible' = effective_visible'
BY DEF ChainInv, handle_state_changed, handle_exposed, update_visibility

-----------------------------------------------------------------------------
(* The promise about frames                                                *)

Promised == [Promise!Next]_Promise!chain

\* With the other pacings the promise sees nothing.
LEMMA OtherPacings ==
  ASSUME pacing # "frame", pacing' = pacing
  PROVE  Promised
BY DEF Promised, Promise!chain, Framed

\* Steps that touch neither the chain nor visibility.
LEMMA QuietStep ==
  ASSUME ChainInv,
         UNCHANGED <<pacing, phase, running, render_visible, effective_visible,
                     frame_cb, callbacks, frames>>
  PROVE  ChainInv' /\ Promised
<1>1. ChainInv'
  BY DEF ChainInv, StressOneChain
<1>2. Promised
  BY DEF Promised, Promise!chain, Framed
<1> QED  BY <1>1, <1>2

\* A call of render in the loop that no callback is armed for: the promise's
\* step is a frame or the end of the chain.
LEMMA RenderKept ==
  ASSUME ChainInv, pacing = "frame", pacing' = pacing, Drawn \/ NotDrawn
  PROVE  LET open == Framed(running, TRUE)
             shown == Framed(render_visible, TRUE)
         IN \/ /\ open /\ shown'
               /\ Framed(frames, 0)' = 1 - Framed(frames, 0)
               /\ Framed(callbacks = 1, FALSE)' = TRUE
               /\ open' \in BOOLEAN
            \/ /\ Framed(callbacks = 1, FALSE)' = FALSE
               /\ Framed(frames, 0)' = Framed(frames, 0)
               /\ open' => open
               /\ ~open' \/ ~shown'
<1>1. CASE Drawn
  BY <1>1 DEF Drawn, Framed
<1>2. CASE NotDrawn
  BY <1>2 DEF NotDrawn, Framed
<1> QED  BY <1>1, <1>2

\* Every handler keeps the chain and is one step of the promise, or none.
LEMMA ChainStep == ChainInv /\ [StressNext]_stressVars => ChainInv' /\ Promised
<1> SUFFICES ASSUME ChainInv, [StressNext]_stressVars PROVE ChainInv' /\ Promised
  OBVIOUS
<1>0. pacing' = pacing
  BY DEF stressVars, settings, StressNext, Expire, BindShell, AttachSurface,
     SetupFails, Start, frame_done, VisibilityReport, webos_close_requested,
     input_keyboard_key, LoopPass, Dispatched, Exit, DispatchFails, Leave
<1>1. CASE Expire \/ BindShell \/ Dispatched \/ UNCHANGED stressVars
  <2>1. UNCHANGED <<phase, running, render_visible, effective_visible,
                    frame_cb, callbacks, frames>>
    BY <1>1 DEF Expire, BindShell, Dispatched, ShellTryBind, stressVars,
       shellVars, visibility, chainVars
  <2> QED  BY <1>0, <2>1, QuietStep
<1>2. CASE AttachSurface
  <2>1. /\ phase = "setup" /\ phase' = "attached"
        /\ UNCHANGED <<running, render_visible, effective_visible, frame_cb,
                       callbacks, frames>>
    BY <1>2 DEF AttachSurface, Attach, visibility, chainVars
  <2>2. ChainInv'
    BY <1>0, <2>1 DEF ChainInv, StressOneChain
  <2>3. Promised
    BY <1>0, <2>1 DEF Promised, Promise!chain, Framed
  <2> QED  BY <2>2, <2>3
<1>3. CASE SetupFails
  <2>1. /\ phase \in {"setup", "attached"} /\ phase' = "exited"
        /\ UNCHANGED <<running, render_visible, effective_visible, frame_cb,
                       callbacks, frames>>
        /\ frame_cb = FALSE /\ callbacks = 0
    BY <1>3 DEF SetupFails, shellVars, visibility, chainVars, ChainInv, StressOneChain
  <2>2. ChainInv'
    BY <1>0, <2>1 DEF ChainInv, StressOneChain
  <2>3. ASSUME pacing = "frame" PROVE Promise!End
    BY <1>0, <2>1, <2>3 DEF Promise!End, Framed
  <2> QED  BY <1>0, <2>2, <2>3, OtherPacings DEF Promised, Promise!Next
<1>4. CASE Start
  <2>1. /\ phase = "attached" /\ phase' = "loop"
        /\ render_visible' = render_visible
        /\ effective_visible' = effective_visible
        /\ frame_cb = FALSE /\ callbacks = 0 /\ render(FALSE, 0)
    BY <1>4 DEF Start, shellVars, visibility, ChainInv, StressOneChain
  <2>2. Drawn \/ NotDrawn
    BY <2>1, RenderChain
  <2>3. ChainInv'
    BY <1>0, <2>1, <2>2, AfterRender DEF ChainInv
  <2>4. ASSUME pacing = "frame" PROVE Promise!Begin
    BY <1>0, <2>1, <2>2, <2>4, RenderKept
       DEF Promise!Begin, Promise!Draw, Promise!Rest, Framed
  <2> QED  BY <1>0, <2>3, <2>4, OtherPacings DEF Promised, Promise!Next
<1>5. CASE frame_done
  <2>1. /\ phase = "loop" /\ phase' = "loop"
        /\ render_visible' = render_visible
        /\ effective_visible' = effective_visible
        /\ render_visible = TRUE /\ frame_cb = TRUE
        /\ callbacks = 1 /\ pacing = "frame"
    BY <1>5 DEF frame_done, shellVars, visibility, ChainInv, StressOneChain
  <2>2. callbacks - 1 = 0
    BY <2>1
  <2>3. \/ running /\ render(FALSE, 0)
        \/ ~running /\ Chain(FALSE, 0) /\ UNCHANGED <<running, queued, frames>>
    BY <1>5, <2>1, <2>2 DEF frame_done
  <2>4. Drawn \/ NotDrawn
    <3>1. CASE running /\ render(FALSE, 0)
      BY <3>1, RenderChain
    <3>2. CASE ~running /\ Chain(FALSE, 0) /\ UNCHANGED <<running, queued, frames>>
      BY <3>2 DEF NotDrawn, Chain, ChainInv
    <3> QED  BY <2>3, <3>1, <3>2
  <2>5. ChainInv'
    BY <1>0, <2>1, <2>4, AfterRender DEF ChainInv
  <2>6. Promise!Fire
    BY <1>0, <2>1, <2>4, RenderKept
       DEF Promise!Fire, Promise!Draw, Promise!Rest, Framed
  <2> QED  BY <2>5, <2>6 DEF Promised, Promise!Next
<1>6. CASE VisibilityReport
  <2>1. phase \in {"attached", "loop"} /\ phase' = phase
    BY <1>6 DEF VisibilityReport, Heard
  <2>2. effective_visible' \in BOOLEAN /\ render_visible' = effective_visible'
    BY <1>6, ReportCopies DEF VisibilityReport
  <2>3. CASE effective_visible' = effective_visible
    <3>1. UNCHANGED <<phase, running, render_visible, effective_visible,
                      frame_cb, callbacks, frames>>
      BY <1>6, <2>1, <2>2, <2>3 DEF VisibilityReport, ChainInv, chainVars
    <3> QED  BY <1>0, <3>1, QuietStep
  <2>4. CASE effective_visible' # effective_visible
    <3>1. webos_visibility_changed /\ render_visible' # render_visible
      BY <1>6, <2>2, <2>4 DEF VisibilityReport, ChainInv
    <3>2. CASE ~render_visible'
      <4>1. /\ frames' = frames /\ running' = running
            /\ frame_cb' = FALSE /\ callbacks' = 0
        <5>1. CASE frame_cb = TRUE
          <6>1. callbacks = 1
            BY <2>1, <5>1 DEF ChainInv, StressOneChain
          <6>2. callbacks - 1 = 0
            BY <6>1
          <6> QED
            BY <3>1, <3>2, <5>1, <6>2 DEF webos_visibility_changed, Chain
        <5>2. CASE frame_cb = FALSE
          BY <2>1, <3>1, <3>2, <5>2
             DEF webos_visibility_changed, chainVars, ChainInv, StressOneChain
        <5> QED  BY <5>1, <5>2 DEF ChainInv
      <4>2. ChainInv'
        BY <1>0, <2>1, <2>2, <3>2, <4>1 DEF ChainInv, StressOneChain
      <4>3. ASSUME pacing = "frame" PROVE Promise!Hide
        BY <1>0, <2>1, <2>2, <3>2, <4>1, <4>3 DEF Promise!Hide, Framed
      <4> QED  BY <1>0, <4>2, <4>3, OtherPacings DEF Promised, Promise!Next
    <3>3. CASE render_visible'
      <4>1. render_visible = FALSE /\ frame_cb = FALSE /\ callbacks = 0
        BY <2>1, <2>2, <3>1, <3>3 DEF ChainInv, StressOneChain
      <4>2. CASE phase = "loop" /\ running = TRUE
        <5>1. render(FALSE, 0)
          BY <3>1, <3>3, <4>1, <4>2 DEF webos_visibility_changed
        <5>2. Drawn \/ NotDrawn
          BY <5>1, RenderChain
        <5>3. ChainInv'
          BY <1>0, <2>1, <2>2, <4>2, <5>2, AfterRender
        <5>4. ASSUME pacing = "frame" PROVE Promise!Show
          BY <1>0, <2>1, <3>3, <4>1, <4>2, <5>2, <5>4, RenderKept
             DEF Promise!Show, Promise!Draw, Promise!Rest, Framed
        <5> QED  BY <1>0, <5>3, <5>4, OtherPacings DEF Promised, Promise!Next
      <4>3. CASE phase # "loop" \/ running = FALSE
        <5>1. /\ frame_cb' = FALSE /\ callbacks' = 0
              /\ frames' = frames /\ running' = running
          BY <3>1, <3>3, <4>1, <4>3 DEF webos_visibility_changed, chainVars
        <5>2. ChainInv'
          BY <1>0, <2>1, <2>2, <3>3, <4>3, <5>1 DEF ChainInv, StressOneChain
        <5>3. ASSUME pacing = "frame" PROVE Promise!Show
          BY <1>0, <2>1, <2>2, <3>3, <4>1, <4>3, <5>1, <5>3
             DEF Promise!Show, Promise!Rest, Framed
        <5> QED  BY <1>0, <5>2, <5>3, OtherPacings DEF Promised, Promise!Next
      <4> QED  BY <4>2, <4>3 DEF ChainInv
    <3> QED  BY <3>2, <3>3
  <2> QED  BY <2>3, <2>4
<1>7. CASE webos_close_requested \/ input_keyboard_key
  <2>1. /\ phase' = phase /\ running' = FALSE
        /\ UNCHANGED <<render_visible, effective_visible, frame_cb, callbacks,
                       frames>>
    BY <1>7 DEF webos_close_requested, input_keyboard_key, shellVars,
       visibility, chainVars
  <2>2. ChainInv'
    BY <1>0, <2>1 DEF ChainInv, StressOneChain
  <2>3. ASSUME pacing = "frame" PROVE Promise!Close
    BY <1>0, <2>1, <2>3 DEF Promise!Close, Framed
  <2> QED  BY <1>0, <2>2, <2>3, OtherPacings DEF Promised, Promise!Next
<1>8. CASE LoopPass
  <2>1. /\ phase = "loop" /\ phase' = "loop" /\ pacing # "frame"
        /\ render_visible' = render_visible
        /\ effective_visible' = effective_visible
        /\ frame_cb = FALSE /\ callbacks = 0 /\ render(FALSE, 0)
    BY <1>8 DEF LoopPass, shellVars, visibility, ChainInv, StressOneChain
  <2>2. Drawn \/ NotDrawn
    BY <2>1, RenderChain
  <2>3. ChainInv'
    BY <1>0, <2>1, <2>2, AfterRender DEF ChainInv
  <2> QED  BY <1>0, <2>1, <2>3, OtherPacings
<1>9. CASE Exit \/ DispatchFails
  <2>1. /\ phase = "loop" /\ phase' = "exited" /\ callbacks' = 0
        /\ UNCHANGED <<running, render_visible, effective_visible, frames>>
        /\ frame_cb' = frame_cb
    <3>1. Leave
      BY <1>9 DEF Exit, DispatchFails
    <3>2. CASE frame_cb = TRUE
      <4>1. callbacks = 1
        BY <3>1, <3>2 DEF Leave, ChainInv, StressOneChain
      <4>2. callbacks - 1 = 0
        BY <4>1
      <4> QED  BY <3>1, <3>2, <4>2 DEF Leave, Chain, ShellDestroy, visibility
    <3>3. CASE frame_cb = FALSE
      BY <3>1, <3>3 DEF Leave, Chain, ShellDestroy, visibility, ChainInv, StressOneChain
    <3> QED  BY <3>2, <3>3 DEF ChainInv
  <2>2. ChainInv'
    BY <1>0, <2>1 DEF ChainInv, StressOneChain
  <2>3. ASSUME pacing = "frame" PROVE Promise!End
    BY <1>0, <2>1, <2>3 DEF Promise!End, Framed
  <2> QED  BY <1>0, <2>2, <2>3, OtherPacings DEF Promised, Promise!Next
<1> QED
  BY <1>1, <1>2, <1>3, <1>4, <1>5, <1>6, <1>7, <1>8, <1>9 DEF StressNext

LEMMA ChainInvariance == StressSpec => []ChainInv
<1>1. StressInit => ChainInv
  BY DEF StressInit, ShellInit, ChainInv, StressOneChain
<1> QED  BY <1>1, ChainStep, PTL DEF StressSpec

\* One callback while armed, none otherwise, in every pacing; with pacings
\* other than "frame" none at all, also where a visibility report draws.
THEOREM StressChainCorrect == StressSpec => []StressOneChain
<1>1. ChainInv => StressOneChain
  BY DEF ChainInv
<1> QED  BY <1>1, ChainInvariance, PTL

\* With frame pacing the stress renderer keeps the promise about frames.
THEOREM StressPacesFrames == StressSpec => StressKeepsChain
<1>1. StressInit => Promise!Init
  BY DEF StressInit, ShellInit, Promise!Init, Framed
<1>2. ChainInv /\ [StressNext]_stressVars => [Promise!Next]_Promise!chain
  BY ChainStep DEF Promised
<1> QED
  BY <1>1, <1>2, ChainInvariance, PTL
     DEF StressSpec, StressKeepsChain, Promise!Spec

-----------------------------------------------------------------------------
(* Types                                                                   *)

LEMMA RenderTypes ==
  ASSUME LoopTypes, NEW armed, NEW live, render(armed, live)
  PROVE  queued' \in BOOLEAN
<1>1. CASE Draw(armed, live)
  BY <1>1 DEF Draw, LoopTypes
<1>2. CASE queued' = queued
  BY <1>2 DEF LoopTypes
<1> QED  BY <1>1, <1>2 DEF render

LEMMA TypesStep == LoopTypes /\ [StressNext]_stressVars => LoopTypes'
<1> SUFFICES ASSUME LoopTypes, [StressNext]_stressVars PROVE LoopTypes'
  OBVIOUS
<1>1. UNCHANGED settings
  BY DEF stressVars, StressNext, Expire, BindShell, AttachSurface,
     SetupFails, Start, frame_done, VisibilityReport, webos_close_requested,
     input_keyboard_key, LoopPass, Dispatched, Exit, DispatchFails, Leave
<1>2. expired' \in BOOLEAN /\ turn' \in {"render", "dispatch"}
  BY DEF LoopTypes, stressVars, loopVars, StressNext, Expire, BindShell, AttachSurface,
     SetupFails, Start, frame_done, VisibilityReport, webos_close_requested,
     input_keyboard_key, LoopPass, Dispatched, Exit, DispatchFails, Leave
<1>3. queued' \in BOOLEAN
  <2>1. CASE Start
    BY <2>1, RenderTypes DEF Start
  <2>2. CASE LoopPass
    BY <2>2, RenderTypes DEF LoopPass
  <2>3. CASE frame_done
    BY <2>3, RenderTypes DEF frame_done, LoopTypes
  <2>4. CASE VisibilityReport
    <3>1. queued' = queued \/ render(frame_cb, callbacks)
      BY <2>4 DEF VisibilityReport, webos_visibility_changed
    <3> QED  BY <3>1, RenderTypes DEF LoopTypes
  <2>5. CASE AttachSurface \/ Dispatched
    BY <2>5 DEF AttachSurface, Dispatched
  <2>6. CASE \/ Expire \/ BindShell \/ SetupFails \/ webos_close_requested
             \/ input_keyboard_key \/ Exit \/ DispatchFails \/ UNCHANGED stressVars
    BY <2>6 DEF LoopTypes, stressVars, loopVars, Expire, BindShell, SetupFails,
       webos_close_requested, input_keyboard_key, Exit, DispatchFails, Leave
  <2> QED
    BY <2>1, <2>2, <2>3, <2>4, <2>5, <2>6 DEF StressNext
<1> QED  BY <1>1, <1>2, <1>3 DEF LoopTypes, settings

\* Types; there is never more than one callback object.
THEOREM StressTypeCorrect == StressSpec => []StressTypeOK
<1>1. StressInit => LoopTypes
  BY DEF StressInit, LoopTypes
<1>2. StressSpec => []LoopTypes
  BY <1>1, TypesStep, PTL DEF StressSpec
<1>3. ChainInv /\ LoopTypes => StressTypeOK
  <2> SUFFICES ASSUME ChainInv, LoopTypes PROVE StressTypeOK
    OBVIOUS
  <2>1. callbacks \in 0 .. 1
    <3>1. callbacks = 0 \/ callbacks = 1
      BY DEF ChainInv, StressOneChain
    <3> QED  BY <3>1
  <2>2. frames \in 0 .. 1
    <3>1. frames = 0 \/ frames = 1
      BY DEF ChainInv
    <3> QED  BY <3>1
  <2> QED  BY <2>1, <2>2 DEF ChainInv, LoopTypes, StressTypeOK
<1> QED  BY <1>2, <1>3, ChainInvariance, PTL

-----------------------------------------------------------------------------
(* The shell helper                                                        *)

LEMMA StressShell == [StressNext]_stressVars => ShellStep
BY Zenon DEF ShellStep, stressVars, StressNext, Expire, BindShell,
   AttachSurface, SetupFails, Start, frame_done, VisibilityReport,
   webos_close_requested, input_keyboard_key, LoopPass, Dispatched, Exit,
   DispatchFails, Leave

\* The protocol objects are made and given up in order.
THEOREM StressShellTyped == StressSpec => []ShellTypeOK
<1>1. StressInit => ShellInv
  BY ShellStarts DEF StressInit
<1>2. ShellInv /\ [StressNext]_stressVars => ShellInv'
  BY StressShell, ShellKeeps
<1> QED  BY <1>1, <1>2, ShellInvImplies, PTL DEF StressSpec

\* The renderer's flag is the truth about the last two reports, for every
\* list of numbers an exposed event may carry.
THEOREM StressFlagTrue == StressSpec => []VisibilityTracks
<1>1. StressInit => ShellInv
  BY ShellStarts DEF StressInit
<1>2. ShellInv /\ [StressNext]_stressVars => ShellInv'
  BY StressShell, ShellKeeps
<1> QED  BY <1>1, <1>2, ShellInvImplies, PTL DEF StressSpec

=============================================================================
