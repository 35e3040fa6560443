------------------------- MODULE WaylandRectProofs --------------------------
(***************************************************************************)
(* Theorems about WaylandRect, for every number of buffers, every set of   *)
(* sizes and exposures, with and without failing allocations.              *)
(***************************************************************************)
EXTENDS WaylandRect, WebosShellProofs, FiniteSetTheorems

\* The buffers: what is busy is held, exists, and was never painted over.
PoolInv ==
  /\ dims \in [Bufs -> Sizes \cup {NoSize}]
  /\ busy \subseteq Bufs
  /\ current = {} \/ \E i \in Bufs : current = {i}
  /\ BusyIsHeld
  /\ torn = FALSE
  /\ frames \in {0, 1}

\* The callback chain, while the program runs.
ChainInv ==
  /\ frame_cb \in BOOLEAN
  /\ OneChain
  /\ HiddenIsQuiet

\* Control.
ControlInv ==
  /\ phase \in {"setup", "loop", "exited"}
  /\ running \in BOOLEAN /\ render_visible \in BOOLEAN
  /\ effective_visible \in BOOLEAN
  /\ render_visible = effective_visible
  /\ size \in Sizes /\ frame \in {0, 1}
  /\ phase = "setup" => ~frame_cb

RectInv == PoolInv /\ ChainInv /\ ControlInv

-----------------------------------------------------------------------------
(* Rendering                                                               *)

\* Whatever calls render with a callback count that matches its pointer gets
\* a matching count back; a callback is armed only if one was, or for a
\* surface that is shown.
LEMMA RenderInv ==
  ASSUME PoolInv, size \in Sizes, size' = size,
         NEW armed \in BOOLEAN,
         NEW live, live = IF armed THEN 1 ELSE 0,
         render(armed, live)
  PROVE  /\ PoolInv'
         /\ frame_cb' \in BOOLEAN
         /\ callbacks' = IF frame_cb' THEN 1 ELSE 0
         /\ frame_cb' = armed \/ (running /\ render_visible')
         /\ \A i \in busy' \ busy : running /\ render_visible' /\ dims'[i] = size
<1> DEFINE Goal == /\ PoolInv'
                   /\ frame_cb' \in BOOLEAN
                   /\ callbacks' = IF frame_cb' THEN 1 ELSE 0
                   /\ frame_cb' = armed \/ (running /\ render_visible')
                   /\ \A i \in busy' \ busy :
                        running /\ render_visible' /\ dims'[i] = size
<1>1. ASSUME Chain(armed, live), UNCHANGED poolVars PROVE Goal
  BY <1>1 DEF Chain, poolVars, PoolInv, BusyIsHeld
<1>2. ASSUME running, render_visible', NEW i \in NextBuffer, Submit(i),
             Chain(TRUE, IF armed THEN live ELSE live + 1)
      PROVE  Goal
  <2>1. i \in Bufs /\ Usable(i)
    BY DEF NextBuffer
  <2>2. torn' = FALSE
    BY <1>2, <2>1 DEF Submit, Usable, PoolInv, BusyIsHeld
  <2>3. PoolInv'
    BY <1>2, <2>1, <2>2, BufAssumption DEF Submit, PoolInv, BusyIsHeld
  <2>4. \A j \in busy' \ busy : j = i /\ dims'[j] = size
    BY <1>2, <2>1 DEF Submit, PoolInv
  <2>5. frame_cb' = TRUE /\ callbacks' = 1
    BY <1>2 DEF Chain
  <2> QED  BY <1>2, <2>3, <2>4, <2>5
<1>3. ASSUME NEW i \in NextBuffer, Discard(i), Chain(armed, live) PROVE Goal
  <2>1. i \in Bufs
    BY DEF NextBuffer
  <2>2. PoolInv'
    BY <1>3, <2>1 DEF Discard, PoolInv, BusyIsHeld
  <2> QED  BY <1>3, <2>2 DEF Discard, Chain
<1> QED  BY <1>1, <1>2, <1>3 DEF render

LEMMA DestroyBuffersInv ==
  ASSUME PoolInv, destroy_buffers
  PROVE  PoolInv' /\ busy' = {}
BY DEF destroy_buffers, PoolInv, BusyIsHeld

\* A change of the flag reaches the renderer's copy.
LEMMA ReportCopies ==
  ASSUME ControlInv,
         \/ \E s \in ShellStates : handle_state_changed(s)
         \/ \E values \in Exposures : handle_exposed(values)
  PROVE  /\ effective_visible' \in BOOLEAN
         /\ render_visible' = effective_visible'
BY DEF ControlInv, handle_state_changed, handle_exposed, update_visibility

-----------------------------------------------------------------------------

\* What a step has to keep and, of the frames it submits, to respect.
StepGood ==
  /\ RectInv'
  /\ \A i \in busy' \ busy : running /\ render_visible' /\ dims'[i] = size

LEMMA RectStep == RectInv /\ [RectNext]_rectVars => StepGood
<1> SUFFICES ASSUME RectInv, [RectNext]_rectVars PROVE StepGood
  OBVIOUS
<1> USE DEF RectInv, StepGood
<1>1. CASE BindShell
  BY <1>1 DEF BindShell, ShellTryBind, visibility, poolVars, chainVars,
     PoolInv, BusyIsHeld, ChainInv, OneChain, HiddenIsQuiet, ControlInv
<1>2. CASE SetupFails
  BY <1>2 DEF SetupFails, shellVars, visibility, poolVars, chainVars,
     PoolInv, BusyIsHeld, ChainInv, OneChain, HiddenIsQuiet, ControlInv
<1>3. CASE Start
  <2>1. /\ phase = "setup" /\ phase' = "loop" /\ size' = size
        /\ running' = running /\ frame' = frame
        /\ render_visible' = render_visible
        /\ effective_visible' = effective_visible
        /\ frame_cb = FALSE /\ callbacks = 0 /\ render(frame_cb, callbacks)
    BY <1>3 DEF Start, Attach, visibility, ControlInv, ChainInv, OneChain
  <2>2. /\ PoolInv' /\ frame_cb' \in BOOLEAN
        /\ callbacks' = IF frame_cb' THEN 1 ELSE 0
        /\ frame_cb' = FALSE \/ (running /\ render_visible')
        /\ \A i \in busy' \ busy : running /\ render_visible' /\ dims'[i] = size
    BY <2>1, RenderInv DEF ControlInv
  <2>3. ChainInv'
    BY <2>1, <2>2 DEF ChainInv, OneChain, HiddenIsQuiet
  <2>4. ControlInv'
    BY <2>1 DEF ControlInv
  <2> QED  BY <2>2, <2>3, <2>4
<1>4. CASE frame_done
  <2>1. /\ phase = "loop" /\ phase' = "loop" /\ size' = size
        /\ running' = running /\ frame' \in {0, 1}
        /\ render_visible' = render_visible
        /\ effective_visible' = effective_visible
        /\ callbacks - 1 = 0 /\ render(FALSE, callbacks - 1)
    <3>1. callbacks = 1
      BY <1>4 DEF frame_done, ChainInv, OneChain
    <3>2. frame' \in {0, 1}
      BY <1>4 DEF frame_done, ControlInv
    <3>3. /\ render_visible' = render_visible
          /\ effective_visible' = effective_visible
      BY <1>4 DEF frame_done, shellVars, visibility
    <3>4. /\ phase = "loop" /\ phase' = phase /\ size' = size
          /\ running' = running
      BY <1>4 DEF frame_done
    <3>5. callbacks - 1 = 0
      BY <3>1
    <3>6. render(FALSE, callbacks - 1)
      BY <1>4 DEF frame_done
    <3> QED  BY <3>2, <3>3, <3>4, <3>5, <3>6
  <2>2. /\ PoolInv' /\ frame_cb' \in BOOLEAN
        /\ callbacks' = IF frame_cb' THEN 1 ELSE 0
        /\ frame_cb' = FALSE \/ (running /\ render_visible')
        /\ \A i \in busy' \ busy : running /\ render_visible' /\ dims'[i] = size
    BY <2>1, RenderInv DEF ControlInv
  <2>3. ChainInv'
    BY <2>1, <2>2 DEF ChainInv, OneChain, HiddenIsQuiet
  <2>4. ControlInv'
    BY <2>1 DEF ControlInv
  <2> QED  BY <2>2, <2>3, <2>4
<1>5. CASE VisibilityReport
  <2>1. /\ phase = "loop" /\ phase' = "loop" /\ size' = size
        /\ running' = running /\ frame' = frame
    BY <1>5 DEF VisibilityReport
  <2>2. effective_visible' \in BOOLEAN /\ render_visible' = effective_visible'
    BY <1>5, ReportCopies DEF VisibilityReport
  <2>3. ControlInv'
    BY <2>1, <2>2 DEF ControlInv
  <2>4. CASE effective_visible' = effective_visible
    <3>1. UNCHANGED <<poolVars, chainVars>> /\ render_visible' = render_visible
      BY <1>5, <2>2, <2>4 DEF VisibilityReport, ControlInv
    <3> QED
      BY <2>1, <2>3, <3>1 DEF poolVars, chainVars, PoolInv, BusyIsHeld,
         ChainInv, OneChain, HiddenIsQuiet
  <2>5. CASE effective_visible' # effective_visible
    <3>1. webos_visibility_changed
      BY <1>5, <2>5 DEF VisibilityReport
    <3>2. CASE ~render_visible' /\ frame_cb /\ Chain(FALSE, callbacks - 1)
               /\ UNCHANGED poolVars
      <4>1. PoolInv' /\ busy' = busy
        BY <3>2 DEF poolVars, PoolInv, BusyIsHeld
      <4>2. callbacks = 1
        BY <2>1, <3>2 DEF ChainInv, OneChain
      <4>3. frame_cb' = FALSE /\ callbacks' = 0
        BY <3>2, <4>2 DEF Chain
      <4>4. ChainInv'
        BY <2>1, <4>3 DEF ChainInv, OneChain, HiddenIsQuiet
      <4> QED  BY <2>3, <4>1, <4>4
    <3>3. CASE /\ render_visible' /\ running /\ ~frame_cb
               /\ render(frame_cb, callbacks)
      <4>1. frame_cb = FALSE /\ callbacks = 0
        BY <2>1, <3>3 DEF ChainInv, OneChain
      <4>2. /\ PoolInv' /\ frame_cb' \in BOOLEAN
            /\ callbacks' = IF frame_cb' THEN 1 ELSE 0
            /\ \A i \in busy' \ busy :
                 running /\ render_visible' /\ dims'[i] = size
        BY <2>1, <3>3, <4>1, RenderInv DEF ControlInv
      <4> QED
        BY <2>1, <2>3, <3>3, <4>2 DEF ChainInv, OneChain, HiddenIsQuiet
    <3>4. CASE /\ IF render_visible' THEN ~running \/ frame_cb ELSE ~frame_cb
               /\ UNCHANGED <<poolVars, chainVars>>
      BY <2>1, <2>3, <3>4 DEF poolVars, chainVars, PoolInv, BusyIsHeld,
         ChainInv, OneChain, HiddenIsQuiet
    <3> QED  BY <3>1, <3>2, <3>3, <3>4 DEF webos_visibility_changed
  <2> QED  BY <2>4, <2>5
<1>6. ASSUME NEW s \in Sizes, shell_configure(s) PROVE StepGood
  <2>1. PoolInv' /\ busy' \subseteq busy
    <3>1. CASE s # size
      BY <1>6, <3>1, DestroyBuffersInv DEF shell_configure
    <3>2. CASE s = size
      BY <1>6, <3>2 DEF shell_configure, poolVars, PoolInv, BusyIsHeld
    <3> QED  BY <3>1, <3>2
  <2>2. ChainInv' /\ ControlInv'
    BY <1>6 DEF shell_configure, shellVars, visibility, chainVars, ChainInv,
       OneChain, HiddenIsQuiet, ControlInv
  <2> QED  BY <2>1, <2>2
<1>7. ASSUME NEW i \in Bufs, buffer_release(i) PROVE StepGood
  BY <1>7 DEF buffer_release, shellVars, visibility, chainVars, PoolInv,
     BusyIsHeld, ChainInv, OneChain, HiddenIsQuiet, ControlInv
<1>8. CASE CloseRequested
  BY <1>8 DEF CloseRequested, shellVars, visibility, poolVars, chainVars,
     PoolInv, BusyIsHeld, ChainInv, OneChain, HiddenIsQuiet, ControlInv
<1>9. CASE Exit
  <2>1. PoolInv' /\ busy' = {}
    BY <1>9, DestroyBuffersInv DEF Exit
  <2>2. ChainInv' /\ ControlInv'
    BY <1>9 DEF Exit, Chain, ShellDestroy, visibility, ChainInv, OneChain,
       HiddenIsQuiet, ControlInv
  <2> QED  BY <2>1, <2>2
<1>10. CASE UNCHANGED rectVars
  BY <1>10 DEF rectVars, shellVars, visibility, poolVars, chainVars,
     PoolInv, BusyIsHeld, ChainInv, OneChain, HiddenIsQuiet, ControlInv
<1> QED
  BY <1>1, <1>2, <1>3, <1>4, <1>5, <1>6, <1>7, <1>8, <1>9, <1>10
     DEF RectNext, OtherSteps

LEMMA RectInitInv == RectInit => RectInv
BY DEF RectInit, ShellInit, RectInv, PoolInv, BusyIsHeld, ChainInv, OneChain,
   HiddenIsQuiet, ControlInv

THEOREM RectInvariance == RectSpec => []RectInv
<1>1. RectInv /\ [RectNext]_rectVars => RectInv'
  BY RectStep DEF StepGood
<1> QED  BY <1>1, RectInitInv, PTL DEF RectSpec

\* Types.
THEOREM RectTypeCorrect == RectSpec => []RectTypeOK
<1>1. RectInv => RectTypeOK
  <2> SUFFICES ASSUME RectInv PROVE RectTypeOK
    OBVIOUS
  <2>1. callbacks \in 0 .. 1 /\ frame_cb \in BOOLEAN
    BY DEF RectInv, ChainInv, OneChain
  <2>2. /\ dims \in [Bufs -> Sizes \cup {NoSize}]
        /\ busy \subseteq Bufs /\ held \subseteq Bufs
        /\ current = {} \/ \E i \in Bufs : current = {i}
    BY DEF RectInv, PoolInv, BusyIsHeld
  <2>3. torn \in BOOLEAN /\ frames \in 0 .. 1
    <3>1. torn \in BOOLEAN
      BY DEF RectInv, PoolInv
    <3>2. frames \in 0 .. 1
      BY DEF RectInv, PoolInv
    <3> QED  BY <3>1, <3>2
  <2>4. /\ phase \in {"setup", "loop", "exited"}
        /\ running \in BOOLEAN
        /\ size \in Sizes /\ frame \in {0, 1}
    BY DEF RectInv, ControlInv
  <2> QED  BY <2>1, <2>2, <2>3, <2>4 DEF RectTypeOK
<1> QED  BY <1>1, RectInvariance, PTL

\* One callback object while armed, none otherwise, none after teardown.
THEOREM ChainCorrect == RectSpec => []OneChain
<1>1. RectInv => OneChain
  BY DEF RectInv, ChainInv
<1> QED  BY <1>1, RectInvariance, PTL

\* No callback is outstanding while the surface is hidden, whatever comes
\* between two frames.
THEOREM QuietCorrect == RectSpec => []HiddenIsQuiet
<1>1. RectInv => HiddenIsQuiet
  BY DEF RectInv, ChainInv
<1> QED  BY <1>1, RectInvariance, PTL

\* The busy flags are the compositor's holds, and paint respects them.
THEOREM PoolCorrect == RectSpec => [](BusyIsHeld /\ NoTearing)
<1>1. RectInv => BusyIsHeld /\ NoTearing
  BY DEF RectInv, PoolInv, NoTearing
<1> QED  BY <1>1, RectInvariance, PTL

\* Frames are submitted only by a running renderer to a surface that is
\* shown, in the surface's size.
THEOREM SubmitCorrect == RectSpec => SubmitOnlyWhenShown
<1>1. RectInv /\ [RectNext]_rectVars
        => [\A i \in busy' \ busy :
              running /\ render_visible' /\ dims'[i] = size]_rectVars
  BY RectStep DEF StepGood
<1> QED  BY <1>1, RectInvariance, PTL DEF RectSpec, SubmitOnlyWhenShown

-----------------------------------------------------------------------------
(* The promise about frame pacing                                          *)

\* What a call of render does to the chain: a commit with one callback, or
\* nothing.
LEMMA RenderDraws ==
  ASSUME NEW armed \in BOOLEAN,
         NEW live, live = IF armed THEN 1 ELSE 0,
         render(armed, live)
  PROVE  \/ running /\ render_visible' /\ frames' = 1 - frames /\ callbacks' = 1
         \/ frames' = frames /\ callbacks' = live
<1>1. CASE Chain(armed, live) /\ UNCHANGED poolVars
  BY <1>1 DEF Chain, poolVars
<1>2. ASSUME running, render_visible', NEW i \in NextBuffer, Submit(i),
             Chain(TRUE, IF armed THEN live ELSE live + 1)
      PROVE  /\ running /\ render_visible'
             /\ frames' = 1 - frames /\ callbacks' = 1
  BY <1>2 DEF Submit, Chain
<1>3. ASSUME NEW i \in NextBuffer, Discard(i), Chain(armed, live)
      PROVE  frames' = frames /\ callbacks' = live
  BY <1>3 DEF Discard, Chain
<1> QED  BY <1>1, <1>2, <1>3 DEF render

\* Each handler is one step of the promise, or none.
LEMMA RectStepRefines ==
  RectInv /\ [RectNext]_rectVars => [Promise!Next]_Promise!chain
<1> SUFFICES ASSUME RectInv, [RectNext]_rectVars
             PROVE  [Promise!Next]_Promise!chain
  OBVIOUS
<1> USE DEF RectInv
<1> DEFINE Still == UNCHANGED <<phase, render_visible, running, callbacks, frames>>
<1>0. Still => [Promise!Next]_Promise!chain
  BY DEF Promise!chain
<1>1. CASE BindShell
  <2>1. Still
    BY <1>1 DEF BindShell, ShellTryBind, visibility, poolVars, chainVars
  <2> QED  BY <1>0, <2>1
<1>2. CASE SetupFails
  <2>1. /\ phase' = "exited" /\ running' = running /\ callbacks' # 1
        /\ render_visible' = render_visible /\ frames' = frames
    BY <1>2 DEF SetupFails, shellVars, visibility, poolVars, chainVars,
       ChainInv, OneChain, ControlInv
  <2>2. Promise!End
    BY <2>1 DEF Promise!End
  <2> QED  BY <2>2 DEF Promise!Next
<1>3. CASE Start
  <2>1. /\ phase = "setup" /\ phase' = "loop" /\ running' = running
        /\ render_visible' = render_visible
        /\ frame_cb = FALSE /\ callbacks = 0 /\ render(frame_cb, callbacks)
    BY <1>3 DEF Start, Attach, visibility, ControlInv, ChainInv, OneChain
  <2>2. \/ running /\ render_visible' /\ frames' = 1 - frames /\ callbacks' = 1
        \/ frames' = frames /\ callbacks' = 0
    BY <2>1, RenderDraws
  <2>3. Promise!Begin
    BY <2>1, <2>2 DEF Promise!Begin, Promise!Draw, Promise!Rest, ControlInv
  <2> QED  BY <2>3 DEF Promise!Next
<1>4. CASE frame_done
  <2>1. /\ phase = "loop" /\ phase' = "loop" /\ running' = running
        /\ render_visible' = render_visible
        /\ callbacks = 1 /\ callbacks - 1 = 0 /\ render(FALSE, callbacks - 1)
    <3>1. callbacks = 1
      BY <1>4 DEF frame_done, ChainInv, OneChain
    <3>2. callbacks - 1 = 0
      BY <3>1
    <3>3. render(FALSE, callbacks - 1)
      BY <1>4 DEF frame_done
    <3>4. /\ phase = "loop" /\ phase' = "loop" /\ running' = running
          /\ render_visible' = render_visible
      BY <1>4 DEF frame_done, shellVars, visibility
    <3> QED  BY <3>1, <3>2, <3>3, <3>4
  <2>2. \/ running /\ render_visible' /\ frames' = 1 - frames /\ callbacks' = 1
        \/ frames' = frames /\ callbacks' = 0
    BY <2>1, RenderDraws
  <2>3. Promise!Fire
    BY <2>1, <2>2 DEF Promise!Fire, Promise!Draw, Promise!Rest, ControlInv
  <2> QED  BY <2>3 DEF Promise!Next
<1>5. CASE VisibilityReport
  <2>1. phase = "loop" /\ phase' = "loop" /\ running' = running
    BY <1>5 DEF VisibilityReport
  <2>2. effective_visible' \in BOOLEAN /\ render_visible' = effective_visible'
    BY <1>5, ReportCopies DEF VisibilityReport
  <2>3. CASE effective_visible' = effective_visible
    <3>1. Still
      BY <1>5, <2>1, <2>2, <2>3
         DEF VisibilityReport, ControlInv, poolVars, chainVars
    <3> QED  BY <1>0, <3>1
  <2>4. CASE effective_visible' # effective_visible
    <3>1. webos_visibility_changed /\ render_visible' # render_visible
      BY <1>5, <2>2, <2>4 DEF VisibilityReport, ControlInv
    <3>2. CASE ~render_visible'
      <4>1. frames' = frames /\ callbacks' # 1
        BY <2>1, <3>1, <3>2 DEF webos_visibility_changed, Chain, poolVars,
           chainVars, ChainInv, OneChain
      <4>2. Promise!Hide
        BY <2>1, <2>2, <3>2, <4>1 DEF Promise!Hide
      <4> QED  BY <4>2 DEF Promise!Next
    <3>3. CASE render_visible'
      <4>1. render_visible = FALSE /\ frame_cb = FALSE /\ callbacks = 0
        BY <2>1, <2>2, <3>1, <3>3 DEF ControlInv, ChainInv, HiddenIsQuiet, OneChain
      <4>2. CASE render(frame_cb, callbacks)
        <5>1. \/ running /\ frames' = 1 - frames /\ callbacks' = 1
              \/ frames' = frames /\ callbacks' = 0
          BY <4>1, <4>2, RenderDraws
        <5>2. Promise!Show
          BY <2>1, <2>2, <3>3, <4>1, <5>1
             DEF Promise!Show, Promise!Draw, Promise!Rest, ControlInv
        <5> QED  BY <5>2 DEF Promise!Next
      <4>3. CASE UNCHANGED <<poolVars, chainVars>>
        <5>1. frames' = frames /\ callbacks' = 0
          BY <4>1, <4>3 DEF poolVars, chainVars
        <5>2. Promise!Show
          BY <2>1, <2>2, <3>3, <4>1, <5>1
             DEF Promise!Show, Promise!Rest, ControlInv
        <5> QED  BY <5>2 DEF Promise!Next
      <4> QED
        BY <3>1, <3>3, <4>2, <4>3 DEF webos_visibility_changed
    <3> QED  BY <3>2, <3>3
  <2> QED  BY <2>3, <2>4
<1>6. ASSUME NEW s \in Sizes, shell_configure(s)
      PROVE  [Promise!Next]_Promise!chain
  <2>1. Still
    BY <1>6 DEF shell_configure, destroy_buffers, shellVars, visibility,
       poolVars, chainVars
  <2> QED  BY <1>0, <2>1
<1>7. ASSUME NEW i \in Bufs, buffer_release(i)
      PROVE  [Promise!Next]_Promise!chain
  <2>1. Still
    BY <1>7 DEF buffer_release, shellVars, visibility, chainVars
  <2> QED  BY <1>0, <2>1
<1>8. CASE CloseRequested
  <2>1. Promise!Close
    BY <1>8 DEF CloseRequested, shellVars, visibility, poolVars, chainVars,
       Promise!Close
  <2> QED  BY <2>1 DEF Promise!Next
<1>9. CASE Exit
  <2>1. /\ phase' = "exited" /\ callbacks' # 1 /\ frames' = frames
        /\ running' = running /\ render_visible' = render_visible
    BY <1>9 DEF Exit, Chain, destroy_buffers, ShellDestroy, visibility,
       ChainInv, OneChain
  <2>2. Promise!End
    BY <2>1 DEF Promise!End
  <2> QED  BY <2>2 DEF Promise!Next
<1>10. CASE UNCHANGED rectVars
  <2>1. Still
    BY <1>10 DEF rectVars, shellVars, visibility, poolVars, chainVars
  <2> QED  BY <1>0, <2>1
<1> QED
  BY <1>1, <1>2, <1>3, <1>4, <1>5, <1>6, <1>7, <1>8, <1>9, <1>10
     DEF RectNext, OtherSteps

\* The CPU renderer keeps the promise about frame pacing, for every number of
\* buffers and every compositor; only it may starve.
THEOREM RectKeepsChain == RectSpec => KeepsChain
<1>1. RectInit => Promise!Init
  BY DEF RectInit, ShellInit, Promise!Init
<1> QED
  BY <1>1, RectStepRefines, RectInvariance, PTL
     DEF RectSpec, KeepsChain, Promise!Spec

-----------------------------------------------------------------------------
(* How many buffers are enough                                             *)

\* A compositor that holds back fewer buffers than the pool has besides the
\* current one leaves next_buffer one to return.
LEMMA EnoughBuffers ==
  ASSUME PoolInv, Prompt, Lag + 1 < NumBufs
  PROVE  NextBuffer # {}
<1>1. held \subseteq Bufs /\ busy = held
  BY DEF PoolInv, BusyIsHeld
<1>2. IsFiniteSet(Bufs) /\ Cardinality(Bufs) = NumBufs
  BY FS_Interval, BufAssumption DEF Bufs
<1>3. IsFiniteSet(held) /\ IsFiniteSet(held \ current)
  BY <1>1, <1>2, FS_Subset
<1>4. Cardinality(held) <= Lag + 1
  <2>1. CASE current \cap held = {}
    <3>1. held \ current = held
      BY <2>1
    <3> QED
      BY <1>3, <3>1, FS_CardinalityType, BufAssumption, SMTT(30) DEF Prompt
  <2>2. CASE current \cap held # {}
    <3>1. PICK c \in Bufs : current = {c}
      BY <2>2 DEF PoolInv
    <3>2. c \in held
      BY <2>2, <3>1
    <3>3. Cardinality(held \ {c}) = Cardinality(held) - 1
      BY <1>3, <3>2, FS_RemoveElement
    <3>4. Cardinality(held) \in Nat
      BY <1>3, FS_CardinalityType
    <3> QED  BY <3>1, <3>3, <3>4, BufAssumption DEF Prompt
  <2> QED  BY <2>1, <2>2
<1>5. PICK i \in Bufs : i \notin held
  <2>1. held # Bufs
    BY <1>2, <1>4, BufAssumption
  <2> QED  BY <1>1, <2>1
<1> DEFINE U == {j \in Bufs : Usable(j)}
           Below(j) == {k \in Bufs : k <= j}
           B == {Below(j) : j \in U}
<1>6. i \in U /\ U \subseteq Nat
  BY <1>1, <1>5, BufAssumption DEF Usable, Bufs
<1>7. PICK m \in U : \A j \in U : m <= j
  <2>1. B \subseteq FiniteSubsetsOf(Bufs) /\ Below(i) \in B
    <3>1. \A j \in U : Below(j) \subseteq Bufs /\ IsFiniteSet(Below(j))
      BY <1>2, FS_Subset
    <3> QED  BY <1>6, <3>1 DEF FiniteSubsetsOf
  <2>2. IsWellFoundedOn(StrictSubsetOrdering(Bufs), FiniteSubsetsOf(Bufs))
    BY FS_StrictSubsetOrderingWellFounded
  <2>3. PICK b \in B : \A c \in B : ~ (<<c, b>> \in StrictSubsetOrdering(Bufs))
    BY <2>1, <2>2, WFMin
  <2>4. PICK m \in U : b = Below(m)
    OBVIOUS
  <2>5. ASSUME NEW j \in U, j < m PROVE FALSE
    <3>1. j \in Bufs /\ m \in Bufs /\ j \in Nat /\ m \in Nat
      BY <1>6
    <3>2. Below(j) \subseteq Below(m) /\ m \in Below(m) /\ m \notin Below(j)
      BY <2>5, <3>1 DEF Bufs
    <3>3. <<Below(j), Below(m)>> \in StrictSubsetOrdering(Bufs)
      BY <3>2 DEF StrictSubsetOrdering
    <3> QED  BY <2>3, <2>4, <3>3
  <2> QED  BY <1>6, <2>5
<1>8. m \in NextBuffer
  BY <1>7 DEF NextBuffer
<1> QED  BY <1>8

\* With Lag + 2 buffers, and memory for them, a visible running renderer is
\* never without its next callback: the animation cannot stall.
THEOREM ChainNeverStalls ==
  ASSUME Lag + 1 < NumBufs, MayFail = FALSE
  PROVE  PromptSpec => []ChainArmed
<1> DEFINE PromptNext == \/ OtherSteps \/ (Prompt /\ VisibilityReport)
                         \/ (Prompt /\ frame_done)
<1> DEFINE SetupShown == phase = "setup" => busy = {}
<1> DEFINE I == RectInv /\ ChainArmed /\ SetupShown
<1>1. RectInit => I
  BY RectInitInv DEF RectInit, ChainArmed
<1>2. ASSUME NextBuffer # {}, running, render_visible',
             NEW armed, NEW live, render(armed, live)
      PROVE  frame_cb' = TRUE
  BY <1>2 DEF render, Discard, Chain
<1>3. I /\ [PromptNext]_rectVars => I'
  <2> SUFFICES ASSUME I, [PromptNext]_rectVars PROVE I'
    OBVIOUS
  <2>1. RectInv'
    <3>1. [RectNext]_rectVars
      BY DEF RectNext
    <3> QED  BY <3>1, RectStep DEF StepGood
  <2>2. CASE Start
    <3>1. Prompt
      <4>1. Cardinality(held \ current) = 0
        BY <2>2, FS_EmptySet DEF Start, RectInv, PoolInv, BusyIsHeld
      <4> QED  BY <4>1, BufAssumption DEF Prompt
    <3>2. NextBuffer # {}
      BY <3>1, EnoughBuffers DEF RectInv
    <3> QED
      BY <1>2, <2>1, <2>2, <3>2 DEF Start, ChainArmed
  <2>3. CASE Prompt /\ frame_done
    <3>1. NextBuffer # {}
      BY <2>3, EnoughBuffers DEF RectInv
    <3>2. phase' = "loop" /\ running' = running /\ render(FALSE, callbacks - 1)
      BY <2>3 DEF frame_done
    <3> QED  BY <1>2, <2>1, <3>1, <3>2 DEF ChainArmed
  <2>4. CASE Prompt /\ VisibilityReport
    <3>1. NextBuffer # {}
      BY <2>4, EnoughBuffers DEF RectInv
    <3>2. phase = "loop" /\ phase' = "loop" /\ running' = running
      BY <2>4 DEF VisibilityReport
    <3>3. ASSUME running, render_visible' PROVE frame_cb'
      <4>1. CASE effective_visible' = effective_visible
        <5>1. UNCHANGED chainVars
          BY <2>4, <4>1 DEF VisibilityReport
        <5>2. render_visible' = effective_visible'
          BY <2>4, ReportCopies DEF VisibilityReport, RectInv
        <5>3. frame_cb
          BY <3>2, <3>3, <4>1, <5>2 DEF ChainArmed, RectInv, ControlInv
        <5> QED  BY <5>1, <5>3 DEF chainVars
      <4>2. CASE effective_visible' # effective_visible
        <5>1. webos_visibility_changed
          BY <2>4, <4>2 DEF VisibilityReport
        <5>2. CASE render(frame_cb, callbacks)
          BY <1>2, <3>1, <3>3, <5>2
        <5>3. CASE frame_cb /\ UNCHANGED chainVars
          BY <5>3 DEF chainVars
        <5> QED
          BY <3>3, <5>1, <5>2, <5>3 DEF webos_visibility_changed
      <4> QED  BY <4>1, <4>2
    <3> QED  BY <2>1, <3>2, <3>3 DEF ChainArmed
  <2>5. CASE BindShell \/ SetupFails
    BY <2>1, <2>5 DEF BindShell, SetupFails, ShellTryBind, shellVars,
       visibility, poolVars, chainVars, ChainArmed
  <2>6. ASSUME NEW s \in Sizes, shell_configure(s) PROVE I'
    BY <2>1, <2>6 DEF shell_configure, shellVars, visibility, chainVars,
       ChainArmed
  <2>7. ASSUME NEW i \in Bufs, buffer_release(i) PROVE I'
    BY <2>1, <2>7 DEF buffer_release, shellVars, visibility, chainVars,
       ChainArmed
  <2>8. CASE CloseRequested \/ Exit
    BY <2>1, <2>8 DEF CloseRequested, Exit, ChainArmed
  <2>9. CASE UNCHANGED rectVars
    BY <2>1, <2>9 DEF rectVars, shellVars, visibility, poolVars, chainVars,
       ChainArmed
  <2> QED
    BY <2>2, <2>3, <2>4, <2>5, <2>6, <2>7, <2>8, <2>9 DEF OtherSteps
<1>4. I => ChainArmed
  OBVIOUS
<1> QED  BY <1>1, <1>3, <1>4, PTL DEF PromptSpec

-----------------------------------------------------------------------------
(* The shell helper                                                        *)

LEMMA RectShell == [RectNext]_rectVars => ShellStep
BY Zenon DEF ShellStep, rectVars, RectNext, OtherSteps, BindShell,
   SetupFails, Start, frame_done, VisibilityReport, shell_configure,
   buffer_release, CloseRequested, Exit

\* The protocol objects are made and given up in order.
THEOREM RectShellTyped == RectSpec => []ShellTypeOK
<1>1. RectInit => ShellInv
  BY ShellStarts DEF RectInit
<1>2. ShellInv /\ [RectNext]_rectVars => ShellInv'
  BY RectShell, ShellKeeps
<1> QED  BY <1>1, <1>2, ShellInvImplies, PTL DEF RectSpec

\* The renderer's flag is the truth about the last two reports, for every
\* list of numbers an exposed event may carry.
THEOREM RectFlagTrue == RectSpec => []VisibilityTracks
<1>1. RectInit => ShellInv
  BY ShellStarts DEF RectInit
<1>2. ShellInv /\ [RectNext]_rectVars => ShellInv'
  BY RectShell, ShellKeeps
<1> QED  BY <1>1, <1>2, ShellInvImplies, PTL DEF RectSpec

=============================================================================
