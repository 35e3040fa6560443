----------------------------- MODULE StressLoop -----------------------------
(***************************************************************************)
(* The loops of the stress renderer, native/wayland_egl_stress.c, in its   *)
(* four pacings.  With "frame" it sleeps in wl_display_dispatch and draws  *)
(* from callbacks like the other renderers.  With "swap", "offscreen" and  *)
(* "pbuffer" it draws in every pass and then runs                          *)
(* wl_display_dispatch_pending, which handles what is queued but never     *)
(* reads the socket: an event is handled only if EGL's own reading, when   *)
(* it is set up or swaps buffers, has queued it.                           *)
(*                                                                         *)
(* EGL, the compositor and the clock are the environment.  Left out: the   *)
(* GPU work and its timers (see GpuTimerRing), the metrics, sizes, the     *)
(* pointer and the theme.                                                  *)
(***************************************************************************)
EXTENDS WebosShell

VARIABLES
  pacing,      \* "frame", "swap", "offscreen", "pbuffer"
  multipass,   \* the workload draws through a framebuffer of its own
  timed,       \* duration_sec > 0
  expired,     \* ... and it has passed
  phase,       \* "setup", "attached", "loop", "exited"
  running,
  turn,        \* other than with "frame": the loop's next step
  queued,      \* ... and whether events may wait in the queue
  frame_cb,    \* a frame callback is pointed to
  callbacks,   \* live wl_callback objects
  frames       \* history: frames drawn, modulo 2

settings  == <<pacing, multipass, timed>>
chainVars == <<frame_cb, callbacks, frames>>
loopVars  == <<turn, queued>>
stressVars == <<shellVars, settings, expired, phase, running, loopVars, chainVars>>

StressInit ==
  /\ ShellInit
  /\ pacing \in {"frame", "swap", "offscreen", "pbuffer"}
  /\ multipass \in BOOLEAN /\ timed \in BOOLEAN /\ expired = FALSE
  /\ phase = "setup" /\ running = TRUE
  /\ turn = "render" /\ queued = FALSE
  /\ frame_cb = FALSE /\ callbacks = 0 /\ frames = 0

Expire ==
  /\ timed /\ phase = "loop" /\ ~expired
  /\ expired' = TRUE
  /\ UNCHANGED <<shellVars, settings, phase, running, loopVars, chainVars>>

-----------------------------------------------------------------------------
(* Rendering                                                               *)

Presents == pacing \in {"frame", "swap"}

Chain(armed, live) == frame_cb' = armed /\ callbacks' = live

\* A frame: with "frame" pacing the callback armed points to is replaced; a
\* failing eglSwapBuffers ends the loop.  Swapping may queue events.
Draw(armed, live) ==
  /\ IF pacing = "frame" THEN Chain(TRUE, IF armed THEN live ELSE live + 1)
     ELSE Chain(armed, live)
  /\ frames' = 1 - frames
  /\ running' \in IF Presents THEN BOOLEAN ELSE {TRUE}
  /\ queued' \in IF pacing = "swap" THEN {queued, TRUE} ELSE {queued}

\* Mutant: visibility is looked at before the duration.
render_HiddenFirst(armed, live) ==
  \/ /\ Presents /\ ~render_visible'
     /\ Chain(armed, live) /\ UNCHANGED <<running, queued, frames>>
  \/ /\ Presents => render_visible'
     /\ ~running \/ expired \/ (Presents /\ multipass)
     /\ running' = FALSE
     /\ Chain(armed, live) /\ UNCHANGED <<queued, frames>>
  \/ /\ running /\ ~expired
     /\ Presents => render_visible' /\ ~multipass
     /\ Draw(armed, live)

\* render, where armed tells whether frame_cb points to one of the live
\* callbacks.  A window has no framebuffer for the multipass workloads.
render(armed, live) ==
  \/ /\ \/ ~running \/ expired
        \/ Presents /\ render_visible' /\ multipass
     /\ running' = FALSE
     /\ Chain(armed, live) /\ UNCHANGED <<queued, frames>>
  \/ /\ running /\ ~expired
     /\ Presents /\ ~render_visible'
     /\ Chain(armed, live) /\ UNCHANGED <<running, queued, frames>>
  \/ /\ running /\ ~expired
     /\ Presents => render_visible' /\ ~multipass
     /\ Draw(armed, live)

\* Mutant: the pointer still holds the destroyed callback when it renders.
frame_done_KeepsPointer ==
  /\ phase = "loop" /\ frame_cb
  /\ UNCHANGED <<shellVars, settings, expired, phase, turn>>
  /\ render(TRUE, callbacks - 1)

frame_done ==
  /\ phase = "loop" /\ frame_cb
  /\ UNCHANGED <<shellVars, settings, expired, phase, turn>>
  /\ \/ running /\ render_visible /\ render(FALSE, callbacks - 1)
     \/ /\ ~running \/ ~render_visible
        /\ Chain(FALSE, callbacks - 1) /\ UNCHANGED <<running, queued, frames>>

-----------------------------------------------------------------------------
(* Events                                                                  *)

\* When the default queue is being dispatched.
Heard ==
  \/ phase = "attached"
  \/ phase = "loop" /\ (pacing = "frame" \/ (turn = "dispatch" /\ queued))

\* Mutant: becoming visible does not restart the chain.
webos_visibility_changed_NoRestart ==
  /\ IF ~render_visible' /\ frame_cb
     THEN Chain(FALSE, callbacks - 1) ELSE Chain(frame_cb, callbacks)
  /\ UNCHANGED <<running, queued, frames>>

\* Mutant: the callback of a hidden surface stays.
webos_visibility_changed_KeepsCallback ==
  \/ /\ render_visible' /\ running /\ ~frame_cb /\ phase = "loop"
     /\ render(frame_cb, callbacks)
  \/ /\ ~render_visible' \/ ~running \/ frame_cb \/ phase # "loop"
     /\ UNCHANGED <<running, queued, chainVars>>

\* The handler update_visibility runs when the flag changes; it renders in
\* every pacing.
webos_visibility_changed ==
  \/ /\ ~render_visible' /\ frame_cb
     /\ Chain(FALSE, callbacks - 1) /\ UNCHANGED <<running, queued, frames>>
  \/ /\ render_visible' /\ running /\ ~frame_cb /\ phase = "loop"
     /\ render(frame_cb, callbacks)
  \/ /\ IF render_visible' THEN ~running \/ frame_cb \/ phase # "loop"
        ELSE ~frame_cb
     /\ UNCHANGED <<running, queued, chainVars>>

VisibilityReport ==
  /\ Heard
  /\ \/ \E s \in ShellStates : handle_state_changed(s)
     \/ \E values \in Exposures : handle_exposed(values)
  /\ IF effective_visible' # effective_visible
     THEN webos_visibility_changed
     ELSE UNCHANGED <<running, queued, chainVars>>
  /\ UNCHANGED <<settings, expired, phase, turn>>

webos_close_requested ==
  /\ Heard /\ surface
  /\ running' = FALSE
  /\ UNCHANGED <<shellVars, settings, expired, phase, loopVars, chainVars>>

\* Esc or Back is pressed.
input_keyboard_key ==
  /\ Heard
  /\ running' = FALSE
  /\ UNCHANGED <<shellVars, settings, expired, phase, loopVars, chainVars>>

-----------------------------------------------------------------------------
(* main                                                                    *)

BindShell ==
  /\ phase = "setup" \/ Heard
  /\ \E v \in 0 .. 2 : ShellTryBind(v)
  /\ UNCHANGED <<settings, expired, phase, running, loopVars, chainVars>>

\* EGL, as it is set up, may read the socket and leave events in the queue.
AttachSurface ==
  /\ phase = "setup" /\ phase' = "attached"
  /\ Attach
  /\ queued' \in BOOLEAN
  /\ UNCHANGED <<settings, expired, running, turn, chainVars>>

\* A global is missing, or some step of init_egl fails: main returns at once.
SetupFails ==
  /\ phase \in {"setup", "attached"}
  /\ phase' = "exited"
  /\ UNCHANGED <<shellVars, settings, expired, running, loopVars, chainVars>>

\* init_egl succeeds; the first frame is rendered before the loop.
Start ==
  /\ phase = "attached" /\ phase' = "loop"
  /\ UNCHANGED <<shellVars, settings, expired, turn>>
  /\ render(frame_cb, callbacks)

\* The pass of the loop that does not sleep.
LoopPass ==
  /\ phase = "loop" /\ pacing # "frame" /\ running
  /\ turn = "render" /\ turn' = "dispatch"
  /\ UNCHANGED <<shellVars, settings, expired, phase>>
  /\ render(frame_cb, callbacks)

\* wl_display_dispatch_pending finds no more events.
Dispatched ==
  /\ phase = "loop" /\ turn = "dispatch" /\ turn' = "render"
  /\ queued' = FALSE
  /\ UNCHANGED <<shellVars, settings, expired, phase, running, chainVars>>

\* The drain of the timers (see GpuTimerRing), and teardown.
Leave ==
  /\ phase = "loop" /\ phase' = "exited"
  /\ Chain(frame_cb, IF frame_cb THEN callbacks - 1 ELSE callbacks)
  /\ ShellDestroy
  /\ UNCHANGED <<settings, expired, running, loopVars, frames>>

Exit == ~running /\ turn = "render" /\ Leave

\* The other way out of the loop with "frame" pacing; the passes of the other
\* loop do not look at errors.
DispatchFails == pacing = "frame" /\ Leave

StressNext ==
  \/ Expire \/ BindShell \/ AttachSurface \/ SetupFails \/ Start
  \/ frame_done \/ VisibilityReport \/ webos_close_requested
  \/ input_keyboard_key \/ LoopPass \/ Dispatched \/ Exit \/ DispatchFails

\* Time passes, a compositor fires the callback of a surface it shows, EGL
\* returns, and the queue runs empty: each event is read once.
Fairness ==
  /\ WF_stressVars(Expire) /\ WF_stressVars(frame_done)
  /\ WF_stressVars(LoopPass) /\ WF_stressVars(Dispatched)
  /\ WF_stressVars(Exit)

StressSpec == StressInit /\ [][StressNext]_stressVars /\ Fairness

-----------------------------------------------------------------------------

StressTypeOK ==
  /\ pacing \in {"frame", "swap", "offscreen", "pbuffer"}
  /\ multipass \in BOOLEAN /\ timed \in BOOLEAN /\ expired \in BOOLEAN
  /\ phase \in {"setup", "attached", "loop", "exited"}
  /\ running \in BOOLEAN /\ queued \in BOOLEAN
  /\ turn \in {"render", "dispatch"}
  /\ frame_cb \in BOOLEAN /\ callbacks \in 0 .. 1 /\ frames \in 0 .. 1

\* One callback object while the chain is armed and none otherwise, through
\* failing swaps, visibility reports and teardown.  With "frame" pacing the
\* loop sleeps with a callback armed exactly when the surface is shown; the
\* other pacings never have one, also where a report draws out of turn.
StressOneChain ==
  /\ callbacks = IF frame_cb /\ phase # "exited" THEN 1 ELSE 0
  /\ phase = "loop" /\ running => frame_cb = (pacing = "frame" /\ render_visible)

\* With "frame" pacing the renderer implements the promise about frames; with
\* the others it is left out of it.
Framed(value, idle) == IF pacing = "frame" THEN value ELSE idle
Promise == INSTANCE FrameChain WITH
  MayStarve <- FALSE,
  part <- Framed(CASE phase \in {"setup", "attached"} -> "before"
                   [] phase = "loop" -> "on"
                   [] phase = "exited" -> "over", "before"),
  shown <- Framed(render_visible, TRUE), open <- Framed(running, TRUE),
  armed <- Framed(callbacks = 1, FALSE), frames <- Framed(frames, 0)
StressKeepsChain == Promise!Spec

\* A renderer with a duration leaves its loop, whatever visibility does and
\* though nobody speaks to it, but for one case: with "frame" pacing it sleeps
\* as long as the surface stays hidden.
EndsAtDuration ==
  <>[](phase = "loop" /\ timed) => <>[](pacing = "frame" /\ ~render_visible)

=============================================================================
