----------------------------- MODULE WaylandEgl -----------------------------
(***************************************************************************)
(* The GPU renderer, native/wayland_egl.c: choice of an EGL configuration, *)
(* the frame chain around eglSwapBuffers, the lifecycle reports of         *)
(* WebosShell, the input callbacks as far as they count, and the latency   *)
(* trace with its serial numbers and sample arrays.                        *)
(*                                                                         *)
(* EGL and the compositor are the environment.  eglSwapBuffers waits for a *)
(* buffer by itself, so unlike WaylandRect drawing never lacks one; it may *)
(* fail.  EGL may dispatch events while it initialises.                    *)
(*                                                                         *)
(* Left out: shaders, what is drawn, theme, offsets and sizes, and the     *)
(* clock: of last_callback_sec only that a callback has been seen is kept, *)
(* and of a latency sample the serial of the input it is measured from.    *)
(***************************************************************************)
EXTENDS WebosShell

CONSTANTS
  Offers,      \* lists of configurations eglGetConfigs may return
  Modes,       \* values of EGL_COLOR_MODE after validation
  MaxSamples,  \* EGL_LATENCY_MAX_SAMPLES
  MaxInputs    \* bound: input events in one run

ConfigType ==
  [window : BOOLEAN, gles2 : BOOLEAN, slow : BOOLEAN,
   red : Nat, green : Nat, blue : Nat, alpha : Nat, depth : Nat, stencil : Nat]

ASSUME EglAssumption ==
  /\ \A offer \in Offers : offer \in Seq(ConfigType)
  /\ Modes \subseteq {"auto", "565", "rgb888", "8888"}
  /\ MaxSamples \in Nat /\ MaxInputs \in Nat

VARIABLES
  phase,       \* "setup", "attached", "loop", "exited"
  running,
  color_mode,
  offer,       \* what the driver offers; forgotten once a choice is made
  egl_config,  \* {} or the chosen configuration
  frame_cb,    \* a frame callback is pointed to
  callbacks,   \* live wl_callback objects
  latency_trace,
  input_serial, rendered_input_serial,
  seen_callback,   \* last_callback_sec > 0
  callback_count,  \* of intervals between callbacks
  input_submit_samples, input_swap_samples, input_callback_samples,
  frames,      \* history: frames committed, modulo 2
  unshown,     \* history: an input came after the last frame was rendered
  batches      \* history: the last input of each frame that was the first to
               \* show some

chainVars   == <<frame_cb, callbacks, frames>>
configVars  == <<color_mode, offer, egl_config>>
shownVars   == <<unshown, batches>>
serialVars  == <<input_serial, shownVars>>
renderTrace == <<rendered_input_serial, input_submit_samples, input_swap_samples>>
cbTrace     == <<seen_callback, callback_count, input_callback_samples>>
eglVars == <<shellVars, phase, running, configVars, chainVars, latency_trace,
             serialVars, renderTrace, cbTrace>>

EglInit ==
  /\ ShellInit
  /\ phase = "setup" /\ running = TRUE
  /\ color_mode \in Modes /\ offer \in Offers /\ egl_config = {}
  /\ frame_cb = FALSE /\ callbacks = 0 /\ frames = 0
  /\ latency_trace \in BOOLEAN
  /\ input_serial = 0 /\ rendered_input_serial = 0
  /\ unshown = FALSE /\ batches = <<>>
  /\ seen_callback = FALSE /\ callback_count = 0
  /\ input_submit_samples = <<>> /\ input_swap_samples = <<>>
  /\ input_callback_samples = <<>>

-----------------------------------------------------------------------------
(* The configuration                                                       *)

Bits(c, r, g, b) == c.red >= r /\ c.green >= g /\ c.blue >= b

Eligible(c) ==
  /\ c.window /\ c.gles2 /\ ~c.slow
  /\ CASE color_mode = "565"    -> Bits(c, 5, 6, 5) /\ c.alpha = 0
       [] color_mode = "rgb888" -> Bits(c, 8, 8, 8) /\ c.alpha = 0
       [] color_mode = "8888"   -> Bits(c, 8, 8, 8) /\ c.alpha >= 8
       [] color_mode = "auto"   -> Bits(c, 8, 8, 8)

\* Mutant: no bonus for an opaque configuration.
Score_NoBonus(c) ==
  0 - 10 * (c.alpha + c.depth + c.stencil) - (c.red + c.green + c.blue - 24)

Score(c) ==
  (IF \/ color_mode = "auto" /\ c.alpha = 0
      \/ color_mode = "565" /\ <<c.red, c.green, c.blue>> = <<5, 6, 5>>
   THEN 10000 ELSE 0)
  - (100 * c.alpha + 10 * c.depth + 10 * c.stencil)
  - (c.red + c.green + c.blue - 24)

\* The first of the eligible configurations with the best score.
choose_config ==
  {offer[i] : i \in {k \in DOMAIN offer :
     /\ Eligible(offer[k])
     /\ \A j \in DOMAIN offer : Eligible(offer[j]) =>
          \/ Score(offer[j]) < Score(offer[k])
          \/ Score(offer[j]) = Score(offer[k]) /\ k <= j}}

-----------------------------------------------------------------------------
(* Rendering                                                               *)

Chain(armed, live) == frame_cb' = armed /\ callbacks' = live

\* latency_record: a full array takes no more samples.
latency_record(samples) ==
  IF Len(samples) < MaxSamples THEN Append(samples, input_serial) ELSE samples

\* Mutant: the serial is taken as rendered only when the arrays have room.
TraceRender_WhenRoom ==
  IF /\ latency_trace /\ input_serial # rendered_input_serial
     /\ Len(input_submit_samples) < MaxSamples
  THEN /\ rendered_input_serial' = input_serial
       /\ input_submit_samples' = latency_record(input_submit_samples)
       /\ input_swap_samples' = latency_record(input_swap_samples)
  ELSE UNCHANGED renderTrace

\* The samples of a frame that is the first to show some input.
TraceRender ==
  IF latency_trace /\ input_serial # rendered_input_serial
  THEN /\ rendered_input_serial' = input_serial
       /\ input_submit_samples' = latency_record(input_submit_samples)
       /\ input_swap_samples' = latency_record(input_swap_samples)
  ELSE UNCHANGED renderTrace

\* render, where armed tells whether frame_cb points to one of the live
\* callbacks: it is replaced before the buffers are swapped.  A failing
\* eglSwapBuffers ends the loop, with the callback requested all the same.
render(armed, live) ==
  \/ /\ running /\ render_visible'
     /\ Chain(TRUE, IF armed THEN live ELSE live + 1)
     /\ frames' = 1 - frames
     /\ running' \in BOOLEAN
     /\ unshown' = FALSE
     /\ batches' = IF unshown THEN Append(batches, input_serial) ELSE batches
     /\ TraceRender
  \/ /\ ~running \/ ~render_visible'
     /\ Chain(armed, live)
     /\ UNCHANGED <<frames, running, shownVars, renderTrace>>

\* The interval to the last callback, and the age of input not yet rendered:
\* the frame that will show it is requested after this, by render.
TraceCallback ==
  IF latency_trace
  THEN /\ seen_callback' = TRUE
       /\ callback_count' = IF seen_callback /\ callback_count < MaxSamples
                            THEN callback_count + 1 ELSE callback_count
       /\ input_callback_samples' =
            IF input_serial # rendered_input_serial
            THEN latency_record(input_callback_samples) ELSE input_callback_samples
  ELSE UNCHANGED cbTrace

\* Mutant: the pointer still holds the destroyed callback when it renders.
frame_done_KeepsPointer ==
  /\ phase = "loop" /\ frame_cb
  /\ UNCHANGED <<shellVars, phase, configVars, latency_trace, input_serial>>
  /\ TraceCallback
  /\ render(TRUE, callbacks - 1)

frame_done ==
  /\ phase = "loop" /\ frame_cb
  /\ UNCHANGED <<shellVars, phase, configVars, latency_trace, input_serial>>
  /\ TraceCallback
  /\ render(FALSE, callbacks - 1)

-----------------------------------------------------------------------------
(* Visibility, input, close                                                *)

\* Mutant: becoming visible does not restart the chain.
webos_visibility_changed_NoRestart ==
  IF ~render_visible' /\ frame_cb
  THEN Chain(FALSE, callbacks - 1) /\ UNCHANGED <<running, frames, shownVars, renderTrace>>
  ELSE UNCHANGED <<running, chainVars, shownVars, renderTrace>>

\* The handler update_visibility runs when the flag changes.  Before there is
\* an EGL context it only notes the flag.
webos_visibility_changed ==
  \/ /\ ~render_visible' /\ frame_cb
     /\ Chain(FALSE, callbacks - 1)
     /\ UNCHANGED <<running, frames, shownVars, renderTrace>>
  \/ /\ render_visible' /\ running /\ ~frame_cb /\ phase = "loop"
     /\ render(frame_cb, callbacks)
  \/ /\ IF render_visible' THEN ~running \/ frame_cb \/ phase # "loop"
        ELSE ~frame_cb
     /\ UNCHANGED <<running, chainVars, shownVars, renderTrace>>

\* A state or exposed event, and all it causes.
VisibilityReport ==
  /\ phase \in {"attached", "loop"}
  /\ \/ \E s \in ShellStates : handle_state_changed(s)
     \/ \E values \in Exposures : handle_exposed(values)
  /\ IF effective_visible' # effective_visible
     THEN webos_visibility_changed
     ELSE UNCHANGED <<running, chainVars, shownVars, renderTrace>>
  /\ UNCHANGED <<phase, configVars, latency_trace, input_serial, cbTrace>>

\* Pointer enter, motion or left button, a key; Esc and Back end the loop.
\* (Leave, other buttons and releases count as no input.)
Input ==
  /\ phase = "loop" /\ input_serial < MaxInputs
  /\ input_serial' = input_serial + 1
  /\ unshown' = TRUE /\ batches' = batches
  /\ running' \in {running, FALSE}
  /\ UNCHANGED <<shellVars, phase, configVars, chainVars, latency_trace,
                 renderTrace, cbTrace>>

webos_close_requested ==
  /\ phase \in {"attached", "loop"} /\ surface
  /\ running' = FALSE
  /\ UNCHANGED <<shellVars, phase, configVars, chainVars, latency_trace,
                 serialVars, renderTrace, cbTrace>>

-----------------------------------------------------------------------------
(* main                                                                    *)

BindShell ==
  /\ phase # "exited"
  /\ \E v \in 0 .. 2 : ShellTryBind(v)
  /\ UNCHANGED <<phase, running, configVars, chainVars, latency_trace,
                 serialVars, renderTrace, cbTrace>>

AttachSurface ==
  /\ phase = "setup" /\ phase' = "attached"
  /\ Attach
  /\ UNCHANGED <<running, configVars, chainVars, latency_trace, serialVars,
                 renderTrace, cbTrace>>

\* The registry lacks a global, or some step of init_egl fails, whether or
\* not a configuration is found: main returns without teardown.
SetupFails ==
  /\ phase \in {"setup", "attached"}
  /\ phase' = "exited"
  /\ UNCHANGED <<shellVars, running, configVars, chainVars, latency_trace,
                 serialVars, renderTrace, cbTrace>>

\* init_egl succeeds and the first frame is rendered.
Start ==
  /\ phase = "attached" /\ choose_config # {}
  /\ phase' = "loop"
  /\ egl_config' = choose_config /\ offer' = <<>>
  /\ UNCHANGED shellVars
  /\ render(frame_cb, callbacks)
  /\ UNCHANGED <<color_mode, latency_trace, input_serial, cbTrace>>

\* Mutant: teardown forgets the pending callback.
Exit_KeepsCallback ==
  /\ phase = "loop" /\ phase' = "exited"
  /\ UNCHANGED chainVars
  /\ ShellDestroy
  /\ UNCHANGED <<running, configVars, latency_trace, serialVars, renderTrace, cbTrace>>

\* The loop is left when running is 0, or on a dispatch error at any time.
Exit ==
  /\ phase = "loop" /\ phase' = "exited"
  /\ Chain(frame_cb, IF frame_cb THEN callbacks - 1 ELSE callbacks)
  /\ ShellDestroy
  /\ UNCHANGED <<running, frames, configVars, latency_trace, serialVars,
                 renderTrace, cbTrace>>

EglNext ==
  \/ BindShell \/ AttachSurface \/ SetupFails \/ Start
  \/ frame_done \/ VisibilityReport \/ Input \/ webos_close_requested
  \/ Exit

\* A compositor fires the callback of a surface it shows.
EglSpec == EglInit /\ [][EglNext]_eglVars /\ WF_eglVars(frame_done)

-----------------------------------------------------------------------------

EglTypeOK ==
  /\ phase \in {"setup", "attached", "loop", "exited"}
  /\ running \in BOOLEAN /\ latency_trace \in BOOLEAN
  /\ frame_cb \in BOOLEAN /\ callbacks \in 0 .. 1 /\ frames \in 0 .. 1
  /\ input_serial \in 0 .. MaxInputs
  /\ rendered_input_serial \in 0 .. input_serial
  /\ callback_count \in 0 .. MaxSamples
  /\ \A samples \in {input_submit_samples, input_swap_samples, input_callback_samples} :
       samples \in Seq(1 .. MaxInputs) /\ Len(samples) <= MaxSamples
  /\ seen_callback \in BOOLEAN /\ unshown \in BOOLEAN

\* One callback object while the chain is armed and none otherwise, after
\* failed swaps, visibility changes in mid-frame and teardown included; a
\* running renderer that is shown is always armed, with no assumption about
\* the compositor, and a hidden one never.
EglOneChain ==
  /\ callbacks = IF frame_cb /\ phase # "exited" THEN 1 ELSE 0
  /\ phase = "loop" /\ running => frame_cb = render_visible

\* The renderer implements the promise about frame pacing, never starving.
Promise == INSTANCE FrameChain WITH
  MayStarve <- FALSE,
  part <- CASE phase \in {"setup", "attached"} -> "before"
            [] phase = "loop" -> "on"
            [] phase = "exited" -> "over",
  shown <- render_visible, open <- running, armed <- callbacks = 1
KeepsChain == Promise!Spec

\* An input that arrives while the surface is shown is on some frame
\* submitted later, unless the surface is hidden or the renderer ends first.
InputIsRendered ==
  unshown ~> (~unshown \/ ~render_visible \/ ~running \/ phase # "loop")

\* The samples are of the first entries of seq.
OfFirst(samples, seq) ==
  /\ Len(samples) = IF Len(seq) < MaxSamples THEN Len(seq) ELSE MaxSamples
  /\ \A i \in 1 .. Len(samples) : samples[i] = seq[i]

Among(serial, seq) == \E i \in 1 .. Len(seq) : seq[i] = serial

\* The latency trace, across hidden periods, failed swaps and full arrays: the
\* serials differ exactly while some input waits for its frame; the submit and
\* the swap samples are, one for one and in order, of the first frames to show
\* new input, each of the last input it shows; the callback samples are of some
\* of these, each at most once, but for a last one taken when the renderer was
\* stopped and its frame never came.  (docs/ARCHITECTURE.md:201-203 has the
\* callback follow submit and swap; frame_done takes its sample before the
\* frame that shows the input, so of the callback before that frame.)
SamplesPaired ==
  latency_trace =>
    /\ unshown <=> input_serial # rendered_input_serial
    /\ OfFirst(input_submit_samples, batches)
    /\ OfFirst(input_swap_samples, batches)
    /\ \A i \in 1 .. Len(input_callback_samples) :
         /\ \A j \in 1 .. i - 1 : input_callback_samples[j] < input_callback_samples[i]
         /\ \/ Among(input_callback_samples[i], batches)
            \/ ~running /\ i = Len(input_callback_samples)

Plain(c) == c.depth = 0 /\ c.stencil = 0

\* The preferences of docs/ARCHITECTURE.md:91-106 hold of the weighted score:
\* a chosen configuration is suitable; in the default mode it is opaque if an
\* opaque one is offered, and among the opaque ones plain if a plain one is,
\* and among the opaque and plain ones no larger than any.
ConfigPreference ==
  [][\A c \in egl_config' \ egl_config :
       /\ c.window /\ c.gles2 /\ ~c.slow
       /\ color_mode = "auto" =>
          LET fit    == {offer[i] : i \in {k \in DOMAIN offer : Eligible(offer[k])}}
              opaque == {d \in fit : d.alpha = 0}
              plain  == {d \in opaque : Plain(d)}
          IN /\ c \in fit
             /\ opaque # {} => c \in opaque
             /\ plain # {} => c \in plain
             /\ \A d \in plain :
                  c.red + c.green + c.blue <= d.red + d.green + d.blue]_eglVars

=============================================================================
