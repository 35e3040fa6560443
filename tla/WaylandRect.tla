----------------------------- MODULE WaylandRect ----------------------------
(***************************************************************************)
(* The CPU renderer, native/wayland_rect.c: a pool of NUM_BUFS shared      *)
(* memory buffers, one chain of wl_surface.frame callbacks that drives the *)
(* animation, the visibility reports of WebosShell that suspend and resume *)
(* it, and the dispatch loop up to teardown.                               *)
(*                                                                         *)
(* The compositor is the environment: it holds the buffer of the last      *)
(* commit (current) and those it has replaced but not yet released, fires  *)
(* frame callbacks, configures sizes and reports state and exposure.  The  *)
(* handlers run one at a time, in the dispatch loop.                       *)
(*                                                                         *)
(* Left out as data: what paint draws, the theme and the frame number (see *)
(* RectPointer for the pointer and the dragged window).                    *)
(***************************************************************************)
EXTENDS WebosShell, FiniteSets

CONSTANTS
  NumBufs,   \* NUM_BUFS
  Sizes,     \* surface sizes the compositor may configure
  NoSize,    \* marks a slot without a buffer
  MayFail,   \* TRUE: init_buffer may fail (no space, no memory)
  Lag        \* PromptSpec: replaced buffers the compositor may keep back

ASSUME BufAssumption ==
  /\ NumBufs \in Nat \ {0} /\ Lag \in Nat
  /\ Sizes # {} /\ NoSize \notin Sizes
  /\ MayFail \in BOOLEAN

Bufs == 1 .. NumBufs

VARIABLES
  phase,     \* "setup", "loop", "exited"
  running,
  frame,     \* frame number, modulo 2
  size,      \* width and height
  dims,      \* slot -> size of its buffer, or NoSize
  busy,      \* slots marked busy
  frame_cb,  \* a frame callback is pointed to
  callbacks, \* live wl_callback objects of this client
  held,      \* slots whose buffer the compositor may still read
  current,   \* {} or the slot of the last commit
  torn,      \* history: paint has written to a buffer that was held
  frames     \* history: frames committed, modulo 2

poolVars  == <<dims, busy, held, current, torn, frames>>
chainVars == <<frame_cb, callbacks>>
rectVars  == <<shellVars, phase, running, frame, size, poolVars, chainVars>>

RectInit ==
  /\ ShellInit
  /\ phase = "setup" /\ running = TRUE /\ frame = 0
  /\ size \in Sizes
  /\ dims = [i \in Bufs |-> NoSize]
  /\ busy = {} /\ held = {} /\ current = {} /\ torn = FALSE /\ frames = 0
  /\ frame_cb = FALSE /\ callbacks = 0

-----------------------------------------------------------------------------
(* The buffer pool                                                         *)

\* next_buffer stops at slot i: its buffer is missing, has another size, or
\* is not busy.
Usable(i) == dims[i] # size \/ i \notin busy

\* The slot next_buffer stops at: {} when every buffer is busy.
NextBuffer == {i \in Bufs : Usable(i) /\ \A j \in Bufs : Usable(j) => i <= j}

\* Mutant: the buffer is not marked busy.
Submit_NotMarked(i) ==
  /\ dims' = [dims EXCEPT ![i] = size]
  /\ busy' = busy
  /\ held' = held \cup {i}
  /\ current' = {i}
  /\ torn' = (torn \/ (dims[i] = size /\ i \in held))
  /\ frames' = 1 - frames

\* Make the buffer of slot i if need be, paint it, mark it busy, commit it.
Submit(i) ==
  /\ dims' = [dims EXCEPT ![i] = size]
  /\ busy' = busy \cup {i}
  /\ held' = held \cup {i}
  /\ current' = {i}
  /\ torn' = (torn \/ (dims[i] = size /\ i \in held))
  /\ frames' = 1 - frames

\* A slot of another size loses its buffer before a new one is made; if that
\* fails the slot stays empty.
Discard(i) ==
  /\ dims[i] # size /\ MayFail
  /\ dims' = [dims EXCEPT ![i] = NoSize]
  /\ busy' = busy \ {i}
  /\ held' = held \ {i}
  /\ current' = current \ {i}
  /\ UNCHANGED <<torn, frames>>

\* destroy_buffers: nothing more is heard of a destroyed wl_buffer.
destroy_buffers ==
  /\ dims' = [i \in Bufs |-> NoSize]
  /\ busy' = {} /\ held' = {} /\ current' = {}
  /\ UNCHANGED <<torn, frames>>

-----------------------------------------------------------------------------
(* Rendering                                                               *)

\* The callback pointer and the number of callback objects.
Chain(armed, live) == frame_cb' = armed /\ callbacks' = live

\* Mutant: neither running nor visibility is looked at.
render_Unseen(armed, live) ==
  \/ \E i \in NextBuffer :
       \/ Submit(i) /\ Chain(TRUE, IF armed THEN live ELSE live + 1)
       \/ Discard(i) /\ Chain(armed, live)
  \/ NextBuffer = {} /\ Chain(armed, live) /\ UNCHANGED poolVars

\* Mutant: a frame is submitted without a request for the next callback.
render_NoRequest(armed, live) ==
  \/ /\ running /\ render_visible'
     /\ \E i \in NextBuffer : (Submit(i) \/ Discard(i)) /\ Chain(armed, live)
  \/ /\ ~running \/ ~render_visible' \/ NextBuffer = {}
     /\ Chain(armed, live)
     /\ UNCHANGED poolVars

\* render, where armed tells whether frame_cb points to one of the live
\* callbacks.  A submitted frame replaces the callback; a renderer that is
\* closing, hidden or without a buffer returns before it requests one.
render(armed, live) ==
  \/ /\ running /\ render_visible'
     /\ \E i \in NextBuffer :
          \/ Submit(i) /\ Chain(TRUE, IF armed THEN live ELSE live + 1)
          \/ Discard(i) /\ Chain(armed, live)
  \/ /\ ~running \/ ~render_visible' \/ NextBuffer = {}
     /\ Chain(armed, live)
     /\ UNCHANGED poolVars

\* Mutant: the callback that fired is not destroyed.
frame_done_Leaks ==
  /\ phase = "loop" /\ frame_cb
  /\ UNCHANGED <<shellVars, phase, running, size>>
  /\ frame' = IF running /\ render_visible THEN 1 - frame ELSE frame
  /\ render(FALSE, callbacks)

\* The callback that fired is destroyed and the next frame is rendered.
frame_done ==
  /\ phase = "loop" /\ frame_cb
  /\ UNCHANGED <<shellVars, phase, running, size>>
  /\ frame' = IF running /\ render_visible THEN 1 - frame ELSE frame
  /\ render(FALSE, callbacks - 1)

-----------------------------------------------------------------------------
(* Visibility, size, release, close                                        *)

\* Mutant: becoming hidden leaves the callback armed.
webos_visibility_changed_KeepsCallback ==
  \/ render_visible' /\ running /\ ~frame_cb /\ render(frame_cb, callbacks)
  \/ ~(render_visible' /\ running /\ ~frame_cb) /\ UNCHANGED <<poolVars, chainVars>>

\* The handler update_visibility runs when the flag changes.
webos_visibility_changed ==
  \/ ~render_visible' /\ frame_cb /\ Chain(FALSE, callbacks - 1) /\ UNCHANGED poolVars
  \/ render_visible' /\ running /\ ~frame_cb /\ render(frame_cb, callbacks)
  \/ /\ IF render_visible' THEN ~running \/ frame_cb ELSE ~frame_cb
     /\ UNCHANGED <<poolVars, chainVars>>

\* A state or exposed event, and all it causes.
VisibilityReport ==
  /\ phase = "loop"
  /\ \/ \E s \in ShellStates : handle_state_changed(s)
     \/ \E values \in Exposures : handle_exposed(values)
  /\ IF effective_visible' # effective_visible
     THEN webos_visibility_changed
     ELSE UNCHANGED <<poolVars, chainVars>>
  /\ UNCHANGED <<phase, running, frame, size>>

\* A new size drops every buffer, also those the compositor holds; the
\* armed chain makes new ones.
shell_configure(s) ==
  /\ phase = "loop"
  /\ size' = s
  /\ IF s # size THEN destroy_buffers ELSE UNCHANGED poolVars
  /\ UNCHANGED <<shellVars, phase, running, frame, chainVars>>

\* The compositor gives a buffer back; buffer_release does not render.
buffer_release(i) ==
  /\ phase = "loop" /\ i \in held
  /\ held' = held \ {i}
  /\ busy' = busy \ {i}
  /\ UNCHANGED <<shellVars, phase, running, frame, size, dims, current, torn,
                 frames, chainVars>>

\* Close event, Esc or Back key, or the close button of the drawn window.
CloseRequested ==
  /\ phase = "loop"
  /\ running' = FALSE
  /\ UNCHANGED <<shellVars, phase, frame, size, poolVars, chainVars>>

-----------------------------------------------------------------------------
(* main                                                                    *)

\* wl_webos_shell is announced, in the registry round trips or later, perhaps
\* several times.
BindShell ==
  /\ phase # "exited"
  /\ \E v \in 0 .. 2 : ShellTryBind(v)
  /\ UNCHANGED <<phase, running, frame, size, poolVars, chainVars>>

\* No display, no wl_compositor, wl_shm or wl_shell, or no surface: main
\* returns without teardown.
SetupFails ==
  /\ phase = "setup"
  /\ phase' = "exited"
  /\ UNCHANGED <<shellVars, running, frame, size, poolVars, chainVars>>

\* The surface is attached, the first frame rendered, the loop entered.
Start ==
  /\ phase = "setup"
  /\ Attach
  /\ render(frame_cb, callbacks)
  /\ phase' = "loop"
  /\ UNCHANGED <<running, frame, size>>

\* Mutant: teardown forgets the pending callback.
Exit_KeepsCallback ==
  /\ phase = "loop"
  /\ phase' = "exited"
  /\ UNCHANGED chainVars
  /\ destroy_buffers
  /\ ShellDestroy
  /\ UNCHANGED <<running, frame, size>>

\* The loop is left when running is 0, or on a dispatch error at any time.
Exit ==
  /\ phase = "loop"
  /\ phase' = "exited"
  /\ Chain(frame_cb, IF frame_cb THEN callbacks - 1 ELSE callbacks)
  /\ destroy_buffers
  /\ ShellDestroy
  /\ UNCHANGED <<running, frame, size>>

OtherSteps ==
  \/ BindShell
  \/ SetupFails
  \/ Start
  \/ \E s \in Sizes : shell_configure(s)
  \/ \E i \in Bufs : buffer_release(i)
  \/ CloseRequested
  \/ Exit

RectNext == OtherSteps \/ VisibilityReport \/ frame_done

RectSpec == RectInit /\ [][RectNext]_rectVars

-----------------------------------------------------------------------------
(* Compositors                                                             *)

\* The compositor keeps back at most Lag replaced buffers.
Prompt == Cardinality(held \ current) <= Lag

\* What every compositor owes the client: it releases each buffer it has
\* replaced and, having done so, fires the callback of a visible surface.
Fairness ==
  /\ WF_rectVars(Prompt /\ frame_done)
  /\ \A i \in Bufs : WF_rectVars(i \notin current /\ buffer_release(i))

\* It is prompt when it fires a callback and when it reports visibility.
PromptSpec ==
  /\ RectInit
  /\ [][OtherSteps \/ (Prompt /\ VisibilityReport) \/ (Prompt /\ frame_done)]_rectVars
  /\ Fairness

\* It is prompt when it fires a callback, but reports visibility any time.
PacedSpec ==
  /\ RectInit
  /\ [][OtherSteps \/ VisibilityReport \/ (Prompt /\ frame_done)]_rectVars
  /\ Fairness

-----------------------------------------------------------------------------

RectTypeOK ==
  /\ phase \in {"setup", "loop", "exited"}
  /\ running \in BOOLEAN
  /\ size \in Sizes
  /\ dims \in [Bufs -> Sizes \cup {NoSize}]
  /\ busy \subseteq Bufs /\ held \subseteq Bufs
  /\ current = {} \/ \E i \in Bufs : current = {i}
  /\ frame_cb \in BOOLEAN
  /\ callbacks \in 0 .. 1
  /\ frame \in {0, 1} /\ torn \in BOOLEAN /\ frames \in 0 .. 1

\* A frame callback object exists exactly while frame_cb points to it, until
\* teardown destroys the last: the chain never forks (two callbacks, double
\* rate) and leaks none, whatever visibility, close and resize do.
OneChain ==
  callbacks = IF frame_cb /\ phase # "exited" THEN 1 ELSE 0

\* A hidden renderer has no callback armed.
HiddenIsQuiet == phase = "loop" /\ ~render_visible => ~frame_cb

\* Exactly the buffers the compositor may read are busy, across resizes and
\* failed allocations.
BusyIsHeld == busy = held

\* paint never writes to a buffer the compositor may be reading.
NoTearing == ~torn

\* No frame is submitted while hidden, after a close, or with a buffer of
\* another size than the surface.
SubmitOnlyWhenShown ==
  [][\A i \in busy' \ busy : running /\ render_visible' /\ dims'[i] = size]_rectVars

\* The renderer implements the promise about frame pacing, but for want of a
\* buffer its chain may starve.
Promise == INSTANCE FrameChain WITH
  MayStarve <- TRUE,
  part <- CASE phase = "setup" -> "before"
            [] phase = "loop" -> "on"
            [] phase = "exited" -> "over",
  shown <- render_visible, open <- running, armed <- callbacks = 1
KeepsChain == Promise!Spec

\* With a prompt compositor and Lag + 2 buffers, a visible running renderer
\* always has its next frame callback armed: no order of reports, resizes
\* and releases stops the animation.
ChainArmed == phase = "loop" /\ running /\ render_visible => frame_cb

Shown == phase = "loop" /\ running /\ render_visible

\* While a prompt compositor keeps showing the surface, the animation goes
\* on: frames are committed for ever.
AnimationAdvances == <>[]Shown => []<>(frames = 0) /\ []<>(frames = 1)

\* docs/ARCHITECTURE.md:138-140 and 207-217: a later visible event starts
\* the frame chain again, in every renderer.
VisibleRestartsChain == Shown ~> (frame_cb \/ ~Shown)

=============================================================================
