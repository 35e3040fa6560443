----------------------------- MODULE WebosShell -----------------------------
(***************************************************************************)
(* The lifecycle helper every renderer shares, native/webos_shell.c: it    *)
(* binds wl_webos_shell if the compositor has it, attaches a               *)
(* wl_webos_shell_surface to the renderer's surface, and turns the state   *)
(* and exposed events of that surface into one visibility flag.  The       *)
(* renderer's handler runs, inside the event handler, on each change of    *)
(* the flag; what it does is modelled in the module of the renderer.       *)
(*                                                                         *)
(* Left out: events that are only logged (position, pending state, add-on  *)
(* status, removal of the global) and the fixed requests made on attach.   *)
(***************************************************************************)
EXTENDS Integers, Sequences

CONSTANT Exposures   \* the value lists wl_webos_shell_surface.exposed carries
ASSUME ExposuresAssumption == Exposures \subseteq Seq(Int)

ShellStates == {"default", "minimized", "maximized", "fullscreen"}

VARIABLES
  global,            \* wl_webos_shell is bound
  surface,           \* wl_webos_shell_surface is attached
  stage,             \* "registry", "attached" (or fallen back), "destroyed"
  state,             \* the last state reported
  state_visible,     \*   it is not minimized
  have_exposed,      \* an exposed event has arrived
  exposed_visible,   \*   the last one showed something
  effective_visible, \* the flag derived from the three above
  render_visible,    \* the renderer's copy, set by its visibility handler
  exposed            \* history: {} or {the last list received}

visibility == <<state, state_visible, have_exposed, exposed_visible,
                effective_visible, render_visible, exposed>>
shellVars == <<global, surface, stage, visibility>>

ShellInit ==
  /\ global = FALSE /\ surface = FALSE /\ stage = "registry"
  /\ state = "default"
  /\ state_visible = TRUE /\ have_exposed = FALSE /\ exposed_visible = TRUE
  /\ effective_visible = TRUE
  /\ render_visible = TRUE
  /\ exposed = {}

\* wl_registry.global for wl_webos_shell.  A second global is ignored, a
\* version below 1 is not bound, the bind may fail; announcements may come
\* after the attachment too, and are then of no use.
ShellTryBind(version) ==
  /\ stage # "destroyed"
  /\ \/ version >= 1 /\ global' = TRUE
     \/ UNCHANGED global
  /\ UNCHANGED <<surface, stage, visibility>>

\* Mutant: the shell surface is asked for without looking at the global.
Attach_Unbound ==
  /\ stage = "registry"
  /\ stage' = "attached"
  /\ surface' \in BOOLEAN
  /\ UNCHANGED <<global, visibility>>

\* Attach, or fall back to wl_shell: no global, no surface, or no listener.
Attach ==
  /\ stage = "registry"
  /\ stage' = "attached"
  /\ \/ global /\ surface' = TRUE
     \/ UNCHANGED surface
  /\ UNCHANGED <<global, visibility>>

\* Mutant: an exposed region hides the surface only if it is minimized too.
update_visibility_Or ==
  /\ effective_visible' = (state_visible' \/ (have_exposed' /\ exposed_visible'))
  /\ render_visible' = IF effective_visible' # effective_visible
                       THEN effective_visible' ELSE render_visible

\* Derive the flag; run the renderer's handler if it changed.
update_visibility ==
  /\ effective_visible' =
       (state_visible' /\ (have_exposed' => exposed_visible'))
  /\ render_visible' = IF effective_visible' # effective_visible
                       THEN effective_visible' ELSE render_visible

handle_state_changed(s) ==
  /\ surface
  /\ state' = s
  /\ state_visible' = (s # "minimized")
  /\ UNCHANGED <<global, surface, stage, have_exposed, exposed_visible,
                 exposed>>
  /\ update_visibility

\* Mutant: a list that ends in a fragment shows nothing.
exposed_scan_WholeOnly(values) ==
  LET n == Len(values)
      scan[i \in 0 .. n + 4] ==
        /\ i < n
        /\ values[i + 1] # -1
        /\ n % 4 = 0
        /\ (values[i + 3] > 0 /\ values[i + 4] > 0) \/ scan[i + 4]
  IN scan[0]

\* The loop of handle_exposed.  The list is rectangles x, y, width, height,
\* ended by -1 in place of an x or by the array's end; a fragment at the end
\* stops the loop but does not undo what the rectangles before it showed.
exposed_scan(values) ==
  LET n == Len(values)
      scan[i \in 0 .. n + 4] ==
        /\ i < n
        /\ values[i + 1] # -1
        /\ n - i >= 4
        /\ (values[i + 3] > 0 /\ values[i + 4] > 0) \/ scan[i + 4]
  IN scan[0]

handle_exposed(values) ==
  /\ surface
  /\ have_exposed' = TRUE
  /\ exposed_visible' = exposed_scan(values)
  /\ exposed' = {values}
  /\ UNCHANGED <<global, surface, stage, state, state_visible>>
  /\ update_visibility

ShellDestroy ==
  /\ stage = "attached"
  /\ stage' = "destroyed"
  /\ global' = FALSE /\ surface' = FALSE
  /\ UNCHANGED visibility

-----------------------------------------------------------------------------

\* Types, and the order of the protocol objects: the shell surface is made
\* through a bound global and does not outlive it (attach, context_destroy).
ShellTypeOK ==
  /\ global \in BOOLEAN /\ surface \in BOOLEAN
  /\ surface => global /\ stage = "attached"
  /\ stage \in {"registry", "attached", "destroyed"}
  /\ state \in ShellStates
  /\ state_visible \in BOOLEAN /\ have_exposed \in BOOLEAN
  /\ exposed_visible \in BOOLEAN
  /\ effective_visible \in BOOLEAN /\ render_visible \in BOOLEAN
  /\ exposed \subseteq Exposures

\* Some rectangle before the terminator has an area, said without a loop.
SomethingShown(values) ==
  \E r \in 0 .. Len(values) \div 4 - 1 :
    /\ \A q \in 0 .. r : values[4 * q + 1] # -1
    /\ values[4 * r + 3] > 0 /\ values[4 * r + 4] > 0

\* The renderer's flag is the truth about the last two reports of the
\* compositor, in whatever order and number they came: not minimized, and,
\* once exposure is reported at all, something is exposed.
VisibilityTracks ==
  render_visible = (/\ state # "minimized"
                    /\ \A values \in exposed : SomethingShown(values))

=============================================================================
