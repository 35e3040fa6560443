---------------------------- MODULE RectPointer -----------------------------
(***************************************************************************)
(* What the CPU renderer (native/wayland_rect.c) makes of the pointer and  *)
(* key callbacks of the shared input context: a cursor, and a window that  *)
(* is dragged by its title bar.  Every step is a step of WebosInput        *)
(* together with the callbacks it runs.                                    *)
(*                                                                         *)
(* The compositor sends motion and button events only to a seat whose      *)
(* pointer is inside the surface, as wl_pointer requires.                  *)
(*                                                                         *)
(* Left out as data: coordinates and the theme.  Where a press hits the    *)
(* drawn window is any of its zones.                                       *)
(***************************************************************************)
EXTENDS WebosInput

CONSTANTS
  Left,   \* BTN_LEFT, 272
  Exit    \* KEY_ESC or KEY_BACK

ASSUME PointerAssumption == Left \in Buttons /\ Exit \in Keys

Zones == {"close", "theme", "title", "elsewhere"}

VARIABLES have_pointer, dragging, running

rectInput    == <<have_pointer, dragging, running>>
pointerState == <<vars, rectInput>>

PointerInit ==
  /\ Init
  /\ have_pointer = FALSE /\ dragging = FALSE /\ running = TRUE

-----------------------------------------------------------------------------
(* The callbacks                                                           *)

\* The step has run the pointer_leave callback.
LeaveCalled == pointer_focused' # pointer_focused /\ pointer_focus_count' = 0

\* input_pointer_leave, when it is called.
input_pointer_leave ==
  /\ have_pointer' = (have_pointer /\ ~LeaveCalled)
  /\ dragging' = (dragging /\ ~LeaveCalled)
  /\ UNCHANGED running

input_pointer_enter ==
  /\ have_pointer' = TRUE
  /\ UNCHANGED <<dragging, running>>

\* A press closes, changes the theme or starts a drag; any release of the
\* left button ends the drag.
input_pointer_button(e, zone) ==
  /\ running' = (running /\ ~(e.value = Left /\ e.state = Pressed
                                             /\ zone = "close"))
  /\ dragging' = IF e.value # Left THEN dragging
                 ELSE e.state = Pressed /\ (zone = "title" \/ dragging)
  /\ UNCHANGED have_pointer

-----------------------------------------------------------------------------
(* Steps of the input context and the callbacks they run                   *)

Enter(s) == PointerEnter(s) /\ input_pointer_enter

\* pointer_motion: the callback runs always, and moves a dragged window.
Motion(s) ==
  /\ s \in pointer_focused
  /\ have_pointer' = TRUE
  /\ UNCHANGED <<vars, dragging, running>>

Button(s, e, zone) ==
  /\ s \in pointer_focused
  /\ PointerButton(s, e)
  /\ IF recent_duplicate(e, last_button)
     THEN UNCHANGED rectInput
     ELSE input_pointer_button(e, zone)

Key(s, e) ==
  /\ s \in keyboard_focused
  /\ KeyboardKey(s, e)
  /\ running' = (running /\ (recent_duplicate(e, last_key)
                             \/ e.value # Exit \/ e.state # Pressed))
  /\ UNCHANGED <<have_pointer, dragging>>

\* Steps that may take the pointer away.
Leaving ==
  /\ \/ \E s \in Slots : PointerLeave(s)
     \/ \E s \in Slots, p, k \in BOOLEAN : SeatCapabilities(s, p, k)
     \/ \E n \in Names : GlobalRemove(n)
     \/ ContextDestroy
  /\ input_pointer_leave

\* Steps the pointer has no part in; the focus callback only logs.
Elsewhere ==
  /\ \/ \E n \in Names : TryBind(n)
     \/ \E s \in Slots : KeyboardEnter(s) \/ KeyboardLeave(s)
  /\ UNCHANGED rectInput

PointerNext ==
  /\ alive
  /\ \/ Leaving \/ Elsewhere
     \/ \E s \in Slots :
          \/ Enter(s) \/ Motion(s)
          \/ \E e \in Events(Buttons), zone \in Zones : Button(s, e, zone)
          \/ \E e \in Events(Keys) : Key(s, e)

PointerSpec == PointerInit /\ [][PointerNext]_pointerState

-----------------------------------------------------------------------------

\* The cursor is drawn exactly while some seat's pointer is inside, whatever
\* seats are plugged, unplugged or lose their pointer.
CursorShown == have_pointer <=> pointer_focused # {}

\* A drag is on only while a pointer is inside and the last button event any
\* seat sent left the button pressed: a release that is dropped as a
\* duplicate never leaves the window stuck to the pointer.
DragFollowsButton ==
  dragging => pointer_focused # {} /\ rawButton[Left] = Pressed

=============================================================================
