----------------------------- MODULE WebosInput -----------------------------
(***************************************************************************)
(* The shared input context of native/webos_input.c: a table of            *)
(* WEBOS_INPUT_MAX_SEATS slots, filled by wl_registry.global and emptied   *)
(* by wl_registry.global_remove, whose pointers and keyboards come and go  *)
(* with wl_seat.capabilities.  The context folds all seats into one        *)
(* pointer and one keyboard for the application: it counts focused seats   *)
(* and drops the copies of a key or button event that a mirrored seat      *)
(* sends again.                                                            *)
(*                                                                         *)
(* The compositor is the environment.  It may send an event through any    *)
(* proxy that exists, with any timestamp.  Requests on a destroyed proxy   *)
(* produce no event, as libwayland guarantees.                             *)
(*                                                                         *)
(* Left out as data: pointer coordinates (see RectPointer), the index of a *)
(* seat (only logged), axis, modifier and name events (ignored by the      *)
(* code).                                                                  *)
(***************************************************************************)
EXTENDS Integers, FiniteSets

CONSTANTS
  MaxSeats,  \* WEBOS_INPUT_MAX_SEATS
  Names,     \* registry names the compositor may give to wl_seat globals
  Free,      \* marks a slot without a seat proxy
  Keys,      \* key codes
  Buttons,   \* pointer button codes
  TimeMod,   \* event timestamps are taken modulo this (2^32 in the code)
  Window     \* INPUT_DUPLICATE_WINDOW_MS

ASSUME SlotAssumption == MaxSeats \in Nat \ {0} /\ Free \notin Names
ASSUME TimeAssumption == TimeMod \in Nat \ {0} /\ Window \in Nat

Slots == 0 .. MaxSeats - 1
Time  == 0 .. TimeMod - 1
Released == 0
Pressed  == 1
States == {Released, Pressed}

\* An event of a kind whose codes are C, as the context remembers it.
Events(C) == [time : Time, value : C, state : States]

VARIABLES
  bound,            \* slot -> registry name of its seat, or Free
  pointers,         \* slots that own a wl_pointer
  keyboards,        \* slots that own a wl_keyboard
  pointer_focused,  \* slots whose pointer is inside the surface
  keyboard_focused, \* slots whose keyboard is focused
  pointer_focus_count,
  keyboard_focus_count,
  last_key,         \* the last delivered key event: {} or {e}
  last_button,      \* the last delivered button event: {} or {e}
  advertised,       \* the wl_seat globals that exist
  missed,           \* those announced when no slot was free or bind failed
  appPointer,       \* what the callbacks have told the application:
  appKeyboard,      \*   the pointer is inside, the keyboard is focused,
  appKey,           \*   the state of each key
  appButton,        \*   and of each button
  rawKey,           \* the state of each key in the last event of any seat
  rawButton,        \* the same for buttons
  alive             \* the context has not been destroyed

seatVars     == <<bound, advertised, missed>>
deviceVars   == <<pointers, keyboards>>
pointerFocus == <<pointer_focused, pointer_focus_count, appPointer>>
keyFocus     == <<keyboard_focused, keyboard_focus_count, appKeyboard>>
keyVars      == <<last_key, appKey, rawKey>>
buttonVars   == <<last_button, appButton, rawButton>>
vars == <<seatVars, deviceVars, pointerFocus, keyFocus, keyVars, buttonVars,
          alive>>

Init ==
  /\ bound = [s \in Slots |-> Free]
  /\ pointers = {} /\ keyboards = {}
  /\ pointer_focused = {} /\ keyboard_focused = {}
  /\ pointer_focus_count = 0 /\ keyboard_focus_count = 0
  /\ last_key = {} /\ last_button = {}
  /\ advertised = {} /\ missed = {}
  /\ appPointer = FALSE /\ appKeyboard = FALSE
  /\ appKey = [k \in Keys |-> Released]
  /\ rawKey = [k \in Keys |-> Released]
  /\ appButton = [b \in Buttons |-> Released]
  /\ rawButton = [b \in Buttons |-> Released]
  /\ alive = TRUE

-----------------------------------------------------------------------------
(* Focus bookkeeping                                                       *)

\* The guarded decrement "if (count > 0) count--", n times over.
Less(count, n) == IF n > count THEN 0 ELSE count - n

\* Mutant: the leave callback runs for every seat that leaves.
ClearPointerFocus_EachSeat(S) ==
  LET cleared == pointer_focused \cap S IN
  /\ pointer_focused' = pointer_focused \ S
  /\ pointer_focus_count' = Less(pointer_focus_count, Cardinality(cleared))
  /\ appPointer' = IF cleared # {} THEN FALSE ELSE appPointer

\* Clear the pointer focus of every slot of S.  The leave callback runs when
\* a slot of S had focus and the count is then zero.
ClearPointerFocus(S) ==
  LET cleared == pointer_focused \cap S IN
  /\ pointer_focused' = pointer_focused \ S
  /\ pointer_focus_count' = Less(pointer_focus_count, Cardinality(cleared))
  /\ appPointer' = IF cleared # {} /\ pointer_focus_count' = 0
                   THEN FALSE ELSE appPointer

ClearKeyboardFocus(S) ==
  LET cleared == keyboard_focused \cap S IN
  /\ keyboard_focused' = keyboard_focused \ S
  /\ keyboard_focus_count' = Less(keyboard_focus_count, Cardinality(cleared))
  /\ appKeyboard' = IF cleared # {} /\ keyboard_focus_count' = 0
                    THEN FALSE ELSE appKeyboard

\* Mutant: a second enter of the same seat is counted again.
PointerEnter_CountsTwice(s) ==
  /\ s \in pointers
  /\ pointer_focused' = pointer_focused \cup {s}
  /\ pointer_focus_count' = pointer_focus_count + 1
  /\ appPointer' = TRUE
  /\ UNCHANGED <<seatVars, deviceVars, keyFocus, keyVars, buttonVars, alive>>

\* wl_pointer.enter: the callback runs whether or not the seat was inside.
PointerEnter(s) ==
  /\ s \in pointers
  /\ pointer_focused' = pointer_focused \cup {s}
  /\ pointer_focus_count' = IF s \in pointer_focused
                            THEN pointer_focus_count
                            ELSE pointer_focus_count + 1
  /\ appPointer' = TRUE
  /\ UNCHANGED <<seatVars, deviceVars, keyFocus, keyVars, buttonVars, alive>>

PointerLeave(s) ==
  /\ s \in pointers
  /\ ClearPointerFocus({s})
  /\ UNCHANGED <<seatVars, deviceVars, keyFocus, keyVars, buttonVars, alive>>

\* Mutant: the count is read before it is incremented.
KeyboardEnter_StaleCount(s) ==
  /\ s \in keyboards
  /\ keyboard_focused' = keyboard_focused \cup {s}
  /\ keyboard_focus_count' = IF s \in keyboard_focused
                             THEN keyboard_focus_count
                             ELSE keyboard_focus_count + 1
  /\ appKeyboard' = IF keyboard_focus_count = 1 THEN TRUE ELSE appKeyboard
  /\ UNCHANGED <<seatVars, deviceVars, pointerFocus, keyVars, buttonVars,
                 alive>>

\* wl_keyboard.enter: the callback runs only while exactly one seat is in.
KeyboardEnter(s) ==
  /\ s \in keyboards
  /\ keyboard_focused' = keyboard_focused \cup {s}
  /\ keyboard_focus_count' = IF s \in keyboard_focused
                             THEN keyboard_focus_count
                             ELSE keyboard_focus_count + 1
  /\ appKeyboard' = IF keyboard_focus_count' = 1 THEN TRUE ELSE appKeyboard
  /\ UNCHANGED <<seatVars, deviceVars, pointerFocus, keyVars, buttonVars,
                 alive>>

KeyboardLeave(s) ==
  /\ s \in keyboards
  /\ ClearKeyboardFocus({s})
  /\ UNCHANGED <<seatVars, deviceVars, pointerFocus, keyVars, buttonVars,
                 alive>>

-----------------------------------------------------------------------------
(* Duplicate suppression                                                   *)

\* Mutant: the comparison of the states is dropped.
recent_duplicate_AnyState(e, last) ==
  \E p \in last : /\ e.value = p.value
                  /\ (e.time - p.time) % TimeMod <= Window

\* Mutant: timestamps are subtracted as if the clock never wrapped.
recent_duplicate_NoWrap(e, last) ==
  \E p \in last : /\ e.value = p.value
                  /\ e.state = p.state
                  /\ e.time - p.time \in 0 .. Window

\* Event e repeats the last delivered one, p, inside the window.  The
\* difference of the two uint32_t timestamps wraps: an earlier time is a
\* large difference.
recent_duplicate(e, last) ==
  \E p \in last : /\ e.value = p.value
                  /\ e.state = p.state
                  /\ (e.time - p.time) % TimeMod <= Window

KeyboardKey(s, e) ==
  /\ s \in keyboards
  /\ rawKey' = [rawKey EXCEPT ![e.value] = e.state]
  /\ IF recent_duplicate(e, last_key)
     THEN UNCHANGED <<last_key, appKey>>
     ELSE /\ last_key' = {e}
          /\ appKey' = [appKey EXCEPT ![e.value] = e.state]
  /\ UNCHANGED <<seatVars, deviceVars, pointerFocus, keyFocus, buttonVars,
                 alive>>

PointerButton(s, e) ==
  /\ s \in pointers
  /\ rawButton' = [rawButton EXCEPT ![e.value] = e.state]
  /\ IF recent_duplicate(e, last_button)
     THEN UNCHANGED <<last_button, appButton>>
     ELSE /\ last_button' = {e}
          /\ appButton' = [appButton EXCEPT ![e.value] = e.state]
  /\ UNCHANGED <<seatVars, deviceVars, pointerFocus, keyFocus, keyVars,
                 alive>>

-----------------------------------------------------------------------------
(* Seats                                                                   *)

BoundSlots == {s \in Slots : bound[s] # Free}
FreeSlots  == {s \in Slots : bound[s] = Free}

\* wl_registry.global for a wl_seat.  A seat that finds no slot, or whose
\* bind fails, is not tried again.
TryBind(n) ==
  /\ n \in Names \ advertised
  /\ advertised' = advertised \cup {n}
  /\ \/ \E s \in FreeSlots :
          /\ \A t \in FreeSlots : s <= t
          /\ bound' = [bound EXCEPT ![s] = n]
          /\ UNCHANGED missed
     \/ /\ missed' = missed \cup {n}    \* no slot, or wl_registry_bind failed
        /\ UNCHANGED bound
  /\ UNCHANGED <<deviceVars, pointerFocus, keyFocus, keyVars, buttonVars,
                 alive>>

\* wl_seat.capabilities with the given pointer and keyboard bits.
SeatCapabilities(s, pointerCap, keyboardCap) ==
  /\ s \in BoundSlots
  /\ IF pointerCap
     THEN pointers' = pointers \cup {s} /\ UNCHANGED pointerFocus
     ELSE pointers' = pointers \ {s} /\ ClearPointerFocus({s})
  /\ IF keyboardCap
     THEN keyboards' = keyboards \cup {s} /\ UNCHANGED keyFocus
     ELSE keyboards' = keyboards \ {s} /\ ClearKeyboardFocus({s})
  /\ UNCHANGED <<seatVars, keyVars, buttonVars, alive>>

\* Mutant: the slot is not released.
DestroyInputSeats_KeepsSlot(S) ==
  /\ ClearPointerFocus(S)
  /\ ClearKeyboardFocus(S)
  /\ pointers' = pointers \ S
  /\ keyboards' = keyboards \ S
  /\ UNCHANGED bound

\* Mutant: only the pointer focus is given back.
DestroyInputSeats_KeepsFocus(S) ==
  /\ ClearPointerFocus(S)
  /\ UNCHANGED keyFocus
  /\ pointers' = pointers \ S
  /\ keyboards' = keyboards \ S
  /\ bound' = [s \in Slots |-> IF s \in S THEN Free ELSE bound[s]]

\* Unbind every slot of S: focus, pointer, keyboard, proxy, then memset.
DestroyInputSeats(S) ==
  /\ ClearPointerFocus(S)
  /\ ClearKeyboardFocus(S)
  /\ pointers' = pointers \ S
  /\ keyboards' = keyboards \ S
  /\ bound' = [s \in Slots |-> IF s \in S THEN Free ELSE bound[s]]

\* The slot found by the scan for name n: the first match, if there is one.
SlotNamed(n) == {s \in Slots : /\ bound[s] = n
                               /\ \A t \in Slots : bound[t] = n => s <= t}

GlobalRemove(n) ==
  /\ n \in advertised
  /\ advertised' = advertised \ {n}
  /\ missed' = missed \ {n}
  /\ DestroyInputSeats(SlotNamed(n))
  /\ UNCHANGED <<keyVars, buttonVars, alive>>

ContextDestroy ==
  /\ DestroyInputSeats(BoundSlots)
  /\ alive' = FALSE
  /\ UNCHANGED <<advertised, missed, keyVars, buttonVars>>

-----------------------------------------------------------------------------

Next ==
  /\ alive
  /\ \/ \E n \in Names : TryBind(n) \/ GlobalRemove(n)
     \/ \E s \in Slots :
          \/ \E p, k \in BOOLEAN : SeatCapabilities(s, p, k)
          \/ PointerEnter(s)  \/ PointerLeave(s)
          \/ KeyboardEnter(s) \/ KeyboardLeave(s)
          \/ \E e \in Events(Keys) : KeyboardKey(s, e)
          \/ \E e \in Events(Buttons) : PointerButton(s, e)
     \/ ContextDestroy

Spec == Init /\ [][Next]_vars

-----------------------------------------------------------------------------
(* Properties                                                              *)

\* Every variable has its type; the table and the counters are bounded.
TypeOK ==
  /\ bound \in [Slots -> Names \cup {Free}]
  /\ pointers \subseteq Slots /\ keyboards \subseteq Slots
  /\ pointer_focused \subseteq Slots /\ keyboard_focused \subseteq Slots
  /\ pointer_focus_count \in 0 .. MaxSeats
  /\ keyboard_focus_count \in 0 .. MaxSeats
  /\ last_key \subseteq Events(Keys) /\ Cardinality(last_key) <= 1
  /\ last_button \subseteq Events(Buttons) /\ Cardinality(last_button) <= 1
  /\ advertised \subseteq Names /\ missed \subseteq Names
  /\ appPointer \in BOOLEAN /\ appKeyboard \in BOOLEAN
  /\ appKey \in [Keys -> States] /\ rawKey \in [Keys -> States]
  /\ appButton \in [Buttons -> States] /\ rawButton \in [Buttons -> States]
  /\ alive \in BOOLEAN

\* Focus never outlives its device, nor a device its seat, across unplugging,
\* loss of a capability and reuse of a slot (destroy_input_seat, caps).
FocusHasDevice ==
  /\ pointer_focused \subseteq pointers
  /\ keyboard_focused \subseteq keyboards
  /\ pointers \cup keyboards \subseteq BoundSlots

\* The counters count the focused seats exactly: no path leaks a count or
\* counts a seat twice, so the guarded decrements never hit their guard.
FocusCountsExact ==
  /\ pointer_focus_count = Cardinality(pointer_focused)
  /\ keyboard_focus_count = Cardinality(keyboard_focused)

\* The application believes its pointer is inside, or its keyboard focused,
\* exactly while some seat's is: the edge-triggered callbacks lose no edge.
AppFocusAgrees ==
  /\ appPointer <=> pointer_focused # {}
  /\ appKeyboard <=> keyboard_focused # {}

\* Suppressing duplicates never hides a change: the application's view of
\* each key and button is that of the last event any seat sent, with any
\* timestamps, wrapped or out of order, and any interleaving of seats.  What
\* makes it so: the remembered event is never out of date for its code.
EdgesInSync ==
  /\ appKey = rawKey
  /\ appButton = rawButton
  /\ \A p \in last_key : appKey[p.value] = p.state
  /\ \A p \in last_button : appButton[p.value] = p.state

\* While the context lives, each advertised seat that was not missed has
\* exactly one slot, and no slot keeps a seat that is gone.
BindingExact ==
  alive => /\ {bound[s] : s \in BoundSlots} = advertised \ missed
           /\ \A s, t \in BoundSlots : bound[s] = bound[t] => s = t

\* What the application may rely on, for the pointer and for the keyboard.
PointerPromise  == INSTANCE FocusPromise
                     WITH Device <- Slots, inside <- pointer_focused,
                          told <- appPointer
KeyboardPromise == INSTANCE FocusPromise
                     WITH Device <- Slots, inside <- keyboard_focused,
                          told <- appKeyboard

\* The context keeps the one-pointer promise over all its seats.
PointerFocusKept == PointerPromise!Spec
\* The context keeps the one-keyboard promise over all its seats.
KeyboardFocusKept == KeyboardPromise!Spec

=============================================================================
