--------------------------- MODULE MirroredSeats ----------------------------
(***************************************************************************)
(* The case duplicate suppression exists for: a compositor that announces  *)
(* one physical keyboard through several seats and forwards each of its    *)
(* events to all of them.  The input context receives the copies through   *)
(* its keyboard_key handler; the application should see each physical      *)
(* event once.                                                             *)
(*                                                                         *)
(* Spec lets the copies of different seats interleave in any way: a        *)
(* Wayland client reads one stream of events, in which only the order of   *)
(* one object's events is fixed by its sender.  Lockstep is the well       *)
(* behaved compositor: it forwards an event to all seats before the next   *)
(* one and takes at most Window ticks to do so.                            *)
(***************************************************************************)
EXTENDS WebosInput, Sequences

CONSTANT MaxEvents   \* bound: physical events

VARIABLES
  clock,     \* the compositor's clock, modulo TimeMod
  down,      \* the state of each physical key
  produced,  \* number of physical events so far
  pending,   \* per seat, the copies not yet forwarded
  age,       \* ticks since the seats last had the same copies due
  log        \* the numbers of the events delivered to the application

mirrorVars == <<vars, clock, down, produced, pending, age, log>>

\* Every slot is bound to a seat with a keyboard.
MirrorInit ==
  /\ bound \in [Slots -> Names] /\ \A s, t \in Slots : bound[s] = bound[t] => s = t
  /\ keyboards = Slots /\ pointers = {}
  /\ pointer_focused = {} /\ keyboard_focused = {}
  /\ pointer_focus_count = 0 /\ keyboard_focus_count = 0
  /\ last_key = {} /\ last_button = {}
  /\ advertised = {bound[s] : s \in Slots} /\ missed = {}
  /\ appPointer = FALSE /\ appKeyboard = FALSE
  /\ appKey = [k \in Keys |-> Released] /\ rawKey = appKey
  /\ appButton = [b \in Buttons |-> Released] /\ rawButton = appButton
  /\ alive = TRUE
  /\ clock \in Time
  /\ down = [k \in Keys |-> Released]
  /\ produced = 0
  /\ pending = [s \in Slots |-> <<>>]
  /\ age = 0
  /\ log = <<>>

\* A physical key changes: one copy is due on each seat.
Produce(k) ==
  /\ produced < MaxEvents
  /\ produced' = produced + 1
  /\ down' = [down EXCEPT ![k] = Pressed - @]
  /\ pending' = [s \in Slots |->
                   Append(pending[s], [id |-> produced + 1, key |-> k,
                                       state |-> Pressed - down[k]])]
  /\ UNCHANGED <<vars, clock, age, log>>

\* The next copy due on seat s reaches keyboard_key, stamped with the clock.
Forward(s) ==
  /\ pending[s] # <<>>
  /\ LET c == Head(pending[s])
         e == [time |-> clock, value |-> c.key, state |-> c.state]
     IN /\ KeyboardKey(s, e)
        /\ log' = IF recent_duplicate(e, last_key) THEN log
                  ELSE Append(log, c.id)
  /\ pending' = [pending EXCEPT ![s] = Tail(@)]
  /\ UNCHANGED <<clock, down, produced, age>>

\* Some seats have had a copy of an event that others have not.
Partial == \E s, t \in Slots : Len(pending[s]) # Len(pending[t])

Tick ==
  /\ clock' = (clock + 1) % TimeMod
  /\ age' = IF Partial THEN age + 1 ELSE 0
  /\ UNCHANGED <<vars, down, produced, pending, log>>

\* No seat waits for an older event than the one seat s would get.
Oldest(s) == \A t \in Slots :
               pending[t] # <<>> => Head(pending[s]).id <= Head(pending[t]).id

MirrorNext ==
  \/ \E k \in Keys : Produce(k)
  \/ \E s \in Slots : Forward(s)
  \/ Tick /\ age < Window

MirrorSpec == MirrorInit /\ [][MirrorNext]_mirrorVars

LockstepNext ==
  \/ \E k \in Keys : Produce(k)
  \/ \E s \in Slots : pending[s] # <<>> /\ Oldest(s) /\ Forward(s)
  \/ Tick /\ (Partial => age < Window)

Lockstep == MirrorInit /\ [][LockstepNext]_mirrorVars

-----------------------------------------------------------------------------

\* Each physical event reaches the application once, in the order it
\* happened, and none is missing when every copy has been forwarded; whatever
\* the keys do and wherever the 32-bit clock wraps.
ExactlyOnce ==
  /\ log = [i \in 1 .. Len(log) |-> i]
  /\ (\A s \in Slots : pending[s] = <<>>) => Len(log) = produced

\* docs/ARCHITECTURE.md:72-73: identical events received within the window
\* are suppressed.  Two copies of one physical event are identical, and
\* MirrorSpec forwards them within the window.
CopiesSuppressed == \A i, j \in 1 .. Len(log) : log[i] = log[j] => i = j

=============================================================================
