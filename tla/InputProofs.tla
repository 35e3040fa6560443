----------------------------- MODULE InputProofs -----------------------------
(***************************************************************************)
(* Theorems about the shared input context, for every number of slots,     *)
(* every set of names, keys and buttons, every clock period and window;    *)
(* and about the two uses of it that are modelled, the CPU renderer's      *)
(* pointer (RectPointer) and one keyboard mirrored to several seats        *)
(* (MirroredSeats).  Only the second part uses PointerAssumption.          *)
(*                                                                         *)
(* The inductive invariant of the context is split by the state it speaks  *)
(* of, so that a handler only has to be examined for the parts it touches. *)
(***************************************************************************)
EXTENDS RectPointer, MirroredSeats, FiniteSetTheorems, SequenceTheorems, TLAPS

-----------------------------------------------------------------------------
(* The input context                                                       *)

\* The pointer counter is exact and the application knows about it.
PointerInv ==
  /\ pointer_focused \subseteq Slots
  /\ pointer_focus_count = Cardinality(pointer_focused)
  /\ appPointer \in BOOLEAN
  /\ appPointer <=> pointer_focused # {}

\* The same for keyboards.
KeyboardInv ==
  /\ keyboard_focused \subseteq Slots
  /\ keyboard_focus_count = Cardinality(keyboard_focused)
  /\ appKeyboard \in BOOLEAN
  /\ appKeyboard <=> keyboard_focused # {}

\* Nothing is remembered, or one event that is up to date.
KeyInv ==
  /\ last_key = {} \/ \E e \in Events(Keys) : last_key = {e}
  /\ appKey \in [Keys -> States]
  /\ rawKey = appKey
  /\ \A p \in last_key : appKey[p.value] = p.state

ButtonInv ==
  /\ last_button = {} \/ \E e \in Events(Buttons) : last_button = {e}
  /\ appButton \in [Buttons -> States]
  /\ rawButton = appButton
  /\ \A p \in last_button : appButton[p.value] = p.state

\* Seats, devices and focus are nested.
SeatInv ==
  /\ bound \in [Slots -> Names \cup {Free}]
  /\ advertised \subseteq Names /\ missed \subseteq Names
  /\ alive \in BOOLEAN
  /\ FocusHasDevice

IInv == PointerInv /\ KeyboardInv /\ KeyInv /\ ButtonInv /\ SeatInv

-----------------------------------------------------------------------------
(* Counting                                                                *)

LEMMA SlotsFinite ==
  /\ IsFiniteSet(Slots)
  /\ Cardinality(Slots) = MaxSeats
  /\ \A F \in SUBSET Slots : /\ IsFiniteSet(F)
                             /\ Cardinality(F) \in 0 .. MaxSeats
                             /\ Cardinality(F) = 0 <=> F = {}
<1>1. IsFiniteSet(Slots) /\ Cardinality(Slots) = MaxSeats
  BY FS_Interval, SlotAssumption DEF Slots
<1>2. ASSUME NEW F \in SUBSET Slots
      PROVE  /\ IsFiniteSet(F)
             /\ Cardinality(F) \in 0 .. MaxSeats
             /\ Cardinality(F) = 0 <=> F = {}
  <2>1. IsFiniteSet(F) /\ Cardinality(F) <= MaxSeats
    BY <1>1, FS_Subset
  <2>2. Cardinality(F) \in Nat
    BY <2>1, FS_CardinalityType
  <2>3. Cardinality(F) = 0 <=> F = {}
    BY <2>1, FS_EmptySet
  <2> QED  BY <2>1, <2>2, <2>3, SlotAssumption
<1> QED  BY <1>1, <1>2

\* The guarded decrements of the slots in S leave the exact count.
LEMMA CountAfterClear ==
  ASSUME NEW F \in SUBSET Slots, NEW S
  PROVE  Less(Cardinality(F), Cardinality(F \cap S)) = Cardinality(F \ S)
<1>1. IsFiniteSet(F) /\ F \cap S \in SUBSET Slots /\ F \ S \in SUBSET Slots
  BY SlotsFinite
<1>2. Cardinality(F \ S) = Cardinality(F) - Cardinality(F \cap S)
  BY <1>1, FS_Difference
<1>3. /\ Cardinality(F) \in Nat /\ Cardinality(F \cap S) \in Nat
      /\ Cardinality(F \ S) \in Nat
  BY <1>1, SlotsFinite, FS_CardinalityType
<1> QED  BY <1>2, <1>3 DEF Less

LEMMA AtMostOne ==
  ASSUME NEW T, NEW L, L = {} \/ \E e \in T : L = {e}
  PROVE  L \subseteq T /\ Cardinality(L) <= 1
<1>1. CASE L = {}
  <2>1. Cardinality(L) = 0
    BY <1>1, FS_EmptySet
  <2> QED  BY <1>1, <2>1
<1>2. ASSUME NEW e \in T, L = {e}
      PROVE  L \subseteq T /\ Cardinality(L) <= 1
  <2>1. Cardinality({e}) = 1
    BY FS_Singleton
  <2> QED  BY <1>2, <2>1
<1> QED  BY <1>1, <1>2

LEMMA CountAfterAdd ==
  ASSUME NEW F \in SUBSET Slots, NEW s \in Slots
  PROVE  Cardinality(F \cup {s}) =
           IF s \in F THEN Cardinality(F) ELSE Cardinality(F) + 1
BY SlotsFinite, FS_AddElement

-----------------------------------------------------------------------------
(* Focus                                                                   *)

LEMMA ClearPointerInv ==
  ASSUME PointerInv, NEW S, ClearPointerFocus(S)
  PROVE  PointerInv'
<1>1. pointer_focused' = pointer_focused \ S
  BY DEF ClearPointerFocus
<1>2. pointer_focus_count' = Cardinality(pointer_focused')
  BY <1>1, CountAfterClear DEF ClearPointerFocus, PointerInv
<1>3. pointer_focused' \in SUBSET Slots
  BY <1>1 DEF PointerInv
<1>4. pointer_focus_count' = 0 <=> pointer_focused' = {}
  BY <1>2, <1>3, SlotsFinite
<1>5. appPointer' \in BOOLEAN /\ (appPointer' <=> pointer_focused' # {})
  <2>1. CASE pointer_focused \cap S = {}
    <3>1. pointer_focused' = pointer_focused
      BY <1>1, <2>1
    <3>2. appPointer' = appPointer
      BY <2>1 DEF ClearPointerFocus
    <3> QED  BY <3>1, <3>2 DEF PointerInv
  <2>2. CASE pointer_focused \cap S # {}
    BY <1>1, <1>4, <2>2 DEF ClearPointerFocus, PointerInv
  <2> QED  BY <2>1, <2>2
<1> QED  BY <1>2, <1>3, <1>5 DEF PointerInv

LEMMA ClearKeyboardInv ==
  ASSUME KeyboardInv, NEW S, ClearKeyboardFocus(S)
  PROVE  KeyboardInv'
<1>1. keyboard_focused' = keyboard_focused \ S
  BY DEF ClearKeyboardFocus
<1>2. keyboard_focus_count' = Cardinality(keyboard_focused')
  BY <1>1, CountAfterClear DEF ClearKeyboardFocus, KeyboardInv
<1>3. keyboard_focused' \in SUBSET Slots
  BY <1>1 DEF KeyboardInv
<1>4. keyboard_focus_count' = 0 <=> keyboard_focused' = {}
  BY <1>2, <1>3, SlotsFinite
<1>5. appKeyboard' \in BOOLEAN /\ (appKeyboard' <=> keyboard_focused' # {})
  <2>1. CASE keyboard_focused \cap S = {}
    <3>1. keyboard_focused' = keyboard_focused
      BY <1>1, <2>1
    <3>2. appKeyboard' = appKeyboard
      BY <2>1 DEF ClearKeyboardFocus
    <3> QED  BY <3>1, <3>2 DEF KeyboardInv
  <2>2. CASE keyboard_focused \cap S # {}
    BY <1>1, <1>4, <2>2 DEF ClearKeyboardFocus, KeyboardInv
  <2> QED  BY <2>1, <2>2
<1> QED  BY <1>2, <1>3, <1>5 DEF KeyboardInv

LEMMA PointerEnterInv ==
  ASSUME PointerInv, NEW s \in Slots, PointerEnter(s)
  PROVE  PointerInv'
<1>1. pointer_focus_count' = Cardinality(pointer_focused')
  BY CountAfterAdd DEF PointerEnter, PointerInv
<1> QED  BY <1>1 DEF PointerEnter, PointerInv

LEMMA KeyboardEnterInv ==
  ASSUME KeyboardInv, NEW s \in Slots, KeyboardEnter(s)
  PROVE  KeyboardInv'
<1>1. keyboard_focus_count' = Cardinality(keyboard_focused')
  BY CountAfterAdd DEF KeyboardEnter, KeyboardInv
<1>2. appKeyboard' = TRUE
  <2>1. CASE keyboard_focused = {}
    <3>1. keyboard_focus_count' = 0 + 1
      BY <2>1, SlotsFinite DEF KeyboardEnter, KeyboardInv
    <3> QED  BY <3>1 DEF KeyboardEnter
  <2>2. CASE keyboard_focused # {}
    BY <2>2 DEF KeyboardEnter, KeyboardInv
  <2> QED  BY <2>1, <2>2
<1> QED  BY <1>1, <1>2 DEF KeyboardEnter, KeyboardInv

-----------------------------------------------------------------------------
(* Duplicate suppression                                                   *)

\* Whatever the timestamps, a suppressed event repeats what is known.
LEMMA KeyboardKeyInv ==
  ASSUME KeyInv, NEW s \in Slots, NEW e \in Events(Keys), KeyboardKey(s, e)
  PROVE  KeyInv'
<1>1. e.value \in Keys /\ e.state \in States
  BY DEF Events
<1>2. CASE recent_duplicate(e, last_key)
  <2>1. appKey[e.value] = e.state
    BY <1>2 DEF recent_duplicate, KeyInv
  <2>2. rawKey' = rawKey
    BY <1>1, <2>1 DEF KeyboardKey, KeyInv
  <2>3. last_key' = last_key /\ appKey' = appKey
    BY <1>2 DEF KeyboardKey
  <2> QED  BY <2>2, <2>3 DEF KeyInv
<1>3. CASE ~recent_duplicate(e, last_key)
  <2>1. /\ last_key' = {e}
        /\ appKey' = [appKey EXCEPT ![e.value] = e.state]
        /\ rawKey' = [rawKey EXCEPT ![e.value] = e.state]
    BY <1>3 DEF KeyboardKey
  <2> QED  BY <1>1, <2>1 DEF KeyInv
<1> QED  BY <1>2, <1>3

LEMMA PointerButtonInv ==
  ASSUME ButtonInv, NEW s \in Slots, NEW e \in Events(Buttons),
         PointerButton(s, e)
  PROVE  ButtonInv'
<1>1. e.value \in Buttons /\ e.state \in States
  BY DEF Events
<1>2. CASE recent_duplicate(e, last_button)
  <2>1. appButton[e.value] = e.state
    BY <1>2 DEF recent_duplicate, ButtonInv
  <2>2. rawButton' = rawButton
    BY <1>1, <2>1 DEF PointerButton, ButtonInv
  <2>3. last_button' = last_button /\ appButton' = appButton
    BY <1>2 DEF PointerButton
  <2> QED  BY <2>2, <2>3 DEF ButtonInv
<1>3. CASE ~recent_duplicate(e, last_button)
  <2>1. /\ last_button' = {e}
        /\ appButton' = [appButton EXCEPT ![e.value] = e.state]
        /\ rawButton' = [rawButton EXCEPT ![e.value] = e.state]
    BY <1>3 DEF PointerButton
  <2> QED  BY <1>1, <2>1 DEF ButtonInv
<1> QED  BY <1>2, <1>3

-----------------------------------------------------------------------------
(* The invariant                                                           *)

LEMMA InitInv == Init => IInv
<1> SUFFICES ASSUME Init PROVE IInv
  OBVIOUS
<1>1. {} \in SUBSET Slots /\ Cardinality({}) = 0
  BY FS_EmptySet
<1>2. PointerInv /\ KeyboardInv
  BY <1>1 DEF Init, PointerInv, KeyboardInv
<1>3. KeyInv /\ ButtonInv
  BY DEF Init, KeyInv, ButtonInv, States
<1>4. SeatInv
  BY DEF Init, SeatInv, FocusHasDevice
<1> QED  BY <1>2, <1>3, <1>4 DEF IInv

\* A handler that leaves a part of the state alone keeps its invariant.
LEMMA Frame ==
  /\ PointerInv /\ UNCHANGED pointerFocus => PointerInv'
  /\ KeyboardInv /\ UNCHANGED keyFocus => KeyboardInv'
  /\ KeyInv /\ UNCHANGED keyVars => KeyInv'
  /\ ButtonInv /\ UNCHANGED buttonVars => ButtonInv'
<1>1. PointerInv /\ UNCHANGED pointerFocus => PointerInv'
  BY DEF PointerInv, pointerFocus
<1>2. KeyboardInv /\ UNCHANGED keyFocus => KeyboardInv'
  BY DEF KeyboardInv, keyFocus
<1>3. KeyInv /\ UNCHANGED keyVars => KeyInv'
  BY DEF KeyInv, keyVars
<1>4. ButtonInv /\ UNCHANGED buttonVars => ButtonInv'
  BY DEF ButtonInv, buttonVars
<1> QED  BY <1>1, <1>2, <1>3, <1>4

\* Releasing slots: what was nested in the slots kept stays nested.
LEMMA DestroySeatInv ==
  ASSUME IInv, NEW S \in SUBSET Slots, DestroyInputSeats(S)
  PROVE  /\ PointerInv' /\ KeyboardInv'
         /\ bound' \in [Slots -> Names \cup {Free}]
         /\ FocusHasDevice'
<1>1. PointerInv' /\ KeyboardInv'
  BY ClearPointerInv, ClearKeyboardInv DEF DestroyInputSeats, IInv
<1>2. bound' \in [Slots -> Names \cup {Free}]
  BY DEF DestroyInputSeats, IInv, SeatInv
<1>3. /\ pointer_focused' = pointer_focused \ S
      /\ keyboard_focused' = keyboard_focused \ S
      /\ pointers' = pointers \ S /\ keyboards' = keyboards \ S
      /\ bound' = [s \in Slots |-> IF s \in S THEN Free ELSE bound[s]]
  BY DEF DestroyInputSeats, ClearPointerFocus, ClearKeyboardFocus
<1>4. FocusHasDevice'
  <2>1. ASSUME NEW s \in pointers' \cup keyboards'
        PROVE  s \in Slots /\ bound'[s] # Free
    BY <1>3, <2>1 DEF IInv, SeatInv, FocusHasDevice, BoundSlots
  <2> QED  BY <1>3, <2>1 DEF IInv, SeatInv, FocusHasDevice, BoundSlots
<1> QED  BY <1>1, <1>2, <1>4

LEMMA NextInv == IInv /\ [Next]_vars => IInv'
<1> SUFFICES ASSUME IInv, [Next]_vars PROVE IInv'
  OBVIOUS
<1> USE DEF IInv
<1>1. ASSUME NEW n \in Names, TryBind(n) PROVE IInv'
  <2>1. PointerInv' /\ KeyboardInv' /\ KeyInv' /\ ButtonInv'
    BY <1>1, Frame DEF TryBind
  <2>2. \A s \in BoundSlots : s \in BoundSlots'
    BY <1>1, SlotAssumption DEF TryBind, BoundSlots, FreeSlots, SeatInv
  <2>3. SeatInv'
    BY <1>1, <2>2 DEF TryBind, SeatInv, FocusHasDevice, deviceVars,
       pointerFocus, keyFocus
  <2> QED  BY <2>1, <2>3
<1>2. ASSUME NEW n \in Names, GlobalRemove(n) PROVE IInv'
  <2>1. SlotNamed(n) \in SUBSET Slots
    BY DEF SlotNamed
  <2>2. KeyInv' /\ ButtonInv'
    BY <1>2, Frame DEF GlobalRemove
  <2> QED  BY <1>2, <2>1, <2>2, DestroySeatInv DEF GlobalRemove, SeatInv
<1>3. ASSUME NEW s \in Slots, NEW p \in BOOLEAN, NEW k \in BOOLEAN,
             SeatCapabilities(s, p, k)
      PROVE  IInv'
  <2>1. PointerInv'
    BY <1>3, Frame, ClearPointerInv DEF SeatCapabilities
  <2>2. KeyboardInv'
    BY <1>3, Frame, ClearKeyboardInv DEF SeatCapabilities
  <2>3. KeyInv' /\ ButtonInv'
    BY <1>3, Frame DEF SeatCapabilities
  <2>4. pointer_focused' \subseteq pointers'
    BY <1>3 DEF SeatCapabilities, ClearPointerFocus, pointerFocus, SeatInv,
       FocusHasDevice
  <2>5. keyboard_focused' \subseteq keyboards'
    BY <1>3 DEF SeatCapabilities, ClearKeyboardFocus, keyFocus, SeatInv,
       FocusHasDevice
  <2>6. pointers' \cup keyboards' \subseteq BoundSlots'
    BY <1>3 DEF SeatCapabilities, seatVars, SeatInv, FocusHasDevice,
       BoundSlots
  <2>7. SeatInv'
    BY <1>3, <2>4, <2>5, <2>6 DEF SeatCapabilities, seatVars, SeatInv,
       FocusHasDevice
  <2> QED  BY <2>1, <2>2, <2>3, <2>7
<1>4. ASSUME NEW s \in Slots, PointerEnter(s) PROVE IInv'
  <2>1. PointerInv' /\ KeyboardInv' /\ KeyInv' /\ ButtonInv'
    BY <1>4, Frame, PointerEnterInv DEF PointerEnter
  <2>2. SeatInv'
    BY <1>4 DEF PointerEnter, SeatInv, FocusHasDevice, BoundSlots, seatVars,
       deviceVars, keyFocus
  <2> QED  BY <2>1, <2>2
<1>5. ASSUME NEW s \in Slots, PointerLeave(s) PROVE IInv'
  <2>1. PointerInv' /\ KeyboardInv' /\ KeyInv' /\ ButtonInv'
    BY <1>5, Frame, ClearPointerInv DEF PointerLeave
  <2>2. SeatInv'
    BY <1>5 DEF PointerLeave, ClearPointerFocus, SeatInv, FocusHasDevice,
       BoundSlots, seatVars, deviceVars, keyFocus
  <2> QED  BY <2>1, <2>2
<1>6. ASSUME NEW s \in Slots, KeyboardEnter(s) PROVE IInv'
  <2>1. PointerInv' /\ KeyboardInv' /\ KeyInv' /\ ButtonInv'
    BY <1>6, Frame, KeyboardEnterInv DEF KeyboardEnter
  <2>2. SeatInv'
    BY <1>6 DEF KeyboardEnter, SeatInv, FocusHasDevice, BoundSlots, seatVars,
       deviceVars, pointerFocus
  <2> QED  BY <2>1, <2>2
<1>7. ASSUME NEW s \in Slots, KeyboardLeave(s) PROVE IInv'
  <2>1. PointerInv' /\ KeyboardInv' /\ KeyInv' /\ ButtonInv'
    BY <1>7, Frame, ClearKeyboardInv DEF KeyboardLeave
  <2>2. SeatInv'
    BY <1>7 DEF KeyboardLeave, ClearKeyboardFocus, SeatInv, FocusHasDevice,
       BoundSlots, seatVars, deviceVars, pointerFocus
  <2> QED  BY <2>1, <2>2
<1>8. ASSUME NEW s \in Slots, NEW e \in Events(Keys), KeyboardKey(s, e)
      PROVE  IInv'
  <2>1. PointerInv' /\ KeyboardInv' /\ KeyInv' /\ ButtonInv'
    BY <1>8, Frame, KeyboardKeyInv DEF KeyboardKey
  <2>2. SeatInv'
    BY <1>8 DEF KeyboardKey, SeatInv, FocusHasDevice, BoundSlots, seatVars,
       deviceVars, pointerFocus, keyFocus
  <2> QED  BY <2>1, <2>2
<1>9. ASSUME NEW s \in Slots, NEW e \in Events(Buttons), PointerButton(s, e)
      PROVE  IInv'
  <2>1. PointerInv' /\ KeyboardInv' /\ KeyInv' /\ ButtonInv'
    BY <1>9, Frame, PointerButtonInv DEF PointerButton
  <2>2. SeatInv'
    BY <1>9 DEF PointerButton, SeatInv, FocusHasDevice, BoundSlots, seatVars,
       deviceVars, pointerFocus, keyFocus
  <2> QED  BY <2>1, <2>2
<1>10. CASE ContextDestroy
  <2>1. BoundSlots \in SUBSET Slots
    BY DEF BoundSlots
  <2>2. KeyInv' /\ ButtonInv'
    BY <1>10, Frame DEF ContextDestroy
  <2> QED  BY <1>10, <2>1, <2>2, DestroySeatInv DEF ContextDestroy, SeatInv
<1>11. CASE UNCHANGED vars
  <2>1. PointerInv' /\ KeyboardInv' /\ KeyInv' /\ ButtonInv'
    BY <1>11, Frame DEF vars
  <2>2. SeatInv'
    BY <1>11 DEF vars, SeatInv, FocusHasDevice, BoundSlots, seatVars,
       deviceVars, pointerFocus, keyFocus
  <2> QED  BY <2>1, <2>2
<1> QED
  BY <1>1, <1>2, <1>3, <1>4, <1>5, <1>6, <1>7, <1>8, <1>9, <1>10, <1>11
     DEF Next

THEOREM Invariance == Spec => []IInv
BY InitInv, NextInv, PTL DEF Spec

-----------------------------------------------------------------------------
(* What a reader relies on                                                 *)

\* Every reachable state is well typed; the counters stay within the table.
THEOREM TypeCorrect == Spec => []TypeOK
<1>1. IInv => TypeOK
  <2> SUFFICES ASSUME IInv PROVE TypeOK
    OBVIOUS
  <2> USE DEF IInv
  <2>1. /\ pointer_focus_count \in 0 .. MaxSeats
        /\ keyboard_focus_count \in 0 .. MaxSeats
    BY SlotsFinite DEF PointerInv, KeyboardInv
  <2>2. last_key \subseteq Events(Keys) /\ Cardinality(last_key) <= 1
    BY AtMostOne DEF KeyInv
  <2>3. last_button \subseteq Events(Buttons) /\ Cardinality(last_button) <= 1
    BY AtMostOne DEF ButtonInv
  <2>4. pointers \subseteq Slots /\ keyboards \subseteq Slots
    BY DEF SeatInv, FocusHasDevice, BoundSlots
  <2> QED
    BY <2>1, <2>2, <2>3, <2>4
       DEF TypeOK, PointerInv, KeyboardInv, KeyInv, ButtonInv, SeatInv
<1> QED  BY <1>1, Invariance, PTL

\* Focus counters are exact in every reachable state: no leak, no double
\* count.
THEOREM FocusSafety == Spec => []FocusCountsExact
<1>1. IInv => FocusCountsExact
  BY DEF IInv, PointerInv, KeyboardInv, FocusCountsExact
<1> QED  BY <1>1, Invariance, PTL

\* Focus never outlives its device, nor a device its seat.
THEOREM FocusNested == Spec => []FocusHasDevice
<1>1. IInv => FocusHasDevice
  BY DEF IInv, SeatInv
<1> QED  BY <1>1, Invariance, PTL

\* The application's idea of focus is right in every reachable state.
THEOREM AppFocusCorrect == Spec => []AppFocusAgrees
<1>1. IInv => AppFocusAgrees
  BY DEF IInv, PointerInv, KeyboardInv, AppFocusAgrees
<1> QED  BY <1>1, Invariance, PTL

\* Duplicate suppression hides no change of any key or button, for every
\* period of the clock, every window and every order of timestamps.
THEOREM NoEdgeLost == Spec => []EdgesInSync
<1>1. IInv => EdgesInSync
  BY DEF IInv, KeyInv, ButtonInv, EdgesInSync
<1> QED  BY <1>1, Invariance, PTL

-----------------------------------------------------------------------------
(* The slot table                                                          *)

BindInv == missed \subseteq advertised /\ BindingExact

LEMMA BindNext == IInv /\ BindInv /\ [Next]_vars => BindInv'
<1> SUFFICES ASSUME IInv, BindInv, [Next]_vars PROVE BindInv'
  OBVIOUS
<1> USE DEF BindInv
<1>1. ASSUME UNCHANGED seatVars, alive' = alive PROVE BindInv'
  BY <1>1 DEF seatVars, BindingExact, BoundSlots
<1>2. ASSUME NEW n \in Names, alive, TryBind(n) PROVE BindInv'
  <2>1. /\ n \notin advertised /\ advertised' = advertised \cup {n}
        /\ alive' = alive
    BY <1>2 DEF TryBind
  <2>2. CASE missed' = missed \cup {n} /\ UNCHANGED bound
    BY <1>2, <2>1, <2>2 DEF BindingExact, BoundSlots
  <2>3. ASSUME NEW s \in FreeSlots, bound' = [bound EXCEPT ![s] = n],
               missed' = missed
        PROVE  BindInv'
    <3>1. s \in Slots /\ bound[s] = Free /\ n # Free
      BY SlotAssumption DEF FreeSlots
    <3>2. /\ bound'[s] = n
          /\ \A t \in Slots : t # s => bound'[t] = bound[t]
      BY <2>3, <3>1 DEF IInv, SeatInv
    <3>3. BoundSlots' = BoundSlots \cup {s} /\ s \notin BoundSlots
      BY <3>1, <3>2 DEF BoundSlots
    <3>4. \A t \in BoundSlots : bound[t] # n /\ t \in Slots /\ bound'[t] = bound[t]
      BY <1>2, <2>1, <3>2, <3>3 DEF BindingExact, BoundSlots
    <3>5. {bound'[t] : t \in BoundSlots'} = (advertised \ missed) \cup {n}
      BY <1>2, <3>2, <3>3, <3>4 DEF BindingExact
    <3>6. \A t, u \in BoundSlots' : bound'[t] = bound'[u] => t = u
      BY <1>2, <3>2, <3>3, <3>4 DEF BindingExact
    <3> QED  BY <2>1, <2>3, <3>5, <3>6 DEF BindingExact
  <2> QED  BY <1>2, <2>2, <2>3 DEF TryBind
<1>3. ASSUME NEW n \in Names, alive, GlobalRemove(n) PROVE BindInv'
  <2>1. /\ advertised' = advertised \ {n} /\ missed' = missed \ {n}
        /\ alive' = alive
        /\ bound' = [s \in Slots |->
                       IF s \in SlotNamed(n) THEN Free ELSE bound[s]]
    BY <1>3 DEF GlobalRemove, DestroyInputSeats
  <2>2. n # Free
    BY SlotAssumption
  <2>3. \A s \in Slots : s \in SlotNamed(n) <=> bound[s] = n
    <3>1. ASSUME NEW s \in Slots, bound[s] = n
          PROVE  \A t \in Slots : bound[t] = n => s <= t
      BY <1>3, <2>2, <3>1 DEF BindingExact, BoundSlots, Slots
    <3> QED  BY <3>1 DEF SlotNamed
  <2>4. BoundSlots' = {s \in BoundSlots : bound[s] # n}
    BY <2>1, <2>3 DEF BoundSlots
  <2>5. \A s \in BoundSlots' : bound'[s] = bound[s]
    BY <2>1, <2>3, <2>4 DEF BoundSlots
  <2>6. {bound'[s] : s \in BoundSlots'} = (advertised \ missed) \ {n}
    BY <1>3, <2>4, <2>5 DEF BindingExact
  <2> QED  BY <1>3, <2>1, <2>4, <2>5, <2>6 DEF BindingExact
<1>4. CASE ContextDestroy
  BY <1>4 DEF ContextDestroy, BindingExact
<1> QED
  BY <1>1, <1>2, <1>3, <1>4
     DEF Next, vars, SeatCapabilities, PointerEnter, PointerLeave,
         KeyboardEnter, KeyboardLeave, KeyboardKey, PointerButton

\* Hot-plugging keeps the table exact: one slot per advertised seat that was
\* not missed, none for a seat that is gone.
THEOREM BindingCorrect == Spec => []BindingExact
<1>1. Init => BindInv
  BY DEF Init, BindInv, BindingExact, BoundSlots
<1>2. BindInv => BindingExact
  BY DEF BindInv
<1> QED  BY <1>1, <1>2, BindNext, Invariance, PTL DEF Spec

-----------------------------------------------------------------------------
(* The context keeps its promise of one pointer and one keyboard           *)

\* Every step of the context is, for the pointer, an enter of one seat, a
\* leave of some seats, or nothing the application can see.
THEOREM PointerRefines == Spec => PointerFocusKept
<1>1. Init => PointerPromise!Init
  BY DEF Init, PointerPromise!Init
<1>2. IInv /\ IInv' /\ [Next]_vars
        => [PointerPromise!Next]_(PointerPromise!vars)
  <2> SUFFICES ASSUME IInv, IInv', [Next]_vars
               PROVE  [PointerPromise!Next]_(PointerPromise!vars)
    OBVIOUS
  <2> USE DEF PointerPromise!Next, PointerPromise!vars
  <2>1. ASSUME UNCHANGED pointerFocus
        PROVE  UNCHANGED PointerPromise!vars
    BY <2>1 DEF pointerFocus
  <2>2. ASSUME NEW S \in SUBSET Slots, ClearPointerFocus(S)
        PROVE  PointerPromise!Next
    <3>1. PointerPromise!Leave(S)
      BY <2>2 DEF PointerPromise!Leave, ClearPointerFocus, IInv, PointerInv
    <3> QED  BY <3>1
  <2>3. ASSUME NEW s \in Slots, PointerEnter(s) PROVE PointerPromise!Next
    BY <2>3 DEF PointerEnter, PointerPromise!Enter
  <2>4. ASSUME NEW s \in Slots, NEW p \in BOOLEAN, NEW k \in BOOLEAN,
               SeatCapabilities(s, p, k)
        PROVE  [PointerPromise!Next]_(PointerPromise!vars)
    <3>1. {s} \in SUBSET Slots
      OBVIOUS
    <3> QED  BY <2>1, <2>2, <2>4, <3>1 DEF SeatCapabilities
  <2>5. ASSUME NEW s \in Slots, PointerLeave(s) PROVE PointerPromise!Next
    <3>1. {s} \in SUBSET Slots
      OBVIOUS
    <3> QED  BY <2>2, <2>5, <3>1 DEF PointerLeave
  <2>6. ASSUME NEW n \in Names, GlobalRemove(n) PROVE PointerPromise!Next
    BY <2>2, <2>6 DEF GlobalRemove, DestroyInputSeats, SlotNamed
  <2>7. CASE ContextDestroy
    BY <2>2, <2>7 DEF ContextDestroy, DestroyInputSeats, BoundSlots
  <2> QED
    BY <2>1, <2>3, <2>4, <2>5, <2>6, <2>7
       DEF Next, vars, TryBind, KeyboardEnter, KeyboardLeave, KeyboardKey,
           PointerButton
<1> QED
  BY <1>1, <1>2, Invariance, PTL DEF Spec, PointerFocusKept,
     PointerPromise!Spec

\* The same for the keyboard.
THEOREM KeyboardRefines == Spec => KeyboardFocusKept
<1>1. Init => KeyboardPromise!Init
  BY DEF Init, KeyboardPromise!Init
<1>2. IInv /\ IInv' /\ [Next]_vars
        => [KeyboardPromise!Next]_(KeyboardPromise!vars)
  <2> SUFFICES ASSUME IInv, IInv', [Next]_vars
               PROVE  [KeyboardPromise!Next]_(KeyboardPromise!vars)
    OBVIOUS
  <2> USE DEF KeyboardPromise!Next, KeyboardPromise!vars
  <2>1. ASSUME UNCHANGED keyFocus
        PROVE  UNCHANGED KeyboardPromise!vars
    BY <2>1 DEF keyFocus
  <2>2. ASSUME NEW S \in SUBSET Slots, ClearKeyboardFocus(S)
        PROVE  KeyboardPromise!Next
    <3>1. KeyboardPromise!Leave(S)
      BY <2>2 DEF KeyboardPromise!Leave, ClearKeyboardFocus, IInv,
         KeyboardInv
    <3> QED  BY <3>1
  <2>3. ASSUME NEW s \in Slots, KeyboardEnter(s) PROVE KeyboardPromise!Next
    <3>1. KeyboardPromise!Enter(s)
      BY <2>3 DEF KeyboardEnter, KeyboardPromise!Enter, IInv, KeyboardInv
    <3> QED  BY <3>1
  <2>4. ASSUME NEW s \in Slots, NEW p \in BOOLEAN, NEW k \in BOOLEAN,
               SeatCapabilities(s, p, k)
        PROVE  [KeyboardPromise!Next]_(KeyboardPromise!vars)
    <3>1. {s} \in SUBSET Slots
      OBVIOUS
    <3> QED  BY <2>1, <2>2, <2>4, <3>1 DEF SeatCapabilities
  <2>5. ASSUME NEW s \in Slots, KeyboardLeave(s) PROVE KeyboardPromise!Next
    <3>1. {s} \in SUBSET Slots
      OBVIOUS
    <3> QED  BY <2>2, <2>5, <3>1 DEF KeyboardLeave
  <2>6. ASSUME NEW n \in Names, GlobalRemove(n) PROVE KeyboardPromise!Next
    BY <2>2, <2>6 DEF GlobalRemove, DestroyInputSeats, SlotNamed
  <2>7. CASE ContextDestroy
    BY <2>2, <2>7 DEF ContextDestroy, DestroyInputSeats, BoundSlots
  <2> QED
    BY <2>1, <2>3, <2>4, <2>5, <2>6, <2>7
       DEF Next, vars, TryBind, PointerEnter, PointerLeave, KeyboardKey,
           PointerButton
<1> QED
  BY <1>1, <1>2, Invariance, PTL DEF Spec, KeyboardFocusKept,
     KeyboardPromise!Spec

-----------------------------------------------------------------------------
(* The CPU renderer's pointer: a step of RectPointer is one of WebosInput  *)
(* with the callbacks it runs, so the invariant above is kept.             *)

PInv ==
  /\ IInv
  /\ have_pointer \in BOOLEAN /\ dragging \in BOOLEAN
  /\ CursorShown
  /\ DragFollowsButton

\* What the renderer does is allowed by the input context.
LEMMA PointerStep == [PointerNext]_pointerState => [Next]_vars
<1> SUFFICES ASSUME [PointerNext]_pointerState PROVE [Next]_vars
  OBVIOUS
<1>1. ASSUME alive, Leaving PROVE Next
  BY <1>1 DEF Leaving, Next
<1>2. ASSUME alive, Elsewhere PROVE Next
  BY <1>2 DEF Elsewhere, Next
<1>3. ASSUME alive, NEW s \in Slots, Enter(s) PROVE Next
  BY <1>3 DEF Enter, Next
<1>4. ASSUME NEW s \in Slots, Motion(s) PROVE UNCHANGED vars
  BY <1>4 DEF Motion
<1>5. ASSUME alive, NEW s \in Slots, NEW e \in Events(Buttons),
             NEW zone \in Zones, Button(s, e, zone)
      PROVE  Next
  BY <1>5 DEF Button, Next
<1>6. ASSUME alive, NEW s \in Slots, NEW e \in Events(Keys), Key(s, e)
      PROVE  Next
  BY <1>6 DEF Key, Next
<1>7. CASE UNCHANGED pointerState
  BY <1>7 DEF pointerState
<1> QED
  BY <1>1, <1>2, <1>3, <1>4, <1>5, <1>6, <1>7 DEF PointerNext

-----------------------------------------------------------------------------
(* The callbacks                                                           *)

\* input_pointer_leave is called exactly when the last pointer goes.
LEMMA LeaveExact ==
  ASSUME PInv, IInv', input_pointer_leave,
         pointer_focused' \subseteq pointer_focused,
         UNCHANGED rawButton
  PROVE  PInv'
<1>1. pointer_focus_count' = 0 <=> pointer_focused' = {}
  BY SlotsFinite DEF IInv, PointerInv
<1>2. LeaveCalled <=> pointer_focused # {} /\ pointer_focused' = {}
  BY <1>1 DEF LeaveCalled
<1>3. CursorShown' /\ have_pointer' \in BOOLEAN /\ dragging' \in BOOLEAN
  BY <1>2 DEF PInv, input_pointer_leave, CursorShown
<1>4. DragFollowsButton'
  BY <1>2 DEF PInv, input_pointer_leave, DragFollowsButton
<1> QED  BY <1>3, <1>4 DEF PInv

\* A step the pointer and its buttons have no part in.
LEMMA Untouched ==
  ASSUME PInv, IInv', UNCHANGED <<have_pointer, dragging>>,
         UNCHANGED <<pointer_focused, rawButton>>
  PROVE  PInv'
BY DEF PInv, CursorShown, DragFollowsButton

\* A button event ends the drag or leaves the button pressed.
LEMMA ButtonKeeps ==
  ASSUME PInv, IInv', NEW s \in Slots, NEW e \in Events(Buttons),
         NEW zone \in Zones, Button(s, e, zone)
  PROVE  PInv'
<1>1. /\ e.value \in Buttons /\ e.state \in States
      /\ s \in pointer_focused /\ UNCHANGED pointer_focused
      /\ have_pointer' = have_pointer
  BY DEF Events, Button, PointerButton, pointerFocus, rectInput,
     input_pointer_button
<1>2. rawButton' = [rawButton EXCEPT ![e.value] = e.state]
  BY DEF Button, PointerButton
<1>3. rawButton \in [Buttons -> States] /\ rawButton = appButton
  BY DEF PInv, IInv, ButtonInv
<1>4. CASE recent_duplicate(e, last_button)
  <2>1. appButton[e.value] = e.state
    BY <1>4 DEF recent_duplicate, PInv, IInv, ButtonInv
  <2>2. rawButton' = rawButton
    BY <1>1, <1>2, <1>3, <2>1
  <2>3. dragging' = dragging
    BY <1>4 DEF Button, rectInput
  <2> QED  BY <1>1, <2>2, <2>3, Untouched
<1>5. CASE ~recent_duplicate(e, last_button)
  <2>1. input_pointer_button(e, zone)
    BY <1>5 DEF Button
  <2>2. CASE e.value = Left
    <3>1. rawButton'[Left] = e.state
      BY <1>1, <1>2, <1>3, <2>2
    <3>2. dragging' = (e.state = Pressed /\ (zone = "title" \/ dragging))
      BY <2>1, <2>2 DEF input_pointer_button
    <3>3. dragging' \in BOOLEAN /\ DragFollowsButton'
      BY <1>1, <3>1, <3>2 DEF DragFollowsButton
    <3> QED  BY <1>1, <3>3 DEF PInv, CursorShown
  <2>3. CASE e.value # Left
    <3>1. rawButton'[Left] = rawButton[Left]
      BY <1>1, <1>2, <1>3, <2>3, PointerAssumption
    <3>2. dragging' = dragging
      BY <2>1, <2>3 DEF input_pointer_button
    <3> QED  BY <1>1, <3>1, <3>2 DEF PInv, CursorShown, DragFollowsButton
  <2> QED  BY <2>2, <2>3
<1> QED  BY <1>4, <1>5

-----------------------------------------------------------------------------

LEMMA PointerStepInv == PInv /\ [PointerNext]_pointerState => PInv'
<1> SUFFICES ASSUME PInv, [PointerNext]_pointerState PROVE PInv'
  OBVIOUS
<1>1. IInv'
  BY PointerStep, NextInv DEF PInv
<1>2. ASSUME NEW S \in SUBSET Slots, DestroyInputSeats(S)
      PROVE  pointer_focused' \subseteq pointer_focused
  BY <1>2 DEF DestroyInputSeats, ClearPointerFocus
<1>3. CASE Leaving
  <2>1. /\ pointer_focused' \subseteq pointer_focused
        /\ rawButton' = rawButton
    <3>1. CASE \E s \in Slots : PointerLeave(s)
      BY <3>1 DEF PointerLeave, ClearPointerFocus, buttonVars
    <3>2. CASE \E s \in Slots, p, k \in BOOLEAN : SeatCapabilities(s, p, k)
      BY <3>2 DEF SeatCapabilities, ClearPointerFocus, pointerFocus, buttonVars
    <3>3. CASE \E n \in Names : GlobalRemove(n)
      <4>1. PICK n \in Names : GlobalRemove(n)
        BY <3>3
      <4>2. SlotNamed(n) \in SUBSET Slots
        BY DEF SlotNamed
      <4> QED  BY <1>2, <4>1, <4>2 DEF GlobalRemove, buttonVars
    <3>4. CASE ContextDestroy
      <4>1. BoundSlots \in SUBSET Slots
        BY DEF BoundSlots
      <4> QED  BY <1>2, <3>4, <4>1 DEF ContextDestroy, buttonVars
    <3> QED  BY <1>3, <3>1, <3>2, <3>3, <3>4 DEF Leaving
  <2> QED  BY <1>1, <1>3, <2>1, LeaveExact DEF Leaving
<1>4. CASE Elsewhere
  <2>1. UNCHANGED <<pointer_focused, rawButton>>
    BY <1>4 DEF Elsewhere, TryBind, KeyboardEnter, KeyboardLeave,
       pointerFocus, buttonVars
  <2>2. UNCHANGED <<have_pointer, dragging>>
    BY <1>4 DEF Elsewhere, rectInput
  <2> QED  BY <1>1, <2>1, <2>2, Untouched
<1>5. ASSUME NEW s \in Slots, Enter(s) PROVE PInv'
  BY <1>1, <1>5 DEF Enter, PointerEnter, input_pointer_enter, buttonVars, PInv,
     CursorShown, DragFollowsButton
<1>6. ASSUME NEW s \in Slots, Motion(s) PROVE PInv'
  <2>1. UNCHANGED <<pointer_focused, rawButton, dragging>> /\ have_pointer'
    BY <1>6 DEF Motion, vars, pointerFocus, buttonVars
  <2>2. have_pointer' = TRUE /\ s \in pointer_focused
    BY <1>6 DEF Motion
  <2> QED  BY <1>1, <2>1, <2>2 DEF PInv, CursorShown, DragFollowsButton
<1>7. ASSUME NEW s \in Slots, NEW e \in Events(Buttons), NEW zone \in Zones,
             Button(s, e, zone)
      PROVE  PInv'
  BY <1>1, <1>7, ButtonKeeps
<1>8. ASSUME NEW s \in Slots, NEW e \in Events(Keys), Key(s, e) PROVE PInv'
  <2>1. UNCHANGED <<pointer_focused, rawButton>>
    BY <1>8 DEF Key, KeyboardKey, pointerFocus, buttonVars
  <2>2. UNCHANGED <<have_pointer, dragging>>
    BY <1>8 DEF Key
  <2> QED  BY <1>1, <2>1, <2>2, Untouched
<1>9. CASE UNCHANGED pointerState
  <2>1. UNCHANGED <<pointer_focused, rawButton, have_pointer, dragging>>
    BY <1>9 DEF pointerState, rectInput, vars, pointerFocus, buttonVars
  <2> QED  BY <1>1, <2>1, Untouched
<1> QED
  BY <1>3, <1>4, <1>5, <1>6, <1>7, <1>8, <1>9 DEF PointerNext

LEMMA PointerInitInv == PointerInit => PInv
BY InitInv DEF PointerInit, Init, PInv, CursorShown, DragFollowsButton

THEOREM PointerInvariance == PointerSpec => []PInv
BY PointerInitInv, PointerStepInv, PTL DEF PointerSpec

\* The cursor is drawn exactly while some pointer is inside.
THEOREM CursorCorrect == PointerSpec => []CursorShown
<1>1. PInv => CursorShown
  BY DEF PInv
<1> QED  BY <1>1, PointerInvariance, PTL

\* No suppressed release, no unplugged seat, leaves a drag without a pointer
\* and a pressed button.
THEOREM DragCorrect == PointerSpec => []DragFollowsButton
<1>1. PInv => DragFollowsButton
  BY DEF PInv
<1> QED  BY <1>1, PointerInvariance, PTL

\* The renderer's use of the input context is one of its behaviours, so all
\* that is proved of the context holds here.
THEOREM PointerUsesInput == PointerSpec => Spec
<1>1. PointerInit => Init
  BY DEF PointerInit
<1> QED  BY <1>1, PointerStep, PTL DEF PointerSpec, Spec

-----------------------------------------------------------------------------
(* Mirrored seats: each physical event arrives once.  The proof names the  *)
(* physical events so far and what they did to the keys, and relates what  *)
(* is still due on the seats and what the application had to them.         *)

Copies == [id : Nat, key : Keys, state : States]

\* H lists the physical events so far and D the states of the keys between
\* them: each event toggles its key.
Toggles(H, D) ==
  /\ H \in [1 .. produced -> Copies] /\ D \in [0 .. produced -> [Keys -> States]]
  /\ \A i \in 1 .. produced :
       /\ H[i].id = i /\ H[i].state = Pressed - D[i - 1][H[i].key]
       /\ D[i] = [D[i - 1] EXCEPT ![H[i].key] = H[i].state]
  /\ D[produced] = down

\* The number of events seat s has had.
Had(s) == produced - Len(pending[s])

\* What is due on the seats, and what the application has had, is part of it.
Follows(H, D) ==
  /\ \A s \in Slots : \A i \in 1 .. Len(pending[s]) : pending[s][i] = H[Had(s) + i]
  /\ appKey = D[Len(log)]
  /\ Len(log) = 0 => last_key = {}
  /\ Len(log) > 0 => \E p : /\ last_key = {p} /\ p.value = H[Len(log)].key
                            /\ p.state = H[Len(log)].state

\* The seats are at most one event apart, and one that waits for its copy of
\* the last event has not waited longer than the window.
Apart ==
  /\ \A s \in Slots : Had(s) \in {Len(log) - 1, Len(log)}
  /\ \E s \in Slots : Had(s) = Len(log)
  /\ Partial => \A p \in last_key : (clock - p.time) % TimeMod <= age

MirrorTypes ==
  /\ keyboards = Slots
  /\ pending \in [Slots -> Seq(Copies)] /\ \A s \in Slots : Len(pending[s]) <= produced
  /\ clock \in Time /\ age \in 0 .. Window /\ produced \in Nat
  /\ \A p \in last_key : p.time \in Time
  /\ down \in [Keys -> States]
  /\ log \in Seq(Nat) /\ Len(log) <= produced /\ \A i \in 1 .. Len(log) : log[i] = i

MirrorInv == MirrorTypes /\ Apart /\ \E H, D : Toggles(H, D) /\ Follows(H, D)

LEMMA SmallMod ==
  ASSUME NEW m \in Nat \ {0}, NEW x \in 0 .. m - 1
  PROVE  x % m = x
OBVIOUS

LEMMA NegMod ==
  ASSUME NEW m \in Nat \ {0}, NEW x \in Int, x < 0, 0 <= x + m
  PROVE  x % m = x + m
OBVIOUS

\* A tick of the clock makes every earlier time older by one at most.
LEMMA OlderByOne ==
  ASSUME NEW c \in Time, NEW t \in Time
  PROVE  /\ (c + 1) % TimeMod \in Time
         /\ (((c + 1) % TimeMod) - t) % TimeMod <= ((c - t) % TimeMod) + 1
         /\ (c - t) % TimeMod \in Nat
<1>0. TimeMod \in Nat \ {0} /\ c \in 0 .. TimeMod - 1 /\ t \in 0 .. TimeMod - 1
  BY TimeAssumption DEF Time
<1>1. (c + 1) % TimeMod = IF c + 1 = TimeMod THEN 0 ELSE c + 1
  <2>1. CASE c + 1 = TimeMod
    BY <1>0, <2>1
  <2>2. CASE c + 1 # TimeMod
    BY <1>0, <2>2, SmallMod
  <2> QED  BY <2>1, <2>2
<1>2. (c - t) % TimeMod = IF c >= t THEN c - t ELSE c - t + TimeMod
  <2>1. CASE c >= t
    BY <1>0, <2>1, SmallMod
  <2>2. CASE ~(c >= t)
    <3>1. c - t \in Int /\ c - t < 0 /\ 0 <= (c - t) + TimeMod
      BY <1>0, <2>2
    <3>2. (c - t) % TimeMod = (c - t) + TimeMod
      BY <1>0, <3>1, NegMod
    <3> QED  BY <2>2, <3>2
  <2> QED  BY <2>1, <2>2
<1>3. CASE c + 1 = TimeMod
  <2>1. (0 - t) % TimeMod = IF t = 0 THEN 0 ELSE TimeMod - t
    <3>1. CASE t = 0
      BY <1>0, <3>1, SmallMod
    <3>2. CASE t # 0
      BY <1>0, <3>2, NegMod
    <3> QED  BY <3>1, <3>2
  <2> QED  BY <1>0, <1>1, <1>2, <1>3, <2>1 DEF Time
<1>4. CASE c + 1 # TimeMod
  <2>1. (c + 1 - t) % TimeMod = IF c + 1 >= t THEN c + 1 - t ELSE c + 1 - t + TimeMod
    <3>1. CASE c + 1 >= t
      <4>1. CASE c + 1 - t = TimeMod
        BY <1>0, <1>4, <4>1
      <4>2. CASE c + 1 - t # TimeMod
        BY <1>0, <1>4, <3>1, <4>2, SmallMod
      <4> QED  BY <4>1, <4>2
    <3>2. CASE ~(c + 1 >= t)
      BY <1>0, <3>2, NegMod
    <3> QED  BY <3>1, <3>2
  <2> QED  BY <1>0, <1>1, <1>2, <1>4, <2>1 DEF Time
<1> QED  BY <1>3, <1>4

LEMMA SlotExists == \E s \in Slots : TRUE
<1>1. 0 \in Slots
  BY SlotAssumption DEF Slots
<1> QED  BY <1>1

LEMMA MirrorStarts == MirrorInit => MirrorInv
<1> SUFFICES ASSUME MirrorInit PROVE MirrorInv
  OBVIOUS
<1>1. MirrorTypes
  BY TimeAssumption DEF MirrorInit, MirrorTypes, States, Released, Pressed
<1>2. produced = 0 /\ Len(log) = 0 /\ \A s \in Slots : Len(pending[s]) = 0
  BY DEF MirrorInit
<1>3. Apart
  <2>1. \A s \in Slots : Had(s) = 0
    BY <1>2 DEF Had
  <2>2. ~Partial
    BY <1>2 DEF Partial
  <2> QED  BY <1>2, <2>1, <2>2, SlotExists DEF Apart
<1> DEFINE H == [i \in 1 .. 0 |-> 0]
           D == [i \in 0 .. 0 |-> down]
<1>4. Toggles(H, D)
  <2>1. H \in [1 .. produced -> Copies]
    BY <1>2
  <2>2. D \in [0 .. produced -> [Keys -> States]] /\ D[produced] = down
    BY <1>1, <1>2 DEF MirrorTypes
  <2> QED  BY <1>2, <2>1, <2>2 DEF Toggles
<1>5. Follows(H, D)
  <2>1. appKey = D[Len(log)]
    BY <1>2 DEF MirrorInit
  <2>2. last_key = {}
    BY DEF MirrorInit
  <2> QED  BY <1>2, <2>1, <2>2 DEF Follows
<1> QED  BY <1>1, <1>3, <1>4, <1>5 DEF MirrorInv

-----------------------------------------------------------------------------

LEMMA ProduceKeeps ==
  ASSUME MirrorInv, NEW k \in Keys, Produce(k)
  PROVE  MirrorInv'
<1> DEFINE e == [id |-> produced + 1, key |-> k, state |-> Pressed - down[k]]
           P == produced + 1
<1>1. /\ produced' = P /\ down' = [down EXCEPT ![k] = e.state]
      /\ pending' = [s \in Slots |-> Append(pending[s], e)]
      /\ UNCHANGED <<keyboards, appKey, last_key, clock, age, log>>
  BY DEF Produce, vars, deviceVars, keyVars, MirrorInv, MirrorTypes
<1>2. MirrorTypes
  BY DEF MirrorInv
<1>3. e \in Copies /\ e.state \in States
  BY <1>2 DEF MirrorTypes, Copies, States, Pressed, Released
<1>4. \A s \in Slots :
        /\ pending'[s] \in Seq(Copies) /\ Len(pending'[s]) = Len(pending[s]) + 1
        /\ \A i \in 1 .. Len(pending[s]) : pending'[s][i] = pending[s][i]
        /\ pending'[s][Len(pending[s]) + 1] = e
        /\ Len(pending[s]) \in Nat /\ Len(pending[s]) <= produced
  BY <1>1, <1>2, <1>3, AppendProperties, LenProperties DEF MirrorTypes
<1>5. \A s \in Slots : Had(s)' = Had(s)
  BY <1>1, <1>2, <1>4 DEF Had, MirrorTypes
<1>6. MirrorTypes'
  <2>1. pending' \in [Slots -> Seq(Copies)] /\ \A s \in Slots : Len(pending'[s]) <= produced'
    BY <1>1, <1>2, <1>4 DEF MirrorTypes
  <2>2. down' \in [Keys -> States]
    BY <1>1, <1>2, <1>3 DEF MirrorTypes
  <2>3. produced' \in Nat /\ Len(log') <= produced'
    BY <1>1, <1>2, LenProperties DEF MirrorTypes
  <2> QED  BY <1>1, <1>2, <2>1, <2>2, <2>3 DEF MirrorTypes
<1>7. Apart'
  <2>1. Partial' <=> Partial
    BY <1>4 DEF Partial
  <2> QED  BY <1>1, <1>5, <2>1 DEF Apart, MirrorInv
<1>8. PICK H, D : Toggles(H, D) /\ Follows(H, D)
  BY DEF MirrorInv
<1>15. PICK H2, D2 : /\ H2 = [i \in 1 .. P |-> IF i = P THEN e ELSE H[i]]
                     /\ D2 = [i \in 0 .. P |-> IF i = P THEN down' ELSE D[i]]
  OBVIOUS
<1>9. produced \in Nat /\ P \in Nat
  BY <1>2 DEF MirrorTypes
<1>10. /\ \A i \in 1 .. produced : H2[i] = H[i] /\ i # P
       /\ H2[P] = e
       /\ \A i \in 0 .. produced : D2[i] = D[i]
       /\ D2[P] = down' /\ D2[produced] = down
  BY <1>8, <1>9, <1>15 DEF Toggles
<1>11. H2 \in [1 .. P -> Copies] /\ D2 \in [0 .. P -> [Keys -> States]]
  BY <1>1, <1>3, <1>6, <1>8, <1>9, <1>15 DEF Toggles, MirrorTypes
<1>12. \A i \in 1 .. P :
         /\ H2[i].id = i /\ H2[i].state = Pressed - D2[i - 1][H2[i].key]
         /\ D2[i] = [D2[i - 1] EXCEPT ![H2[i].key] = H2[i].state]
  <2>1. ASSUME NEW i \in 1 .. produced
        PROVE  /\ H2[i].id = i /\ H2[i].state = Pressed - D2[i - 1][H2[i].key]
               /\ D2[i] = [D2[i - 1] EXCEPT ![H2[i].key] = H2[i].state]
    <3>1. H2[i] = H[i] /\ D2[i] = D[i] /\ D2[i - 1] = D[i - 1]
      BY <1>9, <1>10
    <3> QED  BY <1>8, <3>1 DEF Toggles
  <2>2. /\ H2[P].id = P /\ H2[P].state = Pressed - D2[P - 1][H2[P].key]
        /\ D2[P] = [D2[P - 1] EXCEPT ![H2[P].key] = H2[P].state]
    <3>1. D2[P - 1] = down
      BY <1>9, <1>10
    <3>2. D2[P] = [down EXCEPT ![H2[P].key] = H2[P].state]
      BY <1>1, <1>10
    <3> QED  BY <1>10, <3>1, <3>2
  <2> QED  BY <1>9, <2>1, <2>2
<1>13. Toggles(H2, D2)'
  BY <1>1, <1>10, <1>11, <1>12 DEF Toggles
<1>14. Follows(H2, D2)'
  <2>0. Len(log) \in Nat /\ Len(log) <= produced
    BY <1>2, LenProperties DEF MirrorTypes
  <2>1. ASSUME NEW s \in Slots, NEW i \in 1 .. Len(pending'[s])
        PROVE  pending'[s][i] = H2[Had(s)' + i]
    <3>1. Had(s) = produced - Len(pending[s]) /\ Had(s)' = produced - Len(pending[s])
      BY <1>5 DEF Had
    <3>2. CASE i = Len(pending[s]) + 1
      <4>1. Had(s)' + i = P
        <5>1. Len(pending[s]) \in Nat /\ produced \in Nat
          BY <1>4, <1>9
        <5>2. Had(s)' + i = (produced - Len(pending[s])) + (Len(pending[s]) + 1)
          BY <3>1, <3>2
        <5> QED  BY <5>1, <5>2
      <4> QED  BY <1>4, <1>10, <3>2, <4>1
    <3>3. CASE i \in 1 .. Len(pending[s])
      <4>1. Had(s) + i \in 1 .. produced
        BY <1>4, <1>9, <3>1, <3>3
      <4>2. pending[s][i] = H[Had(s) + i]
        BY <1>8, <3>3 DEF Follows
      <4> QED  BY <1>4, <1>10, <3>1, <3>3, <4>1, <4>2
    <3> QED  BY <1>4, <3>2, <3>3
  <2>2. appKey' = D2[Len(log)]
    <3>1. Len(log) \in 0 .. produced
      BY <1>9, <2>0
    <3> QED  BY <1>1, <1>8, <1>10, <3>1 DEF Follows
  <2>3. Len(log) > 0 => H2[Len(log)] = H[Len(log)]
    <3>1. Len(log) > 0 => Len(log) \in 1 .. produced
      BY <1>9, <2>0
    <3> QED  BY <1>10, <3>1
  <2> QED  BY <1>1, <1>8, <2>1, <2>2, <2>3 DEF Follows
<1> QED  BY <1>6, <1>7, <1>13, <1>14 DEF MirrorInv

LEMMA TickKeeps ==
  ASSUME MirrorInv, Tick, Partial => age < Window
  PROVE  MirrorInv'
<1>1. /\ clock' = (clock + 1) % TimeMod
      /\ age' = IF Partial THEN age + 1 ELSE 0
      /\ UNCHANGED <<keyboards, appKey, last_key, down, produced, pending, log>>
  BY DEF Tick, vars, deviceVars, keyVars
<1>2. MirrorTypes /\ Apart
  BY DEF MirrorInv
<1>3. clock \in Time /\ clock' \in Time
  BY <1>1, <1>2, OlderByOne DEF MirrorTypes
<1>4. age' \in 0 .. Window
  BY <1>1, <1>2, TimeAssumption DEF MirrorTypes
<1>5. MirrorTypes'
  BY <1>1, <1>2, <1>3, <1>4 DEF MirrorTypes
<1>6. Partial' <=> Partial
  BY <1>1 DEF Partial
<1>7. ASSUME Partial, NEW p \in last_key
      PROVE  (clock' - p.time) % TimeMod <= age'
  <2>1. p.time \in Time /\ (clock - p.time) % TimeMod <= age /\ age \in Nat
    BY <1>2, <1>7 DEF MirrorTypes, Apart
  <2>2. /\ (clock' - p.time) % TimeMod <= ((clock - p.time) % TimeMod) + 1
        /\ (clock - p.time) % TimeMod \in Nat
    BY <1>1, <1>3, <2>1, OlderByOne
  <2>3. (clock' - p.time) % TimeMod \in Nat
    BY <1>3, <2>1, OlderByOne
  <2> HIDE DEF Time
  <2> QED  BY <1>1, <1>7, <2>1, <2>2, <2>3
<1>8. Apart'
  BY <1>1, <1>2, <1>6, <1>7 DEF Apart, Had
<1>9. ASSUME NEW H, NEW D, Toggles(H, D), Follows(H, D)
      PROVE  Toggles(H, D)' /\ Follows(H, D)'
  BY <1>1, <1>9 DEF Toggles, Follows, Had
<1> QED  BY <1>5, <1>8, <1>9 DEF MirrorInv
-----------------------------------------------------------------------------

\* The event after the last one the application had is never taken for a
\* repetition of it: another key, or the same key in the other state.
LEMMA NextIsNews ==
  ASSUME NEW H, NEW D, Toggles(H, D), Follows(H, D), MirrorTypes,
         NEW t, Len(log) < produced
  PROVE  LET n == Len(log) + 1
             e == [time |-> t, value |-> H[n].key, state |-> H[n].state]
         IN  /\ ~recent_duplicate(e, last_key)
             /\ D[n] = [appKey EXCEPT ![e.value] = e.state]
<1> DEFINE L == Len(log)
           n == L + 1
           e == [time |-> t, value |-> H[n].key, state |-> H[n].state]
<1>1. L \in Nat /\ produced \in Nat /\ n \in 1 .. produced /\ n - 1 = L
  BY LenProperties DEF MirrorTypes
<1>2. /\ H[n] \in Copies /\ H[n].state = Pressed - D[L][H[n].key]
      /\ D[n] = [D[L] EXCEPT ![H[n].key] = H[n].state]
  BY <1>1 DEF Toggles
<1>3. D[n] = [appKey EXCEPT ![e.value] = e.state]
  BY <1>2 DEF Follows
<1>4. ASSUME L > 0, H[n].key = H[L].key PROVE H[n].state # H[L].state
  <2>1. L \in 1 .. produced /\ L - 1 \in 0 .. produced
    BY <1>1, <1>4
  <2>2. /\ H[L] \in Copies /\ D[L] = [D[L - 1] EXCEPT ![H[L].key] = H[L].state]
        /\ D[L - 1] \in [Keys -> States]
    BY <2>1 DEF Toggles
  <2>3. D[L][H[L].key] = H[L].state
    BY <2>2 DEF Copies
  <2> QED  BY <1>2, <1>4, <2>2, <2>3 DEF Copies, States, Pressed, Released
<1>5. ~recent_duplicate(e, last_key)
  <2>1. CASE L = 0
    BY <2>1 DEF Follows, recent_duplicate
  <2>2. CASE L > 0
    <3>1. PICK p : /\ last_key = {p} /\ p.value = H[L].key /\ p.state = H[L].state
      BY <2>2 DEF Follows
    <3>2. ~(e.value = p.value /\ e.state = p.state)
      BY <1>4, <2>2, <3>1
    <3> QED  BY <3>1, <3>2 DEF recent_duplicate
  <2> QED  BY <1>1, <2>1, <2>2
<1> QED  BY <1>3, <1>5

\* A copy of the last event is dropped, one of the next event is delivered.
LEMMA ForwardKeeps ==
  ASSUME MirrorInv, NEW s \in Slots, pending[s] # <<>>, Oldest(s), Forward(s)
  PROVE  MirrorInv'
<1> DEFINE c == Head(pending[s])
           e == [time |-> clock, value |-> c.key, state |-> c.state]
           L == Len(log)
<1>1. /\ pending' = [pending EXCEPT ![s] = Tail(@)]
      /\ UNCHANGED <<clock, down, produced, age, keyboards>>
      /\ IF recent_duplicate(e, last_key)
         THEN UNCHANGED <<last_key, appKey, log>>
         ELSE /\ last_key' = {e} /\ log' = Append(log, c.id)
              /\ appKey' = [appKey EXCEPT ![e.value] = e.state]
  BY DEF Forward, KeyboardKey, deviceVars
<1>2. MirrorTypes /\ Apart
  BY DEF MirrorInv
<1>3. PICK H, D : Toggles(H, D) /\ Follows(H, D)
  BY DEF MirrorInv
<1>4. L \in Nat /\ L <= produced /\ produced \in Nat
  BY <1>2, LenProperties DEF MirrorTypes
<1>5. \A t \in Slots : Len(pending[t]) \in Nat /\ Len(pending[t]) <= produced
  BY <1>2, LenProperties DEF MirrorTypes
<1>6. /\ c \in Copies /\ pending'[s] = Tail(pending[s]) /\ pending'[s] \in Seq(Copies)
      /\ Len(pending[s]) > 0
      /\ Len(pending'[s]) = Len(pending[s]) - 1
      /\ \A i \in 1 .. Len(pending'[s]) : pending'[s][i] = pending[s][i + 1]
      /\ \A t \in Slots \ {s} : pending'[t] = pending[t]
  BY <1>1, <1>2, HeadTailProperties, EmptySeq, LenProperties DEF MirrorTypes
<1>7. /\ Had(s)' = Had(s) + 1 /\ \A t \in Slots \ {s} : Had(t)' = Had(t)
      /\ Had(s) \in Nat /\ Had(s) < produced
  <2>1. produced' = produced
    BY <1>1
  <2>2. /\ Had(s) = produced - Len(pending[s]) /\ Had(s)' = produced - Len(pending'[s])
        /\ \A t \in Slots : Had(t) = produced - Len(pending[t])
        /\ \A t \in Slots : Had(t)' = produced - Len(pending'[t])
    BY <2>1 DEF Had
  <2>3. Len(pending[s]) \in Nat /\ Len(pending[s]) <= produced
    BY <1>5
  <2>4. Len(pending[s]) > 0 /\ Len(pending'[s]) = Len(pending[s]) - 1
    BY <1>6
  <2>5. Had(s)' = Had(s) + 1 /\ Had(s) \in Nat /\ Had(s) < produced
    BY <1>4, <2>2, <2>3, <2>4
  <2>6. \A t \in Slots \ {s} : Had(t)' = Had(t)
    BY <1>6, <2>2
  <2> QED  BY <2>5, <2>6
<1>8. c = H[Had(s) + 1] /\ c.id = Had(s) + 1
  <2>1. c = pending[s][1]
    BY <1>2 DEF MirrorTypes
  <2>2. 1 \in 1 .. Len(pending[s])
    BY <1>5, <1>6
  <2>3. c = H[Had(s) + 1]
    BY <1>3, <2>1, <2>2 DEF Follows
  <2>4. Had(s) + 1 \in 1 .. produced
    BY <1>4, <1>7
  <2> QED  BY <1>3, <2>3, <2>4 DEF Toggles
<1>9. \A t \in Slots : \A i \in 1 .. Len(pending'[t]) : pending'[t][i] = H[Had(t)' + i]
  <2>1. ASSUME NEW i \in 1 .. Len(pending'[s])
        PROVE  pending'[s][i] = H[Had(s)' + i]
    <3>1. i + 1 \in 1 .. Len(pending[s]) /\ Had(s)' + i = Had(s) + (i + 1)
      BY <1>5, <1>6, <1>7
    <3> QED  BY <1>3, <1>6, <3>1 DEF Follows
  <2>2. ASSUME NEW t \in Slots \ {s}, NEW i \in 1 .. Len(pending'[t])
        PROVE  pending'[t][i] = H[Had(t)' + i]
    BY <1>3, <1>6, <1>7 DEF Follows
  <2> QED  BY <2>1, <2>2
<1>10. Toggles(H, D)'
  BY <1>1, <1>3 DEF Toggles
<1>11. pending' \in [Slots -> Seq(Copies)] /\ \A t \in Slots : Len(pending'[t]) <= produced'
  <2>1. \A t \in Slots : pending'[t] \in Seq(Copies) /\ Len(pending'[t]) <= produced
    <3>1. pending'[s] \in Seq(Copies) /\ Len(pending'[s]) <= produced
      <4>1. Len(pending[s]) \in Nat /\ Len(pending[s]) <= produced
        BY <1>5
      <4>2. Len(pending'[s]) = Len(pending[s]) - 1 /\ pending'[s] \in Seq(Copies)
        BY <1>6
      <4> QED  BY <1>4, <4>1, <4>2
    <3>2. \A t \in Slots \ {s} : pending'[t] \in Seq(Copies) /\ Len(pending'[t]) <= produced
      <4>1. \A t \in Slots \ {s} : pending'[t] = pending[t]
        BY <1>6
      <4> QED  BY <1>2, <4>1 DEF MirrorTypes
    <3> QED  BY <3>1, <3>2
  <2> QED  BY <1>1, <1>2, <2>1 DEF MirrorTypes
<1>12. CASE Had(s) = L - 1
  <2>1. PICK t \in Slots : Had(t) = L
    BY <1>2 DEF Apart
  <2>2. Partial /\ L > 0
    BY <1>4, <1>5, <1>7, <1>12, <2>1 DEF Partial, Had
  <2>3. PICK p : last_key = {p} /\ p.value = H[L].key /\ p.state = H[L].state
    BY <1>3, <2>2 DEF Follows
  <2>4. c = H[L]
    BY <1>4, <1>8, <1>12
  <2>5. (clock - p.time) % TimeMod <= Window
    <3>1. (clock - p.time) % TimeMod <= age /\ age \in 0 .. Window /\ Window \in Nat
      BY <1>2, <2>2, <2>3, TimeAssumption DEF Apart, MirrorTypes
    <3>2. (clock - p.time) % TimeMod \in Nat
      BY <1>2, <2>3, OlderByOne DEF MirrorTypes
    <3> QED  BY <3>1, <3>2
  <2>6. recent_duplicate(e, last_key)
    BY <2>3, <2>4, <2>5 DEF recent_duplicate
  <2>7. UNCHANGED <<last_key, appKey, log>>
    BY <1>1, <2>6
  <2>8. MirrorTypes'
    BY <1>1, <1>2, <1>11, <2>7 DEF MirrorTypes
  <2>9. Apart'
    <3>1. Had(s)' = L /\ \A u \in Slots \ {s} : Had(u)' = Had(u)
      BY <1>4, <1>7, <1>12
    <3>2. (\A u \in Slots : Had(u)' \in {L - 1, L}) /\ \E u \in Slots : Had(u)' = L
      BY <1>2, <3>1 DEF Apart
    <3>3. \A q \in last_key : (clock - q.time) % TimeMod <= age
      BY <1>2, <2>2 DEF Apart
    <3> QED  BY <1>1, <2>7, <3>2, <3>3 DEF Apart
  <2>10. Follows(H, D)'
    BY <1>3, <1>9, <2>7 DEF Follows
  <2> QED  BY <1>10, <2>8, <2>9, <2>10 DEF MirrorInv
<1>13. CASE Had(s) = L
  <2>0. L < produced /\ c = H[L + 1] /\ c.id = L + 1
    BY <1>7, <1>8, <1>13
  <2>1. \A t \in Slots : Had(t) = L
    <3> SUFFICES ASSUME NEW t \in Slots, Had(t) = L - 1 PROVE FALSE
      BY <1>2 DEF Apart
    <3>1. Len(pending[t]) = produced - L + 1 /\ Len(pending[t]) > 0
      BY <1>4, <1>5, <2>0 DEF Had
    <3>2. pending[t] \in Seq(Copies) /\ pending[t] # <<>> /\ Head(pending[t]) = pending[t][1]
      BY <1>2, <3>1 DEF MirrorTypes
    <3>3. Head(pending[t]) = H[L]
      <4>1. 1 \in 1 .. Len(pending[t]) /\ Had(t) + 1 = L
        BY <1>4, <1>5, <3>1
      <4> QED  BY <1>3, <3>2, <4>1 DEF Follows
    <3>4. L \in 1 .. produced
      BY <1>4, <1>5, <3>1
    <3>5. Head(pending[t]).id = L
      BY <1>3, <3>3, <3>4 DEF Toggles
    <3>6. c.id <= Head(pending[t]).id
      BY <3>2 DEF Oldest
    <3> QED  BY <1>4, <2>0, <3>5, <3>6
  <2>2. ~recent_duplicate(e, last_key) /\ D[L + 1] = [appKey EXCEPT ![e.value] = e.state]
    BY <1>2, <1>3, <2>0, NextIsNews
  <2>3. last_key' = {e} /\ log' = Append(log, L + 1) /\ appKey' = D[L + 1]
    BY <1>1, <2>0, <2>2
  <2>4. /\ log' \in Seq(Nat) /\ Len(log') = L + 1
        /\ \A i \in 1 .. L : log'[i] = log[i] /\ log'[L + 1] = L + 1
    <3>1. log \in Seq(Nat) /\ L + 1 \in Nat
      BY <1>2, <1>4 DEF MirrorTypes
    <3> QED  BY <2>3, <3>1, AppendProperties
  <2>5. MirrorTypes'
    <3>1. \A i \in 1 .. Len(log') : log'[i] = i
      <4>1. \A i \in 1 .. L : log'[i] = i
        BY <1>2, <2>4 DEF MirrorTypes
      <4>2. log'[L + 1] = L + 1
        BY <1>2, <1>4, <2>3, AppendProperties DEF MirrorTypes
      <4> QED  BY <1>4, <2>4, <4>1, <4>2
    <3>2. \A q \in last_key' : q.time \in Time
      BY <1>2, <2>3 DEF MirrorTypes
    <3>3. Len(log') <= produced'
      BY <1>1, <1>4, <2>0, <2>4
    <3> QED  BY <1>1, <1>2, <1>11, <2>4, <3>1, <3>2, <3>3 DEF MirrorTypes
  <2>6. Apart'
    <3>1. Had(s)' = L + 1 /\ \A t \in Slots \ {s} : Had(t)' = L
      BY <1>7, <1>13, <2>1
    <3>2. (\A t \in Slots : Had(t)' \in {Len(log') - 1, Len(log')})
          /\ \E t \in Slots : Had(t)' = Len(log')
      BY <1>4, <2>4, <3>1
    <3>3. (clock - e.time) % TimeMod <= age
      <4>1. clock - clock = 0 /\ 0 % TimeMod = 0 /\ age >= 0
        BY <1>2, TimeAssumption, SmallMod DEF MirrorTypes, Time
      <4> QED  BY <4>1
    <3> QED  BY <1>1, <2>3, <3>2, <3>3 DEF Apart
  <2>7. Follows(H, D)'
    <3>1. appKey' = D[Len(log')]
      BY <2>3, <2>4
    <3>2. last_key' = {e} /\ e.value = H[Len(log')].key /\ e.state = H[Len(log')].state
      BY <2>0, <2>3, <2>4
    <3>3. Len(log') # 0
      BY <1>4, <2>4
    <3> QED  BY <1>9, <3>1, <3>2, <3>3 DEF Follows
  <2> QED  BY <1>10, <2>5, <2>6, <2>7 DEF MirrorInv
<1> QED  BY <1>2, <1>12, <1>13 DEF Apart

LEMMA MirrorStep == MirrorInv /\ [LockstepNext]_mirrorVars => MirrorInv'
<1> SUFFICES ASSUME MirrorInv, [LockstepNext]_mirrorVars PROVE MirrorInv'
  OBVIOUS
<1>1. CASE \E k \in Keys : Produce(k)
  BY <1>1, ProduceKeeps
<1>2. CASE \E s \in Slots : pending[s] # <<>> /\ Oldest(s) /\ Forward(s)
  BY <1>2, ForwardKeeps
<1>3. CASE Tick /\ (Partial => age < Window)
  BY <1>3, TickKeeps
<1>4. CASE UNCHANGED mirrorVars
  <2>1. UNCHANGED <<keyboards, appKey, last_key, clock, down, produced, pending, age, log>>
    BY <1>4 DEF mirrorVars, vars, deviceVars, keyVars
  <2>2. MirrorTypes'
    BY <2>1 DEF MirrorInv, MirrorTypes
  <2>3. Apart'
    BY <2>1 DEF MirrorInv, Apart, Had, Partial
  <2>4. ASSUME NEW H, NEW D, Toggles(H, D), Follows(H, D)
        PROVE  Toggles(H, D)' /\ Follows(H, D)'
    BY <2>1, <2>4 DEF Toggles, Follows, Had
  <2> QED  BY <2>2, <2>3, <2>4 DEF MirrorInv
<1> QED  BY <1>1, <1>2, <1>3, <1>4 DEF LockstepNext

LEMMA MirrorInvariant == Lockstep => []MirrorInv
BY MirrorStarts, MirrorStep, PTL DEF Lockstep

\* For any number of seats, any keys and any window, whatever the physical
\* keys do and wherever the clock wraps: a compositor that forwards each event
\* to all seats within the window has it delivered once, in order.
THEOREM EachEventOnce == Lockstep => []ExactlyOnce
<1>1. MirrorInv => ExactlyOnce
  <2> SUFFICES ASSUME MirrorInv PROVE ExactlyOnce
    OBVIOUS
  <2>1. MirrorTypes /\ Apart
    BY DEF MirrorInv
  <2>2. log = [i \in 1 .. Len(log) |-> i]
    BY <2>1, LenProperties DEF MirrorTypes
  <2>3. ASSUME \A s \in Slots : pending[s] = <<>> PROVE Len(log) = produced
    <3>1. \A s \in Slots : Had(s) = produced
      BY <2>1, <2>3, EmptySeq DEF Had, MirrorTypes
    <3>2. \E s \in Slots : Had(s) = Len(log)
      BY <2>1 DEF Apart
    <3> QED  BY <3>1, <3>2
  <2> QED  BY <2>2, <2>3 DEF ExactlyOnce
<1> QED  BY <1>1, MirrorInvariant, PTL

\* When every copy has been forwarded the application knows the physical
\* keyboard: each key is pressed or released as its last event left it.
THEOREM KeysSettle ==
  Lockstep => []((\A s \in Slots : pending[s] = <<>>) => appKey = down)
<1>1. MirrorInv => ((\A s \in Slots : pending[s] = <<>>) => appKey = down)
  <2> SUFFICES ASSUME MirrorInv, \A s \in Slots : pending[s] = <<>> PROVE appKey = down
    OBVIOUS
  <2>1. PICK H, D : Toggles(H, D) /\ Follows(H, D)
    BY DEF MirrorInv
  <2>2. PICK s \in Slots : Had(s) = Len(log)
    BY DEF MirrorInv, Apart
  <2>3. Len(pending[s]) = 0 /\ produced \in Nat
    BY DEF MirrorInv, MirrorTypes
  <2>4. Len(log) = produced
    BY <2>2, <2>3 DEF Had
  <2> QED  BY <2>1, <2>4 DEF Toggles, Follows
<1> QED  BY <1>1, MirrorInvariant, PTL

=============================================================================
