---------------------------- MODULE FocusPromise ----------------------------
(***************************************************************************)
(* What the shared input context promises an application about focus,      *)
(* whatever the number of seats: the application sees ONE pointer (or one  *)
(* keyboard).  It is inside the surface exactly while at least one seat's  *)
(* device is inside.  The promise knows nothing of slots, counters, proxy  *)
(* objects or hot-plugging.                                                *)
(***************************************************************************)

CONSTANT Device      \* the devices that may have focus

VARIABLES inside,    \* the devices that have focus
          told       \* what the application was last told: one of them has

vars == <<inside, told>>

Init ==
  /\ inside = {}
  /\ told = FALSE

\* A device gains focus (again, perhaps).
Enter(d) ==
  /\ inside' = inside \cup {d}
  /\ told' = TRUE

\* Some devices lose focus together: one leaves, one is unplugged, or all go.
Leave(D) ==
  /\ inside' = inside \ D
  /\ told' = (inside' # {})

Next ==
  \/ \E d \in Device : Enter(d)
  \/ \E D \in SUBSET Device : Leave(D)

Spec == Init /\ [][Next]_vars

=============================================================================
