\* Three slots, four seats: the table overflows and slots are reused.
CONSTANTS
  MaxSeats = 3
  Names = {n1, n2, n3, n4}
  Free = free
  Keys = {}
  Buttons = {}
  TimeMod = 1
  Window = 0
SYMMETRY NameSymmetry
SPECIFICATION Spec
INVARIANTS TypeOK FocusHasDevice FocusCountsExact AppFocusAgrees BindingExact
PROPERTIES PointerFocusKept KeyboardFocusKept
CHECK_DEADLOCK FALSE
