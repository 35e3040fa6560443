\* The same, with copies interleaved freely but inside the window.
CONSTANTS
  MaxSeats = 2
  Names = {n1, n2}
  Free = free
  Keys = {k1, k2}
  Buttons = {}
  TimeMod = 6
  Window = 2
  MaxEvents = 2
SPECIFICATION MirrorSpec
INVARIANT CopiesSuppressed
CHECK_DEADLOCK FALSE
