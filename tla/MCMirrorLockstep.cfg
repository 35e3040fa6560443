\* Two seats, two keys, up to four physical events; the clock wraps at 6.
CONSTANTS
  MaxSeats = 2
  Names = {n1, n2}
  Free = free
  Keys = {k1, k2}
  Buttons = {}
  TimeMod = 6
  Window = 2
  MaxEvents = 4
SPECIFICATION Lockstep
INVARIANT ExactlyOnce
