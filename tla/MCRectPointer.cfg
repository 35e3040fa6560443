\* Two slots and two seats that are plugged and unplugged in any order, the left
\* and another button, every timestamp of a clock of period 3 with a window of
\* 1: gaps inside and outside the window, times that wrap and times that go back.
CONSTANTS
  MaxSeats = 2
  Names = {n1, n2}
  Free = free
  Keys = {esc, other}
  Buttons = {left, right}
  TimeMod = 3
  Window = 1
  Left = left
  Exit = esc
SPECIFICATION PointerSpec
INVARIANTS CursorShown DragFollowsButton EdgesInSync
CHECK_DEADLOCK FALSE
