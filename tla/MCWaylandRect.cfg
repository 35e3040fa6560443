\* The shipped pool of three buffers, two sizes; allocation may fail; every
\* order of reports, with the exposure lists of MCWaylandRect.
CONSTANTS
  Exposures <- MCExposureLists
  NumBufs = 3
  Sizes = {small, large}
  NoSize = none
  MayFail = TRUE
  Lag = 0
SPECIFICATION RectSpec
INVARIANTS ShellTypeOK VisibilityTracks RectTypeOK OneChain HiddenIsQuiet NoTearing
PROPERTIES SubmitOnlyWhenShown KeepsChain
CHECK_DEADLOCK FALSE
