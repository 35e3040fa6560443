\* Allocation never fails; the compositor releases every replaced buffer,
\* and before it fires a callback, but it may report visibility meanwhile.
CONSTANTS
  Exposures <- MCExposures
  NumBufs = 3
  Sizes = {small}
  NoSize = none
  MayFail = FALSE
  Lag = 0
SPECIFICATION PacedSpec
PROPERTY VisibleRestartsChain
CHECK_DEADLOCK FALSE
