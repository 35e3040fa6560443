\* Three buffers against a compositor that keeps back one replaced buffer.
CONSTANTS
  Exposures <- MCExposures
  NumBufs = 3
  Sizes = {small, large}
  NoSize = none
  MayFail = FALSE
  Lag = 1
SPECIFICATION PromptSpec
INVARIANT ChainArmed
PROPERTY AnimationAdvances
CHECK_DEADLOCK FALSE
