\* Offers of up to two configurations, three inputs, arrays of two samples:
\* they fill up while input still comes.
CONSTANTS
  Exposures <- MCExposures
  Offers <- MCOffers
  Modes = {"auto", "565"}
  MaxSamples = 2
  MaxInputs = 3
SPECIFICATION EglSpec
INVARIANTS EglTypeOK EglOneChain SamplesPaired
PROPERTIES KeepsChain InputIsRendered ConfigPreference
CHECK_DEADLOCK FALSE
