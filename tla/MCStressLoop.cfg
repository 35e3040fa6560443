\* Every pacing, with and without a duration and a multipass workload.
CONSTANT Exposures <- MCExposures
SPECIFICATION StressSpec
INVARIANTS StressTypeOK StressOneChain
PROPERTIES StressKeepsChain EndsAtDuration
CHECK_DEADLOCK FALSE
