\* Two slots, batches of two, five frames: the ring fills, is reused twice
\* and slots complete in an order other than their index; one sample of
\* several has no room.
CONSTANTS
  TimerSlots = 2
  OffscreenBatch = 2
  MaxSamples = 2
  MaxFrames = 5
SPECIFICATION RingSpec
INVARIANTS RingTypeOK WorkBounded EachTakenOnce SpoilNoticed
CHECK_DEADLOCK FALSE
