\* Two threads, three descriptors of which two are in the table, two slots and
\* three calls: the buffer overflows and a number is reused in mid-close.  Both
\* signals: a flush may be interrupted twice.
CONSTANTS
  Threads = {t1, t2}
  Signals = {SIGTERM, SIGINT}
  NumFds = 3
  MAX_TRACKED_FDS = 2
  Capacity = 2
  MaxCalls = 3
SYMMETRY MCSymmetry
SPECIFICATION TraceSpec
INVARIANTS SlotsExact TrackingExact 
CHECK_DEADLOCK FALSE
