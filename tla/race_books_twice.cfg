\* The webhook and the sweep both pass the guard of one leg.
SPECIFICATION Spec
CONSTANTS
  Tx = {t1}
  RequestThreads = {r}
  EventLoop = {e}
  SweepThreads = {s}
  MaxFaults = 0
  None = None
INVARIANTS BookedOnce
\* The payments that may start are over.
CHECK_DEADLOCK FALSE
