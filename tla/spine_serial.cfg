\* Handlers never overlap: one thread plays every role.  Two payments, two faults.
SPECIFICATION Spec
CONSTANTS
  Tx = {t1, t2}
  RequestThreads = {w}
  EventLoop = {w}
  SweepThreads = {w}
  MaxFaults = 2
  None = None
INVARIANTS TypeOK BookedOnce MoneyGoesOneWay LockStepButCut PollableButCut
PROPERTIES RowsFollowTable KeepsPromise
\* The payments that may start are over.
CHECK_DEADLOCK FALSE
