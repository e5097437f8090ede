\* A request, the webhook and the sweep overlap on one payment; callbacks may be lost.
SPECIFICATION FairSpec
CONSTANTS
  Tx = {t1}
  RequestThreads = {r}
  EventLoop = {e}
  SweepThreads = {s}
  MaxFaults = 0
  None = None
INVARIANTS PostingsBacked PayOnlyCollected RowsTellTheTruth RefundNamesDeposit
PROPERTIES Resolves MoneyComesToRest BooksCatchUp
\* The payments that may start are over.
CHECK_DEADLOCK FALSE
