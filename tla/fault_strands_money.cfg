\* A handler cut short after the collection leaves money no sweep looks for.
SPECIFICATION FairSpec
CONSTANTS
  Tx = {t1}
  RequestThreads = {w}
  EventLoop = {w}
  SweepThreads = {w}
  MaxFaults = 1
  None = None
PROPERTIES MoneyComesToRest
\* The payments that may start are over.
CHECK_DEADLOCK FALSE
