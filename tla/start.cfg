\* Two requests at a time, of two merchants, on one key or none; one fault.
SPECIFICATION Spec
CONSTANTS
  Tx = {t1, t2}
  Merchant = {m1, m2}
  Key = {k}
  NoKey = NoKey
  RouteThreads = {a, b}
  MaxFaults = 1
  None = None
INVARIANTS ChargedOncePerKey AnswersAreOwn OneRowPerKey
\* The payments that may start are over.
CHECK_DEADLOCK FALSE
