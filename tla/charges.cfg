\* Payers of two charges overlap, declined attempts are retried, and the
\* process may die.
SPECIFICATION MCSpec
CONSTANTS
  Charge = {c1, c2}
  Tx = {t1, t2, t3}
  RouteThreads = {a, b}
  MaxFaults = 1
  None = None
INVARIANTS ShowsOwnPayment ChargedOnce StatusIsTrue
SYMMETRY Symmetry
\* Every payment is over in the end.
CHECK_DEADLOCK FALSE
