\* Three requests overlap on two payments, and the process may die twice.
SPECIFICATION MCSpec
CONSTANTS
  Tx = {t1, t2}
  RouteThreads = {a, b, c}
  MaxFaults = 2
  None = None
INVARIANTS PaidIsBooked BookedOnce DeniedIsUnbooked
SYMMETRY Symmetry
\* Every payment is over in the end.
CHECK_DEADLOCK FALSE
