\* Two requests overlap and one may die.
SPECIFICATION MCSpec
CONSTANTS
  Merchant = {m1, m2, m3}
  Username = {u1, u2}
  Token = {k1}
  Threads = {a, b}
  FirstCode = 1001
  MaxCrashes = 1
  None = None
INVARIANTS PendingIsInert CodeNamesOne EveryMerchantHasLogin
SYMMETRY Symmetry
\* Merchants run out.
CHECK_DEADLOCK FALSE
