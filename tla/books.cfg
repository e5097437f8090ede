\* Every operator pair, the published rates and a release that changes them.
SPECIFICATION BooksSpec
CONSTANTS
  Provider <- Operators
  OnNet <- Live
  Whole = {"VODACOM_MPESA_COD"}
  RateTables <- Tables
  Amounts <- SomeAmounts
INVARIANTS TrialBalance SettlementDrains MadeWhole
\* A payment ends.
CHECK_DEADLOCK FALSE
