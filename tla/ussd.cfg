\* Two callers under one session id, every input and resend, while merchants
\* sign up and are decided on; a code typed too early may be one of theirs.
SPECIFICATION MCSpec
CONSTANTS
  Session = {p1}
  Msisdn = {n1, n2}
  Code = {c1, c2}
  Entry = {c1, c2, one, two}
  Amount = {c1, c2, one, two}
  One = one
  Two = two
  MaxAttempts = 2
  MaxDialled = 2
  MaxDials = 1
  MaxEdits = 2
  None = None
INVARIANTS InitiatedIsTrue ConfirmedOnce StaysBelowLimit
PROPERTIES PaysWhatWasShown
SYMMETRY Symmetry
\* Every session has ended.
CHECK_DEADLOCK FALSE
