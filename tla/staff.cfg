\* Two web threads, two command lines and releases overlap on two accounts and the
\* brake; wrong passwords are entered under the watched name only.
SPECIFICATION MCSpec
CONSTANTS
  Id = {s1, s2}
  Username = {u1, u2}
  Token = {k1}
  HttpThreads = {h, g}
  CliThreads = {a, b}
  DemoId = s1
  DemoName = u1
  MaxFailures = 2
  Lockout = 1
  MaxSaves = 2
  Watched = u1
  None = None
SYMMETRY Symmetry
CONSTRAINT OthersDoNotFail
INVARIANTS LockedOutByRaceOnly SessionsHaveAccounts BrakeHolds
\* Ids and resets run out.
CHECK_DEADLOCK FALSE
