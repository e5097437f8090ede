------------------------------ MODULE MCStaff ------------------------------
(***************************************************************************)
(* Staff with what an observer remembers of the logins of one username,    *)
(* the wrong passwords in a row, the ticks since the last one and whether  *)
(* its logins overlapped, and whether two removals ever did.               *)
(***************************************************************************)
EXTENDS Staff, TLC

CONSTANT Watched  \* the username the observer looks at

ASSUME WatchedAssumption == Watched \in Username
ASSUME ThreadPoolAssumption == IsFiniteSet(HttpThreads)

VARIABLES streak, quiet, disturbed, raced

observed == <<streak, quiet, disturbed, raced>>

LoggingIn == {w \in HttpThreads : pc[w] \in {"verify", "record"} /\ name[w] = Watched}

\* The accounts of the removals that were not refused, until they are deleted.
Leaving == {id[w] : w \in {v \in Threads : pc[v] \in {"revoke", "delete"}}}

UpTo(bound, n) == IF n < bound THEN n ELSE bound

MCInit ==
  /\ Init
  /\ streak = 0
  /\ quiet = 0
  /\ disturbed = FALSE
  /\ raced = FALSE

Forgotten == Restart \/ \E w \in LoggingIn : Right(w)
Failed == \E w \in LoggingIn : Record(w)

\* Once logins have overlapped nothing is counted, until the name starts afresh.
MCNext ==
  /\ Next
  /\ disturbed' = \/ Cardinality(LoggingIn') > 1
                  \/ disturbed /\ (LoggingIn' # {} \/ failures'[Watched] # NoFailures)
  /\ streak' = IF disturbed' \/ Forgotten THEN 0
               ELSE IF Failed THEN UpTo(MaxFailures, streak + 1) ELSE streak
  /\ quiet' = IF disturbed' \/ Forgotten \/ Failed THEN 0
              ELSE IF Tick /\ streak > 0 THEN UpTo(Lockout, quiet + 1) ELSE quiet
  /\ raced' = (raced \/ \E x, y \in Leaving' : x # y)

MCSpec == MCInit /\ [][MCNext]_<<vars, observed>>

\* The web threads are interchangeable, and so are the command lines.
Symmetry == Permutations(HttpThreads) \cup Permutations(CliThreads)

\* A bound of the instance: nobody fails to log in under another name.  Names have
\* throttle entries of their own, which one another's logins do not look at.
OthersDoNotFail == \A w \in HttpThreads : pc[w] = "record" => name[w] = Watched

-----------------------------------------------------------------------------
(* Properties *)

\* The platform is left without anyone who can sign in (staff_accounts.py:105
\* "Refuses to remove the LAST staff account") in one way only: the removals of two
\* accounts had both counted before either deleted.  Whatever else command lines,
\* releases and the web do at once, one account stays.
LockedOutByRaceOnly == Accounts = {} => raced

\* A name whose logins never overlapped is locked exactly while MaxFailures wrong
\* passwords in a row, or more, are followed by less than a lockout: also after a
\* lockout that ended, one more wrong password locks again (staff/service.py:103-110).
BrakeHolds ==
  ~disturbed /\ LoggingIn = {} =>
    (IsLocked(failures[Watched]) <=> streak = MaxFailures /\ quiet < Lockout)
=============================================================================
