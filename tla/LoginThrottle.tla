---------------------------- MODULE LoginThrottle ----------------------------
(***************************************************************************)
(* The brake on failed logins, as the merchants' and the staff's login     *)
(* service each keep one: a dictionary in the memory of the process from a *)
(* username to its consecutive failures and the end of its lockout.  Here  *)
(* an entry holds the time the lockout still has, in ticks of a clock.     *)
(***************************************************************************)
EXTENDS Naturals

CONSTANTS MaxFailures,  \* _MAX_FAILURES
          Lockout       \* _LOCKOUT_SECONDS, in ticks

ASSUME ThrottleAssumption == {MaxFailures, Lockout} \subseteq Nat \ {0}

\* A count beyond MaxFailures locks as MaxFailures does.
Entry == [count : 0 .. MaxFailures, left : 0 .. Lockout]

\* A username the dictionary does not hold.
NoFailures == [count |-> 0, left |-> 0]

IsLocked(entry) == entry.count = MaxFailures /\ entry.left > 0

\* Mutant: only failures that follow each other within the lockout count.
RecordedAfresh(count) == [count |-> 1, left |-> Lockout]

\* _record_failure writes one more than it read and locks from now on; the
\* count is not reset when a lockout ends.
Recorded(count) ==
  [count |-> IF count < MaxFailures THEN count + 1 ELSE count, left |-> Lockout]

Aged(entry) == [entry EXCEPT !.left = IF @ > 0 THEN @ - 1 ELSE 0]
=============================================================================
