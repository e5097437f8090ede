------------------------------- MODULE MCUssd -------------------------------
(***************************************************************************)
(* Ussd for TLC, with two histories: the codes that got a merchant while   *)
(* sessions ran, and the payments each caller's present session started.   *)
(***************************************************************************)
EXTENDS Ussd, TLC

VARIABLES joined, opened

MCInit ==
  /\ Init
  /\ joined = {}
  /\ opened = [c \in Caller |-> 0]

Opens(c) ==
  /\ payments' # payments
  /\ Last(payments').key[1] = c.session
  /\ Last(payments').payer = c.msisdn

MCNext ==
  /\ Next
  /\ joined' = joined \cup {code \in Code : status[code] = "unknown" /\ status'[code] # "unknown"}
  /\ opened' = [c \in Caller |-> (IF dials'[c] = dials[c] THEN opened[c] ELSE 0)
                                   + (IF Opens(c) THEN 1 ELSE 0)]

MCSpec == MCInit /\ [][MCNext]_<<vars, joined, opened>>

\* Callers are interchangeable, and so are codes while all of them can be
\* keyed in and parse as amounts.
Symmetry == Permutations(Msisdn) \cup Permutations(Code)

\* A session starts one payment at most, however often its last step is sent
\* again (ussd/session.py:231-238), as long as no code that the caller keyed in
\* has got its merchant meanwhile: such an entry was skipped as a typo and is
\* now read as the till.
ConfirmedOnce ==
  \A c \in Caller : ToSet(text[c]) \cap joined = {} => opened[c] <= 1
=============================================================================
