----------------------------- MODULE MCCharges -----------------------------
(***************************************************************************)
(* Charges for TLC, with a history: the charges two requests paid at the   *)
(* same time, or over which one died.  Of all others more is promised.     *)
(***************************************************************************)
EXTENDS Charges, FiniteSets, TLC

ASSUME ThreadPoolAssumption == IsFiniteSet(RouteThreads)

VARIABLE disturbed

\* The threads at work on c.
At(c) == {w \in RouteThreads : job[w] = c}
\* A thread at work on c is cut short.
Dies(c) == faults' # faults /\ At(c) # {} /\ At(c)' # At(c)

MCInit == Init /\ disturbed = {}

MCNext ==
  /\ Next
  /\ disturbed' = disturbed \cup {c \in Charge : Cardinality(At(c)') > 1 \/ Dies(c)}

MCSpec == MCInit /\ [][MCNext]_<<vars, disturbed>>

\* Charges, payments and threads are interchangeable.
Symmetry == Permutations(Charge) \cup Permutations(Tx) \cup Permutations(RouteThreads)

\* The payments of a charge that took or may still take the payer's money.
Claims(c) == { t \in Tx : paying[t] = c /\ rows[t] # "collection_failed" }

\* A charge is paid for once: only a declined attempt is followed by another
\* (models.py:50-51 "A paid/processing charge is closed"), provided its pays do
\* not overlap and none is cut short.
ChargedOnce == \A c \in Created \ disturbed : \A t1, t2 \in Claims(c) : t1 = t2

\* A charge whose payment reached the merchant shows paid, one whose payer may
\* be charged never shows as open (models.py:5-6), under the same proviso and
\* once the pay has returned.
StatusIsTrue ==
  \A c \in Created \ disturbed : At(c) = {} =>
    \A t \in Claims(c) :
      /\ rows[t] = "payout_succeeded" => ChargeStatus(c) = "paid"
      /\ ChargeStatus(c) \notin {"awaiting_payment", "declined"}
=============================================================================
