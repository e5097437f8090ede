------------------------------ MODULE MCOnNet ------------------------------
(***************************************************************************)
(* The on-net payment for TLC, with a history: the payments two requests   *)
(* worked on at the same time, or on which one died.  Of all others the    *)
(* handlers promise more.                                                  *)
(***************************************************************************)
EXTENDS OnNet, FiniteSets, TLC

ASSUME ThreadPoolAssumption == IsFiniteSet(RouteThreads)

VARIABLE disturbed

\* The threads at work on t.
At(t) == {w \in RouteThreads : job[w] # None /\ job[w].tx = t}

MCInit == Init /\ disturbed = {}

MCNext ==
  /\ Next
  /\ disturbed' = disturbed \cup
       {t \in Tx : Cardinality(At(t)') > 1 \/ (faults' # faults /\ At(t) # {})}

MCSpec == MCInit /\ [][MCNext]_<<vars, disturbed>>

\* Payments and threads are interchangeable.
Symmetry == Permutations(Tx) \cup Permutations(RouteThreads)

\* A payment is posted once, however often it is confirmed and denied
\* ("re-confirming an already-resolved payment is a no-op", merchant_api.py:178),
\* provided two requests do not work on it at once and none dies over it.
BookedOnce == \A t \in Tx \ disturbed : posted[t] <= 1

\* A payment stored as not received is not in the books as received
\* ("not received, no money moved", on_net.py:103), under the same proviso.
DeniedIsUnbooked ==
  \A t \in Tx \ disturbed : rows[t] = "collection_failed" => posted[t] = 0
=============================================================================
