--------------------------- MODULE TxStateMachine ---------------------------
(***************************************************************************)
(* The transaction state machine of domains/transactions/state_machine.py: *)
(* the ten states a payment can be in, the transitions the code allows,    *)
(* and the classes of states the other components are written against.     *)
(* States keep the values of the source's TxState enumeration.  The legs   *)
(* of a routed payment, the state each waits in and the state its outcome  *)
(* leads to complete the vocabulary.                                       *)
(***************************************************************************)

Transitions ==
  [ initiated            |-> {"collection_pending", "manual_review"},
    collection_pending   |-> {"collection_succeeded", "collection_failed",
                              "payout_succeeded", "manual_review"},
    collection_succeeded |-> {"payout_pending", "manual_review"},
    collection_failed    |-> {},
    payout_pending       |-> {"payout_succeeded", "payout_failed", "manual_review"},
    payout_succeeded     |-> {},
    payout_failed        |-> {"refund_pending", "manual_review"},
    refund_pending       |-> {"refunded", "manual_review"},
    refunded             |-> {},
    manual_review        |-> {"payout_pending", "refund_pending", "refunded",
                              "collection_failed"} ]

TxState == DOMAIN Transitions

CanTransition(src, dst) == dst \in Transitions[src]

TerminalStates == { s \in TxState : Transitions[s] = {} }

\* The states in which a rail request is outstanding: what the sweep looks for.
PendingStates == {"collection_pending", "payout_pending", "refund_pending"}

Leg == {"deposit", "payout", "refund"}

\* The state in which a leg's outcome may be applied.
AwaitingState == [ deposit |-> "collection_pending",
                   payout  |-> "payout_pending",
                   refund  |-> "refund_pending" ]

\* Where a leg's outcome takes the transaction; a synchronous rejection by
\* the rail is the same transition as a failed outcome.
OutcomeState(leg, ok) ==
  IF ok THEN CASE leg = "deposit" -> "collection_succeeded"
               [] leg = "payout"  -> "payout_succeeded"
               [] leg = "refund"  -> "refunded"
        ELSE CASE leg = "deposit" -> "collection_failed"
               [] leg = "payout"  -> "payout_failed"
               [] leg = "refund"  -> "manual_review"
=============================================================================
