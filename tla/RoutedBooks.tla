----------------------------- MODULE RoutedBooks -----------------------------
(***************************************************************************)
(* The arithmetic of one routed payment: the fee quoted when it starts,    *)
(* the postings its legs make, and the amounts the operators can express.  *)
(* Amounts are minor units.  A posting is the signed movement of each      *)
(* account, debit positive.  Init, Next, Spec and TypeOK are named after   *)
(* the books because ReleaseProofs extends this module beside Deploy.      *)
(***************************************************************************)
EXTENDS Integers

CONSTANTS Provider,    \* mobile-money operators
          OnNet,       \* operators whose own customers pay their own merchants directly
          Whole,       \* the operators that take whole units of the currency only
          RateTables,  \* published rates: basis points per operator and leg
          Amounts      \* amounts a customer is asked for

ASSUME BooksAssumption ==
  /\ Whole \subseteq Provider /\ OnNet \subseteq Provider
  /\ RateTables \subseteq [collect : [Provider -> Nat], payout : [Provider -> Nat]]
  /\ Amounts \subseteq Int

VARIABLES rates,     \* the table of the running release
          repriced,  \* a release changed the table while the payment ran
          pay,       \* the payment: amount, fee, payer's and merchant's operator
          stage, balance

bookVars == <<rates, repriced, pay, stage, balance>>

Account == {"customer", "merchant", "clearing", "revenue", "expense"}
Stage == {"none", "deposit_raised", "collection_pending", "payout_pending",
          "payout_raised", "refund_pending", "payout_succeeded", "unposted",
          "refunded", "manual_review"}

-----------------------------------------------------------------------------
Cost(amount, bps) == (amount * bps) \div 10000
CollectionCost(amount, payer) == Cost(amount, rates.collect[payer])
PayoutCost(amount, merchant) == Cost(amount, rates.payout[merchant])

\* Mutant: the payout's cost is forgotten in the quote.
DefaultFeeOneLeg(amount, payer, merchant) == CollectionCost(amount, payer)

\* The fee is the round trip's cost: no margin yet.
DefaultFee(amount, payer, merchant) ==
  CollectionCost(amount, payer) + PayoutCost(amount, merchant)

\* format_amount raises when the operator takes fewer decimals than the amount has.
Expressible(amount, provider) == provider \in Whole => amount % 100 = 0

Balanced(posting) ==
  posting.customer + posting.merchant + posting.clearing
    + posting.revenue + posting.expense = 0

Book(posting) == balance' = [a \in Account |-> balance[a] + posting[a]]

\* An entry is only made when it is positive.
IfPositive(n) == IF n > 0 THEN n ELSE 0

CollectionPosting ==
  LET cost == CollectionCost(pay.amount, pay.payer)
  IN  [ customer |-> pay.amount, clearing |-> -(pay.amount - cost),
        expense |-> -IfPositive(cost), merchant |-> 0, revenue |-> 0 ]

PayoutPosting ==
  LET collectCost == CollectionCost(pay.amount, pay.payer)
      payCost == PayoutCost(pay.amount, pay.merchant)
  IN  [ clearing |-> pay.amount - collectCost, merchant |-> -(pay.amount - pay.fee),
        expense |-> -IfPositive(payCost),
        revenue |-> -IfPositive(pay.fee - collectCost - payCost), customer |-> 0 ]

\* Mutant: the fee is kept.
RefundPostingLessFee ==
  [ clearing |-> pay.amount - pay.fee, customer |-> -(pay.amount - pay.fee),
    merchant |-> 0, revenue |-> 0, expense |-> 0 ]

RefundPosting ==
  [ clearing |-> pay.amount, customer |-> -pay.amount,
    merchant |-> 0, revenue |-> 0, expense |-> 0 ]

-----------------------------------------------------------------------------
BooksInit ==
  /\ rates \in RateTables
  /\ repriced = FALSE
  /\ pay \in [amount : Amounts, fee : {0}, payer : Provider, merchant : Provider]
  /\ stage = "none"
  /\ balance = [a \in Account |-> 0]

\* Payer and merchant share an operator that is facilitated.
UseOnNet(payer, merchant) == payer = merchant /\ payer \in OnNet

\* start_merchant_payment routes the payment unless it is on-net and quotes the
\* fee, start_transaction validates; a deposit the payer's operator cannot express raises before money moves.
Start ==
  LET fee == DefaultFee(pay.amount, pay.payer, pay.merchant)
  IN  /\ stage = "none"
      /\ ~UseOnNet(pay.payer, pay.merchant)
      /\ pay.amount > 0
      /\ fee < pay.amount
      /\ pay' = [pay EXCEPT !.fee = fee]
      /\ stage' = IF Expressible(pay.amount, pay.payer)
                  THEN "collection_pending" ELSE "deposit_raised"
      /\ UNCHANGED <<rates, repriced, balance>>

\* The collection is posted, then the payout of amount - fee is requested; an
\* amount the merchant's operator cannot express raises ValueError, which is
\* no RailRejected: the payment keeps the state payout_pending, unrequested.
CollectionSucceeds ==
  /\ stage = "collection_pending"
  /\ Book(CollectionPosting)
  /\ stage' = IF Expressible(pay.amount - pay.fee, pay.merchant)
              THEN "payout_pending" ELSE "payout_raised"
  /\ UNCHANGED <<rates, repriced, pay>>

\* Mutant: the posting is recorded without the balance check.
PayoutSucceedsUnchecked ==
  /\ stage = "payout_pending"
  /\ Book(PayoutPosting)
  /\ stage' = "payout_succeeded"
  /\ UNCHANGED <<rates, repriced, pay>>

\* An unbalanced posting is refused, after the state was saved.  (The two other
\* postings cannot be unbalanced.)
PayoutSucceeds ==
  /\ stage = "payout_pending"
  /\ IF Balanced(PayoutPosting)
     THEN Book(PayoutPosting) /\ stage' = "payout_succeeded"
     ELSE stage' = "unposted" /\ UNCHANGED balance
  /\ UNCHANGED <<rates, repriced, pay>>

\* A failed payout, like a failed collection or refund, books nothing.
PayoutFails ==
  /\ stage = "payout_pending"
  /\ stage' = "refund_pending"
  /\ UNCHANGED <<rates, repriced, pay, balance>>

RefundSucceeds ==
  /\ stage = "refund_pending"
  /\ Book(RefundPosting)
  /\ stage' = "refunded"
  /\ UNCHANGED <<rates, repriced, pay>>

RefundFails ==
  /\ stage = "refund_pending"
  /\ stage' = "manual_review"
  /\ UNCHANGED <<rates, repriced, pay, balance>>

\* A release with another rate table is deployed while the payment is in flight.
Reprice ==
  /\ stage # "none"
  /\ \E table \in RateTables \ {rates} : rates' = table
  /\ repriced' = TRUE
  /\ UNCHANGED <<pay, stage, balance>>

BooksNext ==
  \/ Start \/ CollectionSucceeds \/ PayoutSucceeds
  \/ PayoutFails \/ RefundSucceeds \/ RefundFails \/ Reprice

BooksSpec == BooksInit /\ [][BooksNext]_bookVars

-----------------------------------------------------------------------------
BooksTypeOK ==
  /\ rates \in RateTables
  /\ repriced \in BOOLEAN
  /\ pay \in [amount : Amounts, fee : Int, payer : Provider, merchant : Provider]
  /\ stage \in Stage
  /\ balance \in [Account -> Int]

\* The books balance at every moment, whatever was posted or refused
\* (ledger.py:5 "the sum of debits must equal the sum of credits").
TrialBalance == Balanced(balance)

\* Under one rate table a settled payment leaves nothing in clearing, no
\* revenue, the fee as expense, and the merchant amount - fee
\* (orchestrator.py:192-193 "drains to zero across the two legs").
Drained ==
  stage = "payout_succeeded" =>
    /\ balance.clearing = 0 /\ balance.revenue = 0
    /\ balance.customer = pay.amount
    /\ balance.merchant = -(pay.amount - pay.fee)
    /\ balance.expense = -pay.fee
DrainedUnlessRepriced == ~repriced => Drained

\* A refunded customer is made whole, and clearing is short by exactly what
\* pawaPay charged for the collection (ADR 0007), whatever table was in force.
MadeWhole ==
  stage = "refunded" =>
    /\ balance.customer = 0 /\ balance.merchant = 0 /\ balance.revenue = 0
    /\ balance.clearing = -balance.expense

\* Under one rate table a completed payout is always posted.
PostedUnlessRepriced == ~repriced => stage # "unposted"

\* What on_collection_result and on_payout_result post together, as long as no
\* release changes the rates between them.
SettlementDrains == DrainedUnlessRepriced /\ PostedUnlessRepriced
=============================================================================
