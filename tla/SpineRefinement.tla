-------------------------- MODULE SpineRefinement --------------------------
(***************************************************************************)
(* The payment spine implements MoneyPromise when handlers do not overlap: *)
(* money is where pawaPay's completed operations put it, and the books say *)
(* what the ledger's postings say.                                         *)
(***************************************************************************)
EXTENDS SpineProperties

Whereabouts(done(_)) ==
  IF done("refund") THEN "returned"
  ELSE IF done("payout") THEN "merchant"
  ELSE IF done("deposit") THEN "clearing" ELSE "payer"

MoneyOf(t) == LET done(leg) == Succeeded(t, leg) IN Whereabouts(done)
BookOf(t)  == LET done(leg) == postings[t][leg] > 0 IN Whereabouts(done)

Promise == INSTANCE MoneyPromise
             WITH money <- [t \in Tx |-> MoneyOf(t)],
                  book  <- [t \in Tx |-> BookOf(t)]

\* Every step of the serial spine, crashes and raising rail calls included, is
\* a step of the promise or none: the deposit is taken once, then paid out or
\* refunded and never both (orchestrator.py:3-6), and the ledger follows.
KeepsPromise == Promise!Spec
=============================================================================
