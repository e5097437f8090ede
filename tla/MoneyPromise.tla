---------------------------- MODULE MoneyPromise ----------------------------
(***************************************************************************)
(* What a routed payment promises, with nothing said of how: the money of  *)
(* a payment leaves the payer once, rests at pawaPay (clearing), and from  *)
(* there either reaches the merchant or returns to the payer, for good.    *)
(* The books follow it step by step, possibly late, never ahead and never  *)
(* along another path.                                                     *)
(***************************************************************************)
CONSTANT Tx
VARIABLES money, book

Moves == [ payer    |-> {"clearing"},
           clearing |-> {"merchant", "returned"},
           merchant |-> {},
           returned |-> {} ]

\* The places money at m has been.
Passed(m) == IF m = "payer" THEN {m} ELSE {"payer", "clearing", m}

TypeOK ==
  /\ money \in [Tx -> DOMAIN Moves]
  /\ book \in [Tx -> DOMAIN Moves]

Init ==
  /\ money = [t \in Tx |-> "payer"]
  /\ book = [t \in Tx |-> "payer"]

Move(t) ==
  /\ \E m \in Moves[money[t]] : money' = [money EXCEPT ![t] = m]
  /\ UNCHANGED book

Book(t) ==
  /\ \E m \in Moves[book[t]] \cap Passed(money[t]) : book' = [book EXCEPT ![t] = m]
  /\ UNCHANGED money

Next == \E t \in Tx : Move(t) \/ Book(t)

Spec == Init /\ [][Next]_<<money, book>>

\* The books never claim the money is where it has not been.
BooksNeverAhead == \A t \in Tx : book[t] \in Passed(money[t])
=============================================================================
