------------------------------ MODULE MCBooks ------------------------------
(* The published DRC rates (pricing.py:19-32), and a dearer table a release *)
(* could bring; amounts around the rounding of a fee and of a whole franc.  *)
EXTENDS RoutedBooks

Operators == {"VODACOM_MPESA_COD", "AIRTEL_COD", "ORANGE_COD", "unrecognised"}

Live == Operators \ {"unrecognised"}

Published ==
  [ collect |-> [p \in Operators |-> IF p = "VODACOM_MPESA_COD" THEN 250 ELSE 300],
    payout  |-> [p \in Operators |-> IF p = "ORANGE_COD" THEN 100 ELSE 200] ]

Dearer ==
  [ collect |-> [p \in Operators |-> Published.collect[p] + 50],
    payout  |-> [p \in Operators |-> Published.payout[p] + 50] ]

Tables == {Published, Dearer}
PublishedOnly == {Published}

SomeAmounts == {-5, 0, 1, 33, 34, 100, 1999, 10000, 100100, 200000}
=============================================================================
