------------------------------ MODULE Charges ------------------------------
(***************************************************************************)
(* The charge behind a checkout QR, and POST /pay that pays it.  The       *)
(* route reads the charge, checks that it can still be paid, starts a      *)
(* payment (which carries no idempotency key) and only when the start has  *)
(* returned writes the payment's id on the charge.  The charge's status is *)
(* derived from the payment it names.  The route runs in the thread pool.  *)
(***************************************************************************)
EXTENDS TxStateMachine, Naturals

CONSTANTS Charge, Tx, RouteThreads,
          MaxFaults,  \* bound on crashes and on starts that raise
          None        \* no row, no link, no job

ASSUME ChargesAssumption ==
  /\ MaxFaults \in Nat
  /\ None \notin Charge \cup Tx \cup TxState

VARIABLES link,    \* the charges table: the linked payment, for charges created
          rows,    \* the state column of the transactions table
          paying,  \* history: the charge each payment was started for
          pc, job, tx, faults

vars == <<link, rows, paying, pc, job, tx, faults>>

Created == DOMAIN link
Place == {"idle", "check", "start", "collect", "link"}

Init ==
  /\ link = [c \in {} |-> None]
  /\ rows = [t \in Tx |-> None]
  /\ paying = [t \in Tx |-> None]
  /\ pc = [w \in RouteThreads |-> "idle"]
  /\ job = [w \in RouteThreads |-> None]
  /\ tx = [w \in RouteThreads |-> None]
  /\ faults = 0

Goto(w, place) == pc' = [pc EXCEPT ![w] = place]

Return(w) ==
  /\ Goto(w, "idle")
  /\ job' = [job EXCEPT ![w] = None]
  /\ tx' = [tx EXCEPT ![w] = None]

\* Mutant: any payment that is over can be followed by another.
IsPayableOnceOver(linked) == linked = None \/ rows[linked] \in TerminalStates

\* is_payable: nothing has claimed the charge, or the only attempt declined at
\* collection.
IsPayable(linked) == linked = None \/ rows[linked] = "collection_failed"

ChargeStatus(c) ==
  IF link[c] = None THEN "awaiting_payment"
  ELSE CASE rows[link[c]] = "payout_succeeded"  -> "paid"
         [] rows[link[c]] = "collection_failed" -> "declined"
         [] rows[link[c]] = "refunded"          -> "refunded"
         [] rows[link[c]] = "manual_review"     -> "review"
         [] OTHER                               -> "processing"

-----------------------------------------------------------------------------
\* POST /charges: a new charge, linked to nothing.
CreateCharge(c) ==
  /\ c \notin Created
  /\ link' = [d \in Created \cup {c} |-> IF d = c THEN None ELSE link[d]]
  /\ UNCHANGED <<rows, paying, pc, job, tx, faults>>

\* POST /pay reads the charge ...
Pay(w, c) ==
  /\ pc[w] = "idle"
  /\ c \in Created
  /\ job' = [job EXCEPT ![w] = c]
  /\ tx' = [tx EXCEPT ![w] = link[c]]
  /\ Goto(w, "check")
  /\ UNCHANGED <<link, rows, paying, faults>>

\* ... and the state of the payment it names; one that is not payable is
\* answered "this charge has already been paid".
Check(w) ==
  /\ pc[w] = "check"
  /\ IF IsPayable(tx[w])
     THEN Goto(w, "start") /\ UNCHANGED <<job, tx>>
     ELSE Return(w)
  /\ UNCHANGED <<link, rows, paying, faults>>

\* start_merchant_payment inserts a new payment ...
Start(w, t) ==
  /\ pc[w] = "start"
  /\ rows[t] = None
  /\ rows' = [rows EXCEPT ![t] = "initiated"]
  /\ paying' = [paying EXCEPT ![t] = job[w]]
  /\ tx' = [tx EXCEPT ![w] = t]
  /\ Goto(w, "collect")
  /\ UNCHANGED <<link, job, faults>>

\* ... and collects: the deposit is under way, or the rail rejects it at once.
Collect(w) ==
  /\ pc[w] = "collect"
  /\ \E s \in {"collection_pending", "collection_failed"} :
       rows' = [rows EXCEPT ![tx[w]] = s]
  /\ Goto(w, "link")
  /\ UNCHANGED <<link, paying, job, tx, faults>>

\* SqlChargeStore.save: the row has no status, only the link.
SaveCharge(c, t) == link' = [link EXCEPT ![c] = t]

\* Mutant: the id goes on whichever charges are still unpaid.
LinkAllOpen(w) ==
  /\ pc[w] = "link"
  /\ link' = [c \in Created |-> IF c = job[w] \/ link[c] = None THEN tx[w] ELSE link[c]]
  /\ Return(w)
  /\ UNCHANGED <<rows, paying, faults>>

\* Mutant: the handler writes the charge back as it read it.
LinkForgotten(w) ==
  /\ pc[w] = "link"
  /\ Return(w)
  /\ UNCHANGED <<link, rows, paying, faults>>

\* The charge is saved with the payment's id, over whatever it names by now.
Link(w) ==
  /\ pc[w] = "link"
  /\ SaveCharge(job[w], tx[w])
  /\ Return(w)
  /\ UNCHANGED <<rows, paying, faults>>

\* The start raises, before the payment is inserted or after the deposit may
\* have been asked for: the charge is not saved.
StartRaises(w) ==
  /\ faults < MaxFaults
  /\ faults' = faults + 1
  /\ \/ pc[w] = "start" /\ UNCHANGED rows
     \/ pc[w] = "collect" /\ rows' = [rows EXCEPT ![tx[w]] = "collection_pending"]
  /\ Return(w)
  /\ UNCHANGED <<link, paying>>

Crash ==
  /\ faults < MaxFaults
  /\ \E w \in RouteThreads : pc[w] # "idle"
  /\ faults' = faults + 1
  /\ pc' = [w \in RouteThreads |-> "idle"]
  /\ job' = [w \in RouteThreads |-> None]
  /\ tx' = [w \in RouteThreads |-> None]
  /\ UNCHANGED <<link, rows, paying>>

\* A callback, a sweep or the merchant's word moves the payment on; a human is
\* only called to a refund that failed, and nobody acts on it in code.
Progress(t) ==
  /\ rows[t] \in TxState \ {"initiated", "manual_review"}
  /\ \E s \in Transitions[rows[t]] :
       /\ s = "manual_review" => rows[t] = "refund_pending"
       /\ rows' = [rows EXCEPT ![t] = s]
  /\ UNCHANGED <<link, paying, pc, job, tx, faults>>

Next ==
  \/ \E c \in Charge : CreateCharge(c)
  \/ \E w \in RouteThreads, c \in Charge : Pay(w, c)
  \/ \E w \in RouteThreads, t \in Tx : Start(w, t)
  \/ \E w \in RouteThreads : Check(w) \/ Collect(w) \/ Link(w) \/ StartRaises(w)
  \/ \E t \in Tx : Progress(t)
  \/ Crash

Spec == Init /\ [][Next]_vars

-----------------------------------------------------------------------------
\* Every variable has its type; a thread past the start holds its own payment.
TypeOK ==
  /\ Created \subseteq Charge
  /\ link \in [Created -> Tx \cup {None}]
  /\ rows \in [Tx -> TxState \cup {None}]
  /\ paying \in [Tx -> Charge \cup {None}]
  /\ pc \in [RouteThreads -> Place]
  /\ job \in [RouteThreads -> Charge \cup {None}]
  /\ tx \in [RouteThreads -> Tx \cup {None}]
  /\ faults \in 0..MaxFaults
  /\ \A w \in RouteThreads :
       /\ pc[w] # "idle" => job[w] \in Created
       /\ pc[w] \in {"collect", "link"} => tx[w] \in Tx /\ rows[tx[w]] # None

\* A charge shows the state of a payment that was started for it and has left
\* "initiated" (models.py:4-6 "the transaction is the single source of truth"),
\* however pays of the charge overlap and whenever one of them dies.
ShowsOwnPayment ==
  \A c \in Created : link[c] # None =>
    paying[link[c]] = c /\ rows[link[c]] \in TxState \ {"initiated"}
=============================================================================
