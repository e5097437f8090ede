------------------------------- MODULE OnNet -------------------------------
(***************************************************************************)
(* The on-net payment: payer and merchant share an operator, the payer     *)
(* pays the merchant directly, and the merchant's word resolves it.  The   *)
(* confirm route checks the state; on_confirm reads the row again, POSTS,  *)
(* and only then makes the transition that could still be refused.         *)
(*                                                                         *)
(* The routes are synchronous, so they run in the thread pool; one access  *)
(* to the store or the ledger is one step.                                 *)
(***************************************************************************)
EXTENDS TxStateMachine, Naturals

CONSTANTS Tx,
          RouteThreads,  \* the thread pool
          MaxFaults,     \* bound on crashes
          None           \* no row, no job

\* What a request is about, and what the merchant says of the money.
Job == [tx : Tx, received : BOOLEAN]

ASSUME OnNetAssumption ==
  /\ MaxFaults \in Nat
  /\ None \notin TxState \cup Job

VARIABLES rows,     \* the state column
          posted,   \* how often the payer-to-merchant posting was made
          pc, job, mem, faults

vars == <<rows, posted, pc, job, mem, faults>>

Place == {"idle", "await", "load", "book", "resolve"}

Init ==
  /\ rows = [t \in Tx |-> None]
  /\ posted = [t \in Tx |-> 0]
  /\ pc = [w \in RouteThreads |-> "idle"]
  /\ job = [w \in RouteThreads |-> None]
  /\ mem = [w \in RouteThreads |-> None]
  /\ faults = 0

Goto(w, place) == pc' = [pc EXCEPT ![w] = place]

Return(w) ==
  /\ Goto(w, "idle")
  /\ job' = [job EXCEPT ![w] = None]
  /\ mem' = [mem EXCEPT ![w] = None]

-----------------------------------------------------------------------------
\* start: the row is inserted INITIATED ...
Start(w, t) ==
  /\ pc[w] = "idle"
  /\ rows[t] = None
  /\ rows' = [rows EXCEPT ![t] = "initiated"]
  /\ job' = [job EXCEPT ![w] = [tx |-> t, received |-> FALSE]]
  /\ mem' = [mem EXCEPT ![w] = "initiated"]
  /\ Goto(w, "await")
  /\ UNCHANGED <<posted, faults>>

\* ... and saved awaiting confirmation; nothing is asked of the operator.
Await(w) ==
  /\ pc[w] = "await"
  /\ CanTransition(mem[w], "collection_pending")
  /\ rows' = [rows EXCEPT ![job[w].tx] = "collection_pending"]
  /\ Return(w)
  /\ UNCHANGED <<posted, faults>>

\* Mutant: the route hands every confirmation on.
ConfirmUnchecked(w, t, received) ==
  /\ pc[w] = "idle"
  /\ rows[t] # None
  /\ job' = [job EXCEPT ![w] = [tx |-> t, received |-> received]]
  /\ Goto(w, "load")
  /\ UNCHANGED <<rows, posted, mem, faults>>

\* The route: the owner confirms or denies a payment still awaiting
\* confirmation; any other is answered "already resolved" and left alone.
Confirm(w, t, received) ==
  /\ pc[w] = "idle"
  /\ rows[t] = "collection_pending"
  /\ job' = [job EXCEPT ![w] = [tx |-> t, received |-> received]]
  /\ Goto(w, "load")
  /\ UNCHANGED <<rows, posted, mem, faults>>

\* Mutant: a confirmation is saved without being booked.
LoadSkippingBook(w) ==
  /\ pc[w] = "load"
  /\ mem' = [mem EXCEPT ![w] = rows[job[w].tx]]
  /\ Goto(w, "resolve")
  /\ UNCHANGED <<rows, posted, job, faults>>

\* Mutant: a denial is booked too.
LoadBookingAlways(w) ==
  /\ pc[w] = "load"
  /\ mem' = [mem EXCEPT ![w] = rows[job[w].tx]]
  /\ Goto(w, "book")
  /\ UNCHANGED <<rows, posted, job, faults>>

\* on_confirm reads the row again.
Load(w) ==
  /\ pc[w] = "load"
  /\ mem' = [mem EXCEPT ![w] = rows[job[w].tx]]
  /\ Goto(w, IF job[w].received THEN "book" ELSE "resolve")
  /\ UNCHANGED <<rows, posted, job, faults>>

\* The posting comes first, whatever state was read.
Book(w) ==
  /\ pc[w] = "book"
  /\ posted' = [posted EXCEPT ![job[w].tx] = @ + 1]
  /\ Goto(w, "resolve")
  /\ UNCHANGED <<rows, job, mem, faults>>

\* The transition is saved over the whole row, or raises IllegalTransition.
Resolve(w) ==
  LET dst == IF job[w].received THEN "payout_succeeded" ELSE "collection_failed"
      legal == CanTransition(mem[w], dst)
  IN  /\ pc[w] = "resolve"
      /\ rows' = IF legal THEN [rows EXCEPT ![job[w].tx] = dst] ELSE rows
      /\ Return(w)
      /\ UNCHANGED <<posted, faults>>

\* The process dies in the middle of a request and is restarted.
Crash ==
  /\ faults < MaxFaults
  /\ \E w \in RouteThreads : pc[w] # "idle"
  /\ faults' = faults + 1
  /\ pc' = [w \in RouteThreads |-> "idle"]
  /\ job' = [w \in RouteThreads |-> None]
  /\ mem' = [w \in RouteThreads |-> None]
  /\ UNCHANGED <<rows, posted>>

Next ==
  \/ \E w \in RouteThreads : Await(w) \/ Load(w) \/ Book(w) \/ Resolve(w)
  \/ \E w \in RouteThreads, t \in Tx : Start(w, t)
  \/ \E w \in RouteThreads, t \in Tx, received \in BOOLEAN : Confirm(w, t, received)
  \/ Crash

Spec == Init /\ [][Next]_vars

-----------------------------------------------------------------------------
\* Every variable has its type; a handler that read a row holds its state.
TypeOK ==
  /\ rows \in [Tx -> TxState \cup {None}]
  /\ posted \in [Tx -> Nat]
  /\ pc \in [RouteThreads -> Place]
  /\ job \in [RouteThreads -> Job \cup {None}]
  /\ mem \in [RouteThreads -> TxState \cup {None}]
  /\ faults \in 0..MaxFaults
  /\ \A w \in RouteThreads :
       /\ pc[w] # "idle" => job[w] \in Job /\ rows[job[w].tx] # None
       /\ pc[w] \in {"await", "book", "resolve"} => mem[w] \in TxState

\* A payment stored as paid has its posting: however confirmations, denials and
\* crashes interleave, the state never runs ahead of the ledger.
PaidIsBooked == \A t \in Tx : rows[t] = "payout_succeeded" => posted[t] > 0
=============================================================================
