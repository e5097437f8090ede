---------------------------- MODULE PaymentSpine ----------------------------
(***************************************************************************)
(* The routed payment: collect from the customer, settle to the merchant,  *)
(* refund if the settlement fails.  Threads run the orchestrator's         *)
(* handlers over a SQL store, a SQL ledger and the pawaPay rail.           *)
(*                                                                         *)
(* A thread holds its own copy of the row (mem), taken by store.get and    *)
(* written back WHOLE by store.save; one access to the store, the ledger   *)
(* or the rail is one step, and threads interleave between accesses.       *)
(*                                                                         *)
(*   RequestThreads  the thread pool of the synchronous HTTP routes        *)
(*   EventLoop       where the async webhook route runs, one at a time     *)
(*   SweepThreads    the periodic reconciliation sweep                     *)
(*                                                                         *)
(* The three sets may overlap: with one thread in all of them handlers     *)
(* never overlap.                                                          *)
(***************************************************************************)
EXTENDS TxStateMachine, Naturals

CONSTANTS Tx,              \* transaction ids the process may mint
          RequestThreads, EventLoop, SweepThreads,
          MaxFaults,       \* bound on crashes and on rail calls that raise
          None             \* no row, no job

Thread == RequestThreads \cup EventLoop \cup SweepThreads

\* A row: the state column, and the legs whose pawaPay op-id is stored on it.
Row == [state : TxState, ids : SUBSET Leg]
\* What a thread is driving: one leg of one transaction, and its outcome.
Job == [tx : Tx, leg : Leg, ok : BOOLEAN]
\* An entry of a sweep's worklist.
Item == [tx : Tx, leg : Leg]

ASSUME SpineAssumption ==
  /\ MaxFaults \in Nat
  /\ None \notin Row
  /\ None \notin Job

VARIABLES
  rows,      \* the transactions table
  postings,  \* the ledger: how often each leg of a transaction is posted
  rail,      \* pawaPay's operations; their ids derive from (tx, leg)
  pc, job, mem,  \* a thread's place in its handler, its job, its row copy
  todo,      \* a sweep thread's snapshot of pending legs still to poll
  faults

vars == <<rows, postings, rail, pc, job, mem, todo, faults>>

Place == {"idle", "guard", "load", "resolve", "post", "begin", "request", "store_id"}

-----------------------------------------------------------------------------
\* pawaPay's final word on an operation (what a callback or a poll reports).
Final(t, leg) == rail[t][leg] \in {"completed", "failed"}
Succeeded(t, leg) == rail[t][leg] = "completed"

Init ==
  /\ rows = [t \in Tx |-> None]
  /\ postings = [t \in Tx |-> [leg \in Leg |-> 0]]
  /\ rail = [t \in Tx |-> [leg \in Leg |-> "none"]]
  /\ pc = [w \in Thread |-> "idle"]
  /\ job = [w \in Thread |-> None]
  /\ mem = [w \in Thread |-> None]
  /\ todo = [w \in Thread |-> {}]
  /\ faults = 0

-----------------------------------------------------------------------------
\* A thread's control.

Goto(w, place) == pc' = [pc EXCEPT ![w] = place]

\* The handler returns: its locals are gone.
Return(w) ==
  /\ Goto(w, "idle")
  /\ job' = [job EXCEPT ![w] = None]
  /\ mem' = [mem EXCEPT ![w] = None]

\* store.save: the thread's copy replaces the whole row.
Save(w, row) ==
  /\ mem' = [mem EXCEPT ![w] = row]
  /\ rows' = [rows EXCEPT ![job[w].tx] = row]

\* Continue with the next leg of the same transaction (_begin_payout, _begin_refund).
BeginLeg(w, leg) ==
  /\ Goto(w, "begin")
  /\ job' = [job EXCEPT ![w] = [tx |-> job[w].tx, leg |-> leg, ok |-> TRUE]]

-----------------------------------------------------------------------------
\* Mutant: an id already in use is taken for a new payment.
StartTransactionReusingId(w, t) ==
  LET row == [state |-> "initiated", ids |-> {}]
  IN  /\ w \in RequestThreads
      /\ pc[w] = "idle"
      /\ rows' = [rows EXCEPT ![t] = row]
      /\ mem' = [mem EXCEPT ![w] = row]
      /\ job' = [job EXCEPT ![w] = [tx |-> t, leg |-> "deposit", ok |-> TRUE]]
      /\ Goto(w, "begin")
      /\ UNCHANGED <<postings, rail, todo, faults>>

\* start_transaction: the row is inserted INITIATED, then the deposit begins.
StartTransaction(w, t) ==
  LET row == [state |-> "initiated", ids |-> {}]
  IN  /\ w \in RequestThreads
      /\ pc[w] = "idle"
      /\ rows[t] = None
      /\ rows' = [rows EXCEPT ![t] = row]
      /\ mem' = [mem EXCEPT ![w] = row]
      /\ job' = [job EXCEPT ![w] = [tx |-> t, leg |-> "deposit", ok |-> TRUE]]
      /\ Goto(w, "begin")
      /\ UNCHANGED <<postings, rail, todo, faults>>

\* The transition to a *_PENDING state, saved before the rail is called.
Begin(w) ==
  /\ pc[w] = "begin"
  /\ CanTransition(mem[w].state, AwaitingState[job[w].leg])
  /\ Save(w, [mem[w] EXCEPT !.state = AwaitingState[job[w].leg]])
  /\ Goto(w, "request")
  /\ UNCHANGED <<postings, rail, job, todo, faults>>

\* pawaPay takes the request: the op-id was never used before.
RequestAccepted(w) ==
  /\ pc[w] = "request"
  /\ rail[job[w].tx][job[w].leg] = "none"
  /\ rail' = [rail EXCEPT ![job[w].tx][job[w].leg] = "accepted"]
  /\ Goto(w, "store_id")
  /\ UNCHANGED <<rows, postings, job, mem, todo, faults>>

\* Mutant: a call that reached pawaPay and then timed out counts as rejected.
RequestRejectedOnTimeout(w) ==
  /\ pc[w] = "request"
  /\ rail' = [rail EXCEPT ![job[w].tx][job[w].leg] = IF @ = "none" THEN "accepted" ELSE @]
  /\ job' = [job EXCEPT ![w].ok = FALSE]
  /\ Goto(w, "resolve")
  /\ UNCHANGED <<rows, postings, mem, todo, faults>>

\* RailRejected: pawaPay refuses, or ignores a duplicate of an op-id it
\* already knows; either way the leg counts as failed.
RequestRejected(w) ==
  /\ pc[w] = "request"
  /\ job' = [job EXCEPT ![w].ok = FALSE]
  /\ Goto(w, "resolve")
  /\ UNCHANGED <<rows, postings, rail, mem, todo, faults>>

\* The call raises something else (transport error, an amount the operator
\* cannot express): no handler catches it.  The request may or may not have
\* reached pawaPay.  A sweep pass that meets it ends there.
RequestRaises(w) ==
  /\ pc[w] = "request"
  /\ faults < MaxFaults
  /\ faults' = faults + 1
  /\ \E reached \in BOOLEAN :
       rail' = IF reached /\ rail[job[w].tx][job[w].leg] = "none"
               THEN [rail EXCEPT ![job[w].tx][job[w].leg] = "accepted"]
               ELSE rail
  /\ Return(w)
  /\ todo' = [todo EXCEPT ![w] = {}]
  /\ UNCHANGED <<rows, postings>>

\* Mutant: the op-id replaces the ones of earlier legs.
StoreOpIdReplacing(w) ==
  /\ pc[w] = "store_id"
  /\ rows' = [rows EXCEPT ![job[w].tx] = [mem[w] EXCEPT !.ids = {job[w].leg}]]
  /\ Return(w)
  /\ UNCHANGED <<postings, rail, todo, faults>>

\* Mutant: the op-id is set on the copy and never saved.
StoreOpIdUnsaved(w) ==
  /\ pc[w] = "store_id"
  /\ Return(w)
  /\ UNCHANGED <<rows, postings, rail, todo, faults>>

\* _store_op_id: the whole row again, now with the op-id.
StoreOpId(w) ==
  /\ pc[w] = "store_id"
  /\ rows' = [rows EXCEPT ![job[w].tx] =
                [mem[w] EXCEPT !.ids = @ \cup {job[w].leg}]]
  /\ Return(w)
  /\ UNCHANGED <<postings, rail, todo, faults>>

-----------------------------------------------------------------------------
\* Mutant: the callback's status is not looked at.
ReceiveCallbackAsSuccess(w, t, leg) ==
  /\ w \in EventLoop
  /\ pc[w] = "idle"
  /\ Final(t, leg)
  /\ rows[t] # None
  /\ leg \in rows[t].ids
  /\ job' = [job EXCEPT ![w] = [tx |-> t, leg |-> leg, ok |-> TRUE]]
  /\ Goto(w, "guard")
  /\ UNCHANGED <<rows, postings, rail, mem, todo, faults>>

\* A signed callback for a final operation, sent any number of times or never.
\* One whose op-id is on no row is answered "unmatched" and changes nothing.
ReceiveCallback(w, t, leg) ==
  /\ w \in EventLoop
  /\ pc[w] = "idle"
  /\ Final(t, leg)
  /\ rows[t] # None
  /\ leg \in rows[t].ids
  /\ job' = [job EXCEPT ![w] = [tx |-> t, leg |-> leg, ok |-> Succeeded(t, leg)]]
  /\ Goto(w, "guard")
  /\ UNCHANGED <<rows, postings, rail, mem, todo, faults>>

\* Mutant: find_pending forgets refunds.
PendingLegsButRefunds ==
  { p \in Item : /\ p.leg # "refund"
                 /\ rows[p.tx] # None
                 /\ rows[p.tx].state \in PendingStates
                 /\ rows[p.tx].state = AwaitingState[p.leg]
                 /\ p.leg \in rows[p.tx].ids }

\* find_pending, and the legs among them that have an op-id to poll.
PendingLegs ==
  { p \in Item : /\ rows[p.tx] # None
                 /\ rows[p.tx].state \in PendingStates
                 /\ rows[p.tx].state = AwaitingState[p.leg]
                 /\ p.leg \in rows[p.tx].ids }

SweepBegin(w) ==
  /\ w \in SweepThreads
  /\ pc[w] = "idle"
  /\ todo[w] = {}
  /\ PendingLegs # {}
  /\ todo' = [todo EXCEPT ![w] = PendingLegs]
  /\ UNCHANGED <<rows, postings, rail, pc, job, mem, faults>>

\* The poll reads a final status.
SweepPoll(w, t, leg) ==
  /\ pc[w] = "idle"
  /\ [tx |-> t, leg |-> leg] \in todo[w]
  /\ Final(t, leg)
  /\ todo' = [todo EXCEPT ![w] = @ \ {[tx |-> t, leg |-> leg]}]
  /\ job' = [job EXCEPT ![w] = [tx |-> t, leg |-> leg, ok |-> Succeeded(t, leg)]]
  /\ Goto(w, "guard")
  /\ UNCHANGED <<rows, postings, rail, mem, faults>>

\* The poll errs, is unreadable, or finds the operation not final yet.
SweepSkip(w, t, leg) ==
  /\ pc[w] = "idle"
  /\ [tx |-> t, leg |-> leg] \in todo[w]
  /\ todo' = [todo EXCEPT ![w] = @ \ {[tx |-> t, leg |-> leg]}]
  /\ UNCHANGED <<rows, postings, rail, pc, job, mem, faults>>

-----------------------------------------------------------------------------
\* apply_outcome's guard reads the row; a leg already resolved is ignored.
Guard(w) ==
  /\ pc[w] = "guard"
  /\ IF rows[job[w].tx].state = AwaitingState[job[w].leg]
     THEN Goto(w, "load") /\ UNCHANGED <<job, mem>>
     ELSE Return(w)
  /\ UNCHANGED <<rows, postings, rail, todo, faults>>

\* Mutant: the handler goes on without its own copy of the row.
LoadNothing(w) ==
  /\ pc[w] = "load"
  /\ Goto(w, "resolve")
  /\ UNCHANGED <<rows, postings, rail, job, mem, todo, faults>>

\* on_*_result reads the row AGAIN.  An outcome it may not transition to any
\* more raises IllegalTransition, which ends the handler and a sweep pass.
Load(w) ==
  LET row == rows[job[w].tx]
      dst == OutcomeState(job[w].leg, job[w].ok)
  IN  /\ pc[w] = "load"
      /\ IF CanTransition(row.state, dst)
         THEN /\ mem' = [mem EXCEPT ![w] = row]
              /\ Goto(w, "resolve")
              /\ UNCHANGED <<job, todo>>
         ELSE /\ Return(w)
              /\ todo' = [todo EXCEPT ![w] = {}]
      /\ UNCHANGED <<rows, postings, rail, faults>>

\* Mutant: a success is posted first and its state left for later.
ResolveUnsaved(w) ==
  /\ pc[w] = "resolve"
  /\ job[w].ok
  /\ Goto(w, "post")
  /\ UNCHANGED <<rows, postings, rail, job, mem, todo, faults>>

\* The outcome's transition is saved; a success is still to be posted, a
\* failed payout goes on to the refund.
Resolve(w) ==
  LET leg == job[w].leg
      row == [mem[w] EXCEPT !.state = OutcomeState(leg, job[w].ok)]
  IN  /\ pc[w] = "resolve"
      /\ rows' = [rows EXCEPT ![job[w].tx] = row]
      /\ IF job[w].ok
         THEN /\ mem' = [mem EXCEPT ![w] = row]
              /\ Goto(w, "post")
              /\ UNCHANGED job
         ELSE IF leg = "payout"
         THEN /\ mem' = [mem EXCEPT ![w] = row]
              /\ BeginLeg(w, "refund")
         ELSE Return(w)
      /\ UNCHANGED <<postings, rail, todo, faults>>

\* Mutant: a completed refund is left out of the books.
PostLegButRefunds(w) ==
  /\ pc[w] = "post"
  /\ postings' = [postings EXCEPT ![job[w].tx][job[w].leg] =
                    IF job[w].leg = "refund" THEN @ ELSE @ + 1]
  /\ IF job[w].leg = "deposit"
     THEN BeginLeg(w, "payout") /\ UNCHANGED mem
     ELSE Return(w)
  /\ UNCHANGED <<rows, rail, todo, faults>>

\* The leg's balanced posting; a collected payment goes on to the payout.
PostLeg(w) ==
  /\ pc[w] = "post"
  /\ postings' = [postings EXCEPT ![job[w].tx][job[w].leg] = @ + 1]
  /\ IF job[w].leg = "deposit"
     THEN BeginLeg(w, "payout") /\ UNCHANGED mem
     ELSE Return(w)
  /\ UNCHANGED <<rows, rail, todo, faults>>

-----------------------------------------------------------------------------
\* pawaPay finishes an operation it accepted.
RailSettles(t, leg) ==
  /\ rail[t][leg] = "accepted"
  /\ \E s \in {"completed", "failed"} : rail' = [rail EXCEPT ![t][leg] = s]
  /\ UNCHANGED <<rows, postings, pc, job, mem, todo, faults>>

\* The process dies and is restarted: only the database and pawaPay remain.
Crash ==
  /\ faults < MaxFaults
  /\ \E w \in Thread : pc[w] # "idle"
  /\ faults' = faults + 1
  /\ pc' = [w \in Thread |-> "idle"]
  /\ job' = [w \in Thread |-> None]
  /\ mem' = [w \in Thread |-> None]
  /\ todo' = [w \in Thread |-> {}]
  /\ UNCHANGED <<rows, postings, rail>>

\* The steps of a handler once it runs.
HandlerStep(w) ==
  \/ Begin(w) \/ RequestAccepted(w) \/ RequestRejected(w) \/ StoreOpId(w)
  \/ Guard(w) \/ Load(w) \/ Resolve(w) \/ PostLeg(w)

Next ==
  \/ \E w \in Thread : HandlerStep(w) \/ RequestRaises(w) \/ SweepBegin(w)
  \/ \E w \in Thread, t \in Tx : StartTransaction(w, t)
  \/ \E w \in Thread, t \in Tx, leg \in Leg :
       ReceiveCallback(w, t, leg) \/ SweepPoll(w, t, leg) \/ SweepSkip(w, t, leg)
  \/ \E t \in Tx, leg \in Leg : RailSettles(t, leg)
  \/ Crash

Spec == Init /\ [][Next]_vars

\* Threads are scheduled, pawaPay finishes what it accepted, the sweep is
\* started again and again and does not skip a readable final status for
\* ever.  Callbacks, requests and crashes are owed nothing.
Fairness ==
  /\ \A w \in Thread : WF_vars(HandlerStep(w)) /\ WF_vars(SweepBegin(w))
  /\ \A w \in Thread, t \in Tx, leg \in Leg :
       SF_vars(SweepPoll(w, t, leg)) /\ WF_vars(SweepSkip(w, t, leg))
  /\ \A t \in Tx, leg \in Leg : WF_vars(RailSettles(t, leg))

FairSpec == Spec /\ Fairness
=============================================================================
