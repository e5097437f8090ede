-------------------------- MODULE SpineProperties --------------------------
(***************************************************************************)
(* What the payment spine owes its users, as properties of PaymentSpine.   *)
(* The first group holds however threads interleave and whenever the       *)
(* process crashes; the second needs handlers not to overlap; the third    *)
(* says, of such handlers, how much damage a fault that cuts one short can *)
(* do.                                                                     *)
(***************************************************************************)
EXTENDS PaymentSpine, FiniteSets

\* The places at which a handler holds a copy of the row.
Holding == {"resolve", "post", "begin", "request", "store_id"}

\* A busy thread has a job on an existing row, and a row copy once it read one.
ThreadTypeOK(w) ==
  /\ pc[w] # "idle" => job[w] \in Job /\ rows[job[w].tx] # None
  /\ pc[w] \in Holding => mem[w] # None
  /\ \A p \in todo[w] : rows[p.tx] # None

\* Every variable has its type, and so has what each thread holds.
TypeOK ==
  /\ rows \in [Tx -> Row \cup {None}]
  /\ postings \in [Tx -> [Leg -> Nat]]
  /\ rail \in [Tx -> [Leg -> {"none", "accepted", "completed", "failed"}]]
  /\ pc \in [Thread -> Place]
  /\ job \in [Thread -> Job \cup {None}]
  /\ mem \in [Thread -> Row \cup {None}]
  /\ todo \in [Thread -> SUBSET Item]
  /\ faults \in 0..MaxFaults
  /\ \A w \in Thread : ThreadTypeOK(w)

-----------------------------------------------------------------------------
\* The states only a collected payment reaches.
Collected == {"collection_succeeded", "payout_pending", "payout_succeeded",
              "payout_failed", "refund_pending", "refunded", "manual_review"}

\* The ledger (ledger.py:3 "the source of truth for money") never records a
\* movement of money that pawaPay did not complete: no interleaving of webhook
\* and sweep, no stale row and no crash makes a handler post a failed leg.
PostingsBacked ==
  \A t \in Tx, leg \in Leg : postings[t][leg] > 0 => Succeeded(t, leg)

\* pawaPay is never asked to pay a merchant or refund a customer for a payment
\* whose deposit it has not completed, whatever rows a thread works from.
PayOnlyCollected ==
  \A t \in Tx : \A leg \in {"payout", "refund"} :
    rail[t][leg] # "none" => Succeeded(t, "deposit")

\* A final or in-flight state tells the truth about the money it names:
\* "nothing was taken" (state_machine.py:21) when the collection failed, the
\* merchant paid, the customer refunded, the deposit collected.
Truthful(t, state) ==
  /\ state = "collection_failed" => rail[t]["deposit"] \in {"none", "failed"}
  /\ state = "payout_succeeded"  => Succeeded(t, "payout")
  /\ state = "refunded"          => Succeeded(t, "refund")
  /\ state \in Collected         => Succeeded(t, "deposit")

\* Every stored row is truthful, although threads overwrite each other's rows.
RowsTellTheTruth == \A t \in Tx : rows[t] # None => Truthful(t, rows[t].state)

\* A refund is only attempted by a handler whose row copy carries the deposit's
\* op-id, so the rail's "cannot refund without the original depositId"
\* (rail.py:83) is never raised on the live rail.
RefundNamesDeposit ==
  \A w \in Thread :
    pc[w] = "request" /\ job[w].leg = "refund" => "deposit" \in mem[w].ids

-----------------------------------------------------------------------------
(***************************************************************************)
(* The strengthening that makes the first group inductive.                 *)
(***************************************************************************)

\* The deposit's op-id is on the row: callbacks and sweeps can find it.
Known(t) == rows[t] # None /\ "deposit" \in rows[t].ids

\* The request thread that created the row, until it returns: alone on the
\* transaction, its copy is the row, and the deposit is not requested yet or
\* was just accepted.
Starting(w) ==
  /\ pc[w] \in {"begin", "request", "resolve", "store_id"}
  /\ job[w].leg = "deposit"
  /\ mem[w] = rows[job[w].tx]
  /\ mem[w].ids = {}
  /\ mem[w].state = IF pc[w] = "begin" THEN "initiated" ELSE "collection_pending"
  /\ pc[w] = "resolve" => ~job[w].ok
  /\ pc[w] # "store_id" => rail[job[w].tx]["deposit"] = "none"
  /\ \A v \in Thread \ {w} : pc[v] # "idle" => job[v].tx # job[w].tx

\* Any other handler: it was found by an op-id, and never deposits.
Driving(w) ==
  /\ Known(job[w].tx)
  /\ pc[w] \in Holding => "deposit" \in mem[w].ids
  /\ pc[w] \in {"begin", "request", "store_id"} => job[w].leg # "deposit"

ThreadInv(w) ==
  LET t == job[w].tx  leg == job[w].leg  ok == job[w].ok
  IN  /\ Starting(w) \/ Driving(w)
      /\ leg # "deposit" => Succeeded(t, "deposit")
      /\ pc[w] \in {"guard", "load"} => Final(t, leg) /\ ok = Succeeded(t, leg)
      /\ pc[w] = "post" => Succeeded(t, leg)
      /\ pc[w] = "resolve" /\ ok => Succeeded(t, leg)
      /\ pc[w] = "resolve" /\ ~ok /\ leg = "deposit" =>
           rail[t]["deposit"] \in {"none", "failed"}
      /\ pc[w] \in Holding => Truthful(t, mem[w].state)

\* What every handler knows and holds, what the sweep's snapshot names, that a
\* row with any op-id has the deposit's, and that pawaPay never heard of a
\* transaction without a row.
SpineInv ==
  /\ \A w \in Thread : pc[w] # "idle" => ThreadInv(w)
  /\ \A w \in Thread : \A p \in todo[w] : Known(p.tx)
  /\ \A t \in Tx : rows[t] # None /\ rows[t].ids # {} => Known(t)
  /\ \A t \in Tx : rows[t] = None => rail[t]["deposit"] = "none"

-----------------------------------------------------------------------------
\* A leg is posted to the ledger at most once, however often its outcome is
\* delivered or polled (outcomes.py:7 "idempotent against resends/races").
BookedOnce == \A t \in Tx, leg \in Leg : postings[t][leg] <= 1

\* A payment leaves pawaPay one way: once a refund is asked for, the payout is
\* not under way and did not succeed (rail.py:9 "the money moves once").
MoneyGoesOneWay ==
  \A t \in Tx : rail[t]["refund"] # "none" => rail[t]["payout"] \in {"none", "failed"}

\* A stored row moves only along the state machine's table
\* (state_machine.py:5 "only legal transitions are possible"), so a terminal
\* state is never left.
RowsFollowTable ==
  [][\A t \in Tx : rows[t] # None /\ rows'[t].state # rows[t].state
                     => CanTransition(rows[t].state, rows'[t].state)]_rows

-----------------------------------------------------------------------------
\* No handler is at work on t.
Quiet(t) == rows[t] # None /\ \A w \in Thread : job[w] # None => job[w].tx # t

\* The row and the ledger of t agree.
InLockStep(t) ==
  /\ (postings[t]["deposit"] > 0) = (rows[t].state \in Collected)
  /\ (postings[t]["payout"] > 0)  = (rows[t].state = "payout_succeeded")
  /\ (postings[t]["refund"] > 0)  = (rows[t].state = "refunded")

\* t waits for nothing that the sweep could not poll.
PendingHasOpId(t) ==
  \A leg \in Leg : rows[t].state = AwaitingState[leg] => leg \in rows[t].ids

\* The states in which a leg is booked, or about to be.
Booked == [deposit |-> Collected,
           payout  |-> {"payout_succeeded"},
           refund  |-> {"refunded"}]

\* Row and ledger stay "in lock-step" (orchestrator.py:4): the books are never
\* ahead of the row, no payout or refund is under way for a deposit that is not
\* booked, not even when callbacks and sweeps find a payment whose handler died
\* between its save and its posting, and a fault puts one payment out of step.
LockStepButCut ==
  /\ \A t \in Tx : rows[t] # None =>
       /\ \A leg \in Leg : postings[t][leg] > 0 => rows[t].state \in Booked[leg]
       /\ rows[t].state \in Collected \ {"collection_succeeded"} => postings[t]["deposit"] > 0
  /\ Cardinality({t \in Tx : Quiet(t) /\ ~InLockStep(t)}) <= faults

\* A fault costs one payment, the one whose handler it cuts short, the op-id its
\* pending state waits for: the sweep can poll every other ("each maps 1:1 to an
\* outstanding pawaPay op-id", state_machine.py:67).
PollableButCut == Cardinality({t \in Tx : Quiet(t) /\ ~PendingHasOpId(t)}) <= faults

-----------------------------------------------------------------------------
(***************************************************************************)
(* The strengthening that makes the second group and the third inductive   *)
(* together with SpineInv.                                                 *)
(***************************************************************************)

\* One thread plays every role: handlers do not overlap.
Serial == \A v, w \in Thread : v = w

\* The states from which a leg begins, and those in which it has not begun.
BeginState == [deposit |-> "initiated",
               payout  |-> "collection_succeeded",
               refund  |-> "payout_failed"]

Before == [deposit |-> {"initiated"},
           payout  |-> {"initiated", "collection_pending", "collection_failed",
                        "collection_succeeded"},
           refund  |-> {"initiated", "collection_pending", "collection_failed",
                        "collection_succeeded", "payout_pending", "payout_succeeded",
                        "payout_failed"}]

\* A handler's copy is the row, which is where the handler takes it to be.
SerialThread(w) ==
  LET t == job[w].tx  leg == job[w].leg
  IN  /\ pc[w] \in Holding => mem[w] = rows[t]
      /\ pc[w] \in {"load", "resolve", "request", "store_id"} =>
           rows[t].state = AwaitingState[leg]
      /\ pc[w] = "post" => rows[t].state = OutcomeState(leg, TRUE) /\ postings[t][leg] = 0
      /\ pc[w] = "begin" =>
           /\ rows[t].state = BeginState[leg]
           /\ leg # "deposit" => postings[t]["deposit"] = 1
      /\ pc[w] = "request" => rail[t][leg] = "none"
      /\ pc[w] = "resolve" /\ ~job[w].ok => rail[t][leg] \in {"none", "failed"}

\* The row tells what was requested and what is booked.
SerialRow(t) ==
  LET state == rows[t].state
  IN  /\ \A leg \in Leg :
           /\ state \in Before[leg] => rail[t][leg] = "none"
           /\ state \notin Booked[leg] => postings[t][leg] = 0
           /\ postings[t][leg] <= 1
      /\ state \in {"payout_failed", "refund_pending", "refunded", "manual_review"} =>
           rail[t]["payout"] \in {"none", "failed"}
      /\ state \in Collected \ {"collection_succeeded"} => postings[t]["deposit"] = 1

\* A thread is at one of the places with a leg of t.
Working(places, t, leg) ==
  \E w \in Thread : pc[w] \in places /\ job[w].tx = t /\ job[w].leg = leg

\* What no fault has cut short: a booked state is posted, or is being posted, and an
\* awaited leg has its op-id, or its request is being made.
WholeRow(t) ==
  \A leg \in Leg :
    /\ rows[t].state \in Booked[leg] => postings[t][leg] = 1 \/ Working({"post"}, t, leg)
    /\ rows[t].state = AwaitingState[leg] =>
         leg \in rows[t].ids \/ Working({"request", "store_id", "resolve"}, t, leg)

SerialInv ==
  /\ \A w \in Thread : pc[w] # "idle" => SerialThread(w)
  /\ \A t \in Tx :
       IF rows[t] = None
       THEN \A leg \in Leg : rail[t][leg] = "none" /\ postings[t][leg] = 0
       ELSE SerialRow(t)

\* Every row outside of S is whole, and a fault adds one payment to S at most.
WholeBut(S) == \A t \in Tx \ S : rows[t] # None => WholeRow(t)

FaultsCut ==
  \E S \in SUBSET Tx : IsFiniteSet(S) /\ Cardinality(S) <= faults /\ WholeBut(S)

-----------------------------------------------------------------------------
RowIn(t, states) == rows[t] # None /\ rows[t].state \in states

\* Every payment started is eventually resolved: paid, failed, refunded or in
\* front of a human, even if every callback is lost (sweep.py:7 "self-heals").
Resolves ==
  \A t \in Tx : rows[t] # None ~> RowIn(t, TerminalStates \cup {"manual_review"})

\* Two handlers are at work on t.
Overlap(t) ==
  \E v, w \in Thread : v # w /\ \A x \in {v, w} : job[x] # None /\ job[x].tx = t

\* Every movement pawaPay completes is eventually in the ledger, provided no two
\* handlers of its payment ever overlap: a handler whose transition another one
\* has made raises before it posts.
BooksCatchUp ==
  \A t \in Tx, leg \in Leg :
    []~Overlap(t) => (Succeeded(t, leg) ~> postings[t][leg] > 0)

\* Money taken from a customer does not stay at pawaPay unnoticed: it reaches
\* the merchant, goes back, or a human is told (state_machine.py:6 "money can
\* never be half moved without a recorded reason").
MoneyComesToRest ==
  \A t \in Tx : Succeeded(t, "deposit") ~>
    \/ Succeeded(t, "payout")
    \/ Succeeded(t, "refund")
    \/ RowIn(t, {"manual_review"})
=============================================================================
