------------------------------- MODULE Deploy -------------------------------
(***************************************************************************)
(* The service as a process that operators configure, boot and stop.       *)
(* Settings decide whether it boots, on which rail and on which store it   *)
(* works, and with which key it verifies callbacks; the database and       *)
(* pawaPay survive the process, the in-memory store and the simulator's    *)
(* operations do not.  A handler's commits and its call of the rail are    *)
(* steps of their own, so that the process may stop between any two of     *)
(* them; one handler runs at a time, overlapping ones are PaymentSpine's.  *)
(***************************************************************************)
EXTENDS TxStateMachine, Naturals

CONSTANTS Tx,
          MaxBoots,      \* bound on the times the service is started
          MaxRotations,  \* bound on the keys pawaPay signs with
          None           \* no row, no process

Keys == 0 .. MaxRotations
Blank == MaxRotations + 1  \* no key: the setting is left out, or the fetch failed

Settings == [environment : {"local", "sandbox", "production", "prod"},
             database : BOOLEAN, credentials : BOOLEAN,
             password : BOOLEAN, secret : BOOLEAN,
             publicKey : Keys \cup {Blank}]

\* What create_app has made of them.
Process == [environment : {"local", "sandbox", "production"},
            durable : BOOLEAN, live : BOOLEAN, key : Keys \cup {Blank}]

\* The rail whose op-id each leg has on the row: its form tells.
Row == [state : TxState, on : [Leg -> {"none", "live", "simulator"}]]

\* What the handler drives, where it is, and whether it plays the outcomes out.
Work == [tx : Tx, leg : Leg, ok : BOOLEAN, plays : BOOLEAN,
         place : {"begin", "request", "store_id", "resolve"}]

ASSUME DeployAssumption ==
  /\ {MaxBoots, MaxRotations} \subseteq Nat
  /\ None \notin Row \cup Process \cup Work \cup Leg

VARIABLES process,
          table,      \* the transactions in the database
          memory,     \* the transactions in the process
          work,       \* the handler that runs in the process, if any
          simulated,  \* the operations the process's simulator knows
          rail,       \* pawaPay's operations
          signing,    \* the key pawaPay signs callbacks with
          boots,
          deployed,   \* history: payments taken outside a local environment
          mixed,      \* history: payments a simulator went on with after pawaPay
          cut         \* history: payments whose handler was stopped or raised

vars == <<process, table, memory, work, simulated, rail, signing, boots, deployed, mixed, cut>>

Init ==
  /\ process = None
  /\ table = [t \in Tx |-> None]
  /\ memory = [t \in Tx |-> None]
  /\ work = None
  /\ simulated = {}
  /\ rail = [t \in Tx |-> [leg \in Leg |-> "none"]]
  /\ signing = 0
  /\ boots = 0
  /\ deployed = {}
  /\ mixed = {}
  /\ cut = {}

Up == process # None

-----------------------------------------------------------------------------
(* Booting *)

\* Mutant: a deployment without a database falls back to the memory.
DurableUnlessForgotten(s) == TRUE

\* build_container takes the memory for its store in a local environment only.
DurableUnlessLocal(s) == s.database \/ s.environment = "local"

\* What create_app refuses to start with.
Bootable(s) ==
  /\ s.environment \in {"local", "sandbox", "production"}
  /\ s.environment = "sandbox" => s.password
  /\ s.environment = "production" => s.secret
  /\ DurableUnlessLocal(s)

\* ensure_callback_public_key: the configured key is taken as it is, else a live
\* rail's is fetched, which may fail.
CallbackKeys(s) ==
  IF s.publicKey # Blank THEN {s.publicKey}
  ELSE IF s.credentials THEN {signing, Blank} ELSE {Blank}

Boot(s) ==
  /\ ~Up
  /\ boots < MaxBoots
  /\ Bootable(s)
  /\ s.publicKey \in 0 .. signing \cup {Blank}
  /\ \E k \in CallbackKeys(s) :
       process' = [environment |-> s.environment, durable |-> s.database,
                   live |-> s.credentials, key |-> k]
  /\ boots' = boots + 1
  /\ UNCHANGED <<table, memory, work, simulated, rail, signing, deployed, mixed, cut>>

\* The payment a handler is at.
Driven == IF work = None THEN {} ELSE {work.tx}

\* A new release, or a crash: a handler gets no further than its last commit.
Stop ==
  /\ Up
  /\ process' = None
  /\ memory' = [t \in Tx |-> None]
  /\ work' = None
  /\ simulated' = {}
  /\ cut' = cut \cup Driven
  /\ UNCHANGED <<table, rail, signing, boots, deployed, mixed>>

-----------------------------------------------------------------------------
(* The orchestrator *)

Rows == IF process.durable THEN table ELSE memory

Save(t, row) ==
  IF process.durable
  THEN table' = [table EXCEPT ![t] = row] /\ UNCHANGED memory
  ELSE memory' = [memory EXCEPT ![t] = row] /\ UNCHANGED table

RailUsed == IF process.live THEN "live" ELSE "simulator"

At(place) == Up /\ work # None /\ work.place = place

\* start_merchant_payment: the payment is inserted and its deposit begins; on the
\* simulator its outcomes are played out unless the request asked to defer them.
Pay(t) ==
  /\ Up
  /\ work = None
  /\ {table[t], memory[t]} = {None} /\ rail[t]["deposit"] = "none"
  /\ Save(t, [state |-> "initiated", on |-> [leg \in Leg |-> "none"]])
  /\ \E plays \in IF process.live THEN {FALSE} ELSE BOOLEAN :
       work' = [tx |-> t, leg |-> "deposit", ok |-> TRUE, plays |-> plays, place |-> "begin"]
  /\ deployed' = IF process.environment = "local" THEN deployed ELSE deployed \cup {t}
  /\ UNCHANGED <<process, simulated, rail, signing, boots, mixed, cut>>

\* The pending state is saved before the rail is called.
Begin ==
  /\ At("begin")
  /\ Save(work.tx, [Rows[work.tx] EXCEPT !.state = AwaitingState[work.leg]])
  /\ work' = [work EXCEPT !.place = "request"]
  /\ UNCHANGED <<process, simulated, rail, signing, boots, deployed, mixed, cut>>

\* The process's rail accepts the leg, pawaPay to settle it later.
RequestAccepted ==
  /\ At("request")
  /\ IF process.live
     THEN /\ rail[work.tx][work.leg] = "none"
          /\ rail' = [rail EXCEPT ![work.tx][work.leg] = "accepted"]
          /\ UNCHANGED simulated
     ELSE /\ simulated' = simulated \cup {<<work.tx, work.leg>>}
          /\ UNCHANGED rail
  /\ work' = [work EXCEPT !.place = "store_id"]
  /\ UNCHANGED <<process, table, memory, signing, boots, deployed, mixed, cut>>

\* RailRejected: pawaPay refuses the leg, which counts as failed.
RequestRefused ==
  /\ At("request")
  /\ process.live
  /\ work' = [work EXCEPT !.place = "resolve", !.ok = FALSE]
  /\ UNCHANGED <<process, table, memory, simulated, rail, signing, boots, deployed, mixed, cut>>

\* The call raises something else, its request taken by pawaPay or not: the
\* handler ends where it is and the service stays up.
RequestRaises ==
  /\ At("request")
  /\ process.live
  /\ \E status \in {rail[work.tx][work.leg], "accepted"} :
       /\ status # rail[work.tx][work.leg] => rail[work.tx][work.leg] = "none"
       /\ rail' = [rail EXCEPT ![work.tx][work.leg] = status]
  /\ work' = None
  /\ cut' = cut \cup Driven
  /\ UNCHANGED <<process, table, memory, simulated, signing, boots, deployed, mixed>>

\* Mutant: the op-id is set on the copy and never saved.
StoreOpIdUnsaved ==
  /\ At("store_id")
  /\ work' = None
  /\ UNCHANGED <<process, table, memory, simulated, rail, signing, boots, deployed, mixed, cut>>

\* _store_op_id, and the return of the handler; play_out goes on with an outcome.
StoreOpId ==
  /\ At("store_id")
  /\ Save(work.tx, [Rows[work.tx] EXCEPT !.on[work.leg] = RailUsed])
  /\ work' \in IF work.plays THEN {[work EXCEPT !.place = "resolve", !.ok = ok] : ok \in BOOLEAN}
                ELSE {None}
  /\ UNCHANGED <<process, simulated, rail, signing, boots, deployed, mixed, cut>>

\* The leg an outcome is followed by: _begin_payout, _begin_refund.
Follows(leg, ok) ==
  CASE leg = "deposit" /\ ok -> "payout"
    [] leg = "payout" /\ ~ok -> "refund"
    [] OTHER -> None

\* The outcome's transition is saved; the next leg begins after that.
Resolve ==
  /\ At("resolve")
  /\ Save(work.tx, [Rows[work.tx] EXCEPT !.state = OutcomeState(work.leg, work.ok)])
  /\ work' = IF Follows(work.leg, work.ok) = None THEN None
             ELSE [work EXCEPT !.leg = Follows(work.leg, work.ok), !.ok = TRUE, !.place = "begin"]
  /\ UNCHANGED <<process, simulated, rail, signing, boots, deployed, mixed, cut>>

-----------------------------------------------------------------------------
(* How outcomes arrive *)

\* apply_outcome: a handler goes on with the outcome of the leg the row awaits.
Apply(t, leg, ok) ==
  /\ work = None
  /\ Rows[t].state = AwaitingState[leg]
  /\ work' = [tx |-> t, leg |-> leg, ok |-> ok, plays |-> FALSE, place |-> "resolve"]
  /\ UNCHANGED <<process, table, memory, simulated, rail, signing, boots, deployed, cut>>

\* verify_pawapay_signature: fresh, over this body, and made with the key the
\* process holds.  A callback that is refused is one that never came.
Verified == process.key = signing

\* pawaPay's callback is taken whatever the rail of the process.
Callback(t, leg) ==
  /\ Up
  /\ Verified
  /\ Rows[t] # None
  /\ Rows[t].on[leg] = "live"
  /\ rail[t][leg] \in {"completed", "failed"}
  /\ Apply(t, leg, rail[t][leg] = "completed")
  /\ mixed' = IF process.live THEN mixed ELSE mixed \cup {t}

\* Mutant: the simulator has completed whatever it is asked about.
StatusOfAnything(t, leg) ==
  IF ~process.live THEN "completed"
  ELSE IF Rows[t].on[leg] = "live" THEN rail[t][leg] ELSE "unknown"

\* get_*_status: pawaPay knows the operations requested of it, a simulator those
\* of its process, all of them completed.
Status(t, leg) ==
  CASE process.live /\ Rows[t].on[leg] = "live" -> rail[t][leg]
    [] ~process.live /\ Rows[t].on[leg] = "simulator" /\ <<t, leg>> \in simulated -> "completed"
    [] OTHER -> "unknown"

\* One payment of a sweep; it is left alone unless the status is final.
Reconcile(t, leg) ==
  /\ Rows[t] # None
  /\ Rows[t].on[leg] # "none"
  /\ Status(t, leg) \in {"completed", "failed"}
  /\ Apply(t, leg, Status(t, leg) = "completed")
  /\ UNCHANGED mixed

\* Mutant: the loop waits for a key callbacks can be verified with.
LoopWithKeyOnly(t, leg) == Up /\ process.live /\ process.key # Blank /\ Reconcile(t, leg)

\* The loop _lifespan starts, on a live rail only.
ReconcileLoop(t, leg) == Up /\ process.live /\ Reconcile(t, leg)

DemoControls == ~process.live \/ process.environment = "sandbox"

\* POST /demo/reconcile.
DemoReconcile(t, leg) == Up /\ DemoControls /\ Reconcile(t, leg)

-----------------------------------------------------------------------------
(* pawaPay *)

RailSettles(t, leg) ==
  /\ rail[t][leg] = "accepted"
  /\ \E s \in {"completed", "failed"} : rail' = [rail EXCEPT ![t][leg] = s]
  /\ UNCHANGED <<process, table, memory, work, simulated, signing, boots, deployed, mixed, cut>>

RotateKey ==
  /\ signing < MaxRotations
  /\ signing' = signing + 1
  /\ UNCHANGED <<process, table, memory, work, simulated, rail, boots, deployed, mixed, cut>>

\* The steps of a handler that is neither stopped nor cut off by the rail.
HandlerStep == Begin \/ RequestAccepted \/ RequestRefused \/ StoreOpId \/ Resolve

Next ==
  \/ \E s \in Settings : Boot(s)
  \/ Stop
  \/ \E t \in Tx : Pay(t)
  \/ HandlerStep
  \/ RequestRaises
  \/ \E t \in Tx, leg \in Leg :
       Callback(t, leg) \/ ReconcileLoop(t, leg) \/ DemoReconcile(t, leg) \/ RailSettles(t, leg)
  \/ RotateKey

Spec == Init /\ [][Next]_vars

\* Handlers run, the loop polls again and again, and pawaPay settles what it
\* accepted.  Nobody has to restart the service, resend a callback or press a demo
\* button, and pawaPay need not accept a request.
Fairness ==
  /\ WF_vars(HandlerStep)
  /\ \A t \in Tx, leg \in Leg : WF_vars(ReconcileLoop(t, leg)) /\ WF_vars(RailSettles(t, leg))

FairSpec == Spec /\ Fairness

-----------------------------------------------------------------------------
(* Properties *)

TypeOK ==
  /\ process \in Process \cup {None}
  /\ table \in [Tx -> Row \cup {None}]
  /\ memory \in [Tx -> Row \cup {None}]
  /\ work \in Work \cup {None}
  /\ simulated \subseteq Tx \X Leg
  /\ rail \in [Tx -> [Leg -> {"none", "accepted", "completed", "failed"}]]
  /\ signing \in Keys
  /\ boots \in 0 .. MaxBoots
  /\ deployed \subseteq Tx /\ mixed \subseteq Tx /\ cut \subseteq Tx

\* A payment taken outside a local environment is never lost, whatever restarts
\* and changes of settings follow (container.py:218 "never silently fall back").
NothingForgotten == \A t \in deployed : table[t] # None

\* Whether pawaPay has taken the payment's deposit.
Asked(t) == rail[t]["deposit"] # "none"

\* A payment that began at pawaPay says paid or refunded only when pawaPay has
\* paid or refunded it, although releases come back on another rail: no simulator
\* makes up the outcome of an operation it does not know.  The exception is a
\* payment pawaPay's callback moved in a process that runs the simulator (mixed).
RealMoneyMoved ==
  \A t \in Tx \ mixed : \A rows \in {table, memory} :
    rows[t] # None /\ Asked(t) =>
      /\ rows[t].state = "payout_succeeded" => rail[t]["payout"] = "completed"
      /\ rows[t].state = "refunded" => rail[t]["refund"] = "completed"

InTable(t) == table[t] # None

Ended(t) == InTable(t) /\ table[t].state \in TerminalStates \cup {"manual_review"}

\* Where no callback and no sweep takes a payment on: its handler was cut off, and
\* the row awaits no leg it has the op-id of (orchestrator.py:113-131, 157-169).
Stranded(t) ==
  /\ InTable(t) /\ t \in cut \ Driven
  /\ \A leg \in Leg : table[t].state = AwaitingState[leg] => table[t].on[leg] = "none"

LiveForGood == <>[](Up /\ process.live /\ process.durable)

\* Once the service stays up on the live rail, every payment pawaPay was asked for
\* ends by the loop, whatever the releases before and however often pawaPay
\* refuses a leg, and also when the key is missing or outdated and every callback
\* is refused (sweep.py:7 "self-heals").  Only one whose handler a stop or a raise
\* cut off before the awaited op-id was saved is left: the sweep has nothing to
\* poll it by (sweep.py:109-112).
LoopHeals ==
  LiveForGood =>
    \A t \in Tx : [](InTable(t) /\ Asked(t) => <>(Ended(t) \/ Stranded(t) \/ t \in mixed))
=============================================================================
