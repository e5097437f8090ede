---------------------------- MODULE StartPayment ----------------------------
(***************************************************************************)
(* POST /transactions and start_merchant_payment: finding or creating the  *)
(* one payment of an idempotency key.  The route is synchronous, so it     *)
(* runs in the thread pool; one access to the store or the rail is one     *)
(* step.  Keys are one namespace for all merchants; the database's unique  *)
(* constraint is the only guard two concurrent requests both meet.         *)
(***************************************************************************)
EXTENDS Naturals

CONSTANTS Tx,        \* ids uuid4 may mint
          Merchant, Key,
          NoKey,     \* the request carries no Idempotency-Key
          RouteThreads,
          MaxFaults, \* bound on crashes and on calls that raise
          None       \* no row, no request, no transaction found

Request == [key : Key \cup {NoKey}, merchant : Merchant]
Row == [key : Key \cup {NoKey}, merchant : Merchant, state : {"initiated", "started"}]
Conflict == "conflict"  \* 409, idempotency key already used
Answer == [request : Request, body : Tx \cup {Conflict}, replay : BOOLEAN]

ASSUME StartAssumption ==
  /\ MaxFaults \in Nat
  /\ NoKey \notin Key
  /\ None \notin Row /\ None \notin Request /\ None \notin Tx
  /\ Conflict \notin Tx

VARIABLES rows,     \* the transactions table
          charged,  \* how often the payer's money was asked for
          answers,  \* history: the responses sent
          pc, req, found, faults

vars == <<rows, charged, answers, pc, req, found, faults>>

Place == {"idle", "replay", "recheck", "insert", "raced", "start", "fetch"}

Init ==
  /\ rows = [t \in Tx |-> None]
  /\ charged = [t \in Tx |-> 0]
  /\ answers = {}
  /\ pc = [w \in RouteThreads |-> "idle"]
  /\ req = [w \in RouteThreads |-> None]
  /\ found = [w \in RouteThreads |-> None]
  /\ faults = 0

Goto(w, place) == pc' = [pc EXCEPT ![w] = place]

Return(w) ==
  /\ Goto(w, "idle")
  /\ req' = [req EXCEPT ![w] = None]
  /\ found' = [found EXCEPT ![w] = None]

Respond(w, body, replay) ==
  /\ answers' = answers \cup {[request |-> req[w], body |-> body, replay |-> replay]}
  /\ Return(w)

\* find_by_idempotency_key: a request without a key finds nothing.
Keyed(key, t) == key # NoKey /\ rows[t] # None /\ rows[t].key = key
Used(key) == \E t \in Tx : Keyed(key, t)

Owns(w, t) == rows[t].merchant = req[w].merchant

-----------------------------------------------------------------------------
\* A request, or the retry of one.
Receive(w, request) ==
  /\ pc[w] = "idle"
  /\ req' = [req EXCEPT ![w] = request]
  /\ Goto(w, "replay")
  /\ UNCHANGED <<rows, charged, answers, found, faults>>

\* The route's own lookup: the merchant's key returns the original at once,
\* another merchant's is a conflict.
Replay(w) ==
  /\ pc[w] = "replay"
  /\ \/ \E t \in Tx : /\ Keyed(req[w].key, t)
                      /\ Respond(w, IF Owns(w, t) THEN t ELSE Conflict, TRUE)
     \/ ~Used(req[w].key) /\ Goto(w, "recheck") /\ UNCHANGED <<answers, req, found>>
  /\ UNCHANGED <<rows, charged, faults>>

\* start_merchant_payment looks again.
Recheck(w) ==
  /\ pc[w] = "recheck"
  /\ \/ \E t \in Tx : /\ Keyed(req[w].key, t)
                      /\ found' = [found EXCEPT ![w] = t]
                      /\ Goto(w, "fetch")
     \/ ~Used(req[w].key) /\ Goto(w, "insert") /\ UNCHANGED found
  /\ UNCHANGED <<rows, charged, answers, req, faults>>

NewRow(w) == [key |-> req[w].key, merchant |-> req[w].merchant, state |-> "initiated"]

\* Mutant: the table has no unique constraint.
InsertUnguarded(w, t) ==
  /\ pc[w] = "insert"
  /\ rows[t] = None
  /\ rows' = [rows EXCEPT ![t] = NewRow(w)]
  /\ found' = [found EXCEPT ![w] = t]
  /\ Goto(w, "start")
  /\ UNCHANGED <<charged, answers, req, faults>>

\* The first save of a fresh id, INITIATED, before anything is asked of the
\* rail; the unique constraint refuses a key that is already on a row.
Insert(w, t) ==
  /\ pc[w] = "insert"
  /\ rows[t] = None
  /\ IF Used(req[w].key)
     THEN Goto(w, "raced") /\ UNCHANGED <<rows, found>>
     ELSE /\ rows' = [rows EXCEPT ![t] = NewRow(w)]
          /\ found' = [found EXCEPT ![w] = t]
          /\ Goto(w, "start")
  /\ UNCHANGED <<charged, answers, req, faults>>

\* DuplicateIdempotencyKey: the winner's transaction is the answer.
Raced(w) ==
  /\ pc[w] = "raced"
  /\ \E t \in Tx : /\ Keyed(req[w].key, t)
                   /\ found' = [found EXCEPT ![w] = t]
  /\ Goto(w, "fetch")
  /\ UNCHANGED <<rows, charged, answers, req, faults>>

\* The payment starts: on-net it awaits the merchant's word, routed the
\* deposit is requested (PaymentSpine has the steps inside).
Start(w) ==
  /\ pc[w] = "start"
  /\ rows' = [rows EXCEPT ![found[w]].state = "started"]
  /\ charged' \in {charged, [charged EXCEPT ![found[w]] = @ + 1]}
  /\ Goto(w, "fetch")
  /\ UNCHANGED <<answers, req, found, faults>>

\* Mutant: the fetched transaction is not checked against the merchant.
FetchUnfenced(w) ==
  /\ pc[w] = "fetch"
  /\ Respond(w, found[w], FALSE)
  /\ UNCHANGED <<rows, charged, faults>>

\* The route serialises what it settled on, if it is the merchant's own.
Fetch(w) ==
  /\ pc[w] = "fetch"
  /\ Respond(w, IF Owns(w, found[w]) THEN found[w] ELSE Conflict, FALSE)
  /\ UNCHANGED <<rows, charged, faults>>

\* A request ends without an answer: an exception no handler catches.  Inside
\* the start the payer's money may have been asked for already.
Raise(w) ==
  /\ pc[w] # "idle"
  /\ faults < MaxFaults
  /\ faults' = faults + 1
  /\ \/ UNCHANGED <<rows, charged>>
     \/ /\ pc[w] = "start"
        /\ rows' = [rows EXCEPT ![found[w]].state = "started"]
        /\ charged' \in {charged, [charged EXCEPT ![found[w]] = @ + 1]}
  /\ Return(w)
  /\ UNCHANGED answers

\* The process dies: no request that was running is answered.
Crash ==
  /\ faults < MaxFaults
  /\ \E w \in RouteThreads : pc[w] # "idle"
  /\ faults' = faults + 1
  /\ pc' = [w \in RouteThreads |-> "idle"]
  /\ req' = [w \in RouteThreads |-> None]
  /\ found' = [w \in RouteThreads |-> None]
  /\ UNCHANGED <<rows, charged, answers>>

Next ==
  \/ \E w \in RouteThreads :
       \/ Replay(w) \/ Recheck(w) \/ Raced(w) \/ Start(w) \/ Fetch(w) \/ Raise(w)
       \/ \E t \in Tx : Insert(w, t)
       \/ \E request \in Request : Receive(w, request)
  \/ Crash

Spec == Init /\ [][Next]_vars

-----------------------------------------------------------------------------
\* Every variable has its type, and a thread past the lookups has a request and
\* the row it settled on.
TypeOK ==
  /\ rows \in [Tx -> Row \cup {None}]
  /\ charged \in [Tx -> Nat]
  /\ answers \subseteq Answer
  /\ pc \in [RouteThreads -> Place]
  /\ req \in [RouteThreads -> Request \cup {None}]
  /\ found \in [RouteThreads -> Tx \cup {None}]
  /\ faults \in 0..MaxFaults
  /\ \A w \in RouteThreads :
       /\ pc[w] # "idle" => req[w] \in Request
       /\ pc[w] \in {"start", "fetch"} => found[w] \in Tx /\ rows[found[w]] \in Row

\* However often and however concurrently a key is retried, and wherever a
\* request dies, the payer is charged at most once for it
\* (payments.py:103 "no money-moving request may double-charge on a retry").
ChargedOncePerKey ==
  \A t1, t2 \in Tx :
    /\ charged[t1] <= 1
    /\ charged[t1] > 0 /\ charged[t2] > 0 /\ t1 # t2 =>
         rows[t1].key = NoKey \/ rows[t1].key # rows[t2].key

\* A transaction is only ever shown to the merchant who created it with that
\* key, and a conflict is only answered when the key is another merchant's
\* (merchant_api.py:120-125), so all answers to one merchant's key agree.
AnswersAreOwn ==
  \A a \in answers :
    IF a.body = Conflict
    THEN \E t \in Tx : Keyed(a.request.key, t) /\ rows[t].merchant # a.request.merchant
    ELSE /\ rows[a.body] # None
         /\ rows[a.body].key = a.request.key
         /\ rows[a.body].merchant = a.request.merchant

\* The row of its own request that a thread starts or answers with.
OwnRow(w) ==
  /\ rows[found[w]].key = req[w].key
  /\ req[w].key = NoKey => Owns(w, found[w])

\* Why both hold: a key is on one row, a charged payment was started, and a
\* starting thread alone holds its own row, which was not started before.
OneRowPerKey ==
  /\ \A t1, t2 \in Tx, key \in Key : Keyed(key, t1) /\ Keyed(key, t2) => t1 = t2
  /\ \A t \in Tx : /\ charged[t] <= 1
                   /\ charged[t] > 0 => rows[t] # None /\ rows[t].state = "started"
  /\ \A w \in RouteThreads :
       /\ pc[w] \in {"start", "fetch"} => OwnRow(w)
       /\ pc[w] = "start" => /\ Owns(w, found[w])
                             /\ rows[found[w]].state = "initiated"
  /\ \A v, w \in RouteThreads :
       pc[v] = "start" /\ pc[w] = "start" /\ found[v] = found[w] => v = w
=============================================================================
