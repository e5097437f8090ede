---------------------------- MODULE StartProofs ----------------------------
(***************************************************************************)
(* For any merchants, keys and threads and any number of crashes: finding  *)
(* or creating the payment of an idempotency key charges it once and       *)
(* answers each merchant with its own payment.                             *)
(***************************************************************************)
EXTENDS StartPayment, TLAPS

Inv == TypeOK /\ OneRowPerKey /\ AnswersAreOwn

LEMMA RowFields ==
  ASSUME NEW r \in Row
  PROVE  /\ r.key \in Key \cup {NoKey} /\ r.merchant \in Merchant
         /\ r.state \in {"initiated", "started"} /\ r # None
         /\ [r EXCEPT !.state = "started"] \in Row
         /\ [r EXCEPT !.state = "started"].key = r.key
         /\ [r EXCEPT !.state = "started"].merchant = r.merchant
         /\ [r EXCEPT !.state = "started"].state = "started"
BY StartAssumption DEF Row

LEMMA RequestFields ==
  ASSUME NEW r \in Request
  PROVE  r.key \in Key \cup {NoKey} /\ r.merchant \in Merchant /\ r # None
BY StartAssumption DEF Request

\* Rows are never deleted and never change hands.
RowsKept ==
  \A t \in Tx : rows[t] # None =>
    rows'[t] # None /\ rows'[t].key = rows[t].key /\ rows'[t].merchant = rows[t].merchant

LEMMA AnswersStay ==
  ASSUME TypeOK, AnswersAreOwn, RowsKept, answers' = answers
  PROVE  AnswersAreOwn'
<1>1. ASSUME NEW a \in answers, a.body = Conflict
      PROVE  \E t \in Tx : Keyed(a.request.key, t)' /\ rows'[t].merchant # a.request.merchant
  <2>1. PICK t \in Tx : Keyed(a.request.key, t) /\ rows[t].merchant # a.request.merchant
    BY <1>1 DEF AnswersAreOwn
  <2>2. QED
    BY <2>1 DEF RowsKept, Keyed
<1>2. ASSUME NEW a \in answers, a.body # Conflict
      PROVE  /\ rows'[a.body] # None
             /\ rows'[a.body].key = a.request.key
             /\ rows'[a.body].merchant = a.request.merchant
  <2>1. a.body \in Tx
    BY <1>2 DEF TypeOK, Answer
  <2>2. QED
    BY <1>2, <2>1 DEF AnswersAreOwn, RowsKept
<1>3. QED
  BY <1>1, <1>2 DEF AnswersAreOwn

\* A thread that returns, rows and charges being left alone.
LEMMA Returning ==
  ASSUME Inv, NEW w \in RouteThreads, Return(w),
         UNCHANGED <<rows, charged>>, faults' \in 0..MaxFaults,
         answers' \subseteq Answer, AnswersAreOwn'
  PROVE  Inv'
<1> USE DEF Inv
<1>1. /\ pc' = [pc EXCEPT ![w] = "idle"]
      /\ req' = [req EXCEPT ![w] = None]
      /\ found' = [found EXCEPT ![w] = None]
  BY DEF Return, Goto
<1>2. TypeOK'
  BY <1>1 DEF TypeOK, Place
<1>3. OneRowPerKey'
  BY <1>1 DEF OneRowPerKey, TypeOK, Keyed, OwnRow, Owns
<1>4. QED
  BY <1>2, <1>3

\* A response for the thread's request: its own row, or a conflict.
LEMMA Responding ==
  ASSUME Inv, NEW w \in RouteThreads, NEW t \in Tx, NEW replay \in BOOLEAN,
         req[w] \in Request, rows[t] \in Row, rows[t].key = req[w].key,
         req[w].key = NoKey => Owns(w, t),
         Respond(w, IF Owns(w, t) THEN t ELSE Conflict, replay),
         UNCHANGED <<rows, charged, faults>>
  PROVE  Inv'
<1> DEFINE body == IF Owns(w, t) THEN t ELSE Conflict
           a == [request |-> req[w], body |-> body, replay |-> replay]
<1>1. a \in Answer /\ a.request = req[w] /\ a.body = body
  BY DEF Answer
<1>2. body = Conflict => Keyed(req[w].key, t) /\ rows[t].merchant # req[w].merchant
  BY RowFields, StartAssumption DEF Keyed, Owns
<1>3. body # Conflict => body = t /\ rows[t].merchant = req[w].merchant
  BY DEF Owns
<1> HIDE DEF a, body
<1>4. answers' = answers \cup {a} /\ Return(w)
  BY DEF Respond, a, body
<1>5. UNCHANGED rows
  OBVIOUS
<1>6. AnswersAreOwn'
  <2>1. AnswersAreOwn
    BY DEF Inv
  <2>2. rows[t] # None
    BY RowFields
  <2>3. QED
    BY <1>1, <1>2, <1>3, <1>4, <1>5, <2>1, <2>2 DEF AnswersAreOwn, Keyed
<1>7. answers' \subseteq Answer /\ faults' \in 0..MaxFaults
  BY <1>1, <1>4 DEF Inv, TypeOK
<1>8. QED
  BY <1>4, <1>6, <1>7, Returning

\* A thread goes on to a place where it holds no row.
LEMMA Moving ==
  ASSUME Inv, NEW w \in RouteThreads, NEW place \in {"replay", "recheck", "insert", "raced"},
         Goto(w, place), req'[w] \in Request,
         req' = [req EXCEPT ![w] = req'[w]],
         UNCHANGED <<rows, charged, answers, found, faults>>
  PROVE  Inv'
<1> USE DEF Inv
<1>1. pc' = [pc EXCEPT ![w] = place]
  BY DEF Goto
<1>2. TypeOK'
  BY <1>1 DEF TypeOK, Place
<1>3. OneRowPerKey'
  BY <1>1 DEF OneRowPerKey, TypeOK, Keyed, OwnRow, Owns
<1>4. AnswersAreOwn'
  BY AnswersStay DEF RowsKept
<1>5. QED
  BY <1>2, <1>3, <1>4

\* A lookup settles on the row that carries the request's key.
LEMMA Settling ==
  ASSUME Inv, NEW w \in RouteThreads, NEW t \in Tx, Keyed(req[w].key, t),
         pc[w] # "idle", Goto(w, "fetch"), found' = [found EXCEPT ![w] = t],
         UNCHANGED <<rows, charged, answers, req, faults>>
  PROVE  Inv'
<1> USE DEF Inv
<1>1. pc' = [pc EXCEPT ![w] = "fetch"] /\ rows[t] \in Row /\ rows[t].key = req[w].key
  BY DEF Goto, Keyed, TypeOK
<1>2. TypeOK'
  BY <1>1 DEF TypeOK, Place
<1>3. OneRowPerKey'
  BY <1>1 DEF OneRowPerKey, TypeOK, Keyed, OwnRow, Owns
<1>4. AnswersAreOwn'
  BY AnswersStay DEF RowsKept
<1>5. QED
  BY <1>2, <1>3, <1>4

LEMMA InvInsert ==
  ASSUME Inv, NEW w \in RouteThreads, NEW t \in Tx, Insert(w, t)
  PROVE  Inv'
<1>1. req[w] \in Request
  BY DEF Insert, Inv, TypeOK
<1>2. CASE Used(req[w].key)
  BY <1>1, <1>2, Moving DEF Insert, Inv, TypeOK
<1>3. CASE ~Used(req[w].key)
  <2>1. /\ NewRow(w) \in Row /\ NewRow(w).key = req[w].key
        /\ NewRow(w).merchant = req[w].merchant /\ NewRow(w).state = "initiated"
        /\ NewRow(w) # None
    BY <1>1, RequestFields, StartAssumption DEF NewRow, Row
  <2>2. /\ rows[t] = None /\ rows' = [rows EXCEPT ![t] = NewRow(w)]
        /\ found' = [found EXCEPT ![w] = t]
        /\ pc' = [pc EXCEPT ![w] = "start"]
        /\ UNCHANGED <<charged, answers, req, faults>>
    BY <1>3 DEF Insert, Goto
  <2>3. TypeOK'
    BY <1>1, <2>1, <2>2 DEF Inv, TypeOK, Place
  <2>4. RowsKept
    BY <2>2 DEF RowsKept, Inv, TypeOK
  <2>5. ASSUME NEW t1 \in Tx, NEW t2 \in Tx, NEW key \in Key,
               Keyed(key, t1)', Keyed(key, t2)'
        PROVE  t1 = t2
    BY <1>3, <2>1, <2>2, <2>5 DEF Inv, OneRowPerKey, TypeOK, Keyed, Used
  <2>6. ASSUME NEW v \in RouteThreads, v # w, pc[v] \in {"start", "fetch"}
        PROVE  found[v] # t /\ found[v] \in Tx
    BY <2>2, <2>6, RowFields DEF Inv, TypeOK
  <2>7. ASSUME NEW v \in RouteThreads
        PROVE  /\ pc'[v] \in {"start", "fetch"} => OwnRow(v)'
               /\ pc'[v] = "start" => Owns(v, found[v])' /\ rows'[found'[v]].state = "initiated"
    <3>1. CASE v = w
      BY <2>1, <2>2, <3>1 DEF Inv, TypeOK, OwnRow, Owns
    <3>2. CASE v # w
      BY <2>2, <2>6, <3>2 DEF Inv, OneRowPerKey, TypeOK, OwnRow, Owns
    <3>3. QED
      BY <3>1, <3>2
  <2>8. ASSUME NEW u \in RouteThreads, NEW v \in RouteThreads,
               pc'[u] = "start", pc'[v] = "start", found'[u] = found'[v]
        PROVE  u = v
    BY <2>2, <2>6, <2>8 DEF Inv, OneRowPerKey, TypeOK
  <2>9. \A x \in Tx : /\ charged'[x] <= 1
                      /\ charged'[x] > 0 => rows'[x] # None /\ rows'[x].state = "started"
    BY <2>2 DEF Inv, OneRowPerKey, TypeOK
  <2>10. OneRowPerKey'
    BY <2>5, <2>7, <2>8, <2>9 DEF OneRowPerKey
  <2>11. QED
    BY <2>2, <2>3, <2>4, <2>10, AnswersStay DEF Inv
<1>4. QED
  BY <1>2, <1>3

\* The payment of a starting thread is started, and charged or not; the thread
\* then answers with it or is cut short.
LEMMA Starting ==
  ASSUME Inv, NEW w \in RouteThreads, pc[w] = "start",
         rows' = [rows EXCEPT ![found[w]].state = "started"],
         charged' \in {charged, [charged EXCEPT ![found[w]] = @ + 1]},
         \/ Goto(w, "fetch") /\ UNCHANGED <<req, found>>
         \/ Return(w),
         faults' \in 0..MaxFaults, UNCHANGED answers
  PROVE  Inv'
<1> DEFINE t == found[w]
           row == [rows[t] EXCEPT !.state = "started"]
<1>1. t \in Tx /\ rows[t] \in Row /\ req[w] \in Request
  BY DEF Inv, TypeOK
<1>2. /\ row \in Row /\ row.key = rows[t].key /\ row.merchant = rows[t].merchant
      /\ row.state = "started" /\ row # None
  BY <1>1, RowFields
<1>3. /\ charged[t] = 0
      /\ rows[t].state = "initiated"
      /\ rows[t].key = req[w].key /\ rows[t].merchant = req[w].merchant
  BY <1>1 DEF Inv, OneRowPerKey, TypeOK, OwnRow, Owns
<1>4. rows' = [rows EXCEPT ![t] = row]
  BY <1>1 DEF Inv, TypeOK
<1>5. /\ charged' \in [Tx -> Nat]
      /\ charged'[t] <= 1
      /\ \A x \in Tx \ {t} : charged'[x] = charged[x]
  BY <1>1, <1>3 DEF Inv, TypeOK
<1>6. ASSUME NEW v \in RouteThreads, v # w, pc[v] = "start" PROVE found[v] # t
  BY <1>6 DEF Inv, OneRowPerKey
<1>7. \A v \in RouteThreads \ {w} : pc'[v] = pc[v] /\ req'[v] = req[v] /\ found'[v] = found[v]
  BY DEF Goto, Return, Inv, TypeOK
<1>8. \/ pc'[w] = "fetch" /\ req'[w] = req[w] /\ found'[w] = t
      \/ pc'[w] = "idle"
  BY DEF Goto, Return, Inv, TypeOK
<1> HIDE DEF t, row
<1>9. RowsKept
  BY <1>1, <1>2, <1>4 DEF RowsKept, Inv, TypeOK
<1>10. TypeOK'
  <2>1. /\ pc' \in [RouteThreads -> Place] /\ req' \in [RouteThreads -> Request \cup {None}]
        /\ found' \in [RouteThreads -> Tx \cup {None}]
    BY DEF Goto, Return, Inv, TypeOK, Place
  <2>2. rows' \in [Tx -> Row \cup {None}]
    BY <1>1, <1>2, <1>4 DEF Inv, TypeOK
  <2>3. ASSUME NEW v \in RouteThreads
        PROVE  /\ pc'[v] # "idle" => req'[v] \in Request
               /\ pc'[v] \in {"start", "fetch"} => found'[v] \in Tx /\ rows'[found'[v]] \in Row
    <3>1. CASE v = w
      BY <1>1, <1>2, <1>4, <1>8, <3>1 DEF Inv, TypeOK
    <3>2. CASE v # w
      BY <1>1, <1>2, <1>4, <1>7, <3>2 DEF Inv, TypeOK
    <3>3. QED
      BY <3>1, <3>2
  <2>4. QED
    BY <1>5, <2>1, <2>2, <2>3 DEF Inv, TypeOK
<1>11. \A t1, t2 \in Tx, key \in Key : (Keyed(key, t1) /\ Keyed(key, t2))' => t1 = t2
  BY <1>1, <1>2, <1>3, <1>4, RowFields DEF Inv, OneRowPerKey, TypeOK, Keyed
<1>12. \A x \in Tx : /\ charged'[x] <= 1
                     /\ charged'[x] > 0 => rows'[x] # None /\ rows'[x].state = "started"
  BY <1>1, <1>2, <1>4, <1>5 DEF Inv, OneRowPerKey, TypeOK
<1>13. ASSUME NEW v \in RouteThreads
       PROVE  /\ pc'[v] \in {"start", "fetch"} => OwnRow(v)'
              /\ pc'[v] = "start" => Owns(v, found[v])' /\ rows'[found'[v]].state = "initiated"
  <2>1. CASE v = w
    BY <1>1, <1>2, <1>3, <1>4, <1>8, <2>1 DEF Inv, TypeOK, OwnRow, Owns
  <2>2. CASE v # w
    <3>1. pc[v] \in {"start", "fetch"} =>
            /\ OwnRow(v) /\ found[v] \in Tx
            /\ rows'[found[v]].key = rows[found[v]].key
            /\ rows'[found[v]].merchant = rows[found[v]].merchant
      BY <1>9, RowFields DEF Inv, OneRowPerKey, TypeOK, RowsKept
    <3>2. pc[v] = "start" =>
            Owns(v, found[v]) /\ found[v] \in Tx /\ rows'[found[v]].state = "initiated"
      BY <1>1, <1>4, <1>6, <2>2 DEF Inv, OneRowPerKey, TypeOK
    <3>3. QED
      BY <1>7, <2>2, <3>1, <3>2 DEF OwnRow, Owns
  <2>3. QED
    BY <2>1, <2>2
<1>14. \A u, v \in RouteThreads :
         pc'[u] = "start" /\ pc'[v] = "start" /\ found'[u] = found'[v] => u = v
  BY <1>7, <1>8 DEF Inv, OneRowPerKey
<1>15. OneRowPerKey'
  BY <1>11, <1>12, <1>13, <1>14 DEF OneRowPerKey
<1>16. QED
  BY <1>9, <1>10, <1>15, AnswersStay DEF Inv

LEMMA InitInv == Init => Inv
BY StartAssumption DEF Init, Inv, TypeOK, OneRowPerKey, AnswersAreOwn, Keyed, Place

LEMMA InvStep == Inv /\ [Next]_vars => Inv'
<1> SUFFICES ASSUME Inv, [Next]_vars PROVE Inv'
  OBVIOUS
<1>1. ASSUME NEW w \in RouteThreads, pc[w] # "idle" PROVE req[w] \in Request
  BY <1>1 DEF Inv, TypeOK
<1>2. ASSUME NEW w \in RouteThreads, NEW request \in Request, Receive(w, request)
      PROVE Inv'
  <2>1. req'[w] = request /\ req' = [req EXCEPT ![w] = request]
    BY <1>2 DEF Receive, Inv, TypeOK
  <2>2. QED
    BY <1>2, <2>1, Moving DEF Receive
<1>3. ASSUME NEW w \in RouteThreads, Replay(w) PROVE Inv'
  <2>1. CASE \E t \in Tx : /\ Keyed(req[w].key, t)
                           /\ Respond(w, IF Owns(w, t) THEN t ELSE Conflict, TRUE)
    <3>1. PICK t \in Tx : /\ Keyed(req[w].key, t)
                          /\ Respond(w, IF Owns(w, t) THEN t ELSE Conflict, TRUE)
      BY <2>1
    <3>2. /\ req[w] \in Request /\ rows[t] \in Row /\ rows[t].key = req[w].key
          /\ req[w].key # NoKey
      BY <1>1, <1>3, <3>1 DEF Replay, Keyed, Inv, TypeOK
    <3>3. UNCHANGED <<rows, charged, faults>>
      BY <1>3 DEF Replay
    <3>4. QED
      BY <3>1, <3>2, <3>3, Responding
  <2>2. CASE ~Used(req[w].key) /\ Goto(w, "recheck") /\ UNCHANGED <<answers, req, found>>
    BY <1>1, <1>3, <2>2, Moving DEF Replay, Inv, TypeOK
  <2>3. QED
    BY <1>3, <2>1, <2>2 DEF Replay
<1>4. ASSUME NEW w \in RouteThreads, Recheck(w) PROVE Inv'
  <2>1. CASE \E t \in Tx : /\ Keyed(req[w].key, t)
                           /\ found' = [found EXCEPT ![w] = t]
                           /\ Goto(w, "fetch")
    BY <1>4, <2>1, Settling DEF Recheck
  <2>2. CASE ~Used(req[w].key) /\ Goto(w, "insert") /\ UNCHANGED found
    BY <1>1, <1>4, <2>2, Moving DEF Recheck, Inv, TypeOK
  <2>3. QED
    BY <1>4, <2>1, <2>2 DEF Recheck
<1>5. ASSUME NEW w \in RouteThreads, NEW t \in Tx, Insert(w, t) PROVE Inv'
  BY <1>5, InvInsert
<1>6. ASSUME NEW w \in RouteThreads, Raced(w) PROVE Inv'
  BY <1>6, Settling DEF Raced
<1>7. ASSUME NEW w \in RouteThreads, Start(w) PROVE Inv'
  <2>1. faults' \in 0..MaxFaults
    BY <1>7 DEF Start, Inv, TypeOK
  <2>2. QED
    BY <1>7, <2>1, Starting DEF Start
<1>8. ASSUME NEW w \in RouteThreads, Fetch(w) PROVE Inv'
  <2>1. /\ req[w] \in Request /\ found[w] \in Tx /\ rows[found[w]] \in Row
        /\ OwnRow(w)
    BY <1>8 DEF Fetch, Inv, TypeOK, OneRowPerKey
  <2>2. QED
    BY <1>8, <2>1, Responding DEF Fetch, OwnRow
<1>9. ASSUME NEW w \in RouteThreads, Raise(w) PROVE Inv'
  <2>1. /\ faults' \in 0..MaxFaults /\ Return(w) /\ UNCHANGED answers
        /\ answers \subseteq Answer
    BY <1>9, StartAssumption DEF Raise, Inv, TypeOK
  <2>2. CASE UNCHANGED <<rows, charged>>
    <3>1. AnswersAreOwn'
      BY <2>1, <2>2, AnswersStay DEF Inv, RowsKept
    <3>2. QED
      BY <2>1, <2>2, <3>1, Returning
  <2>3. CASE /\ pc[w] = "start"
             /\ rows' = [rows EXCEPT ![found[w]].state = "started"]
             /\ charged' \in {charged, [charged EXCEPT ![found[w]] = @ + 1]}
    BY <2>1, <2>3, Starting
  <2>4. QED
    BY <1>9, <2>2, <2>3 DEF Raise
<1>10. CASE Crash
  <2>1. TypeOK'
    BY <1>10, StartAssumption DEF Crash, Inv, TypeOK, Place
  <2>2. OneRowPerKey'
    BY <1>10 DEF Crash, Inv, OneRowPerKey, TypeOK, Keyed
  <2>3. AnswersAreOwn'
    BY <1>10, AnswersStay DEF Crash, Inv, RowsKept
  <2>4. QED
    BY <2>1, <2>2, <2>3 DEF Inv
<1>11. CASE UNCHANGED vars
  BY <1>11 DEF vars, Inv, TypeOK, OneRowPerKey, AnswersAreOwn, Keyed, OwnRow, Owns
<1>12. QED
  BY <1>2, <1>3, <1>4, <1>5, <1>6, <1>7, <1>8, <1>9, <1>10, <1>11 DEF Next

\* A key is on one row, which its starter alone holds until it has begun, at every
\* moment (payments.py, merchant_api.py).
THEOREM InvAlways == Spec => []Inv
<1>1. QED
  BY InitInv, InvStep, PTL DEF Spec

-----------------------------------------------------------------------------
\* A key is charged at most once, however many requests carry it, retry it or
\* race past both lookups, and wherever one of them dies: the unique constraint
\* decides before the rail is asked (payments.py start_merchant_payment).
THEOREM ChargesOnce == Spec => []ChargedOncePerKey
<1>1. Inv => ChargedOncePerKey
  BY DEF Inv, TypeOK, OneRowPerKey, ChargedOncePerKey, Keyed, Row
<1>2. QED
  BY <1>1, InvAlways, PTL

\* No response hands a merchant another merchant's payment, and a conflict is
\* only answered to a merchant whose key is taken by another (create_transaction).
THEOREM AnswersTheOwner == Spec => []AnswersAreOwn
<1>1. Inv => AnswersAreOwn
  BY DEF Inv
<1>2. QED
  BY <1>1, InvAlways, PTL

\* The unique constraint is the whole reason: a key is on one row, and the thread
\* that starts a row is alone on it.
THEOREM OneRow == Spec => []OneRowPerKey
<1>1. Inv => OneRowPerKey
  BY DEF Inv
<1>2. QED
  BY <1>1, InvAlways, PTL
=============================================================================
