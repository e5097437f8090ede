---------------------------- MODULE OnNetProofs ----------------------------
(***************************************************************************)
(* For any number of payments, threads and crashes: an on-net payment that *)
(* is stored as paid is in the books, and one that no two requests worked  *)
(* on at once is booked as often as the merchant's word allows.            *)
(***************************************************************************)
EXTENDS MCOnNet, FiniteSetTheorems, TLAPS

-----------------------------------------------------------------------------
(* The invariants *)

\* A thread that is to save the payment as paid has posted it.
BookedFirst ==
  \A w \in RouteThreads :
    pc[w] = "resolve" /\ job[w].received => posted[job[w].tx] > 0

\* The ledger is ahead of the state in every step, never behind it.
OnNetInv ==
  /\ TypeOK
  /\ BookedFirst
  /\ PaidIsBooked

\* A thread alone on its payment finds the row as it left it or as the route's
\* check read it; whether it has posted shows in its place.
WorksAlone(w) ==
  LET t == job[w].tx
  IN /\ pc[w] = "await" => rows[t] = "initiated"
     /\ pc[w] # "await" => rows[t] = "collection_pending"
     /\ pc[w] \in {"book", "resolve"} => mem[w] = "collection_pending"
     /\ pc[w] = "book" => job[w].received
     /\ pc[w] = "resolve" /\ job[w].received => posted[t] = 1
     /\ pc[w] = "resolve" /\ ~job[w].received => posted[t] = 0
     /\ pc[w] # "resolve" => posted[t] = 0

\* A payment nobody overlapped on: one thread at most is at work on it; between
\* two requests the books are what the row says.
Undisturbed(t) ==
  /\ \A v, w \in At(t) : v = w
  /\ \A w \in At(t) : WorksAlone(w)
  /\ At(t) = {} /\ rows[t] = "payout_succeeded" => posted[t] = 1
  /\ At(t) = {} /\ rows[t] # "payout_succeeded" => posted[t] = 0

HistoryInv ==
  /\ OnNetInv
  /\ \A w \in RouteThreads : pc[w] = "idle" <=> job[w] = None
  /\ \A t \in Tx \ disturbed : Undisturbed(t)

-----------------------------------------------------------------------------
(* Types *)

LEMMA StatesNamed ==
  TxState = {"initiated", "collection_pending", "collection_succeeded",
             "collection_failed", "payout_pending", "payout_succeeded",
             "payout_failed", "refund_pending", "refunded", "manual_review"}
BY DEF TxState, Transitions

\* Both answers of the merchant are legal while the payment awaits one.
LEMMA AnswersLegal ==
  /\ CanTransition("collection_pending", "payout_succeeded")
  /\ CanTransition("collection_pending", "collection_failed")
BY DEF CanTransition, Transitions

\* What a request carries.
LEMMA AtWork ==
  ASSUME TypeOK, NEW w \in RouteThreads, pc[w] # "idle"
  PROVE  /\ job[w] \in Job /\ job[w] # None
         /\ job[w].tx \in Tx /\ job[w].received \in BOOLEAN
         /\ rows[job[w].tx] \in TxState
         /\ pc[w] \in {"await", "book", "resolve"} => mem[w] \in TxState
BY OnNetAssumption DEF TypeOK, Job

LEMMA InitType == Init => TypeOK
BY OnNetAssumption DEF Init, TypeOK, Place

\* A step of thread w that deletes no row.
LEMMA TypeFrame ==
  ASSUME TypeOK, NEW w \in RouteThreads,
         rows' \in [Tx -> TxState \cup {None}],
         posted' \in [Tx -> Nat],
         pc' \in [RouteThreads -> Place],
         job' \in [RouteThreads -> Job \cup {None}],
         mem' \in [RouteThreads -> TxState \cup {None}],
         faults' = faults,
         \A v \in RouteThreads \ {w} : pc'[v] = pc[v] /\ job'[v] = job[v] /\ mem'[v] = mem[v],
         \A t \in Tx : rows[t] # None => rows'[t] # None,
         pc'[w] # "idle" => job'[w] \in Job /\ rows'[job'[w].tx] # None,
         pc'[w] \in {"await", "book", "resolve"} => mem'[w] \in TxState
  PROVE  TypeOK'
<1>1. ASSUME NEW v \in RouteThreads \ {w}, pc'[v] # "idle"
      PROVE  /\ job'[v] \in Job /\ rows'[job'[v].tx] # None
             /\ pc'[v] \in {"await", "book", "resolve"} => mem'[v] \in TxState
  <2>1. pc[v] # "idle" /\ job'[v] = job[v] /\ mem'[v] = mem[v] /\ pc'[v] = pc[v]
    BY <1>1
  <2>2. QED
    BY <2>1, AtWork, OnNetAssumption
<1>2. faults' \in 0..MaxFaults
  BY DEF TypeOK
<1>3. QED
  BY <1>1, <1>2 DEF TypeOK

LEMMA TypeStep == ASSUME TypeOK, [Next]_vars PROVE TypeOK'
<1>0. /\ rows \in [Tx -> TxState \cup {None}] /\ posted \in [Tx -> Nat]
      /\ pc \in [RouteThreads -> Place]
      /\ job \in [RouteThreads -> Job \cup {None}]
      /\ mem \in [RouteThreads -> TxState \cup {None}]
  BY DEF TypeOK
<1>p. Place = {"idle", "await", "load", "book", "resolve"}
  BY DEF Place
<1>1. ASSUME NEW w \in RouteThreads, NEW t \in Tx, Start(w, t) PROVE TypeOK'
  <2>1. [tx |-> t, received |-> FALSE] \in Job /\ "initiated" \in TxState /\ "initiated" # None
    BY StatesNamed, OnNetAssumption DEF Job
  <2>2. QED
    BY <1>0, <1>1, <1>p, <2>1, TypeFrame DEF Start, Goto
<1>2. ASSUME NEW w \in RouteThreads, Await(w) PROVE TypeOK'
  <2>1. "collection_pending" \in TxState /\ "collection_pending" # None
    BY StatesNamed, OnNetAssumption
  <2>2. PICK t \in Tx : t = job[w].tx
    BY <1>2, AtWork DEF Await
  <2>3. QED
    BY <1>0, <1>2, <1>p, <2>1, <2>2, TypeFrame DEF Await, Return, Goto
<1>3. ASSUME NEW w \in RouteThreads, NEW t \in Tx, NEW received \in BOOLEAN,
             Confirm(w, t, received)
      PROVE  TypeOK'
  <2>1. [tx |-> t, received |-> received] \in Job /\ rows[t] # None
    BY <1>3, StatesNamed, OnNetAssumption DEF Job, Confirm
  <2>2. QED
    BY <1>0, <1>3, <1>p, <2>1, TypeFrame DEF Confirm, Goto
<1>4. ASSUME NEW w \in RouteThreads, Load(w) PROVE TypeOK'
  <2>1. rows[job[w].tx] \in TxState /\ rows[job[w].tx] # None /\ job[w] \in Job
    BY <1>4, AtWork, OnNetAssumption DEF Load
  <2>2. pc'[w] \in Place
    BY <1>0, <1>4, <1>p DEF Load, Goto
  <2>3. QED
    BY <1>0, <1>4, <1>p, <2>1, <2>2, TypeFrame DEF Load, Goto
<1>5. ASSUME NEW w \in RouteThreads, Book(w) PROVE TypeOK'
  <2>1. PICK t \in Tx : t = job[w].tx
    BY <1>5, AtWork DEF Book
  <2>2. /\ rows[t] # None /\ job[w] \in Job /\ mem[w] \in TxState
        /\ posted' = [posted EXCEPT ![t] = posted[t] + 1] /\ posted[t] + 1 \in Nat
    BY <1>0, <1>5, <2>1, AtWork, OnNetAssumption DEF Book
  <2>3. posted' \in [Tx -> Nat]
    BY <1>0, <2>2
  <2>4. QED
    BY <1>0, <1>5, <1>p, <2>1, <2>2, <2>3, TypeFrame DEF Book, Goto
<1>6. ASSUME NEW w \in RouteThreads, Resolve(w) PROVE TypeOK'
  <2>1. PICK t \in Tx : t = job[w].tx
    BY <1>6, AtWork DEF Resolve
  <2>2. /\ rows' \in [Tx -> TxState \cup {None}]
        /\ \A u \in Tx : rows[u] # None => rows'[u] # None
    BY <1>0, <1>6, <2>1, StatesNamed, OnNetAssumption DEF Resolve
  <2>3. QED
    BY <1>0, <1>6, <1>p, <2>2, TypeFrame DEF Resolve, Return, Goto
<1>7. CASE Crash
  <2>1. faults' \in 0..MaxFaults
    BY <1>7, OnNetAssumption DEF Crash, TypeOK
  <2>2. QED
    BY <1>0, <1>7, <1>p, <2>1 DEF Crash, TypeOK
<1>8. CASE UNCHANGED vars
  BY <1>8 DEF vars, TypeOK
<1>9. QED
  BY <1>1, <1>2, <1>3, <1>4, <1>5, <1>6, <1>7, <1>8 DEF Next

\* Every variable keeps its type (on_net.py, merchant_api.py).
THEOREM TypeCorrect == Spec => []TypeOK
BY InitType, TypeStep, PTL DEF Spec

-----------------------------------------------------------------------------
(* The state never runs ahead of the ledger *)

LEMMA InvStep == ASSUME OnNetInv, [Next]_vars PROVE OnNetInv'
<1>0. TypeOK /\ TypeOK' /\ BookedFirst /\ PaidIsBooked
  BY TypeStep DEF OnNetInv
<1>t. /\ rows \in [Tx -> TxState \cup {None}] /\ posted \in [Tx -> Nat]
      /\ pc \in [RouteThreads -> Place]
      /\ job \in [RouteThreads -> Job \cup {None}]
  BY <1>0 DEF TypeOK
<1> DEFINE Kept == BookedFirst' /\ PaidIsBooked'
<1>1. ASSUME NEW w \in RouteThreads, NEW t \in Tx, Start(w, t) PROVE Kept
  <2>1. PaidIsBooked'
    BY <1>0, <1>1, <1>t DEF Start, PaidIsBooked
  <2>2. BookedFirst'
    BY <1>0, <1>1, <1>t DEF Start, Goto, BookedFirst
  <2>3. QED
    BY <2>1, <2>2
<1>2. ASSUME NEW w \in RouteThreads, Await(w) PROVE Kept
  <2>1. PICK t \in Tx : t = job[w].tx
    BY <1>0, <1>2, AtWork DEF Await
  <2>2. PaidIsBooked'
    BY <1>0, <1>2, <1>t, <2>1 DEF Await, PaidIsBooked
  <2>3. BookedFirst'
    BY <1>0, <1>2, <1>t DEF Await, Return, Goto, BookedFirst
  <2>4. QED
    BY <2>2, <2>3
<1>3. ASSUME NEW w \in RouteThreads, NEW t \in Tx, NEW received \in BOOLEAN,
             Confirm(w, t, received)
      PROVE  Kept
  BY <1>0, <1>3, <1>t DEF Confirm, Goto, BookedFirst, PaidIsBooked
<1>4. ASSUME NEW w \in RouteThreads, Load(w) PROVE Kept
  BY <1>0, <1>4, <1>t DEF Load, Goto, BookedFirst, PaidIsBooked
<1>5. ASSUME NEW w \in RouteThreads, Book(w) PROVE Kept
  <2>1. PICK t \in Tx : t = job[w].tx
    BY <1>0, <1>5, AtWork DEF Book
  <2>2. /\ posted' = [posted EXCEPT ![t] = posted[t] + 1]
        /\ UNCHANGED <<rows, job>> /\ pc' = [pc EXCEPT ![w] = "resolve"]
    BY <1>5, <2>1 DEF Book, Goto
  <2>3. posted'[t] > 0
    BY <1>t, <2>2
  <2>4. \A u \in Tx : posted[u] > 0 => posted'[u] > 0
    BY <1>t, <2>2, <2>3
  <2>5. PaidIsBooked'
    BY <1>0, <2>2, <2>4 DEF PaidIsBooked
  <2>6. ASSUME NEW v \in RouteThreads, pc'[v] = "resolve", job'[v].received
        PROVE  posted'[job'[v].tx] > 0
    <3>1. CASE v = w
      BY <2>1, <2>2, <2>3, <3>1
    <3>2. CASE v # w
      <4>1. pc[v] = "resolve" /\ job[v].received
        BY <1>t, <2>2, <2>6, <3>2
      <4>2. job[v].tx \in Tx /\ posted[job[v].tx] > 0
        BY <1>0, <4>1, AtWork DEF BookedFirst
      <4>3. QED
        BY <2>2, <2>4, <4>2
    <3>3. QED
      BY <3>1, <3>2
  <2>7. QED
    BY <2>5, <2>6 DEF BookedFirst
<1>6. ASSUME NEW w \in RouteThreads, Resolve(w) PROVE Kept
  <2>1. PICK t \in Tx : t = job[w].tx
    BY <1>0, <1>6, AtWork DEF Resolve
  <2>2. rows'[t] # rows[t] /\ rows'[t] = "payout_succeeded" => job[w].received
    BY <1>0, <1>6, <1>t, <2>1, AtWork DEF Resolve
  <2>3. job[w].received => posted[t] > 0
    BY <1>0, <1>6, <2>1 DEF BookedFirst, Resolve
  <2>4. \A u \in Tx \ {t} : rows'[u] = rows[u]
    BY <1>6, <1>t, <2>1 DEF Resolve
  <2>5. UNCHANGED posted
    BY <1>6 DEF Resolve
  <2>6. PaidIsBooked'
    BY <1>0, <2>2, <2>3, <2>4, <2>5 DEF PaidIsBooked
  <2>7. BookedFirst'
    BY <1>0, <1>6, <1>t DEF Resolve, Return, Goto, BookedFirst
  <2>8. QED
    BY <2>6, <2>7
<1>7. ASSUME Crash PROVE Kept
  BY <1>0, <1>7, <1>t DEF Crash, BookedFirst, PaidIsBooked
<1>8. ASSUME UNCHANGED vars PROVE Kept
  BY <1>0, <1>8 DEF vars, BookedFirst, PaidIsBooked
<1>9. Kept
  BY <1>1, <1>2, <1>3, <1>4, <1>5, <1>6, <1>7, <1>8 DEF Next
<1>10. QED
  BY <1>0, <1>9 DEF OnNetInv

LEMMA InvAlways == Spec => []OnNetInv
<1>1. Init => OnNetInv
  BY InitType, OnNetAssumption, StatesNamed DEF Init, OnNetInv, BookedFirst, PaidIsBooked
<1>2. QED
  BY <1>1, InvStep, PTL DEF Spec

\* A payment stored as paid has its posting, for any overlap of confirmations,
\* denials and crashes (on_confirm posts before the transition).
THEOREM PaidStaysBooked == Spec => []PaidIsBooked
BY InvAlways, PTL DEF OnNetInv

-----------------------------------------------------------------------------
(* With nobody else at work *)

LEMMA SoleMember ==
  ASSUME NEW S, IsFiniteSet(S), ~(Cardinality(S) > 1)
  PROVE  \A x, y \in S : x = y
<1>1. Cardinality(S) = 0 \/ Cardinality(S) = 1
  BY FS_CardinalityType
<1>2. S = {} \/ \E z : S = {z}
  BY <1>1, FS_EmptySet, FS_Singleton
<1>3. QED
  BY <1>2

\* The history keeps the payments that were overlapped on.
LEMMA StaysUndisturbed ==
  ASSUME MCNext, NEW t \in Tx \ disturbed'
  PROVE  /\ t \notin disturbed
         /\ \A v, w \in At(t)' : v = w
         /\ faults' # faults => At(t) = {}
<1>1. /\ t \notin disturbed /\ ~(Cardinality(At(t)') > 1)
      /\ faults' # faults => At(t) = {}
  BY DEF MCNext
<1>2. IsFiniteSet(At(t)')
  BY ThreadPoolAssumption, FS_Subset DEF At
<1>3. QED
  BY <1>1, <1>2, SoleMember

\* A step of thread w that leaves payment t alone, before and after.
LEMMA OthersPayment ==
  ASSUME NEW w \in RouteThreads, NEW t \in Tx, Undisturbed(t),
         w \notin At(t), w \notin At(t)',
         rows'[t] = rows[t], posted'[t] = posted[t],
         \A v \in RouteThreads \ {w} : pc'[v] = pc[v] /\ job'[v] = job[v] /\ mem'[v] = mem[v]
  PROVE  Undisturbed(t)'
<1>1. \A v \in RouteThreads : v \in At(t)' <=> v \in At(t)
  BY DEF At
<1>2. At(t)' = At(t)
  BY <1>1 DEF At
<1>3. ASSUME NEW v \in At(t) PROVE WorksAlone(v)'
  <2>1. WorksAlone(v) /\ v \in RouteThreads \ {w} /\ job[v].tx = t
    BY <1>3 DEF Undisturbed, At
  <2>2. QED
    BY <2>1 DEF WorksAlone
<1>4. QED
  BY <1>2, <1>3 DEF Undisturbed

\* A step of thread w on its payment t: nobody else is at work on it after.
LEMMA OwnPayment ==
  ASSUME NEW w \in RouteThreads, NEW t \in Tx,
         \A v \in At(t)' : v = w,
         w \in At(t)' => WorksAlone(w)',
         w \notin At(t)' => posted'[t] = IF rows'[t] = "payout_succeeded" THEN 1 ELSE 0
  PROVE  Undisturbed(t)'
<1>1. w \notin At(t)' => At(t)' = {}
  OBVIOUS
<1>2. \A v \in At(t)' : WorksAlone(v)'
  OBVIOUS
<1>3. QED
  BY <1>1, <1>2 DEF Undisturbed

LEMMA HistoryStep == ASSUME HistoryInv, MCNext PROVE HistoryInv'
<1>0. /\ TypeOK /\ TypeOK' /\ OnNetInv /\ OnNetInv'
      /\ \A w \in RouteThreads : pc[w] = "idle" <=> job[w] = None
      /\ \A t \in Tx \ disturbed : Undisturbed(t)
  BY TypeStep, InvStep DEF HistoryInv, OnNetInv, MCNext
<1>t. /\ rows \in [Tx -> TxState \cup {None}] /\ posted \in [Tx -> Nat]
      /\ pc \in [RouteThreads -> Place]
      /\ job \in [RouteThreads -> Job \cup {None}]
      /\ mem \in [RouteThreads -> TxState \cup {None}]
  BY <1>0 DEF TypeOK
<1>a. \A w \in RouteThreads, t \in Tx : w \in At(t) <=> pc[w] # "idle" /\ job[w].tx = t
  BY <1>0 DEF At
<1>b. \A t \in Tx, v, w \in RouteThreads :
        t \notin disturbed' /\ pc[w] # "idle" /\ job[w].tx = t
          => /\ WorksAlone(w)
             /\ pc[v] # "idle" /\ job[v].tx = t => v = w
  BY <1>0, <1>a DEF Undisturbed, MCNext
<1>c. \A t \in Tx : t \notin disturbed' =>
        t \notin disturbed /\ Undisturbed(t) /\ (\A v, w \in At(t)' : v = w)
                           /\ (faults' # faults => At(t) = {})
  BY <1>0, StaysUndisturbed
<1> DEFINE Kept == /\ \A w \in RouteThreads : pc'[w] = "idle" <=> job'[w] = None
                   /\ \A t \in Tx \ disturbed' : Undisturbed(t)'
<1>1. ASSUME NEW w \in RouteThreads, NEW t \in Tx, Start(w, t) PROVE Kept
  <2>1. /\ pc[w] = "idle" /\ rows[t] = None /\ UNCHANGED posted
        /\ rows' = [rows EXCEPT ![t] = "initiated"]
        /\ job' = [job EXCEPT ![w] = [tx |-> t, received |-> FALSE]]
        /\ mem' = [mem EXCEPT ![w] = "initiated"]
        /\ pc' = [pc EXCEPT ![w] = "await"]
    BY <1>1 DEF Start, Goto
  <2>2. [tx |-> t, received |-> FALSE] # None
    <3>1. FALSE \in BOOLEAN
      OBVIOUS
    <3>2. [tx |-> t, received |-> FALSE] \in Job
      BY <3>1 DEF Job
    <3>3. QED
      BY <3>2, OnNetAssumption
  <2>3. \A v \in RouteThreads : pc'[v] = "idle" <=> job'[v] = None
    BY <1>0, <1>t, <2>1, <2>2
  <2>4. ASSUME NEW u \in Tx \ disturbed', u # t PROVE Undisturbed(u)'
    BY <1>a, <1>c, <1>t, <2>1, <2>4, OthersPayment DEF At
  <2>5. ASSUME t \notin disturbed' PROVE Undisturbed(t)'
    <3>1. w \in At(t)' /\ \A v \in At(t)' : v = w
      BY <1>c, <1>t, <2>1, <2>2, <2>5 DEF At
    <3>2. posted[t] = 0
      <4>1. At(t) = {}
        BY <1>0, <1>a, <2>1, AtWork, OnNetAssumption DEF At
      <4>2. QED
        BY <1>c, <2>1, <2>5, <4>1, StatesNamed, OnNetAssumption DEF Undisturbed
    <3>3. WorksAlone(w)'
      BY <1>t, <2>1, <3>2 DEF WorksAlone
    <3>4. QED
      BY <3>1, <3>3, OwnPayment
  <2>6. QED
    BY <2>3, <2>4, <2>5
<1>2. ASSUME NEW w \in RouteThreads, Await(w) PROVE Kept
  <2>1. PICK t \in Tx : t = job[w].tx
    BY <1>0, <1>2, AtWork DEF Await
  <2>2. /\ pc[w] = "await" /\ UNCHANGED posted
        /\ rows' = [rows EXCEPT ![t] = "collection_pending"]
        /\ job' = [job EXCEPT ![w] = None]
        /\ mem' = [mem EXCEPT ![w] = None]
        /\ pc' = [pc EXCEPT ![w] = "idle"]
    BY <1>2, <2>1 DEF Await, Return, Goto
  <2>3. \A v \in RouteThreads : pc'[v] = "idle" <=> job'[v] = None
    BY <1>0, <1>t, <2>2
  <2>4. ASSUME NEW u \in Tx \ disturbed', u # t PROVE Undisturbed(u)'
    BY <1>a, <1>c, <1>t, <2>1, <2>2, <2>4, OthersPayment DEF At
  <2>5. ASSUME t \notin disturbed' PROVE Undisturbed(t)'
    <3>1. posted[t] = 0
      BY <1>b, <2>1, <2>2, <2>5 DEF WorksAlone
    <3>2. w \notin At(t)' /\ \A v \in At(t)' : v = w
      BY <1>b, <1>0, <1>t, <2>1, <2>2, <2>5 DEF At
    <3>3. QED
      BY <1>t, <2>2, <3>1, <3>2, OwnPayment
  <2>6. QED
    BY <2>3, <2>4, <2>5
<1>3. ASSUME NEW w \in RouteThreads, NEW t \in Tx, NEW received \in BOOLEAN,
             Confirm(w, t, received)
      PROVE  Kept
  <2>1. /\ pc[w] = "idle" /\ rows[t] = "collection_pending"
        /\ job' = [job EXCEPT ![w] = [tx |-> t, received |-> received]]
        /\ pc' = [pc EXCEPT ![w] = "load"]
        /\ UNCHANGED <<rows, posted, mem>>
    BY <1>3 DEF Confirm, Goto
  <2>2. [tx |-> t, received |-> received] # None
    BY OnNetAssumption DEF Job
  <2>3. \A v \in RouteThreads : pc'[v] = "idle" <=> job'[v] = None
    BY <1>0, <1>t, <2>1, <2>2
  <2>4. ASSUME NEW u \in Tx \ disturbed', u # t PROVE Undisturbed(u)'
    BY <1>a, <1>c, <1>t, <2>1, <2>4, OthersPayment DEF At
  <2>5. ASSUME t \notin disturbed' PROVE Undisturbed(t)'
    <3>1. w \in At(t)' /\ \A v \in At(t)' : v = w
      BY <1>c, <1>t, <2>1, <2>2, <2>5 DEF At
    <3>2. At(t) = {}
      <4>1. \A v \in At(t) : v # w /\ v \in At(t)'
        BY <1>a, <1>t, <2>1 DEF At
      <4>2. QED
        BY <3>1, <4>1
    <3>3. posted[t] = 0
      BY <1>c, <2>1, <2>5, <3>2 DEF Undisturbed
    <3>4. WorksAlone(w)'
      BY <1>t, <2>1, <3>3 DEF WorksAlone
    <3>5. QED
      BY <3>1, <3>4, OwnPayment
  <2>6. QED
    BY <2>3, <2>4, <2>5
<1>4. ASSUME NEW w \in RouteThreads, Load(w) PROVE Kept
  <2>1. PICK t \in Tx : t = job[w].tx
    BY <1>0, <1>4, AtWork DEF Load
  <2>2. /\ pc[w] = "load" /\ UNCHANGED <<rows, posted, job>>
        /\ mem' = [mem EXCEPT ![w] = rows[t]]
        /\ pc' = [pc EXCEPT ![w] = IF job[w].received THEN "book" ELSE "resolve"]
    BY <1>4, <2>1 DEF Load, Goto
  <2>3. \A v \in RouteThreads : pc'[v] = "idle" <=> job'[v] = None
    BY <1>0, <1>t, <2>2
  <2>4. ASSUME NEW u \in Tx \ disturbed', u # t PROVE Undisturbed(u)'
    BY <1>a, <1>c, <1>t, <2>1, <2>2, <2>4, OthersPayment DEF At
  <2>5. ASSUME t \notin disturbed' PROVE Undisturbed(t)'
    <3>1. rows[t] = "collection_pending" /\ posted[t] = 0
      BY <1>b, <2>1, <2>2, <2>5 DEF WorksAlone
    <3>2. w \in At(t)' /\ \A v \in At(t)' : v = w
      BY <1>a, <1>c, <1>0, <1>t, <2>1, <2>2, <2>5 DEF At
    <3>3. WorksAlone(w)'
      BY <1>t, <2>1, <2>2, <3>1 DEF WorksAlone
    <3>4. QED
      BY <3>2, <3>3, OwnPayment
  <2>6. QED
    BY <2>3, <2>4, <2>5
<1>5. ASSUME NEW w \in RouteThreads, Book(w) PROVE Kept
  <2>1. PICK t \in Tx : t = job[w].tx
    BY <1>0, <1>5, AtWork DEF Book
  <2>2. /\ pc[w] = "book" /\ UNCHANGED <<rows, job, mem>>
        /\ posted' = [posted EXCEPT ![t] = posted[t] + 1]
        /\ pc' = [pc EXCEPT ![w] = "resolve"]
    BY <1>5, <2>1 DEF Book, Goto
  <2>3. \A v \in RouteThreads : pc'[v] = "idle" <=> job'[v] = None
    BY <1>0, <1>t, <2>2
  <2>4. ASSUME NEW u \in Tx \ disturbed', u # t PROVE Undisturbed(u)'
    BY <1>a, <1>c, <1>t, <2>1, <2>2, <2>4, OthersPayment DEF At
  <2>5. ASSUME t \notin disturbed' PROVE Undisturbed(t)'
    <3>1. /\ rows[t] = "collection_pending" /\ mem[w] = "collection_pending"
          /\ job[w].received /\ posted[t] = 0
      BY <1>b, <2>1, <2>2, <2>5 DEF WorksAlone
    <3>2. w \in At(t)' /\ \A v \in At(t)' : v = w
      BY <1>a, <1>c, <1>0, <1>t, <2>1, <2>2, <2>5 DEF At
    <3>3. WorksAlone(w)'
      BY <1>t, <2>1, <2>2, <3>1 DEF WorksAlone
    <3>4. QED
      BY <3>2, <3>3, OwnPayment
  <2>6. QED
    BY <2>3, <2>4, <2>5
<1>6. ASSUME NEW w \in RouteThreads, Resolve(w) PROVE Kept
  <2>1. PICK t \in Tx : t = job[w].tx
    BY <1>0, <1>6, AtWork DEF Resolve
  <2>2. /\ pc[w] = "resolve" /\ UNCHANGED posted
        /\ job' = [job EXCEPT ![w] = None]
        /\ mem' = [mem EXCEPT ![w] = None]
        /\ pc' = [pc EXCEPT ![w] = "idle"]
    BY <1>6, <2>1 DEF Resolve, Return, Goto
  <2>3. \A v \in RouteThreads : pc'[v] = "idle" <=> job'[v] = None
    BY <1>0, <1>t, <2>2
  <2>4. ASSUME NEW u \in Tx \ disturbed', u # t PROVE Undisturbed(u)'
    <3>1. rows'[u] = rows[u]
      BY <1>6, <1>t, <2>1, <2>4 DEF Resolve
    <3>2. QED
      BY <1>a, <1>c, <1>t, <2>1, <2>2, <2>4, <3>1, OthersPayment DEF At
  <2>5. ASSUME t \notin disturbed' PROVE Undisturbed(t)'
    <3>1. /\ mem[w] = "collection_pending"
          /\ job[w].received => posted[t] = 1
          /\ ~job[w].received => posted[t] = 0
      BY <1>b, <2>1, <2>2, <2>5 DEF WorksAlone
    <3>2. rows'[t] = IF job[w].received THEN "payout_succeeded" ELSE "collection_failed"
      BY <1>6, <1>t, <2>1, <3>1, AnswersLegal DEF Resolve
    <3>3. w \notin At(t)' /\ \A v \in At(t)' : v = w
      BY <1>b, <1>0, <1>t, <2>1, <2>2, <2>5 DEF At
    <3>4. QED
      BY <2>2, <3>1, <3>2, <3>3, OwnPayment
  <2>6. QED
    BY <2>3, <2>4, <2>5
<1>7. ASSUME Crash PROVE Kept
  <2>1. /\ faults' # faults /\ UNCHANGED <<rows, posted>>
        /\ \A w \in RouteThreads : pc'[w] = "idle" /\ job'[w] = None
    BY <1>7, <1>0, OnNetAssumption DEF Crash, TypeOK
  <2>2. ASSUME NEW t \in Tx \ disturbed' PROVE Undisturbed(t)'
    <3>1. At(t) = {} /\ At(t)' = {} /\ Undisturbed(t)
      BY <1>c, <2>1 DEF At
    <3>2. QED
      BY <2>1, <3>1 DEF Undisturbed
  <2>3. QED
    BY <2>1, <2>2
<1>8. Kept
  BY <1>1, <1>2, <1>3, <1>4, <1>5, <1>6, <1>7 DEF Next, MCNext
<1>9. QED
  BY <1>0, <1>8 DEF HistoryInv

LEMMA HistoryAlways == MCSpec => []HistoryInv
<1>1. MCInit => HistoryInv
  <2> SUFFICES ASSUME MCInit PROVE HistoryInv
    OBVIOUS
  <2>1. OnNetInv
    BY InitType, OnNetAssumption, StatesNamed
       DEF MCInit, Init, OnNetInv, BookedFirst, PaidIsBooked
  <2>2. \A t \in Tx : At(t) = {} /\ rows[t] # "payout_succeeded" /\ posted[t] = 0
    BY OnNetAssumption, StatesNamed DEF MCInit, Init, At
  <2>3. QED
    BY <2>1, <2>2 DEF MCInit, Init, HistoryInv, Undisturbed
<1>2. HistoryInv /\ UNCHANGED <<vars, disturbed>> => HistoryInv'
  BY DEF vars, HistoryInv, OnNetInv, TypeOK, BookedFirst, PaidIsBooked, Undisturbed, At,
         WorksAlone
<1>3. HistoryInv /\ [MCNext]_<<vars, disturbed>> => HistoryInv'
  BY <1>2, HistoryStep
<1>4. QED
  BY <1>1, <1>3, PTL DEF MCSpec

\* What an undisturbed payment's books say, whoever is at work on it.
LEMMA UndisturbedBooks ==
  ASSUME HistoryInv, NEW t \in Tx \ disturbed
  PROVE  posted[t] <= 1 /\ (rows[t] = "collection_failed" => posted[t] = 0)
<1>1. Undisturbed(t) /\ posted[t] \in Nat
  BY DEF HistoryInv, OnNetInv, TypeOK
<1>2. CASE At(t) = {}
  BY <1>1, <1>2 DEF Undisturbed
<1>3. ASSUME NEW w \in At(t)
      PROVE  posted[t] <= 1 /\ rows[t] # "collection_failed"
  <2>1. WorksAlone(w) /\ job[w].tx = t
    BY <1>1, <1>3 DEF Undisturbed, At
  <2>2. QED
    BY <2>1 DEF WorksAlone
<1>4. QED
  BY <1>2, <1>3

\* An on-net payment is booked once at most, however often it is confirmed and
\* denied, unless two requests worked on it at a time or one died over it.
THEOREM BookedOnceUndisturbed == MCSpec => []BookedOnce
<1>1. HistoryInv => BookedOnce
  BY UndisturbedBooks DEF BookedOnce
<1>2. QED
  BY <1>1, HistoryAlways, PTL

\* A denied payment is not in the books, under the same proviso.
THEOREM DeniedUnbookedUndisturbed == MCSpec => []DeniedIsUnbooked
<1>1. HistoryInv => DeniedIsUnbooked
  BY UndisturbedBooks DEF DeniedIsUnbooked
<1>2. QED
  BY <1>1, HistoryAlways, PTL
=============================================================================
