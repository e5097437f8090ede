--------------------------- MODULE ChargesProofs ---------------------------
(***************************************************************************)
(* For any number of charges, payments, threads and faults: a charge shows *)
(* a payment of its own, and one that no two pays overlapped on is charged *)
(* once and says what became of it.                                        *)
(***************************************************************************)
EXTENDS MCCharges, FiniteSetTheorems, TLAPS

-----------------------------------------------------------------------------
(* The invariants *)

\* A thread past the start holds a payment of its charge that no other thread
\* holds; it is collected before it is linked.
HoldsOwnPayment ==
  /\ \A w \in RouteThreads :
       /\ pc[w] \in {"collect", "link"} => paying[tx[w]] = job[w]
       /\ pc[w] = "collect" => rows[tx[w]] = "initiated"
       /\ pc[w] = "link" => rows[tx[w]] # "initiated"
  /\ \A v, w \in RouteThreads :
       {pc[v], pc[w]} \subseteq {"collect", "link"} /\ tx[v] = tx[w] => v = w

ChargesInv ==
  /\ TypeOK
  /\ HoldsOwnPayment
  /\ ShowsOwnPayment

\* The payments that claim a charge, as far as a thread alone on it knows: those
\* it names, none once the thread has found it payable, then the thread's own.
WorksAlone(w) ==
  LET c == job[w]
  IN /\ pc[w] = "check" => tx[w] = link[c] /\ Claims(c) \subseteq {link[c]}
     /\ pc[w] = "start" => Claims(c) = {}
     /\ pc[w] \in {"collect", "link"} => Claims(c) \subseteq {tx[w]}

Undisturbed(c) ==
  /\ \A v, w \in At(c) : v = w
  /\ \A w \in At(c) : WorksAlone(w)
  /\ At(c) = {} => Claims(c) \subseteq {link[c]}

HistoryInv ==
  /\ ChargesInv
  /\ \A w \in RouteThreads : pc[w] = "idle" => job[w] = None
  /\ \A t \in Tx : paying[t] \in Created \cup {None}
  /\ \A c \in Created \ disturbed : Undisturbed(c)

-----------------------------------------------------------------------------
(* Types *)

LEMMA StatesNamed ==
  TxState = {"initiated", "collection_pending", "collection_succeeded",
             "collection_failed", "payout_pending", "payout_succeeded",
             "payout_failed", "refund_pending", "refunded", "manual_review"}
BY DEF TxState, Transitions

\* No payment is ever initiated again, and a declined one stays declined.
LEMMA TableMovesOn ==
  ASSUME NEW s \in TxState
  PROVE  /\ Transitions[s] \subseteq TxState \ {"initiated"}
         /\ Transitions["collection_failed"] = {}
BY StatesNamed DEF Transitions

\* What a thread at work holds.
LEMMA AtWork ==
  ASSUME TypeOK, NEW w \in RouteThreads, pc[w] # "idle"
  PROVE  /\ job[w] \in Created /\ job[w] \in Charge /\ job[w] # None
         /\ pc[w] \in {"collect", "link"} => tx[w] \in Tx /\ tx[w] # None /\ rows[tx[w]] \in TxState
BY ChargesAssumption DEF TypeOK

LEMMA InitType == Init => TypeOK
BY ChargesAssumption DEF Init, TypeOK, Created, Place

\* A step of thread w, which forgets no charge and no payment.
LEMMA TypeFrame ==
  ASSUME TypeOK, NEW w \in RouteThreads,
         UNCHANGED link \/ \E c \in Created, t \in Tx : link' = [link EXCEPT ![c] = t],
         rows' \in [Tx -> TxState \cup {None}],
         paying' \in [Tx -> Charge \cup {None}],
         pc' \in [RouteThreads -> Place],
         job' \in [RouteThreads -> Charge \cup {None}],
         tx' \in [RouteThreads -> Tx \cup {None}],
         faults' \in 0..MaxFaults,
         \A v \in RouteThreads \ {w} : pc'[v] = pc[v] /\ job'[v] = job[v] /\ tx'[v] = tx[v],
         \A t \in Tx : rows[t] # None => rows'[t] # None,
         pc'[w] # "idle" => job'[w] \in Created,
         pc'[w] \in {"collect", "link"} => tx'[w] \in Tx /\ rows'[tx'[w]] # None
  PROVE  TypeOK'
<1>1. Created' = Created /\ link' \in [Created -> Tx \cup {None}] /\ Created \subseteq Charge
  BY DEF TypeOK, Created
<1>2. \A v \in RouteThreads :
        /\ pc'[v] # "idle" => job'[v] \in Created
        /\ pc'[v] \in {"collect", "link"} => tx'[v] \in Tx /\ rows'[tx'[v]] # None
  BY DEF TypeOK
<1>3. QED
  BY <1>1, <1>2 DEF TypeOK

LEMMA TypeStep == ASSUME TypeOK, [Next]_vars PROVE TypeOK'
<1>0. /\ Created \subseteq Charge /\ link \in [Created -> Tx \cup {None}]
      /\ rows \in [Tx -> TxState \cup {None}]
      /\ paying \in [Tx -> Charge \cup {None}]
      /\ pc \in [RouteThreads -> Place]
      /\ job \in [RouteThreads -> Charge \cup {None}]
      /\ tx \in [RouteThreads -> Tx \cup {None}]
      /\ faults \in 0..MaxFaults
  BY DEF TypeOK
<1>p. Place = {"idle", "check", "start", "collect", "link"}
  BY DEF Place
<1>s. {"initiated", "collection_pending", "collection_failed"} \subseteq TxState /\ None \notin TxState
  BY StatesNamed, ChargesAssumption
<1>1. ASSUME NEW c \in Charge, CreateCharge(c) PROVE TypeOK'
  <2>1. /\ link' = [d \in Created \cup {c} |-> IF d = c THEN None ELSE link[d]]
        /\ UNCHANGED <<rows, paying, pc, job, tx, faults>>
    BY <1>1 DEF CreateCharge
  <2>2. Created' = Created \cup {c}
    BY <2>1 DEF Created
  <2>3. link' \in [Created' -> Tx \cup {None}]
    BY <1>0, <2>1, <2>2
  <2>4. QED
    BY <1>0, <2>1, <2>2, <2>3 DEF TypeOK
<1>2. ASSUME NEW w \in RouteThreads, NEW c \in Charge, Pay(w, c) PROVE TypeOK'
  BY <1>0, <1>2, <1>p, TypeFrame DEF Pay, Goto
<1>3. ASSUME NEW w \in RouteThreads, Check(w) PROVE TypeOK'
  <2>1. job[w] \in Created /\ UNCHANGED <<link, rows, paying, faults>>
    BY <1>3, AtWork DEF Check
  <2>2. CASE Goto(w, "start") /\ UNCHANGED <<job, tx>>
    BY <1>0, <1>p, <2>1, <2>2, TypeFrame DEF Goto
  <2>3. CASE Return(w)
    BY <1>0, <1>p, <2>1, <2>3, TypeFrame DEF Return, Goto
  <2>4. QED
    BY <1>3, <2>2, <2>3 DEF Check
<1>4. ASSUME NEW w \in RouteThreads, NEW t \in Tx, Start(w, t) PROVE TypeOK'
  <2>1. job[w] \in Created
    BY <1>4, AtWork DEF Start
  <2>2. QED
    BY <1>0, <1>4, <1>p, <1>s, <2>1, TypeFrame DEF Start, Goto
<1>5. ASSUME NEW w \in RouteThreads, Collect(w) PROVE TypeOK'
  <2>1. PICK t \in Tx : t = tx[w] /\ job[w] \in Created
    BY <1>5, AtWork DEF Collect
  <2>2. PICK s \in TxState : rows' = [rows EXCEPT ![t] = s]
    BY <1>5, <1>s, <2>1 DEF Collect
  <2>3. /\ pc' = [pc EXCEPT ![w] = "link"] /\ UNCHANGED <<link, paying, job, tx, faults>>
    BY <1>5 DEF Collect, Goto
  <2>4. QED
    BY <1>0, <1>p, <1>s, <2>1, <2>2, <2>3, TypeFrame
<1>6. ASSUME NEW w \in RouteThreads, Link(w) PROVE TypeOK'
  <2>1. job[w] \in Created /\ tx[w] \in Tx
    BY <1>6, AtWork DEF Link
  <2>2. QED
    BY <1>0, <1>6, <1>p, <2>1, TypeFrame DEF Link, SaveCharge, Return, Goto
<1>7. ASSUME NEW w \in RouteThreads, StartRaises(w) PROVE TypeOK'
  <2>1. faults' \in 0..MaxFaults /\ UNCHANGED <<link, paying>> /\ Return(w)
    BY <1>0, <1>7, ChargesAssumption DEF StartRaises
  <2>2. /\ rows' \in [Tx -> TxState \cup {None}]
        /\ \A t \in Tx : rows[t] # None => rows'[t] # None
    <3>1. CASE UNCHANGED rows
      BY <1>0, <3>1
    <3>2. CASE pc[w] = "collect" /\ rows' = [rows EXCEPT ![tx[w]] = "collection_pending"]
      BY <1>0, <1>s, <3>2
    <3>3. QED
      BY <1>7, <3>1, <3>2 DEF StartRaises
  <2>3. QED
    BY <1>0, <1>p, <2>1, <2>2, TypeFrame DEF Return, Goto
<1>8. ASSUME NEW t \in Tx, Progress(t) PROVE TypeOK'
  <2>1. PICK s \in TxState : rows' = [rows EXCEPT ![t] = s]
    BY <1>8, TableMovesOn DEF Progress
  <2>2. UNCHANGED <<link, paying, pc, job, tx, faults>> /\ Created' = Created
    BY <1>8 DEF Progress, Created
  <2>3. \A u \in Tx : rows[u] # None => rows'[u] # None
    BY <1>0, <1>s, <2>1
  <2>4. rows' \in [Tx -> TxState \cup {None}]
    BY <1>0, <2>1
  <2>5. QED
    BY <2>2, <2>3, <2>4 DEF TypeOK
<1>9. CASE Crash
  <2>1. faults' \in 0..MaxFaults /\ Created' = Created
    BY <1>0, <1>9, ChargesAssumption DEF Crash, Created
  <2>2. QED
    BY <1>0, <1>9, <1>p, <2>1 DEF Crash, TypeOK
<1>10. CASE UNCHANGED vars
  BY <1>10 DEF vars, TypeOK, Created
<1>11. QED
  BY <1>1, <1>2, <1>3, <1>4, <1>5, <1>6, <1>7, <1>8, <1>9, <1>10 DEF Next

\* Every variable keeps its type; a thread past the start holds a stored payment.
THEOREM TypeCorrect == Spec => []TypeOK
BY InitType, TypeStep, PTL DEF Spec

-----------------------------------------------------------------------------
(* A charge shows its own payment *)

\* A step that leaves the links alone, and the payments that have begun.
LEMMA ShownFrame ==
  ASSUME TypeOK, ShowsOwnPayment, UNCHANGED link,
         \A t \in Tx : rows[t] \in TxState \ {"initiated"} =>
           rows'[t] \in TxState \ {"initiated"} /\ paying'[t] = paying[t]
  PROVE  ShowsOwnPayment'
<1>1. Created' = Created /\ \A c \in Created : link[c] # None => link[c] \in Tx
  BY DEF Created, TypeOK
<1>2. QED
  BY <1>1 DEF ShowsOwnPayment

\* A step in which no thread comes to hold a payment.
LEMMA HeldFrame ==
  ASSUME TypeOK, HoldsOwnPayment, UNCHANGED paying,
         \A v \in RouteThreads : pc'[v] \in {"collect", "link"} =>
           pc'[v] = pc[v] /\ job'[v] = job[v] /\ tx'[v] = tx[v] /\ rows'[tx[v]] = rows[tx[v]]
  PROVE  HoldsOwnPayment'
BY DEF HoldsOwnPayment

LEMMA InvStep == ASSUME ChargesInv, [Next]_vars PROVE ChargesInv'
<1>0. TypeOK /\ TypeOK' /\ HoldsOwnPayment /\ ShowsOwnPayment
  BY TypeStep DEF ChargesInv
<1>t. /\ link \in [Created -> Tx \cup {None}]
      /\ rows \in [Tx -> TxState \cup {None}]
      /\ paying \in [Tx -> Charge \cup {None}]
      /\ pc \in [RouteThreads -> Place]
      /\ job \in [RouteThreads -> Charge \cup {None}]
      /\ tx \in [RouteThreads -> Tx \cup {None}]
  BY <1>0 DEF TypeOK
<1>s. /\ {"initiated", "collection_pending", "collection_failed"} \subseteq TxState
      /\ None \notin TxState /\ None \notin Tx
  BY StatesNamed, ChargesAssumption
<1>h. \A w \in RouteThreads :
        /\ pc[w] \in {"collect", "link"} => paying[tx[w]] = job[w] /\ tx[w] \in Tx
        /\ pc[w] = "collect" => rows[tx[w]] = "initiated"
        /\ pc[w] = "link" => rows[tx[w]] \in TxState \ {"initiated"}
        /\ \A v \in RouteThreads :
             {pc[v], pc[w]} \subseteq {"collect", "link"} /\ tx[v] = tx[w] => v = w
  BY <1>0, AtWork DEF HoldsOwnPayment
<1> DEFINE Kept == HoldsOwnPayment' /\ ShowsOwnPayment'
<1>1. ASSUME NEW c \in Charge, CreateCharge(c) PROVE Kept
  <2>1. /\ link' = [d \in Created \cup {c} |-> IF d = c THEN None ELSE link[d]]
        /\ UNCHANGED <<rows, paying, pc, job, tx>>
        /\ Created' = Created \cup {c}
    BY <1>1 DEF CreateCharge, Created
  <2>2. ShowsOwnPayment'
    BY <1>0, <2>1 DEF ShowsOwnPayment
  <2>3. QED
    BY <1>0, <2>1, <2>2, HeldFrame
<1>2. ASSUME NEW w \in RouteThreads, NEW c \in Charge, Pay(w, c) PROVE Kept
  BY <1>0, <1>2, <1>t, HeldFrame, ShownFrame DEF Pay, Goto
<1>3. ASSUME NEW w \in RouteThreads, Check(w) PROVE Kept
  BY <1>0, <1>3, <1>t, HeldFrame, ShownFrame DEF Check, Return, Goto
<1>4. ASSUME NEW w \in RouteThreads, NEW t \in Tx, Start(w, t) PROVE Kept
  <2>1. /\ rows[t] = None /\ rows' = [rows EXCEPT ![t] = "initiated"]
        /\ paying' = [paying EXCEPT ![t] = job[w]]
        /\ tx' = [tx EXCEPT ![w] = t] /\ pc' = [pc EXCEPT ![w] = "collect"]
        /\ UNCHANGED <<link, job>>
    BY <1>4 DEF Start, Goto
  <2>2. ShowsOwnPayment'
    BY <1>0, <1>s, <1>t, <2>1, ShownFrame
  <2>3. /\ paying'[t] = job'[w] /\ rows'[t] = "initiated" /\ tx'[w] = t /\ pc'[w] = "collect"
    BY <1>t, <2>1
  <2>4. ASSUME NEW v \in RouteThreads \ {w}, pc'[v] \in {"collect", "link"}
        PROVE  /\ pc'[v] = pc[v] /\ job'[v] = job[v] /\ tx'[v] = tx[v] /\ tx[v] # t
               /\ paying'[tx[v]] = paying[tx[v]] /\ rows'[tx[v]] = rows[tx[v]]
    <3>1. pc'[v] = pc[v] /\ tx'[v] = tx[v] /\ job'[v] = job[v]
      BY <1>t, <2>1, <2>4
    <3>2. tx[v] \in Tx /\ tx[v] # t
      BY <1>h, <1>s, <2>1, <2>4, <3>1
    <3>3. QED
      BY <1>t, <2>1, <3>1, <3>2
  <2>5. HoldsOwnPayment'
    BY <1>h, <2>3, <2>4 DEF HoldsOwnPayment
  <2>6. QED
    BY <2>2, <2>5
<1>5. ASSUME NEW w \in RouteThreads, Collect(w) PROVE Kept
  <2>1. PICK t \in Tx : t = tx[w]
    BY <1>5, <1>h DEF Collect
  <2>2. PICK s \in TxState \ {"initiated"} : rows' = [rows EXCEPT ![t] = s]
    BY <1>5, <1>s, <2>1 DEF Collect
  <2>3. /\ pc[w] = "collect" /\ pc' = [pc EXCEPT ![w] = "link"]
        /\ UNCHANGED <<link, paying, job, tx>>
    BY <1>5 DEF Collect, Goto
  <2>4. ShowsOwnPayment'
    BY <1>0, <1>t, <2>2, <2>3, ShownFrame
  <2>5. ASSUME NEW v \in RouteThreads \ {w}, pc'[v] \in {"collect", "link"}
        PROVE  pc'[v] = pc[v] /\ rows'[tx[v]] = rows[tx[v]]
    <3>1. pc'[v] = pc[v] /\ tx[v] \in Tx /\ tx[v] # t
      BY <1>h, <1>t, <2>1, <2>3, <2>5
    <3>2. QED
      BY <1>t, <2>2, <3>1
  <2>6. pc'[w] = "link" /\ rows'[tx[w]] # "initiated"
    BY <1>t, <2>1, <2>2, <2>3
  <2>7. HoldsOwnPayment'
    BY <1>h, <2>3, <2>5, <2>6 DEF HoldsOwnPayment
  <2>8. QED
    BY <2>4, <2>7
<1>6. ASSUME NEW w \in RouteThreads, Link(w) PROVE Kept
  <2>1. /\ pc[w] = "link" /\ link' = [link EXCEPT ![job[w]] = tx[w]]
        /\ pc' = [pc EXCEPT ![w] = "idle"] /\ UNCHANGED <<rows, paying>>
        /\ job' = [job EXCEPT ![w] = None] /\ tx' = [tx EXCEPT ![w] = None]
    BY <1>6 DEF Link, SaveCharge, Return, Goto
  <2>2. Created' = Created /\ paying[tx[w]] = job[w] /\ rows[tx[w]] \in TxState \ {"initiated"}
    BY <1>h, <2>1 DEF Created
  <2>3. ShowsOwnPayment'
    BY <1>0, <1>t, <2>1, <2>2 DEF ShowsOwnPayment
  <2>4. HoldsOwnPayment'
    BY <1>0, <1>t, <2>1, HeldFrame
  <2>5. QED
    BY <2>3, <2>4
<1>7. ASSUME NEW w \in RouteThreads, StartRaises(w) PROVE Kept
  <2>1. /\ pc[w] \in {"start", "collect"} /\ UNCHANGED <<link, paying>>
        /\ pc' = [pc EXCEPT ![w] = "idle"]
        /\ job' = [job EXCEPT ![w] = None] /\ tx' = [tx EXCEPT ![w] = None]
        /\ \/ UNCHANGED rows
           \/ pc[w] = "collect" /\ rows' = [rows EXCEPT ![tx[w]] = "collection_pending"]
    BY <1>7 DEF StartRaises, Return, Goto
  <2>2. \A t \in Tx : rows[t] \in TxState \ {"initiated"} => rows'[t] \in TxState \ {"initiated"}
    BY <1>s, <1>t, <2>1
  <2>3. ShowsOwnPayment'
    BY <1>0, <2>1, <2>2, ShownFrame
  <2>4. ASSUME NEW v \in RouteThreads, pc'[v] \in {"collect", "link"}
        PROVE  /\ pc'[v] = pc[v] /\ job'[v] = job[v] /\ tx'[v] = tx[v]
               /\ rows'[tx[v]] = rows[tx[v]]
    <3>1. v # w /\ pc'[v] = pc[v] /\ job'[v] = job[v] /\ tx'[v] = tx[v]
      BY <1>t, <2>1, <2>4
    <3>2. /\ tx[v] \in Tx
          /\ pc[w] = "collect" => tx[v] # tx[w] /\ tx[w] \in Tx
      BY <1>h, <2>4, <3>1
    <3>3. rows'[tx[v]] = rows[tx[v]]
      BY <1>t, <2>1, <3>2
    <3>4. QED
      BY <3>1, <3>3
  <2>5. QED
    BY <1>0, <2>1, <2>3, <2>4, HeldFrame
<1>8. ASSUME NEW t \in Tx, Progress(t) PROVE Kept
  <2>1. PICK s \in TxState \ {"initiated"} : rows' = [rows EXCEPT ![t] = s]
    BY <1>8, TableMovesOn DEF Progress
  <2>2. rows[t] \in TxState \ {"initiated"} /\ UNCHANGED <<link, paying, pc, job, tx>>
    BY <1>8 DEF Progress
  <2>3. ShowsOwnPayment'
    BY <1>0, <1>t, <2>1, <2>2, ShownFrame
  <2>4. \A v \in RouteThreads :
          /\ pc[v] = "collect" => rows'[tx[v]] = "initiated"
          /\ pc[v] = "link" => rows'[tx[v]] # "initiated"
    BY <1>h, <1>t, <2>1, <2>2
  <2>5. HoldsOwnPayment'
    BY <1>h, <2>2, <2>4 DEF HoldsOwnPayment
  <2>6. QED
    BY <2>3, <2>5
<1>9. ASSUME Crash PROVE Kept
  BY <1>0, <1>9, <1>t, HeldFrame, ShownFrame DEF Crash
<1>10. ASSUME UNCHANGED vars PROVE Kept
  BY <1>0, <1>10, HeldFrame, ShownFrame DEF vars
<1>11. Kept
  BY <1>1, <1>2, <1>3, <1>4, <1>5, <1>6, <1>7, <1>8, <1>9, <1>10 DEF Next
<1>12. QED
  BY <1>0, <1>11 DEF ChargesInv

LEMMA InitInv == Init => ChargesInv
BY InitType, ChargesAssumption
   DEF Init, ChargesInv, HoldsOwnPayment, ShowsOwnPayment, Created

LEMMA InvAlways == Spec => []ChargesInv
BY InitInv, InvStep, PTL DEF Spec

\* A charge shows a payment that was started for it and has begun, however its
\* pays overlap, raise or die (pay in public_routes.py, SqlChargeStore.save).
THEOREM ShowsItsOwn == Spec => []ShowsOwnPayment
BY InvAlways, PTL DEF ChargesInv

-----------------------------------------------------------------------------
(* With nobody else at work *)

LEMMA SoleMember ==
  ASSUME NEW S, IsFiniteSet(S), ~(Cardinality(S) > 1)
  PROVE  \A x, y \in S : x = y
<1>1. Cardinality(S) = 0 \/ Cardinality(S) = 1
  BY FS_CardinalityType
<1>2. S = {} \/ \E z : S = {z}
  BY <1>1, FS_EmptySet, FS_Singleton
<1>3. QED
  BY <1>2

LEMMA StaysUndisturbed ==
  ASSUME MCNext, NEW c \in Charge \ disturbed'
  PROVE  /\ c \notin disturbed
         /\ \A v, w \in At(c)' : v = w
         /\ faults' # faults /\ At(c) # {} => At(c)' = At(c)
<1>1. /\ c \notin disturbed /\ ~(Cardinality(At(c)') > 1)
      /\ faults' # faults /\ At(c) # {} => At(c)' = At(c)
  BY DEF MCNext, Dies
<1>2. IsFiniteSet(At(c)')
  BY ThreadPoolAssumption, FS_Subset DEF At
<1>3. QED
  BY <1>1, <1>2, SoleMember

\* A step that starts no payment lets no payment claim a charge.
LEMMA ClaimsShrink ==
  ASSUME UNCHANGED paying,
         \A t \in Tx : rows[t] = "collection_failed" => rows'[t] = "collection_failed"
  PROVE  \A c \in Charge : Claims(c)' \subseteq Claims(c)
BY DEF Claims

\* A step that leaves the threads of charge c and its link alone.
LEMMA OthersCharge ==
  ASSUME NEW c \in Charge, Undisturbed(c), Claims(c)' \subseteq Claims(c),
         link'[c] = link[c],
         \A v \in RouteThreads : (job[v] = c \/ job'[v] = c) =>
           pc'[v] = pc[v] /\ job'[v] = job[v] /\ tx'[v] = tx[v]
  PROVE  Undisturbed(c)'
<1>1. At(c)' = At(c)
  BY DEF At
<1>2. ASSUME NEW v \in At(c) PROVE WorksAlone(v)'
  <2>1. WorksAlone(v) /\ job[v] = c /\ pc'[v] = pc[v] /\ job'[v] = c /\ tx'[v] = tx[v]
    BY <1>2 DEF Undisturbed, At
  <2>2. QED
    BY <2>1 DEF WorksAlone
<1>3. QED
  BY <1>1, <1>2 DEF Undisturbed

\* A step of thread w on its charge c.
LEMMA OwnCharge ==
  ASSUME NEW w \in RouteThreads, NEW c \in Charge,
         \A v \in At(c)' : v = w,
         w \in At(c)' => WorksAlone(w)',
         w \notin At(c)' => Claims(c)' \subseteq {link'[c]}
  PROVE  Undisturbed(c)'
<1>1. w \notin At(c)' => At(c)' = {}
  OBVIOUS
<1>2. \A v \in At(c)' : WorksAlone(v)'
  OBVIOUS
<1>3. QED
  BY <1>1, <1>2 DEF Undisturbed

LEMMA HistoryStep == ASSUME HistoryInv, MCNext PROVE HistoryInv'
<1>0. /\ TypeOK /\ TypeOK' /\ ChargesInv /\ ChargesInv'
      /\ \A w \in RouteThreads : pc[w] = "idle" => job[w] = None
      /\ \A t \in Tx : paying[t] \in Created \cup {None}
      /\ \A c \in Created \ disturbed : Undisturbed(c)
  BY TypeStep, InvStep DEF HistoryInv, ChargesInv, MCNext
<1>t. /\ Created \subseteq Charge /\ link \in [Created -> Tx \cup {None}]
      /\ rows \in [Tx -> TxState \cup {None}]
      /\ paying \in [Tx -> Charge \cup {None}]
      /\ pc \in [RouteThreads -> Place]
      /\ job \in [RouteThreads -> Charge \cup {None}]
      /\ tx \in [RouteThreads -> Tx \cup {None}]
      /\ None \notin Charge /\ None \notin Tx
  BY <1>0, ChargesAssumption DEF TypeOK
<1>a. \A w \in RouteThreads, c \in Charge : w \in At(c) <=> pc[w] # "idle" /\ job[w] = c
  BY <1>0, <1>t DEF At
<1>b. \A c \in Created, v, w \in RouteThreads :
        c \notin disturbed' /\ pc[w] # "idle" /\ job[w] = c
          => /\ WorksAlone(w)
             /\ pc[v] # "idle" /\ job[v] = c => v = w
  BY <1>0, <1>a, <1>t DEF Undisturbed, MCNext
<1>c. \A c \in Created : c \notin disturbed' =>
        /\ Undisturbed(c)
        /\ \A v, w \in At(c)' : v = w
        /\ faults' # faults /\ At(c) # {} => At(c)' = At(c)
  BY <1>0, <1>t, StaysUndisturbed
<1>i. UNCHANGED link => Created' = Created
  BY DEF Created
<1> DEFINE Kept == /\ \A w \in RouteThreads : pc'[w] = "idle" => job'[w] = None
                   /\ \A t \in Tx : paying'[t] \in Created' \cup {None}
                   /\ \A c \in Created' \ disturbed' : Undisturbed(c)'
<1>1. ASSUME NEW c \in Charge, CreateCharge(c) PROVE Kept
  <2>1. /\ link' = [d \in Created \cup {c} |-> IF d = c THEN None ELSE link[d]]
        /\ UNCHANGED <<rows, paying, pc, job, tx>>
        /\ Created' = Created \cup {c} /\ c \notin Created
    BY <1>1 DEF CreateCharge, Created
  <2>2. ASSUME NEW d \in Created \ disturbed' PROVE Undisturbed(d)'
    BY <1>c, <1>t, <2>1, ClaimsShrink, OthersCharge
  <2>3. Undisturbed(c)'
    <3>1. Claims(c)' = {}
      BY <1>0, <1>t, <2>1 DEF Claims
    <3>2. At(c)' = {}
      BY <1>0, <1>t, <2>1, AtWork DEF At
    <3>3. QED
      BY <3>1, <3>2 DEF Undisturbed
  <2>4. QED
    BY <1>0, <2>1, <2>2, <2>3
<1>2. ASSUME NEW w \in RouteThreads, NEW c \in Charge, Pay(w, c) PROVE Kept
  <2>1. /\ pc[w] = "idle" /\ c \in Created /\ UNCHANGED <<link, rows, paying>>
        /\ job' = [job EXCEPT ![w] = c] /\ tx' = [tx EXCEPT ![w] = link[c]]
        /\ pc' = [pc EXCEPT ![w] = "check"]
    BY <1>2 DEF Pay, Goto
  <2>2. \A d \in Charge : Claims(d)' \subseteq Claims(d)
    BY <2>1, ClaimsShrink
  <2>3. ASSUME NEW d \in Created \ disturbed', d # c PROVE Undisturbed(d)'
    BY <1>0, <1>c, <1>t, <2>1, <2>2, <2>3, OthersCharge
  <2>4. ASSUME c \notin disturbed' PROVE Undisturbed(c)'
    <3>1. w \in At(c)' /\ \A v \in At(c)' : v = w
      BY <1>c, <1>t, <2>1, <2>4 DEF At
    <3>2. At(c) = {}
      <4>1. \A v \in At(c) : v # w /\ v \in At(c)'
        BY <1>a, <1>t, <2>1 DEF At
      <4>2. QED
        BY <3>1, <4>1
    <3>3. Claims(c)' \subseteq {link[c]}
      BY <1>c, <2>1, <2>2, <2>4, <3>2 DEF Undisturbed
    <3>4. WorksAlone(w)'
      BY <1>t, <2>1, <3>3 DEF WorksAlone
    <3>5. QED
      BY <3>1, <3>4, OwnCharge
  <2>5. QED
    BY <1>0, <1>i, <1>t, <2>1, <2>3, <2>4
<1>3. ASSUME NEW w \in RouteThreads, Check(w) PROVE Kept
  <2>1. PICK c \in Created : c = job[w] /\ c \in Charge
    BY <1>0, <1>3, AtWork DEF Check
  <2>2. /\ pc[w] = "check" /\ UNCHANGED <<link, rows, paying>>
        /\ \A v \in RouteThreads \ {w} : pc'[v] = pc[v] /\ job'[v] = job[v] /\ tx'[v] = tx[v]
        /\ \/ pc'[w] = "start" /\ IsPayable(tx[w]) /\ job'[w] = c
           \/ pc'[w] = "idle" /\ job'[w] = None
    BY <1>3, <1>t, <2>1 DEF Check, Return, Goto
  <2>3. \A d \in Charge : Claims(d)' \subseteq Claims(d)
    BY <2>2, ClaimsShrink
  <2>4. ASSUME NEW d \in Created \ disturbed', d # c PROVE Undisturbed(d)'
    BY <1>c, <1>t, <2>1, <2>2, <2>3, <2>4, OthersCharge
  <2>5. ASSUME c \notin disturbed' PROVE Undisturbed(c)'
    <3>1. tx[w] = link[c] /\ Claims(c) \subseteq {link[c]}
      BY <1>b, <2>1, <2>2, <2>5 DEF WorksAlone
    <3>2. \A v \in At(c)' : v = w
      BY <1>b, <1>a, <1>0, <1>t, <2>1, <2>2, <2>5 DEF At
    <3>3. ASSUME pc'[w] = "start", IsPayable(tx[w]), job'[w] = c PROVE WorksAlone(w)'
      <4>1. Claims(c)' = {}
        BY <1>t, <2>3, <3>1, <3>3 DEF IsPayable, Claims
      <4>2. QED
        BY <3>3, <4>1 DEF WorksAlone
    <3>4. ASSUME pc'[w] = "idle", job'[w] = None
          PROVE  w \notin At(c)' /\ Claims(c)' \subseteq {link'[c]}
      BY <1>t, <2>1, <2>2, <2>3, <3>1, <3>4 DEF At
    <3>5. CASE pc'[w] = "start" /\ IsPayable(tx[w]) /\ job'[w] = c
      <4>1. w \in At(c)'
        BY <3>5 DEF At
      <4>2. QED
        BY <2>1, <3>2, <3>3, <3>5, <4>1, OwnCharge
    <3>6. CASE pc'[w] = "idle" /\ job'[w] = None
      BY <2>1, <3>2, <3>4, <3>6, OwnCharge
    <3>7. QED
      BY <2>2, <3>5, <3>6
  <2>6. QED
    BY <1>0, <1>i, <2>1, <2>2, <2>4, <2>5
<1>4. ASSUME NEW w \in RouteThreads, NEW t \in Tx, Start(w, t) PROVE Kept
  <2>1. PICK c \in Created : c = job[w] /\ c \in Charge
    BY <1>0, <1>4, AtWork DEF Start
  <2>2. /\ pc[w] = "start" /\ rows[t] = None
        /\ rows' = [rows EXCEPT ![t] = "initiated"]
        /\ paying' = [paying EXCEPT ![t] = c]
        /\ tx' = [tx EXCEPT ![w] = t] /\ pc' = [pc EXCEPT ![w] = "collect"]
        /\ UNCHANGED <<link, job>>
    BY <1>4, <2>1 DEF Start, Goto
  <2>3. \A d \in Charge : Claims(d)' \subseteq IF d = c THEN Claims(c) \cup {t} ELSE Claims(d)
    BY <1>t, <2>2 DEF Claims
  <2>4. ASSUME NEW d \in Created \ disturbed', d # c PROVE Undisturbed(d)'
    <3>1. Claims(d)' \subseteq Claims(d)
      BY <1>t, <2>3, <2>4
    <3>2. QED
      BY <1>c, <1>t, <2>1, <2>2, <2>4, <3>1, OthersCharge
  <2>5. ASSUME c \notin disturbed' PROVE Undisturbed(c)'
    <3>1. Claims(c)' \subseteq {t}
      <4>1. WorksAlone(w)
        BY <1>b, <2>1, <2>2, <2>5
      <4>2. Claims(c) = {}
        BY <2>1, <2>2, <4>1 DEF WorksAlone
      <4>3. QED
        BY <2>1, <2>3, <4>2
    <3>2. w \in At(c)' /\ \A v \in At(c)' : v = w
      BY <1>c, <2>1, <2>2, <2>5 DEF At
    <3>3. WorksAlone(w)'
      BY <1>t, <2>1, <2>2, <3>1 DEF WorksAlone
    <3>4. QED
      BY <2>1, <3>2, <3>3, OwnCharge
  <2>6. \A v \in RouteThreads : pc'[v] = "idle" => job'[v] = None
    BY <1>0, <1>t, <2>2
  <2>7. \A u \in Tx : paying'[u] \in Created' \cup {None}
    BY <1>0, <1>i, <1>t, <2>2
  <2>8. QED
    BY <1>i, <2>2, <2>4, <2>5, <2>6, <2>7
<1>5. ASSUME NEW w \in RouteThreads, Collect(w) PROVE Kept
  <2>1. PICK c \in Created : c = job[w] /\ c \in Charge
    BY <1>0, <1>5, AtWork DEF Collect
  <2>2. /\ pc[w] = "collect" /\ pc' = [pc EXCEPT ![w] = "link"]
        /\ UNCHANGED <<link, paying, job, tx>>
        /\ \A u \in Tx : u # tx[w] => rows'[u] = rows[u]
        /\ rows[tx[w]] = "initiated"
    BY <1>0, <1>5, <1>t DEF Collect, Goto, ChargesInv, HoldsOwnPayment
  <2>3. \A d \in Charge : Claims(d)' \subseteq Claims(d)
    BY <2>2, ClaimsShrink
  <2>4. ASSUME NEW d \in Created \ disturbed', d # c PROVE Undisturbed(d)'
    BY <1>c, <1>t, <2>1, <2>2, <2>3, <2>4, OthersCharge
  <2>5. ASSUME c \notin disturbed' PROVE Undisturbed(c)'
    <3>1. Claims(c) \subseteq {tx[w]}
      BY <1>b, <2>1, <2>2, <2>5 DEF WorksAlone
    <3>2. w \in At(c)' /\ \A v \in At(c)' : v = w
      BY <1>c, <2>1, <2>2, <2>5 DEF At
    <3>3. WorksAlone(w)'
      BY <1>t, <2>1, <2>2, <2>3, <3>1 DEF WorksAlone
    <3>4. QED
      BY <2>1, <3>2, <3>3, OwnCharge
  <2>6. QED
    BY <1>0, <1>i, <1>t, <2>2, <2>4, <2>5
<1>6. ASSUME NEW w \in RouteThreads, Link(w) PROVE Kept
  <2>1. PICK c \in Created : c = job[w] /\ c \in Charge
    BY <1>0, <1>6, AtWork DEF Link
  <2>2. /\ pc[w] = "link" /\ link' = [link EXCEPT ![c] = tx[w]]
        /\ pc' = [pc EXCEPT ![w] = "idle"] /\ UNCHANGED <<rows, paying>>
        /\ job' = [job EXCEPT ![w] = None] /\ tx' = [tx EXCEPT ![w] = None]
        /\ Created' = Created
    BY <1>6, <2>1 DEF Link, SaveCharge, Return, Goto, Created
  <2>3. \A d \in Charge : Claims(d)' \subseteq Claims(d)
    BY <2>2, ClaimsShrink
  <2>4. ASSUME NEW d \in Created \ disturbed', d # c PROVE Undisturbed(d)'
    BY <1>c, <1>t, <2>1, <2>2, <2>3, <2>4, OthersCharge
  <2>5. ASSUME c \notin disturbed' PROVE Undisturbed(c)'
    <3>1. Claims(c) \subseteq {tx[w]} /\ link'[c] = tx[w]
      BY <1>b, <1>t, <2>1, <2>2, <2>5 DEF WorksAlone
    <3>2. w \notin At(c)' /\ \A v \in At(c)' : v = w
      BY <1>a, <1>b, <1>0, <1>t, <2>1, <2>2, <2>5 DEF At
    <3>3. QED
      BY <2>1, <2>3, <3>1, <3>2, OwnCharge
  <2>6. QED
    BY <1>0, <1>t, <2>2, <2>4, <2>5
<1>7. ASSUME NEW w \in RouteThreads, StartRaises(w) PROVE Kept
  <2>1. /\ pc[w] \in {"start", "collect"} /\ UNCHANGED <<link, paying>>
        /\ faults' # faults
        /\ pc' = [pc EXCEPT ![w] = "idle"]
        /\ job' = [job EXCEPT ![w] = None] /\ tx' = [tx EXCEPT ![w] = None]
        /\ \/ UNCHANGED rows
           \/ pc[w] = "collect" /\ rows' = [rows EXCEPT ![tx[w]] = "collection_pending"]
    BY <1>7, <1>0, ChargesAssumption DEF StartRaises, Return, Goto, TypeOK
  <2>2. PICK c \in Created : c = job[w] /\ c \in Charge
    BY <1>0, <2>1, AtWork
  <2>3. \A u \in Tx : rows[u] = "collection_failed" => rows'[u] = "collection_failed"
    BY <1>0, <1>t, <2>1 DEF ChargesInv, HoldsOwnPayment
  <2>4. \A d \in Charge : Claims(d)' \subseteq Claims(d)
    BY <2>1, <2>3, ClaimsShrink
  <2>5. c \in disturbed'
    <3>1. w \in At(c) /\ w \notin At(c)'
      BY <1>t, <2>1, <2>2 DEF At
    <3>2. QED
      BY <1>c, <2>1, <3>1
  <2>6. ASSUME NEW d \in Created \ disturbed' PROVE Undisturbed(d)'
    BY <1>c, <1>t, <2>1, <2>2, <2>4, <2>5, <2>6, OthersCharge
  <2>7. QED
    BY <1>0, <1>i, <1>t, <2>1, <2>6
<1>8. ASSUME NEW t \in Tx, Progress(t) PROVE Kept
  <2>1. /\ rows[t] # "collection_failed" /\ UNCHANGED <<link, paying, pc, job, tx>>
        /\ \A u \in Tx : u # t => rows'[u] = rows[u]
    BY <1>8, <1>t, TableMovesOn, StatesNamed DEF Progress
  <2>2. \A d \in Charge : Claims(d)' \subseteq Claims(d)
    BY <2>1, ClaimsShrink
  <2>3. ASSUME NEW d \in Created \ disturbed' PROVE Undisturbed(d)'
    BY <1>c, <1>t, <2>1, <2>2, OthersCharge
  <2>4. QED
    BY <1>0, <1>i, <2>1, <2>3
<1>9. ASSUME Crash PROVE Kept
  <2>1. /\ faults' # faults /\ UNCHANGED <<link, rows, paying>>
        /\ \A v \in RouteThreads : pc'[v] = "idle" /\ job'[v] = None
    BY <1>9, <1>0, ChargesAssumption DEF Crash, TypeOK
  <2>2. \A d \in Charge : Claims(d)' \subseteq Claims(d)
    BY <2>1, ClaimsShrink
  <2>3. ASSUME NEW d \in Created \ disturbed' PROVE Undisturbed(d)'
    <3>1. At(d)' = {} /\ At(d) = {} /\ Undisturbed(d)
      BY <1>c, <1>t, <2>1 DEF At
    <3>2. \A v \in RouteThreads : job[v] # d /\ job'[v] # d
      BY <1>t, <2>1, <3>1 DEF At
    <3>3. QED
      BY <1>t, <2>1, <2>2, <3>1, <3>2, OthersCharge
  <2>4. QED
    BY <1>0, <1>i, <2>1, <2>3
<1>10. Kept
  BY <1>1, <1>2, <1>3, <1>4, <1>5, <1>6, <1>7, <1>8, <1>9 DEF Next, MCNext
<1>11. QED
  BY <1>0, <1>10 DEF HistoryInv

LEMMA HistoryAlways == MCSpec => []HistoryInv
<1>1. MCInit => HistoryInv
  <2> SUFFICES ASSUME MCInit PROVE HistoryInv
    OBVIOUS
  <2>1. ChargesInv /\ Created = {}
    BY InitInv DEF MCInit, Init, Created
  <2>2. QED
    BY <2>1 DEF MCInit, Init, HistoryInv
<1>2. ASSUME HistoryInv, UNCHANGED <<vars, disturbed>> PROVE HistoryInv'
  <2>1. ChargesInv'
    BY <1>2, InvStep DEF HistoryInv
  <2>2. Created' = Created /\ \A c \in Charge : Claims(c)' \subseteq Claims(c)
    BY <1>2, ClaimsShrink DEF vars, Created
  <2>3. \A c \in Created : c \in Charge
    BY <1>2 DEF HistoryInv, ChargesInv, TypeOK
  <2>4. ASSUME NEW c \in Created' \ disturbed' PROVE Undisturbed(c)'
    <3>1. Undisturbed(c) /\ c \in Charge
      BY <1>2, <2>2, <2>3 DEF HistoryInv
    <3>2. QED
      BY <1>2, <2>2, <3>1, OthersCharge DEF vars
  <2>5. QED
    BY <1>2, <2>1, <2>2, <2>4 DEF HistoryInv, vars
<1>3. HistoryInv /\ [MCNext]_<<vars, disturbed>> => HistoryInv'
  BY <1>2, HistoryStep
<1>4. QED
  BY <1>1, <1>3, PTL DEF MCSpec

\* An undisturbed charge is claimed by one payment: its thread's or its own.
LEMMA OneClaim ==
  ASSUME HistoryInv, NEW c \in Created \ disturbed
  PROVE  /\ \E t \in Tx \cup {None} : Claims(c) \subseteq {t}
         /\ At(c) = {} => Claims(c) \subseteq {link[c]}
<1>1. Undisturbed(c) /\ TypeOK /\ c \in Charge
  BY DEF HistoryInv, ChargesInv, TypeOK
<1>2. Claims(c) \subseteq Tx
  BY DEF Claims
<1>3. CASE At(c) = {}
  BY <1>1, <1>3 DEF Undisturbed, TypeOK
<1>4. ASSUME NEW w \in At(c) PROVE \E t \in Tx \cup {None} : Claims(c) \subseteq {t}
  <2>1. WorksAlone(w) /\ job[w] = c /\ w \in RouteThreads
    BY <1>1, <1>4 DEF Undisturbed, At
  <2>2. pc[w] \in {"check", "start", "collect", "link"}
    BY <1>1, <2>1, ChargesAssumption DEF HistoryInv, TypeOK, Place
  <2>3. link[c] \in Tx \cup {None} /\ tx[w] \in Tx \cup {None}
    BY <1>1, <2>1 DEF TypeOK
  <2>4. QED
    BY <2>1, <2>2, <2>3 DEF WorksAlone
<1>5. QED
  BY <1>1, <1>3, <1>4 DEF Undisturbed

\* A charge is paid for once: only a declined payment is followed by another,
\* unless two pays overlapped on it or one was cut short (is_payable, pay).
THEOREM ChargedOnceUndisturbed == MCSpec => []ChargedOnce
<1>1. HistoryInv => ChargedOnce
  BY OneClaim DEF ChargedOnce
<1>2. QED
  BY <1>1, HistoryAlways, PTL

\* A charge says what became of its payment, under the same proviso.
THEOREM StatusIsTrueUndisturbed == MCSpec => []StatusIsTrue
<1>1. ASSUME HistoryInv, NEW c \in Created \ disturbed, At(c) = {}, NEW t \in Claims(c)
      PROVE  /\ rows[t] = "payout_succeeded" => ChargeStatus(c) = "paid"
             /\ ChargeStatus(c) \notin {"awaiting_payment", "declined"}
  <2>1. link[c] = t /\ t \in Tx /\ t # None /\ rows[t] # "collection_failed"
    BY <1>1, OneClaim, ChargesAssumption DEF Claims
  <2>2. QED
    BY <2>1 DEF ChargeStatus
<1>2. HistoryInv => StatusIsTrue
  BY <1>1 DEF StatusIsTrue
<1>3. QED
  BY <1>2, HistoryAlways, PTL
=============================================================================
