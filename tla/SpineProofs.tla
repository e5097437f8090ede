---------------------------- MODULE SpineProofs ----------------------------
(***************************************************************************)
(* For any threads, any transactions and any number of faults: the payment *)
(* spine is type-correct, and the first group of SpineProperties holds.    *)
(* When one thread plays every role: no leg is booked twice, money goes    *)
(* one way, the third group holds, and the spine implements MoneyPromise.  *)
(***************************************************************************)
EXTENDS SpineRefinement, FiniteSetTheorems, TLAPS

LEMMA StatesNamed ==
  TxState = {"initiated", "collection_pending", "collection_succeeded",
             "collection_failed", "payout_pending", "payout_succeeded",
             "payout_failed", "refund_pending", "refunded", "manual_review"}
BY DEF TxState, Transitions

\* The two tables of the appliers stay within the states.
LEMMA StateTables ==
  ASSUME NEW leg \in Leg, NEW ok \in BOOLEAN
  PROVE  AwaitingState[leg] \in TxState /\ OutcomeState(leg, ok) \in TxState
BY StatesNamed DEF Leg, AwaitingState, OutcomeState

LEMMA JobFields ==
  ASSUME NEW j \in Job
  PROVE  /\ j.tx \in Tx /\ j.leg \in Leg /\ j.ok \in BOOLEAN
         /\ j # None
         /\ \A leg \in Leg, ok \in BOOLEAN : [tx |-> j.tx, leg |-> leg, ok |-> ok] \in Job
BY SpineAssumption DEF Job

LEMMA RowFields ==
  ASSUME NEW r \in Row
  PROVE  /\ r.state \in TxState /\ r.ids \subseteq Leg
         /\ r # None
         /\ \A s \in TxState :
              /\ [r EXCEPT !.state = s] \in Row
              /\ [r EXCEPT !.state = s].state = s
              /\ [r EXCEPT !.state = s].ids = r.ids
BY SpineAssumption DEF Row

\* What a thread at work on a row copy holds.
LEMMA ThreadTypes ==
  ASSUME TypeOK, NEW w \in Thread, pc[w] # "idle"
  PROVE  /\ job[w] \in Job
         /\ job[w].tx \in Tx /\ job[w].leg \in Leg /\ job[w].ok \in BOOLEAN
         /\ rows[job[w].tx] \in Row
         /\ pc[w] \in Holding => mem[w] \in Row
BY JobFields DEF TypeOK, ThreadTypeOK, Holding

LEMMA InitType == Init => TypeOK
BY SpineAssumption DEF Init, TypeOK, ThreadTypeOK, Place, Holding

\* A thread that an action leaves alone stays well-typed: no row is deleted.
LEMMA UntouchedThread ==
  ASSUME TypeOK, NEW v \in Thread,
         pc'[v] = pc[v], job'[v] = job[v], mem'[v] = mem[v], todo'[v] \subseteq todo[v],
         \A t \in Tx : rows[t] # None => rows'[t] # None
  PROVE  ThreadTypeOK(v)'
BY JobFields DEF TypeOK, ThreadTypeOK, Item

\* The handler of a thread that returns leaves it well-typed.
LEMMA IdleThread ==
  ASSUME TypeOK, NEW w \in Thread,
         pc'[w] = "idle", todo'[w] \subseteq todo[w],
         \A t \in Tx : rows[t] # None => rows'[t] # None
  PROVE  ThreadTypeOK(w)'
BY DEF TypeOK, ThreadTypeOK, Item, Holding

LEMMA TypeStep == TypeOK /\ [Next]_vars => TypeOK'
<1> SUFFICES ASSUME TypeOK, [Next]_vars PROVE TypeOK'
  OBVIOUS
<1> USE SpineAssumption
<1>0. /\ rows \in [Tx -> Row \cup {None}]
      /\ postings \in [Tx -> [Leg -> Nat]]
      /\ rail \in [Tx -> [Leg -> {"none", "accepted", "completed", "failed"}]]
      /\ pc \in [Thread -> Place]
      /\ job \in [Thread -> Job \cup {None}]
      /\ mem \in [Thread -> Row \cup {None}]
      /\ todo \in [Thread -> SUBSET Item]
      /\ faults \in 0..MaxFaults
  BY DEF TypeOK
<1>1. ASSUME NEW w \in Thread, NEW t \in Tx, StartTransaction(w, t) PROVE TypeOK'
  <2> DEFINE row == [state |-> "initiated", ids |-> {}]
             new == [tx |-> t, leg |-> "deposit", ok |-> TRUE]
  <2>1. row \in Row /\ row # None /\ new \in Job /\ new.tx = t
    BY StatesNamed DEF Row, Job, Leg
  <2> HIDE DEF row, new
  <2>2. /\ rows' = [rows EXCEPT ![t] = row]
        /\ mem' = [mem EXCEPT ![w] = row]
        /\ job' = [job EXCEPT ![w] = new]
        /\ pc' = [pc EXCEPT ![w] = "begin"]
        /\ UNCHANGED <<postings, rail, todo, faults>>
    BY <1>1 DEF StartTransaction, Goto, row, new
  <2>3. ThreadTypeOK(w)'
    BY <1>0, <2>1, <2>2 DEF TypeOK, ThreadTypeOK, Item
  <2>4. ASSUME NEW v \in Thread \ {w} PROVE ThreadTypeOK(v)'
    BY <1>0, <2>1, <2>2, UntouchedThread
  <2>5. QED
    BY <1>0, <2>1, <2>2, <2>3, <2>4 DEF TypeOK, Place
<1>2. ASSUME NEW w \in Thread, Begin(w) PROVE TypeOK'
  <2> DEFINE row == [mem[w] EXCEPT !.state = AwaitingState[job[w].leg]]
  <2>1. /\ job[w] \in Job /\ job[w].tx \in Tx
        /\ row \in Row /\ row # None
    BY <1>2, ThreadTypes, RowFields, StateTables DEF Begin, Holding
  <2> HIDE DEF row
  <2>2. /\ rows' = [rows EXCEPT ![job[w].tx] = row]
        /\ mem' = [mem EXCEPT ![w] = row]
        /\ pc' = [pc EXCEPT ![w] = "request"]
        /\ UNCHANGED <<postings, rail, job, todo, faults>>
    BY <1>2 DEF Begin, Save, Goto, row
  <2>3. ThreadTypeOK(w)'
    BY <1>0, <2>1, <2>2 DEF TypeOK, ThreadTypeOK, Item
  <2>4. ASSUME NEW v \in Thread \ {w} PROVE ThreadTypeOK(v)'
    BY <1>0, <2>1, <2>2, UntouchedThread
  <2>5. QED
    BY <1>0, <2>1, <2>2, <2>3, <2>4 DEF TypeOK, Place
<1>3. ASSUME NEW w \in Thread, RequestAccepted(w) PROVE TypeOK'
  <2>1. job[w].tx \in Tx /\ job[w].leg \in Leg /\ job[w] \in Job
    BY <1>3, ThreadTypes DEF RequestAccepted
  <2>2. ASSUME NEW v \in Thread PROVE ThreadTypeOK(v)'
    BY <1>3, <1>0 DEF RequestAccepted, Goto, TypeOK, ThreadTypeOK, Holding
  <2>3. QED
    BY <1>3, <1>0, <2>1, <2>2 DEF RequestAccepted, Goto, TypeOK, Place
<1>4. ASSUME NEW w \in Thread, RequestRejected(w) PROVE TypeOK'
  <2> DEFINE new == [job[w] EXCEPT !.ok = FALSE]
  <2>1. job[w] \in Job /\ new \in Job /\ new.tx = job[w].tx
    BY <1>4, ThreadTypes DEF RequestRejected, Job
  <2> HIDE DEF new
  <2>2. /\ job' = [job EXCEPT ![w] = new]
        /\ pc' = [pc EXCEPT ![w] = "resolve"]
        /\ UNCHANGED <<rows, postings, rail, mem, todo, faults>>
    BY <1>4, <1>0 DEF RequestRejected, Goto, new
  <2>3. pc[w] = "request" /\ ThreadTypeOK(w)
    BY <1>4 DEF RequestRejected, TypeOK
  <2>4. ThreadTypeOK(w)'
    BY <1>0, <2>1, <2>2, <2>3 DEF ThreadTypeOK, Holding
  <2>5. ASSUME NEW v \in Thread \ {w} PROVE ThreadTypeOK(v)'
    BY <1>0, <2>2, UntouchedThread
  <2>6. QED
    BY <1>0, <2>1, <2>2, <2>4, <2>5 DEF TypeOK, Place
<1>5. ASSUME NEW w \in Thread, RequestRaises(w) PROVE TypeOK'
  <2>1. job[w].tx \in Tx /\ job[w].leg \in Leg
    BY <1>5, ThreadTypes DEF RequestRaises
  <2>2. rail' \in [Tx -> [Leg -> {"none", "accepted", "completed", "failed"}]]
    BY <1>5, <1>0, <2>1 DEF RequestRaises
  <2>3. ASSUME NEW v \in Thread PROVE ThreadTypeOK(v)'
    <3>1. CASE v = w
      BY <1>5, <1>0, <3>1, IdleThread DEF RequestRaises, Return, Goto
    <3>2. CASE v # w
      BY <1>5, <1>0, <3>2, UntouchedThread DEF RequestRaises, Return, Goto
    <3>3. QED
      BY <3>1, <3>2
  <2>4. QED
    BY <1>5, <1>0, <2>2, <2>3 DEF RequestRaises, Return, Goto, TypeOK, Place
<1>6. ASSUME NEW w \in Thread, StoreOpId(w) PROVE TypeOK'
  <2> DEFINE row == [mem[w] EXCEPT !.ids = @ \cup {job[w].leg}]
  <2>1. /\ job[w].tx \in Tx
        /\ row \in Row /\ row # None
    BY <1>6, ThreadTypes DEF StoreOpId, Holding, Row
  <2> HIDE DEF row
  <2>2. /\ rows' = [rows EXCEPT ![job[w].tx] = row]
        /\ Return(w)
        /\ UNCHANGED <<postings, rail, todo, faults>>
    BY <1>6 DEF StoreOpId, row
  <2>3. ASSUME NEW v \in Thread PROVE ThreadTypeOK(v)'
    <3>1. CASE v = w
      BY <1>0, <2>1, <2>2, <3>1, IdleThread DEF Return, Goto
    <3>2. CASE v # w
      BY <1>0, <2>1, <2>2, <3>2, UntouchedThread DEF Return, Goto
    <3>3. QED
      BY <3>1, <3>2
  <2>4. QED
    BY <1>0, <2>1, <2>2, <2>3 DEF Return, Goto, TypeOK, Place
<1>7. ASSUME NEW w \in Thread, NEW t \in Tx, NEW leg \in Leg, ReceiveCallback(w, t, leg)
      PROVE TypeOK'
  <2> DEFINE new == [tx |-> t, leg |-> leg, ok |-> Succeeded(t, leg)]
  <2>1. new \in Job /\ new.tx = t
    BY DEF Job, Succeeded
  <2> HIDE DEF new
  <2>2. /\ rows[t] # None
        /\ job' = [job EXCEPT ![w] = new]
        /\ pc' = [pc EXCEPT ![w] = "guard"]
        /\ UNCHANGED <<rows, postings, rail, mem, todo, faults>>
    BY <1>7 DEF ReceiveCallback, Goto, new
  <2>3. ThreadTypeOK(w)'
    BY <1>0, <2>1, <2>2 DEF TypeOK, ThreadTypeOK, Holding
  <2>4. ASSUME NEW v \in Thread \ {w} PROVE ThreadTypeOK(v)'
    BY <1>0, <2>2, UntouchedThread
  <2>5. QED
    BY <1>0, <2>1, <2>2, <2>3, <2>4 DEF TypeOK, Place
<1>8. ASSUME NEW w \in Thread, SweepBegin(w) PROVE TypeOK'
  <2>1. PendingLegs \in SUBSET Item /\ \A p \in PendingLegs : rows[p.tx] # None
    BY DEF PendingLegs
  <2>2. ASSUME NEW v \in Thread PROVE ThreadTypeOK(v)'
    BY <1>8, <1>0, <2>1 DEF SweepBegin, TypeOK, ThreadTypeOK
  <2>3. QED
    BY <1>8, <1>0, <2>1, <2>2 DEF SweepBegin, TypeOK
<1>9. ASSUME NEW w \in Thread, NEW t \in Tx, NEW leg \in Leg, SweepPoll(w, t, leg)
      PROVE TypeOK'
  <2> DEFINE new == [tx |-> t, leg |-> leg, ok |-> Succeeded(t, leg)]
             item == [tx |-> t, leg |-> leg]
  <2>1. new \in Job /\ new.tx = t /\ item.tx = t
    BY DEF Job, Succeeded
  <2> HIDE DEF new, item
  <2>2. /\ item \in todo[w]
        /\ job' = [job EXCEPT ![w] = new]
        /\ pc' = [pc EXCEPT ![w] = "guard"]
        /\ todo' = [todo EXCEPT ![w] = todo[w] \ {item}]
        /\ UNCHANGED <<rows, postings, rail, mem, faults>>
    BY <1>9 DEF SweepPoll, Goto, new, item
  <2>3. rows[t] # None
    BY <2>1, <2>2 DEF TypeOK, ThreadTypeOK
  <2>4. ThreadTypeOK(w)'
    BY <1>0, <2>1, <2>2, <2>3 DEF TypeOK, ThreadTypeOK, Holding
  <2>5. ASSUME NEW v \in Thread \ {w} PROVE ThreadTypeOK(v)'
    BY <1>0, <2>2, UntouchedThread
  <2>6. QED
    BY <1>0, <2>1, <2>2, <2>4, <2>5 DEF TypeOK, Place
<1>10. ASSUME NEW w \in Thread, NEW t \in Tx, NEW leg \in Leg, SweepSkip(w, t, leg)
       PROVE TypeOK'
  <2>1. ASSUME NEW v \in Thread PROVE ThreadTypeOK(v)'
    BY <1>10, <1>0, UntouchedThread DEF SweepSkip
  <2>2. QED
    BY <1>10, <1>0, <2>1 DEF SweepSkip, TypeOK
<1>11. ASSUME NEW w \in Thread, Guard(w) PROVE TypeOK'
  <2>1. ASSUME NEW v \in Thread PROVE ThreadTypeOK(v)'
    <3>1. CASE pc'[w] = "idle" /\ v = w
      BY <1>11, <1>0, <3>1, IdleThread DEF Guard
    <3>2. CASE v # w
      BY <1>11, <1>0, <3>2, UntouchedThread DEF Guard, Return, Goto
    <3>3. CASE pc'[w] # "idle" /\ v = w
      BY <1>11, <1>0, <3>3 DEF Guard, Return, Goto, TypeOK, ThreadTypeOK, Holding
    <3>4. QED
      BY <3>1, <3>2, <3>3
  <2>2. QED
    BY <1>11, <1>0, <2>1 DEF Guard, Return, Goto, TypeOK, Place
<1>12. ASSUME NEW w \in Thread, Load(w) PROVE TypeOK'
  <2>1. /\ job[w] \in Job /\ rows[job[w].tx] \in Row /\ rows[job[w].tx] # None
    BY <1>12, ThreadTypes, RowFields DEF Load
  <2>2. CASE CanTransition(rows[job[w].tx].state, OutcomeState(job[w].leg, job[w].ok))
    <3>1. /\ mem' = [mem EXCEPT ![w] = rows[job[w].tx]]
          /\ pc' = [pc EXCEPT ![w] = "resolve"]
          /\ UNCHANGED <<rows, postings, rail, job, todo, faults>>
      BY <1>12, <2>2 DEF Load, Goto
    <3>2. ThreadTypeOK(w)'
      BY <1>0, <2>1, <3>1 DEF TypeOK, ThreadTypeOK
    <3>3. ASSUME NEW v \in Thread \ {w} PROVE ThreadTypeOK(v)'
      BY <1>0, <3>1, UntouchedThread
    <3>4. QED
      BY <1>0, <2>1, <3>1, <3>2, <3>3 DEF TypeOK, Place
  <2>3. CASE ~CanTransition(rows[job[w].tx].state, OutcomeState(job[w].leg, job[w].ok))
    <3>1. /\ Return(w)
          /\ todo' = [todo EXCEPT ![w] = {}]
          /\ UNCHANGED <<rows, postings, rail, faults>>
      BY <1>12, <2>3 DEF Load
    <3>2. ThreadTypeOK(w)'
      BY <1>0, <3>1, IdleThread DEF Return, Goto
    <3>3. ASSUME NEW v \in Thread \ {w} PROVE ThreadTypeOK(v)'
      BY <1>0, <3>1, UntouchedThread DEF Return, Goto
    <3>4. QED
      BY <1>0, <3>1, <3>2, <3>3 DEF Return, Goto, TypeOK, Place
  <2>4. QED
    BY <2>2, <2>3
<1>13. ASSUME NEW w \in Thread, Resolve(w) PROVE TypeOK'
  <2> DEFINE row == [mem[w] EXCEPT !.state = OutcomeState(job[w].leg, job[w].ok)]
             new == [tx |-> job[w].tx, leg |-> "refund", ok |-> TRUE]
  <2>1. /\ job[w] \in Job /\ job[w].tx \in Tx
        /\ row \in Row /\ row # None
        /\ new \in Job /\ new.tx = job[w].tx
    BY <1>13, ThreadTypes, JobFields, RowFields, StateTables DEF Resolve, Holding, Leg
  <2> HIDE DEF row, new
  <2>2. /\ rows' = [rows EXCEPT ![job[w].tx] = row]
        /\ UNCHANGED <<postings, rail, todo, faults>>
    BY <1>13 DEF Resolve, row
  <2>3. \/ /\ mem' = [mem EXCEPT ![w] = row]
           /\ pc' = [pc EXCEPT ![w] = "post"]
           /\ job' = job
        \/ /\ mem' = [mem EXCEPT ![w] = row]
           /\ pc' = [pc EXCEPT ![w] = "begin"]
           /\ job' = [job EXCEPT ![w] = new]
        \/ Return(w)
    BY <1>13 DEF Resolve, BeginLeg, Goto, row, new
  <2>4. ThreadTypeOK(w)'
    BY <1>0, <2>1, <2>2, <2>3 DEF TypeOK, ThreadTypeOK, Item, Holding, Return, Goto
  <2>5. ASSUME NEW v \in Thread \ {w} PROVE ThreadTypeOK(v)'
    BY <1>0, <2>1, <2>2, <2>3, UntouchedThread DEF Return, Goto
  <2>6. rows' \in [Tx -> Row \cup {None}] /\ mem' \in [Thread -> Row \cup {None}]
    BY <1>0, <2>1, <2>2, <2>3 DEF TypeOK, Return
  <2>7. pc' \in [Thread -> Place]
    BY <1>0, <2>3 DEF TypeOK, Place, Return, Goto
  <2>8. job' \in [Thread -> Job \cup {None}]
    BY <1>0, <2>1, <2>3 DEF TypeOK, Return
  <2>9. QED
    BY <1>0, <2>2, <2>4, <2>5, <2>6, <2>7, <2>8 DEF TypeOK
<1>14. ASSUME NEW w \in Thread, PostLeg(w) PROVE TypeOK'
  <2> DEFINE new == [tx |-> job[w].tx, leg |-> "payout", ok |-> TRUE]
  <2>1. /\ job[w] \in Job /\ job[w].tx \in Tx /\ job[w].leg \in Leg
        /\ new \in Job /\ new.tx = job[w].tx
        /\ rows[job[w].tx] # None /\ mem[w] # None
    BY <1>14, ThreadTypes, JobFields, RowFields DEF PostLeg, Leg, Holding
  <2> HIDE DEF new
  <2>2. postings' \in [Tx -> [Leg -> Nat]]
    BY <1>14, <1>0, <2>1 DEF PostLeg
  <2>3. UNCHANGED <<rows, rail, todo, faults>>
    BY <1>14 DEF PostLeg
  <2>4. \/ /\ pc' = [pc EXCEPT ![w] = "begin"]
           /\ job' = [job EXCEPT ![w] = new]
           /\ mem' = mem
        \/ Return(w)
    BY <1>14 DEF PostLeg, BeginLeg, Goto, new
  <2>5. ThreadTypeOK(w)'
    BY <1>0, <2>1, <2>3, <2>4 DEF TypeOK, ThreadTypeOK, Holding, Return, Goto
  <2>6. ASSUME NEW v \in Thread \ {w} PROVE ThreadTypeOK(v)'
    BY <1>0, <2>3, <2>4, UntouchedThread DEF Return, Goto
  <2>7. /\ pc' \in [Thread -> Place]
        /\ job' \in [Thread -> Job \cup {None}]
        /\ mem' \in [Thread -> Row \cup {None}]
    <3>1. pc' \in [Thread -> Place]
      BY <1>0, <2>4 DEF Place, Return, Goto
    <3>2. job' \in [Thread -> Job \cup {None}]
      BY <1>0, <2>1, <2>4 DEF Return
    <3>3. mem' \in [Thread -> Row \cup {None}]
      BY <1>0, <2>4 DEF Return
    <3>4. QED
      BY <3>1, <3>2, <3>3
  <2>8. QED
    BY <1>0, <2>2, <2>3, <2>5, <2>6, <2>7 DEF TypeOK
<1>15. ASSUME NEW t \in Tx, NEW leg \in Leg, RailSettles(t, leg) PROVE TypeOK'
  BY <1>15 DEF RailSettles, TypeOK, ThreadTypeOK
<1>16. CASE Crash
  BY <1>16 DEF Crash, TypeOK, ThreadTypeOK, Place, Holding
<1>17. CASE UNCHANGED vars
  BY <1>17 DEF vars, TypeOK, ThreadTypeOK
<1>18. QED
  BY <1>1, <1>2, <1>3, <1>4, <1>5, <1>6, <1>7, <1>8, <1>9, <1>10, <1>11, <1>12,
     <1>13, <1>14, <1>15, <1>16, <1>17 DEF Next, HandlerStep

\* At every moment each busy thread drives one leg of a stored transaction with
\* a row copy of its own, whatever threads and faults there are (the handlers
\* of orchestrator.py and outcomes.py, over the store of sql.py).
THEOREM TypeCorrect == Spec => []TypeOK
<1>1. QED
  BY InitType, TypeStep, PTL DEF Spec

-----------------------------------------------------------------------------
\* The inductive invariant.  PostingsBacked, PayOnlyCollected and
\* RowsTellTheTruth speak of pawaPay and the tables only; what makes a step
\* keep them is what its handler read earlier and still relies on: SpineInv.
Inv ==
  /\ TypeOK
  /\ SpineInv
  /\ PostingsBacked
  /\ PayOnlyCollected
  /\ RowsTellTheTruth

\* What a step may do to pawaPay's operations: never undo a final one, and
\* leave a deposit alone unless it was accepted.
RailGrows == \A t \in Tx, leg \in Leg : Final(t, leg) => rail'[t][leg] = rail[t][leg]
DepositKept(t) ==
  rail[t]["deposit"] # "accepted" => rail'[t]["deposit"] = rail[t]["deposit"]

LEMMA InitInv == Init => Inv
<1> SUFFICES ASSUME Init PROVE Inv
  OBVIOUS
<1>1. TypeOK
  BY InitType
<1>2. SpineInv
  BY DEF Init, SpineInv, Leg
<1>3. PostingsBacked /\ PayOnlyCollected /\ RowsTellTheTruth
  BY DEF Init, PostingsBacked, PayOnlyCollected, RowsTellTheTruth, Leg
<1>4. QED
  BY <1>1, <1>2, <1>3 DEF Inv

\* A thread that does not step keeps what it knows and holds.
LEMMA OtherThread ==
  ASSUME TypeOK, NEW v \in Thread, pc[v] # "idle", ThreadInv(v),
         pc'[v] = pc[v], job'[v] = job[v], mem'[v] = mem[v],
         RailGrows, DepositKept(job[v].tx),
         Known(job[v].tx) => Known(job[v].tx)',
         Starting(v) => /\ rows'[job[v].tx] = rows[job[v].tx]
                        /\ \A u \in Thread \ {v} : pc'[u] # "idle" => job'[u].tx # job[v].tx
  PROVE  ThreadInv(v)'
<1>1. job[v].tx \in Tx /\ job[v].leg \in Leg /\ "deposit" \in Leg
  BY ThreadTypes DEF Leg
<1>2. Starting(v) => Starting(v)'
  BY <1>1 DEF Starting, DepositKept
<1>3. Driving(v) => Driving(v)'
  BY <1>1 DEF Driving
<1>4. \A leg \in Leg : Final(job[v].tx, leg) => rail'[job[v].tx][leg] = rail[job[v].tx][leg]
  BY <1>1 DEF RailGrows
<1>5. Truthful(job[v].tx, mem[v].state) => Truthful(job[v].tx, mem[v].state)'
  BY <1>1, <1>4 DEF Truthful, Succeeded, Final, DepositKept, Leg
<1>6. \A leg \in Leg : Succeeded(job[v].tx, leg) => Succeeded(job[v].tx, leg)'
  BY <1>4 DEF Succeeded, Final
<1>7. \A leg \in Leg : Final(job[v].tx, leg) =>
        Final(job[v].tx, leg)' /\ (Succeeded(job[v].tx, leg)' <=> Succeeded(job[v].tx, leg))
  BY <1>4 DEF Succeeded, Final
<1>8. rail[job[v].tx]["deposit"] \in {"none", "failed"}
        => rail'[job[v].tx]["deposit"] \in {"none", "failed"}
  BY DEF DepositKept
<1>9. Starting(v)' \/ Driving(v)'
  BY <1>2, <1>3 DEF ThreadInv
<1>10. job'[v].leg # "deposit" => Succeeded(job[v].tx, "deposit")'
  BY <1>1, <1>6 DEF ThreadInv
<1>11. pc'[v] \in {"guard", "load"} =>
         /\ Final(job[v].tx, job[v].leg)'
         /\ (job[v].ok = Succeeded(job[v].tx, job[v].leg))'
  <2>1. SUFFICES ASSUME pc'[v] \in {"guard", "load"}
                 PROVE  /\ Final(job[v].tx, job[v].leg)'
                        /\ (job[v].ok = Succeeded(job[v].tx, job[v].leg))'
    OBVIOUS
  <2>2. Final(job[v].tx, job[v].leg) /\ job[v].ok = Succeeded(job[v].tx, job[v].leg)
    BY <2>1 DEF ThreadInv
  <2>3. rail'[job[v].tx][job[v].leg] = rail[job[v].tx][job[v].leg]
    BY <1>1, <1>4, <2>2
  <2>4. QED
    BY <2>2, <2>3 DEF Final, Succeeded
<1>12. pc'[v] = "post" \/ (pc'[v] = "resolve" /\ job'[v].ok)
         => Succeeded(job[v].tx, job[v].leg)'
  BY <1>1, <1>6 DEF ThreadInv
<1>13. pc'[v] = "resolve" /\ ~job'[v].ok /\ job'[v].leg = "deposit" =>
         rail'[job'[v].tx]["deposit"] \in {"none", "failed"}
  BY <1>8 DEF ThreadInv
<1>14. pc'[v] \in Holding => Truthful(job[v].tx, mem[v].state)'
  BY <1>5 DEF ThreadInv
<1>15. QED
  BY <1>9, <1>10, <1>11, <1>12, <1>13, <1>14 DEF ThreadInv

\* A step of thread w on transaction t0 keeps the invariant if w's own part,
\* the row and the money of t0 are right after it.
LEMMA Frame ==
  ASSUME Inv, TypeOK', NEW w \in Thread, NEW t0 \in Tx,
         \A v \in Thread \ {w} :
           /\ pc'[v] = pc[v] /\ job'[v] = job[v] /\ mem'[v] = mem[v]
           /\ todo'[v] = todo[v],
         todo'[w] \subseteq todo[w],
         \A t \in Tx \ {t0} : rows'[t] = rows[t] /\ rail'[t] = rail[t],
         RailGrows,
         \A v \in Thread \ {w} : pc[v] # "idle" /\ Starting(v) => job[v].tx # t0,
         \/ DepositKept(t0)
         \/ \A v \in Thread \ {w} : pc[v] # "idle" => job[v].tx # t0,
         rows'[t0] # None, Known(t0) => Known(t0)',
         rows'[t0].ids # {} => Known(t0)',
         pc'[w] # "idle" => job'[w].tx = t0 /\ ThreadInv(w)',
         Truthful(t0, rows[t0].state)',
         PostingsBacked', PayOnlyCollected'
  PROVE  Inv'
<1>1. ASSUME NEW v \in Thread \ {w}, pc'[v] # "idle" PROVE ThreadInv(v)'
  <2>1. pc[v] # "idle" /\ ThreadInv(v)
    BY <1>1 DEF Inv, SpineInv
  <2>2. job[v].tx \in Tx
    BY <2>1, ThreadTypes DEF Inv
  <2>3. DepositKept(job[v].tx)
    BY <2>1, <2>2 DEF DepositKept
  <2>4. Known(job[v].tx) => Known(job[v].tx)'
    BY <2>2 DEF Known
  <2>5. Starting(v) => /\ rows'[job[v].tx] = rows[job[v].tx]
                       /\ \A u \in Thread \ {v} : pc'[u] # "idle" => job'[u].tx # job[v].tx
    BY <2>1, <2>2 DEF Starting
  <2>6. QED
    BY <2>1, <2>3, <2>4, <2>5, OtherThread DEF Inv
<1>2. \A t \in Tx : Known(t) => Known(t)'
  BY DEF Known
<1>3. ASSUME NEW v \in Thread, NEW p \in todo'[v] PROVE Known(p.tx)'
  <2>1. p \in todo[v]
    BY <1>3
  <2>2. p.tx \in Tx
    BY <2>1 DEF Inv, TypeOK, Item
  <2>3. Known(p.tx)
    BY <2>1 DEF Inv, SpineInv
  <2>4. QED
    BY <1>2, <2>2, <2>3 DEF Known
<1>4. \A t \in Tx : rows'[t] # None /\ rows'[t].ids # {} => Known(t)'
  BY DEF Inv, SpineInv, Known
<1>5. \A t \in Tx : rows'[t] = None => rail'[t]["deposit"] = "none"
  BY DEF Inv, SpineInv
<1>6. SpineInv'
  BY <1>1, <1>3, <1>4, <1>5 DEF SpineInv
<1>7. RowsTellTheTruth'
  BY DEF Inv, RowsTellTheTruth, Truthful, Succeeded
<1>8. QED
  BY <1>6, <1>7 DEF Inv

\* A thread about to apply an outcome found its leg by an op-id.
LEMMA FoundByOpId ==
  ASSUME Inv, NEW w \in Thread, NEW t \in Tx, NEW leg \in Leg,
         Known(t), Final(t, leg),
         pc'[w] = "guard",
         job'[w] = [tx |-> t, leg |-> leg, ok |-> Succeeded(t, leg)],
         rows' = rows, rail' = rail
  PROVE  ThreadInv(w)'
<1>1. Driving(w)'
  BY DEF Driving, Known, Holding
<1>2. leg # "deposit" => Succeeded(t, "deposit")
  BY DEF Inv, PayOnlyCollected, Final, Leg
<1>3. QED
  BY <1>1, <1>2 DEF ThreadInv, Holding, Final, Succeeded

\* Two threads on one transaction: neither is the one that created it.
LEMMA StarterAlone ==
  ASSUME Inv, NEW w \in Thread, pc[w] # "idle"
  PROVE  \A v \in Thread \ {w} : pc[v] # "idle" /\ Starting(v) => job[v].tx # job[w].tx
BY DEF Starting

LEMMA InvStart ==
  ASSUME Inv, TypeOK', NEW w \in Thread, NEW t \in Tx, StartTransaction(w, t)
  PROVE  Inv'
<1>1. PICK row \in Row : row = [state |-> "initiated", ids |-> {}]
  BY StatesNamed DEF Row
<1>2. row.state = "initiated" /\ row.ids = {} /\ row # None
  BY <1>1, RowFields
<1>3. /\ rows' = [rows EXCEPT ![t] = row]
      /\ rows[t] = None /\ rows'[t] = row
      /\ pc' = [pc EXCEPT ![w] = "begin"] /\ pc'[w] = "begin"
      /\ mem' = [mem EXCEPT ![w] = row] /\ mem'[w] = row
      /\ job' = [job EXCEPT ![w] = [tx |-> t, leg |-> "deposit", ok |-> TRUE]]
      /\ job'[w].tx = t /\ job'[w].leg = "deposit"
      /\ UNCHANGED <<postings, rail, todo, faults>>
  BY <1>1 DEF StartTransaction, Goto, Inv, TypeOK
<1>4. \A v \in Thread : pc[v] # "idle" => job[v].tx # t
  BY <1>3 DEF Inv, TypeOK, ThreadTypeOK
<1>5. Starting(w)'
  BY <1>2, <1>3, <1>4 DEF Starting, Inv, SpineInv, TypeOK
<1>6. Truthful(t, row.state)'
  BY <1>2 DEF Truthful, Collected
<1>7. ThreadInv(w)'
  BY <1>2, <1>3, <1>5, <1>6 DEF ThreadInv, Truthful, Succeeded
<1>8. PostingsBacked' /\ PayOnlyCollected'
  BY <1>3 DEF Inv, PostingsBacked, PayOnlyCollected, Succeeded
<1>9. Truthful(t, rows[t].state)'
  BY <1>3, <1>6 DEF Truthful
<1>10. RailGrows /\ DepositKept(t) /\ ~Known(t) /\ rows'[t].ids = {}
  BY <1>2, <1>3 DEF RailGrows, DepositKept, Known
<1>11. \A v \in Thread \ {w} : /\ pc'[v] = pc[v] /\ job'[v] = job[v] /\ mem'[v] = mem[v]
                               /\ todo'[v] = todo[v]
  BY <1>3 DEF Inv, TypeOK
<1>12. \A s \in Tx \ {t} : rows'[s] = rows[s] /\ rail'[s] = rail[s]
  BY <1>3 DEF Inv, TypeOK
<1>13. QED
  BY <1>2, <1>3, <1>4, <1>7, <1>8, <1>9, <1>10, <1>11, <1>12, Frame

LEMMA InvBegin ==
  ASSUME Inv, TypeOK', NEW w \in Thread, Begin(w)
  PROVE  Inv'
<1>1. /\ pc[w] = "begin" /\ job[w].leg \in Leg
      /\ mem[w] \in Row /\ ThreadInv(w)
      /\ AwaitingState[job[w].leg] \in TxState
  BY ThreadTypes, StateTables DEF Begin, Holding, Inv, SpineInv
<1>2. PICK t \in Tx : t = job[w].tx
  BY <1>1, ThreadTypes DEF Inv
<1>3. PICK row \in Row : row = [mem[w] EXCEPT !.state = AwaitingState[job[w].leg]]
  BY <1>1, RowFields
<1>4. row.state = AwaitingState[job[w].leg] /\ row.ids = mem[w].ids /\ row # None
  BY <1>1, <1>3, RowFields
<1>5. /\ rows' = [rows EXCEPT ![t] = row] /\ rows'[t] = row
      /\ pc' = [pc EXCEPT ![w] = "request"] /\ pc'[w] = "request"
      /\ mem' = [mem EXCEPT ![w] = row] /\ mem'[w] = row
      /\ UNCHANGED <<postings, rail, job, todo, faults>>
  BY <1>2, <1>3 DEF Begin, Save, Goto, Inv, TypeOK
<1>6. Truthful(t, row.state)'
  BY <1>1, <1>2, <1>4, <1>5 DEF ThreadInv, Truthful, AwaitingState, Leg, Collected, Succeeded
<1>7. Starting(w) => Starting(w)'
  BY <1>1, <1>2, <1>4, <1>5 DEF Starting, AwaitingState, Inv, TypeOK
<1>8. Driving(w) => Driving(w)'
  BY <1>1, <1>2, <1>4, <1>5 DEF Driving, Known, Holding
<1>9. ThreadInv(w)'
  BY <1>1, <1>2, <1>5, <1>6, <1>7, <1>8 DEF ThreadInv, Truthful, Succeeded
<1>10. PostingsBacked' /\ PayOnlyCollected'
  BY <1>5 DEF Inv, PostingsBacked, PayOnlyCollected, Succeeded
<1>11. Truthful(t, rows[t].state)'
  BY <1>5, <1>6 DEF Truthful
<1>12. RailGrows /\ DepositKept(t)
  BY <1>5 DEF RailGrows, DepositKept
<1>13. (Known(t) => Known(t)') /\ (rows'[t].ids # {} => Known(t)')
  BY <1>1, <1>2, <1>4, <1>5 DEF ThreadInv, Starting, Driving, Known, Holding
<1>14. \A v \in Thread \ {w} : /\ pc'[v] = pc[v] /\ job'[v] = job[v] /\ mem'[v] = mem[v]
                               /\ todo'[v] = todo[v]
  BY <1>5 DEF Inv, TypeOK
<1>15. \A s \in Tx \ {t} : rows'[s] = rows[s] /\ rail'[s] = rail[s]
  BY <1>5 DEF Inv, TypeOK
<1>16. \A v \in Thread \ {w} : pc[v] # "idle" /\ Starting(v) => job[v].tx # t
  BY <1>1, <1>2, StarterAlone
<1>17. QED
  BY <1>2, <1>4, <1>5, <1>9, <1>10, <1>11, <1>12, <1>13, <1>14, <1>15, <1>16, Frame

\* Any request to the rail, whether pawaPay takes it or not.
LEMMA RequestMoney ==
  ASSUME Inv, NEW w \in Thread, pc[w] = "request",
         NEW t \in Tx, NEW leg \in Leg, t = job[w].tx, leg = job[w].leg,
         \/ rail' = rail
         \/ /\ rail[t][leg] = "none"
            /\ rail' = [rail EXCEPT ![t][leg] = "accepted"],
         rows' = rows, postings' = postings
  PROVE  /\ RailGrows
         /\ DepositKept(t) \/ \A v \in Thread \ {w} : pc[v] # "idle" => job[v].tx # t
         /\ Truthful(t, rows[t].state)'
         /\ \A s \in Tx \ {t} : rows'[s] = rows[s] /\ rail'[s] = rail[s]
         /\ PostingsBacked' /\ PayOnlyCollected'
<1>1. ThreadInv(w)
  BY DEF Inv, SpineInv
<1>2. RailGrows
  <2>1. rail \in [Tx -> [Leg -> {"none", "accepted", "completed", "failed"}]]
    BY DEF Inv, TypeOK
  <2>2. ASSUME NEW u \in Tx, NEW l \in Leg, Final(u, l) PROVE rail'[u][l] = rail[u][l]
    BY <2>1, <2>2 DEF Final
  <2>3. QED
    BY <2>2 DEF RailGrows
<1>3. \A s \in Tx \ {t} : rows'[s] = rows[s] /\ rail'[s] = rail[s]
  BY DEF Inv, TypeOK
<1>4. leg # "deposit" => DepositKept(t)
  BY DEF DepositKept, Inv, TypeOK, Leg
<1>5. leg = "deposit" => Starting(w)
  BY <1>1 DEF ThreadInv, Driving
<1>6. \A s \in Tx, k \in Leg : Succeeded(s, k) => Succeeded(s, k)'
  BY <1>2 DEF RailGrows, Succeeded, Final
<1>7. Truthful(t, rows[t].state)'
  <2>1. Truthful(t, rows[t].state)
    BY <1>1, ThreadTypes DEF Inv, RowsTellTheTruth, TypeOK, ThreadTypeOK
  <2>2. CASE leg = "deposit"
    BY <1>5, <2>2 DEF Starting, Truthful, Collected
  <2>3. CASE leg # "deposit"
    BY <1>4, <1>6, <2>1, <2>3 DEF Truthful, DepositKept, Leg
  <2>4. QED
    BY <2>2, <2>3
<1>8. PostingsBacked'
  BY <1>6 DEF Inv, PostingsBacked
<1>9. PayOnlyCollected'
  <2>1. leg # "deposit" => Succeeded(t, "deposit")
    BY <1>1 DEF ThreadInv
  <2>2. ASSUME NEW s \in Tx, NEW k \in {"payout", "refund"}, rail'[s][k] # "none"
        PROVE  Succeeded(s, "deposit")
    <3>1. k \in Leg /\ k # "deposit"
      BY DEF Leg
    <3>2. (s = t /\ k = leg) \/ rail'[s][k] = rail[s][k]
      BY <3>1 DEF Inv, TypeOK
    <3>3. QED
      BY <2>1, <2>2, <3>1, <3>2 DEF Inv, PayOnlyCollected
  <2>3. QED
    BY <1>6, <2>2 DEF PayOnlyCollected, Leg
<1>10. QED
  BY <1>1, <1>2, <1>3, <1>4, <1>5, <1>7, <1>8, <1>9 DEF ThreadInv, Holding, Starting

LEMMA InvAccepted ==
  ASSUME Inv, TypeOK', NEW w \in Thread, RequestAccepted(w)
  PROVE  Inv'
<1>1. pc[w] = "request" /\ job[w] \in Job /\ mem[w] \in Row /\ ThreadInv(w)
  BY ThreadTypes DEF RequestAccepted, Holding, Inv, SpineInv
<1>2. PICK t \in Tx, leg \in Leg : t = job[w].tx /\ leg = job[w].leg
  BY <1>1, ThreadTypes DEF Inv
<1>3. /\ rail[t][leg] = "none"
      /\ rail' = [rail EXCEPT ![t][leg] = "accepted"]
      /\ pc' = [pc EXCEPT ![w] = "store_id"] /\ pc'[w] = "store_id"
      /\ UNCHANGED <<rows, postings, job, mem, todo, faults>>
  BY <1>2 DEF RequestAccepted, Goto, Inv, TypeOK
<1>4. /\ RailGrows
      /\ DepositKept(t) \/ \A v \in Thread \ {w} : pc[v] # "idle" => job[v].tx # t
      /\ Truthful(t, rows[t].state)'
      /\ \A s \in Tx \ {t} : rows'[s] = rows[s] /\ rail'[s] = rail[s]
      /\ PostingsBacked' /\ PayOnlyCollected'
  BY <1>1, <1>2, <1>3, RequestMoney
<1>5. \A v \in Thread \ {w} : pc[v] # "idle" /\ Starting(v) => job[v].tx # t
  BY <1>1, <1>2, StarterAlone
<1>6. Starting(w) => Starting(w)'
  BY <1>1, <1>3, <1>5 DEF Starting, Inv, TypeOK
<1>7. Driving(w) => Driving(w)'
  BY <1>1, <1>3 DEF Driving, Known, Holding
<1>8. Truthful(t, mem[w].state)'
  <2>1. CASE Starting(w)
    BY <1>1, <1>3, <2>1 DEF Starting, Truthful, Collected
  <2>2. CASE Driving(w)
    <3>1. leg # "deposit" /\ Truthful(t, mem[w].state)
      BY <1>1, <1>2, <2>2 DEF Driving, ThreadInv, Holding
    <3>2. rail'[t]["deposit"] = rail[t]["deposit"]
      BY <1>3, <3>1 DEF Inv, TypeOK, Leg
    <3>3. \A k \in Leg : Succeeded(t, k) => Succeeded(t, k)'
      BY <1>4 DEF RailGrows, Succeeded, Final
    <3>4. QED
      BY <1>3, <3>1, <3>2, <3>3 DEF Truthful, Leg
  <2>3. QED
    BY <1>1, <2>1, <2>2 DEF ThreadInv
<1>9. leg # "deposit" => Succeeded(t, "deposit")'
  BY <1>1, <1>2, <1>3, <1>4 DEF ThreadInv, RailGrows, Succeeded, Final, Leg
<1>10. ThreadInv(w)'
  BY <1>1, <1>2, <1>3, <1>6, <1>7, <1>8, <1>9 DEF ThreadInv, Truthful, Succeeded
<1>11. rows'[t] # None /\ (Known(t) => Known(t)') /\ (rows'[t].ids # {} => Known(t)')
  BY <1>1, <1>2, <1>3 DEF Known, Inv, SpineInv, TypeOK, ThreadTypeOK
<1>12. \A v \in Thread \ {w} : /\ pc'[v] = pc[v] /\ job'[v] = job[v] /\ mem'[v] = mem[v]
                              /\ todo'[v] = todo[v]
  BY <1>3 DEF Inv, TypeOK
<1>13. QED
  BY <1>2, <1>3, <1>4, <1>5, <1>10, <1>11, <1>12, Frame

LEMMA InvRejected ==
  ASSUME Inv, TypeOK', NEW w \in Thread, RequestRejected(w)
  PROVE  Inv'
<1>1. pc[w] = "request" /\ job[w] \in Job /\ mem[w] \in Row /\ ThreadInv(w)
  BY ThreadTypes DEF RequestRejected, Holding, Inv, SpineInv
<1>2. PICK t \in Tx, leg \in Leg : t = job[w].tx /\ leg = job[w].leg
  BY <1>1, ThreadTypes DEF Inv
<1>3. /\ pc' = [pc EXCEPT ![w] = "resolve"] /\ pc'[w] = "resolve"
      /\ job' = [job EXCEPT ![w] = [job[w] EXCEPT !.ok = FALSE]]
      /\ job'[w].tx = t /\ job'[w].leg = leg /\ job'[w].ok = FALSE
      /\ UNCHANGED <<rows, postings, rail, mem, todo, faults>>
  BY <1>1, <1>2 DEF RequestRejected, Goto, Inv, TypeOK, Job
<1>4. /\ RailGrows
      /\ DepositKept(t) \/ \A v \in Thread \ {w} : pc[v] # "idle" => job[v].tx # t
      /\ Truthful(t, rows[t].state)'
      /\ \A s \in Tx \ {t} : rows'[s] = rows[s] /\ rail'[s] = rail[s]
      /\ PostingsBacked' /\ PayOnlyCollected'
  BY <1>1, <1>2, <1>3, RequestMoney
<1>5. \A v \in Thread \ {w} : pc[v] # "idle" /\ Starting(v) => job[v].tx # t
  BY <1>1, <1>2, StarterAlone
<1>6. Starting(w) => Starting(w)'
  BY <1>1, <1>2, <1>3 DEF Starting, Inv, TypeOK
<1>7. Driving(w) => Driving(w)'
  BY <1>1, <1>2, <1>3 DEF Driving, Known, Holding
<1>8. leg = "deposit" => rail[t]["deposit"] = "none"
  BY <1>1, <1>2 DEF ThreadInv, Driving, Starting
<1>9. ThreadInv(w)'
  <2>1. (Starting(w) \/ Driving(w))'
    BY <1>1, <1>6, <1>7 DEF ThreadInv
  <2>2. leg # "deposit" => Succeeded(t, "deposit")'
    BY <1>1, <1>2, <1>3 DEF ThreadInv, Succeeded
  <2>3. leg = "deposit" => rail'[t]["deposit"] = "none"
    BY <1>3, <1>8
  <2>4. Truthful(t, mem[w].state)'
    BY <1>1, <1>2, <1>3 DEF ThreadInv, Truthful, Succeeded, Holding
  <2>5. QED
    BY <1>3, <2>1, <2>2, <2>3, <2>4 DEF ThreadInv
<1>10. rows'[t] # None /\ (Known(t) => Known(t)') /\ (rows'[t].ids # {} => Known(t)')
  BY <1>1, <1>2, <1>3 DEF Known, Inv, SpineInv, TypeOK, ThreadTypeOK
<1>11. \A v \in Thread \ {w} : /\ pc'[v] = pc[v] /\ job'[v] = job[v] /\ mem'[v] = mem[v]
                              /\ todo'[v] = todo[v]
  BY <1>3 DEF Inv, TypeOK
<1>12. QED
  BY <1>2, <1>3, <1>4, <1>5, <1>9, <1>10, <1>11, Frame

LEMMA InvRaises ==
  ASSUME Inv, TypeOK', NEW w \in Thread, RequestRaises(w)
  PROVE  Inv'
<1>1. pc[w] = "request" /\ job[w] \in Job
  BY ThreadTypes DEF RequestRaises, Inv
<1>2. PICK t \in Tx, leg \in Leg : t = job[w].tx /\ leg = job[w].leg
  BY <1>1, ThreadTypes DEF Inv
<1>3. /\ \/ rail' = rail
         \/ /\ rail[t][leg] = "none"
            /\ rail' = [rail EXCEPT ![t][leg] = "accepted"]
      /\ pc'[w] = "idle" /\ todo'[w] = {}
      /\ rows' = rows /\ postings' = postings
  BY <1>2 DEF RequestRaises, Return, Goto, Inv, TypeOK
<1>4. /\ RailGrows
      /\ DepositKept(t) \/ \A v \in Thread \ {w} : pc[v] # "idle" => job[v].tx # t
      /\ Truthful(t, rows[t].state)'
      /\ \A s \in Tx \ {t} : rows'[s] = rows[s] /\ rail'[s] = rail[s]
      /\ PostingsBacked' /\ PayOnlyCollected'
  BY <1>1, <1>2, <1>3, RequestMoney
<1>5. \A v \in Thread \ {w} : pc[v] # "idle" /\ Starting(v) => job[v].tx # t
  BY <1>1, <1>2, StarterAlone
<1>6. rows'[t] # None /\ (Known(t) => Known(t)') /\ (rows'[t].ids # {} => Known(t)')
  BY <1>1, <1>2, <1>3 DEF Known, Inv, SpineInv, TypeOK, ThreadTypeOK
<1>7. \A v \in Thread \ {w} : /\ pc'[v] = pc[v] /\ job'[v] = job[v] /\ mem'[v] = mem[v]
                              /\ todo'[v] = todo[v]
  BY DEF RequestRaises, Return, Goto, Inv, TypeOK
<1>8. QED
  BY <1>2, <1>3, <1>4, <1>5, <1>6, <1>7, Frame

\* A step that touches neither the rows nor pawaPay nor the ledger.
LEMMA MoneyUntouched ==
  ASSUME Inv, NEW t \in Tx, rows[t] # None, UNCHANGED <<rows, postings, rail>>
  PROVE  /\ RailGrows /\ DepositKept(t)
         /\ Truthful(t, rows[t].state)'
         /\ \A s \in Tx \ {t} : rows'[s] = rows[s] /\ rail'[s] = rail[s]
         /\ PostingsBacked' /\ PayOnlyCollected'
         /\ rows'[t] # None /\ (Known(t) => Known(t)') /\ (rows'[t].ids # {} => Known(t)')
<1>1. Truthful(t, rows[t].state)'
  BY DEF Inv, RowsTellTheTruth, Truthful, Succeeded
<1>2. PostingsBacked' /\ PayOnlyCollected'
  BY DEF Inv, PostingsBacked, PayOnlyCollected, Succeeded
<1>3. QED
  BY <1>1, <1>2 DEF RailGrows, DepositKept, Known, Inv, SpineInv

\* No starting thread is on a transaction that an op-id names.
LEMMA KnownNotStarting ==
  ASSUME NEW t, Known(t)
  PROVE  \A v \in Thread : Starting(v) => job[v].tx # t
BY DEF Known, Starting

LEMMA InvCallback ==
  ASSUME Inv, TypeOK', NEW w \in Thread, NEW t \in Tx, NEW leg \in Leg,
         ReceiveCallback(w, t, leg)
  PROVE  Inv'
<1>1. /\ rows[t] # None /\ Known(t) /\ Final(t, leg)
      /\ pc' = [pc EXCEPT ![w] = "guard"] /\ pc'[w] = "guard"
      /\ job'[w] = [tx |-> t, leg |-> leg, ok |-> Succeeded(t, leg)]
      /\ UNCHANGED <<rows, postings, rail, mem, todo, faults>>
  BY DEF ReceiveCallback, Goto, Inv, TypeOK, SpineInv
<1>2. ThreadInv(w)' /\ job'[w].tx = t
  BY <1>1, FoundByOpId
<1>3. \A v \in Thread \ {w} : /\ pc'[v] = pc[v] /\ job'[v] = job[v] /\ mem'[v] = mem[v]
                              /\ todo'[v] = todo[v]
  BY DEF ReceiveCallback, Goto, Inv, TypeOK
<1>4. QED
  BY <1>1, <1>2, <1>3, MoneyUntouched, KnownNotStarting, Frame

LEMMA InvPoll ==
  ASSUME Inv, TypeOK', NEW w \in Thread, NEW t \in Tx, NEW leg \in Leg,
         SweepPoll(w, t, leg)
  PROVE  Inv'
<1>1. Known(t) /\ rows[t] # None
  BY DEF SweepPoll, Inv, SpineInv, Known
<1>2. /\ Final(t, leg)
      /\ pc' = [pc EXCEPT ![w] = "guard"] /\ pc'[w] = "guard"
      /\ job'[w] = [tx |-> t, leg |-> leg, ok |-> Succeeded(t, leg)]
      /\ todo'[w] \subseteq todo[w]
      /\ UNCHANGED <<rows, postings, rail, mem, faults>>
  BY DEF SweepPoll, Goto, Inv, TypeOK
<1>3. ThreadInv(w)' /\ job'[w].tx = t
  BY <1>1, <1>2, FoundByOpId
<1>4. \A v \in Thread \ {w} : /\ pc'[v] = pc[v] /\ job'[v] = job[v] /\ mem'[v] = mem[v]
                              /\ todo'[v] = todo[v]
  BY DEF SweepPoll, Goto, Inv, TypeOK
<1>5. QED
  BY <1>1, <1>2, <1>3, <1>4, MoneyUntouched, KnownNotStarting, Frame

LEMMA InvGuard ==
  ASSUME Inv, TypeOK', NEW w \in Thread, Guard(w)
  PROVE  Inv'
<1>1. pc[w] = "guard" /\ ThreadInv(w) /\ Driving(w)
  BY DEF Guard, Inv, SpineInv, ThreadInv, Starting
<1>2. PICK t \in Tx : t = job[w].tx
  BY <1>1, ThreadTypes DEF Inv
<1>3. /\ UNCHANGED <<rows, postings, rail, todo, faults>>
      /\ pc'[w] = "idle" \/ (pc'[w] = "load" /\ UNCHANGED <<job, mem>>)
  BY <1>1 DEF Guard, Return, Goto, Inv, TypeOK
<1>4. pc'[w] # "idle" => job'[w].tx = t /\ ThreadInv(w)'
  BY <1>1, <1>2, <1>3 DEF ThreadInv, Driving, Known, Holding, Final, Succeeded
<1>5. \A v \in Thread \ {w} : /\ pc'[v] = pc[v] /\ job'[v] = job[v] /\ mem'[v] = mem[v]
                              /\ todo'[v] = todo[v]
  BY DEF Guard, Return, Goto, Inv, TypeOK
<1>6. rows[t] # None /\ \A v \in Thread \ {w} : pc[v] # "idle" /\ Starting(v) => job[v].tx # t
  BY <1>1, <1>2, StarterAlone DEF Driving, Known
<1>7. QED
  BY <1>2, <1>3, <1>4, <1>5, <1>6, MoneyUntouched, Frame

LEMMA InvLoad ==
  ASSUME Inv, TypeOK', NEW w \in Thread, Load(w)
  PROVE  Inv'
<1>1. pc[w] = "load" /\ ThreadInv(w) /\ Driving(w)
  BY DEF Load, Inv, SpineInv, ThreadInv, Starting
<1>2. PICK t \in Tx, leg \in Leg : t = job[w].tx /\ leg = job[w].leg
  BY <1>1, ThreadTypes DEF Inv
<1>3. /\ UNCHANGED <<rows, postings, rail, faults>>
      /\ todo'[w] \subseteq todo[w]
      /\ \/ pc'[w] = "idle"
         \/ pc'[w] = "resolve" /\ job'[w] = job[w] /\ mem'[w] = rows[t]
  BY <1>1, <1>2 DEF Load, Return, Goto, Inv, TypeOK
<1>4. rows[t] # None /\ "deposit" \in rows[t].ids
  BY <1>1, <1>2 DEF Driving, Known
<1>5. Truthful(t, rows[t].state)'
  BY <1>2, <1>3, <1>4, MoneyUntouched
<1>6. ASSUME pc'[w] = "resolve", job'[w] = job[w], mem'[w] = rows[t] PROVE ThreadInv(w)'
  <2>1. Driving(w)'
    BY <1>2, <1>3, <1>4, <1>6 DEF Driving, Known
  <2>2. Truthful(job[w].tx, mem[w].state)'
    BY <1>2, <1>3, <1>5, <1>6 DEF Truthful, Succeeded
  <2>3. QED
    BY <1>1, <1>3, <1>6, <2>1, <2>2 DEF ThreadInv, Final, Succeeded
<1>7. \A v \in Thread \ {w} : /\ pc'[v] = pc[v] /\ job'[v] = job[v] /\ mem'[v] = mem[v]
                              /\ todo'[v] = todo[v]
  BY DEF Load, Return, Goto, Inv, TypeOK
<1>8. \A v \in Thread \ {w} : pc[v] # "idle" /\ Starting(v) => job[v].tx # t
  BY <1>1, <1>2, StarterAlone
<1>9. QED
  BY <1>2, <1>3, <1>4, <1>6, <1>7, <1>8, MoneyUntouched, Frame

LEMMA InvStoreOpId ==
  ASSUME Inv, TypeOK', NEW w \in Thread, StoreOpId(w)
  PROVE  Inv'
<1>1. /\ pc[w] = "store_id" /\ mem[w] \in Row /\ ThreadInv(w)
  BY ThreadTypes DEF StoreOpId, Holding, Inv, SpineInv
<1>2. PICK t \in Tx, leg \in Leg : t = job[w].tx /\ leg = job[w].leg
  BY <1>1, ThreadTypes DEF Inv
<1>3. PICK row \in Row : row = [mem[w] EXCEPT !.ids = @ \cup {leg}]
  BY <1>1 DEF Row
<1>4. row.state = mem[w].state /\ row.ids = mem[w].ids \cup {leg} /\ row # None
  BY <1>1, <1>3, RowFields DEF Row
<1>5. /\ rows' = [rows EXCEPT ![t] = row] /\ rows'[t] = row
      /\ pc'[w] = "idle"
      /\ UNCHANGED <<postings, rail, todo, faults>>
  BY <1>2, <1>3 DEF StoreOpId, Return, Goto, Inv, TypeOK
<1>6. "deposit" \in row.ids
  BY <1>1, <1>2, <1>4 DEF ThreadInv, Starting, Driving, Holding
<1>7. Truthful(t, row.state)'
  BY <1>1, <1>2, <1>4, <1>5 DEF ThreadInv, Holding, Truthful, Succeeded
<1>8. Truthful(t, rows[t].state)' /\ Known(t)'
  BY <1>4, <1>5, <1>6, <1>7 DEF Truthful, Known
<1>9. PostingsBacked' /\ PayOnlyCollected'
  BY <1>5 DEF Inv, PostingsBacked, PayOnlyCollected, Succeeded
<1>10. RailGrows /\ DepositKept(t)
  BY <1>5 DEF RailGrows, DepositKept
<1>11. \A v \in Thread \ {w} : /\ pc'[v] = pc[v] /\ job'[v] = job[v] /\ mem'[v] = mem[v]
                              /\ todo'[v] = todo[v]
  BY DEF StoreOpId, Return, Goto, Inv, TypeOK
<1>12. \A s \in Tx \ {t} : rows'[s] = rows[s] /\ rail'[s] = rail[s]
  BY <1>5 DEF Inv, TypeOK
<1>13. \A v \in Thread \ {w} : pc[v] # "idle" /\ Starting(v) => job[v].tx # t
  BY <1>1, <1>2, StarterAlone
<1>14. QED
  BY <1>4, <1>5, <1>8, <1>9, <1>10, <1>11, <1>12, <1>13, Frame

LEMMA InvResolve ==
  ASSUME Inv, TypeOK', NEW w \in Thread, Resolve(w)
  PROVE  Inv'
<1>1. /\ pc[w] = "resolve" /\ mem[w] \in Row /\ ThreadInv(w)
  BY ThreadTypes DEF Resolve, Holding, Inv, SpineInv
<1>2. PICK t \in Tx, leg \in Leg, ok \in BOOLEAN :
        t = job[w].tx /\ leg = job[w].leg /\ ok = job[w].ok
  BY <1>1, ThreadTypes DEF Inv
<1>3. PICK row \in Row : row = [mem[w] EXCEPT !.state = OutcomeState(leg, ok)]
  BY <1>1, RowFields, StateTables
<1>4. row.state = OutcomeState(leg, ok) /\ row.ids = mem[w].ids /\ row # None
  BY <1>1, <1>3, RowFields, StateTables
<1>5. /\ rows' = [rows EXCEPT ![t] = row] /\ rows'[t] = row
      /\ UNCHANGED <<postings, rail, todo, faults>>
  BY <1>2, <1>3 DEF Resolve, Inv, TypeOK
<1>6. \/ /\ ok /\ pc'[w] = "post" /\ job'[w] = job[w] /\ mem'[w] = row
      \/ /\ ~ok /\ leg = "payout" /\ pc'[w] = "begin" /\ mem'[w] = row
         /\ job'[w].tx = t /\ job'[w].leg = "refund"
      \/ pc'[w] = "idle"
  BY <1>2, <1>3 DEF Resolve, BeginLeg, Return, Goto, Inv, TypeOK
<1>7. /\ leg # "deposit" => Succeeded(t, "deposit")
      /\ ok => Succeeded(t, leg)
      /\ ~ok /\ leg = "deposit" => rail[t]["deposit"] \in {"none", "failed"}
  BY <1>1, <1>2 DEF ThreadInv
<1>8. ASSUME NEW state, state = OutcomeState(leg, ok) PROVE Truthful(t, state)
  BY <1>7, <1>8 DEF OutcomeState, Truthful, Leg, Collected
<1>9. Truthful(t, row.state)'
  BY <1>4, <1>5, <1>8 DEF Truthful, Succeeded
<1>10. Starting(w) => ~ok /\ leg = "deposit" /\ mem[w].ids = {}
  BY <1>1, <1>2 DEF Starting
<1>11. Driving(w) => "deposit" \in row.ids
  BY <1>1, <1>4 DEF Driving, Holding
<1>12. ASSUME pc'[w] # "idle" PROVE job'[w].tx = t /\ ThreadInv(w)'
  <2>1. Driving(w) /\ "deposit" \in row.ids
    BY <1>1, <1>6, <1>10, <1>11, <1>12 DEF ThreadInv
  <2>2. Driving(w)'
    BY <1>2, <1>4, <1>5, <1>6, <1>12, <2>1 DEF Driving, Known
  <2>3. Truthful(job[w].tx, mem[w].state)'
    BY <1>2, <1>6, <1>9, <1>12 DEF Truthful, Succeeded
  <2>4. (leg # "deposit" => Succeeded(t, "deposit")') /\ (ok => Succeeded(t, leg)')
    BY <1>5, <1>7 DEF Succeeded
  <2>5. QED
    BY <1>2, <1>6, <1>12, <2>2, <2>3, <2>4 DEF ThreadInv
<1>13. Truthful(t, rows[t].state)'
  BY <1>5, <1>9 DEF Truthful
<1>14. (Known(t) => Known(t)') /\ (rows'[t].ids # {} => Known(t)')
  BY <1>1, <1>2, <1>4, <1>5, <1>10, <1>11 DEF ThreadInv, Starting, Known
<1>15. PostingsBacked' /\ PayOnlyCollected'
  BY <1>5 DEF Inv, PostingsBacked, PayOnlyCollected, Succeeded
<1>16. RailGrows /\ DepositKept(t)
  BY <1>5 DEF RailGrows, DepositKept
<1>17. \A v \in Thread \ {w} : /\ pc'[v] = pc[v] /\ job'[v] = job[v] /\ mem'[v] = mem[v]
                              /\ todo'[v] = todo[v]
  BY DEF Resolve, BeginLeg, Return, Goto, Inv, TypeOK
<1>18. \A s \in Tx \ {t} : rows'[s] = rows[s] /\ rail'[s] = rail[s]
  BY <1>5 DEF Inv, TypeOK
<1>19. \A v \in Thread \ {w} : pc[v] # "idle" /\ Starting(v) => job[v].tx # t
  BY <1>1, <1>2, StarterAlone
<1>20. QED
  BY <1>4, <1>5, <1>12, <1>13, <1>14, <1>15, <1>16, <1>17, <1>18, <1>19, Frame

LEMMA InvPostLeg ==
  ASSUME Inv, TypeOK', NEW w \in Thread, PostLeg(w)
  PROVE  Inv'
<1>1. /\ pc[w] = "post" /\ ThreadInv(w) /\ Driving(w)
  BY DEF PostLeg, Inv, SpineInv, ThreadInv, Starting
<1>2. PICK t \in Tx, leg \in Leg : t = job[w].tx /\ leg = job[w].leg
  BY <1>1, ThreadTypes DEF Inv
<1>3. /\ postings' = [postings EXCEPT ![t][leg] = @ + 1]
      /\ \/ /\ leg = "deposit" /\ pc'[w] = "begin" /\ mem'[w] = mem[w]
            /\ job'[w].tx = t /\ job'[w].leg = "payout"
         \/ pc'[w] = "idle"
      /\ UNCHANGED <<rows, rail, todo, faults>>
  BY <1>2 DEF PostLeg, BeginLeg, Return, Goto, Inv, TypeOK
<1>4. Succeeded(t, leg) /\ rows[t] # None
  BY <1>1, <1>2 DEF ThreadInv, Driving, Known
<1>5. PostingsBacked'
  BY <1>3, <1>4 DEF Inv, PostingsBacked, Succeeded, TypeOK
<1>6. PayOnlyCollected'
  BY <1>3 DEF Inv, PayOnlyCollected, Succeeded
<1>7. ASSUME pc'[w] # "idle" PROVE job'[w].tx = t /\ ThreadInv(w)'
  <2>1. Driving(w)'
    BY <1>1, <1>2, <1>3, <1>7 DEF Driving, Known, Holding
  <2>2. Truthful(job[w].tx, mem[w].state)'
    BY <1>1, <1>2, <1>3, <1>7 DEF ThreadInv, Holding, Truthful, Succeeded
  <2>3. QED
    BY <1>3, <1>4, <1>7, <2>1, <2>2 DEF ThreadInv, Succeeded
<1>8. Truthful(t, rows[t].state)'
  BY <1>3, <1>4 DEF Inv, RowsTellTheTruth, Truthful, Succeeded
<1>9. RailGrows /\ DepositKept(t)
  BY <1>3 DEF RailGrows, DepositKept
<1>10. (Known(t) => Known(t)') /\ (rows'[t].ids # {} => Known(t)')
  BY <1>3, <1>4 DEF Known, Inv, SpineInv
<1>11. \A v \in Thread \ {w} : /\ pc'[v] = pc[v] /\ job'[v] = job[v] /\ mem'[v] = mem[v]
                              /\ todo'[v] = todo[v]
  BY DEF PostLeg, BeginLeg, Return, Goto, Inv, TypeOK
<1>12. \A v \in Thread \ {w} : pc[v] # "idle" /\ Starting(v) => job[v].tx # t
  BY <1>1, <1>2, StarterAlone
<1>13. QED
  BY <1>3, <1>4, <1>5, <1>6, <1>7, <1>8, <1>9, <1>10, <1>11, <1>12, Frame

LEMMA InvSettles ==
  ASSUME Inv, TypeOK', NEW t \in Tx, NEW leg \in Leg, RailSettles(t, leg)
  PROVE  Inv'
<1>1. PICK s \in {"completed", "failed"} :
        /\ rail[t][leg] = "accepted"
        /\ rail' = [rail EXCEPT ![t][leg] = s]
        /\ UNCHANGED <<rows, postings, pc, job, mem, todo, faults>>
  BY DEF RailSettles
<1>2. \A x \in Tx, k \in Leg : rail[x][k] # "accepted" => rail'[x][k] = rail[x][k]
  BY <1>1 DEF Inv, TypeOK
<1>3. RailGrows /\ \A x \in Tx : DepositKept(x)
  BY <1>2 DEF RailGrows, DepositKept, Final, Leg
<1>4. ASSUME NEW v \in Thread, pc'[v] # "idle" PROVE ThreadInv(v)'
  <2>1. pc[v] # "idle" /\ ThreadInv(v) /\ job[v].tx \in Tx
    BY <1>1, <1>4, ThreadTypes DEF Inv, SpineInv
  <2>2. QED
    BY <1>1, <1>3, <2>1, OtherThread DEF Inv, Known, Starting
<1>5. SpineInv'
  BY <1>1, <1>2, <1>4 DEF Inv, SpineInv, Known, Leg
<1>6. \A x \in Tx, k \in Leg : Succeeded(x, k) => Succeeded(x, k)'
  BY <1>2 DEF Succeeded
<1>7. PostingsBacked'
  BY <1>1, <1>6 DEF Inv, PostingsBacked
<1>8. PayOnlyCollected'
  <2>1. \A x \in Tx, k \in {"payout", "refund"} : rail'[x][k] # "none" => rail[x][k] # "none"
    BY <1>1 DEF Inv, TypeOK
  <2>2. QED
    BY <1>6, <2>1 DEF Inv, PayOnlyCollected, Leg
<1>9. RowsTellTheTruth'
  <2>1. ASSUME NEW x \in Tx, rows'[x] # None PROVE Truthful(x, rows[x].state)'
    BY <1>1, <1>3, <1>6, <2>1 DEF Inv, RowsTellTheTruth, Truthful, DepositKept, Leg
  <2>2. QED
    BY <2>1 DEF RowsTellTheTruth
<1>10. QED
  BY <1>5, <1>7, <1>8, <1>9 DEF Inv

LEMMA InvSweepBegin ==
  ASSUME Inv, TypeOK', NEW w \in Thread, SweepBegin(w)
  PROVE  Inv'
<1>1. \A p \in PendingLegs : Known(p.tx)
  BY DEF PendingLegs, Item, Inv, SpineInv
<1>2. /\ todo' = [todo EXCEPT ![w] = PendingLegs]
      /\ UNCHANGED <<rows, postings, rail, pc, job, mem, faults>>
  BY DEF SweepBegin
<1>3. \A v \in Thread : \A p \in todo'[v] : Known(p.tx)'
  BY <1>1, <1>2 DEF Inv, SpineInv, TypeOK, Known
<1>4. ASSUME NEW v \in Thread, pc'[v] # "idle" PROVE ThreadInv(v)'
  <2>1. ThreadInv(v)
    BY <1>2, <1>4 DEF Inv, SpineInv
  <2>2. QED
    BY <1>2, <2>1 DEF ThreadInv, Starting, Driving, Known, Truthful, Final, Succeeded
<1>5. SpineInv'
  BY <1>2, <1>3, <1>4 DEF Inv, SpineInv, Known
<1>6. QED
  BY <1>2, <1>5
     DEF Inv, PostingsBacked, PayOnlyCollected, RowsTellTheTruth, Truthful, Succeeded

\* A poll skipped, or nothing at all: no handler starts.
LEMMA InvIdle ==
  ASSUME Inv, TypeOK', UNCHANGED <<rows, postings, rail, pc, job, mem, faults>>,
         \A v \in Thread : todo'[v] \subseteq todo[v]
  PROVE  Inv'
<1>1. ASSUME NEW v \in Thread, pc'[v] # "idle" PROVE ThreadInv(v)'
  <2>1. ThreadInv(v)
    BY <1>1 DEF Inv, SpineInv
  <2>2. QED
    BY <2>1 DEF ThreadInv, Starting, Driving, Known, Truthful, Final, Succeeded
<1>2. SpineInv'
  BY <1>1 DEF Inv, SpineInv, Known
<1>3. QED
  BY <1>2 DEF Inv, PostingsBacked, PayOnlyCollected, RowsTellTheTruth, Truthful, Succeeded

LEMMA InvCrash ==
  ASSUME Inv, TypeOK', Crash
  PROVE  Inv'
<1>1. /\ UNCHANGED <<rows, postings, rail>>
      /\ \A v \in Thread : pc'[v] = "idle" /\ todo'[v] = {}
  BY DEF Crash
<1>2. SpineInv'
  BY <1>1 DEF Inv, SpineInv, Known
<1>3. QED
  BY <1>1, <1>2
     DEF Inv, PostingsBacked, PayOnlyCollected, RowsTellTheTruth, Truthful, Succeeded

LEMMA InvStep == Inv /\ [Next]_vars => Inv'
<1> SUFFICES ASSUME Inv, [Next]_vars PROVE Inv'
  OBVIOUS
<1>1. TypeOK'
  BY TypeStep DEF Inv
<1>2. ASSUME NEW w \in Thread, NEW t \in Tx, StartTransaction(w, t) PROVE Inv'
  BY <1>1, <1>2, InvStart
<1>3. ASSUME NEW w \in Thread, HandlerStep(w) PROVE Inv'
  BY <1>1, <1>3, InvBegin, InvAccepted, InvRejected, InvStoreOpId, InvGuard, InvLoad,
     InvResolve, InvPostLeg DEF HandlerStep
<1>4. ASSUME NEW w \in Thread, RequestRaises(w) PROVE Inv'
  BY <1>1, <1>4, InvRaises
<1>5. ASSUME NEW w \in Thread, SweepBegin(w) PROVE Inv'
  BY <1>1, <1>5, InvSweepBegin
<1>6. ASSUME NEW w \in Thread, NEW t \in Tx, NEW leg \in Leg, ReceiveCallback(w, t, leg)
      PROVE Inv'
  BY <1>1, <1>6, InvCallback
<1>7. ASSUME NEW w \in Thread, NEW t \in Tx, NEW leg \in Leg, SweepPoll(w, t, leg)
      PROVE Inv'
  BY <1>1, <1>7, InvPoll
<1>8. ASSUME NEW w \in Thread, NEW t \in Tx, NEW leg \in Leg, SweepSkip(w, t, leg)
      PROVE Inv'
  <2>1. \A v \in Thread : todo'[v] \subseteq todo[v]
    BY <1>8 DEF SweepSkip, Inv, TypeOK
  <2>2. QED
    BY <1>1, <1>8, <2>1, InvIdle DEF SweepSkip
<1>9. ASSUME NEW t \in Tx, NEW leg \in Leg, RailSettles(t, leg) PROVE Inv'
  BY <1>1, <1>9, InvSettles
<1>10. CASE Crash
  BY <1>1, <1>10, InvCrash
<1>11. CASE UNCHANGED vars
  BY <1>1, <1>11, InvIdle DEF vars
<1>12. QED
  BY <1>2, <1>3, <1>4, <1>5, <1>6, <1>7, <1>8, <1>9, <1>10, <1>11 DEF Next

\* What busy threads know of their rows is true at every moment, and so are the
\* properties that rest on it (orchestrator.py, outcomes.py, sweep.py).
THEOREM InvAlways == Spec => []Inv
<1>1. QED
  BY InitInv, InvStep, PTL DEF Spec

-----------------------------------------------------------------------------
\* The ledger never records a movement of money that pawaPay did not complete,
\* however webhook and sweep interleave in apply_outcome and the on_*_result
\* handlers, whatever stale rows they save and wherever the process dies.
THEOREM PostingsAreBacked == Spec => []PostingsBacked
<1>1. Inv => PostingsBacked
  BY DEF Inv
<1>2. QED
  BY <1>1, InvAlways, PTL

\* A payout or a refund is only ever requested from pawaPay for a payment whose
\* deposit pawaPay completed (_begin_payout, _begin_refund).
THEOREM OnlyCollectedIsPaid == Spec => []PayOnlyCollected
<1>1. Inv => PayOnlyCollected
  BY DEF Inv
<1>2. QED
  BY <1>1, InvAlways, PTL

\* No stored row claims a collection, a payout or a refund that pawaPay did not
\* complete, nor a failed collection whose money was taken, although handlers
\* save whole rows over each other.
THEOREM RowsAreTrue == Spec => []RowsTellTheTruth
<1>1. Inv => RowsTellTheTruth
  BY DEF Inv
<1>2. QED
  BY <1>1, InvAlways, PTL

\* A refund request always carries the deposit's op-id (rail.py request_refund
\* raises without it).
THEOREM RefundsNameTheirDeposit == Spec => []RefundNamesDeposit
<1>1. Inv => RefundNamesDeposit
  BY DEF Inv, SpineInv, ThreadInv, Starting, Driving, Holding, RefundNamesDeposit
<1>2. QED
  BY <1>1, InvAlways, PTL

-----------------------------------------------------------------------------
(* When one thread plays every role.  The tables first, leg by leg. *)

LEMMA Outcomes ==
  /\ OutcomeState("deposit", TRUE) = "collection_succeeded"
  /\ OutcomeState("payout", TRUE) = "payout_succeeded"
  /\ OutcomeState("refund", TRUE) = "refunded"
  /\ OutcomeState("deposit", FALSE) = "collection_failed"
  /\ OutcomeState("payout", FALSE) = "payout_failed"
  /\ OutcomeState("refund", FALSE) = "manual_review"
BY DEF OutcomeState

LEMMA LegCases == ASSUME NEW leg \in Leg PROVE leg = "deposit" \/ leg = "payout" \/ leg = "refund"
BY DEF Leg

\* A successful leg's state books it and awaits nothing.
LEMMA OutcomeBooked ==
  ASSUME NEW leg \in Leg
  PROVE  /\ OutcomeState(leg, TRUE) \in Booked[leg]
         /\ \A l \in Leg : OutcomeState(leg, TRUE) # AwaitingState[l]
<1>1. OutcomeState(leg, TRUE) \in {"collection_succeeded", "payout_succeeded", "refunded"}
  BY LegCases, Outcomes
<1>2. \A l \in Leg : AwaitingState[l] \in {"collection_pending", "payout_pending", "refund_pending"}
  BY DEF Leg, AwaitingState
<1>3. /\ Booked["deposit"] = Collected
      /\ Booked["payout"] = {"payout_succeeded"}
      /\ Booked["refund"] = {"refunded"}
  BY DEF Booked
<1>4. "collection_succeeded" \in Collected
  BY DEF Collected
<1>5. OutcomeState(leg, TRUE) \in Booked[leg]
  BY <1>3, <1>4, LegCases, Outcomes
<1>6. QED
  BY <1>1, <1>2, <1>5

\* What SerialInv says of the one thread and of a row it finds.
LEMMA AtWork ==
  ASSUME TypeOK, SerialInv, NEW w \in Thread, pc[w] # "idle"
  PROVE  /\ job[w].tx \in Tx /\ job[w].leg \in Leg
         /\ rows[job[w].tx] \in Row /\ rows[job[w].tx] # None
         /\ SerialThread(w)
         /\ SerialRow(job[w].tx)
BY ThreadTypes, RowFields DEF SerialInv

-----------------------------------------------------------------------------
LEMMA InitSerial == Init => SerialInv
BY DEF Init, SerialInv

\* A step of thread w on transaction t0 keeps the invariant if w and the row of
\* t0 are right after it: nobody else is at work.
LEMMA SerialFrame ==
  ASSUME NEW CONSTANT S, Serial, TypeOK, SerialInv, WholeBut(S),
         NEW w \in Thread, NEW t0 \in Tx,
         pc[w] # "idle" => job[w].tx = t0,
         \A t \in Tx \ {t0} :
           rows'[t] = rows[t] /\ rail'[t] = rail[t] /\ postings'[t] = postings[t],
         pc'[w] # "idle" => SerialThread(w)',
         rows'[t0] # None,
         SerialRow(t0)',
         t0 \notin S => WholeRow(t0)'
  PROVE  SerialInv' /\ WholeBut(S)'
<1>1. \A v \in Thread : pc'[v] # "idle" => SerialThread(v)'
  BY DEF Serial
<1>2. ASSUME NEW t \in Tx \ {t0}, rows'[t] = None
      PROVE  \A leg \in Leg : rail'[t][leg] = "none" /\ postings'[t][leg] = 0
  BY <1>2 DEF SerialInv
<1>3. ASSUME NEW t \in Tx \ {t0}, rows'[t] # None
      PROVE  SerialRow(t)' /\ (t \notin S => WholeRow(t)')
  <2>1. SerialRow(t)'
    BY <1>3 DEF SerialInv, SerialRow
  <2>2. \A places \in SUBSET (Place \ {"idle"}), leg \in Leg : ~Working(places, t, leg)
    BY DEF Working, Serial
  <2>4. ASSUME t \notin S, NEW leg \in Leg
        PROVE  /\ rows[t].state \in Booked[leg] => postings[t][leg] = 1
               /\ rows[t].state = AwaitingState[leg] => leg \in rows[t].ids
    BY <1>3, <2>2, <2>4 DEF WholeBut, WholeRow, Place
  <2>5. t \notin S => WholeRow(t)'
    BY <2>4 DEF WholeRow
  <2>6. QED
    BY <2>1, <2>5
<1>4. QED
  BY <1>1, <1>2, <1>3 DEF SerialInv, WholeBut

\* A step that only touches the sweep's worklist.
LEMMA SerialIdle ==
  ASSUME NEW CONSTANT S, TypeOK, SerialInv, WholeBut(S),
         UNCHANGED <<rows, rail, postings, pc, job, mem>>
  PROVE  SerialInv' /\ WholeBut(S)'
<1>0. /\ rows' = rows /\ rail' = rail /\ postings' = postings
      /\ pc' = pc /\ job' = job /\ mem' = mem
  OBVIOUS
<1>1. ASSUME NEW w \in Thread PROVE SerialThread(w)' <=> SerialThread(w)
  BY <1>0 DEF SerialThread
<1>2. \A t \in Tx : SerialRow(t) => SerialRow(t)'
  BY DEF SerialRow
<1>3. \A t \in Tx : WholeRow(t) => WholeRow(t)'
  BY DEF WholeRow, Working
<1>4. QED
  BY <1>1, <1>2, <1>3 DEF SerialInv, WholeBut

\* A crash cuts one payment short at most: nobody was at work on another.
LEMMA SerialCrash ==
  ASSUME NEW CONSTANT S, Serial, TypeOK, SerialInv, WholeBut(S), Crash
  PROVE  SerialInv' /\ \E t \in Tx : WholeBut(S \cup {t})'
<1>1. PICK w \in Thread : pc[w] # "idle"
  BY DEF Crash
<1>2. PICK t \in Tx : t = job[w].tx
  BY <1>1, ThreadTypes
<1>3. UNCHANGED <<rows, rail, postings>> /\ \A v \in Thread : pc'[v] = "idle"
  BY DEF Crash
<1>4. ASSUME NEW u \in Tx \ (S \cup {t}), rows'[u] # None PROVE WholeRow(u)'
  <2>1. WholeRow(u)
    BY <1>3, <1>4 DEF WholeBut
  <2>2. \A places \in SUBSET Place, leg \in Leg : ~Working(places, u, leg)
    BY <1>2 DEF Working, Serial
  <2>3. QED
    BY <1>3, <2>1, <2>2 DEF WholeRow, Place
<1>5. \A u \in Tx : SerialRow(u) => SerialRow(u)'
  BY <1>3 DEF SerialRow
<1>6. SerialInv'
  BY <1>3, <1>5 DEF SerialInv
<1>7. QED
  BY <1>4, <1>6 DEF WholeBut

LEMMA SerialStart ==
  ASSUME NEW CONSTANT S, Serial, TypeOK, SerialInv, WholeBut(S),
         NEW w \in Thread, NEW t \in Tx, StartTransaction(w, t)
  PROVE  SerialInv' /\ WholeBut(S)'
<1> DEFINE row == [state |-> "initiated", ids |-> {}]
<1>1. /\ pc[w] = "idle" /\ rows[t] = None
      /\ rows' = [rows EXCEPT ![t] = row] /\ row \in Row /\ row # None
      /\ pc' = [pc EXCEPT ![w] = "begin"]
      /\ job' = [job EXCEPT ![w] = [tx |-> t, leg |-> "deposit", ok |-> TRUE]]
      /\ mem' = [mem EXCEPT ![w] = row]
      /\ UNCHANGED <<postings, rail, faults>>
  BY StatesNamed, SpineAssumption DEF StartTransaction, Goto, Row
<1>2. rows'[t] = row /\ row.state = "initiated"
  BY <1>1 DEF TypeOK
<1> HIDE DEF row
<1>3. \A leg \in Leg : rail'[t][leg] = "none" /\ postings'[t][leg] = 0
  BY <1>1 DEF SerialInv
<1>4. SerialRow(t)'
  BY <1>2, <1>3 DEF SerialRow, Booked, Collected
<1>5. WholeRow(t)'
  BY <1>2, LegCases DEF WholeRow, Booked, Collected, AwaitingState
<1>6. job'[w].tx = t /\ job'[w].leg = "deposit" /\ mem'[w] = row /\ pc'[w] = "begin"
  BY <1>1 DEF TypeOK
<1>7. SerialThread(w)'
  BY <1>2, <1>6 DEF SerialThread, BeginState, Holding
<1>8. \A u \in Tx \ {t} : rows'[u] = rows[u]
  BY <1>1 DEF TypeOK
<1>9. QED
  BY <1>1, <1>2, <1>4, <1>5, <1>7, <1>8, SerialFrame

LEMMA SerialBegin ==
  ASSUME NEW CONSTANT S, Serial, TypeOK, SerialInv, WholeBut(S),
         NEW w \in Thread, Begin(w)
  PROVE  SerialInv' /\ WholeBut(S)'
<1>1. PICK t \in Tx, leg \in Leg : t = job[w].tx /\ leg = job[w].leg
  BY AtWork DEF Begin
<1>2. /\ pc[w] = "begin"
      /\ mem[w] = rows[t] /\ rows[t] \in Row
      /\ rows[t].state = BeginState[leg]
      /\ leg # "deposit" => postings[t]["deposit"] = 1
      /\ SerialRow(t)
      /\ t \notin S => WholeRow(t)
  BY <1>1, AtWork DEF Begin, SerialThread, Holding, WholeBut
<1>3. PICK row \in Row : row = [mem[w] EXCEPT !.state = AwaitingState[leg]]
  BY <1>2, StateTables, RowFields
<1>4. row # None /\ row.state = AwaitingState[leg] /\ row.ids = rows[t].ids
  BY <1>2, <1>3, StateTables, RowFields
<1>5. /\ rows' = [rows EXCEPT ![t] = row] /\ rows'[t] = row
      /\ mem'[w] = row /\ pc'[w] = "request" /\ job'[w] = job[w]
      /\ UNCHANGED <<postings, rail, faults>>
  BY <1>1, <1>3 DEF Begin, Save, Goto, TypeOK
<1>6. rail[t][leg] = "none"
  BY <1>2, LegCases DEF SerialRow, BeginState, Before
<1>7. SerialRow(t)'
  <2>1. CASE leg = "deposit"
    BY <1>2, <1>4, <1>5, <2>1
    DEF SerialRow, BeginState, Before, Booked, Collected, AwaitingState, Leg
  <2>2. CASE leg = "payout"
    BY <1>2, <1>4, <1>5, <2>2
    DEF SerialRow, BeginState, Before, Booked, Collected, AwaitingState, Leg
  <2>3. CASE leg = "refund"
    BY <1>2, <1>4, <1>5, <2>3
    DEF SerialRow, BeginState, Before, Booked, Collected, AwaitingState, Leg
  <2>4. QED
    BY <2>1, <2>2, <2>3, LegCases
<1>8. t \notin S => WholeRow(t)'
  <2>1. Working({"request", "store_id", "resolve"}, t, leg)'
    BY <1>1, <1>5 DEF Working
  <2>2. \A l \in Leg : rows'[t].state = AwaitingState[l] => l = leg
    BY <1>4, <1>5, LegCases DEF AwaitingState
  <2>3. \A l \in Leg : rows'[t].state \in Booked[l] => postings[t][l] = 1
    BY <1>2, <1>4, <1>5, LegCases DEF AwaitingState, Booked, Collected, SerialRow, BeginState
  <2>4. QED
    BY <1>5, <2>1, <2>2, <2>3 DEF WholeRow
<1>9. SerialThread(w)'
  BY <1>1, <1>4, <1>5, <1>6 DEF SerialThread
<1>10. \A u \in Tx \ {t} : rows'[u] = rows[u]
  BY <1>5 DEF TypeOK
<1>11. QED
  BY <1>1, <1>2, <1>4, <1>5, <1>7, <1>8, <1>9, <1>10, SerialFrame

\* What a request finds.
LEMMA AtRequest ==
  ASSUME TypeOK, SerialInv, NEW w \in Thread, pc[w] = "request",
         NEW t \in Tx, NEW leg \in Leg, t = job[w].tx, leg = job[w].leg
  PROVE  /\ rows[t] # None /\ rows[t].state = AwaitingState[leg] /\ mem[w] = rows[t]
         /\ SerialRow(t)
         /\ rail[t][leg] = "none"
         /\ \A l \in Leg : /\ rows[t].state \in Booked[l] => postings[t][l] = 1
                           /\ rows[t].state = AwaitingState[l] => l = leg
<1>1. SerialThread(w) /\ SerialRow(t) /\ rows[t] # None
  BY AtWork
<1>2. rows[t].state = AwaitingState[leg] /\ mem[w] = rows[t] /\ rail[t][leg] = "none"
  BY <1>1 DEF SerialThread, Holding
<1>3. \A l \in Leg : rows[t].state = AwaitingState[l] => l = leg
  BY <1>2, LegCases DEF AwaitingState
<1>4. ASSUME NEW l \in Leg, rows[t].state \in Booked[l] PROVE postings[t][l] = 1
  BY <1>1, <1>2, <1>4, LegCases DEF SerialRow, AwaitingState, Booked, Collected
<1>5. QED
  BY <1>1, <1>2, <1>3, <1>4 DEF TypeOK

\* Whatever a request leaves at pawaPay, the row of its leg still tells it.
LEMMA SerialRequest ==
  ASSUME TypeOK, SerialInv, NEW w \in Thread, pc[w] = "request",
         NEW t \in Tx, NEW leg \in Leg, t = job[w].tx, leg = job[w].leg,
         \/ rail' = rail
         \/ rail' = [rail EXCEPT ![t][leg] = "accepted"],
         rows' = rows, postings' = postings
  PROVE  SerialRow(t)' /\ \A u \in Tx \ {t} : rail'[u] = rail[u]
<1>1. SerialRow(t) /\ rows[t].state = AwaitingState[leg]
  BY AtRequest
<1>2. \A l \in Leg : rail'[t][l] = rail[t][l] \/ l = leg
  BY DEF TypeOK
<1>3. rows[t].state \notin Before[leg] /\ (leg = "payout" => rows[t].state = "payout_pending")
  BY <1>1, LegCases DEF Before, AwaitingState
<1>4. SerialRow(t)'
  BY <1>1, <1>2, <1>3 DEF SerialRow, Leg
<1>5. QED
  BY <1>4 DEF TypeOK

LEMMA SerialAccepted ==
  ASSUME NEW CONSTANT S, Serial, TypeOK, SerialInv, WholeBut(S),
         NEW w \in Thread, RequestAccepted(w)
  PROVE  SerialInv' /\ WholeBut(S)'
<1>1. PICK t \in Tx, leg \in Leg : t = job[w].tx /\ leg = job[w].leg
  BY AtWork DEF RequestAccepted
<1>2. /\ pc[w] = "request" /\ pc'[w] = "store_id"
      /\ rail' = [rail EXCEPT ![t][leg] = "accepted"]
      /\ UNCHANGED <<rows, postings, job, mem, faults>>
  BY <1>1 DEF RequestAccepted, Goto, TypeOK
<1>3. /\ rows[t] # None /\ rows[t].state = AwaitingState[leg] /\ mem[w] = rows[t]
      /\ \A l \in Leg : /\ rows[t].state \in Booked[l] => postings[t][l] = 1
                        /\ rows[t].state = AwaitingState[l] => l = leg
  BY <1>1, <1>2, AtRequest
<1>4. SerialRow(t)' /\ \A u \in Tx \ {t} : rail'[u] = rail[u]
  BY <1>1, <1>2, SerialRequest
<1>5. Working({"request", "store_id", "resolve"}, t, leg)'
  BY <1>1, <1>2 DEF Working
<1>6. WholeRow(t)'
  BY <1>2, <1>3, <1>5 DEF WholeRow
<1>7. SerialThread(w)'
  BY <1>1, <1>2, <1>3 DEF SerialThread
<1>8. QED
  BY <1>1, <1>2, <1>3, <1>4, <1>6, <1>7, SerialFrame

LEMMA SerialRejected ==
  ASSUME NEW CONSTANT S, Serial, TypeOK, SerialInv, WholeBut(S),
         NEW w \in Thread, RequestRejected(w)
  PROVE  SerialInv' /\ WholeBut(S)'
<1>1. PICK t \in Tx, leg \in Leg : t = job[w].tx /\ leg = job[w].leg
  BY AtWork DEF RequestRejected
<1>2. /\ pc[w] = "request" /\ pc'[w] = "resolve"
      /\ job'[w].tx = t /\ job'[w].leg = leg
      /\ UNCHANGED <<rows, rail, postings, mem, faults>>
  BY <1>1, ThreadTypes DEF RequestRejected, Goto, TypeOK, Job
<1>3. /\ rows[t] # None /\ rows[t].state = AwaitingState[leg] /\ mem[w] = rows[t]
      /\ rail[t][leg] = "none"
      /\ \A l \in Leg : /\ rows[t].state \in Booked[l] => postings[t][l] = 1
                        /\ rows[t].state = AwaitingState[l] => l = leg
  BY <1>1, <1>2, AtRequest
<1>4. SerialRow(t)'
  BY <1>1, <1>2, SerialRequest
<1>5. WholeRow(t)'
  BY <1>2, <1>3 DEF WholeRow, Working
<1>6. SerialThread(w)'
  BY <1>2, <1>3 DEF SerialThread
<1>7. QED
  BY <1>1, <1>2, <1>3, <1>4, <1>5, <1>6, SerialFrame

\* A call that raises cuts its payment short.
LEMMA SerialRaises ==
  ASSUME NEW CONSTANT S, Serial, TypeOK, SerialInv, WholeBut(S),
         NEW w \in Thread, RequestRaises(w)
  PROVE  SerialInv' /\ \E t \in Tx : WholeBut(S \cup {t})'
<1>1. PICK t \in Tx, leg \in Leg : t = job[w].tx /\ leg = job[w].leg
  BY AtWork DEF RequestRaises
<1>2. /\ pc[w] = "request" /\ pc'[w] = "idle"
      /\ rail' = rail \/ rail' = [rail EXCEPT ![t][leg] = "accepted"]
      /\ UNCHANGED <<rows, postings>>
  BY <1>1 DEF RequestRaises, Return, Goto, TypeOK
<1>3. SerialRow(t)' /\ rows[t] # None /\ \A u \in Tx \ {t} : rail'[u] = rail[u]
  BY <1>1, <1>2, AtRequest, SerialRequest
<1>4. WholeBut(S \cup {t})
  BY DEF WholeBut
<1>5. SerialInv' /\ WholeBut(S \cup {t})'
  BY <1>1, <1>2, <1>3, <1>4, SerialFrame
<1>6. QED
  BY <1>5

LEMMA SerialStoreOpId ==
  ASSUME NEW CONSTANT S, Serial, TypeOK, SerialInv, WholeBut(S),
         NEW w \in Thread, StoreOpId(w)
  PROVE  SerialInv' /\ WholeBut(S)'
<1>1. PICK t \in Tx, leg \in Leg : t = job[w].tx /\ leg = job[w].leg
  BY AtWork DEF StoreOpId
<1>2. /\ pc[w] = "store_id" /\ mem[w] = rows[t] /\ rows[t] \in Row
      /\ rows[t].state = AwaitingState[leg]
      /\ SerialRow(t)
      /\ t \notin S => WholeRow(t)
  BY <1>1, AtWork DEF StoreOpId, SerialThread, Holding, WholeBut
<1>3. PICK row \in Row : row = [mem[w] EXCEPT !.ids = @ \cup {job[w].leg}]
  BY <1>1, <1>2 DEF Row
<1>4. row # None /\ row.state = rows[t].state /\ row.ids = rows[t].ids \cup {leg}
  BY <1>1, <1>2, <1>3, RowFields DEF Row
<1>5. /\ rows' = [rows EXCEPT ![t] = row] /\ rows'[t] = row /\ pc'[w] = "idle"
      /\ UNCHANGED <<rail, postings, faults>>
  BY <1>1, <1>3 DEF StoreOpId, Return, Goto, TypeOK
<1>6. SerialRow(t)'
  BY <1>2, <1>4, <1>5 DEF SerialRow
<1>7. t \notin S => WholeRow(t)'
  <2>1. \A l \in Leg : rows'[t].state = AwaitingState[l] => l \in rows'[t].ids
    BY <1>2, <1>4, <1>5, LegCases DEF AwaitingState
  <2>2. \A l \in Leg : ~Working({"post"}, t, l)
    BY <1>2 DEF Working, Serial
  <2>3. t \notin S => \A l \in Leg : rows[t].state \in Booked[l] => postings[t][l] = 1
    BY <1>2, <2>2 DEF WholeRow
  <2>4. QED
    BY <1>4, <1>5, <2>1, <2>3 DEF WholeRow
<1>8. \A u \in Tx \ {t} : rows'[u] = rows[u]
  BY <1>5 DEF TypeOK
<1>9. QED
  BY <1>1, <1>4, <1>5, <1>6, <1>7, <1>8, SerialFrame

\* A step that changes nothing but what thread w is at, outside of a request
\* and a posting.
LEMMA SerialMoves ==
  ASSUME NEW CONSTANT S, Serial, TypeOK, SerialInv, WholeBut(S),
         NEW w \in Thread, NEW t \in Tx, rows[t] # None,
         pc[w] \in {"idle", "guard", "load"},
         pc[w] # "idle" => job[w].tx = t,
         UNCHANGED <<rows, rail, postings, faults>>,
         pc'[w] # "idle" => SerialThread(w)'
  PROVE  SerialInv' /\ WholeBut(S)'
<1>1. \A places \in SUBSET (Place \ {"idle", "guard", "load"}), l \in Leg : ~Working(places, t, l)
  BY DEF Working, Serial
<1>2. SerialRow(t) /\ (t \notin S => WholeRow(t))
  BY DEF SerialInv, WholeBut
<1>3. SerialRow(t)'
  BY <1>2 DEF SerialRow
<1>4. t \notin S => \A l \in Leg :
        /\ rows[t].state \in Booked[l] => postings[t][l] = 1
        /\ rows[t].state = AwaitingState[l] => l \in rows[t].ids
  BY <1>1, <1>2 DEF WholeRow, Place
<1>5. t \notin S => WholeRow(t)'
  BY <1>4 DEF WholeRow
<1>6. QED
  BY <1>3, <1>5, SerialFrame

\* A callback, or a poll, hands a leg to apply_outcome.
LEMMA SerialReceive ==
  ASSUME NEW CONSTANT S, Serial, TypeOK, SerialInv, WholeBut(S),
         NEW w \in Thread, NEW t \in Tx, rows[t] # None,
         pc[w] = "idle", pc' = [pc EXCEPT ![w] = "guard"],
         UNCHANGED <<rows, rail, postings, faults>>
  PROVE  SerialInv' /\ WholeBut(S)'
<1>1. pc'[w] = "guard"
  BY DEF TypeOK
<1>2. SerialThread(w)'
  BY <1>1 DEF SerialThread, Holding
<1>3. QED
  BY <1>2, SerialMoves

LEMMA SerialGuard ==
  ASSUME NEW CONSTANT S, Serial, TypeOK, SerialInv, WholeBut(S),
         NEW w \in Thread, Guard(w)
  PROVE  SerialInv' /\ WholeBut(S)'
<1>1. PICK t \in Tx : t = job[w].tx /\ rows[t] # None
  BY AtWork DEF Guard
<1>2. /\ pc[w] = "guard" /\ UNCHANGED <<rows, rail, postings, faults>>
      /\ \/ pc'[w] = "idle"
         \/ /\ pc'[w] = "load" /\ job'[w] = job[w]
            /\ rows[job[w].tx].state = AwaitingState[job[w].leg]
  BY DEF Guard, Goto, Return, TypeOK
<1>3. pc'[w] # "idle" => SerialThread(w)'
  BY <1>2 DEF SerialThread, Holding
<1>4. QED
  BY <1>1, <1>2, <1>3, SerialMoves

\* The outcome the handler loads the row for is pawaPay's (Inv).
LEMMA SerialLoad ==
  ASSUME NEW CONSTANT S, Serial, Inv, SerialInv, WholeBut(S), NEW w \in Thread, Load(w)
  PROVE  SerialInv' /\ WholeBut(S)'
<1>1. PICK t \in Tx : t = job[w].tx /\ rows[t] # None
  BY AtWork DEF Load, Inv
<1>2. /\ pc[w] = "load" /\ UNCHANGED <<rows, rail, postings, faults>>
      /\ \/ pc'[w] = "idle"
         \/ pc'[w] = "resolve" /\ job'[w] = job[w] /\ mem'[w] = rows[job[w].tx]
  BY DEF Load, Goto, Return, Inv, TypeOK
<1>3. rows[job[w].tx].state = AwaitingState[job[w].leg]
  BY <1>2 DEF SerialInv, SerialThread
<1>4. ~job[w].ok => rail[job[w].tx][job[w].leg] \in {"none", "failed"}
  BY <1>2 DEF Inv, SpineInv, ThreadInv, Final, Succeeded
<1>5. pc'[w] # "idle" => SerialThread(w)'
  BY <1>2, <1>3, <1>4 DEF SerialThread
<1>6. QED
  BY <1>1, <1>2, <1>5, SerialMoves DEF Inv

LEMMA SerialResolve ==
  ASSUME NEW CONSTANT S, Serial, TypeOK, SerialInv, WholeBut(S),
         NEW w \in Thread, Resolve(w)
  PROVE  SerialInv' /\ WholeBut(S)'
<1>1. PICK t \in Tx, leg \in Leg, ok \in BOOLEAN :
        t = job[w].tx /\ leg = job[w].leg /\ ok = job[w].ok
  BY ThreadTypes DEF Resolve
<1>2. /\ pc[w] = "resolve" /\ mem[w] = rows[t] /\ rows[t] \in Row
      /\ rows[t].state = AwaitingState[leg]
      /\ ~ok => rail[t][leg] \in {"none", "failed"}
      /\ SerialRow(t)
      /\ t \notin S => WholeRow(t)
  BY <1>1, AtWork DEF Resolve, SerialThread, Holding, WholeBut
<1>3. PICK row \in Row : row = [mem[w] EXCEPT !.state = OutcomeState(leg, ok)]
  BY <1>2, StateTables, RowFields
<1>4. row # None /\ row.state = OutcomeState(leg, ok) /\ row.ids = rows[t].ids
  BY <1>2, <1>3, StateTables, RowFields
<1>5. /\ rows' = [rows EXCEPT ![t] = row] /\ rows'[t] = row
      /\ UNCHANGED <<rail, postings, faults>>
      /\ ok => pc'[w] = "post" /\ job'[w] = job[w] /\ mem'[w] = row
      /\ ~ok /\ leg = "payout" =>
           /\ pc'[w] = "begin" /\ mem'[w] = row
           /\ job'[w].tx = t /\ job'[w].leg = "refund"
      /\ ~ok /\ leg # "payout" => pc'[w] = "idle"
  <2>1. /\ rows' = [rows EXCEPT ![t] = row] /\ UNCHANGED <<rail, postings, faults>>
        /\ IF ok THEN mem' = [mem EXCEPT ![w] = row] /\ Goto(w, "post") /\ job' = job
           ELSE IF leg = "payout" THEN mem' = [mem EXCEPT ![w] = row] /\ BeginLeg(w, "refund")
           ELSE Return(w)
    BY <1>1, <1>3 DEF Resolve
  <2>2. /\ rows \in [Tx -> Row \cup {None}] /\ pc \in [Thread -> Place]
        /\ job \in [Thread -> Job \cup {None}] /\ mem \in [Thread -> Row \cup {None}]
    BY DEF TypeOK
  <2>3. rows'[t] = row
    BY <2>1, <2>2
  <2>4. ok => pc'[w] = "post" /\ job'[w] = job[w] /\ mem'[w] = row
    BY <2>1, <2>2 DEF Goto
  <2>5. ~ok /\ leg = "payout" =>
           /\ pc'[w] = "begin" /\ mem'[w] = row
           /\ job'[w] = [tx |-> job[w].tx, leg |-> "refund", ok |-> TRUE]
    BY <2>1, <2>2 DEF BeginLeg, Goto
  <2>6. ~ok /\ leg # "payout" => pc'[w] = "idle"
    BY <2>1, <2>2 DEF Return, Goto
  <2>7. QED
    BY <1>1, <2>1, <2>3, <2>4, <2>5, <2>6
<1>6. \A l \in Leg : /\ rail'[t][l] = rail[t][l] /\ postings'[t][l] = postings[t][l]
  BY <1>5
<1>7. \A l \in Leg : rows[t].state \in Booked[l] /\ t \notin S => postings[t][l] = 1
  BY <1>2, LegCases DEF SerialRow, AwaitingState, Booked, Collected
<1>8. row.state \notin {"collection_pending", "payout_pending", "refund_pending"}
  BY <1>4, LegCases, Outcomes
<1>9. SerialRow(t)'
  <2>1. CASE leg = "deposit"
    <3>1. row.state \in {"collection_succeeded", "collection_failed"}
      BY <1>4, <2>1, Outcomes
    <3>2. QED
      BY <1>2, <1>5, <1>6, <2>1, <3>1
      DEF SerialRow, AwaitingState, Before, Booked, Collected, Leg
  <2>2. CASE leg = "payout"
    <3>1. row.state = IF ok THEN "payout_succeeded" ELSE "payout_failed"
      BY <1>4, <2>2, Outcomes
    <3>2. QED
      BY <1>2, <1>5, <1>6, <2>2, <3>1
      DEF SerialRow, AwaitingState, Before, Booked, Collected, Leg
  <2>3. CASE leg = "refund"
    <3>1. row.state \in {"refunded", "manual_review"}
      BY <1>4, <2>3, Outcomes
    <3>2. QED
      BY <1>2, <1>5, <1>6, <2>3, <3>1
      DEF SerialRow, AwaitingState, Before, Booked, Collected, Leg
  <2>4. QED
    BY <2>1, <2>2, <2>3, LegCases
<1>10. pc'[w] # "idle" => SerialThread(w)'
  <2>1. CASE ok
    <3>1. row.state = OutcomeState(leg, TRUE) /\ postings[t][leg] = 0
      BY <1>2, <1>4, <2>1, LegCases DEF SerialRow, AwaitingState, Booked, Collected
    <3>2. QED
      BY <1>1, <1>5, <1>6, <2>1, <3>1 DEF SerialThread
  <2>2. CASE ~ok /\ leg = "payout"
    <3>1. row.state = "payout_failed" /\ postings[t]["deposit"] = 1
      BY <1>2, <1>4, <2>2, Outcomes DEF SerialRow, AwaitingState, Collected
    <3>2. /\ pc'[w] = "begin" /\ mem'[w] = row /\ job'[w].tx = t /\ job'[w].leg = "refund"
          /\ postings'[t]["deposit"] = 1
      BY <1>5, <2>2, <3>1
    <3>3. QED
      BY <1>5, <3>1, <3>2 DEF SerialThread, BeginState
  <2>3. CASE ~ok /\ leg # "payout"
    BY <1>5, <2>3
  <2>4. QED
    BY <2>1, <2>2, <2>3
<1>11. t \notin S => WholeRow(t)'
  <2>1. ASSUME NEW l \in Leg, row.state \in Booked[l], ~(ok /\ l = leg)
        PROVE  rows[t].state \in Booked[l]
    <3>1. row.state = OutcomeState(leg, TRUE) => ok
      BY <1>4, LegCases, Outcomes
    <3>2. l = "deposit" \/ row.state = OutcomeState(l, TRUE)
      <4>1. l = "payout" => row.state = "payout_succeeded"
        BY <2>1 DEF Booked
      <4>2. l = "refund" => row.state = "refunded"
        BY <2>1 DEF Booked
      <4>3. QED
        BY <4>1, <4>2, LegCases, Outcomes
    <3>3. l # leg => row.state # OutcomeState(l, TRUE)
      BY <1>4, LegCases, Outcomes
    <3>4. l = "deposit"
      BY <2>1, <3>1, <3>2, <3>3
    <3>5. leg # "deposit"
      BY <1>4, <2>1, <3>4, Outcomes DEF Booked, Collected
    <3>6. leg = "payout" \/ leg = "refund"
      BY <3>5, LegCases
    <3>7. AwaitingState["payout"] = "payout_pending" /\ AwaitingState["refund"] = "refund_pending"
      BY DEF AwaitingState
    <3>8. rows[t].state \in {"payout_pending", "refund_pending"}
      BY <1>2, <3>6, <3>7
    <3>9. rows[t].state \in Collected
      BY <3>8 DEF Collected
    <3>10. Booked["deposit"] = Collected
      BY DEF Booked
    <3>11. QED
      BY <3>4, <3>9, <3>10
  <2>2. ok => Working({"post"}, t, leg)'
    BY <1>1, <1>5 DEF Working
  <2>3. \A l \in Leg : row.state # AwaitingState[l]
    BY <1>8, LegCases DEF AwaitingState
  <2>4. QED
    BY <1>5, <1>6, <1>7, <2>1, <2>2, <2>3 DEF WholeRow
<1>12. \A u \in Tx \ {t} : rows'[u] = rows[u]
  BY <1>5 DEF TypeOK
<1>13. QED
  BY <1>1, <1>2, <1>4, <1>5, <1>9, <1>10, <1>11, <1>12, SerialFrame

LEMMA SerialPostLeg ==
  ASSUME NEW CONSTANT S, Serial, TypeOK, SerialInv, WholeBut(S),
         NEW w \in Thread, PostLeg(w)
  PROVE  SerialInv' /\ WholeBut(S)'
<1>1. PICK t \in Tx, leg \in Leg : t = job[w].tx /\ leg = job[w].leg
  BY AtWork DEF PostLeg
<1>2. /\ pc[w] = "post" /\ mem[w] = rows[t] /\ rows[t] # None
      /\ rows[t].state = OutcomeState(leg, TRUE) /\ postings[t][leg] = 0
      /\ SerialRow(t)
      /\ t \notin S => WholeRow(t)
  BY <1>1, AtWork DEF PostLeg, SerialThread, Holding, WholeBut
<1>3. /\ postings' = [postings EXCEPT ![t][leg] = @ + 1]
      /\ UNCHANGED <<rows, rail, faults>>
      /\ leg = "deposit" => /\ pc'[w] = "begin" /\ mem'[w] = mem[w]
                            /\ job'[w].tx = t /\ job'[w].leg = "payout"
      /\ leg # "deposit" => pc'[w] = "idle"
  BY <1>1 DEF PostLeg, BeginLeg, Return, Goto, TypeOK
<1>4. postings'[t][leg] = 1 /\ \A l \in Leg \ {leg} : postings'[t][l] = postings[t][l]
  BY <1>2, <1>3 DEF TypeOK
<1>5. rows[t].state \in Booked[leg]
  BY <1>2, OutcomeBooked
<1>6. SerialRow(t)'
  <2>1. \A l \in Leg : postings'[t][l] <= 1 /\ (postings[t][l] = 1 => postings'[t][l] = 1)
    <3>1. \A l \in Leg : postings[t][l] <= 1
      BY <1>2 DEF SerialRow
    <3>2. QED
      BY <1>4, <3>1
  <2>2. \A l \in Leg : rows[t].state \notin Booked[l] => postings'[t][l] = 0
    BY <1>2, <1>4, <1>5 DEF SerialRow
  <2>3. "deposit" \in Leg
    BY DEF Leg
  <2>4. QED
    BY <1>2, <1>3, <2>1, <2>2, <2>3 DEF SerialRow
<1>7. SerialThread(w)' \/ pc'[w] = "idle"
  <2>1. CASE leg = "deposit"
    <3>1. rows[t].state = "collection_succeeded"
      BY <1>2, <2>1, Outcomes
    <3>2. /\ pc'[w] = "begin" /\ mem'[w] = rows'[t]
          /\ job'[w].tx = t /\ job'[w].leg = "payout" /\ postings'[t]["deposit"] = 1
      BY <1>2, <1>3, <1>4, <2>1
    <3>3. QED
      BY <1>3, <3>1, <3>2 DEF SerialThread, BeginState
  <2>2. QED
    BY <1>3, <2>1
<1>8. t \notin S => WholeRow(t)'
  <2>1. \A l \in Leg : rows[t].state # AwaitingState[l]
    BY <1>2, OutcomeBooked
  <2>2. \A l \in Leg \ {leg} : ~Working({"post"}, t, l)
    BY <1>1 DEF Working, Serial
  <2>3. t \notin S => \A l \in Leg \ {leg} : rows[t].state \in Booked[l] => postings[t][l] = 1
    BY <1>2, <2>2 DEF WholeRow
  <2>4. QED
    BY <1>3, <1>4, <2>1, <2>3 DEF WholeRow
<1>9. \A u \in Tx \ {t} : postings'[u] = postings[u]
  BY <1>3 DEF TypeOK
<1>10. QED
  BY <1>1, <1>2, <1>3, <1>6, <1>7, <1>8, <1>9, SerialFrame

\* pawaPay settles what it accepted: no row's leg is "none", or failed, by it.
LEMMA SerialSettles ==
  ASSUME NEW CONSTANT S, TypeOK, SerialInv, WholeBut(S),
         NEW t \in Tx, NEW leg \in Leg, RailSettles(t, leg)
  PROVE  SerialInv' /\ WholeBut(S)'
<1>1. /\ rail[t][leg] = "accepted"
      /\ UNCHANGED <<rows, postings, pc, job, mem, todo, faults>>
  BY DEF RailSettles
<1>2. \A u \in Tx, l \in Leg : rail[u][l] \in {"none", "failed"} => rail'[u][l] = rail[u][l]
  BY DEF RailSettles, TypeOK
<1>3. \A w \in Thread : pc'[w] # "idle" => SerialThread(w)'
  <2>1. ASSUME NEW w \in Thread, pc'[w] # "idle" PROVE SerialThread(w)'
    <3>1. SerialThread(w) /\ job[w].tx \in Tx /\ job[w].leg \in Leg
      BY <1>1, <2>1, AtWork
    <3>2. QED
      BY <1>1, <1>2, <3>1 DEF SerialThread
  <2>2. QED
    BY <2>1
<1>4. \A u \in Tx : SerialRow(u) => SerialRow(u)'
  BY <1>1, <1>2 DEF SerialRow, Leg
<1>5. \A u \in Tx : WholeRow(u) => WholeRow(u)'
  BY <1>1 DEF WholeRow, Working
<1>6. QED
  BY <1>1, <1>2, <1>3, <1>4, <1>5 DEF SerialInv, WholeBut

-----------------------------------------------------------------------------
\* The steps that are no faults.
LEMMA SerialStep ==
  ASSUME NEW CONSTANT S, Serial, Inv, SerialInv, WholeBut(S), [Next]_vars,
         ~Crash, \A w \in Thread : ~RequestRaises(w)
  PROVE  SerialInv' /\ WholeBut(S)'
<1> DEFINE Goal == SerialInv' /\ WholeBut(S)'
<1>1. TypeOK /\ SpineInv
  BY DEF Inv
<1>2. ASSUME NEW w \in Thread, HandlerStep(w) PROVE Goal
  BY <1>1, <1>2, SerialBegin, SerialAccepted, SerialRejected, SerialStoreOpId, SerialGuard,
     SerialLoad, SerialResolve, SerialPostLeg DEF HandlerStep
<1>3. ASSUME NEW w \in Thread, SweepBegin(w) PROVE Goal
  BY <1>1, <1>3, SerialIdle DEF SweepBegin
<1>4. ASSUME NEW w \in Thread, NEW t \in Tx, StartTransaction(w, t) PROVE Goal
  BY <1>1, <1>4, SerialStart
<1>5. ASSUME NEW w \in Thread, NEW t \in Tx, NEW leg \in Leg, ReceiveCallback(w, t, leg)
      PROVE Goal
  BY <1>1, <1>5, SerialReceive DEF ReceiveCallback, Goto
<1>6. ASSUME NEW w \in Thread, NEW t \in Tx, NEW leg \in Leg, SweepPoll(w, t, leg)
      PROVE Goal
  <2>1. rows[t] # None
    <3>1. \A p \in todo[w] : rows[p.tx] # None
      BY <1>1 DEF TypeOK, ThreadTypeOK
    <3>2. QED
      BY <1>6, <3>1 DEF SweepPoll
  <2>2. QED
    BY <1>1, <1>6, <2>1, SerialReceive DEF SweepPoll, Goto
<1>7. ASSUME NEW w \in Thread, NEW t \in Tx, NEW leg \in Leg, SweepSkip(w, t, leg)
      PROVE Goal
  BY <1>1, <1>7, SerialIdle DEF SweepSkip
<1>8. ASSUME NEW t \in Tx, NEW leg \in Leg, RailSettles(t, leg) PROVE Goal
  BY <1>1, <1>8, SerialSettles
<1>9. ASSUME UNCHANGED vars PROVE Goal
  BY <1>1, <1>9, SerialIdle DEF vars
<1> HIDE DEF Goal
<1>10. Goal
  BY <1>2, <1>3, <1>4, <1>5, <1>6, <1>7, <1>8, <1>9 DEF Next
<1>11. QED
  BY <1>10 DEF Goal

\* Every step, with the set of the payments cut short: a fault adds one to it.
LEMMA CutStep ==
  ASSUME Serial, Inv, SerialInv, FaultsCut, [Next]_vars
  PROVE  SerialInv' /\ FaultsCut'
<1>1. PICK S \in SUBSET Tx : IsFiniteSet(S) /\ Cardinality(S) <= faults /\ WholeBut(S)
  BY DEF FaultsCut
<1>2. TypeOK /\ faults \in Nat /\ Cardinality(S) \in Nat
  BY <1>1, SpineAssumption, FS_CardinalityType DEF Inv, TypeOK
<1>3. ASSUME SerialInv', faults' = faults + 1, NEW t \in Tx, WholeBut(S \cup {t})'
      PROVE  SerialInv' /\ FaultsCut'
  <2>1. /\ S \cup {t} \in SUBSET Tx /\ IsFiniteSet(S \cup {t})
        /\ Cardinality(S \cup {t}) <= Cardinality(S) + 1
    <3>1. IsFiniteSet(S)
      BY <1>1
    <3>2. /\ IsFiniteSet(S \cup {t})
          /\ Cardinality(S \cup {t}) = IF t \in S THEN Cardinality(S) ELSE Cardinality(S) + 1
      BY <3>1, FS_AddElement
    <3>3. QED
      BY <1>1, <1>2, <3>2
  <2>2. Cardinality(S \cup {t}) <= faults'
    BY <1>1, <1>2, <1>3, <2>1, FS_CardinalityType
  <2>3. QED
    BY <1>3, <2>1, <2>2 DEF FaultsCut
<1>4. CASE Crash
  BY <1>1, <1>2, <1>3, <1>4, SerialCrash DEF Crash
<1>5. ASSUME NEW w \in Thread, RequestRaises(w) PROVE SerialInv' /\ FaultsCut'
  BY <1>1, <1>2, <1>3, <1>5, SerialRaises DEF RequestRaises
<1>6. CASE ~Crash /\ \A w \in Thread : ~RequestRaises(w)
  <2>1. SerialInv' /\ WholeBut(S)'
    BY <1>1, <1>6, SerialStep
  <2>2. faults' = faults
    <3>1. ASSUME NEW w \in Thread, HandlerStep(w) PROVE faults' = faults
      BY <3>1 DEF HandlerStep, Begin, RequestAccepted, RequestRejected, StoreOpId, Guard,
         Load, Resolve, PostLeg
    <3>2. ASSUME NEW w \in Thread, SweepBegin(w) PROVE faults' = faults
      BY <3>2 DEF SweepBegin
    <3>3. ASSUME NEW w \in Thread, NEW t \in Tx, StartTransaction(w, t) PROVE faults' = faults
      BY <3>3 DEF StartTransaction
    <3>4. ASSUME NEW w \in Thread, NEW t \in Tx, NEW leg \in Leg,
                 ReceiveCallback(w, t, leg) \/ SweepPoll(w, t, leg) \/ SweepSkip(w, t, leg)
          PROVE  faults' = faults
      BY <3>4 DEF ReceiveCallback, SweepPoll, SweepSkip
    <3>5. ASSUME NEW t \in Tx, NEW leg \in Leg, RailSettles(t, leg) PROVE faults' = faults
      BY <3>5 DEF RailSettles
    <3>6. UNCHANGED vars => faults' = faults
      BY DEF vars
    <3>7. QED
      BY <1>6, <3>1, <3>2, <3>3, <3>4, <3>5, <3>6 DEF Next
  <2>3. QED
    BY <1>1, <2>1, <2>2 DEF FaultsCut
<1>7. QED
  BY <1>4, <1>5, <1>6

\* With one thread the row and the place of its handler determine operations and
\* postings, at every moment, but for as many payments as there were faults
\* (orchestrator.py).
THEOREM SerialAlways == ASSUME Serial PROVE Spec => [](Inv /\ SerialInv /\ FaultsCut)
<1>1. Init => FaultsCut
  BY FS_EmptySet DEF Init, FaultsCut, WholeBut
<1>2. Init => Inv /\ SerialInv /\ FaultsCut
  BY <1>1, InitInv, InitSerial
<1>3. Inv /\ SerialInv /\ FaultsCut /\ [Next]_vars => (Inv /\ SerialInv /\ FaultsCut)'
  BY InvStep, CutStep
<1>4. QED
  BY <1>2, <1>3, PTL DEF Spec

-----------------------------------------------------------------------------
\* With handlers one at a time, no leg is posted twice, however often its outcome
\* is delivered or polled and wherever handlers are cut short (apply_outcome).
THEOREM BookedOnceSerially == ASSUME Serial PROVE Spec => []BookedOnce
<1>1. TypeOK /\ SerialInv => BookedOnce
  BY DEF SerialInv, SerialRow, BookedOnce
<1>2. Inv => TypeOK
  BY DEF Inv
<1>3. QED
  BY <1>1, <1>2, SerialAlways, PTL

LEMMA OneWay == ASSUME SerialInv, TypeOK PROVE MoneyGoesOneWay
<1> SUFFICES ASSUME NEW t \in Tx, rail[t]["refund"] # "none"
             PROVE  rail[t]["payout"] \in {"none", "failed"}
  BY DEF MoneyGoesOneWay
<1>1. rows[t] \in Row /\ SerialRow(t) /\ "refund" \in Leg
  BY DEF SerialInv, TypeOK, Leg
<1>2. rows[t].state \notin Before["refund"]
  BY <1>1 DEF SerialRow
<1>3. rows[t].state \in {"refund_pending", "refunded", "manual_review"}
  BY <1>1, <1>2, RowFields, StatesNamed DEF Before
<1>4. QED
  BY <1>1, <1>3 DEF SerialRow

\* With handlers one at a time, a payment that is refunded is not paid out as well
\* (_begin_refund after the rail's rejection or a failed outcome).
THEOREM OneWaySerially == ASSUME Serial PROVE Spec => []MoneyGoesOneWay
<1>1. SerialInv /\ TypeOK => MoneyGoesOneWay
  BY OneWay
<1>2. Inv => TypeOK
  BY DEF Inv
<1>3. QED
  BY <1>1, <1>2, SerialAlways, PTL

LEMMA NobodyAt ==
  ASSUME TypeOK, NEW t \in Tx, Quiet(t), NEW leg \in Leg, NEW places \in SUBSET (Place \ {"idle"})
  PROVE  ~Working(places, t, leg)
BY JobFields DEF Working, Quiet, TypeOK, ThreadTypeOK

\* As many payments as there were faults, and no more, may lack something at rest.
LEMMA NoMoreThanFaults ==
  ASSUME TypeOK, FaultsCut, NEW Odd \in SUBSET Tx,
         \A t \in Odd : rows[t] # None /\ ~WholeRow(t)
  PROVE  Cardinality(Odd) <= faults
<1>1. PICK S \in SUBSET Tx : IsFiniteSet(S) /\ Cardinality(S) <= faults /\ WholeBut(S)
  BY DEF FaultsCut
<1>2. Odd \subseteq S
  BY <1>1 DEF WholeBut
<1>3. Cardinality(Odd) <= Cardinality(S) /\ IsFiniteSet(Odd)
  BY <1>1, <1>2, FS_Subset
<1>4. Cardinality(Odd) \in Nat /\ Cardinality(S) \in Nat /\ faults \in Nat
  BY <1>1, <1>3, FS_CardinalityType, SpineAssumption DEF TypeOK
<1>5. QED
  BY <1>1, <1>3, <1>4

\* With handlers one at a time, wherever they are cut short, the books are never
\* ahead of the row, no leg goes out for a deposit that is not booked, and a fault
\* leaves one payment out of step (the save and the posting of
\* on_collection_result, on_payout_result and on_refund_result).
THEOREM LockStepSerially == ASSUME Serial PROVE Spec => []LockStepButCut
<1>1. ASSUME SerialInv, TypeOK, NEW t \in Tx, rows[t] # None
      PROVE  /\ \A leg \in Leg : postings[t][leg] > 0 => rows[t].state \in Booked[leg]
             /\ rows[t].state \in Collected \ {"collection_succeeded"} =>
                  postings[t]["deposit"] > 0
  <2>1. SerialRow(t)
    BY <1>1 DEF SerialInv
  <2>2. QED
    BY <2>1 DEF SerialRow
<1>2. ASSUME SerialInv, TypeOK, NEW t \in Tx, Quiet(t), WholeRow(t) PROVE InLockStep(t)
  <2>1. SerialRow(t)
    BY <1>2 DEF SerialInv, Quiet
  <2>2. \A leg \in Leg : ~Working({"post"}, t, leg)
    BY <1>2, NobodyAt DEF Place
  <2>3. ASSUME NEW leg \in Leg PROVE (postings[t][leg] > 0) = (rows[t].state \in Booked[leg])
    <3>1. rows[t].state \in Booked[leg] => postings[t][leg] = 1
      BY <1>2, <2>2 DEF WholeRow
    <3>2. rows[t].state \notin Booked[leg] => postings[t][leg] = 0
      BY <2>1 DEF SerialRow
    <3>3. QED
      BY <3>1, <3>2
  <2>4. /\ Booked["deposit"] = Collected
        /\ Booked["payout"] = {"payout_succeeded"}
        /\ Booked["refund"] = {"refunded"}
        /\ {"deposit", "payout", "refund"} \subseteq Leg
    BY DEF Booked, Leg
  <2>5. QED
    BY <2>3, <2>4 DEF InLockStep
<1>3. ASSUME SerialInv, TypeOK, FaultsCut
      PROVE  Cardinality({t \in Tx : Quiet(t) /\ ~InLockStep(t)}) <= faults
  <2>1. \A t \in {u \in Tx : Quiet(u) /\ ~InLockStep(u)} : rows[t] # None /\ ~WholeRow(t)
    BY <1>2, <1>3 DEF Quiet
  <2>2. QED
    BY <1>3, <2>1, NoMoreThanFaults
<1>4. SerialInv /\ TypeOK /\ FaultsCut => LockStepButCut
  BY <1>1, <1>3 DEF LockStepButCut
<1>5. Inv => TypeOK
  BY DEF Inv
<1>6. QED
  BY <1>4, <1>5, SerialAlways, PTL

\* With handlers one at a time, each crash and each call that raises leaves one
\* payment at most that waits for a leg whose op-id was lost, and the sweep can
\* poll every other pending payment (_store_op_id).
THEOREM PollableSerially == ASSUME Serial PROVE Spec => []PollableButCut
<1>1. ASSUME SerialInv, TypeOK, NEW t \in Tx, Quiet(t), WholeRow(t) PROVE PendingHasOpId(t)
  <2> SUFFICES ASSUME NEW leg \in Leg, rows[t].state = AwaitingState[leg]
               PROVE  leg \in rows[t].ids
    BY DEF PendingHasOpId
  <2>1. ~Working({"request", "store_id", "resolve"}, t, leg)
    BY <1>1, NobodyAt DEF Place
  <2>2. QED
    BY <1>1, <2>1 DEF WholeRow
<1>2. ASSUME SerialInv, TypeOK, FaultsCut
      PROVE  Cardinality({t \in Tx : Quiet(t) /\ ~PendingHasOpId(t)}) <= faults
  <2>1. \A t \in {u \in Tx : Quiet(u) /\ ~PendingHasOpId(u)} : rows[t] # None /\ ~WholeRow(t)
    BY <1>1, <1>2 DEF Quiet
  <2>2. QED
    BY <1>2, <2>1, NoMoreThanFaults
<1>3. SerialInv /\ TypeOK /\ FaultsCut => PollableButCut
  BY <1>2 DEF PollableButCut
<1>4. Inv => TypeOK
  BY DEF Inv
<1>5. QED
  BY <1>3, <1>4, SerialAlways, PTL

-----------------------------------------------------------------------------
(* What a step writes *)

\* The actions that write rows, that post and that reach the rail.
LEMMA Writers ==
  ASSUME [Next]_vars
  PROVE  /\ \/ rows' = rows
            \/ \E w \in Thread : \/ Begin(w) \/ StoreOpId(w) \/ Resolve(w)
                                \/ \E t \in Tx : StartTransaction(w, t)
         /\ postings' = postings \/ \E w \in Thread : PostLeg(w)
         /\ \/ rail' = rail
            \/ \E w \in Thread : RequestAccepted(w) \/ RequestRaises(w)
            \/ \E t \in Tx, leg \in Leg : RailSettles(t, leg)
<1> DEFINE RowsWritten == \E w \in Thread : \/ Begin(w) \/ StoreOpId(w) \/ Resolve(w)
                                             \/ \E t \in Tx : StartTransaction(w, t)
           Posted == \E w \in Thread : PostLeg(w)
           Railed == \/ \E w \in Thread : RequestAccepted(w) \/ RequestRaises(w)
                     \/ \E t \in Tx, leg \in Leg : RailSettles(t, leg)
           Goal == /\ rows' = rows \/ RowsWritten
                   /\ postings' = postings \/ Posted
                   /\ rail' = rail \/ Railed
<1>1. ASSUME NEW w \in Thread, Begin(w) \/ StoreOpId(w) \/ Resolve(w) PROVE Goal
  <2>1. postings' = postings /\ rail' = rail
    BY <1>1 DEF Begin, StoreOpId, Resolve
  <2>2. QED
    BY <1>1, <2>1
<1>2. ASSUME NEW w \in Thread, NEW t \in Tx, StartTransaction(w, t) PROVE Goal
  <2>1. postings' = postings /\ rail' = rail
    BY <1>2 DEF StartTransaction
  <2>2. QED
    BY <1>2, <2>1
<1>3. ASSUME NEW w \in Thread, PostLeg(w) PROVE Goal
  <2>1. rows' = rows /\ rail' = rail
    BY <1>3 DEF PostLeg
  <2>2. QED
    BY <1>3, <2>1
<1>4. ASSUME NEW w \in Thread, RequestAccepted(w) \/ RequestRaises(w) PROVE Goal
  <2>1. rows' = rows /\ postings' = postings
    BY <1>4 DEF RequestAccepted, RequestRaises
  <2>2. QED
    BY <1>4, <2>1
<1>5. ASSUME NEW t \in Tx, NEW leg \in Leg, RailSettles(t, leg) PROVE Goal
  <2>1. rows' = rows /\ postings' = postings
    BY <1>5 DEF RailSettles
  <2>2. QED
    BY <1>5, <2>1
<1>6. ASSUME NEW w \in Thread, Guard(w) \/ Load(w) \/ RequestRejected(w) \/ SweepBegin(w)
      PROVE  UNCHANGED <<rows, postings, rail>>
  BY <1>6 DEF Guard, Load, RequestRejected, SweepBegin
<1>7. ASSUME NEW w \in Thread, NEW t \in Tx, NEW leg \in Leg,
             ReceiveCallback(w, t, leg) \/ SweepPoll(w, t, leg) \/ SweepSkip(w, t, leg)
      PROVE  UNCHANGED <<rows, postings, rail>>
  BY <1>7 DEF ReceiveCallback, SweepPoll, SweepSkip
<1>8. Crash \/ UNCHANGED vars => UNCHANGED <<rows, postings, rail>>
  BY DEF Crash, vars
<1>9. ASSUME NEW w \in Thread, HandlerStep(w) PROVE Goal
  <2> HIDE DEF Goal
  <2>1. UNCHANGED <<rows, postings, rail>> => Goal
    BY DEF Goal
  <2>2. QED
    BY <1>1, <1>3, <1>4, <1>6, <1>9, <2>1 DEF HandlerStep
<1>10. UNCHANGED <<rows, postings, rail>> => Goal
  OBVIOUS
<1>11. Goal
  <2> HIDE DEF Goal
  <2>1. QED
    BY <1>2, <1>4, <1>5, <1>6, <1>7, <1>8, <1>9, <1>10 DEF Next
<1>12. QED
  BY <1>11

-----------------------------------------------------------------------------
(* The refinement *)

MoneyMap == [t \in Tx |-> MoneyOf(t)]
BookMap == [t \in Tx |-> BookOf(t)]

\* Where the money and the books of a payment are, before and after a step.
LEMMA Maps ==
  ASSUME NEW t \in Tx
  PROVE  /\ MoneyMap[t] = IF Succeeded(t, "refund") THEN "returned"
                          ELSE IF Succeeded(t, "payout") THEN "merchant"
                          ELSE IF Succeeded(t, "deposit") THEN "clearing" ELSE "payer"
         /\ BookMap[t] = IF postings[t]["refund"] > 0 THEN "returned"
                         ELSE IF postings[t]["payout"] > 0 THEN "merchant"
                         ELSE IF postings[t]["deposit"] > 0 THEN "clearing" ELSE "payer"
BY DEF MoneyMap, BookMap, MoneyOf, BookOf, Whereabouts

LEMMA MapsAfter ==
  ASSUME NEW t \in Tx
  PROVE  /\ MoneyMap'[t] = IF Succeeded(t, "refund")' THEN "returned"
                           ELSE IF Succeeded(t, "payout")' THEN "merchant"
                           ELSE IF Succeeded(t, "deposit")' THEN "clearing" ELSE "payer"
         /\ BookMap'[t] = IF postings'[t]["refund"] > 0 THEN "returned"
                          ELSE IF postings'[t]["payout"] > 0 THEN "merchant"
                          ELSE IF postings'[t]["deposit"] > 0 THEN "clearing" ELSE "payer"
BY DEF MoneyMap, BookMap, MoneyOf, BookOf, Whereabouts

\* A map that changes at one payment only.
LEMMA MapStep ==
  ASSUME NEW t \in Tx, NEW m
  PROVE  /\ /\ MoneyMap'[t] = m
            /\ \A u \in Tx \ {t} : MoneyMap'[u] = MoneyMap[u]
            => MoneyMap' = [MoneyMap EXCEPT ![t] = m]
         /\ /\ BookMap'[t] = m
            /\ \A u \in Tx \ {t} : BookMap'[u] = BookMap[u]
            => BookMap' = [BookMap EXCEPT ![t] = m]
<1>1. /\ MoneyMap = [u \in Tx |-> MoneyMap[u]] /\ MoneyMap' = [u \in Tx |-> MoneyMap'[u]]
      /\ BookMap = [u \in Tx |-> BookMap[u]] /\ BookMap' = [u \in Tx |-> BookMap'[u]]
  BY DEF MoneyMap, BookMap
<1>2. QED
  BY <1>1

LEMMA MoneyKept ==
  ASSUME \A t \in Tx, leg \in Leg : Succeeded(t, leg)' <=> Succeeded(t, leg)
  PROVE  MoneyMap' = MoneyMap
BY DEF MoneyMap, MoneyOf, Whereabouts, Leg

LEMMA BookKept == ASSUME postings' = postings PROVE BookMap' = BookMap
BY DEF BookMap, BookOf, Whereabouts

\* pawaPay completing an operation moves the money of its payment one step.
LEMMA SettlesMoves ==
  ASSUME Inv, SerialInv, NEW t \in Tx, NEW leg \in Leg, RailSettles(t, leg)
  PROVE  \/ MoneyMap' = MoneyMap
         \/ \E m \in Promise!Moves[MoneyMap[t]] : MoneyMap' = [MoneyMap EXCEPT ![t] = m]
<1>1. PICK s \in {"completed", "failed"} : rail' = [rail EXCEPT ![t][leg] = s]
  BY DEF RailSettles
<1>2. rail[t][leg] = "accepted" /\ TypeOK
  BY DEF RailSettles, Inv
<1>3. CASE s = "failed"
  <2>1. \A u \in Tx, l \in Leg : Succeeded(u, l)' <=> Succeeded(u, l)
    BY <1>1, <1>2, <1>3 DEF Succeeded, TypeOK
  <2>2. QED
    BY <2>1, MoneyKept
<1>4. CASE s = "completed"
  <2>1. \A u \in Tx, l \in Leg : Succeeded(u, l)' <=> Succeeded(u, l) \/ (u = t /\ l = leg)
    BY <1>1, <1>2, <1>4 DEF Succeeded, TypeOK
  <2>2. ~Succeeded(t, leg)
    BY <1>2 DEF Succeeded
  <2>3. /\ leg # "deposit" => Succeeded(t, "deposit")
        /\ leg = "deposit" => ~Succeeded(t, "payout") /\ ~Succeeded(t, "refund")
    BY <1>2, <2>2, LegCases DEF Inv, PayOnlyCollected, Succeeded
  <2>4. /\ leg = "payout" => ~Succeeded(t, "refund")
        /\ leg = "refund" => ~Succeeded(t, "payout")
    <3>1. \A u \in Tx : rail[u]["refund"] # "none" => rail[u]["payout"] \in {"none", "failed"}
      BY <1>2, OneWay DEF MoneyGoesOneWay
    <3>2. QED
      BY <1>2, <3>1 DEF Succeeded
  <2>5. \A u \in Tx \ {t} : MoneyMap'[u] = MoneyMap[u]
    BY <2>1, Maps, MapsAfter DEF Leg
  <2>6. \E m \in Promise!Moves[MoneyMap[t]] : MoneyMap'[t] = m
    <3>1. CASE leg = "deposit"
      BY <2>1, <2>2, <2>3, <3>1, Maps, MapsAfter DEF Leg, Promise!Moves
    <3>2. CASE leg = "payout"
      BY <2>1, <2>2, <2>3, <2>4, <3>2, Maps, MapsAfter DEF Leg, Promise!Moves
    <3>3. CASE leg = "refund"
      BY <2>1, <2>2, <2>3, <2>4, <3>3, Maps, MapsAfter DEF Leg, Promise!Moves
    <3>4. QED
      BY <3>1, <3>2, <3>3, LegCases
  <2>7. QED
    BY <2>5, <2>6, MapStep
<1>5. QED
  BY <1>3, <1>4

\* A posting moves the books of its payment one step, to where the money has been.
LEMMA PostsBook ==
  ASSUME Inv, SerialInv, NEW w \in Thread, PostLeg(w)
  PROVE  \E t \in Tx : \E m \in Promise!Moves[BookMap[t]] \cap Promise!Passed(MoneyMap[t]) :
           BookMap' = [BookMap EXCEPT ![t] = m]
<1>1. PICK t \in Tx, leg \in Leg : t = job[w].tx /\ leg = job[w].leg
  BY AtWork DEF PostLeg, Inv
<1>2. /\ SerialRow(t) /\ rows[t].state = OutcomeState(leg, TRUE) /\ postings[t][leg] = 0
      /\ Succeeded(t, leg) /\ (leg # "deposit" => Succeeded(t, "deposit"))
  BY <1>1, AtWork DEF PostLeg, SerialThread, Inv, SpineInv, ThreadInv
<1>3. /\ postings'[t][leg] = 1
      /\ \A u \in Tx, l \in Leg : u # t \/ l # leg => postings'[u][l] = postings[u][l]
  BY <1>1, <1>2 DEF PostLeg, Inv, TypeOK
<1>4. \A u \in Tx \ {t} : BookMap'[u] = BookMap[u]
  BY <1>3, Maps, MapsAfter DEF Leg
<1>5. \E m \in Promise!Moves[BookMap[t]] \cap Promise!Passed(MoneyMap[t]) : BookMap'[t] = m
  <2>1. CASE leg = "deposit"
    <3>1. postings[t]["payout"] = 0 /\ postings[t]["refund"] = 0
      BY <1>2, <2>1, Outcomes DEF SerialRow, Booked, Leg
    <3>2. BookMap[t] = "payer" /\ BookMap'[t] = "clearing"
      BY <1>2, <1>3, <2>1, <3>1, Maps, MapsAfter DEF Leg
    <3>3. "clearing" \in Promise!Passed(MoneyMap[t])
      BY <1>2, <2>1, Maps DEF Promise!Passed
    <3>4. QED
      BY <3>2, <3>3 DEF Promise!Moves
  <2>2. CASE leg = "payout"
    <3>1. postings[t]["deposit"] = 1 /\ postings[t]["refund"] = 0
      BY <1>2, <2>2, Outcomes DEF SerialRow, Booked, Leg, Collected
    <3>2. BookMap[t] = "clearing" /\ BookMap'[t] = "merchant"
      BY <1>2, <1>3, <2>2, <3>1, Maps, MapsAfter DEF Leg
    <3>3. ~Succeeded(t, "refund")
      BY <1>2, <2>2, OneWay DEF MoneyGoesOneWay, Succeeded, Inv
    <3>4. "merchant" \in Promise!Passed(MoneyMap[t])
      BY <1>2, <2>2, <3>3, Maps DEF Promise!Passed
    <3>5. QED
      BY <3>2, <3>4 DEF Promise!Moves
  <2>3. CASE leg = "refund"
    <3>1. postings[t]["deposit"] = 1 /\ postings[t]["payout"] = 0
      BY <1>2, <2>3, Outcomes DEF SerialRow, Booked, Leg, Collected
    <3>2. BookMap[t] = "clearing" /\ BookMap'[t] = "returned"
      BY <1>2, <1>3, <2>3, <3>1, Maps, MapsAfter DEF Leg
    <3>3. "returned" \in Promise!Passed(MoneyMap[t])
      BY <1>2, <2>3, Maps DEF Promise!Passed
    <3>4. QED
      BY <3>2, <3>3 DEF Promise!Moves
  <2>4. QED
    BY <2>1, <2>2, <2>3, LegCases
<1>6. QED
  BY <1>4, <1>5, MapStep

\* No other step completes an operation or posts.
LEMMA OthersStutter ==
  ASSUME Inv, [Next]_vars,
         \A w \in Thread : ~PostLeg(w),
         \A t \in Tx, leg \in Leg : ~RailSettles(t, leg)
  PROVE  MoneyMap' = MoneyMap /\ BookMap' = BookMap
<1>1. postings' = postings
  BY Writers
<1>2. \A t \in Tx, leg \in Leg : Succeeded(t, leg)' <=> Succeeded(t, leg)
  <2>1. ASSUME NEW w \in Thread, RequestAccepted(w) \/ RequestRaises(w)
        PROVE  \A t \in Tx, leg \in Leg : Succeeded(t, leg)' <=> Succeeded(t, leg)
    <3>1. PICK u \in Tx, l \in Leg : u = job[w].tx /\ l = job[w].leg
      BY <2>1, ThreadTypes DEF RequestAccepted, RequestRaises, Inv
    <3>2. \/ rail' = rail
          \/ rail[u][l] = "none" /\ rail' = [rail EXCEPT ![u][l] = "accepted"]
      BY <2>1, <3>1 DEF RequestAccepted, RequestRaises
    <3>3. rail \in [Tx -> [Leg -> {"none", "accepted", "completed", "failed"}]]
      BY DEF Inv, TypeOK
    <3>4. QED
      BY <3>2, <3>3 DEF Succeeded
  <2>2. CASE rail' = rail
    BY <2>2 DEF Succeeded
  <2>3. QED
    BY <2>1, <2>2, Writers
<1>3. QED
  BY <1>1, <1>2, MoneyKept, BookKept

\* With handlers one at a time the spine implements MoneyPromise for any payments,
\* crashes and repeated outcomes: the money moves once and one way, and the books
\* follow it step by step.
THEOREM PromiseKeptSerially == ASSUME Serial PROVE Spec => KeepsPromise
<1>1. Init => Promise!Init
  BY DEF Init, Promise!Init, MoneyOf, BookOf, Whereabouts, Succeeded, Leg
<1>2. Inv /\ SerialInv /\ [Next]_vars => [Promise!Next]_<<MoneyMap, BookMap>>
  <2> SUFFICES ASSUME Inv, SerialInv, [Next]_vars
               PROVE  Promise!Next \/ UNCHANGED <<MoneyMap, BookMap>>
    OBVIOUS
  <2>1. ASSUME NEW w \in Thread, PostLeg(w) PROVE Promise!Next
    <3>1. MoneyMap' = MoneyMap
      BY <2>1, MoneyKept DEF PostLeg, Succeeded
    <3>2. PICK t \in Tx : \E m \in Promise!Moves[BookMap[t]] \cap Promise!Passed(MoneyMap[t]) :
                            BookMap' = [BookMap EXCEPT ![t] = m]
      BY <2>1, PostsBook
    <3>3. Promise!Book(t)
      BY <3>1, <3>2 DEF Promise!Book, MoneyMap, BookMap
    <3>4. QED
      BY <3>3 DEF Promise!Next
  <2>2. ASSUME NEW t \in Tx, NEW leg \in Leg, RailSettles(t, leg)
        PROVE  Promise!Next \/ UNCHANGED <<MoneyMap, BookMap>>
    <3>1. BookMap' = BookMap
      BY <2>2, BookKept DEF RailSettles
    <3>2. ASSUME NEW m \in Promise!Moves[MoneyMap[t]], MoneyMap' = [MoneyMap EXCEPT ![t] = m]
          PROVE  Promise!Next
      BY <3>1, <3>2 DEF Promise!Next, Promise!Move, MoneyMap, BookMap
    <3>3. QED
      BY <2>2, <3>1, <3>2, SettlesMoves
  <2>3. QED
    BY <2>1, <2>2, OthersStutter
<1>3. QED
  BY <1>1, <1>2, SerialAlways, PTL DEF Spec, KeepsPromise, Promise!Spec, MoneyMap, BookMap
=============================================================================
