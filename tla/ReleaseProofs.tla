---------------------------- MODULE ReleaseProofs ----------------------------
(***************************************************************************)
(* What a release cannot spoil.  For any payments, releases and keys: no   *)
(* deployment forgets a payment, and no simulator makes up the outcome of  *)
(* one that began at pawaPay.  For any operators, rate tables and amounts: *)
(* the books of a routed payment balance, whatever a release does to the   *)
(* rates, and what is left in each account at its end.                     *)
(***************************************************************************)
EXTENDS Deploy, RoutedBooks, TLAPS

-----------------------------------------------------------------------------
(* Payments across deployments *)

LEMMA Legs ==
  /\ Leg = {"deposit", "payout", "refund"}
  /\ AwaitingState["deposit"] = "collection_pending"
  /\ AwaitingState["payout"] = "payout_pending"
  /\ AwaitingState["refund"] = "refund_pending"
BY DEF Leg, AwaitingState

LEMMA States ==
  TxState = {"initiated", "collection_pending", "collection_succeeded",
             "collection_failed", "payout_pending", "payout_succeeded",
             "payout_failed", "refund_pending", "refunded", "manual_review"}
BY DEF TxState, Transitions

LEMMA OutcomeStates ==
  ASSUME NEW leg \in Leg, NEW ok \in BOOLEAN
  PROVE  /\ OutcomeState(leg, ok) \in TxState
         /\ OutcomeState(leg, ok) = "payout_succeeded" => leg = "payout" /\ ok
         /\ OutcomeState(leg, ok) = "refunded" => leg = "refund" /\ ok
BY States, Legs DEF OutcomeState

\* A leg that follows is never the deposit.
LEMMA FollowsLater ==
  ASSUME NEW leg \in Leg, NEW ok \in BOOLEAN, Follows(leg, ok) # None
  PROVE  Follows(leg, ok) \in {"payout", "refund"} /\ Follows(leg, ok) \in Leg
BY Legs DEF Follows

-----------------------------------------------------------------------------
(* The inductive invariant *)

\* A row no simulator has touched, and that does not say paid or refunded.
Untouched(row) ==
  /\ \A leg \in Leg : row.on[leg] # "simulator"
  /\ row.state \notin {"payout_succeeded", "refunded"}

\* A row of a payment that began at pawaPay, none of whose legs is a simulator's.
LiveRow(t, row) ==
  /\ \A leg \in Leg : row.on[leg] # "simulator"
  /\ row.state = "payout_succeeded" => rail[t]["payout"] = "completed"
  /\ row.state = "refunded" => rail[t]["refund"] = "completed"

LiveRowIn(t, rows) == rows[t] # None /\ Asked(t) => LiveRow(t, rows[t])

\* A deployment has a durable store, a payment is in one store, and rows that began
\* at pawaPay stay there unless they are mixed.
RowsInv ==
  /\ process # None /\ process.environment # "local" => process.durable
  /\ NothingForgotten
  /\ \A t \in Tx : table[t] = None \/ memory[t] = None
  /\ \A t \in Tx \ mixed : LiveRowIn(t, table) /\ LiveRowIn(t, memory)

\* A handler has its row in the store of a running process.  It requests a deposit
\* for an untouched row only, and drives what began at pawaPay on the live rail,
\* with the outcome pawaPay knows.
WorkInv ==
  work # None =>
    /\ Up /\ Rows[work.tx] # None
    /\ work.plays => ~process.live
    /\ work.place \in {"begin", "request"} /\ work.leg = "deposit" => Untouched(Rows[work.tx])
    /\ work.tx \notin mixed /\ Asked(work.tx) =>
         /\ process.live
         /\ work.place = "resolve" /\ work.ok => rail[work.tx][work.leg] = "completed"

DeployInv == TypeOK /\ RowsInv /\ WorkInv

LEMMA InitDeploy == Init => DeployInv
<1> SUFFICES ASSUME Init PROVE DeployInv
  OBVIOUS
<1>1. /\ table = [t \in Tx |-> None] /\ memory = [t \in Tx |-> None]
      /\ process = None /\ work = None /\ deployed = {} /\ mixed = {} /\ cut = {}
  BY DEF Init
<1>2. /\ simulated = {} /\ signing = 0 /\ boots = 0
      /\ rail = [t \in Tx |-> [leg \in Leg |-> "none"]]
  BY DEF Init
<1>3. TypeOK
  <2>1. signing \in Keys /\ boots \in 0 .. MaxBoots
    BY <1>2, DeployAssumption DEF Keys
  <2>2. rail \in [Tx -> [Leg -> {"none", "accepted", "completed", "failed"}]]
    BY <1>2
  <2>3. QED
    BY <1>1, <1>2, <2>1, <2>2 DEF TypeOK
<1>4. \A t \in Tx : table[t] = None /\ memory[t] = None
  BY <1>1
<1>5. RowsInv
  BY <1>1, <1>4 DEF RowsInv, LiveRowIn, NothingForgotten
<1>6. QED
  BY <1>1, <1>3, <1>5 DEF DeployInv, WorkInv

LEMMA InvReal == DeployInv => RealMoneyMoved
BY DEF DeployInv, RowsInv, RealMoneyMoved, LiveRowIn, LiveRow

-----------------------------------------------------------------------------
(* What a step does to the rows of a payment *)

\* No row is written: the rail keeps what it completed, and takes a deposit for an
\* untouched row only.
LEMMA RowsKept ==
  ASSUME RowsInv, UNCHANGED <<table, memory, deployed>>, mixed \subseteq mixed',
         process' # None /\ process'.environment # "local" => process'.durable,
         \A t \in Tx, leg \in Leg : rail[t][leg] = "completed" => rail'[t][leg] = "completed",
         \A t \in Tx : Asked(t)' => \/ Asked(t)
                                    \/ \A rows \in {table, memory} :
                                         rows[t] # None => Untouched(rows[t])
  PROVE  RowsInv'
<1>1. ASSUME NEW t \in Tx \ mixed', NEW rows \in {table, memory},
             rows[t] # None, Asked(t)'
      PROVE  LiveRow(t, rows[t])'
  <2>1. CASE Asked(t)
    <3>1. LiveRow(t, rows[t])
      BY <1>1, <2>1 DEF RowsInv, LiveRowIn
    <3>2. QED
      BY <1>1, <3>1, Legs DEF LiveRow
  <2>2. CASE Untouched(rows[t])
    BY <1>1, <2>2 DEF LiveRow, Untouched
  <2>3. QED
    BY <1>1, <2>1, <2>2
<1>2. \A t \in Tx \ mixed' : LiveRowIn(t, table)' /\ LiveRowIn(t, memory)'
  BY <1>1 DEF LiveRowIn
<1>3. NothingForgotten'
  BY DEF RowsInv, NothingForgotten
<1>4. QED
  BY <1>2, <1>3 DEF RowsInv

\* A payment's row is written to the store of the process.
LEMMA RowWritten ==
  ASSUME TypeOK, RowsInv, Up, NEW t \in Tx, NEW row \in Row,
         Save(t, row), process' = process, rail' = rail, mixed' = mixed,
         deployed' = deployed \/
           deployed' = IF process.environment = "local" THEN deployed ELSE deployed \cup {t},
         Rows[t] # None \/ (table[t] = None /\ memory[t] = None),
         t \notin mixed /\ Asked(t) => LiveRow(t, row)
  PROVE  /\ RowsInv'
         /\ Rows'[t] = row /\ row # None
         /\ table' \in [Tx -> Row \cup {None}] /\ memory' \in [Tx -> Row \cup {None}]
<1>1. row # None
  BY DeployAssumption
<1>2. /\ table \in [Tx -> Row \cup {None}] /\ memory \in [Tx -> Row \cup {None}]
      /\ process.environment # "local" => process.durable
  BY DEF RowsInv, TypeOK, Up
<1>3. \/ process.durable /\ table' = [table EXCEPT ![t] = row] /\ memory' = memory
      \/ ~process.durable /\ memory' = [memory EXCEPT ![t] = row] /\ table' = table
  BY DEF Save
<1>4. \A u \in Tx : table[u] = None \/ memory[u] = None
  BY DEF RowsInv
<1>5. \A u \in Tx : table'[u] = None \/ memory'[u] = None
  BY <1>1, <1>2, <1>3, <1>4 DEF Rows
<1>6. NothingForgotten'
  <2>1. deployed' = deployed \/ (process.durable /\ deployed' = deployed \cup {t})
    BY <1>2
  <2>2. \A u \in deployed : u \in Tx /\ table[u] # None
    BY DEF RowsInv, NothingForgotten, TypeOK
  <2>3. \A u \in deployed : table'[u] # None
    BY <1>1, <1>2, <1>3, <2>2
  <2>4. process.durable => table'[t] # None
    BY <1>1, <1>2, <1>3
  <2>5. QED
    BY <2>1, <2>3, <2>4 DEF NothingForgotten
<1>7. ASSUME NEW u \in Tx \ mixed' PROVE LiveRowIn(u, table)' /\ LiveRowIn(u, memory)'
  <2>1. CASE u # t
    <3>1. table'[u] = table[u] /\ memory'[u] = memory[u]
      BY <1>2, <1>3, <1>7, <2>1
    <3>2. LiveRowIn(u, table) /\ LiveRowIn(u, memory)
      BY <1>7 DEF RowsInv
    <3>3. QED
      BY <3>1, <3>2 DEF LiveRowIn, LiveRow, Asked
  <2>2. CASE u = t
    <3>1. /\ table'[t] # None => table'[t] = row
          /\ memory'[t] # None => memory'[t] = row
      BY <1>1, <1>2, <1>3, <1>5
    <3>2. Asked(t) => LiveRow(t, row)
      BY <1>7, <2>2
    <3>3. QED
      BY <2>2, <3>1, <3>2 DEF LiveRowIn, LiveRow, Asked
  <2>3. QED
    BY <2>1, <2>2
<1>8. RowsInv'
  BY <1>2, <1>5, <1>6, <1>7 DEF RowsInv
<1>9. Rows'[t] = row
  BY <1>2, <1>3 DEF Rows
<1>10. QED
  BY <1>1, <1>2, <1>3, <1>8, <1>9

\* What a running handler drives.
LEMMA AtWork ==
  ASSUME DeployInv, work # None
  PROVE  /\ work.tx \in Tx /\ work.leg \in Leg /\ work.ok \in BOOLEAN /\ work \in Work
         /\ Up /\ process \in Process
         /\ Rows[work.tx] # None /\ Rows[work.tx] \in Row
         /\ work.tx \notin mixed /\ Asked(work.tx) => LiveRow(work.tx, Rows[work.tx])
<1>1. work \in Work /\ Up /\ Rows[work.tx] # None /\ work.tx \in Tx
  BY DEF DeployInv, WorkInv, TypeOK, Work
<1>2. Rows[work.tx] \in Row
  BY <1>1 DEF DeployInv, TypeOK, Rows
<1>3. work.tx \notin mixed /\ Asked(work.tx) => LiveRow(work.tx, Rows[work.tx])
  BY <1>1 DEF DeployInv, RowsInv, LiveRowIn, Rows
<1>4. QED
  BY <1>1, <1>2, <1>3 DEF DeployInv, TypeOK, Up, Work

\* The handler writes its row.
LEMMA HandlerWrites ==
  ASSUME DeployInv, work # None, NEW row \in Row, Save(work.tx, row),
         UNCHANGED <<process, simulated, rail, signing, boots, deployed, mixed, cut>>,
         work' \in Work \cup {None},
         work.tx \notin mixed /\ Asked(work.tx) => LiveRow(work.tx, row)
  PROVE  /\ TypeOK' /\ RowsInv'
         /\ Up' /\ Rows'[work.tx] # None /\ Rows'[work.tx] = row
<1>1. PICK t \in Tx : t = work.tx
  BY AtWork
<1>2. /\ RowsInv' /\ Rows'[t] = row /\ row # None
      /\ table' \in [Tx -> Row \cup {None}] /\ memory' \in [Tx -> Row \cup {None}]
  BY <1>1, AtWork, RowWritten DEF DeployInv
<1>3. TypeOK'
  BY <1>2 DEF DeployInv, TypeOK
<1>4. QED
  BY <1>1, <1>2, <1>3, AtWork DEF Up

-----------------------------------------------------------------------------
(* The process *)

LEMMA BootStep ==
  ASSUME DeployInv, NEW s \in Settings, Boot(s)
  PROVE  DeployInv'
<1>1. PICK k \in CallbackKeys(s) :
        process' = [environment |-> s.environment, durable |-> s.database,
                    live |-> s.credentials, key |-> k]
  BY DEF Boot
<1>2. /\ s.environment \in {"local", "sandbox", "production"}
      /\ s.database \in BOOLEAN /\ s.credentials \in BOOLEAN
      /\ s.publicKey \in Keys \cup {Blank}
  BY DEF Boot, Bootable, Settings
<1>3. k \in Keys \cup {Blank}
  BY <1>2 DEF CallbackKeys, DeployInv, TypeOK
<1>4. process' \in Process
  BY <1>1, <1>2, <1>3 DEF Process
<1>5. boots' \in 0 .. MaxBoots
  BY DeployAssumption DEF Boot, DeployInv, TypeOK
<1>6. UNCHANGED <<table, memory, work, simulated, rail, signing, deployed, mixed, cut>>
  BY DEF Boot
<1>7. TypeOK'
  BY <1>4, <1>5, <1>6 DEF DeployInv, TypeOK
<1>8. process'.environment # "local" => process'.durable
  BY <1>1 DEF Boot, Bootable, DurableUnlessLocal
<1>9. RowsInv'
  BY <1>6, <1>8, RowsKept DEF DeployInv, Asked
<1>10. work' = None
  BY <1>6 DEF Boot, DeployInv, WorkInv
<1>11. QED
  BY <1>7, <1>9, <1>10 DEF DeployInv, WorkInv

LEMMA StopStep ==
  ASSUME DeployInv, Stop
  PROVE  DeployInv'
<1>1. /\ process' = None /\ memory' = [t \in Tx |-> None] /\ work' = None /\ simulated' = {}
      /\ cut' = cut \cup Driven
      /\ UNCHANGED <<table, rail, signing, boots, deployed, mixed>>
  BY DEF Stop
<1>2. cut' \subseteq Tx
  BY <1>1 DEF DeployInv, TypeOK, Driven, Work
<1>3. TypeOK'
  BY <1>1, <1>2 DEF DeployInv, TypeOK
<1>4. NothingForgotten'
  BY <1>1 DEF DeployInv, RowsInv, NothingForgotten
<1>5. \A t \in Tx : memory'[t] = None
  BY <1>1
<1>6. \A t \in Tx \ mixed : LiveRowIn(t, table)'
  BY <1>1 DEF DeployInv, RowsInv, LiveRowIn, LiveRow, Asked
<1>7. \A t \in Tx : LiveRowIn(t, memory)'
  BY <1>5 DEF LiveRowIn
<1>8. QED
  BY <1>1, <1>3, <1>4, <1>5, <1>6, <1>7 DEF DeployInv, RowsInv, WorkInv

-----------------------------------------------------------------------------
(* The handlers *)

LEMMA PayStep ==
  ASSUME DeployInv, NEW t \in Tx, Pay(t)
  PROVE  DeployInv'
<1> DEFINE new == [state |-> "initiated", on |-> [leg \in Leg |-> "none"]]
<1>1. PICK row \in Row : row = new
  BY States DEF Row
<1>2. /\ row.state = "initiated" /\ Save(t, row) /\ Up
      /\ \A leg \in Leg : row.on[leg] = "none"
      /\ table[t] = None /\ memory[t] = None /\ ~Asked(t)
      /\ UNCHANGED <<process, simulated, rail, signing, boots, mixed, cut>>
      /\ deployed' = IF process.environment = "local" THEN deployed ELSE deployed \cup {t}
  BY <1>1 DEF Pay, Asked
<1>3. PICK plays \in IF process.live THEN {FALSE} ELSE BOOLEAN :
        work' = [tx |-> t, leg |-> "deposit", ok |-> TRUE, plays |-> plays, place |-> "begin"]
  BY DEF Pay
<1>4. /\ work' \in Work /\ work'.tx = t /\ work'.leg = "deposit" /\ work'.place = "begin"
      /\ work'.plays = plays /\ (plays => ~process.live)
  BY <1>3, Legs DEF Work
<1>5. /\ RowsInv' /\ Rows'[t] = row /\ row # None
      /\ table' \in [Tx -> Row \cup {None}] /\ memory' \in [Tx -> Row \cup {None}]
  BY <1>2, RowWritten DEF DeployInv
<1>6. TypeOK'
  BY <1>2, <1>4, <1>5 DEF DeployInv, TypeOK
<1>7. Untouched(row)
  BY <1>2 DEF Untouched
<1>8. ~Asked(t)' /\ Up'
  BY <1>2 DEF Asked, Up
<1>9. WorkInv'
  BY <1>2, <1>4, <1>5, <1>7, <1>8 DEF WorkInv, Untouched
<1>10. QED
  BY <1>5, <1>6, <1>9 DEF DeployInv

LEMMA BeginStep ==
  ASSUME DeployInv, Begin
  PROVE  DeployInv'
<1>1. PICK t \in Tx, leg \in Leg : t = work.tx /\ leg = work.leg
  BY AtWork DEF Begin, At
<1>2. /\ work # None /\ work \in Work /\ Rows[t] \in Row /\ work.place = "begin"
      /\ AwaitingState[leg] \in TxState
      /\ AwaitingState[leg] \notin {"payout_succeeded", "refunded"}
  BY <1>1, AtWork, States, Legs DEF Begin, At
<1>3. PICK row \in Row : row = [Rows[t] EXCEPT !.state = AwaitingState[leg]]
  BY <1>2 DEF Row
<1>4. row.on = Rows[t].on /\ row.state = AwaitingState[leg]
  BY <1>2, <1>3 DEF Row
<1>5. /\ Save(work.tx, row) /\ work' = [work EXCEPT !.place = "request"]
      /\ UNCHANGED <<process, simulated, rail, signing, boots, deployed, mixed, cut>>
  BY <1>1, <1>3 DEF Begin
<1>6. /\ work' \in Work /\ work'.tx = t /\ work'.leg = leg /\ work'.plays = work.plays
      /\ work'.place = "request"
  BY <1>1, <1>2, <1>5 DEF Work
<1>7. t \notin mixed /\ Asked(t) => LiveRow(t, row)
  BY <1>1, <1>2, <1>4, AtWork DEF LiveRow
<1>8. TypeOK' /\ RowsInv' /\ Up' /\ Rows'[t] # None /\ Rows'[t] = row
  BY <1>1, <1>2, <1>5, <1>6, <1>7, HandlerWrites
<1>9. leg = "deposit" => Untouched(row)
  BY <1>1, <1>2, <1>4 DEF DeployInv, WorkInv, Untouched
<1>10. WorkInv'
  BY <1>1, <1>2, <1>5, <1>6, <1>8, <1>9 DEF DeployInv, WorkInv, Asked, Untouched
<1>11. QED
  BY <1>8, <1>10 DEF DeployInv

\* The request leaves the rows as they are and the rail with the leg, or without it.
LEMMA RequestKeeps ==
  ASSUME DeployInv, At("request"), NEW t \in Tx, NEW leg \in Leg, t = work.tx, leg = work.leg,
         \/ rail' = rail
         \/ rail[t][leg] = "none" /\ rail' = [rail EXCEPT ![t][leg] = "accepted"] /\ process.live,
         simulated' \subseteq Tx \X Leg, cut' \subseteq Tx, work' \in Work \cup {None},
         UNCHANGED <<process, table, memory, signing, boots, deployed, mixed>>
  PROVE  /\ TypeOK' /\ RowsInv' /\ Up' /\ Rows'[t] = Rows[t] /\ Rows'[t] # None
         /\ Asked(t)' => Asked(t) \/ process.live
<1>1. rail \in [Tx -> [Leg -> {"none", "accepted", "completed", "failed"}]]
  BY DEF DeployInv, TypeOK
<1>2. rail' \in [Tx -> [Leg -> {"none", "accepted", "completed", "failed"}]]
  BY <1>1
<1>3. TypeOK'
  BY <1>2 DEF DeployInv, TypeOK
<1>4. \A u \in Tx, l \in Leg : rail[u][l] = "completed" => rail'[u][l] = "completed"
  BY <1>1
<1>5. Rows[t] # None /\ work # None /\ Up
  BY AtWork DEF At
<1>6. \A rows \in {table, memory} : rows[t] # None => rows[t] = Rows[t]
  BY <1>5 DEF DeployInv, RowsInv, Rows
<1>7. ASSUME NEW u \in Tx, Asked(u)', ~Asked(u)
      PROVE  \A rows \in {table, memory} : rows[u] # None => Untouched(rows[u])
  <2>1. rail'[u]["deposit"] # rail[u]["deposit"] /\ "deposit" \in Leg
    BY <1>7, Legs DEF Asked
  <2>2. rail' = [rail EXCEPT ![t][leg] = "accepted"]
    BY <2>1
  <2>3. u = t /\ leg = "deposit"
    BY <1>1, <2>1, <2>2
  <2>4. Untouched(Rows[t])
    BY <1>5, <2>3 DEF At, DeployInv, WorkInv
  <2>5. QED
    BY <1>6, <2>3, <2>4
<1>8. RowsInv'
  BY <1>4, <1>7, RowsKept DEF DeployInv, RowsInv
<1>9. Asked(t)' => Asked(t) \/ process.live
  BY DEF Asked
<1>10. QED
  BY <1>3, <1>5, <1>8, <1>9 DEF Rows, Up

LEMMA AcceptedStep ==
  ASSUME DeployInv, RequestAccepted
  PROVE  DeployInv'
<1>1. PICK t \in Tx, leg \in Leg : t = work.tx /\ leg = work.leg
  BY AtWork DEF RequestAccepted, At
<1>2. work # None /\ work \in Work
  BY AtWork DEF RequestAccepted, At
<1>3. /\ work' = [work EXCEPT !.place = "store_id"]
      /\ UNCHANGED <<process, table, memory, signing, boots, deployed, mixed, cut>>
      /\ \/ rail' = rail
         \/ rail[t][leg] = "none" /\ rail' = [rail EXCEPT ![t][leg] = "accepted"] /\ process.live
  BY <1>1 DEF RequestAccepted
<1>4. work' \in Work /\ work'.tx = t /\ work'.plays = work.plays /\ work'.place = "store_id"
  BY <1>1, <1>2, <1>3 DEF Work
<1>5. simulated' \subseteq Tx \X Leg /\ cut' \subseteq Tx
  BY <1>1, <1>3 DEF RequestAccepted, DeployInv, TypeOK
<1>6. /\ TypeOK' /\ RowsInv' /\ Up' /\ Rows'[t] # None
      /\ Asked(t)' => Asked(t) \/ process.live
  BY <1>1, <1>3, <1>4, <1>5, RequestKeeps DEF RequestAccepted
<1>7. WorkInv'
  BY <1>1, <1>2, <1>3, <1>4, <1>6 DEF DeployInv, WorkInv
<1>8. QED
  BY <1>6, <1>7 DEF DeployInv

LEMMA RefusedStep ==
  ASSUME DeployInv, RequestRefused
  PROVE  DeployInv'
<1>1. PICK t \in Tx, leg \in Leg : t = work.tx /\ leg = work.leg
  BY AtWork DEF RequestRefused, At
<1>2. /\ work # None /\ work \in Work /\ process.live
      /\ work' = [work EXCEPT !.place = "resolve", !.ok = FALSE]
      /\ UNCHANGED <<process, table, memory, simulated, rail, signing, boots, deployed, mixed, cut>>
  BY AtWork DEF RequestRefused, At
<1>3. /\ work' \in Work /\ work'.tx = t /\ work'.plays = work.plays
      /\ work'.place = "resolve" /\ ~work'.ok
  BY <1>1, <1>2 DEF Work
<1>4. TypeOK' /\ RowsInv' /\ Up' /\ Rows'[t] # None
  BY <1>1, <1>2, <1>3, RequestKeeps DEF RequestRefused, DeployInv, TypeOK
<1>5. WorkInv'
  BY <1>1, <1>2, <1>3, <1>4 DEF DeployInv, WorkInv
<1>6. QED
  BY <1>4, <1>5 DEF DeployInv

LEMMA RaisesStep ==
  ASSUME DeployInv, RequestRaises
  PROVE  DeployInv'
<1>1. PICK t \in Tx, leg \in Leg : t = work.tx /\ leg = work.leg
  BY AtWork DEF RequestRaises, At
<1>2. PICK status \in {rail[t][leg], "accepted"} :
        /\ status # rail[t][leg] => rail[t][leg] = "none"
        /\ rail' = [rail EXCEPT ![t][leg] = status]
  BY <1>1 DEF RequestRaises
<1>3. rail \in [Tx -> [Leg -> {"none", "accepted", "completed", "failed"}]]
  BY DEF DeployInv, TypeOK
<1>4. /\ work' = None /\ process.live /\ cut' = cut \cup Driven
      /\ UNCHANGED <<process, table, memory, simulated, signing, boots, deployed, mixed>>
  BY DEF RequestRaises
<1>5. \/ rail' = rail
      \/ rail[t][leg] = "none" /\ rail' = [rail EXCEPT ![t][leg] = "accepted"] /\ process.live
  BY <1>2, <1>3, <1>4
<1>6. cut' \subseteq Tx /\ simulated' \subseteq Tx \X Leg
  BY <1>1, <1>4 DEF DeployInv, TypeOK, Driven
<1>7. TypeOK' /\ RowsInv'
  BY <1>1, <1>4, <1>5, <1>6, RequestKeeps DEF RequestRaises
<1>8. QED
  BY <1>4, <1>7 DEF DeployInv, WorkInv

LEMMA StoreOpIdStep ==
  ASSUME DeployInv, StoreOpId
  PROVE  DeployInv'
<1>1. PICK t \in Tx, leg \in Leg : t = work.tx /\ leg = work.leg
  BY AtWork DEF StoreOpId, At
<1>2. /\ work # None /\ work \in Work /\ Rows[t] \in Row
      /\ RailUsed \in {"live", "simulator"}
  BY <1>1, AtWork DEF StoreOpId, At, RailUsed
<1>3. PICK row \in Row : row = [Rows[t] EXCEPT !.on[leg] = RailUsed]
  BY <1>2 DEF Row
<1>4. /\ row.state = Rows[t].state /\ row.on[leg] = RailUsed
      /\ \A l \in Leg \ {leg} : row.on[l] = Rows[t].on[l]
  BY <1>2, <1>3 DEF Row
<1>5. /\ Save(work.tx, row)
      /\ UNCHANGED <<process, simulated, rail, signing, boots, deployed, mixed, cut>>
      /\ \/ work' = None
         \/ work.plays /\ \E ok \in BOOLEAN : work' = [work EXCEPT !.place = "resolve", !.ok = ok]
  BY <1>1, <1>3 DEF StoreOpId
<1>6. /\ work' \in Work \cup {None}
      /\ work' # None => /\ work.plays /\ work'.tx = t /\ work'.plays = work.plays
                         /\ work'.place = "resolve"
  BY <1>1, <1>2, <1>5 DEF Work
<1>7. t \notin mixed /\ Asked(t) => process.live /\ LiveRow(t, Rows[t])
  BY <1>1, <1>2, AtWork DEF DeployInv, WorkInv
<1>8. t \notin mixed /\ Asked(t) => LiveRow(t, row)
  BY <1>4, <1>7 DEF LiveRow, RailUsed
<1>9. TypeOK' /\ RowsInv' /\ Up' /\ Rows'[t] # None
  BY <1>1, <1>2, <1>5, <1>6, <1>8, HandlerWrites
<1>10. work.plays => ~process.live
  BY <1>2 DEF DeployInv, WorkInv
<1>11. WorkInv'
  BY <1>1, <1>5, <1>6, <1>7, <1>9, <1>10 DEF WorkInv, Asked
<1>12. QED
  BY <1>9, <1>11 DEF DeployInv

LEMMA ResolveStep ==
  ASSUME DeployInv, Resolve
  PROVE  DeployInv'
<1>1. PICK t \in Tx, leg \in Leg, ok \in BOOLEAN : t = work.tx /\ leg = work.leg /\ ok = work.ok
  BY AtWork DEF Resolve, At
<1>2. work # None /\ work \in Work /\ Rows[t] \in Row /\ work.place = "resolve"
  BY <1>1, AtWork DEF Resolve, At
<1>3. PICK row \in Row : row = [Rows[t] EXCEPT !.state = OutcomeState(leg, ok)]
  BY <1>2, OutcomeStates DEF Row
<1>4. row.on = Rows[t].on /\ row.state = OutcomeState(leg, ok)
  BY <1>2, <1>3 DEF Row
<1>5. /\ Save(work.tx, row)
      /\ UNCHANGED <<process, simulated, rail, signing, boots, deployed, mixed, cut>>
      /\ work' = IF Follows(leg, ok) = None THEN None
                 ELSE [work EXCEPT !.leg = Follows(leg, ok), !.ok = TRUE, !.place = "begin"]
  BY <1>1, <1>3 DEF Resolve
<1>6. /\ work' \in Work \cup {None}
      /\ work' # None => /\ work'.tx = t /\ work'.plays = work.plays
                         /\ work'.place = "begin" /\ work'.leg # "deposit"
  <2>1. CASE Follows(leg, ok) = None
    BY <1>5, <2>1
  <2>2. CASE Follows(leg, ok) # None
    <3>1. Follows(leg, ok) \in {"payout", "refund"} /\ Follows(leg, ok) \in Leg
      BY <2>2, FollowsLater
    <3>2. QED
      BY <1>1, <1>2, <1>5, <2>2, <3>1 DEF Work
  <2>3. QED
    BY <2>1, <2>2
<1>7. t \notin mixed /\ Asked(t) =>
        process.live /\ LiveRow(t, Rows[t]) /\ (ok => rail[t][leg] = "completed")
  BY <1>1, <1>2, AtWork DEF DeployInv, WorkInv
<1>8. t \notin mixed /\ Asked(t) => LiveRow(t, row)
  BY <1>4, <1>7, OutcomeStates DEF LiveRow
<1>9. TypeOK' /\ RowsInv' /\ Up' /\ Rows'[t] # None
  BY <1>1, <1>2, <1>5, <1>6, <1>8, HandlerWrites
<1>10. WorkInv'
  BY <1>1, <1>2, <1>5, <1>6, <1>7, <1>9 DEF DeployInv, WorkInv, Asked
<1>11. QED
  BY <1>9, <1>10 DEF DeployInv

\* apply_outcome, with what pawaPay knows of a payment that began there.
LEMMA ApplyStep ==
  ASSUME DeployInv, Up, NEW t \in Tx, NEW leg \in Leg, NEW ok \in BOOLEAN,
         Rows[t] # None, Apply(t, leg, ok),
         mixed \subseteq mixed', mixed' \subseteq Tx,
         t \notin mixed' /\ Asked(t) => process.live /\ (ok => rail[t][leg] = "completed")
  PROVE  DeployInv'
<1>1. /\ work' = [tx |-> t, leg |-> leg, ok |-> ok, plays |-> FALSE, place |-> "resolve"]
      /\ UNCHANGED <<process, table, memory, simulated, rail, signing, boots, deployed, cut>>
  BY DEF Apply
<1>2. work' \in Work
  BY <1>1 DEF Work
<1>3. TypeOK'
  BY <1>1, <1>2 DEF DeployInv, TypeOK
<1>4. RowsInv'
  BY <1>1, RowsKept DEF DeployInv, RowsInv, Asked
<1>5. Up' /\ Rows'[t] # None
  BY <1>1 DEF Up, Rows
<1>6. WorkInv'
  BY <1>1, <1>5 DEF WorkInv, Asked
<1>7. QED
  BY <1>3, <1>4, <1>6 DEF DeployInv

LEMMA CallbackStep ==
  ASSUME DeployInv, NEW t \in Tx, NEW leg \in Leg, Callback(t, leg)
  PROVE  DeployInv'
<1>1. mixed \subseteq mixed' /\ mixed' \subseteq Tx
  BY DEF DeployInv, TypeOK, Callback
<1>2. t \notin mixed' => process.live
  BY DEF Callback
<1>3. Up /\ Rows[t] # None /\ Apply(t, leg, rail[t][leg] = "completed")
  BY DEF Callback
<1>4. QED
  BY <1>1, <1>2, <1>3, ApplyStep

\* A simulator answers for what it was asked itself, which excludes the row of a
\* payment that began at pawaPay.
LEMMA ReconcileStep ==
  ASSUME DeployInv, Up, NEW t \in Tx, NEW leg \in Leg, Reconcile(t, leg)
  PROVE  DeployInv'
<1>1. /\ Rows[t] # None /\ mixed' = mixed
      /\ Status(t, leg) \in {"completed", "failed"}
      /\ Apply(t, leg, Status(t, leg) = "completed")
  BY DEF Reconcile
<1>2. \/ process.live /\ Status(t, leg) = rail[t][leg]
      \/ ~process.live /\ Rows[t].on[leg] = "simulator"
  BY <1>1 DEF Status
<1>3. mixed \subseteq mixed' /\ mixed' \subseteq Tx
  BY <1>1 DEF DeployInv, TypeOK
<1>4. t \notin mixed /\ Asked(t) => Rows[t].on[leg] # "simulator"
  BY <1>1 DEF DeployInv, RowsInv, LiveRowIn, LiveRow, Rows
<1>5. t \notin mixed' /\ Asked(t) =>
        process.live /\ (Status(t, leg) = "completed" => rail[t][leg] = "completed")
  BY <1>1, <1>2, <1>4
<1>6. QED
  BY <1>1, <1>3, <1>5, ApplyStep

-----------------------------------------------------------------------------
(* pawaPay, and all steps *)

LEMMA SettleStep ==
  ASSUME DeployInv, NEW t \in Tx, NEW leg \in Leg, RailSettles(t, leg)
  PROVE  DeployInv'
<1>1. PICK s \in {"completed", "failed"} : rail' = [rail EXCEPT ![t][leg] = s]
  BY DEF RailSettles
<1>2. rail \in [Tx -> [Leg -> {"none", "accepted", "completed", "failed"}]]
  BY DEF DeployInv, TypeOK
<1>3. rail[t][leg] = "accepted"
  BY DEF RailSettles
<1>4. \A u \in Tx, l \in Leg : rail[u][l] = "completed" => rail'[u][l] = "completed"
  BY <1>1, <1>2, <1>3
<1>5. \A u \in Tx : Asked(u)' <=> Asked(u)
  BY <1>1, <1>2, <1>3, Legs DEF Asked
<1>6. UNCHANGED <<process, table, memory, work, simulated, signing, boots, deployed, mixed, cut>>
  BY DEF RailSettles
<1>7. TypeOK'
  BY <1>1, <1>2, <1>6 DEF DeployInv, TypeOK
<1>8. RowsInv'
  BY <1>4, <1>5, <1>6, RowsKept DEF DeployInv, RowsInv
<1>9. WorkInv'
  <2>1. work # None => work.tx \in Tx /\ work.leg \in Leg
    BY AtWork
  <2>2. Rows' = Rows /\ (Up' <=> Up)
    BY <1>6 DEF Rows, Up
  <2>3. QED
    BY <1>4, <1>5, <1>6, <2>1, <2>2 DEF DeployInv, WorkInv, Untouched
<1>10. QED
  BY <1>7, <1>8, <1>9 DEF DeployInv

\* A step that leaves everything but the signing key alone.
LEMMA IdleStep ==
  ASSUME DeployInv, signing' \in Keys,
         UNCHANGED <<process, table, memory, work, simulated, rail, boots, deployed, mixed, cut>>
  PROVE  DeployInv'
<1>1. TypeOK'
  BY DEF DeployInv, TypeOK
<1>2. RowsInv'
  BY RowsKept DEF DeployInv, RowsInv, Asked
<1>3. WorkInv'
  BY DEF DeployInv, WorkInv, Up, Rows, Asked, Untouched
<1>4. QED
  BY <1>1, <1>2, <1>3 DEF DeployInv

LEMMA NextStep ==
  ASSUME DeployInv, [Next]_vars
  PROVE  DeployInv'
<1>1. CASE \E s \in Settings : Boot(s)
  BY <1>1, BootStep
<1>2. CASE Stop
  BY <1>2, StopStep
<1>3. CASE \E t \in Tx : Pay(t)
  BY <1>3, PayStep
<1>4. CASE HandlerStep
  BY <1>4, BeginStep, AcceptedStep, RefusedStep, StoreOpIdStep, ResolveStep DEF HandlerStep
<1>5. CASE RequestRaises
  BY <1>5, RaisesStep
<1>6. ASSUME NEW t \in Tx, NEW leg \in Leg,
             Callback(t, leg) \/ ReconcileLoop(t, leg) \/ DemoReconcile(t, leg)
               \/ RailSettles(t, leg)
      PROVE  DeployInv'
  <2>1. CASE Callback(t, leg)
    BY <2>1, CallbackStep
  <2>2. CASE ReconcileLoop(t, leg) \/ DemoReconcile(t, leg)
    BY <2>2, ReconcileStep DEF ReconcileLoop, DemoReconcile
  <2>3. CASE RailSettles(t, leg)
    BY <2>3, SettleStep
  <2>4. QED
    BY <1>6, <2>1, <2>2, <2>3
<1>7. CASE RotateKey
  <2>1. signing' \in Keys
    BY <1>7, DeployAssumption DEF RotateKey, DeployInv, TypeOK, Keys
  <2>2. QED
    BY <1>7, <2>1, IdleStep DEF RotateKey
<1>8. CASE UNCHANGED vars
  BY <1>8, IdleStep DEF vars, DeployInv, TypeOK
<1>9. QED
  BY <1>1, <1>2, <1>3, <1>4, <1>5, <1>6, <1>7, <1>8 DEF Next

-----------------------------------------------------------------------------
(* The theorems *)

\* No payment is in two stores, and what began at pawaPay is driven on the live
\* rail, or marked as mixed, at every moment (container.py, simulator.py).
THEOREM DeployAlways == Spec => []DeployInv
<1>1. DeployInv /\ [Next]_vars => DeployInv'
  BY NextStep
<1>2. QED
  BY InitDeploy, <1>1, PTL DEF Spec

\* No payment taken outside a local environment is lost to a restart or to a
\* release with other settings: build_container refuses to deploy on the memory.
THEOREM NothingForgottenEver == Spec => []NothingForgotten
<1>1. DeployInv => NothingForgotten
  BY DEF DeployInv, RowsInv
<1>2. QED
  BY DeployAlways, <1>1, PTL

\* Whatever rails the releases run on, a payment that began at pawaPay is shown
\* paid or refunded only when pawaPay paid or refunded it.
THEOREM RealMoneyOnly == Spec => []RealMoneyMoved
<1>1. QED
  BY DeployAlways, InvReal, PTL

-----------------------------------------------------------------------------
(* Books across changes of the rates *)

\* A leg's cost is an amount, and never negative for a positive price.
LEMMA CostIsAmount ==
  ASSUME NEW amount \in Int, NEW bps \in Nat
  PROVE  Cost(amount, bps) \in Int /\ (amount > 0 => Cost(amount, bps) >= 0)
<1>1. amount * bps \in Int /\ (amount > 0 => amount * bps >= 0)
  OBVIOUS
<1>2. \A n \in Int : n \div 10000 \in Int /\ (n >= 0 => n \div 10000 >= 0)
  OBVIOUS
<1>3. QED
  BY <1>1, <1>2 DEF Cost

LEMMA CostsOfPayment ==
  ASSUME BooksTypeOK
  PROVE  /\ CollectionCost(pay.amount, pay.payer) \in Int
         /\ PayoutCost(pay.amount, pay.merchant) \in Int
         /\ pay.amount > 0 => /\ CollectionCost(pay.amount, pay.payer) >= 0
                              /\ PayoutCost(pay.amount, pay.merchant) >= 0
<1>1. /\ pay.amount \in Int
      /\ rates.collect[pay.payer] \in Nat /\ rates.payout[pay.merchant] \in Nat
  BY BooksAssumption DEF BooksTypeOK
<1>2. QED
  BY <1>1, CostIsAmount DEF CollectionCost, PayoutCost

\* What the balances are at each stage: the strengthening that makes the
\* properties inductive.  Without a release in between, the costs netted at the
\* payout are those netted at the collection and quoted in the fee.
Collected == {"payout_pending", "payout_raised", "refund_pending", "unposted", "manual_review"}
BooksInv ==
  /\ BooksTypeOK
  /\ stage = "none" => ~repriced
  /\ stage # "none" => pay.amount > 0
  /\ stage # "none" /\ ~repriced =>
       pay.fee = DefaultFee(pay.amount, pay.payer, pay.merchant)
  /\ stage \in {"none", "deposit_raised", "collection_pending"} =>
       \A a \in Account : balance[a] = 0
  /\ stage \in Collected =>
       /\ balance["customer"] = pay.amount
       /\ balance["merchant"] = 0 /\ balance["revenue"] = 0
       /\ balance["clearing"] = -(pay.amount + balance["expense"])
  /\ stage \in Collected /\ ~repriced =>
       balance["expense"] = -CollectionCost(pay.amount, pay.payer)
  /\ TrialBalance
  /\ DrainedUnlessRepriced
  /\ MadeWhole
  /\ PostedUnlessRepriced

LEMMA InitBooks == BooksInit => BooksInv
<1> SUFFICES ASSUME BooksInit PROVE BooksInv
  OBVIOUS
<1>1. pay \in [amount : Amounts, fee : Int, payer : Provider, merchant : Provider]
  <2>1. {0} \subseteq Int
    OBVIOUS
  <2>2. QED
    BY <2>1 DEF BooksInit
<1>2. BooksTypeOK
  BY <1>1 DEF BooksInit, BooksTypeOK, Stage, Account
<1>3. QED
  BY <1>2 DEF BooksInit, BooksInv, Collected, TrialBalance, Balanced, DrainedUnlessRepriced,
     Drained, MadeWhole, PostedUnlessRepriced, Account

LEMMA NextBooks == BooksInv /\ [BooksNext]_bookVars => BooksInv'
<1> SUFFICES ASSUME BooksInv, [BooksNext]_bookVars PROVE BooksInv'
  OBVIOUS
<1>0. BooksTypeOK
  BY DEF BooksInv
<1>a. PICK c \in Int, p \in Int :
        /\ c = CollectionCost(pay.amount, pay.payer)
        /\ p = PayoutCost(pay.amount, pay.merchant)
        /\ pay.amount > 0 => c >= 0 /\ p >= 0
  BY <1>0, CostsOfPayment
<1>b. pay.amount \in Int /\ pay.fee \in Int
  BY <1>0, BooksAssumption DEF BooksTypeOK
<1>1. CASE Start
  <2>1. PICK fee \in Int : fee = c + p
    BY <1>a
  <2>2. /\ stage = "none" /\ pay.amount > 0
        /\ pay' = [pay EXCEPT !.fee = fee]
        /\ stage' \in {"collection_pending", "deposit_raised"}
        /\ UNCHANGED <<rates, repriced, balance>>
    BY <1>1, <1>a, <2>1 DEF Start, DefaultFee
  <2>3. /\ pay'.amount = pay.amount /\ pay'.payer = pay.payer
        /\ pay'.merchant = pay.merchant /\ pay'.fee = fee
        /\ pay' \in [amount : Amounts, fee : Int, payer : Provider, merchant : Provider]
    BY <1>0, <2>1, <2>2 DEF BooksTypeOK
  <2>4. BooksTypeOK'
    BY <1>0, <2>2, <2>3 DEF BooksTypeOK, Stage
  <2>5. pay'.fee = DefaultFee(pay.amount, pay.payer, pay.merchant)'
    BY <1>a, <2>1, <2>2, <2>3 DEF DefaultFee, CollectionCost, PayoutCost
  <2>6. QED
    BY <2>2, <2>3, <2>4, <2>5 DEF BooksInv, Collected, TrialBalance, Balanced,
       DrainedUnlessRepriced, Drained, MadeWhole, PostedUnlessRepriced
<1>2. CASE CollectionSucceeds
  <2>1. /\ stage = "collection_pending" /\ pay.amount > 0
        /\ stage' \in {"payout_pending", "payout_raised"}
        /\ UNCHANGED <<rates, repriced, pay>>
    BY <1>2 DEF CollectionSucceeds, BooksInv
  <2>2. /\ balance' \in [Account -> Int]
        /\ balance'["customer"] = pay.amount /\ balance'["clearing"] = -(pay.amount - c)
        /\ balance'["expense"] = -c
        /\ balance'["merchant"] = 0 /\ balance'["revenue"] = 0
    BY <1>0, <1>2, <1>a, <1>b, <2>1
       DEF CollectionSucceeds, Book, CollectionPosting, IfPositive, BooksInv, BooksTypeOK, Account
  <2>3. BooksTypeOK'
    BY <1>0, <2>1, <2>2 DEF BooksTypeOK, Stage
  <2>4. /\ CollectionCost(pay.amount, pay.payer)' = c
        /\ ~repriced' => pay'.fee = DefaultFee(pay.amount, pay.payer, pay.merchant)'
    BY <1>a, <2>1 DEF BooksInv, DefaultFee, CollectionCost, PayoutCost
  <2>5. TrialBalance'
    BY <1>a, <1>b, <2>2 DEF TrialBalance, Balanced
  <2>6. QED
    BY <1>a, <1>b, <2>1, <2>2, <2>3, <2>4, <2>5
       DEF BooksInv, Collected, DrainedUnlessRepriced, Drained, MadeWhole, PostedUnlessRepriced
<1>3. CASE PayoutSucceeds
  <2>1. /\ stage = "payout_pending" /\ pay.amount > 0 /\ c >= 0 /\ p >= 0
        /\ UNCHANGED <<rates, repriced, pay>>
    BY <1>3, <1>a DEF PayoutSucceeds, BooksInv
  <2>2. /\ balance["customer"] = pay.amount /\ balance["merchant"] = 0
        /\ balance["revenue"] = 0 /\ balance["expense"] \in Int
        /\ balance["clearing"] = -(pay.amount + balance["expense"])
        /\ ~repriced => balance["expense"] = -c /\ pay.fee = c + p
    BY <1>0, <1>a, <2>1 DEF BooksInv, Collected, BooksTypeOK, Account, DefaultFee
  <2>3. /\ PayoutPosting.clearing = pay.amount - c
        /\ PayoutPosting.merchant = -(pay.amount - pay.fee)
        /\ PayoutPosting.expense = -p
        /\ PayoutPosting.revenue = -IfPositive(pay.fee - c - p)
        /\ PayoutPosting.customer = 0
        /\ IfPositive(pay.fee - c - p) \in Int
        /\ pay.fee = c + p => IfPositive(pay.fee - c - p) = 0
    BY <1>a, <1>b, <2>1 DEF PayoutPosting, IfPositive
  <2>4. pay.fee = c + p => Balanced(PayoutPosting)
    <3>1. SUFFICES ASSUME pay.fee = c + p PROVE Balanced(PayoutPosting)
      OBVIOUS
    <3>2. PayoutPosting.revenue = 0
      BY <2>3, <3>1
    <3>3. PayoutPosting.merchant = c + p - pay.amount
      BY <1>a, <1>b, <2>3, <3>1
    <3>4. QED
      BY <1>a, <1>b, <2>3, <3>2, <3>3 DEF Balanced
  <2>5. ~repriced' => pay'.fee = DefaultFee(pay.amount, pay.payer, pay.merchant)'
    BY <2>1 DEF BooksInv, DefaultFee, CollectionCost, PayoutCost
  <2>6. CASE Balanced(PayoutPosting)
    <3>1. /\ stage' = "payout_succeeded"
          /\ balance' = [a \in Account |-> balance[a] + PayoutPosting[a]]
      BY <1>3, <2>6 DEF PayoutSucceeds, Book
    <3>2. /\ balance'["customer"] = pay.amount
          /\ balance'["merchant"] = -(pay.amount - pay.fee)
          /\ balance'["clearing"] = -(pay.amount + balance["expense"]) + pay.amount - c
          /\ balance'["expense"] = balance["expense"] - p
          /\ balance'["revenue"] = -IfPositive(pay.fee - c - p)
      BY <1>a, <1>b, <2>2, <2>3, <3>1 DEF Account
    <3>3. balance' \in [Account -> Int]
      BY <1>0, <1>a, <1>b, <2>2, <2>3, <3>1, <3>2 DEF Account
    <3>4. BooksTypeOK'
      BY <1>0, <2>1, <3>1, <3>3 DEF BooksTypeOK, Stage
    <3>5. TrialBalance'
      BY <1>a, <1>b, <2>2, <2>3, <2>6, <3>2 DEF TrialBalance, Balanced
    <3>6. DrainedUnlessRepriced'
      BY <1>a, <1>b, <2>1, <2>2, <2>3, <3>2 DEF DrainedUnlessRepriced, Drained
    <3>7. QED
      BY <2>1, <2>5, <3>1, <3>4, <3>5, <3>6 DEF BooksInv, Collected, MadeWhole, PostedUnlessRepriced
  <2>7. CASE ~Balanced(PayoutPosting)
    <3>1. stage' = "unposted" /\ balance' = balance /\ repriced
      BY <1>3, <2>2, <2>4, <2>7 DEF PayoutSucceeds
    <3>2. BooksTypeOK'
      BY <1>0, <2>1, <3>1 DEF BooksTypeOK, Stage
    <3>3. QED
      BY <2>1, <2>2, <2>5, <3>1, <3>2 DEF BooksInv, Collected, TrialBalance, Balanced,
         DrainedUnlessRepriced, Drained, MadeWhole, PostedUnlessRepriced
  <2>8. QED
    BY <2>6, <2>7
<1>4. CASE PayoutFails
  BY <1>4 DEF PayoutFails, BooksInv, BooksTypeOK, Collected, TrialBalance, Balanced,
     DrainedUnlessRepriced, Drained, MadeWhole, PostedUnlessRepriced, Stage,
     DefaultFee, CollectionCost, PayoutCost
<1>5. CASE RefundSucceeds
  <2>1. /\ stage = "refund_pending" /\ stage' = "refunded" /\ pay.amount > 0
        /\ balance' = [a \in Account |-> balance[a] + RefundPosting[a]]
        /\ UNCHANGED <<rates, repriced, pay>>
    BY <1>5 DEF RefundSucceeds, Book, BooksInv
  <2>2. /\ balance["customer"] = pay.amount /\ balance["merchant"] = 0
        /\ balance["revenue"] = 0 /\ balance["expense"] \in Int
        /\ balance["clearing"] = -(pay.amount + balance["expense"])
    BY <1>0, <2>1 DEF BooksInv, Collected, BooksTypeOK, Account
  <2>3. /\ balance'["customer"] = 0 /\ balance'["merchant"] = 0
        /\ balance'["revenue"] = 0 /\ balance'["expense"] = balance["expense"]
        /\ balance'["clearing"] = -balance["expense"]
        /\ balance' \in [Account -> Int]
    BY <1>b, <2>1, <2>2 DEF Account, RefundPosting
  <2>4. BooksTypeOK'
    BY <1>0, <2>1, <2>3 DEF BooksTypeOK, Stage
  <2>5. ~repriced' => pay'.fee = DefaultFee(pay.amount, pay.payer, pay.merchant)'
    BY <2>1 DEF BooksInv, DefaultFee, CollectionCost, PayoutCost
  <2>6. TrialBalance' /\ MadeWhole'
    BY <2>2, <2>3 DEF TrialBalance, Balanced, MadeWhole
  <2>7. QED
    BY <2>1, <2>4, <2>5, <2>6 DEF BooksInv, Collected, DrainedUnlessRepriced, Drained,
       PostedUnlessRepriced
<1>6. CASE RefundFails
  BY <1>6 DEF RefundFails, BooksInv, BooksTypeOK, Collected, TrialBalance, Balanced,
     DrainedUnlessRepriced, Drained, MadeWhole, PostedUnlessRepriced, Stage,
     DefaultFee, CollectionCost, PayoutCost
<1>7. CASE Reprice
  BY <1>7 DEF Reprice, BooksInv, BooksTypeOK, Collected, TrialBalance, Balanced,
     DrainedUnlessRepriced, Drained, MadeWhole, PostedUnlessRepriced, Stage
<1>8. CASE UNCHANGED bookVars
  BY <1>8 DEF bookVars, BooksInv, BooksTypeOK, Collected, TrialBalance, Balanced,
     DrainedUnlessRepriced, Drained, MadeWhole, PostedUnlessRepriced, Stage,
     DefaultFee, CollectionCost, PayoutCost
<1>9. QED
  BY <1>1, <1>2, <1>3, <1>4, <1>5, <1>6, <1>7, <1>8 DEF BooksNext

\* The balances are those of the stage, at every moment (orchestrator.py).
THEOREM BooksAlways == BooksSpec => []BooksInv
<1>1. QED
  BY InitBooks, NextBooks, PTL DEF BooksSpec

\* Whatever rates are published and whenever they change, debits equal credits
\* over all accounts after every posting of the orchestrator.
THEOREM BooksBalance == BooksSpec => []TrialBalance
<1>1. BooksInv => TrialBalance
  BY DEF BooksInv
<1>2. QED
  BY <1>1, BooksAlways, PTL

\* If no release changes the rates while a payment runs, its payout is posted,
\* clearing drains to zero over the two legs, the fee is exactly the expense and
\* nothing is earned (orchestrator.py, on_collection_result, on_payout_result).
THEOREM ClearingDrains == BooksSpec => []SettlementDrains
<1>1. BooksInv => SettlementDrains
  BY DEF BooksInv, SettlementDrains
<1>2. QED
  BY <1>1, BooksAlways, PTL

\* A refund returns all the customer paid, under any rates, at the expense of
\* what the collection cost (on_refund_result).
THEOREM RefundMakesWhole == BooksSpec => []MadeWhole
<1>1. BooksInv => MadeWhole
  BY DEF BooksInv
<1>2. QED
  BY <1>1, BooksAlways, PTL
=============================================================================
