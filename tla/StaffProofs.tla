---------------------------- MODULE StaffProofs ----------------------------
(***************************************************************************)
(* For any accounts, threads and tokens: a session belongs to an account,  *)
(* only two removals that both counted before either deleted can leave     *)
(* nobody who can sign in, and the brake on failed logins holds for a name *)
(* whose logins never overlapped.                                          *)
(***************************************************************************)
EXTENDS MCStaff, FiniteSetTheorems, TLAPS

-----------------------------------------------------------------------------
(* The invariants *)

StaffInv ==
  /\ TypeOK
  /\ SessionsHaveAccounts

\* Until two removals race, the ones that were not refused are of one account, and
\* there is another.
RaceInv ==
  /\ StaffInv
  /\ ~raced => /\ \A x, y \in Leaving : x = y
               /\ \A x \in Leaving : Accounts \ {x} # {}
               /\ Accounts # {}

\* While the logins of the watched name have not overlapped, a failure is counted
\* on from what the dictionary holds, and the dictionary holds what the observer saw.
CountsWhatHappened ==
  /\ \A v, w \in LoggingIn : v = w
  /\ \A w \in LoggingIn : pc[w] = "record" => read[w] = failures[Watched].count
  /\ failures[Watched].count = streak
  /\ failures[Watched].left = IF streak = 0 THEN 0 ELSE Lockout - quiet

BrakeInv ==
  /\ TypeOK
  /\ streak \in 0 .. MaxFailures
  /\ quiet \in 0 .. Lockout
  /\ failures[Watched].left > 0 => failures[Watched].count > 0
  /\ IF disturbed THEN LoggingIn # {} \/ failures[Watched] # NoFailures
                  ELSE CountsWhatHappened

-----------------------------------------------------------------------------
(* Helpers *)

\* An account found by its username is an account.
LEMMA Found ==
  ASSUME NEW u, ByUsername(u) # None
  PROVE  ByUsername(u) \in Accounts
BY DEF ByUsername, Named

\* A save removes nobody and adds at most the account it is about.
LEMMA SaveKeeps ==
  ASSUME TypeOK, NEW s \in Id, NEW u \in Username, SaveCredential(s, u)
  PROVE  /\ creds' \in [Id -> Username \cup {None}]
         /\ Accounts \subseteq Accounts'
         /\ Accounts' \subseteq Accounts \cup {s}
BY StaffAssumption DEF SaveCredential, TypeOK, Accounts

\* What the throttle writes is an entry.
LEMMA Entries ==
  /\ NoFailures \in Entry
  /\ \A n \in 0 .. MaxFailures : Recorded(n) \in Entry
  /\ \A e \in Entry : Aged(e) \in Entry
<1>1. NoFailures \in Entry
  BY ThrottleAssumption DEF NoFailures, Entry
<1>2. ASSUME NEW n \in 0 .. MaxFailures PROVE Recorded(n) \in Entry
  BY ThrottleAssumption DEF Recorded, Entry
<1>3. ASSUME NEW e \in Entry PROVE Aged(e) \in Entry
  BY ThrottleAssumption DEF Aged, Entry
<1>4. QED
  BY <1>1, <1>2, <1>3

-----------------------------------------------------------------------------
(* Types *)

LEMMA InitType == Init => TypeOK
<1>1. ASSUME Init PROVE TypeOK
  <2>1. PICK s \in Id, u \in Username :
          /\ creds = [x \in Id |-> IF x = s THEN u ELSE None]
          /\ issued = {s, DemoId}
    BY <1>1 DEF Init
  <2>2. creds \in [Id -> Username \cup {None}] /\ Accounts \subseteq {s}
    BY <2>1 DEF Accounts
  <2>3. \A w \in HttpThreads : read[w] \in 0 .. MaxFailures
    BY <1>1, ThrottleAssumption DEF Init
  <2>4. QED
    BY <1>1, <2>1, <2>2, <2>3, Entries, StaffAssumption DEF Init, TypeOK, Place
<1>2. QED
  BY <1>1

\* A step of thread w.
LEMMA TypeFrame ==
  ASSUME TypeOK, NEW w \in Threads,
         creds' \in [Id -> Username \cup {None}],
         sessions' \in [Token -> Id \cup {None}],
         issued \subseteq issued', issued' \subseteq Id, Accounts' \subseteq issued',
         saves' \in 0 .. MaxSaves,
         failures' \in [Username -> Entry],
         read' \in [HttpThreads -> 0 .. MaxFailures],
         pc' \in [Threads -> Place],
         name' \in [Threads -> Username \cup {None}],
         id' \in [Threads -> Id \cup {None}],
         \A v \in Threads \ {w} : pc'[v] = pc[v] /\ name'[v] = name[v] /\ id'[v] = id[v],
         (pc'[w] = "idle") <=> (name'[w] = None),
         pc'[w] \in {"mint", "insert", "count", "revoke", "delete"} => id'[w] \in issued',
         pc'[w] \in {"verify", "record", "mint", "create"} => w \in HttpThreads,
         pc'[w] \in {"count", "revoke", "delete"} => w \in CliThreads
  PROVE  TypeOK'
<1>1. \A v \in Threads :
        /\ (pc'[v] = "idle") <=> (name'[v] = None)
        /\ pc'[v] \in {"mint", "insert", "count", "revoke", "delete"} => id'[v] \in issued'
        /\ pc'[v] \in {"verify", "record", "mint", "create"} => v \in HttpThreads
        /\ pc'[v] \in {"count", "revoke", "delete"} => v \in CliThreads
  BY DEF TypeOK
<1>2. DemoId \in issued'
  BY DEF TypeOK
<1>3. QED
  BY <1>1, <1>2 DEF TypeOK

\* The disjuncts of a step.
LEMMA StepCases ==
  ASSUME [Next]_vars
  PROVE  \/ \E w \in Threads, u \in Username :
              Login(w, u) \/ Create(w, u) \/ Upsert(w, u) \/ Remove(w, u)
         \/ \E w \in Threads :
              \/ Right(w) \/ Wrong(w) \/ Record(w) \/ Mint(w) \/ CheckFree(w)
              \/ Insert(w) \/ CountAccounts(w) \/ Revoke(w) \/ Delete(w)
         \/ \E t \in Token : DeleteSession(t)
         \/ SeedDemo
         \/ Tick
         \/ Restart
         \/ UNCHANGED vars
BY DEF Next, Step, Logout, Expire

LEMMA TypeStep == ASSUME TypeOK, [Next]_vars PROVE TypeOK'
<1>0. /\ creds \in [Id -> Username \cup {None}]
      /\ sessions \in [Token -> Id \cup {None}]
      /\ issued \subseteq Id
      /\ Accounts \cup {DemoId} \subseteq issued
      /\ saves \in 0 .. MaxSaves
      /\ failures \in [Username -> Entry]
      /\ read \in [HttpThreads -> 0 .. MaxFailures]
      /\ pc \in [Threads -> Place]
      /\ name \in [Threads -> Username \cup {None}]
      /\ id \in [Threads -> Id \cup {None}]
  BY DEF TypeOK
<1>k. UNCHANGED creds => Accounts' = Accounts
  BY DEF Accounts
<1>p. Place = {"idle", "verify", "record", "mint", "create", "insert", "count", "revoke", "delete"}
  BY DEF Place
<1>n. None \notin Username /\ None \notin Id
  BY StaffAssumption
<1>u. \A w \in Threads : pc[w] # "idle" => name[w] \in Username
  BY <1>0 DEF TypeOK
<1>1. ASSUME NEW w \in Threads, NEW u \in Username, Login(w, u) \/ Create(w, u) PROVE TypeOK'
  <2>1. w \in HttpThreads /\ (Take(w, u, None, "verify") \/ Take(w, u, None, "create")) /\ UNCHANGED throttle
    BY <1>1 DEF Login, Create
  <2>2. QED
    BY <1>0, <1>k, <1>p, <1>n, <2>1, TypeFrame DEF Take, Goto, throttle
<1>2. ASSUME NEW w \in Threads, NEW u \in Username, Upsert(w, u) PROVE TypeOK'
  <2>1. PICK s \in Id : issued' = issued \cup {s} /\ id' = [id EXCEPT ![w] = s]
    BY <1>0, <1>2, Found DEF Upsert
  <2>2. /\ name' = [name EXCEPT ![w] = u] /\ pc' = [pc EXCEPT ![w] = "insert"]
        /\ UNCHANGED <<creds, sessions, saves, failures, read>>
    BY <1>2 DEF Upsert, Goto, throttle
  <2>3. QED
    BY <1>0, <1>k, <1>p, <1>n, <2>1, <2>2, TypeFrame
<1>3. ASSUME NEW w \in Threads, NEW u \in Username, Remove(w, u) PROVE TypeOK'
  <2>1. PICK s \in Accounts : Take(w, u, s, "count")
    BY <1>3, Found DEF Remove
  <2>2. w \in CliThreads /\ UNCHANGED <<failures, read>>
    BY <1>3 DEF Remove, throttle
  <2>3. QED
    BY <1>0, <1>k, <1>p, <1>n, <2>1, <2>2, TypeFrame DEF Take, Goto
<1>4. ASSUME NEW w \in Threads, Right(w) PROVE TypeOK'
  <2>1. PICK s \in Accounts : s = ByUsername(name[w])
    BY <1>4, Found DEF Right
  <2>2. name[w] \in Username /\ w \in HttpThreads
    BY <1>4, <1>u DEF TypeOK, Right
  <2>3. /\ id' = [id EXCEPT ![w] = s] /\ pc' = [pc EXCEPT ![w] = "mint"]
        /\ failures' = [failures EXCEPT ![name[w]] = NoFailures]
        /\ UNCHANGED <<creds, sessions, issued, saves, read, name>>
    BY <1>4, <2>1 DEF Right, Goto
  <2>4. QED
    BY <1>0, <1>k, <1>p, <1>n, <2>1, <2>2, <2>3, Entries, TypeFrame
<1>5. ASSUME NEW w \in Threads, Wrong(w) PROVE TypeOK'
  <2>1. name[w] \in Username /\ w \in HttpThreads
    BY <1>5, <1>u DEF TypeOK, Wrong
  <2>2. failures[name[w]].count \in 0 .. MaxFailures
    BY <1>0, <2>1 DEF Entry
  <2>3. /\ read' = [read EXCEPT ![w] = failures[name[w]].count]
        /\ pc' = [pc EXCEPT ![w] = "record"]
        /\ UNCHANGED <<creds, sessions, issued, saves, failures, name, id>>
    BY <1>5 DEF Wrong, Goto
  <2>4. QED
    BY <1>0, <1>k, <1>p, <1>n, <2>1, <2>2, <2>3, TypeFrame
<1>6. ASSUME NEW w \in Threads, Record(w) PROVE TypeOK'
  <2>1. name[w] \in Username /\ w \in HttpThreads
    BY <1>6, <1>u DEF TypeOK, Record
  <2>2. Recorded(read[w]) \in Entry /\ 0 \in 0 .. MaxFailures
    BY <1>0, <2>1, Entries, ThrottleAssumption
  <2>3. /\ failures' = [failures EXCEPT ![name[w]] = Recorded(read[w])]
        /\ read' = [read EXCEPT ![w] = 0]
        /\ Return(w)
        /\ UNCHANGED <<creds, sessions, issued, saves>>
    BY <1>6 DEF Record
  <2>4. QED
    BY <1>0, <1>k, <1>p, <1>n, <2>1, <2>2, <2>3, TypeFrame DEF Return, Goto
<1>7. ASSUME NEW w \in Threads, Mint(w) PROVE TypeOK'
  <2>1. sessions' \in [Token -> Id \cup {None}]
    BY <1>0, <1>7 DEF Mint, SaveSession
  <2>2. Return(w) /\ UNCHANGED <<creds, issued, saves, failures, read>>
    BY <1>7 DEF Mint, throttle
  <2>3. QED
    BY <1>0, <1>k, <1>p, <1>n, <2>1, <2>2, TypeFrame DEF Return, Goto
<1>8. ASSUME NEW w \in Threads, CheckFree(w) PROVE TypeOK'
  <2>1. UNCHANGED <<creds, sessions, saves, failures, read>> /\ pc[w] = "create"
    BY <1>8 DEF CheckFree, throttle
  <2>2. CASE Return(w) /\ UNCHANGED issued
    BY <1>0, <1>k, <1>p, <1>n, <2>1, <2>2, TypeFrame DEF Return, Goto
  <2>3. CASE \E s \in Id \ issued :
               /\ issued' = issued \cup {s}
               /\ id' = [id EXCEPT ![w] = s]
               /\ Goto(w, "insert")
               /\ UNCHANGED name
    BY <1>0, <1>k, <1>p, <1>u, <1>n, <2>1, <2>3, TypeFrame DEF Goto
  <2>4. QED
    BY <1>8, <2>2, <2>3 DEF CheckFree
<1>9. ASSUME NEW w \in Threads, Insert(w) PROVE TypeOK'
  <2>1. PICK s \in issued, u \in Username : s = id[w] /\ u = name[w]
    BY <1>9, <1>u DEF TypeOK, Insert
  <2>2. /\ saves < MaxSaves /\ saves' = saves + 1 /\ SaveCredential(s, u) /\ Return(w)
        /\ UNCHANGED <<sessions, issued, failures, read>>
    BY <1>9, <2>1 DEF Insert, throttle
  <2>3. /\ creds' \in [Id -> Username \cup {None}] /\ Accounts' \subseteq issued'
        /\ saves' \in 0 .. MaxSaves
    BY <1>0, <2>1, <2>2, SaveKeeps, StaffAssumption
  <2>4. QED
    BY <1>0, <1>p, <1>n, <2>2, <2>3, TypeFrame DEF Return, Goto
<1>10. ASSUME NEW w \in Threads, CountAccounts(w) PROVE TypeOK'
  <2>1. pc[w] = "count" /\ UNCHANGED <<creds, sessions, issued, saves, failures, read>>
    BY <1>10 DEF CountAccounts, throttle
  <2>2. w \in CliThreads /\ id[w] \in issued /\ name[w] \in Username
    BY <1>u, <2>1 DEF TypeOK
  <2>3. CASE Return(w)
    BY <1>0, <1>k, <1>p, <1>n, <2>1, <2>3, TypeFrame DEF Return, Goto
  <2>4. CASE Goto(w, "revoke") /\ UNCHANGED <<name, id>>
    BY <1>0, <1>k, <1>p, <1>n, <2>1, <2>2, <2>4, TypeFrame DEF Goto
  <2>5. QED
    BY <1>10, <2>3, <2>4 DEF CountAccounts
<1>11. ASSUME NEW w \in Threads, Revoke(w) PROVE TypeOK'
  <2>1. /\ pc[w] = "revoke" /\ pc' = [pc EXCEPT ![w] = "delete"]
        /\ sessions' = [t \in Token |-> IF sessions[t] = id[w] THEN None ELSE sessions[t]]
        /\ UNCHANGED <<creds, issued, saves, failures, read, name, id>>
    BY <1>11 DEF Revoke, Goto, throttle
  <2>2. w \in CliThreads /\ id[w] \in issued /\ name[w] \in Username
    BY <1>u, <2>1 DEF TypeOK
  <2>3. sessions' \in [Token -> Id \cup {None}]
    BY <1>0, <2>1
  <2>4. QED
    BY <1>0, <1>k, <1>p, <1>n, <2>1, <2>2, <2>3, TypeFrame
<1>12. ASSUME NEW w \in Threads, Delete(w) PROVE TypeOK'
  <2>1. /\ creds' \in [Id -> Username \cup {None}] /\ Accounts' \subseteq Accounts
    BY <1>0, <1>12 DEF Delete, Accounts
  <2>2. Return(w) /\ UNCHANGED <<sessions, issued, saves, failures, read>>
    BY <1>12 DEF Delete, throttle
  <2>3. QED
    BY <1>0, <1>p, <1>n, <2>1, <2>2, TypeFrame DEF Return, Goto
<1>13. ASSUME SeedDemo PROVE TypeOK'
  <2>1. /\ saves < MaxSaves /\ saves' = saves + 1 /\ SaveCredential(DemoId, DemoName)
        /\ UNCHANGED <<sessions, issued, failures, read, pc, name, id>>
    BY <1>13 DEF SeedDemo, throttle
  <2>2. /\ creds' \in [Id -> Username \cup {None}] /\ Accounts' \subseteq issued'
        /\ saves' \in 0 .. MaxSaves
    BY <1>0, <2>1, SaveKeeps, StaffAssumption
  <2>3. QED
    BY <2>1, <2>2 DEF TypeOK
<1>14. ASSUME NEW t \in Token, DeleteSession(t) PROVE TypeOK'
  BY <1>14, <1>k DEF DeleteSession, throttle, TypeOK
<1>15. ASSUME Tick PROVE TypeOK'
  <2>1. failures' \in [Username -> Entry]
    BY <1>0, <1>15, Entries DEF Tick
  <2>2. QED
    BY <1>15, <1>k, <2>1 DEF Tick, TypeOK
<1>16. ASSUME Restart PROVE TypeOK'
  <2>1. failures' \in [Username -> Entry] /\ read' \in [HttpThreads -> 0 .. MaxFailures]
    BY <1>16, Entries, ThrottleAssumption DEF Restart
  <2>2. /\ pc' = [w \in Threads |-> IF w \in HttpThreads THEN "idle" ELSE pc[w]]
        /\ name' = [w \in Threads |-> IF w \in HttpThreads THEN None ELSE name[w]]
        /\ id' = [w \in Threads |-> IF w \in HttpThreads THEN None ELSE id[w]]
        /\ UNCHANGED <<creds, sessions, issued, saves>>
    BY <1>16 DEF Restart
  <2>3. \A w \in Threads :
          /\ w \in HttpThreads => pc'[w] = "idle" /\ name'[w] = None
          /\ w \notin HttpThreads => pc'[w] = pc[w] /\ name'[w] = name[w] /\ id'[w] = id[w]
    BY <2>2
  <2>4. /\ pc' \in [Threads -> Place] /\ name' \in [Threads -> Username \cup {None}]
        /\ id' \in [Threads -> Id \cup {None}]
    BY <1>0, <1>p, <2>2
  <2>5. \A w \in Threads :
          /\ (pc'[w] = "idle") <=> (name'[w] = None)
          /\ pc'[w] \in {"mint", "insert", "count", "revoke", "delete"} => id'[w] \in issued'
          /\ pc'[w] \in {"verify", "record", "mint", "create"} => w \in HttpThreads
          /\ pc'[w] \in {"count", "revoke", "delete"} => w \in CliThreads
    BY <2>2, <2>3 DEF TypeOK
  <2>6. QED
    BY <1>0, <1>k, <2>1, <2>2, <2>4, <2>5 DEF TypeOK
<1>17. ASSUME UNCHANGED vars PROVE TypeOK'
  BY <1>17, <1>k DEF vars, throttle, TypeOK
<1>18. QED
  BY <1>1, <1>2, <1>3, <1>4, <1>5, <1>6, <1>7, <1>8, <1>9, <1>10, <1>11, <1>12, <1>13,
     <1>14, <1>15, <1>16, <1>17, StepCases

\* Rows, sessions, the throttle and what the threads hold keep their types.
THEOREM TypeCorrect == Spec => []TypeOK
<1>1. QED
  BY InitType, TypeStep, PTL DEF Spec

-----------------------------------------------------------------------------
(* Sessions and accounts *)

\* An account goes only with a delete that finds no session of it.
LEMMA AccountsStay ==
  ASSUME TypeOK, [Next]_vars
  PROVE  \/ Accounts \subseteq Accounts'
         \/ \E w \in Threads :
              /\ Delete(w)
              /\ \A t \in Token : sessions[t] # id[w]
              /\ Accounts \ {id[w]} \subseteq Accounts'
<1>k. UNCHANGED creds => Accounts' = Accounts
  BY DEF Accounts
<1>1. ASSUME NEW w \in Threads, NEW u \in Username,
             Login(w, u) \/ Create(w, u) \/ Upsert(w, u) \/ Remove(w, u)
      PROVE  UNCHANGED creds
  BY <1>1 DEF Login, Create, Upsert, Remove, Take
<1>2. ASSUME NEW w \in Threads,
             Right(w) \/ Wrong(w) \/ Record(w) \/ Mint(w) \/ CheckFree(w) \/ CountAccounts(w) \/ Revoke(w)
      PROVE  UNCHANGED creds
  BY <1>2 DEF Right, Wrong, Record, Mint, CheckFree, CountAccounts, Revoke
<1>3. ASSUME NEW w \in Threads, Insert(w) PROVE Accounts \subseteq Accounts'
  <2>1. PICK s \in Id, u \in Username : s = id[w] /\ u = name[w]
    BY <1>3 DEF TypeOK, Insert
  <2>2. QED
    BY <1>3, <2>1, SaveKeeps DEF Insert
<1>4. ASSUME SeedDemo PROVE Accounts \subseteq Accounts'
  BY <1>4, SaveKeeps, StaffAssumption DEF SeedDemo
<1>5. ASSUME NEW w \in Threads, Delete(w), UNCHANGED creds PROVE Accounts \subseteq Accounts'
  BY <1>k, <1>5
<1>6. ASSUME NEW w \in Threads, Delete(w), creds' # creds
      PROVE  /\ \A t \in Token : sessions[t] # id[w]
             /\ Accounts \ {id[w]} \subseteq Accounts'
  BY <1>6 DEF Delete, TypeOK, Accounts
<1>7. ASSUME NEW t \in Token, DeleteSession(t) PROVE UNCHANGED creds
  BY <1>7 DEF DeleteSession
<1>8. Tick \/ Restart \/ UNCHANGED vars => UNCHANGED creds
  BY DEF Tick, Restart, vars
<1>9. QED
  BY <1>k, <1>1, <1>2, <1>3, <1>4, <1>5, <1>6, <1>7, <1>8, StepCases

\* A session that appears is opened on an account that is there.
LEMMA SessionsOpen ==
  ASSUME TypeOK, [Next]_vars, NEW t \in Token, sessions'[t] # None, sessions'[t] # sessions[t]
  PROVE  sessions'[t] \in Accounts /\ UNCHANGED creds
<1>0. sessions \in [Token -> Id \cup {None}]
  BY DEF TypeOK
<1>1. ASSUME NEW w \in Threads, NEW u \in Username,
             Login(w, u) \/ Create(w, u) \/ Upsert(w, u) \/ Remove(w, u)
      PROVE  FALSE
  BY <1>1 DEF Login, Create, Upsert, Remove, Take
<1>2. ASSUME NEW w \in Threads,
             \/ Right(w) \/ Wrong(w) \/ Record(w) \/ CheckFree(w) \/ Insert(w)
             \/ CountAccounts(w) \/ Delete(w)
      PROVE  FALSE
  BY <1>2 DEF Right, Wrong, Record, CheckFree, Insert, CountAccounts, Delete
<1>3. ASSUME NEW w \in Threads, Mint(w) PROVE sessions'[t] \in Accounts /\ UNCHANGED creds
  BY <1>0, <1>3 DEF Mint, SaveSession
<1>4. ASSUME NEW w \in Threads, Revoke(w) PROVE FALSE
  BY <1>4 DEF Revoke
<1>5. ASSUME NEW k \in Token, DeleteSession(k) PROVE FALSE
  BY <1>0, <1>5 DEF DeleteSession
<1>6. ~(SeedDemo \/ Tick \/ Restart \/ UNCHANGED vars)
  BY DEF SeedDemo, Tick, Restart, vars
<1>7. QED
  BY <1>1, <1>2, <1>3, <1>4, <1>5, <1>6, StepCases

LEMMA StaffStep == ASSUME StaffInv, [Next]_vars PROVE StaffInv'
<1>1. TypeOK /\ TypeOK'
  BY TypeStep DEF StaffInv
<1>2. ASSUME NEW t \in Token, sessions'[t] # None PROVE sessions'[t] \in Accounts'
  <2>1. CASE sessions'[t] # sessions[t]
    BY <1>1, <1>2, <2>1, SessionsOpen DEF Accounts
  <2>2. CASE sessions'[t] = sessions[t]
    <3>1. sessions[t] \in Accounts
      BY <1>2, <2>2 DEF StaffInv, SessionsHaveAccounts
    <3>2. QED
      BY <1>1, <2>2, <3>1, AccountsStay
  <2>3. QED
    BY <2>1, <2>2
<1>3. SessionsHaveAccounts'
  BY <1>2 DEF SessionsHaveAccounts
<1>4. QED
  BY <1>1, <1>3 DEF StaffInv

\* No overlap of logins, removals and resets leaves a session without an account
\* (sql.py: the foreign key refuses the session of a removed account, and the
\* removal of an account that has got a new session).
THEOREM NoOrphanSession == Spec => []SessionsHaveAccounts
<1>1. Init => StaffInv
  BY InitType DEF Init, StaffInv, SessionsHaveAccounts
<1>2. StaffInv /\ [Next]_vars => StaffInv'
  BY StaffStep
<1>3. StaffInv => SessionsHaveAccounts
  BY DEF StaffInv
<1>4. QED
  BY <1>1, <1>2, <1>3, PTL DEF Spec

-----------------------------------------------------------------------------
(* Removals *)

\* More than one account are more than the one that is removed.
LEMMA OthersLeft ==
  ASSUME NEW S, NEW x, ~(Cardinality(S) <= 1)
  PROVE  S \ {x} # {}
<1>1. ASSUME S \ {x} = {} PROVE FALSE
  <2>1. S = {} \/ S = {x}
    BY <1>1
  <2>2. Cardinality(S) = 0 \/ Cardinality(S) = 1
    BY <2>1, FS_EmptySet, FS_Singleton
  <2>3. QED
    BY <2>2
<1>2. QED
  BY <1>1

\* A thread that goes on to remove an account has counted, or goes on from there.
LEMMA RemovalStarts ==
  ASSUME TypeOK, [Next]_vars, NEW v \in Threads, pc'[v] \in {"revoke", "delete"}
  PROVE  /\ id'[v] = id[v]
         /\ \/ pc[v] \in {"revoke", "delete"}
            \/ CountAccounts(v) /\ ~(Cardinality(Accounts) <= 1)
<1>0. /\ pc \in [Threads -> Place] /\ name \in [Threads -> Username \cup {None}]
      /\ id \in [Threads -> Id \cup {None}]
  BY DEF TypeOK
<1>1. ASSUME NEW w \in Threads, NEW u \in Username,
             Login(w, u) \/ Create(w, u) \/ Upsert(w, u) \/ Remove(w, u)
      PROVE  v # w /\ pc'[v] = pc[v] /\ id'[v] = id[v]
  BY <1>0, <1>1 DEF Login, Create, Upsert, Remove, Take, Goto
<1>2. ASSUME NEW w \in Threads,
             Right(w) \/ Wrong(w) \/ Record(w) \/ Mint(w) \/ CheckFree(w) \/ Insert(w) \/ Delete(w)
      PROVE  v # w /\ pc'[v] = pc[v] /\ id'[v] = id[v]
  BY <1>0, <1>2 DEF Right, Wrong, Record, Mint, CheckFree, Insert, Delete, Return, Goto
<1>3. ASSUME NEW w \in Threads, CountAccounts(w), v # w PROVE pc'[v] = pc[v] /\ id'[v] = id[v]
  BY <1>0, <1>3 DEF CountAccounts, Return, Goto
<1>4. ASSUME CountAccounts(v) PROVE ~(Cardinality(Accounts) <= 1) /\ id'[v] = id[v]
  BY <1>0, <1>4 DEF CountAccounts, Return, Goto
<1>5. ASSUME NEW w \in Threads, Revoke(w) PROVE pc[v] \in {"revoke", "delete"} /\ id'[v] = id[v]
  BY <1>0, <1>5 DEF Revoke, Goto
<1>6. SeedDemo => pc'[v] = pc[v] /\ id'[v] = id[v]
  BY DEF SeedDemo
<1>7. ASSUME NEW t \in Token, DeleteSession(t) PROVE pc'[v] = pc[v] /\ id'[v] = id[v]
  BY <1>7 DEF DeleteSession
<1>8. Tick \/ Restart \/ UNCHANGED vars => pc'[v] = pc[v] /\ id'[v] = id[v]
  BY DEF Tick, Restart, vars
<1>9. QED
  BY <1>1, <1>2, <1>3, <1>4, <1>5, <1>6, <1>7, <1>8, StepCases

\* A delete is of an account that was on its way out.
LEMMA DeleteLeaves ==
  ASSUME TypeOK, NEW w \in Threads, Delete(w)
  PROVE  /\ pc[w] = "delete" /\ pc'[w] = "idle" /\ id[w] \in Leaving
         /\ \A v \in Threads \ {w} : pc'[v] = pc[v]
BY DEF Delete, Return, Goto, Leaving, TypeOK

LEMMA RaceStep ==
  ASSUME RaceInv, [Next]_vars, raced' = (raced \/ \E x, y \in Leaving' : x # y)
  PROVE  RaceInv'
<1>1. StaffInv' /\ TypeOK
  BY StaffStep DEF RaceInv, StaffInv
<1>2. ASSUME ~raced'
      PROVE  /\ \A x, y \in Leaving' : x = y
             /\ \A x \in Leaving' : Accounts' \ {x} # {}
             /\ Accounts' # {}
  <2>1. /\ \A x, y \in Leaving : x = y
        /\ \A x \in Leaving : Accounts \ {x} # {}
        /\ Accounts # {}
    BY <1>2 DEF RaceInv
  <2>2. \A x, y \in Leaving' : x = y
    BY <1>2
  <2>3. ASSUME NEW v \in Threads, pc'[v] \in {"revoke", "delete"} PROVE Accounts' \ {id'[v]} # {}
    <3>1. id'[v] = id[v]
      BY <1>1, <2>3, RemovalStarts
    <3>2. Accounts \ {id[v]} # {}
      <4>1. CASE pc[v] \in {"revoke", "delete"}
        BY <2>1, <4>1 DEF Leaving
      <4>2. CASE ~(Cardinality(Accounts) <= 1)
        BY <4>2, OthersLeft
      <4>3. QED
        BY <1>1, <2>3, <4>1, <4>2, RemovalStarts
    <3>3. ASSUME NEW w \in Threads, Delete(w) PROVE id[w] = id[v]
      <4>1. id[w] \in Leaving /\ pc[v] \in {"revoke", "delete"}
        BY <1>1, <2>3, <3>3, DeleteLeaves
      <4>2. id[v] \in Leaving
        BY <4>1 DEF Leaving
      <4>3. QED
        BY <2>1, <4>1, <4>2
    <3>4. QED
      BY <1>1, <3>1, <3>2, <3>3, AccountsStay
  <2>4. \A x \in Leaving' : Accounts' \ {x} # {}
    BY <2>3 DEF Leaving
  <2>5. ASSUME NEW w \in Threads, Delete(w), Accounts \ {id[w]} \subseteq Accounts'
        PROVE  Accounts' # {}
    BY <1>1, <2>1, <2>5, DeleteLeaves
  <2>6. QED
    BY <1>1, <2>1, <2>2, <2>4, <2>5, AccountsStay
<1>3. QED
  BY <1>1, <1>2 DEF RaceInv

\* However many command lines, releases and web requests overlap, remove_staff's
\* refusal to delete the last account fails in one way only: two removals, of
\* different accounts, had both counted before either deleted.
THEOREM SomebodyCanSignIn == MCSpec => []LockedOutByRaceOnly
<1>1. MCInit => RaceInv
  <2>1. ASSUME MCInit PROVE RaceInv
    <3>1. PICK s \in Id, u \in Username : creds = [x \in Id |-> IF x = s THEN u ELSE None]
      BY <2>1 DEF MCInit, Init
    <3>2. s \in Accounts
      BY <3>1, StaffAssumption DEF Accounts
    <3>3. Leaving = {} /\ raced = FALSE
      BY <2>1 DEF MCInit, Init, Leaving
    <3>4. QED
      BY <2>1, <3>2, <3>3, InitType DEF MCInit, Init, RaceInv, StaffInv, SessionsHaveAccounts
  <2>2. QED
    BY <2>1
<1>2. RaceInv /\ [MCNext]_<<vars, observed>> => RaceInv'
  <2>1. ASSUME RaceInv, MCNext PROVE RaceInv'
    BY <2>1, RaceStep DEF MCNext
  <2>2. ASSUME RaceInv, UNCHANGED <<vars, observed>> PROVE RaceInv'
    <3>1. StaffInv'
      BY <2>2, StaffStep DEF RaceInv
    <3>2. UNCHANGED <<creds, pc, id, raced>>
      BY <2>2 DEF vars, observed
    <3>3. QED
      BY <2>2, <3>1, <3>2 DEF RaceInv, Leaving, Accounts
  <2>3. QED
    BY <2>1, <2>2
<1>3. RaceInv => LockedOutByRaceOnly
  BY DEF RaceInv, LockedOutByRaceOnly
<1>4. QED
  BY <1>1, <1>2, <1>3, PTL DEF MCSpec

-----------------------------------------------------------------------------
(* The brake *)

\* The logins of the watched name after a step of thread w that ends one of them.
Leaves(w) ==
  /\ LoggingIn' = LoggingIn \ {w}
  /\ \A v \in LoggingIn' : pc'[v] = pc[v] /\ read'[v] = read[v]

\* The logins of the watched name after a step that ends none of them and
\* changes no failures of it: they read what the dictionary holds.
Goes ==
  /\ failures'[Watched] = failures[Watched]
  /\ LoggingIn \subseteq LoggingIn'
  /\ \A v \in LoggingIn' : pc'[v] = "record" =>
       \/ v \in LoggingIn /\ pc[v] = "record" /\ read'[v] = read[v]
       \/ read'[v] = failures[Watched].count

LEMMA AfterRestart ==
  ASSUME TypeOK, Restart
  PROVE  failures'[Watched] = NoFailures /\ LoggingIn' = {}
<1>1. failures'[Watched] = NoFailures
  BY WatchedAssumption DEF Restart
<1>2. \A w \in HttpThreads : pc'[w] = "idle"
  BY DEF Restart, Threads
<1>3. QED
  BY <1>1, <1>2 DEF LoggingIn

LEMMA AfterTick ==
  ASSUME TypeOK, Tick
  PROVE  /\ failures'[Watched] = Aged(failures[Watched])
         /\ UNCHANGED <<pc, name, read>>
         /\ LoggingIn' = LoggingIn
BY WatchedAssumption DEF Tick, LoggingIn

LEMMA AfterRight ==
  ASSUME TypeOK, NEW w \in LoggingIn, Right(w)
  PROVE  failures'[Watched] = NoFailures /\ Leaves(w)
<1>1. /\ w \in HttpThreads /\ w \in Threads /\ name[w] = Watched
      /\ failures \in [Username -> Entry] /\ pc \in [Threads -> Place]
  BY DEF LoggingIn, TypeOK, Threads
<1>2. /\ failures' = [failures EXCEPT ![name[w]] = NoFailures]
      /\ pc' = [pc EXCEPT ![w] = "mint"] /\ UNCHANGED <<read, name>>
  BY DEF Right, Goto
<1>3. failures'[Watched] = NoFailures
  BY <1>1, <1>2, WatchedAssumption
<1>4. QED
  BY <1>1, <1>2, <1>3 DEF Leaves, LoggingIn, Threads

LEMMA AfterRecord ==
  ASSUME TypeOK, NEW w \in LoggingIn, Record(w)
  PROVE  /\ pc[w] = "record"
         /\ failures'[Watched] = Recorded(read[w])
         /\ Leaves(w)
<1>1. /\ w \in HttpThreads /\ w \in Threads /\ name[w] = Watched
      /\ failures \in [Username -> Entry] /\ pc \in [Threads -> Place]
      /\ read \in [HttpThreads -> 0 .. MaxFailures] /\ name \in [Threads -> Username \cup {None}]
  BY DEF LoggingIn, TypeOK, Threads
<1>2. /\ failures' = [failures EXCEPT ![name[w]] = Recorded(read[w])] /\ pc[w] = "record"
      /\ pc' = [pc EXCEPT ![w] = "idle"] /\ name' = [name EXCEPT ![w] = None]
      /\ read' = [read EXCEPT ![w] = 0]
  BY DEF Record, Return, Goto
<1>3. failures'[Watched] = Recorded(read[w])
  BY <1>1, <1>2, WatchedAssumption
<1>4. QED
  BY <1>1, <1>2, <1>3 DEF Leaves, LoggingIn, Threads

\* A step that neither forgets nor adds to the watched name's failures.
LEMMA OtherSteps ==
  ASSUME TypeOK, [Next]_vars, ~Restart, ~Tick,
         \A w \in LoggingIn : ~Right(w) /\ ~Record(w)
  PROVE  Goes
<1>0. /\ failures \in [Username -> Entry] /\ pc \in [Threads -> Place]
      /\ read \in [HttpThreads -> 0 .. MaxFailures] /\ name \in [Threads -> Username \cup {None}]
      /\ Watched \in Username /\ None # Watched /\ HttpThreads \subseteq Threads
  BY WatchedAssumption, StaffAssumption DEF TypeOK, Threads
<1>1. ASSUME NEW w \in Threads, NEW u \in Username,
             Login(w, u) \/ Create(w, u) \/ Upsert(w, u) \/ Remove(w, u)
      PROVE  Goes
  <2>1. /\ pc[w] = "idle" /\ UNCHANGED <<failures, read>>
        /\ name' = [name EXCEPT ![w] = u]
        /\ \E place \in {"verify", "create", "insert", "count"} : pc' = [pc EXCEPT ![w] = place]
    BY <1>1 DEF Login, Create, Upsert, Remove, Take, Goto, throttle
  <2>2. QED
    BY <1>0, <2>1 DEF Goes, LoggingIn
<1>2. ASSUME NEW w \in Threads, Right(w) \/ Record(w) PROVE Goes
  <2>1. pc[w] \in {"verify", "record"} /\ w \in HttpThreads /\ name[w] # Watched
    BY <1>2 DEF Right, Record, TypeOK, LoggingIn
  <2>2. /\ \A u \in Username : u # name[w] => failures'[u] = failures[u]
        /\ \A v \in HttpThreads : v # w => read'[v] = read[v] /\ pc'[v] = pc[v] /\ name'[v] = name[v]
        /\ pc'[w] \in {"mint", "idle"}
    BY <1>0, <1>2, <2>1 DEF Right, Record, Return, Goto
  <2>3. QED
    BY <1>0, <2>1, <2>2 DEF Goes, LoggingIn
<1>3. ASSUME NEW w \in Threads, Wrong(w) PROVE Goes
  <2>1. /\ pc[w] = "verify" /\ w \in HttpThreads
        /\ read' = [read EXCEPT ![w] = failures[name[w]].count]
        /\ pc' = [pc EXCEPT ![w] = "record"] /\ UNCHANGED <<failures, name>>
    BY <1>3 DEF Wrong, Goto, TypeOK
  <2>2. QED
    BY <1>0, <2>1 DEF Goes, LoggingIn
<1>4. ASSUME NEW w \in Threads,
             Mint(w) \/ CheckFree(w) \/ Insert(w) \/ CountAccounts(w) \/ Revoke(w) \/ Delete(w)
      PROVE  Goes
  <2>1. /\ pc[w] \notin {"verify", "record"} /\ pc'[w] \notin {"verify", "record"}
        /\ UNCHANGED <<failures, read>>
        /\ \A v \in Threads : v # w => pc'[v] = pc[v] /\ name'[v] = name[v]
    BY <1>0, <1>4
       DEF Mint, CheckFree, Insert, CountAccounts, Revoke, Delete, Return, Goto, throttle
  <2>2. QED
    BY <1>0, <2>1 DEF Goes, LoggingIn
<1>5. ASSUME UNCHANGED <<failures, read, pc, name>> PROVE Goes
  BY <1>5 DEF Goes, LoggingIn
<1>6. ASSUME SeedDemo PROVE Goes
  BY <1>5, <1>6 DEF SeedDemo, throttle
<1>7. ASSUME NEW t \in Token, DeleteSession(t) PROVE Goes
  BY <1>5, <1>7 DEF DeleteSession, throttle
<1>8. ASSUME UNCHANGED vars PROVE Goes
  BY <1>5, <1>8 DEF vars, throttle
<1>9. QED
  BY <1>1, <1>2, <1>3, <1>4, <1>6, <1>7, <1>8, StepCases

\* Overlapping logins are noticed.
LEMMA Overlap ==
  ASSUME NEW S \in SUBSET HttpThreads
  PROVE  /\ \A v, w \in S : v # w => Cardinality(S) > 1
         /\ Cardinality(S) > 1 => S # {}
<1>1. IsFiniteSet(S)
  BY ThreadPoolAssumption, FS_Subset
<1>2. ASSUME NEW v \in S, NEW w \in S, v # w PROVE Cardinality(S) > 1
  <2>1. Cardinality(S) \in Nat /\ Cardinality(S) # 0 /\ Cardinality(S) # 1
    BY <1>1, <1>2, FS_CardinalityType, FS_EmptySet, FS_Singleton
  <2>2. QED
    BY <2>1
<1>3. S = {} => Cardinality(S) = 0
  BY FS_EmptySet
<1>4. QED
  BY <1>2, <1>3

LEMMA BrakeStep == ASSUME BrakeInv, MCNext PROVE BrakeInv'
<1> DEFINE f == failures[Watched]
<1>0. /\ TypeOK /\ TypeOK' /\ Next /\ [Next]_vars
      /\ streak \in 0 .. MaxFailures /\ quiet \in 0 .. Lockout
      /\ f.left > 0 => f.count > 0
  BY TypeStep DEF BrakeInv, MCNext
<1>1. f \in Entry /\ f.count \in 0 .. MaxFailures /\ f.left \in 0 .. Lockout
  BY <1>0, WatchedAssumption DEF TypeOK, Entry
<1>2. MaxFailures \in Nat \ {0} /\ Lockout \in Nat \ {0}
  BY ThrottleAssumption
<1>3. /\ streak' = IF disturbed' \/ Forgotten THEN 0
                   ELSE IF Failed THEN UpTo(MaxFailures, streak + 1) ELSE streak
      /\ quiet' = IF disturbed' \/ Forgotten \/ Failed THEN 0
                  ELSE IF Tick /\ streak > 0 THEN UpTo(Lockout, quiet + 1) ELSE quiet
      /\ disturbed' = \/ Cardinality(LoggingIn') > 1
                      \/ disturbed /\ (LoggingIn' # {} \/ f' # NoFailures)
  BY DEF MCNext
<1>4. streak' \in 0 .. MaxFailures /\ quiet' \in 0 .. Lockout
  BY <1>0, <1>2, <1>3 DEF UpTo
<1>5. LoggingIn \in SUBSET HttpThreads /\ LoggingIn' \in SUBSET HttpThreads
  BY DEF LoggingIn
<1>6. Forgotten => f' = NoFailures
  BY <1>0, AfterRestart, AfterRight DEF Forgotten
<1>7. ASSUME Failed
      PROVE  \E w \in LoggingIn : /\ pc[w] = "record" /\ f' = Recorded(read[w])
                                  /\ read[w] \in 0 .. MaxFailures /\ Leaves(w)
  <2>1. PICK w \in LoggingIn : Record(w)
    BY <1>7 DEF Failed
  <2>2. read[w] \in 0 .. MaxFailures
    BY <1>0, <1>5 DEF TypeOK
  <2>3. QED
    BY <1>0, <2>1, <2>2, AfterRecord
<1>8. ~Forgotten /\ ~Failed /\ ~Tick => Goes
  BY <1>0, OtherSteps DEF Forgotten, Failed
<1>9. f'.left > 0 => f'.count > 0
  <2>1. CASE Forgotten
    BY <1>6, <2>1 DEF NoFailures
  <2>2. CASE Failed
    <3>1. PICK n \in 0 .. MaxFailures : f' = Recorded(n)
      BY <1>7, <2>2
    <3>2. Recorded(n).count > 0
      BY <1>2 DEF Recorded
    <3>3. QED
      BY <3>1, <3>2
  <2>3. CASE Tick
    BY <1>0, <1>1, <2>3, AfterTick DEF Aged, Entry
  <2>4. CASE Goes
    BY <1>0, <2>4 DEF Goes
  <2>5. QED
    BY <1>8, <2>1, <2>2, <2>3, <2>4
<1>10. ASSUME disturbed' PROVE LoggingIn' # {} \/ f' # NoFailures
  BY <1>3, <1>5, <1>10, Overlap
<1>11. ASSUME ~disturbed' PROVE CountsWhatHappened'
  <2>1. \A v, w \in LoggingIn' : v = w
    BY <1>3, <1>5, <1>11, Overlap
  <2>2. disturbed => LoggingIn' = {} /\ f' = NoFailures
    BY <1>3, <1>11
  <2>3. ~disturbed => CountsWhatHappened
    BY DEF BrakeInv
  <2>4. disturbed => LoggingIn # {} \/ f # NoFailures
    BY DEF BrakeInv
  <2>5. CASE Forgotten
    <3>1. f' = NoFailures /\ streak' = 0
      BY <1>3, <1>6, <1>11, <2>5
    <3>2. LoggingIn' = {}
      <4>1. CASE Restart
        BY <1>0, <4>1, AfterRestart
      <4>2. ASSUME NEW w \in LoggingIn, Right(w) PROVE LoggingIn' = {}
        <5>1. LoggingIn' = LoggingIn \ {w}
          BY <1>0, <4>2, AfterRight DEF Leaves
        <5>2. CASE disturbed
          BY <2>2, <5>2
        <5>3. CASE ~disturbed
          BY <2>3, <5>1, <5>3 DEF CountsWhatHappened
        <5>4. QED
          BY <5>2, <5>3
      <4>3. QED
        BY <2>5, <4>1, <4>2 DEF Forgotten
    <3>3. QED
      BY <3>1, <3>2 DEF CountsWhatHappened, NoFailures
  <2>6. CASE ~Forgotten /\ Failed
    <3>1. PICK w \in LoggingIn : /\ pc[w] = "record" /\ f' = Recorded(read[w])
                                 /\ read[w] \in 0 .. MaxFailures /\ LoggingIn' = LoggingIn \ {w}
      BY <1>7, <2>6 DEF Leaves
    <3>2. f' # NoFailures
      BY <1>2, <3>1 DEF Recorded, NoFailures
    <3>3. ~disturbed /\ CountsWhatHappened
      BY <2>2, <2>3, <3>2
    <3>4. LoggingIn' = {}
      BY <3>1, <3>3 DEF CountsWhatHappened
    <3>5. read[w] = streak
      BY <3>1, <3>3 DEF CountsWhatHappened
    <3>6. streak' = UpTo(MaxFailures, streak + 1) /\ quiet' = 0
      BY <1>3, <1>11, <2>6
    <3>7. f'.count = streak' /\ streak' # 0 /\ f'.left = Lockout - quiet'
      BY <1>0, <1>2, <3>1, <3>5, <3>6 DEF UpTo, Recorded
    <3>8. QED
      BY <3>4, <3>7 DEF CountsWhatHappened
  <2>7. CASE ~Forgotten /\ ~Failed /\ Tick
    <3>1. /\ f' = Aged(f) /\ LoggingIn' = LoggingIn
          /\ UNCHANGED <<pc, read>>
      BY <1>0, <2>7, AfterTick
    <3>2. f'.count = f.count /\ f'.left = IF f.left > 0 THEN f.left - 1 ELSE 0
      BY <1>1, <3>1 DEF Aged, Entry
    <3>3. ~disturbed
      <4>1. ASSUME disturbed PROVE FALSE
        <5>1. f # NoFailures /\ f' = NoFailures
          BY <2>2, <2>4, <3>1, <4>1
        <5>2. f.count = 0 /\ f.left = 0
          BY <1>0, <1>1, <3>2, <5>1 DEF NoFailures
        <5>3. QED
          BY <1>1, <5>1, <5>2 DEF Entry, NoFailures
      <4>2. QED
        BY <4>1
    <3>4. CountsWhatHappened
      BY <2>3, <3>3
    <3>5. streak' = streak /\ quiet' = IF streak > 0 THEN UpTo(Lockout, quiet + 1) ELSE quiet
      BY <1>3, <1>11, <2>7
    <3>6. f.count = streak /\ f.left = IF streak = 0 THEN 0 ELSE Lockout - quiet
      BY <3>4 DEF CountsWhatHappened
    <3>7. f'.count = streak' /\ f'.left = IF streak' = 0 THEN 0 ELSE Lockout - quiet'
      BY <1>0, <1>2, <3>2, <3>5, <3>6 DEF UpTo
    <3>8. \A w \in LoggingIn' : pc'[w] = "record" => read'[w] = f'.count
      BY <3>1, <3>2, <3>4 DEF CountsWhatHappened
    <3>9. QED
      BY <2>1, <3>7, <3>8 DEF CountsWhatHappened
  <2>8. CASE ~Forgotten /\ ~Failed /\ ~Tick
    <3>1. Goes
      BY <1>8, <2>8
    <3>2. ~disturbed
      BY <2>2, <2>4, <3>1 DEF Goes
    <3>3. CountsWhatHappened
      BY <2>3, <3>2
    <3>4. streak' = streak /\ quiet' = quiet /\ f' = f
      BY <1>3, <1>11, <2>8, <3>1 DEF Goes
    <3>5. f'.count = streak' /\ f'.left = IF streak' = 0 THEN 0 ELSE Lockout - quiet'
      BY <3>3, <3>4 DEF CountsWhatHappened
    <3>6. \A w \in LoggingIn' : pc'[w] = "record" => read'[w] = f'.count
      BY <3>1, <3>3, <3>4 DEF CountsWhatHappened, Goes
    <3>7. QED
      BY <2>1, <3>5, <3>6 DEF CountsWhatHappened
  <2>9. QED
    BY <2>5, <2>6, <2>7, <2>8
<1>12. QED
  BY <1>0, <1>4, <1>9, <1>10, <1>11 DEF BrakeInv

\* For any limit and lockout: a name whose logins never overlapped is locked
\* exactly while that many wrong passwords in a row are followed by less than a
\* lockout (staff/service.py _record_failure and _is_locked).
THEOREM BrakeIsExact == MCSpec => []BrakeHolds
<1>1. MCInit => BrakeInv
  <2>1. ASSUME MCInit PROVE BrakeInv
    <3>1. /\ TypeOK /\ streak = 0 /\ quiet = 0 /\ disturbed = FALSE
          /\ failures[Watched] = NoFailures /\ LoggingIn = {}
      BY <2>1, InitType, WatchedAssumption DEF MCInit, Init, LoggingIn, Threads
    <3>2. QED
      BY <3>1, ThrottleAssumption DEF BrakeInv, CountsWhatHappened, NoFailures
  <2>2. QED
    BY <2>1
<1>2. BrakeInv /\ [MCNext]_<<vars, observed>> => BrakeInv'
  <2>1. ASSUME BrakeInv, UNCHANGED <<vars, observed>> PROVE BrakeInv'
    <3>1. TypeOK'
      BY <2>1, TypeStep DEF BrakeInv
    <3>2. UNCHANGED <<failures, read, pc, name, streak, quiet, disturbed>>
      BY <2>1 DEF vars, throttle, observed
    <3>3. LoggingIn' = LoggingIn
      BY <3>2 DEF LoggingIn
    <3>4. QED
      BY <2>1, <3>1, <3>2, <3>3 DEF BrakeInv, CountsWhatHappened
  <2>2. QED
    BY <2>1, BrakeStep
<1>3. BrakeInv => BrakeHolds
  <2>1. ASSUME BrakeInv, ~disturbed
        PROVE  IsLocked(failures[Watched]) <=> streak = MaxFailures /\ quiet < Lockout
    BY <2>1, ThrottleAssumption DEF BrakeInv, CountsWhatHappened, IsLocked
  <2>2. QED
    BY <2>1 DEF BrakeHolds
<1>4. QED
  BY <1>1, <1>2, <1>3, PTL DEF MCSpec

=============================================================================
