-------------------------- MODULE MerchantsProofs --------------------------
(***************************************************************************)
(* For any number of merchants, usernames and overlapping requests: an     *)
(* unapproved merchant is inert, a till code names one merchant, and a     *)
(* sign-up that nobody contested and that did not die has its login.       *)
(***************************************************************************)
EXTENDS MCMerchants, FiniteSetTheorems, TLAPS

-----------------------------------------------------------------------------
(* The invariants *)

\* Active is what the staff made, and so is whoever a login is minted for.
ActiveIsApproved ==
  /\ \A m \in Known : IsActive(m) => m \in approved
  /\ \A w \in Threads : pc[w] = "mint" => id[w] \in approved

\* A decision holds the merchant it read, but for the status.
HoldsItsCode ==
  \A w \in Threads : pc[w] \in {"approve", "reject"} => code[w] = rows[id[w]].code

MerchantsInv ==
  /\ TypeOK
  /\ ActiveIsApproved
  /\ PendingIsInert
  /\ HoldsItsCode
  /\ CodeNamesOne

\* Sign-ups that run.
SigningUp == {w \in Threads : pc[w] \in {"code", "probe", "merchant", "credential"}}

\* Two sign-ups for one username are noticed; the username of any other is free
\* until its own credential is saved.
ContestsNoticed ==
  /\ \A v, w \in Threads : v # w /\ name[v] = name[w] /\ name[w] # None => name[w] \in contested
  /\ \A w \in SigningUp : Owners(name[w]) = {} \/ name[w] \in contested

\* A sign-up saves the login its merchant asked for.
SavesWhatWasAsked ==
  \A w \in Threads : pc[w] = "credential" => asked[id[w]] = name[w]

LoginInv ==
  /\ MerchantsInv
  /\ asked \in [Merchant -> Username \cup {None}]
  /\ ContestsNoticed
  /\ SavesWhatWasAsked
  /\ EveryMerchantHasLogin

-----------------------------------------------------------------------------
(* The next short code *)

\* A finite set of numbers has a greatest one: among the parts that have none
\* there would be a smallest.
LEMMA MaxOfFinite ==
  ASSUME NEW S \in SUBSET Int, IsFiniteSet(S), S # {}
  PROVE  Max(S) \in S /\ \A y \in S : Max(S) >= y
<1> DEFINE Capped(U) == \E x \in U : \A y \in U : x >= y
           Bad == {U \in SUBSET S : U # {} /\ ~Capped(U)}
<1>1. ASSUME Bad # {} PROVE FALSE
  <2>1. IsWellFoundedOn(StrictSubsetOrdering(S), SUBSET S)
    BY FS_StrictSubsetOrderingWellFounded, FS_FiniteSubsetsOfFinite
  <2>2. Bad \subseteq SUBSET S
    OBVIOUS
  <2>3. PICK U \in Bad : \A V \in Bad : ~ (<<V, U>> \in StrictSubsetOrdering(S))
    <3> HIDE DEF Bad
    <3>1. QED
      BY <1>1, <2>1, <2>2, WFMin
  <2>4. PICK x \in U : TRUE
    OBVIOUS
  <2>5. U \ {x} \notin Bad
    <3>1. U \ {x} \in SUBSET S /\ U \in SUBSET S /\ U \ {x} \subseteq U /\ U \ {x} # U
      BY <2>4
    <3>2. <<U \ {x}, U>> \in StrictSubsetOrdering(S)
      BY <3>1 DEF StrictSubsetOrdering
    <3>3. QED
      BY <2>3, <3>2
  <2>6. CASE U \ {x} = {}
    <3>1. U = {x} /\ x \in Int
      BY <2>4, <2>6
    <3>2. Capped(U)
      BY <3>1
    <3>3. QED
      BY <3>2
  <2>7. CASE U \ {x} # {}
    <3>1. PICK m \in U \ {x} : \A y \in U \ {x} : m >= y
      BY <2>5, <2>7
    <3>2. m \in Int /\ x \in Int /\ \A y \in U : y \in Int
      BY <2>4, <3>1
    <3>3. Capped(U)
      <4>1. CASE x >= m
        <5>1. \A y \in U : x >= y
          BY <3>1, <3>2, <4>1
        <5>2. QED
          BY <2>4, <5>1
      <4>2. CASE m >= x
        <5>1. \A y \in U : m >= y
          BY <3>1, <3>2, <4>2
        <5>2. QED
          BY <3>1, <5>1
      <4>3. QED
        BY <3>2, <4>1, <4>2
    <3>4. QED
      BY <3>3
  <2>8. QED
    BY <2>6, <2>7
<1>2. \E x \in S : \A y \in S : x >= y
  BY <1>1
<1>3. QED
  BY <1>2 DEF Max

LEMMA RowFields ==
  ASSUME TypeOK
  PROVE  /\ \A m \in Known : m \in Merchant /\ rows[m] \in Row
                             /\ rows[m].code \in Code /\ rows[m].status \in Status
         /\ \A c \in Code, s \in Status : [code |-> c, status |-> s] \in Row
         /\ \A r \in Row : r # None
         /\ None \notin Known /\ None \notin Merchant /\ None \notin Username /\ None \notin Code
BY MerchantsAssumption DEF TypeOK, Known, Row, Code

\* It is a code, and none is in use that is as high.
LEMMA NextCode ==
  ASSUME TypeOK
  PROVE  1 + Max(Codes \cup {FirstCode - 1}) \in Code \ Codes
<1> DEFINE S == Codes \cup {FirstCode - 1}
           f == [m \in Known |-> rows[m].code]
<1>1. Codes \subseteq Nat /\ FirstCode - 1 \in Nat
  BY RowFields, MerchantsAssumption DEF Codes, Code
<1>2. IsFiniteSet(Codes)
  <2>1. IsFiniteSet(Known)
    BY MerchantsAssumption, FS_Subset DEF Known
  <2>2. f \in Surjection(Known, Codes)
    BY DEF Surjection, Codes
  <2>3. QED
    BY <2>1, <2>2, FS_Surjection DEF ExistsSurjection
<1>3. IsFiniteSet(S) /\ S # {} /\ S \in SUBSET Int
  <2>1. IsFiniteSet(S)
    BY <1>2, FS_AddElement
  <2>2. Codes \subseteq Int /\ FirstCode - 1 \in Int
    BY <1>1
  <2>3. QED
    BY <2>1, <2>2
<1>4. Max(S) \in S /\ \A y \in S : Max(S) >= y
  BY <1>3, MaxOfFinite
<1>5. Max(S) >= FirstCode - 1 /\ Max(S) \in Nat
  BY <1>1, <1>4
<1>6. 1 + Max(S) \in Nat /\ 1 + Max(S) >= FirstCode
  BY <1>1, <1>5, MerchantsAssumption
<1>7. 1 + Max(S) \notin Codes
  <2>1. PICK n \in Nat : n = Max(S)
    BY <1>5
  <2>2. \A c \in Codes : n >= c
    BY <1>4, <2>1
  <2>3. ~(n >= 1 + n)
    OBVIOUS
  <2>4. QED
    BY <2>1, <2>2, <2>3
<1>8. QED
  BY <1>6, <1>7 DEF Code

-----------------------------------------------------------------------------
(* Types *)

LEMMA InitType == Init => TypeOK
BY MerchantsAssumption DEF Init, TypeOK, Known, Place

\* A step of thread w, which forgets no merchant.
LEMMA TypeFrame ==
  ASSUME TypeOK, NEW w \in Threads,
         rows' \in [Merchant -> Row \cup {None}],
         login' \in [Merchant -> Username \cup {None}],
         \A m \in Merchant \ Known' : login'[m] = None,
         sessions' \in [Token -> Known' \cup {None}],
         approved' \subseteq Known',
         crashes' \in 0 .. MaxCrashes,
         pc' \in [Threads -> Place],
         id' \in [Threads -> Known' \cup {None}],
         name' \in [Threads -> Username \cup {None}],
         code' \in [Threads -> Code \cup {None}],
         Known \subseteq Known',
         \A v \in Threads \ {w} :
           pc'[v] = pc[v] /\ id'[v] = id[v] /\ name'[v] = name[v] /\ code'[v] = code[v],
         pc'[w] \in {"code", "probe", "merchant", "credential"} => name'[w] \in Username,
         pc'[w] \in {"probe", "merchant", "approve", "reject"} => code'[w] \in Code,
         pc'[w] \in {"credential", "active", "mint", "approve", "reject"} => id'[w] \in Known'
  PROVE  TypeOK'
<1>1. \A v \in Threads :
        /\ pc'[v] \in {"code", "probe", "merchant", "credential"} => name'[v] \in Username
        /\ pc'[v] \in {"probe", "merchant", "approve", "reject"} => code'[v] \in Code
        /\ pc'[v] \in {"credential", "active", "mint", "approve", "reject"} => id'[v] \in Known'
  BY DEF TypeOK
<1>2. QED
  BY <1>1 DEF TypeOK

LEMMA TypeStep == ASSUME TypeOK, [Next]_vars PROVE TypeOK'
<1>0. /\ rows \in [Merchant -> Row \cup {None}]
      /\ login \in [Merchant -> Username \cup {None}]
      /\ \A m \in Merchant \ Known : login[m] = None
      /\ sessions \in [Token -> Known \cup {None}]
      /\ approved \subseteq Known
      /\ crashes \in 0 .. MaxCrashes
      /\ pc \in [Threads -> Place]
      /\ id \in [Threads -> Known \cup {None}]
      /\ name \in [Threads -> Username \cup {None}]
      /\ code \in [Threads -> Code \cup {None}]
  BY DEF TypeOK
<1>k. UNCHANGED rows => Known' = Known
  BY DEF Known
<1>p. Place = {"idle", "code", "probe", "merchant", "credential", "active", "mint",
               "approve", "reject"}
  BY DEF Place
<1>1. ASSUME NEW w \in Threads, NEW u \in Username, Signup(w, u) PROVE TypeOK'
  BY <1>0, <1>1, <1>k, <1>p, TypeFrame DEF Signup, Goto
<1>2. ASSUME NEW w \in Threads, PickCode(w) PROVE TypeOK'
  <2>1. name[w] \in Username
    BY <1>2 DEF TypeOK, PickCode
  <2>2. PICK c \in Code : code' = [code EXCEPT ![w] = c]
    BY <1>2, NextCode DEF PickCode
  <2>3. /\ pc' = [pc EXCEPT ![w] = "probe"]
        /\ UNCHANGED <<rows, login, sessions, approved, crashes, id, name>>
    BY <1>2 DEF PickCode, Goto
  <2>4. QED
    BY <1>0, <1>k, <1>p, <2>1, <2>2, <2>3, TypeFrame
<1>3. ASSUME NEW w \in Threads, ProbeCode(w) PROVE TypeOK'
  <2>1. name[w] \in Username /\ code[w] \in Code
    BY <1>3 DEF TypeOK, ProbeCode
  <2>2. code[w] + 1 \in Code
    BY <2>1, MerchantsAssumption DEF Code
  <2>3. CASE code[w] \in Codes
    <3>1. /\ pc[w] = "probe" /\ code' = [code EXCEPT ![w] = code[w] + 1]
          /\ UNCHANGED <<rows, login, sessions, approved, crashes, pc, id, name>>
      BY <1>3, <2>3 DEF ProbeCode
    <3>2. QED
      BY <1>0, <1>k, <2>1, <2>2, <3>1, TypeFrame
  <2>4. CASE code[w] \notin Codes
    BY <1>0, <1>3, <1>k, <1>p, <2>1, <2>4, TypeFrame DEF ProbeCode, Goto
  <2>5. QED
    BY <2>3, <2>4
<1>4. ASSUME NEW w \in Threads, SaveMerchant(w) PROVE TypeOK'
  <2>1. name[w] \in Username /\ code[w] \in Code
    BY <1>4 DEF TypeOK, SaveMerchant
  <2>2. CASE code[w] \in Codes
    BY <1>0, <1>4, <1>k, <1>p, <2>2, TypeFrame DEF SaveMerchant, Return, Goto
  <2>3. CASE code[w] \notin Codes
    <3>1. PICK m \in Merchant \ Known :
            /\ rows' = [rows EXCEPT ![m] = NewMerchant(code[w])]
            /\ id' = [id EXCEPT ![w] = m]
            /\ pc' = [pc EXCEPT ![w] = "credential"]
      BY <1>4, <2>3 DEF SaveMerchant, Goto
    <3>2. UNCHANGED <<login, sessions, approved, crashes, name, code>>
      BY <1>4, <2>3 DEF SaveMerchant
    <3>3. NewMerchant(code[w]) \in Row /\ NewMerchant(code[w]) # None
      BY <2>1, RowFields DEF NewMerchant, Status
    <3>4. Known' = Known \cup {m}
      BY <1>0, <3>1, <3>3 DEF Known
    <3>5. rows' \in [Merchant -> Row \cup {None}] /\ id' \in [Threads -> Known' \cup {None}]
      BY <1>0, <3>1, <3>3, <3>4
    <3>6. sessions' \in [Token -> Known' \cup {None}] /\ approved' \subseteq Known'
      BY <1>0, <3>2, <3>4
    <3>7. QED
      BY <1>0, <1>p, <2>1, <3>1, <3>2, <3>4, <3>5, <3>6, TypeFrame
  <2>4. QED
    BY <2>2, <2>3
<1>5. ASSUME NEW w \in Threads, SaveCredential(w) PROVE TypeOK'
  <2>1. name[w] \in Username /\ id[w] \in Known /\ id[w] \in Merchant
    BY <1>5 DEF TypeOK, SaveCredential, Known
  <2>2. /\ login' \in [Merchant -> Username \cup {None}]
        /\ \A m \in Merchant \ Known : login'[m] = None
    BY <1>0, <1>5, <2>1 DEF SaveCredential
  <2>3. QED
    BY <1>0, <1>5, <1>k, <1>p, <2>2, TypeFrame DEF SaveCredential, Return, Goto
<1>6. ASSUME NEW w \in Threads, NEW m \in Merchant, NEW verdict \in {"approve", "reject"},
             Decide(w, m, verdict)
      PROVE  TypeOK'
  <2>1. m \in Known /\ rows[m].code \in Code
    BY <1>6, RowFields DEF Decide
  <2>2. QED
    BY <1>0, <1>6, <1>k, <1>p, <2>1, TypeFrame DEF Decide, Goto
<1>7. ASSUME NEW w \in Threads, SaveDecision(w) PROVE TypeOK'
  <2>1. id[w] \in Known /\ id[w] \in Merchant /\ code[w] \in Code
    BY <1>7 DEF TypeOK, SaveDecision, Known
  <2>2. PICK r \in Row : rows' = [rows EXCEPT ![id[w]] = r]
    BY <1>7, <2>1, RowFields DEF SaveDecision, Status
  <2>3. Known' = Known
    BY <1>0, <2>1, <2>2, RowFields DEF Known
  <2>4. approved' \subseteq Known'
    BY <1>0, <1>7, <2>1, <2>3 DEF SaveDecision
  <2>5. QED
    BY <1>0, <1>7, <1>p, <2>1, <2>2, <2>3, <2>4, TypeFrame DEF SaveDecision, Return, Goto
<1>8. ASSUME NEW w \in Threads, NEW u \in Username, Login(w, u) PROVE TypeOK'
  <2>1. PICK m \in Known : id' = [id EXCEPT ![w] = m]
    <3>1. \A m \in Owners(u) : m \in Known
      BY <1>0, MerchantsAssumption DEF Owners
    <3>2. QED
      BY <1>8, <3>1 DEF Login
  <2>2. QED
    BY <1>0, <1>8, <1>k, <1>p, <2>1, TypeFrame DEF Login, Goto
<1>9. ASSUME NEW w \in Threads, CheckActive(w) PROVE TypeOK'
  <2>1. id[w] \in Known
    BY <1>9 DEF TypeOK, CheckActive
  <2>2. QED
    BY <1>0, <1>9, <1>k, <1>p, <2>1, TypeFrame DEF CheckActive, Return, Goto
<1>10. ASSUME NEW w \in Threads, Mint(w) PROVE TypeOK'
  <2>1. id[w] \in Known
    BY <1>10 DEF TypeOK, Mint
  <2>2. sessions' \in [Token -> Known \cup {None}]
    BY <1>0, <1>10, <2>1 DEF Mint, SaveSession
  <2>3. QED
    BY <1>0, <1>10, <1>k, <1>p, <2>2, TypeFrame DEF Mint, Return, Goto
<1>11. ASSUME NEW t \in Token, DeleteSession(t) PROVE TypeOK'
  <2>1. sessions' \in [Token -> Known \cup {None}]
    BY <1>0, <1>11 DEF DeleteSession
  <2>2. QED
    BY <1>11, <1>k, <2>1 DEF DeleteSession, TypeOK
<1>12. ASSUME NEW w \in Threads, Crash(w) PROVE TypeOK'
  <2>1. crashes' \in 0 .. MaxCrashes
    BY <1>0, <1>12, MerchantsAssumption DEF Crash
  <2>2. QED
    BY <1>0, <1>12, <1>k, <1>p, <2>1, TypeFrame DEF Crash, Return, Goto
<1>13. CASE UNCHANGED vars
  BY <1>13, <1>k DEF vars, TypeOK
<1>14. QED
  BY <1>1, <1>2, <1>3, <1>4, <1>5, <1>6, <1>7, <1>8, <1>9, <1>10, <1>11, <1>12, <1>13
     DEF Next, Step, Logout, Expire

\* Every variable keeps its type; a thread holds merchants that are in the table.
THEOREM TypeCorrect == Spec => []TypeOK
BY InitType, TypeStep, PTL DEF Spec

-----------------------------------------------------------------------------
(* The writers of the merchants table *)

\* What the two saves do to it.
SavesNew(w, m) ==
  /\ pc[w] = "merchant" /\ m \in Merchant \ Known /\ code[w] \notin Codes
  /\ rows' = [rows EXCEPT ![m] = NewMerchant(code[w])]
  /\ Known' = Known \cup {m}
  /\ rows'[m] = NewMerchant(code[w])
  /\ id' = [id EXCEPT ![w] = m]
  /\ pc' = [pc EXCEPT ![w] = "credential"]
  /\ UNCHANGED <<login, sessions, approved, crashes, name, code>>

SavesBack(w) ==
  /\ pc[w] \in {"approve", "reject"} /\ id[w] \in Known
  /\ \A m \in Merchant \ {id[w]} : rows'[m] = rows[m]
  /\ rows'[id[w]].code = code[w]
  /\ rows'[id[w]].status = "active" => id[w] \in approved'
  /\ Known' = Known
  /\ approved \subseteq approved'
  /\ Return(w)
  /\ UNCHANGED <<login, sessions, crashes>>

LEMMA SaveMerchantWrites ==
  ASSUME TypeOK, NEW w \in Threads, SaveMerchant(w)
  PROVE  (UNCHANGED <<rows, login, sessions, approved, crashes>> /\ Return(w))
           \/ \E m \in Merchant : SavesNew(w, m)
<1>1. CASE code[w] \in Codes
  BY <1>1 DEF SaveMerchant
<1>2. CASE code[w] \notin Codes
  <2>1. PICK m \in Merchant \ Known :
          /\ rows' = [rows EXCEPT ![m] = NewMerchant(code[w])]
          /\ id' = [id EXCEPT ![w] = m]
          /\ pc' = [pc EXCEPT ![w] = "credential"]
          /\ pc[w] = "merchant"
          /\ UNCHANGED <<login, sessions, approved, crashes, name, code>>
    BY <1>2 DEF SaveMerchant, Goto
  <2>2. rows \in [Merchant -> Row \cup {None}] /\ code[w] \in Code
    BY <2>1 DEF TypeOK
  <2>3. NewMerchant(code[w]) # None
    BY <2>2, RowFields DEF NewMerchant, Status
  <2>4. Known' = Known \cup {m} /\ rows'[m] = NewMerchant(code[w])
    BY <2>1, <2>2, <2>3 DEF Known
  <2>5. QED
    BY <1>2, <2>1, <2>4 DEF SavesNew
<1>3. QED
  BY <1>1, <1>2

LEMMA SaveDecisionWrites ==
  ASSUME TypeOK, NEW w \in Threads, SaveDecision(w)
  PROVE  SavesBack(w)
<1>1. /\ rows \in [Merchant -> Row \cup {None}]
      /\ id[w] \in Known /\ id[w] \in Merchant /\ code[w] \in Code
      /\ pc[w] \in {"approve", "reject"}
  BY DEF TypeOK, SaveDecision, Known
<1>2. PICK s \in Status :
        /\ rows' = [rows EXCEPT ![id[w]] = [code |-> code[w], status |-> s]]
        /\ s = "active" => pc[w] = "approve"
  BY <1>1 DEF SaveDecision, Status
<1>3. /\ \A m \in Merchant \ {id[w]} : rows'[m] = rows[m]
      /\ rows'[id[w]] = [code |-> code[w], status |-> s]
  BY <1>1, <1>2
<1>4. Known' = Known
  BY <1>1, <1>3, RowFields DEF Known
<1>5. /\ approved' = approved \cup {m \in {id[w]} : pc[w] = "approve"}
      /\ Return(w) /\ UNCHANGED <<login, sessions, crashes>>
  BY DEF SaveDecision
<1>6. rows'[id[w]].status = "active" => id[w] \in approved'
  BY <1>2, <1>3, <1>5
<1>7. QED
  BY <1>1, <1>3, <1>4, <1>5, <1>6 DEF SavesBack

-----------------------------------------------------------------------------
(* Merchants nobody approved are inert *)

LEMMA InertStep ==
  ASSUME TypeOK, ActiveIsApproved, PendingIsInert, [Next]_vars
  PROVE  ActiveIsApproved' /\ PendingIsInert'
<1>0. /\ pc \in [Threads -> Place]
      /\ id \in [Threads -> Known \cup {None}]
      /\ sessions \in [Token -> Known \cup {None}]
  BY DEF TypeOK
<1>k. ASSUME UNCHANGED <<rows, approved>>,
             \A v \in Threads : pc'[v] = "mint" => id'[v] \in approved
      PROVE  ActiveIsApproved'
  BY <1>k DEF ActiveIsApproved, Known, IsActive
<1>s. UNCHANGED sessions /\ approved \subseteq approved' => PendingIsInert'
  BY DEF PendingIsInert
<1>a. \A v \in Threads : pc[v] = "mint" => id[v] \in approved
  BY DEF ActiveIsApproved
<1> DEFINE Kept == ActiveIsApproved' /\ PendingIsInert'
<1>1. ASSUME NEW w \in Threads, NEW u \in Username, Signup(w, u) PROVE Kept
  BY <1>0, <1>1, <1>a, <1>k, <1>s DEF Signup, Goto
<1>2. ASSUME NEW w \in Threads, PickCode(w) PROVE Kept
  BY <1>0, <1>2, <1>a, <1>k, <1>s DEF PickCode, Goto
<1>3. ASSUME NEW w \in Threads, ProbeCode(w) PROVE Kept
  BY <1>0, <1>3, <1>a, <1>k, <1>s DEF ProbeCode, Goto
<1>4. ASSUME NEW w \in Threads, SaveMerchant(w) PROVE Kept
  <2>1. ASSUME UNCHANGED <<rows, login, sessions, approved, crashes>>, Return(w) PROVE Kept
    BY <1>0, <1>a, <1>k, <1>s, <2>1 DEF Return, Goto
  <2>2. ASSUME NEW m \in Merchant, SavesNew(w, m) PROVE Kept
    <3>1. rows'[m].status = "pending"
      BY <2>2 DEF SavesNew, NewMerchant
    <3>2. \A n \in Known' : n # m => n \in Known /\ rows'[n] = rows[n]
      <4>1. \A n \in Merchant : n # m => rows'[n] = rows[n]
        BY <2>2 DEF SavesNew, TypeOK
      <4>2. QED
        BY <2>2, <4>1 DEF SavesNew, Known
    <3>3. \A n \in Known' : rows'[n].status = "active" => n \in approved'
      BY <2>2, <3>1, <3>2 DEF SavesNew, ActiveIsApproved, IsActive
    <3>4. \A v \in Threads : pc'[v] = "mint" => id'[v] \in approved'
      BY <1>0, <1>a, <2>2 DEF SavesNew
    <3>5. QED
      BY <1>s, <2>2, <3>3, <3>4 DEF ActiveIsApproved, IsActive, SavesNew
  <2>3. QED
    BY <1>4, <2>1, <2>2, SaveMerchantWrites
<1>5. ASSUME NEW w \in Threads, SaveCredential(w) PROVE Kept
  BY <1>0, <1>5, <1>a, <1>k, <1>s DEF SaveCredential, Return, Goto
<1>6. ASSUME NEW w \in Threads, NEW m \in Merchant, NEW verdict \in {"approve", "reject"},
             Decide(w, m, verdict)
      PROVE  Kept
  BY <1>0, <1>6, <1>a, <1>k, <1>s DEF Decide, Goto
<1>7. ASSUME NEW w \in Threads, SaveDecision(w) PROVE Kept
  <2>1. SavesBack(w)
    BY <1>7, SaveDecisionWrites
  <2>2. \A m \in Known' : rows'[m].status = "active" => m \in approved'
    BY <2>1 DEF SavesBack, ActiveIsApproved, IsActive, Known
  <2>3. \A v \in Threads : pc'[v] = "mint" => id'[v] \in approved'
    BY <1>0, <1>a, <2>1 DEF SavesBack, Return, Goto
  <2>4. QED
    BY <1>s, <2>1, <2>2, <2>3 DEF ActiveIsApproved, IsActive, SavesBack
<1>8. ASSUME NEW w \in Threads, NEW u \in Username, Login(w, u) PROVE Kept
  BY <1>0, <1>8, <1>a, <1>k, <1>s DEF Login, Goto
<1>9. ASSUME NEW w \in Threads, CheckActive(w) PROVE Kept
  <2>1. id[w] \in Known
    BY <1>9 DEF TypeOK, CheckActive
  <2>2. IsActive(id[w]) => id[w] \in approved
    BY <2>1 DEF ActiveIsApproved
  <2>3. \A v \in Threads : pc'[v] = "mint" => id'[v] \in approved
    BY <1>0, <1>9, <1>a, <2>2 DEF CheckActive, Return, Goto
  <2>4. QED
    BY <1>9, <1>k, <1>s, <2>3 DEF CheckActive
<1>10. ASSUME NEW w \in Threads, Mint(w) PROVE Kept
  <2>1. id[w] \in approved
    BY <1>10, <1>a DEF Mint
  <2>2. PendingIsInert'
    BY <1>0, <1>10, <2>1 DEF Mint, SaveSession, PendingIsInert
  <2>3. \A v \in Threads : pc'[v] = "mint" => id'[v] \in approved
    BY <1>0, <1>10, <1>a DEF Mint, Return, Goto
  <2>4. QED
    BY <1>10, <1>k, <2>2, <2>3 DEF Mint
<1>11. ASSUME NEW t \in Token, DeleteSession(t) PROVE Kept
  BY <1>0, <1>11, <1>a, <1>k DEF DeleteSession, PendingIsInert
<1>12. ASSUME NEW w \in Threads, Crash(w) PROVE Kept
  BY <1>0, <1>12, <1>a, <1>k, <1>s DEF Crash, Return, Goto
<1>13. ASSUME UNCHANGED vars PROVE Kept
  BY <1>13, <1>a, <1>k, <1>s DEF vars
<1>14. QED
  BY <1>1, <1>2, <1>3, <1>4, <1>5, <1>6, <1>7, <1>8, <1>9, <1>10, <1>11, <1>12, <1>13
     DEF Next, Step, Logout, Expire

-----------------------------------------------------------------------------
(* A code names one merchant *)

LEMMA CodeStep ==
  ASSUME TypeOK, HoldsItsCode, CodeNamesOne, [Next]_vars
  PROVE  HoldsItsCode' /\ CodeNamesOne'
<1>0. /\ pc \in [Threads -> Place]
      /\ rows \in [Merchant -> Row \cup {None}]
      /\ id \in [Threads -> Known \cup {None}]
      /\ code \in [Threads -> Code \cup {None}]
  BY DEF TypeOK
<1>h. /\ \A v \in Threads : pc[v] \in {"approve", "reject"} => code[v] = rows[id[v]].code
      /\ \A v \in Threads : pc[v] \in {"approve", "reject"} => id[v] \in Known
  BY DEF HoldsItsCode, TypeOK
<1>k. ASSUME UNCHANGED rows,
             \A v \in Threads : pc'[v] \in {"approve", "reject"} => code'[v] = rows[id'[v]].code
      PROVE  HoldsItsCode' /\ CodeNamesOne'
  BY <1>k DEF HoldsItsCode, CodeNamesOne, Known
<1> DEFINE Kept == HoldsItsCode' /\ CodeNamesOne'
<1>1. ASSUME NEW w \in Threads, NEW u \in Username, Signup(w, u) PROVE Kept
  BY <1>0, <1>1, <1>h, <1>k DEF Signup, Goto
<1>2. ASSUME NEW w \in Threads, PickCode(w) PROVE Kept
  <2>1. \A v \in Threads : pc'[v] \in {"approve", "reject"} => code'[v] = rows[id'[v]].code
    BY <1>0, <1>2, <1>h DEF PickCode, Goto
  <2>2. QED
    BY <1>2, <1>k, <2>1 DEF PickCode
<1>3. ASSUME NEW w \in Threads, ProbeCode(w) PROVE Kept
  <2>1. \A v \in Threads : pc'[v] \in {"approve", "reject"} => code'[v] = rows[id'[v]].code
    BY <1>0, <1>3, <1>h DEF ProbeCode, Goto
  <2>2. QED
    BY <1>3, <1>k, <2>1 DEF ProbeCode
<1>4. ASSUME NEW w \in Threads, SaveMerchant(w) PROVE Kept
  <2>1. ASSUME UNCHANGED <<rows, login, sessions, approved, crashes>>, Return(w) PROVE Kept
    BY <1>0, <1>h, <1>k, <2>1 DEF Return, Goto
  <2>2. ASSUME NEW m \in Merchant, SavesNew(w, m) PROVE Kept
    <3>1. \A n \in Known : rows'[n] = rows[n]
      BY <1>0, <2>2 DEF SavesNew, Known
    <3>2. Known' = Known \cup {m} /\ rows'[m].code = code[w] /\ code[w] \notin Codes
      BY <2>2 DEF SavesNew, NewMerchant
    <3>3. \A n \in Known : rows'[n].code # code[w]
      BY <3>1, <3>2 DEF Codes
    <3>4. CodeNamesOne'
      BY <3>1, <3>2, <3>3 DEF CodeNamesOne
    <3>5. HoldsItsCode'
      BY <1>0, <1>h, <2>2, <3>1 DEF SavesNew, HoldsItsCode
    <3>6. QED
      BY <3>4, <3>5
  <2>3. QED
    BY <1>4, <2>1, <2>2, SaveMerchantWrites
<1>5. ASSUME NEW w \in Threads, SaveCredential(w) PROVE Kept
  BY <1>0, <1>5, <1>h, <1>k DEF SaveCredential, Return, Goto
<1>6. ASSUME NEW w \in Threads, NEW m \in Merchant, NEW verdict \in {"approve", "reject"},
             Decide(w, m, verdict)
      PROVE  Kept
  <2>1. \A v \in Threads : pc'[v] \in {"approve", "reject"} => code'[v] = rows[id'[v]].code
    BY <1>0, <1>6, <1>h DEF Decide, Goto
  <2>2. QED
    BY <1>6, <1>k, <2>1 DEF Decide
<1>7. ASSUME NEW w \in Threads, SaveDecision(w) PROVE Kept
  <2>1. SavesBack(w) /\ code[w] = rows[id[w]].code
    BY <1>7, <1>h, SaveDecisionWrites DEF SaveDecision
  <2>2. Known' = Known /\ \A m \in Known : rows'[m].code = rows[m].code
    BY <2>1 DEF SavesBack, Known
  <2>3. CodeNamesOne'
    BY <2>2 DEF CodeNamesOne
  <2>4. ASSUME NEW v \in Threads, pc'[v] \in {"approve", "reject"}
        PROVE  code'[v] = rows'[id'[v]].code
    <3>1. v # w /\ pc[v] = pc'[v] /\ id'[v] = id[v] /\ code'[v] = code[v]
      BY <1>0, <2>1, <2>4 DEF SavesBack, Return, Goto
    <3>2. QED
      BY <1>h, <2>2, <2>4, <3>1
  <2>5. QED
    BY <2>3, <2>4 DEF HoldsItsCode
<1>8. ASSUME NEW w \in Threads, NEW u \in Username, Login(w, u) PROVE Kept
  <2>1. \A v \in Threads : pc'[v] \in {"approve", "reject"} => code'[v] = rows[id'[v]].code
    BY <1>0, <1>8, <1>h DEF Login, Goto
  <2>2. QED
    BY <1>8, <1>k, <2>1 DEF Login
<1>9. ASSUME NEW w \in Threads, CheckActive(w) PROVE Kept
  BY <1>0, <1>9, <1>h, <1>k DEF CheckActive, Return, Goto
<1>10. ASSUME NEW w \in Threads, Mint(w) PROVE Kept
  BY <1>0, <1>10, <1>h, <1>k DEF Mint, Return, Goto
<1>11. ASSUME NEW t \in Token, DeleteSession(t) PROVE Kept
  BY <1>11, <1>h, <1>k DEF DeleteSession
<1>12. ASSUME NEW w \in Threads, Crash(w) PROVE Kept
  BY <1>0, <1>12, <1>h, <1>k DEF Crash, Return, Goto
<1>13. ASSUME UNCHANGED vars PROVE Kept
  BY <1>13, <1>h, <1>k DEF vars
<1>14. QED
  BY <1>1, <1>2, <1>3, <1>4, <1>5, <1>6, <1>7, <1>8, <1>9, <1>10, <1>11, <1>12, <1>13
     DEF Next, Step, Logout, Expire

LEMMA InitInv == Init => MerchantsInv
BY InitType, MerchantsAssumption
   DEF Init, MerchantsInv, ActiveIsApproved, PendingIsInert, HoldsItsCode, CodeNamesOne, Known

LEMMA InvStep == MerchantsInv /\ [Next]_vars => MerchantsInv'
BY TypeStep, InertStep, CodeStep DEF MerchantsInv

LEMMA InvAlways == Spec => []MerchantsInv
BY InitInv, InvStep, PTL DEF Spec

\* Only merchants the staff approved ever have a session, however logins overlap
\* with decisions (login's activity gate, approve and reject).
THEOREM UnapprovedStayInert == Spec => []PendingIsInert
BY InvAlways, PTL DEF MerchantsInv

\* No two merchants have one till code, for any number of overlapping sign-ups and
\* decisions that save the whole merchant back.
THEOREM OneMerchantPerCode == Spec => []CodeNamesOne
BY InvAlways, PTL DEF MerchantsInv

-----------------------------------------------------------------------------
(* A sign-up has its login *)

LEMMA TwoMembers ==
  ASSUME NEW S, IsFiniteSet(S), NEW x \in S, NEW y \in S, x # y
  PROVE  Cardinality(S) > 1
<1>1. Cardinality(S) \in Nat /\ Cardinality(S) # 0 /\ Cardinality(S) # 1
  BY FS_CardinalityType, FS_EmptySet, FS_Singleton
<1>2. QED
  BY <1>1

\* A step that neither starts a sign-up nor ends it with a save: what threads know
\* of their sign-ups stays, and without a crash they stay where they save.
Quiet ==
  /\ UNCHANGED login /\ Known' = Known
  /\ crashes' = 0 => crashes = 0
  /\ \A v \in Threads :
       /\ v \in SigningUp' => v \in SigningUp /\ name'[v] = name[v]
       /\ pc'[v] = "credential" => pc[v] = "credential" /\ id'[v] = id[v]
       /\ crashes' = 0 /\ pc[v] = "credential" => pc'[v] = "credential" /\ id'[v] = id[v]

LEMMA StepKinds ==
  ASSUME TypeOK, [Next]_vars
  PROVE  \/ \E w \in Threads, m \in Merchant : SavesNew(w, m)
         \/ \E w \in Threads : SaveCredential(w)
         \/ \E w \in Threads, u \in Username : Signup(w, u)
         \/ Quiet
<1>0. /\ pc \in [Threads -> Place]
      /\ id \in [Threads -> Known \cup {None}]
      /\ name \in [Threads -> Username \cup {None}]
      /\ crashes \in Nat
  BY MerchantsAssumption DEF TypeOK
<1>k. UNCHANGED rows => Known' = Known
  BY DEF Known
<1>q. ASSUME NEW w \in Threads, UNCHANGED <<login, crashes>>, Known' = Known,
             pc[w] # "credential", pc'[w] # "credential",
             w \in SigningUp' => w \in SigningUp /\ name'[w] = name[w],
             \A v \in Threads \ {w} : pc'[v] = pc[v] /\ id'[v] = id[v] /\ name'[v] = name[v]
      PROVE  Quiet
  BY <1>q DEF Quiet, SigningUp
<1>1. ASSUME NEW w \in Threads, PickCode(w) PROVE Quiet
  <2>1. /\ pc[w] = "code" /\ pc' = [pc EXCEPT ![w] = "probe"]
        /\ UNCHANGED <<rows, login, crashes, id, name>>
    BY <1>1 DEF PickCode, Goto
  <2>2. QED
    BY <1>0, <1>k, <1>q, <2>1 DEF SigningUp
<1>2. ASSUME NEW w \in Threads, ProbeCode(w) PROVE Quiet
  <2>1. /\ pc' = [pc EXCEPT ![w] = "merchant"] \/ UNCHANGED pc
        /\ pc[w] = "probe" /\ UNCHANGED <<rows, login, crashes, id, name>>
    BY <1>2 DEF ProbeCode, Goto
  <2>2. QED
    BY <1>0, <1>k, <1>q, <2>1 DEF SigningUp
<1>3. ASSUME NEW w \in Threads, SaveMerchant(w),
             UNCHANGED <<rows, login, sessions, approved, crashes>>, Return(w)
      PROVE  Quiet
  <2>1. pc[w] = "merchant"
    BY <1>3 DEF SaveMerchant
  <2>2. QED
    BY <1>0, <1>3, <1>k, <1>q, <2>1 DEF SigningUp, Return, Goto
<1>4. ASSUME NEW w \in Threads, NEW m \in Merchant, NEW verdict \in {"approve", "reject"},
             Decide(w, m, verdict)
      PROVE  Quiet
  BY <1>0, <1>4, <1>k, <1>q DEF SigningUp, Decide, Goto
<1>5. ASSUME NEW w \in Threads, SaveDecision(w) PROVE Quiet
  <2>1. SavesBack(w)
    BY <1>5, SaveDecisionWrites
  <2>2. QED
    BY <1>0, <1>q, <2>1 DEF SigningUp, SavesBack, Return, Goto
<1>6. ASSUME NEW w \in Threads, NEW u \in Username, Login(w, u) PROVE Quiet
  BY <1>0, <1>6, <1>k, <1>q DEF SigningUp, Login, Goto
<1>7. ASSUME NEW w \in Threads, CheckActive(w) PROVE Quiet
  BY <1>0, <1>7, <1>k, <1>q DEF SigningUp, CheckActive, Return, Goto
<1>8. ASSUME NEW w \in Threads, Mint(w) PROVE Quiet
  BY <1>0, <1>8, <1>k, <1>q DEF SigningUp, Mint, Return, Goto
<1>9. ASSUME NEW t \in Token, DeleteSession(t) PROVE Quiet
  BY <1>9, <1>k DEF DeleteSession, Quiet, SigningUp
<1>10. ASSUME NEW w \in Threads, Crash(w) PROVE Quiet
  <2>1. /\ crashes' # 0 /\ Known' = Known /\ UNCHANGED login
        /\ \A v \in Threads \ {w} : pc'[v] = pc[v] /\ id'[v] = id[v] /\ name'[v] = name[v]
        /\ pc'[w] = "idle"
    BY <1>0, <1>10, <1>k DEF Crash, Return, Goto
  <2>2. QED
    BY <2>1 DEF Quiet, SigningUp
<1>11. CASE UNCHANGED vars
  BY <1>11, <1>k DEF vars, Quiet, SigningUp
<1>12. ASSUME NEW w \in Threads, SaveMerchant(w)
       PROVE  Quiet \/ \E m \in Merchant : SavesNew(w, m)
  BY <1>3, <1>12, SaveMerchantWrites
<1>13. QED
  BY <1>1, <1>2, <1>4, <1>5, <1>6, <1>7, <1>8, <1>9, <1>10, <1>11, <1>12
     DEF Next, Step, Logout, Expire

\* What the histories record in a step.
LEMMA Histories ==
  ASSUME TypeOK, TypeOK', MCNext, asked \in [Merchant -> Username \cup {None}]
  PROVE  /\ contested \subseteq contested'
         /\ \A v, w \in Threads : v # w /\ name'[v] = name'[w] /\ name'[w] # None
                                    => name'[w] \in contested'
         /\ \A m \in Merchant : m \notin Known' \ Known => asked'[m] = asked[m]
         /\ \A w \in Threads, m \in Merchant : SavesNew(w, m) => asked'[m] = name[w]
<1>0. /\ contested' = contested \cup
             {u \in Username : Cardinality({w \in Threads : name'[w] = u}) > 1}
      /\ asked' = [m \in Merchant |-> IF m \in Known' \ Known
                                      THEN name[CHOOSE w \in Threads : id'[w] = m]
                                      ELSE asked[m]]
  BY DEF MCNext
<1>1. ASSUME NEW v \in Threads, NEW w \in Threads, v # w, name'[v] = name'[w], name'[w] # None
      PROVE  name'[w] \in contested'
  <2> DEFINE S == {x \in Threads : name'[x] = name'[w]}
  <2>1. IsFiniteSet(S)
    BY ThreadPoolAssumption, FS_Subset
  <2>2. v \in S /\ w \in S
    BY <1>1
  <2>3. Cardinality(S) > 1
    BY <1>1, <2>1, <2>2, TwoMembers
  <2>4. name'[w] \in Username
    BY <1>1 DEF TypeOK
  <2>5. QED
    BY <1>0, <2>3, <2>4
<1>2. ASSUME NEW w \in Threads, NEW m \in Merchant, SavesNew(w, m)
      PROVE  asked'[m] = name[w]
  <2>1. m \in Known' \ Known /\ id' = [id EXCEPT ![w] = m]
    BY <1>2 DEF SavesNew
  <2>2. id \in [Threads -> Known \cup {None}] /\ m # None
    BY MerchantsAssumption DEF TypeOK
  <2>3. \A v \in Threads : id'[v] = m <=> v = w
    BY <2>1, <2>2
  <2>4. (CHOOSE v \in Threads : id'[v] = m) = w
    BY <2>3
  <2>5. QED
    BY <1>0, <2>1, <2>4
<1>3. QED
  BY <1>0, <1>1, <1>2

LEMMA LoginStep == ASSUME LoginInv, MCNext PROVE LoginInv'
<1>0. /\ TypeOK /\ TypeOK' /\ MerchantsInv' /\ [Next]_vars
      /\ asked \in [Merchant -> Username \cup {None}]
      /\ ContestsNoticed /\ SavesWhatWasAsked /\ EveryMerchantHasLogin
  BY InvStep DEF LoginInv, MerchantsInv, MCNext
<1>t. /\ pc \in [Threads -> Place]
      /\ id \in [Threads -> Known \cup {None}]
      /\ name \in [Threads -> Username \cup {None}]
      /\ login \in [Merchant -> Username \cup {None}]
      /\ Known \subseteq Merchant
      /\ \A w \in Threads : pc[w] = "credential" => id[w] \in Known
      /\ \A w \in SigningUp : w \in Threads /\ name[w] \in Username /\ name[w] # None
  BY <1>0, MerchantsAssumption DEF TypeOK, Known, SigningUp
<1>h. /\ contested \subseteq contested'
      /\ \A v, w \in Threads : v # w /\ name'[v] = name'[w] /\ name'[w] # None
                                 => name'[w] \in contested'
      /\ \A m \in Merchant : m \notin Known' \ Known => asked'[m] = asked[m]
      /\ \A w \in Threads, m \in Merchant : SavesNew(w, m) => asked'[m] = name[w]
  BY <1>0, Histories
<1>c. /\ \A v, w \in Threads : v # w /\ name[v] = name[w] /\ name[w] # None => name[w] \in contested
      /\ \A w \in SigningUp : Owners(name[w]) = {} \/ name[w] \in contested
  BY <1>0 DEF ContestsNoticed
<1>s. \A w \in Threads : pc[w] = "credential" => asked[id[w]] = name[w]
  BY <1>0 DEF SavesWhatWasAsked
<1>e. ASSUME crashes = 0, NEW m \in Known
      PROVE  \/ login[m] = asked[m]
             \/ \E w \in Threads : pc[w] = "credential" /\ id[w] = m
             \/ asked[m] \in contested
  BY <1>0, <1>e DEF EveryMerchantHasLogin
<1> DEFINE Kept == /\ asked' \in [Merchant -> Username \cup {None}]
                   /\ \A w \in SigningUp' : (Owners(name[w]) = {} \/ name[w] \in contested)'
                   /\ SavesWhatWasAsked'
                   /\ EveryMerchantHasLogin'
<1>1. ASSUME NEW w \in Threads, NEW m \in Merchant, SavesNew(w, m) PROVE Kept
  <2>1. /\ pc[w] = "merchant" /\ Known' = Known \cup {m} /\ m \notin Known
        /\ id' = [id EXCEPT ![w] = m] /\ pc' = [pc EXCEPT ![w] = "credential"]
        /\ UNCHANGED <<login, crashes, name>>
        /\ asked'[m] = name[w]
    BY <1>1, <1>h DEF SavesNew
  <2>2. w \in SigningUp /\ SigningUp' = SigningUp
    BY <1>t, <2>1 DEF SigningUp
  <2>3. asked' \in [Merchant -> Username \cup {None}]
    BY <1>0, <1>h, <1>t, <2>1, <2>2 DEF MCNext
  <2>4. \A v \in SigningUp' : (Owners(name[v]) = {} \/ name[v] \in contested)'
    BY <1>c, <1>h, <2>1, <2>2 DEF Owners
  <2>5. SavesWhatWasAsked'
    <3>1. \A v \in Threads \ {w} :
            pc'[v] = "credential" => pc[v] = "credential" /\ id'[v] = id[v] /\ id[v] # m
      BY <1>t, <2>1
    <3>2. id'[w] = m
      BY <1>t, <2>1
    <3>3. QED
      BY <1>h, <1>s, <1>t, <2>1, <3>1, <3>2 DEF SavesWhatWasAsked
  <2>6. ASSUME crashes' = 0, NEW n \in Known'
        PROVE  \/ login'[n] = asked'[n]
               \/ \E v \in Threads : pc'[v] = "credential" /\ id'[v] = n
               \/ asked'[n] \in contested'
    <3>1. CASE n = m
      BY <1>t, <2>1, <3>1
    <3>2. CASE n # m
      <4>1. n \in Known /\ asked'[n] = asked[n] /\ crashes = 0
        BY <1>h, <1>t, <2>1, <2>6, <3>2
      <4>2. \A v \in Threads : pc[v] = "credential" /\ id[v] = n
                               => pc'[v] = "credential" /\ id'[v] = n
        BY <1>t, <2>1
      <4>3. QED
        BY <1>e, <1>h, <2>1, <4>1, <4>2
    <3>3. QED
      BY <3>1, <3>2
  <2>7. QED
    BY <2>3, <2>4, <2>5, <2>6 DEF EveryMerchantHasLogin
<1>2. ASSUME NEW w \in Threads, SaveCredential(w) PROVE Kept
  <2>1. /\ pc[w] = "credential" /\ pc' = [pc EXCEPT ![w] = "idle"]
        /\ id' = [id EXCEPT ![w] = None] /\ name' = [name EXCEPT ![w] = None]
        /\ UNCHANGED <<rows, crashes>> /\ Known' = Known
        /\ login' = IF Owners(name[w]) = {} THEN [login EXCEPT ![id[w]] = name[w]] ELSE login
    BY <1>2 DEF SaveCredential, Return, Goto, Known
  <2>2. /\ id[w] \in Merchant /\ w \in SigningUp /\ name[w] = asked[id[w]]
        /\ \A m \in Merchant : asked'[m] = asked[m]
    BY <1>h, <1>s, <1>t, <2>1 DEF SigningUp
  <2>3. asked' \in [Merchant -> Username \cup {None}]
    BY <1>0, <1>h, <2>1 DEF MCNext
  <2>4. ASSUME NEW v \in SigningUp' PROVE (Owners(name[v]) = {} \/ name[v] \in contested)'
    <3>1. v \in SigningUp /\ v # w /\ name'[v] = name[v] /\ v \in Threads
      BY <1>t, <2>1 DEF SigningUp
    <3>2. CASE name[v] \in contested
      BY <1>h, <3>1, <3>2
    <3>3. CASE name[v] \notin contested
      <4>1. name[v] # name[w] /\ Owners(name[v]) = {}
        BY <1>c, <1>t, <2>2, <3>1, <3>3
      <4>2. \A m \in Merchant : login'[m] # name[v]
        BY <1>t, <2>1, <2>2, <4>1 DEF Owners
      <4>3. QED
        BY <3>1, <4>2 DEF Owners
    <3>4. QED
      BY <3>2, <3>3
  <2>5. SavesWhatWasAsked'
    BY <1>s, <1>t, <2>1, <2>2 DEF SavesWhatWasAsked
  <2>6. ASSUME crashes' = 0, NEW m \in Known'
        PROVE  \/ login'[m] = asked'[m]
               \/ \E v \in Threads : pc'[v] = "credential" /\ id'[v] = m
               \/ asked'[m] \in contested'
    <3>1. CASE m = id[w] /\ Owners(name[w]) = {}
      BY <1>t, <2>1, <2>2, <3>1
    <3>2. CASE m = id[w] /\ Owners(name[w]) # {}
      BY <1>c, <1>h, <2>2, <3>2
    <3>3. CASE m # id[w]
      <4>1. m \in Known /\ m \in Merchant /\ crashes = 0 /\ login'[m] = login[m]
        BY <1>t, <2>1, <2>2, <2>6, <3>3
      <4>2. \A v \in Threads : pc[v] = "credential" /\ id[v] = m
                               => pc'[v] = "credential" /\ id'[v] = m
        BY <1>t, <2>1, <3>3
      <4>3. QED
        BY <1>e, <1>h, <2>2, <4>1, <4>2
    <3>4. QED
      BY <3>1, <3>2, <3>3
  <2>7. QED
    BY <2>3, <2>4, <2>5, <2>6 DEF EveryMerchantHasLogin
<1>3. ASSUME NEW w \in Threads, NEW u \in Username, Signup(w, u) PROVE Kept
  <2>1. /\ pc[w] = "idle" /\ Owners(u) = {} /\ pc' = [pc EXCEPT ![w] = "code"]
        /\ name' = [name EXCEPT ![w] = u]
        /\ UNCHANGED <<rows, login, crashes, id>> /\ Known' = Known
    BY <1>3 DEF Signup, Goto, Known
  <2>2. \A m \in Merchant : asked'[m] = asked[m]
    BY <1>h, <2>1
  <2>3. asked' \in [Merchant -> Username \cup {None}]
    BY <1>0, <2>2 DEF MCNext
  <2>4. ASSUME NEW v \in SigningUp' PROVE (Owners(name[v]) = {} \/ name[v] \in contested)'
    <3>1. CASE v = w
      BY <1>t, <2>1, <3>1 DEF Owners
    <3>2. CASE v # w
      <4>1. v \in SigningUp /\ name'[v] = name[v]
        BY <1>t, <2>1, <3>2 DEF SigningUp
      <4>2. QED
        BY <1>c, <1>h, <2>1, <4>1 DEF Owners
    <3>3. QED
      BY <3>1, <3>2
  <2>5. \A v \in Threads : /\ pc'[v] = "credential" <=> pc[v] = "credential"
                          /\ pc[v] = "credential" => name'[v] = name[v]
    BY <1>t, <2>1
  <2>6. SavesWhatWasAsked'
    BY <1>s, <1>t, <2>1, <2>2, <2>5 DEF SavesWhatWasAsked
  <2>7. EveryMerchantHasLogin'
    BY <1>e, <1>h, <1>t, <2>1, <2>2, <2>5 DEF EveryMerchantHasLogin
  <2>8. QED
    BY <2>3, <2>4, <2>6, <2>7
<1>4. ASSUME Quiet PROVE Kept
  <2>1. /\ UNCHANGED login /\ Known' = Known
        /\ crashes' = 0 => crashes = 0
        /\ \A m \in Merchant : asked'[m] = asked[m]
    BY <1>4, <1>h DEF Quiet
  <2>2. asked' \in [Merchant -> Username \cup {None}]
    BY <1>0, <2>1 DEF MCNext
  <2>3. \A v \in SigningUp' : v \in SigningUp /\ name'[v] = name[v]
    BY <1>4 DEF Quiet, SigningUp
  <2>4. \A v \in SigningUp' : (Owners(name[v]) = {} \/ name[v] \in contested)'
    BY <1>c, <1>h, <2>1, <2>3 DEF Owners
  <2>5. \A v \in Threads : pc'[v] = "credential" =>
          pc[v] = "credential" /\ id'[v] = id[v] /\ name'[v] = name[v]
    BY <1>4, <2>3 DEF Quiet, SigningUp
  <2>6. SavesWhatWasAsked'
    BY <1>s, <1>t, <2>1, <2>5 DEF SavesWhatWasAsked
  <2>7. EveryMerchantHasLogin'
    BY <1>4, <1>e, <1>h, <1>t, <2>1 DEF EveryMerchantHasLogin, Quiet
  <2>8. QED
    BY <2>2, <2>4, <2>6, <2>7
<1>5. Kept
  BY <1>0, <1>1, <1>2, <1>3, <1>4, StepKinds
<1>6. ContestsNoticed'
  <2> HIDE DEF Kept
  <2>1. \A w \in SigningUp' : (Owners(name[w]) = {} \/ name[w] \in contested)'
    BY <1>5 DEF Kept
  <2>2. QED
    BY <1>h, <2>1 DEF ContestsNoticed
<1>7. QED
  BY <1>0, <1>5, <1>6 DEF LoginInv

LEMMA LoginAlways == MCSpec => []LoginInv
<1>1. MCInit => LoginInv
  <2> SUFFICES ASSUME MCInit PROVE LoginInv
    OBVIOUS
  <2>1. /\ MerchantsInv /\ Known = {} /\ SigningUp = {}
        /\ \A w \in Threads : name[w] = None /\ pc[w] = "idle"
        /\ asked = [m \in Merchant |-> None]
    BY InitInv DEF MCInit, Init, Known, SigningUp
  <2>2. QED
    BY <2>1 DEF LoginInv, ContestsNoticed, SavesWhatWasAsked, EveryMerchantHasLogin
<1>2. LoginInv /\ UNCHANGED <<vars, asked, contested>> => LoginInv'
  <2> SUFFICES ASSUME LoginInv, UNCHANGED <<vars, asked, contested>> PROVE LoginInv'
    OBVIOUS
  <2>1. MerchantsInv'
    BY InvStep DEF LoginInv
  <2>2. QED
    BY <2>1 DEF LoginInv, vars, ContestsNoticed, SigningUp, Owners, SavesWhatWasAsked,
                EveryMerchantHasLogin, Known
<1>3. QED
  BY <1>1, <1>2, LoginStep, PTL DEF MCSpec

\* Whoever signed up has the login they asked for, unless a request died, theirs
\* still runs or two wanted the username at once (create_merchant in onboarding.py).
THEOREM SignUpGivesLogin == MCSpec => []EveryMerchantHasLogin
BY LoginAlways, PTL DEF LoginInv
=============================================================================
