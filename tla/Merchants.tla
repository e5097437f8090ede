----------------------------- MODULE Merchants -----------------------------
(***************************************************************************)
(* Self-onboarding of merchants and their logins.  A sign-up checks its    *)
(* username, picks the next short code, saves a pending merchant and then  *)
(* its credential, each in a database transaction of its own; the staff    *)
(* approve or reject by saving the merchant back; a login needs a          *)
(* credential and an active merchant.  Routes run in the thread pool.  The *)
(* unique constraints on code and username, and the foreign keys, are      *)
(* those of the tables.                                                    *)
(***************************************************************************)
EXTENDS FiniteSets, FiniteSetsExt, Naturals

CONSTANTS Merchant, Username, Token, Threads,
          FirstCode,   \* the lowest short code given out
          MaxCrashes,  \* bound on the requests that die
          None         \* no row, no job

\* suspended is a status no code sets.
Status == {"pending", "active", "rejected"}
Code == {c \in Nat : c >= FirstCode}
Row == [code : Code, status : Status]

ASSUME MerchantsAssumption ==
  /\ MaxCrashes \in Nat
  /\ FirstCode \in Nat \ {0}
  /\ IsFiniteSet(Merchant)
  /\ None \notin Merchant \cup Username \cup Token \cup Nat \cup Row

VARIABLES rows,      \* merchants: id -> code and status
          login,     \* merchant_credentials: id -> username
          sessions,  \* merchant_sessions: token -> id
          approved,  \* history: merchants the staff have approved
          crashes,
          pc, id, name, code

vars == <<rows, login, sessions, approved, crashes, pc, id, name, code>>

Place == {"idle", "code", "probe", "merchant", "credential", "active", "mint", "approve", "reject"}

Known == {m \in Merchant : rows[m] # None}
Codes == {rows[m].code : m \in Known}
Owners(u) == {m \in Merchant : login[m] = u}
IsActive(m) == rows[m].status = "active"

Init ==
  /\ rows = [m \in Merchant |-> None]
  /\ login = [m \in Merchant |-> None]
  /\ sessions = [t \in Token |-> None]
  /\ approved = {}
  /\ crashes = 0
  /\ pc = [w \in Threads |-> "idle"]
  /\ id = [w \in Threads |-> None]
  /\ name = [w \in Threads |-> None]
  /\ code = [w \in Threads |-> None]

Goto(w, place) == pc' = [pc EXCEPT ![w] = place]

Return(w) ==
  /\ Goto(w, "idle")
  /\ id' = [id EXCEPT ![w] = None]
  /\ name' = [name EXCEPT ![w] = None]
  /\ code' = [code EXCEPT ![w] = None]

-----------------------------------------------------------------------------
(* POST /signup *)

\* Mutant: the username is not looked up.
SignupUnchecked(w, u) ==
  /\ pc[w] = "idle"
  /\ name' = [name EXCEPT ![w] = u]
  /\ Goto(w, "code")
  /\ UNCHANGED <<rows, login, sessions, approved, crashes, id, code>>

\* A taken username is answered 409.
Signup(w, u) ==
  /\ pc[w] = "idle"
  /\ Owners(u) = {}
  /\ name' = [name EXCEPT ![w] = u]
  /\ Goto(w, "code")
  /\ UNCHANGED <<rows, login, sessions, approved, crashes, id, code>>

\* _next_short_code: one above the highest code in use ...
PickCode(w) ==
  /\ pc[w] = "code"
  /\ code' = [code EXCEPT ![w] = 1 + Max(Codes \cup {FirstCode - 1})]
  /\ Goto(w, "probe")
  /\ UNCHANGED <<rows, login, sessions, approved, crashes, id, name>>

\* ... and higher while that one is taken.
ProbeCode(w) ==
  /\ pc[w] = "probe"
  /\ IF code[w] \in Codes
     THEN code' = [code EXCEPT ![w] = code[w] + 1] /\ UNCHANGED pc
     ELSE Goto(w, "merchant") /\ UNCHANGED code
  /\ UNCHANGED <<rows, login, sessions, approved, crashes, id, name>>

\* A sign-up is inert until the staff decide.
NewMerchant(c) == [code |-> c, status |-> "pending"]

\* Mutant: no unique constraint on the short code.
SaveMerchantUnconstrained(w) ==
  /\ pc[w] = "merchant"
  /\ \E m \in Merchant \ Known :
       /\ rows' = [rows EXCEPT ![m] = NewMerchant(code[w])]
       /\ id' = [id EXCEPT ![w] = m]
       /\ Goto(w, "credential")
       /\ UNCHANGED <<name, code>>
  /\ UNCHANGED <<login, sessions, approved, crashes>>

\* The merchant is saved under a fresh id; a code taken since makes it raise.
SaveMerchant(w) ==
  /\ pc[w] = "merchant"
  /\ IF code[w] \in Codes
     THEN Return(w) /\ UNCHANGED rows
     ELSE \E m \in Merchant \ Known :
            /\ rows' = [rows EXCEPT ![m] = NewMerchant(code[w])]
            /\ id' = [id EXCEPT ![w] = m]
            /\ Goto(w, "credential")
            /\ UNCHANGED <<name, code>>
  /\ UNCHANGED <<login, sessions, approved, crashes>>

\* Its login is saved next; a username taken since makes it raise.
SaveCredential(w) ==
  /\ pc[w] = "credential"
  /\ IF Owners(name[w]) = {}
     THEN login' = [login EXCEPT ![id[w]] = name[w]]
     ELSE UNCHANGED login
  /\ Return(w)
  /\ UNCHANGED <<rows, sessions, approved, crashes>>

-----------------------------------------------------------------------------
(* The staff's decision *)

\* Approve and reject read the merchant ...
Decide(w, m, verdict) ==
  /\ pc[w] = "idle"
  /\ m \in Known
  /\ id' = [id EXCEPT ![w] = m]
  /\ code' = [code EXCEPT ![w] = rows[m].code]
  /\ Goto(w, verdict)
  /\ UNCHANGED <<rows, login, sessions, approved, crashes, name>>

\* ... and save the whole of it back with the new status.
SaveDecision(w) ==
  /\ pc[w] \in {"approve", "reject"}
  /\ rows' = [rows EXCEPT ![id[w]] =
                [code |-> code[w],
                 status |-> IF pc[w] = "approve" THEN "active" ELSE "rejected"]]
  /\ approved' = approved \cup {m \in {id[w]} : pc[w] = "approve"}
  /\ Return(w)
  /\ UNCHANGED <<login, sessions, crashes>>

-----------------------------------------------------------------------------
(* Sessions *)

SaveSession(m) ==
  \E t \in Token :
    /\ sessions[t] = None
    /\ sessions' = [sessions EXCEPT ![t] = m]

DeleteSession(t) ==
  /\ sessions[t] # None
  /\ sessions' = [sessions EXCEPT ![t] = None]
  /\ UNCHANGED <<rows, login, approved, crashes, pc, id, name, code>>

\* AuthService.login reads the credential and verifies the password ...
Login(w, u) ==
  /\ pc[w] = "idle"
  /\ \E m \in Owners(u) : id' = [id EXCEPT ![w] = m]
  /\ Goto(w, "active")
  /\ UNCHANGED <<rows, login, sessions, approved, crashes, name, code>>

\* Mutant: any merchant but a rejected one may log in.
CheckNotRejected(w) ==
  /\ pc[w] = "active"
  /\ IF rows[id[w]].status # "rejected"
     THEN Goto(w, "mint") /\ UNCHANGED <<id, name, code>>
     ELSE Return(w)
  /\ UNCHANGED <<rows, login, sessions, approved, crashes>>

\* ... asks whether the merchant is active ...
CheckActive(w) ==
  /\ pc[w] = "active"
  /\ IF IsActive(id[w])
     THEN Goto(w, "mint") /\ UNCHANGED <<id, name, code>>
     ELSE Return(w)
  /\ UNCHANGED <<rows, login, sessions, approved, crashes>>

\* ... and stores a session under a fresh token.
Mint(w) ==
  /\ pc[w] = "mint"
  /\ SaveSession(id[w])
  /\ Return(w)
  /\ UNCHANGED <<rows, login, approved, crashes>>

Logout(t) == DeleteSession(t)

\* resolve finds the session expired and deletes it.
Expire(t) == DeleteSession(t)

\* A request dies, or a store call raises.
Crash(w) ==
  /\ pc[w] # "idle"
  /\ crashes < MaxCrashes
  /\ crashes' = crashes + 1
  /\ Return(w)
  /\ UNCHANGED <<rows, login, sessions, approved>>

-----------------------------------------------------------------------------
Step(w) ==
  \/ \E u \in Username : Signup(w, u) \/ Login(w, u)
  \/ PickCode(w) \/ ProbeCode(w) \/ SaveMerchant(w) \/ SaveCredential(w)
  \/ \E m \in Merchant, verdict \in {"approve", "reject"} : Decide(w, m, verdict)
  \/ SaveDecision(w)
  \/ CheckActive(w) \/ Mint(w)
  \/ Crash(w)

Next ==
  \/ \E w \in Threads : Step(w)
  \/ \E t \in Token : Logout(t) \/ Expire(t)

Spec == Init /\ [][Next]_vars

-----------------------------------------------------------------------------
(* Properties *)

\* Rows, jobs and places are what the columns and the code allow.
TypeOK ==
  /\ rows \in [Merchant -> Row \cup {None}]
  /\ login \in [Merchant -> Username \cup {None}]
  /\ \A m \in Merchant \ Known : login[m] = None
  /\ sessions \in [Token -> Known \cup {None}]
  /\ approved \subseteq Known
  /\ crashes \in 0 .. MaxCrashes
  /\ pc \in [Threads -> Place]
  /\ id \in [Threads -> Known \cup {None}]
  /\ name \in [Threads -> Username \cup {None}]
  /\ code \in [Threads -> Code \cup {None}]
  /\ \A w \in Threads :
       /\ pc[w] \in {"code", "probe", "merchant", "credential"} => name[w] \in Username
       /\ pc[w] \in {"probe", "merchant", "approve", "reject"} => code[w] \in Code
       /\ pc[w] \in {"credential", "active", "mint", "approve", "reject"} => id[w] \in Known

\* A merchant nobody approved is inert: it has never had a session, however
\* its logins overlap with decisions.
PendingIsInert == \A t \in Token : sessions[t] # None => sessions[t] \in approved

\* The till code a payer enters names one merchant, also when merchants sign up
\* at the same time.
CodeNamesOne == \A m, n \in Known : rows[m].code = rows[n].code => m = n

=============================================================================
