------------------------------- MODULE Staff -------------------------------
(***************************************************************************)
(* Staff accounts and their sessions.  An administrator creates a          *)
(* colleague over HTTP (create_staff); the command line creates or resets  *)
(* an account (upsert_staff) and removes one (remove_staff); anyone with   *)
(* an account logs in and out.  HTTP routes run in the thread pool, the    *)
(* command line and the release's seed in processes of their own, and all  *)
(* of them share two tables: staff_credentials, with a unique username,    *)
(* and staff_sessions, with a foreign key to it.  Every store call is a    *)
(* database transaction.  Logins are braked by the web process's throttle. *)
(***************************************************************************)
EXTENDS LoginThrottle, FiniteSets

CONSTANTS Id, Username, Token,
          HttpThreads, CliThreads,
          DemoId, DemoName,  \* the account the seed keeps in a demo
          MaxSaves,  \* bound on the saves of an account
          None       \* no row, no job

ASSUME StaffAssumption ==
  /\ MaxSaves \in Nat
  /\ None \notin Id \cup Username
  /\ DemoId \in Id /\ DemoName \in Username
  /\ HttpThreads \cap CliThreads = {}

VARIABLES creds,     \* staff_credentials: id -> username
          sessions,  \* staff_sessions: token -> id
          issued,    \* history: ids that were ever drawn
          saves,     \* number of saves so far
          failures,  \* the throttle's dictionary, username -> entry
          read,      \* the count a failed login has read from it
          pc, name, id

throttle == <<failures, read>>
vars == <<creds, sessions, issued, saves, throttle, pc, name, id>>

Threads == HttpThreads \cup CliThreads
Place == {"idle", "verify", "record", "mint", "create", "insert", "count", "revoke", "delete"}

Accounts == {s \in Id : creds[s] # None}
Named(u) == {s \in Accounts : creds[s] = u}
ByUsername(u) == IF Named(u) = {} THEN None ELSE CHOOSE s \in Named(u) : TRUE

\* The bootstrap administrator is there before the service starts.
Init ==
  /\ \E s \in Id, u \in Username :
       /\ creds = [x \in Id |-> IF x = s THEN u ELSE None]
       /\ issued = {s, DemoId}
  /\ sessions = [t \in Token |-> None]
  /\ saves = 0
  /\ failures = [u \in Username |-> NoFailures]
  /\ read = [w \in HttpThreads |-> 0]
  /\ pc = [w \in Threads |-> "idle"]
  /\ name = [w \in Threads |-> None]
  /\ id = [w \in Threads |-> None]

Goto(w, place) == pc' = [pc EXCEPT ![w] = place]

Return(w) ==
  /\ Goto(w, "idle")
  /\ name' = [name EXCEPT ![w] = None]
  /\ id' = [id EXCEPT ![w] = None]

Take(w, u, s, place) ==
  /\ pc[w] = "idle"
  /\ Goto(w, place)
  /\ name' = [name EXCEPT ![w] = u]
  /\ id' = [id EXCEPT ![w] = s]
  /\ UNCHANGED <<creds, sessions, issued, saves>>

\* save: an existing row is overwritten, its password with it, a missing one
\* inserted; the unique username makes it raise.
SaveCredential(s, u) ==
  IF Named(u) \subseteq {s}
  THEN creds' = [creds EXCEPT ![s] = u]
  ELSE UNCHANGED creds

-----------------------------------------------------------------------------
(* Sessions *)

\* CurrentAdmin: somebody holds a session whose account still exists.
SomebodySignedIn == \E t \in Token : sessions[t] \in Accounts

\* The foreign key makes the insert raise when the account has gone.
SaveSession(s) ==
  \E t \in Token :
    /\ sessions[t] = None
    /\ IF s \in Accounts
       THEN sessions' = [sessions EXCEPT ![t] = s]
       ELSE UNCHANGED sessions

DeleteSession(t) ==
  /\ sessions[t] # None
  /\ sessions' = [sessions EXCEPT ![t] = None]
  /\ UNCHANGED <<creds, issued, saves, throttle, pc, name, id>>

\* StaffAuthService.login lets a name through that is not locked.
Login(w, u) ==
  /\ w \in HttpThreads
  /\ ~IsLocked(failures[u])
  /\ Take(w, u, None, "verify")
  /\ UNCHANGED throttle

\* Mutant: a correct password leaves the failures it follows.
RightKeepsFailures(w) ==
  /\ pc[w] = "verify"
  /\ ByUsername(name[w]) # None
  /\ id' = [id EXCEPT ![w] = ByUsername(name[w])]
  /\ Goto(w, "mint")
  /\ UNCHANGED <<creds, sessions, issued, saves, throttle, name>>

\* The password is right: the failures of the name are forgotten.
Right(w) ==
  /\ pc[w] = "verify"
  /\ ByUsername(name[w]) # None
  /\ id' = [id EXCEPT ![w] = ByUsername(name[w])]
  /\ failures' = [failures EXCEPT ![name[w]] = NoFailures]
  /\ Goto(w, "mint")
  /\ UNCHANGED <<creds, sessions, issued, saves, read, name>>

\* The name is unknown or the password wrong: _record_failure reads the count ...
Wrong(w) ==
  /\ pc[w] = "verify"
  /\ read' = [read EXCEPT ![w] = failures[name[w]].count]
  /\ Goto(w, "record")
  /\ UNCHANGED <<creds, sessions, issued, saves, failures, name, id>>

\* ... and writes it back, whatever happened to it meanwhile.
Record(w) ==
  /\ pc[w] = "record"
  /\ failures' = [failures EXCEPT ![name[w]] = Recorded(read[w])]
  /\ read' = [read EXCEPT ![w] = 0]
  /\ Return(w)
  /\ UNCHANGED <<creds, sessions, issued, saves>>

\* Mutant: no foreign key from the session to the account.
MintUnconstrained(w) ==
  /\ pc[w] = "mint"
  /\ \E t \in Token :
       /\ sessions[t] = None
       /\ sessions' = [sessions EXCEPT ![t] = id[w]]
  /\ Return(w)
  /\ UNCHANGED <<creds, issued, saves, throttle>>

\* A session is stored under a fresh token.
Mint(w) ==
  /\ pc[w] = "mint"
  /\ SaveSession(id[w])
  /\ Return(w)
  /\ UNCHANGED <<creds, issued, saves, throttle>>

Logout(t) == DeleteSession(t)

\* resolve finds the session expired and deletes it.
Expire(t) == DeleteSession(t)

-----------------------------------------------------------------------------
(* POST /admin/staff *)

\* An administrator asks for an account.
Create(w, u) ==
  /\ w \in HttpThreads
  /\ SomebodySignedIn
  /\ saves < MaxSaves
  /\ Take(w, u, None, "create")
  /\ UNCHANGED throttle

\* A taken username is a 409; a free one gets a new id.
CheckFree(w) ==
  /\ pc[w] = "create"
  /\ IF ByUsername(name[w]) # None
     THEN Return(w) /\ UNCHANGED issued
     ELSE \E s \in Id \ issued :
            /\ issued' = issued \cup {s}
            /\ id' = [id EXCEPT ![w] = s]
            /\ Goto(w, "insert")
            /\ UNCHANGED name
  /\ UNCHANGED <<creds, sessions, saves, throttle>>

\* Both create_staff and upsert_staff end in a save.
Insert(w) ==
  /\ pc[w] = "insert"
  /\ saves < MaxSaves
  /\ saves' = saves + 1
  /\ SaveCredential(id[w], name[w])
  /\ Return(w)
  /\ UNCHANGED <<sessions, issued, throttle>>

-----------------------------------------------------------------------------
(* The command line and the release *)

\* upsert_staff keeps the id of the account it finds, or draws one.
Upsert(w, u) ==
  /\ w \in CliThreads
  /\ saves < MaxSaves
  /\ pc[w] = "idle"
  /\ \E s \in IF ByUsername(u) # None THEN {ByUsername(u)} ELSE Id \ issued :
       /\ issued' = issued \cup {s}
       /\ id' = [id EXCEPT ![w] = s]
  /\ name' = [name EXCEPT ![w] = u]
  /\ Goto(w, "insert")
  /\ UNCHANGED <<creds, sessions, saves, throttle>>

\* remove_staff reads the account, StaffNotFound if there is none ...
Remove(w, u) ==
  /\ w \in CliThreads
  /\ ByUsername(u) # None
  /\ Take(w, u, ByUsername(u), "count")
  /\ UNCHANGED throttle

\* Mutant: the last account is not kept.
CountNothing(w) ==
  /\ pc[w] = "count"
  /\ Goto(w, "revoke")
  /\ UNCHANGED <<creds, sessions, issued, saves, throttle, name, id>>

\* ... refuses when it is the only one ...
CountAccounts(w) ==
  /\ pc[w] = "count"
  /\ IF Cardinality(Accounts) <= 1
     THEN Return(w)
     ELSE Goto(w, "revoke") /\ UNCHANGED <<name, id>>
  /\ UNCHANGED <<creds, sessions, issued, saves, throttle>>

\* ... revokes its sessions ...
Revoke(w) ==
  /\ pc[w] = "revoke"
  /\ sessions' = [t \in Token |-> IF sessions[t] = id[w] THEN None ELSE sessions[t]]
  /\ Goto(w, "delete")
  /\ UNCHANGED <<creds, issued, saves, throttle, name, id>>

\* ... and deletes it, unless a login has opened a new session meanwhile: then
\* the foreign key makes the delete raise.
Delete(w) ==
  /\ pc[w] = "delete"
  /\ IF \E t \in Token : sessions[t] = id[w]
     THEN UNCHANGED creds
     ELSE creds' = [creds EXCEPT ![id[w]] = None]
  /\ Return(w)
  /\ UNCHANGED <<sessions, issued, saves, throttle>>

\* seed_demo_staff, in the release's own process, saves the demo administrator
\* under its own id; when somebody else has the username the save raises.
SeedDemo ==
  /\ saves < MaxSaves
  /\ saves' = saves + 1
  /\ SaveCredential(DemoId, DemoName)
  /\ UNCHANGED <<sessions, issued, throttle, pc, name, id>>

-----------------------------------------------------------------------------
(* The clock and the web process *)

Tick ==
  /\ failures' = [u \in Username |-> Aged(failures[u])]
  /\ failures' # failures
  /\ UNCHANGED <<creds, sessions, issued, saves, read, pc, name, id>>

\* The web process dies with its requests and its dictionary and starts again.
Restart ==
  /\ failures' = [u \in Username |-> NoFailures]
  /\ read' = [w \in HttpThreads |-> 0]
  /\ pc' = [w \in Threads |-> IF w \in HttpThreads THEN "idle" ELSE pc[w]]
  /\ name' = [w \in Threads |-> IF w \in HttpThreads THEN None ELSE name[w]]
  /\ id' = [w \in Threads |-> IF w \in HttpThreads THEN None ELSE id[w]]
  /\ UNCHANGED <<creds, sessions, issued, saves>>

-----------------------------------------------------------------------------
Step(w) ==
  \/ \E u \in Username : Login(w, u) \/ Create(w, u) \/ Upsert(w, u) \/ Remove(w, u)
  \/ Right(w) \/ Wrong(w) \/ Record(w) \/ Mint(w) \/ CheckFree(w) \/ Insert(w)
  \/ CountAccounts(w) \/ Revoke(w) \/ Delete(w)

Next ==
  \/ \E w \in Threads : Step(w)
  \/ \E t \in Token : Logout(t) \/ Expire(t)
  \/ SeedDemo \/ Tick \/ Restart

Spec == Init /\ [][Next]_vars

-----------------------------------------------------------------------------
(* Properties *)

\* Rows, jobs and places are what the columns and the code allow.
TypeOK ==
  /\ creds \in [Id -> Username \cup {None}]
  /\ sessions \in [Token -> Id \cup {None}]
  /\ issued \subseteq Id
  /\ Accounts \cup {DemoId} \subseteq issued
  /\ saves \in 0 .. MaxSaves
  /\ failures \in [Username -> Entry]
  /\ read \in [HttpThreads -> 0 .. MaxFailures]
  /\ pc \in [Threads -> Place]
  /\ name \in [Threads -> Username \cup {None}]
  /\ id \in [Threads -> Id \cup {None}]
  /\ \A w \in Threads :
       /\ (pc[w] = "idle") <=> (name[w] = None)
       /\ pc[w] \in {"mint", "insert", "count", "revoke", "delete"} => id[w] \in issued
       /\ pc[w] \in {"verify", "record", "mint", "create"} => w \in HttpThreads
       /\ pc[w] \in {"count", "revoke", "delete"} => w \in CliThreads

\* A session always belongs to an account that exists, however logins and
\* removals overlap: a removed colleague is signed out everywhere.
SessionsHaveAccounts == \A t \in Token : sessions[t] # None => sessions[t] \in Accounts
=============================================================================
