-------------------------------- MODULE Ussd --------------------------------
(***************************************************************************)
(* The USSD dialogue.  The aggregator keeps the session and sends the      *)
(* whole accumulated input with every step; the handler holds no state and *)
(* reads that input again from the start, as till, amount and choice,      *)
(* against the merchants of the moment.  A confirmed payment is started    *)
(* under an idempotency key.  Merchants sign up and are decided on while   *)
(* sessions run.  The lookups of one request are one step.                 *)
(***************************************************************************)
EXTENDS Naturals, Sequences, SequencesExt

CONSTANTS Session, Msisdn,
          Code,         \* short codes, known or not
          Entry,        \* what can be keyed in, codes included
          Amount,       \* entries that parse as an amount within the cap
          One, Two,     \* the entries of the confirm menu
          MaxAttempts,  \* misses a field allows
          MaxDialled,   \* bound on the entries a QR or a dial string fills in
          MaxDials,     \* bound on the sessions of a caller under one id
          MaxEdits,     \* bound on the changes to merchants
          None

ASSUME UssdAssumption ==
  /\ {MaxAttempts, MaxDialled, MaxDials, MaxEdits} \subseteq Nat
  /\ MaxAttempts > 0
  /\ Code \subseteq Entry
  /\ Amount \subseteq Entry
  /\ {One, Two} \subseteq Entry
  /\ One # Two
  /\ None \notin Entry

VARIABLES status,    \* the merchants table: code -> status, "unknown" without a row
          text,      \* the aggregator's accumulated input of each caller
          reply,     \* the last screen each caller was shown
          payments,  \* payments started, oldest first
          dials, edits

vars == <<status, text, reply, payments, dials, edits>>

Caller == [session : Session, msisdn : Msisdn]
Status == {"unknown", "inactive", "active"}  \* pending and rejected read alike
Kind == {"till", "amount", "confirm", "too_many", "inactive", "cancelled", "started"}
Screen(kind, code, amount) == [kind |-> kind, code |-> code, amount |-> amount]
Continues(screen) == screen.kind \in {"till", "amount", "confirm"}
NoScreen == Screen("cancelled", None, None)

Init ==
  /\ status \in [Code -> Status]
  /\ text = [c \in Caller |-> <<>>]
  /\ reply = [c \in Caller |-> NoScreen]
  /\ payments = <<>>
  /\ dials = [c \in Caller |-> 0]
  /\ edits = 0

-----------------------------------------------------------------------------
(* Reading the accumulated input *)

IsKnown(entry) == entry \in Code /\ status[entry] # "unknown"
IsAmount(entry) == entry \in Amount
IsChoice(entry) == entry \in {One, Two}

After(entries, k) == SubSeq(entries, k + 1, Len(entries))

\* Mutant: one miss more than the field allows.
TooManyButOne(entries, k) ==
  IF k = 0 THEN Len(entries) > MaxAttempts ELSE k > MaxAttempts + 1

\* A field ends the session with its last allowed miss; k is the position of
\* its first good entry, 0 if there is none.
TooMany(entries, k) ==
  IF k = 0 THEN Len(entries) >= MaxAttempts ELSE k > MaxAttempts

\* Mutant: an amount typed again on the confirm menu counts, but is not shown.
ReadChoiceRetyped(code, amount, entries) ==
  LET k == SelectInSeq(entries, IsChoice)
  IN IF TooMany(entries, k) THEN Screen("too_many", None, None)
     ELSE IF k = 0 THEN Screen("confirm", code, amount)
     ELSE IF entries[k] = Two THEN Screen("cancelled", None, None)
     ELSE Screen("started", code,
                 IF k > 1 /\ IsAmount(entries[k - 1]) THEN entries[k - 1] ELSE amount)

ReadChoice(code, amount, entries) ==
  LET k == SelectInSeq(entries, IsChoice)
  IN IF TooMany(entries, k) THEN Screen("too_many", None, None)
     ELSE IF k = 0 THEN Screen("confirm", code, amount)
     ELSE IF entries[k] = Two THEN Screen("cancelled", None, None)
     ELSE Screen("started", code, amount)

ReadAmount(code, entries) ==
  LET k == SelectInSeq(entries, IsAmount)
  IN IF TooMany(entries, k) THEN Screen("too_many", None, None)
     ELSE IF k = 0 THEN Screen("amount", code, None)
     ELSE ReadChoice(code, entries[k], After(entries, k))

\* An unknown code is a typo and skipped; a known one that is not active ends
\* the session.
ReadTill(entries) ==
  LET k == SelectInSeq(entries, IsKnown)
  IN IF TooMany(entries, k) THEN Screen("too_many", None, None)
     ELSE IF k = 0 THEN Screen("till", None, None)
     ELSE IF status[entries[k]] # "active" THEN Screen("inactive", None, None)
     ELSE ReadAmount(entries[k], After(entries, k))

-----------------------------------------------------------------------------
(* Requests *)

\* Mutant: the key leaves out the payer.
KeyOfSession(c, code, amount) == <<c.session, code, amount>>

Key(c, code, amount) == <<c.session, c.msisdn, code, amount>>

Payment == [key : Session \X Msisdn \X Code \X Amount,
            payer : Msisdn, code : Code, amount : Amount]

Keys == {payments[i].key : i \in DOMAIN payments}

NewPayment(c, code, amount) ==
  [key |-> Key(c, code, amount), payer |-> c.msisdn, code |-> code, amount |-> amount]

\* Mutant: every confirmation opens a payment.
StartUnkeyed(c, code, amount) == payments' = Append(payments, NewPayment(c, code, amount))

\* start_merchant_payment finds the payment of the key or starts one.
StartOrFind(c, code, amount) ==
  IF Key(c, code, amount) \in Keys
  THEN UNCHANGED payments
  ELSE payments' = Append(payments, NewPayment(c, code, amount))

Handle(c, entries) ==
  LET screen == ReadTill(entries)
  IN /\ text' = [text EXCEPT ![c] = entries]
     /\ reply' = [reply EXCEPT ![c] = screen]
     /\ IF screen.kind = "started"
        THEN StartOrFind(c, screen.code, screen.amount)
        ELSE UNCHANGED payments

\* A caller dials, with what a QR or the dial string fills in; the aggregator
\* may use a session id again.
Dial(c) ==
  /\ dials[c] < MaxDials
  /\ dials' = [dials EXCEPT ![c] = dials[c] + 1]
  /\ \E n \in 0 .. MaxDialled : \E entries \in [1 .. n -> Entry] : Handle(c, entries)
  /\ UNCHANGED <<status, edits>>

\* The caller answers a screen that continues.
KeyIn(c) ==
  /\ Continues(reply[c])
  /\ \E entry \in Entry : Handle(c, Append(text[c], entry))
  /\ UNCHANGED <<status, dials, edits>>

\* The aggregator sends a step again.
Resend(c) ==
  /\ dials[c] > 0
  /\ Handle(c, text[c])
  /\ UNCHANGED <<status, dials, edits>>

-----------------------------------------------------------------------------
(* Merchants *)

Decide(code, before, after) ==
  /\ edits < MaxEdits
  /\ edits' = edits + 1
  /\ status[code] = before
  /\ status' = [status EXCEPT ![code] = after]
  /\ UNCHANGED <<text, reply, payments, dials>>

SignUp(code) == Decide(code, "unknown", "inactive")
Approve(code) == Decide(code, "inactive", "active")
Reject(code) == Decide(code, "active", "inactive")

Next ==
  \/ \E c \in Caller : Dial(c) \/ KeyIn(c) \/ Resend(c)
  \/ \E code \in Code : SignUp(code) \/ Approve(code) \/ Reject(code)

Spec == Init /\ [][Next]_vars

-----------------------------------------------------------------------------
(* Properties *)

\* Screens and payments name merchants and amounts.
TypeOK ==
  /\ status \in [Code -> Status]
  /\ text \in [Caller -> Seq(Entry)]
  /\ reply \in [Caller -> [kind : Kind, code : Code \cup {None}, amount : Amount \cup {None}]]
  /\ \A c \in Caller : reply[c].kind \in {"confirm", "started"} =>
       reply[c].code \in Code /\ reply[c].amount \in Amount
  /\ payments \in Seq(Payment)
  /\ dials \in [Caller -> 0 .. MaxDials]
  /\ edits \in 0 .. MaxEdits

\* A caller who is told that a payment was initiated pays it from their own
\* number: neither a session id used again for another caller nor a change of
\* merchants hands them someone else's payment.
InitiatedIsTrue ==
  \A c \in Caller : reply[c].kind = "started" =>
    \E i \in DOMAIN payments :
      /\ payments[i].payer = c.msisdn
      /\ payments[i].code = reply[c].code
      /\ payments[i].amount = reply[c].amount

\* What is started is what the caller was shown and confirmed, the same merchant
\* and the same amount, as long as no merchant signs up or is decided on
\* meanwhile.
PaysWhatWasShown ==
  [][edits' = 0 => \A c \in Caller : reply'[c].kind = "started" /\ reply'[c] # reply[c] =>
       reply[c] = [reply'[c] EXCEPT !.kind = "confirm"]]_vars

\* A session is the dial and at most MaxAttempts entries for each of the three
\* fields (session.py:42, 167, 182, 201), whatever the fields are answered with:
\* the ten requests that ussd_routes.py:57-59 calls the worst legal session. The
\* limiter's fifteen a minute leaves five for what is not an entry, resends and
\* empty entries, which nothing in the code bounds and which are not counted here.
StaysBelowLimit == \A c \in Caller : Len(text[c]) + 1 <= 1 + 3 * MaxAttempts
=============================================================================
