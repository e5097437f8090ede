----------------------------- MODULE UssdProofs -----------------------------
(***************************************************************************)
(* For any codes, entries, callers and limits: what the reader of the USSD *)
(* text takes from it, and the properties of the dialogue.                 *)
(***************************************************************************)
EXTENDS MCUssd, SequenceTheorems, WellFoundedInduction, TLAPS

-----------------------------------------------------------------------------
(* The first good entry *)

LEMMA MinOf ==
  ASSUME NEW I \in SUBSET Nat, I # {}
  PROVE  Min(I) \in I /\ \A i \in I : Min(I) <= i
<1> DEFINE Less == {ss \in Nat \X Nat : ss[1] < ss[2]}
<1>1. IsWellFoundedOn(Less, Nat)
  BY NatLessThanWellFounded, Zenon DEF OpToRel
<1>2. PICK m \in I : \A i \in I : ~(<<i, m>> \in Less)
  BY <1>1, WFMin
<1>3. ASSUME NEW i \in I PROVE m <= i
  <2>1. i \in Nat /\ m \in Nat /\ <<i, m>> \in Nat \X Nat
    OBVIOUS
  <2>2. ~(i < m)
    BY <1>2, <2>1
  <2>3. QED
    BY <2>1, <2>2
<1>4. QED
  BY <1>3 DEF Min

\* One more candidate at the end changes the first one only if there was none.
LEMMA MinOfMore ==
  ASSUME NEW n \in Nat, NEW I \in SUBSET (1 .. n), NEW J \in SUBSET (1 .. n + 1),
         \A i \in 1 .. n : i \in J <=> i \in I
  PROVE  /\ I # {} => J # {} /\ Min(J) = Min(I)
         /\ I = {} => J = {} \/ Min(J) = n + 1
<1>1. I \in SUBSET Nat /\ J \in SUBSET Nat
  OBVIOUS
<1>2. ASSUME I # {} PROVE J # {} /\ Min(J) = Min(I)
  <2>1. Min(I) \in I /\ \A i \in I : Min(I) <= i
    BY <1>1, <1>2, MinOf
  <2>2. Min(I) \in J
    BY <2>1
  <2>3. Min(J) \in J /\ \A i \in J : Min(J) <= i
    BY <1>1, <2>2, MinOf
  <2>4. Min(J) <= Min(I) /\ Min(I) \in 1 .. n /\ Min(J) \in 1 .. n + 1
    BY <2>1, <2>2, <2>3
  <2>5. Min(J) \in I
    BY <2>3, <2>4
  <2>6. QED
    BY <2>1, <2>2, <2>4, <2>5
<1>3. ASSUME I = {}, J # {} PROVE Min(J) = n + 1
  <2>1. Min(J) \in J
    BY <1>1, <1>3, MinOf
  <2>2. Min(J) \in 1 .. n + 1 /\ Min(J) \notin 1 .. n
    BY <1>3, <2>1
  <2>3. QED
    BY <2>2
<1>4. QED
  BY <1>2, <1>3

\* The positions of the good entries of each field.
Tills(entries) == {i \in 1 .. Len(entries) : IsKnown(entries[i])}
Amounts(entries) == {i \in 1 .. Len(entries) : IsAmount(entries[i])}
Decisions(entries) == {i \in 1 .. Len(entries) : IsChoice(entries[i])}

FirstOf(I) == IF I # {} THEN Min(I) ELSE 0

LEMMA Firsts ==
  ASSUME NEW entries
  PROVE  /\ SelectInSeq(entries, IsKnown) = FirstOf(Tills(entries))
         /\ SelectInSeq(entries, IsAmount) = FirstOf(Amounts(entries))
         /\ SelectInSeq(entries, IsChoice) = FirstOf(Decisions(entries))
BY DEF SelectInSeq, FirstOf, Tills, Amounts, Decisions

LEMMA FirstIsGood ==
  ASSUME NEW n \in Nat, NEW I \in SUBSET (1 .. n)
  PROVE  /\ FirstOf(I) \in 0 .. n
         /\ FirstOf(I) # 0 => FirstOf(I) \in I
         /\ FirstOf(I) = 0 => I = {}
<1>1. ASSUME I # {} PROVE FirstOf(I) \in I /\ FirstOf(I) # 0
  <2>1. I \in SUBSET Nat
    OBVIOUS
  <2>2. FirstOf(I) \in I
    BY <1>1, <2>1, MinOf DEF FirstOf
  <2>3. QED
    BY <2>2
<1>2. I = {} => FirstOf(I) = 0
  BY DEF FirstOf
<1>3. FirstOf(I) \in 0 .. n
  <2>1. CASE I = {}
    BY <1>2, <2>1
  <2>2. CASE I # {}
    <3>1. FirstOf(I) \in 1 .. n
      BY <1>1, <2>2
    <3>2. QED
      BY <3>1
  <2>3. QED
    BY <2>1, <2>2
<1>4. QED
  BY <1>1, <1>2, <1>3

-----------------------------------------------------------------------------
(* Reading *)

\* What each field's reader finds: the position of its first good entry.
LEMMA TillFound ==
  ASSUME NEW entries \in Seq(Entry)
  PROVE  LET k == SelectInSeq(entries, IsKnown)
         IN /\ k \in 0 .. Len(entries)
            /\ k # 0 => entries[k] \in Code
<1>1. Len(entries) \in Nat /\ Tills(entries) \in SUBSET (1 .. Len(entries))
  BY DEF Tills
<1>2. FirstOf(Tills(entries)) # 0 => FirstOf(Tills(entries)) \in Tills(entries)
  BY <1>1, FirstIsGood
<1>3. FirstOf(Tills(entries)) \in 0 .. Len(entries)
  BY <1>1, FirstIsGood
<1>4. QED
  BY <1>2, <1>3, Firsts DEF Tills, IsKnown

LEMMA AmountFound ==
  ASSUME NEW entries \in Seq(Entry)
  PROVE  LET k == SelectInSeq(entries, IsAmount)
         IN /\ k \in 0 .. Len(entries)
            /\ k # 0 => entries[k] \in Amount
<1>1. Len(entries) \in Nat /\ Amounts(entries) \in SUBSET (1 .. Len(entries))
  BY DEF Amounts
<1>2. FirstOf(Amounts(entries)) # 0 => FirstOf(Amounts(entries)) \in Amounts(entries)
  BY <1>1, FirstIsGood
<1>3. FirstOf(Amounts(entries)) \in 0 .. Len(entries)
  BY <1>1, FirstIsGood
<1>4. QED
  BY <1>2, <1>3, Firsts DEF Amounts, IsAmount

LEMMA ChoiceFound ==
  ASSUME NEW entries \in Seq(Entry)
  PROVE  SelectInSeq(entries, IsChoice) \in 0 .. Len(entries)
<1>1. Len(entries) \in Nat /\ Decisions(entries) \in SUBSET (1 .. Len(entries))
  BY DEF Decisions
<1>2. QED
  BY <1>1, FirstIsGood, Firsts

LEMMA Rest ==
  ASSUME NEW entries \in Seq(Entry), NEW k \in 0 .. Len(entries)
  PROVE  /\ After(entries, k) \in Seq(Entry)
         /\ Len(After(entries, k)) = Len(entries) - k
         /\ \A i \in 1 .. Len(entries) - k : After(entries, k)[i] = entries[k + i]
BY DEF After

\* Screens have the fields they are made of.
LEMMA ScreenFields ==
  ASSUME NEW kind, NEW code, NEW amount
  PROVE  /\ Screen(kind, code, amount).kind = kind
         /\ Screen(kind, code, amount).code = code
         /\ Screen(kind, code, amount).amount = amount
BY DEF Screen

\* The three readers, their screens and the length of what they read.
LEMMA ChoiceRead ==
  ASSUME NEW entries \in Seq(Entry), NEW code, NEW amount
  PROVE  LET screen == ReadChoice(code, amount, entries)
         IN /\ screen.kind \in {"confirm", "too_many", "cancelled", "started"}
            /\ screen.kind \in {"confirm", "started"} => screen = Screen(screen.kind, code, amount)
            /\ Continues(screen) => Len(entries) < MaxAttempts
            /\ screen.kind = "started" => Len(entries) >= 1
<1> DEFINE k == SelectInSeq(entries, IsChoice)
<1>1. k \in 0 .. Len(entries) /\ Len(entries) \in Nat
  BY ChoiceFound
<1>2. CASE TooMany(entries, k)
  BY <1>2 DEF ReadChoice, Screen, Continues
<1>3. CASE ~TooMany(entries, k) /\ k = 0
  BY <1>1, <1>3, UssdAssumption DEF ReadChoice, Screen, Continues, TooMany
<1>4. CASE ~TooMany(entries, k) /\ k # 0
  BY <1>1, <1>4 DEF ReadChoice, Screen, Continues
<1>5. QED
  BY <1>2, <1>3, <1>4

LEMMA AmountRead ==
  ASSUME NEW entries \in Seq(Entry), NEW code
  PROVE  LET screen == ReadAmount(code, entries)
         IN /\ screen.kind \in {"amount", "confirm", "too_many", "cancelled", "started"}
            /\ screen.kind = "amount" => screen = Screen("amount", code, None)
            /\ screen.kind \in {"confirm", "started"} =>
                 screen = Screen(screen.kind, code, screen.amount) /\ screen.amount \in Amount
            /\ Continues(screen) => Len(entries) < 2 * MaxAttempts
            /\ screen.kind = "started" => Len(entries) >= 2
<1> DEFINE k == SelectInSeq(entries, IsAmount)
           rest == After(entries, k)
<1>1. k \in 0 .. Len(entries) /\ Len(entries) \in Nat /\ (k # 0 => entries[k] \in Amount)
  BY AmountFound
<1>2. CASE TooMany(entries, k)
  BY <1>2 DEF ReadAmount, Screen, Continues
<1>3. CASE ~TooMany(entries, k) /\ k = 0
  BY <1>1, <1>3, UssdAssumption DEF ReadAmount, Screen, Continues, TooMany
<1>4. CASE ~TooMany(entries, k) /\ k # 0
  <2>1. ReadAmount(code, entries) = ReadChoice(code, entries[k], rest)
    BY <1>4 DEF ReadAmount
  <2>2. rest \in Seq(Entry) /\ Len(rest) = Len(entries) - k
    BY <1>1, Rest
  <2>3. k <= MaxAttempts /\ k >= 1
    BY <1>1, <1>4, UssdAssumption DEF TooMany
  <2>4. DEFINE screen == ReadChoice(code, entries[k], rest)
  <2>5. /\ screen.kind \in {"confirm", "too_many", "cancelled", "started"}
        /\ screen.kind \in {"confirm", "started"} => screen = Screen(screen.kind, code, entries[k])
        /\ Continues(screen) => Len(rest) < MaxAttempts
        /\ screen.kind = "started" => Len(rest) >= 1
    BY <2>2, ChoiceRead
  <2>6. Continues(screen) => Len(entries) < 2 * MaxAttempts
    BY <1>1, <2>2, <2>3, <2>5, UssdAssumption
  <2>7. screen.kind = "started" => Len(entries) >= 2
    BY <1>1, <2>2, <2>3, <2>5, UssdAssumption
  <2>8. screen.kind \in {"confirm", "started"} => screen.amount = entries[k]
    BY <2>5, ScreenFields
  <2>9. QED
    BY <1>1, <1>4, <2>1, <2>5, <2>6, <2>7, <2>8
<1>5. QED
  BY <1>2, <1>3, <1>4

LEMMA TillRead ==
  ASSUME NEW entries \in Seq(Entry)
  PROVE  LET screen == ReadTill(entries)
         IN /\ screen.kind \in Kind
            /\ screen.kind \in {"confirm", "started"} =>
                 /\ screen = Screen(screen.kind, screen.code, screen.amount)
                 /\ screen.code \in Code /\ screen.amount \in Amount
            /\ Continues(screen) => Len(entries) < 3 * MaxAttempts
            /\ screen.kind = "started" => Len(entries) >= 3
<1> DEFINE k == SelectInSeq(entries, IsKnown)
           rest == After(entries, k)
<1>1. k \in 0 .. Len(entries) /\ Len(entries) \in Nat /\ (k # 0 => entries[k] \in Code)
  BY TillFound
<1>2. CASE TooMany(entries, k)
  BY <1>2 DEF ReadTill, Screen, Continues, Kind
<1>3. CASE ~TooMany(entries, k) /\ k = 0
  BY <1>1, <1>3, UssdAssumption DEF ReadTill, Screen, Continues, TooMany, Kind
<1>4. CASE ~TooMany(entries, k) /\ k # 0 /\ status[entries[k]] # "active"
  BY <1>4 DEF ReadTill, Screen, Continues, Kind
<1>5. CASE ~TooMany(entries, k) /\ k # 0 /\ status[entries[k]] = "active"
  <2>1. ReadTill(entries) = ReadAmount(entries[k], rest)
    BY <1>5 DEF ReadTill
  <2>2. rest \in Seq(Entry) /\ Len(rest) = Len(entries) - k
    BY <1>1, Rest
  <2>3. k <= MaxAttempts /\ k >= 1
    BY <1>1, <1>5, UssdAssumption DEF TooMany
  <2>4. DEFINE screen == ReadAmount(entries[k], rest)
  <2>5. /\ screen.kind \in {"amount", "confirm", "too_many", "cancelled", "started"}
        /\ screen.kind \in {"confirm", "started"} =>
             screen = Screen(screen.kind, entries[k], screen.amount) /\ screen.amount \in Amount
        /\ Continues(screen) => Len(rest) < 2 * MaxAttempts
        /\ screen.kind = "started" => Len(rest) >= 2
    BY <2>2, AmountRead
  <2>6. Continues(screen) => Len(entries) < 3 * MaxAttempts
    BY <1>1, <2>2, <2>3, <2>5, UssdAssumption
  <2>7. screen.kind = "started" => Len(entries) >= 3
    BY <1>1, <2>2, <2>3, <2>5, UssdAssumption
  <2>8. screen.kind \in {"confirm", "started"} => screen.code = entries[k]
    BY <2>5, ScreenFields
  <2>9. QED
    BY <1>1, <1>5, <2>1, <2>5, <2>6, <2>7, <2>8 DEF Kind
<1>6. QED
  BY <1>2, <1>3, <1>4, <1>5

-----------------------------------------------------------------------------
(* The invariants *)

\* The key of a payment names its payer, its code and its amount.
KeyNamesPayment ==
  \A i \in DOMAIN payments :
    /\ payments[i].key[2] = payments[i].payer
    /\ payments[i].key[3] = payments[i].code
    /\ payments[i].key[4] = payments[i].amount

\* What a caller was told was initiated has its key.
StartedIsKeyed ==
  \A c \in Caller : reply[c].kind = "started" => Key(c, reply[c].code, reply[c].amount) \in Keys

UssdInv ==
  /\ TypeOK
  /\ KeyNamesPayment
  /\ StartedIsKeyed

\* A screen that continues leaves room for one entry.
RoomForOneMore ==
  \A c \in Caller :
    /\ Len(text[c]) <= 3 * MaxAttempts
    /\ Continues(reply[c]) => Len(text[c]) < 3 * MaxAttempts

\* While no merchant changed, the last screen is what the text reads now.
ScreenIsCurrent ==
  edits = 0 => \A c \in Caller :
                 reply[c] = IF dials[c] = 0 THEN NoScreen ELSE ReadTill(text[c])

\* What a text asks for, its till being active.
TillIsRead(e) == LET k == SelectInSeq(e, IsKnown) IN k # 0 /\ ~TooMany(e, k)
AsRead(e) == LET k == SelectInSeq(e, IsKnown) IN ReadAmount(e[k], After(e, k))

\* Once its session has started a payment, a caller's text reads as that payment
\* or its till as inactive, and the session has ended.
Settled(c) ==
  /\ TillIsRead(text[c]) /\ AsRead(text[c]).kind = "started"
  /\ Key(c, AsRead(text[c]).code, AsRead(text[c]).amount) \in Keys
  /\ ~Continues(reply[c])

OnceFor(c) ==
  ToSet(text[c]) \cap joined = {} /\ opened[c] # 0 => opened[c] = 1 /\ Settled(c)

OnceInv ==
  /\ UssdInv
  /\ joined \subseteq Code
  /\ opened \in [Caller -> Nat]
  /\ \A c \in Caller : OnceFor(c)

-----------------------------------------------------------------------------
(* A request *)

LEMMA Fields ==
  ASSUME NEW entries \in Seq(Entry)
  PROVE  ReadTill(entries) \in [kind : Kind, code : Code \cup {None}, amount : Amount \cup {None}]
<1> DEFINE Screens == [kind : Kind, code : Code \cup {None}, amount : Amount \cup {None}]
<1>s. \A kind \in Kind, code \in Code \cup {None}, amount \in Amount \cup {None} :
        Screen(kind, code, amount) \in Screens
  BY DEF Screen
<1>k. {"till", "amount", "confirm", "too_many", "inactive", "cancelled", "started"} = Kind
  BY DEF Kind
<1>1. ASSUME NEW rest \in Seq(Entry), NEW code \in Code, NEW amount \in Amount
      PROVE  ReadChoice(code, amount, rest) \in Screens
  BY <1>1, <1>s, <1>k DEF ReadChoice
<1>2. ASSUME NEW rest \in Seq(Entry), NEW code \in Code
      PROVE  ReadAmount(code, rest) \in Screens
  <2> DEFINE k == SelectInSeq(rest, IsAmount)
  <2>1. k \in 0 .. Len(rest) /\ (k # 0 => rest[k] \in Amount)
    BY AmountFound
  <2>2. After(rest, k) \in Seq(Entry)
    BY <2>1, Rest
  <2>3. QED
    BY <1>1, <1>s, <1>k, <2>1, <2>2 DEF ReadAmount
<1>3. QED
  <2> DEFINE k == SelectInSeq(entries, IsKnown)
  <2>1. k \in 0 .. Len(entries) /\ (k # 0 => entries[k] \in Code)
    BY TillFound
  <2>2. After(entries, k) \in Seq(Entry)
    BY <2>1, Rest
  <2>3. QED
    BY <1>2, <1>s, <1>k, <2>1, <2>2 DEF ReadTill

LEMMA NewPaymentFields ==
  ASSUME NEW c \in Caller, NEW code \in Code, NEW amount \in Amount
  PROVE  LET payment == NewPayment(c, code, amount)
         IN /\ payment \in Payment
            /\ payment.payer = c.msisdn /\ payment.code = code /\ payment.amount = amount
            /\ payment.key = Key(c, code, amount)
            /\ payment.key[1] = c.session /\ payment.key[2] = c.msisdn
            /\ payment.key[3] = code /\ payment.key[4] = amount
<1>1. c.session \in Session /\ c.msisdn \in Msisdn
  BY DEF Caller
<1>2. QED
  BY <1>1 DEF NewPayment, Payment, Key

\* What one request does to the payments.
LEMMA Handled ==
  ASSUME TypeOK, NEW c \in Caller, NEW entries \in Seq(Entry), Handle(c, entries)
  PROVE  LET screen == ReadTill(entries)
         IN /\ text' = [text EXCEPT ![c] = entries] /\ reply' = [reply EXCEPT ![c] = screen]
            /\ screen.kind = "started" => screen.code \in Code /\ screen.amount \in Amount
            /\ \/ UNCHANGED payments
               \/ /\ screen.kind = "started" /\ Key(c, screen.code, screen.amount) \notin Keys
                  /\ payments' = Append(payments, NewPayment(c, screen.code, screen.amount))
            /\ payments' \in Seq(Payment)
            /\ Keys \subseteq Keys'
            /\ screen.kind = "started" => Key(c, screen.code, screen.amount) \in Keys'
<1> DEFINE screen == ReadTill(entries)
           payment == NewPayment(c, screen.code, screen.amount)
<1>1. /\ text' = [text EXCEPT ![c] = entries] /\ reply' = [reply EXCEPT ![c] = screen]
      /\ IF screen.kind = "started" THEN StartOrFind(c, screen.code, screen.amount)
                                    ELSE UNCHANGED payments
  BY DEF Handle
<1>2. screen.kind = "started" => screen.code \in Code /\ screen.amount \in Amount
  BY TillRead
<1>3. payments \in Seq(Payment)
  BY DEF TypeOK
<1>4. CASE UNCHANGED payments
  <2>1. Keys' = Keys
    BY <1>4 DEF Keys
  <2>2. screen.kind = "started" => Key(c, screen.code, screen.amount) \in Keys
    <3>1. ASSUME screen.kind = "started", Key(c, screen.code, screen.amount) \notin Keys PROVE FALSE
      <4>1. payments' = Append(payments, payment)
        BY <1>1, <3>1 DEF StartOrFind
      <4>2. Len(Append(payments, payment)) = Len(payments) + 1 /\ Len(payments) \in Nat
        BY <1>2, <1>3, <3>1, NewPaymentFields
      <4>3. QED
        BY <1>4, <4>1, <4>2
    <3>2. QED
      BY <3>1
  <2>3. QED
    BY <1>1, <1>2, <1>3, <1>4, <2>1, <2>2
<1>5. CASE /\ screen.kind = "started" /\ Key(c, screen.code, screen.amount) \notin Keys
           /\ payments' = Append(payments, payment)
  <2>1. payment \in Payment /\ payment.key = Key(c, screen.code, screen.amount)
    BY <1>2, <1>5, NewPaymentFields
  <2>2. /\ payments' \in Seq(Payment) /\ Len(payments') = Len(payments) + 1
        /\ \A i \in 1 .. Len(payments) : payments'[i] = payments[i]
        /\ payments'[Len(payments) + 1] = payment
    BY <1>3, <1>5, <2>1
  <2>3. DOMAIN payments = 1 .. Len(payments) /\ DOMAIN payments' = 1 .. Len(payments')
    BY <1>3, <2>2
  <2>4. Keys \subseteq Keys'
    <3>1. ASSUME NEW i \in DOMAIN payments PROVE payments[i].key \in Keys'
      <4>1. i \in DOMAIN payments' /\ payments'[i] = payments[i]
        BY <1>3, <2>2, <2>3, <3>1
      <4>2. QED
        BY <4>1 DEF Keys
    <3>2. QED
      BY <3>1 DEF Keys
  <2>5. payment.key \in Keys'
    <3>1. Len(payments) + 1 \in DOMAIN payments'
      BY <1>3, <2>2, <2>3
    <3>2. QED
      BY <2>2, <3>1 DEF Keys
  <2>6. QED
    BY <1>1, <1>2, <1>5, <2>1, <2>2, <2>4, <2>5
<1>6. QED
  BY <1>1, <1>4, <1>5 DEF StartOrFind

\* What a caller dials is a text.
LEMMA Dialled ==
  ASSUME NEW n \in 0 .. MaxDialled, NEW entries \in [1 .. n -> Entry]
  PROVE  entries \in Seq(Entry) /\ Len(entries) = n
<1>1. n \in Nat
  BY UssdAssumption
<1>2. QED
  BY <1>1

\* Every step is a request or a change of a merchant.
LEMMA StepCases ==
  ASSUME TypeOK, [Next]_vars
  PROVE  \/ \E c \in Caller, entries \in Seq(Entry) :
              /\ Handle(c, entries) /\ UNCHANGED <<status, edits>>
              /\ \/ Len(entries) <= MaxDialled /\ dials[c] < MaxDials
                    /\ dials' = [dials EXCEPT ![c] = dials[c] + 1]
                 \/ Continues(reply[c]) /\ UNCHANGED dials
                    /\ \E entry \in Entry : entries = Append(text[c], entry)
                 \/ dials[c] > 0 /\ UNCHANGED dials /\ entries = text[c]
         \/ \E code \in Code, after \in Status :
              /\ status' = [status EXCEPT ![code] = after] /\ after # "unknown"
              /\ edits < MaxEdits /\ edits' = edits + 1
              /\ UNCHANGED <<text, reply, payments, dials>>
         \/ UNCHANGED vars
<1>1. ASSUME NEW c \in Caller, Dial(c)
      PROVE  \E entries \in Seq(Entry) :
               /\ Handle(c, entries) /\ UNCHANGED <<status, edits>>
               /\ Len(entries) <= MaxDialled /\ dials[c] < MaxDials
               /\ dials' = [dials EXCEPT ![c] = dials[c] + 1]
  <2>1. PICK n \in 0 .. MaxDialled : \E entries \in [1 .. n -> Entry] : Handle(c, entries)
    BY <1>1 DEF Dial
  <2>2. PICK entries \in [1 .. n -> Entry] : Handle(c, entries)
    BY <2>1
  <2>3. entries \in Seq(Entry) /\ Len(entries) <= MaxDialled
    BY Dialled, UssdAssumption
  <2>4. QED
    BY <1>1, <2>2, <2>3 DEF Dial
<1>2. ASSUME NEW c \in Caller, KeyIn(c)
      PROVE  \E entries \in Seq(Entry) :
               /\ Handle(c, entries) /\ UNCHANGED <<status, edits>>
               /\ Continues(reply[c]) /\ UNCHANGED dials
               /\ \E entry \in Entry : entries = Append(text[c], entry)
  <2>1. PICK entry \in Entry : Handle(c, Append(text[c], entry))
    BY <1>2 DEF KeyIn
  <2>2. Append(text[c], entry) \in Seq(Entry)
    BY DEF TypeOK
  <2>3. QED
    BY <1>2, <2>1, <2>2 DEF KeyIn
<1>3. ASSUME NEW c \in Caller, Resend(c)
      PROVE  /\ text[c] \in Seq(Entry)
             /\ Handle(c, text[c]) /\ UNCHANGED <<status, edits, dials>> /\ dials[c] > 0
  BY <1>3 DEF Resend, TypeOK
<1>4. ASSUME NEW code \in Code, SignUp(code) \/ Approve(code) \/ Reject(code)
      PROVE  \E after \in Status :
               /\ status' = [status EXCEPT ![code] = after] /\ after # "unknown"
               /\ edits < MaxEdits /\ edits' = edits + 1
               /\ UNCHANGED <<text, reply, payments, dials>>
  BY <1>4 DEF SignUp, Approve, Reject, Decide, Status
<1>5. QED
  BY <1>1, <1>2, <1>3, <1>4 DEF Next

-----------------------------------------------------------------------------
(* Types, and what a caller is told *)

LEMMA InitType == Init => TypeOK
BY UssdAssumption DEF Init, TypeOK, NoScreen, Screen, Kind, Payment

LEMMA TypeStep == ASSUME TypeOK, [Next]_vars PROVE TypeOK'
<1>0. /\ status \in [Code -> Status]
      /\ text \in [Caller -> Seq(Entry)]
      /\ reply \in [Caller -> [kind : Kind, code : Code \cup {None}, amount : Amount \cup {None}]]
      /\ dials \in [Caller -> 0 .. MaxDials] /\ edits \in 0 .. MaxEdits
      /\ {MaxDials, MaxEdits} \subseteq Nat
  BY UssdAssumption DEF TypeOK
<1>1. ASSUME NEW c \in Caller, NEW entries \in Seq(Entry), Handle(c, entries), UNCHANGED <<status, edits>>,
             dials' \in [Caller -> 0 .. MaxDials]
      PROVE  TypeOK'
  <2> DEFINE screen == ReadTill(entries)
  <2>1. /\ text' = [text EXCEPT ![c] = entries] /\ reply' = [reply EXCEPT ![c] = screen]
        /\ payments' \in Seq(Payment)
    BY <1>1, Handled
  <2>2. /\ screen \in [kind : Kind, code : Code \cup {None}, amount : Amount \cup {None}]
        /\ screen.kind \in {"confirm", "started"} => screen.code \in Code /\ screen.amount \in Amount
    BY Fields, TillRead
  <2>3. /\ text' \in [Caller -> Seq(Entry)]
        /\ reply' \in [Caller -> [kind : Kind, code : Code \cup {None}, amount : Amount \cup {None}]]
    BY <1>0, <2>1, <2>2
  <2>4. \A d \in Caller : reply'[d].kind \in {"confirm", "started"} =>
                            reply'[d].code \in Code /\ reply'[d].amount \in Amount
    BY <1>0, <2>1, <2>2 DEF TypeOK
  <2>5. QED
    BY <1>0, <1>1, <2>1, <2>3, <2>4 DEF TypeOK
<1>2. ASSUME NEW code \in Code, NEW after \in Status,
             status' = [status EXCEPT ![code] = after], edits < MaxEdits, edits' = edits + 1,
             UNCHANGED <<text, reply, payments, dials>>
      PROVE  TypeOK'
  <2>1. status' \in [Code -> Status] /\ edits' \in 0 .. MaxEdits
    BY <1>0, <1>2
  <2>2. QED
    BY <1>2, <2>1 DEF TypeOK
<1>3. ASSUME UNCHANGED vars PROVE TypeOK'
  BY <1>3 DEF vars, TypeOK
<1>4. ASSUME NEW c \in Caller, dials[c] < MaxDials, dials' = [dials EXCEPT ![c] = dials[c] + 1]
      PROVE  dials' \in [Caller -> 0 .. MaxDials]
  BY <1>0, <1>4
<1>5. QED
  BY <1>0, <1>1, <1>2, <1>3, <1>4, StepCases

\* Texts, screens and payments keep their types.
THEOREM TypeCorrect == Spec => []TypeOK
<1>1. QED
  BY InitType, TypeStep, PTL DEF Spec

LEMMA UssdInit == Init => UssdInv
<1>1. ASSUME Init PROVE KeyNamesPayment /\ StartedIsKeyed
  <2>1. payments = <<>> /\ \A c \in Caller : reply[c].kind = "cancelled"
    BY <1>1 DEF Init, NoScreen, Screen
  <2>2. QED
    BY <2>1 DEF KeyNamesPayment, StartedIsKeyed
<1>2. QED
  BY <1>1, InitType DEF UssdInv

LEMMA UssdStep == ASSUME UssdInv, [Next]_vars PROVE UssdInv'
<1>0. TypeOK /\ TypeOK' /\ payments \in Seq(Payment)
  BY TypeStep DEF UssdInv, TypeOK
<1>1. ASSUME NEW c \in Caller, NEW entries \in Seq(Entry), Handle(c, entries) PROVE UssdInv'
  <2> DEFINE screen == ReadTill(entries)
             payment == NewPayment(c, screen.code, screen.amount)
  <2>1. /\ reply' = [reply EXCEPT ![c] = screen]
        /\ screen.kind = "started" => screen.code \in Code /\ screen.amount \in Amount
        /\ \/ UNCHANGED payments
           \/ screen.kind = "started" /\ payments' = Append(payments, payment)
        /\ Keys \subseteq Keys'
        /\ screen.kind = "started" => Key(c, screen.code, screen.amount) \in Keys'
    BY <1>0, <1>1, Handled
  <2>2. KeyNamesPayment'
    <3>1. CASE UNCHANGED payments
      BY <3>1 DEF UssdInv, KeyNamesPayment
    <3>2. CASE screen.kind = "started" /\ payments' = Append(payments, payment)
      <4>1. /\ payment \in Payment /\ payment.key[2] = payment.payer
            /\ payment.key[3] = payment.code /\ payment.key[4] = payment.amount
        BY <2>1, <3>2, NewPaymentFields
      <4>2. \A i \in DOMAIN payments' : payments'[i] = payment \/ (i \in DOMAIN payments /\ payments'[i] = payments[i])
        BY <1>0, <3>2, <4>1
      <4>3. QED
        BY <4>1, <4>2 DEF UssdInv, KeyNamesPayment
    <3>3. QED
      BY <2>1, <3>1, <3>2
  <2>3. StartedIsKeyed'
    <3>1. ASSUME NEW d \in Caller, reply'[d].kind = "started"
          PROVE  Key(d, reply'[d].code, reply'[d].amount) \in Keys'
      <4>1. CASE d = c
        <5>1. reply'[c] = screen
          BY <1>0, <2>1 DEF TypeOK
        <5>2. QED
          BY <2>1, <3>1, <4>1, <5>1
      <4>2. CASE d # c
        <5>1. reply'[d] = reply[d]
          BY <1>0, <2>1, <4>2 DEF TypeOK
        <5>2. QED
          BY <2>1, <3>1, <5>1 DEF UssdInv, StartedIsKeyed
      <4>3. QED
        BY <4>1, <4>2
    <3>2. QED
      BY <3>1 DEF StartedIsKeyed, Key
  <2>4. QED
    BY <1>0, <2>2, <2>3 DEF UssdInv
<1>2. ASSUME UNCHANGED <<reply, payments>> PROVE UssdInv'
  BY <1>0, <1>2 DEF UssdInv, KeyNamesPayment, StartedIsKeyed, Keys
<1>3. QED
  BY <1>0, <1>1, <1>2, StepCases DEF vars

LEMMA ToldTrue == UssdInv => InitiatedIsTrue
<1>1. ASSUME UssdInv, NEW c \in Caller, reply[c].kind = "started"
      PROVE  \E i \in DOMAIN payments :
               /\ payments[i].payer = c.msisdn
               /\ payments[i].code = reply[c].code
               /\ payments[i].amount = reply[c].amount
  <2>1. PICK i \in DOMAIN payments : payments[i].key = Key(c, reply[c].code, reply[c].amount)
    BY <1>1 DEF UssdInv, StartedIsKeyed, Keys
  <2>2. QED
    BY <1>1, <2>1 DEF UssdInv, KeyNamesPayment, Key
<1>2. QED
  BY <1>1 DEF InitiatedIsTrue

\* Whoever is told that a payment was initiated has one, from their own number, to
\* the merchant and of the amount they were told, however sessions, ids, resends
\* and merchants change (the payer is in the key, ussd/session.py:231-238).
THEOREM ToldOnlyWhatIs == Spec => []InitiatedIsTrue
<1>1. QED
  BY UssdInit, UssdStep, ToldTrue, PTL DEF Spec

-----------------------------------------------------------------------------
(* The length of a session *)

LEMMA RoomStep ==
  ASSUME MaxDialled <= 3 * MaxAttempts, TypeOK, RoomForOneMore, [Next]_vars
  PROVE  RoomForOneMore'
<1>0. /\ text \in [Caller -> Seq(Entry)] /\ DOMAIN reply = Caller
      /\ {MaxAttempts, MaxDialled} \subseteq Nat
  BY UssdAssumption DEF TypeOK
<1>1. ASSUME NEW c \in Caller, NEW entries \in Seq(Entry), Handle(c, entries),
             Len(entries) <= 3 * MaxAttempts
      PROVE  RoomForOneMore'
  <2>1. text' = [text EXCEPT ![c] = entries] /\ reply' = [reply EXCEPT ![c] = ReadTill(entries)]
    BY <1>1, Handled
  <2>2. Continues(ReadTill(entries)) => Len(entries) < 3 * MaxAttempts
    BY TillRead
  <2>3. QED
    BY <1>0, <1>1, <2>1, <2>2 DEF RoomForOneMore, Continues
<1>2. ASSUME NEW c \in Caller, NEW entry \in Entry, Continues(reply[c])
      PROVE  Len(Append(text[c], entry)) <= 3 * MaxAttempts
  <2>1. Len(text[c]) < 3 * MaxAttempts /\ text[c] \in Seq(Entry)
    BY <1>0, <1>2 DEF RoomForOneMore
  <2>2. Len(Append(text[c], entry)) = Len(text[c]) + 1 /\ Len(text[c]) \in Nat
    BY <2>1
  <2>3. QED
    BY <1>0, <2>1, <2>2
<1>3. ASSUME NEW entries \in Seq(Entry), Len(entries) <= MaxDialled
      PROVE  Len(entries) <= 3 * MaxAttempts
  BY <1>0, <1>3
<1>4. \A c \in Caller : Len(text[c]) <= 3 * MaxAttempts
  BY DEF RoomForOneMore
<1>5. ASSUME UNCHANGED <<text, reply>> PROVE RoomForOneMore'
  BY <1>5 DEF RoomForOneMore, Continues
<1>6. QED
  BY <1>1, <1>2, <1>3, <1>4, <1>5, StepCases DEF vars

\* Whatever is keyed in, a session that is dialled with no more than what its
\* fields allow ends within three times the attempts, and one request to dial.
THEOREM SessionsAreShort ==
  ASSUME MaxDialled <= 3 * MaxAttempts
  PROVE  Spec => []StaysBelowLimit
<1>1. Init => RoomForOneMore
  BY UssdAssumption DEF Init, RoomForOneMore, NoScreen, Screen, Continues
<1>2. TypeOK /\ RoomForOneMore /\ [Next]_vars => TypeOK' /\ RoomForOneMore'
  BY TypeStep, RoomStep
<1>3. TypeOK /\ RoomForOneMore => StaysBelowLimit
  <2>1. ASSUME TypeOK, RoomForOneMore, NEW c \in Caller
        PROVE  Len(text[c]) + 1 <= 1 + 3 * MaxAttempts
    <3>1. Len(text[c]) \in Nat /\ Len(text[c]) <= 3 * MaxAttempts /\ MaxAttempts \in Nat
      BY <2>1, UssdAssumption DEF TypeOK, RoomForOneMore
    <3>2. QED
      BY <3>1
  <2>2. QED
    BY <2>1 DEF StaysBelowLimit
<1>4. QED
  BY InitType, <1>1, <1>2, <1>3, PTL DEF Spec

-----------------------------------------------------------------------------
(* One entry more *)

\* It is found only by a field that had found nothing.
LEMMA FoundInMore ==
  ASSUME NEW entries \in Seq(Entry), NEW entry \in Entry
  PROVE  LET more == Append(entries, entry)
             Finds(k, l) == IF k # 0 THEN l = k ELSE l \in {0, Len(entries) + 1}
         IN /\ Finds(SelectInSeq(entries, IsKnown), SelectInSeq(more, IsKnown))
            /\ Finds(SelectInSeq(entries, IsAmount), SelectInSeq(more, IsAmount))
<1> DEFINE more == Append(entries, entry)
           n == Len(entries)
           Finds(k, l) == IF k # 0 THEN l = k ELSE l \in {0, n + 1}
<1>1. n \in Nat /\ Len(more) = n + 1 /\ \A i \in 1 .. n : more[i] = entries[i]
  OBVIOUS
<1>2. ASSUME NEW I \in SUBSET (1 .. n), NEW J \in SUBSET (1 .. n + 1), \A i \in 1 .. n : i \in J <=> i \in I
      PROVE  Finds(FirstOf(I), FirstOf(J))
  <2>1. CASE I # {}
    <3>1. J # {} /\ Min(J) = Min(I)
      BY <1>1, <1>2, <2>1, MinOfMore
    <3>2. FirstOf(J) = FirstOf(I)
      BY <2>1, <3>1 DEF FirstOf
    <3>3. FirstOf(I) # 0
      BY <1>1, <1>2, <2>1, FirstIsGood
    <3>4. QED
      BY <3>2, <3>3
  <2>2. CASE I = {}
    <3>1. FirstOf(I) = 0
      BY <2>2 DEF FirstOf
    <3>2. FirstOf(J) \in {0, n + 1}
      BY <1>1, <1>2, <2>2, MinOfMore DEF FirstOf
    <3>3. QED
      BY <3>1, <3>2
  <2>3. QED
    BY <2>1, <2>2
<1>3. Finds(FirstOf(Tills(entries)), FirstOf(Tills(more)))
  <2>1. /\ Tills(entries) \in SUBSET (1 .. n) /\ Tills(more) \in SUBSET (1 .. n + 1)
        /\ \A i \in 1 .. n : i \in Tills(more) <=> i \in Tills(entries)
    BY <1>1 DEF Tills
  <2>2. QED
    BY <1>2, <2>1
<1>4. Finds(FirstOf(Amounts(entries)), FirstOf(Amounts(more)))
  <2>1. /\ Amounts(entries) \in SUBSET (1 .. n) /\ Amounts(more) \in SUBSET (1 .. n + 1)
        /\ \A i \in 1 .. n : i \in Amounts(more) <=> i \in Amounts(entries)
    BY <1>1 DEF Amounts
  <2>2. QED
    BY <1>2, <2>1
<1>5. QED
  BY <1>3, <1>4, Firsts

LEMMA RestOfMore ==
  ASSUME NEW entries \in Seq(Entry), NEW entry \in Entry, NEW k \in 0 .. Len(entries)
  PROVE  After(Append(entries, entry), k) = Append(After(entries, k), entry)
<1> DEFINE more == Append(entries, entry)
           n == Len(entries)
<1>1. /\ more \in Seq(Entry) /\ Len(more) = n + 1 /\ n \in Nat /\ k \in Nat
      /\ k \in 0 .. Len(more)
      /\ \A i \in 1 .. n : more[i] = entries[i] /\ more[n + 1] = entry
  OBVIOUS
<1>2. /\ After(more, k) \in Seq(Entry) /\ Len(After(more, k)) = n + 1 - k
      /\ \A i \in 1 .. n + 1 - k : After(more, k)[i] = more[k + i]
  <2>1. /\ After(more, k) \in Seq(Entry) /\ Len(After(more, k)) = Len(more) - k
        /\ \A i \in 1 .. Len(more) - k : After(more, k)[i] = more[k + i]
    BY <1>1, Rest
  <2>2. Len(more) - k = n + 1 - k
    BY <1>1
  <2> HIDE DEF more
  <2>3. QED
    BY <2>1, <2>2
<1>3. /\ After(entries, k) \in Seq(Entry) /\ Len(After(entries, k)) = n - k
      /\ \A i \in 1 .. n - k : After(entries, k)[i] = entries[k + i]
  BY Rest
<1> DEFINE longer == Append(After(entries, k), entry)
<1>4. /\ longer \in Seq(Entry) /\ Len(longer) = n - k + 1
      /\ \A i \in 1 .. n - k : longer[i] = After(entries, k)[i]
      /\ longer[n - k + 1] = entry
  BY <1>1, <1>3
<1>5. ASSUME NEW i \in 1 .. n + 1 - k PROVE After(more, k)[i] = longer[i]
  <2>1. CASE i \in 1 .. n - k
    <3>1. k + i \in 1 .. n
      BY <1>1, <2>1
    <3>2. After(more, k)[i] = more[k + i] /\ more[k + i] = entries[k + i]
      BY <1>1, <1>2, <3>1
    <3>3. longer[i] = After(entries, k)[i] /\ After(entries, k)[i] = entries[k + i]
      BY <1>3, <1>4, <2>1
    <3>4. QED
      BY <3>2, <3>3
  <2>2. CASE i = n - k + 1
    <3>1. k + i = n + 1 /\ After(more, k)[i] = more[k + i]
      BY <1>1, <1>2, <2>2
    <3>2. more[n + 1] = entry
      OBVIOUS
    <3>3. QED
      BY <1>4, <2>2, <3>1, <3>2
  <2>3. i \in 1 .. n - k \/ i = n - k + 1
    BY <1>1
  <2>4. QED
    BY <2>1, <2>2, <2>3
<1>6. Len(After(more, k)) = Len(longer) /\ Len(longer) = n + 1 - k
  BY <1>1, <1>2, <1>4
<1>7. QED
  BY <1>2, <1>4, <1>5, <1>6, SeqEqual

\* A started payment is the one the screen before it asked to confirm.
LEMMA AmountMore ==
  ASSUME NEW entries \in Seq(Entry), NEW entry \in Entry, NEW code,
         Continues(ReadAmount(code, entries)),
         ReadAmount(code, Append(entries, entry)).kind = "started"
  PROVE  \E amount \in Amount :
           /\ ReadAmount(code, entries) = Screen("confirm", code, amount)
           /\ ReadAmount(code, Append(entries, entry)) = Screen("started", code, amount)
<1> DEFINE more == Append(entries, entry)
           k == SelectInSeq(entries, IsAmount)
           l == SelectInSeq(more, IsAmount)
<1>1. more \in Seq(Entry) /\ Len(more) = Len(entries) + 1 /\ Len(entries) \in Nat
  OBVIOUS
<1>2. k \in 0 .. Len(entries) /\ l \in 0 .. Len(more) /\ (k # 0 => entries[k] \in Amount)
  BY <1>1, AmountFound
<1>3. IF k # 0 THEN l = k ELSE l \in {0, Len(entries) + 1}
  BY FoundInMore
<1>4. ~TooMany(entries, k) /\ ~TooMany(more, l)
  BY ScreenFields DEF ReadAmount, Continues
<1>5. l # 0
  BY <1>4, ScreenFields DEF ReadAmount
<1>6. ReadAmount(code, more) = ReadChoice(code, more[l], After(more, l))
  BY <1>4, <1>5 DEF ReadAmount
<1>7. After(more, l) \in Seq(Entry) /\ Len(After(more, l)) = Len(more) - l
  BY <1>1, <1>2, Rest
<1>8. Len(After(more, l)) >= 1
  BY <1>6, <1>7, ChoiceRead
<1>9. k # 0 /\ l = k
  BY <1>1, <1>2, <1>3, <1>5, <1>7, <1>8
<1>10. more[k] = entries[k]
  BY <1>1, <1>2, <1>9
<1>11. ReadAmount(code, entries) = ReadChoice(code, entries[k], After(entries, k))
  BY <1>4, <1>9 DEF ReadAmount
<1>12. ReadAmount(code, entries) = Screen("confirm", code, entries[k])
  <2>1. After(entries, k) \in Seq(Entry)
    BY <1>2, Rest
  <2>2. QED
    BY <1>11, <2>1, ChoiceRead DEF Continues
<1>13. ReadAmount(code, more) = Screen("started", code, entries[k])
  BY <1>6, <1>7, <1>9, <1>10, ChoiceRead
<1>14. QED
  BY <1>2, <1>9, <1>12, <1>13

LEMMA TillMore ==
  ASSUME NEW entries \in Seq(Entry), NEW entry \in Entry,
         Continues(ReadTill(entries)),
         ReadTill(Append(entries, entry)).kind = "started"
  PROVE  \E code \in Code, amount \in Amount :
           /\ ReadTill(entries) = Screen("confirm", code, amount)
           /\ ReadTill(Append(entries, entry)) = Screen("started", code, amount)
<1> DEFINE more == Append(entries, entry)
           k == SelectInSeq(entries, IsKnown)
           l == SelectInSeq(more, IsKnown)
<1>1. more \in Seq(Entry) /\ Len(more) = Len(entries) + 1 /\ Len(entries) \in Nat
  OBVIOUS
<1>2. k \in 0 .. Len(entries) /\ l \in 0 .. Len(more) /\ (k # 0 => entries[k] \in Code)
  BY <1>1, TillFound
<1>3. IF k # 0 THEN l = k ELSE l \in {0, Len(entries) + 1}
  BY FoundInMore
<1>4. ~TooMany(entries, k) /\ ~TooMany(more, l)
  BY ScreenFields DEF ReadTill, Continues
<1>5. l # 0
  BY <1>4, ScreenFields DEF ReadTill
<1>6. status[more[l]] = "active"
  <2>1. ASSUME status[more[l]] # "active" PROVE FALSE
    <3>1. ReadTill(more) = Screen("inactive", None, None)
      BY <1>4, <1>5, <2>1 DEF ReadTill
    <3>2. QED
      BY <3>1, ScreenFields
  <2>2. QED
    BY <2>1
<1>7. ReadTill(more) = ReadAmount(more[l], After(more, l))
  BY <1>4, <1>5, <1>6 DEF ReadTill
<1>8. After(more, l) \in Seq(Entry) /\ Len(After(more, l)) = Len(more) - l
  BY <1>1, <1>2, Rest
<1>9. Len(After(more, l)) >= 2
  BY <1>7, <1>8, AmountRead
<1>10. k # 0 /\ l = k
  BY <1>1, <1>2, <1>3, <1>5, <1>8, <1>9
<1>11. more[k] = entries[k]
  BY <1>1, <1>2, <1>10
<1>12. ReadTill(entries) = ReadAmount(entries[k], After(entries, k))
  BY <1>4, <1>6, <1>10, <1>11 DEF ReadTill
<1>13. /\ After(entries, k) \in Seq(Entry)
       /\ After(more, k) = Append(After(entries, k), entry)
  BY <1>2, Rest, RestOfMore
<1>14. PICK amount \in Amount :
         /\ ReadAmount(entries[k], After(entries, k)) = Screen("confirm", entries[k], amount)
         /\ ReadAmount(entries[k], After(more, k)) = Screen("started", entries[k], amount)
  BY <1>7, <1>10, <1>11, <1>12, <1>13, AmountMore
<1>15. QED
  BY <1>2, <1>7, <1>10, <1>11, <1>12, <1>14

-----------------------------------------------------------------------------
(* Paid as shown *)

\* The codes of the entries are as known as before.
LEMMA SameTill ==
  ASSUME NEW e \in Seq(Entry),
         \A i \in 1 .. Len(e) : IsKnown(e[i])' <=> IsKnown(e[i])
  PROVE  SelectInSeq(e, IsKnown)' = SelectInSeq(e, IsKnown)
<1>1. Tills(e)' = Tills(e)
  BY DEF Tills
<1>2. SelectInSeq(e, IsKnown)' = FirstOf(Tills(e)')
  BY DEF SelectInSeq, FirstOf, Tills
<1>3. QED
  BY <1>1, <1>2, Firsts

\* Only the till depends on the merchants: its amount and choice read alike.
LEMMA SameRest ==
  ASSUME NEW CONSTANT code, NEW CONSTANT rest
  PROVE  ReadAmount(code, rest)' = ReadAmount(code, rest)
BY DEF ReadAmount, ReadChoice, Screen, TooMany, After, SelectInSeq, IsAmount, IsChoice, Min

LEMMA SameReading ==
  ASSUME NEW CONSTANT e \in Seq(Entry), UNCHANGED status
  PROVE  ReadTill(e)' = ReadTill(e)
<1>1. PICK k : k = SelectInSeq(e, IsKnown)
  OBVIOUS
<1>2. SelectInSeq(e, IsKnown)' = k
  BY <1>1, SameTill DEF IsKnown
<1>3. ReadAmount(e[k], After(e, k))' = ReadAmount(e[k], After(e, k))
  BY SameRest
<1>4. QED
  BY <1>1, <1>2, <1>3 DEF ReadTill

LEMMA FirstNext ==
  ASSUME NEW CONSTANT c, NEW CONSTANT e, text'[c] = e
  PROVE  SelectInSeq(text[c], IsKnown)' = SelectInSeq(e, IsKnown)'
BY DEF SelectInSeq, IsKnown

LEMMA ReadNext ==
  ASSUME NEW CONSTANT c, NEW CONSTANT e, text'[c] = e
  PROVE  ReadTill(text[c])' = ReadTill(e)'
<1>1. PICK k : k = SelectInSeq(e, IsKnown)'
  OBVIOUS
<1>2. SelectInSeq(text[c], IsKnown)' = k
  BY <1>1, FirstNext
<1>3. /\ After(text[c], k)' = After(e, k)
      /\ TooMany(text[c], k)' <=> TooMany(e, k)
  BY DEF After, TooMany
<1>4. ReadAmount(e[k], After(text[c], k))' = ReadAmount(e[k], After(e, k))
  BY <1>3 DEF ReadAmount, ReadChoice, Screen, TooMany, After, SelectInSeq, IsAmount, IsChoice, Min
<1>5. QED
  BY <1>1, <1>2, <1>3, <1>4 DEF ReadTill

LEMMA CurrentStep ==
  ASSUME TypeOK, ScreenIsCurrent, [Next]_vars
  PROVE  ScreenIsCurrent'
<1>0. /\ text \in [Caller -> Seq(Entry)] /\ DOMAIN reply = Caller
      /\ dials \in [Caller -> 0 .. MaxDials] /\ edits \in 0 .. MaxEdits
      /\ {MaxDials, MaxEdits} \subseteq Nat
  BY UssdAssumption DEF TypeOK
<1>1. SUFFICES ASSUME edits' = 0, NEW d \in Caller
               PROVE  reply'[d] = IF dials'[d] = 0 THEN NoScreen ELSE ReadTill(text[d])'
  BY DEF ScreenIsCurrent, NoScreen, Screen
<1>2. PICK e \in Seq(Entry) : e = text[d]
  BY <1>0
<1>3. ASSUME edits = 0 PROVE reply[d] = IF dials[d] = 0 THEN NoScreen ELSE ReadTill(e)
  BY <1>2, <1>3 DEF ScreenIsCurrent
<1>4. ASSUME UNCHANGED <<status, edits>>, text'[d] = text[d], reply'[d] = reply[d], dials'[d] = dials[d]
      PROVE  reply'[d] = IF dials'[d] = 0 THEN NoScreen ELSE ReadTill(text[d])'
  <2>1. ReadTill(text[d])' = ReadTill(e)'
    BY <1>2, <1>4, ReadNext
  <2>2. ReadTill(e)' = ReadTill(e)
    BY <1>4, SameReading
  <2>3. QED
    BY <1>1, <1>3, <1>4, <2>1, <2>2
<1>5. ASSUME NEW c \in Caller, NEW entries \in Seq(Entry), Handle(c, entries), UNCHANGED <<status, edits>>,
             \/ dials' = [dials EXCEPT ![c] = dials[c] + 1]
             \/ Continues(reply[c]) /\ UNCHANGED dials
             \/ dials[c] > 0 /\ UNCHANGED dials
      PROVE  reply'[d] = IF dials'[d] = 0 THEN NoScreen ELSE ReadTill(text[d])'
  <2>1. text' = [text EXCEPT ![c] = entries] /\ reply' = [reply EXCEPT ![c] = ReadTill(entries)]
    BY <1>5, Handled
  <2>2. CASE d # c
    <3>1. text'[d] = text[d] /\ reply'[d] = reply[d] /\ dials'[d] = dials[d]
      BY <1>0, <1>5, <2>1, <2>2
    <3>2. QED
      BY <1>4, <1>5, <3>1
  <2>3. CASE d = c
    <3>1. text'[d] = entries /\ reply'[d] = ReadTill(entries)
      BY <1>0, <2>1, <2>3
    <3>2. ReadTill(text[d])' = ReadTill(entries)
      <4>1. ReadTill(text[d])' = ReadTill(entries)'
        BY <3>1, ReadNext
      <4>2. ReadTill(entries)' = ReadTill(entries)
        BY <1>5, SameReading
      <4>3. QED
        BY <4>1, <4>2
    <3>3. Continues(reply[d]) => dials[d] # 0
      BY <1>1, <1>3, <1>5, ScreenFields DEF NoScreen, Continues
    <3>4. dials'[d] # 0
      BY <1>0, <1>5, <2>3, <3>3
    <3>5. QED
      BY <3>1, <3>2, <3>4
  <2>4. QED
    BY <2>2, <2>3
<1>6. ASSUME edits' = edits + 1 PROVE FALSE
  BY <1>0, <1>1, <1>6
<1>7. QED
  BY <1>4, <1>5, <1>6, StepCases DEF vars

LEMMA ShownStep ==
  ASSUME MaxDialled <= 2, TypeOK, ScreenIsCurrent, [Next]_vars, edits' = 0,
         NEW c \in Caller, reply'[c].kind = "started", reply'[c] # reply[c]
  PROVE  reply[c] = [reply'[c] EXCEPT !.kind = "confirm"]
<1>0. /\ text \in [Caller -> Seq(Entry)] /\ DOMAIN reply = Caller
      /\ edits \in 0 .. MaxEdits /\ {MaxDialled, MaxEdits} \subseteq Nat
  BY UssdAssumption DEF TypeOK
<1>1. PICK d \in Caller, entries \in Seq(Entry) :
        /\ Handle(d, entries) /\ UNCHANGED edits
        /\ \/ Len(entries) <= MaxDialled
           \/ Continues(reply[d]) /\ \E entry \in Entry : entries = Append(text[d], entry)
           \/ dials[d] > 0 /\ entries = text[d]
  <2>1. reply' # reply /\ edits' # edits + 1
    BY <1>0
  <2>2. QED
    BY <2>1, StepCases DEF vars
<1>2. reply' = [reply EXCEPT ![d] = ReadTill(entries)]
  BY <1>1, Handled
<1>3. d = c /\ reply'[c] = ReadTill(entries)
  BY <1>0, <1>2
<1>4. Len(entries) >= 3
  BY <1>3, TillRead
<1>5. /\ dials[c] # 0 => reply[c] = ReadTill(text[c])
      /\ Continues(reply[c]) => reply[c] = ReadTill(text[c])
  BY <1>1, ScreenFields DEF ScreenIsCurrent, NoScreen, Continues
<1>6. PICK entry \in Entry : entries = Append(text[c], entry) /\ Continues(reply[c])
  BY <1>0, <1>1, <1>3, <1>4, <1>5
<1>7. PICK code \in Code, amount \in Amount :
        /\ ReadTill(text[c]) = Screen("confirm", code, amount)
        /\ ReadTill(entries) = Screen("started", code, amount)
  BY <1>0, <1>3, <1>5, <1>6, TillMore
<1>8. QED
  BY <1>3, <1>5, <1>6, <1>7 DEF Screen

\* A caller who dialled with no more than a till and an amount, as the QR does,
\* pays what the confirm screen showed, the same merchant and the same amount
\* (ussd/session.py:146-170), while no merchant changes.
THEOREM PaidAsShown ==
  ASSUME MaxDialled <= 2
  PROVE  Spec => PaysWhatWasShown
<1>1. Init => ScreenIsCurrent
  BY DEF Init, ScreenIsCurrent
<1>2. TypeOK /\ ScreenIsCurrent /\ [Next]_vars => TypeOK' /\ ScreenIsCurrent'
  BY TypeStep, CurrentStep
<1>3. TypeOK /\ ScreenIsCurrent /\ [Next]_vars =>
        [edits' = 0 => \A c \in Caller : reply'[c].kind = "started" /\ reply'[c] # reply[c] =>
           reply[c] = [reply'[c] EXCEPT !.kind = "confirm"]]_vars
  BY ShownStep
<1>4. QED
  BY InitType, <1>1, <1>2, <1>3, PTL DEF Spec, PaysWhatWasShown

-----------------------------------------------------------------------------
(* Paid once *)

LEMMA ReadsTheSame ==
  ASSUME NEW CONSTANT e \in Seq(Entry),
         \A i \in 1 .. Len(e) : IsKnown(e[i])' <=> IsKnown(e[i])
  PROVE  (TillIsRead(e)' <=> TillIsRead(e)) /\ AsRead(e)' = AsRead(e)
<1>1. PICK k : k = SelectInSeq(e, IsKnown)
  OBVIOUS
<1>2. SelectInSeq(e, IsKnown)' = k
  BY <1>1, SameTill
<1>3. ReadAmount(e[k], After(e, k))' = ReadAmount(e[k], After(e, k))
  BY SameRest
<1>4. QED
  BY <1>1, <1>2, <1>3 DEF TillIsRead, AsRead, TooMany

LEMMA AsReadNext ==
  ASSUME NEW CONSTANT c, NEW CONSTANT e, text'[c] = e
  PROVE  (TillIsRead(text[c])' <=> TillIsRead(e)') /\ AsRead(text[c])' = AsRead(e)'
<1>1. PICK k : k = SelectInSeq(e, IsKnown)'
  OBVIOUS
<1>2. SelectInSeq(text[c], IsKnown)' = k
  BY <1>1, FirstNext
<1>3. After(text[c], k)' = After(e, k)
  BY DEF After
<1>4. ReadAmount(e[k], After(text[c], k))' = ReadAmount(e[k], After(e, k))'
  BY <1>3 DEF ReadAmount, ReadChoice, Screen, TooMany, After, SelectInSeq, IsAmount, IsChoice, Min
<1>5. QED
  BY <1>1, <1>2, <1>3, <1>4 DEF TillIsRead, AsRead, TooMany

LEMMA SettledNext ==
  ASSUME NEW CONSTANT c, NEW CONSTANT e \in Seq(Entry), text'[c] = e,
         \A i \in 1 .. Len(e) : IsKnown(e[i])' <=> IsKnown(e[i]),
         TillIsRead(e), AsRead(e).kind = "started",
         Key(c, AsRead(e).code, AsRead(e).amount) \in Keys',
         ~Continues(reply'[c])
  PROVE  Settled(c)'
<1>1. TillIsRead(text[c])' /\ AsRead(text[c])' = AsRead(e)
  BY ReadsTheSame, AsReadNext
<1>2. ~Continues(reply[c])'
  BY DEF Continues
<1>3. Key(c, AsRead(text[c]).code, AsRead(text[c]).amount)' = Key(c, AsRead(e).code, AsRead(e).amount)
  BY <1>1 DEF Key
<1>4. QED
  BY <1>1, <1>2, <1>3 DEF Settled

\* A text reads as the end of the session at the till, or as what it asks for.
LEMMA ReadWithTill ==
  ASSUME NEW e
  PROVE  /\ ReadTill(e).kind = "started" => TillIsRead(e) /\ AsRead(e) = ReadTill(e)
         /\ TillIsRead(e) => ReadTill(e) = AsRead(e) \/ ReadTill(e).kind = "inactive"
BY ScreenFields DEF ReadTill, TillIsRead, AsRead

\* A new payment is counted for the caller of the request alone.
LEMMA OpensOwn ==
  ASSUME TypeOK, NEW c \in Caller, NEW d \in Caller, NEW code \in Code, NEW amount \in Amount,
         payments' = Append(payments, NewPayment(c, code, amount)), Opens(d)
  PROVE  d = c
<1>1. Last(payments') = NewPayment(c, code, amount)
  BY NewPaymentFields DEF TypeOK, Last
<1>2. d.session = c.session /\ d.msisdn = c.msisdn
  BY <1>1, NewPaymentFields DEF Opens
<1>3. QED
  BY <1>2 DEF Caller

\* A caller whose session has not started one yet.
LEMMA FirstPayment ==
  ASSUME UssdInv, NEW c \in Caller, NEW entries \in Seq(Entry), Handle(c, entries), UNCHANGED status,
         opened'[c] = IF Opens(c) THEN 1 ELSE 0
  PROVE  OnceFor(c)'
<1>1. SUFFICES ASSUME Opens(c) PROVE Settled(c)'
  BY DEF OnceFor
<1>2. /\ text' = [text EXCEPT ![c] = entries] /\ reply' = [reply EXCEPT ![c] = ReadTill(entries)]
      /\ ReadTill(entries).kind = "started"
      /\ Key(c, ReadTill(entries).code, ReadTill(entries).amount) \in Keys'
  BY <1>1, Handled DEF UssdInv, Opens
<1>3. text'[c] = entries /\ reply'[c] = ReadTill(entries)
  BY <1>2 DEF UssdInv, TypeOK
<1>4. TillIsRead(entries) /\ AsRead(entries) = ReadTill(entries)
  BY <1>2, ReadWithTill
<1>5. QED
  BY <1>2, <1>3, <1>4, SettledNext DEF Continues, IsKnown

\* A caller whose text is sent again.
LEMMA SentAgain ==
  ASSUME UssdInv, NEW c \in Caller, OnceFor(c), Handle(c, text[c]), UNCHANGED <<status, joined>>,
         opened[c] # 0, opened[c] \in Nat, opened'[c] = opened[c] + (IF Opens(c) THEN 1 ELSE 0)
  PROVE  OnceFor(c)'
<1>1. PICK e \in Seq(Entry) : e = text[c]
  BY DEF UssdInv, TypeOK
<1>2. text' = [text EXCEPT ![c] = e] /\ reply' = [reply EXCEPT ![c] = ReadTill(e)] /\ Keys \subseteq Keys'
  BY <1>1, Handled DEF UssdInv
<1>3. text'[c] = e /\ reply'[c] = ReadTill(e)
  BY <1>2 DEF UssdInv, TypeOK
<1>4. SUFFICES ASSUME ToSet(e) \cap joined = {} PROVE opened'[c] = 1 /\ Settled(c)'
  BY <1>3 DEF OnceFor, ToSet
<1>5. /\ opened[c] = 1 /\ TillIsRead(e) /\ AsRead(e).kind = "started"
      /\ Key(c, AsRead(e).code, AsRead(e).amount) \in Keys
  BY <1>1, <1>4 DEF OnceFor, Settled
<1>6. ReadTill(e) = AsRead(e) \/ ReadTill(e).kind = "inactive"
  BY <1>5, ReadWithTill
<1>7. payments' = payments
  BY <1>1, <1>5, <1>6, Handled DEF UssdInv
<1>8. ~Continues(reply'[c])
  BY <1>3, <1>5, <1>6 DEF Continues
<1>9. Settled(c)'
  BY <1>2, <1>3, <1>5, <1>8, SettledNext DEF IsKnown
<1>10. QED
  BY <1>5, <1>7, <1>9 DEF Opens

\* A caller who sent nothing, whatever happened to merchants and to others.
LEMMA OthersStay ==
  ASSUME UssdInv, NEW c \in Caller, OnceFor(c), text'[c] = text[c], reply'[c] = reply[c],
         opened'[c] = opened[c], Keys \subseteq Keys', joined \subseteq joined',
         ToSet(text[c]) \cap joined' = {} =>
           \A i \in 1 .. Len(text[c]) : IsKnown(text[c][i])' <=> IsKnown(text[c][i])
  PROVE  OnceFor(c)'
<1>1. PICK e \in Seq(Entry) : e = text[c]
  BY DEF UssdInv, TypeOK
<1>2. SUFFICES ASSUME ToSet(e) \cap joined' = {}, opened[c] # 0 PROVE opened[c] = 1 /\ Settled(c)'
  BY <1>1 DEF OnceFor, ToSet
<1>3. /\ opened[c] = 1 /\ TillIsRead(e) /\ AsRead(e).kind = "started"
      /\ Key(c, AsRead(e).code, AsRead(e).amount) \in Keys /\ ~Continues(reply[c])
  BY <1>1, <1>2 DEF OnceFor, Settled
<1>4. \A i \in 1 .. Len(e) : IsKnown(e[i])' <=> IsKnown(e[i])
  BY <1>1, <1>2 DEF IsKnown
<1>5. QED
  BY <1>1, <1>3, <1>4, SettledNext

LEMMA OnceStep == ASSUME OnceInv, [MCNext]_<<vars, joined, opened>> PROVE OnceInv'
<1>0. /\ UssdInv /\ TypeOK /\ UssdInv' /\ joined \subseteq Code /\ opened \in [Caller -> Nat]
      /\ \A c \in Caller : OnceFor(c)
  BY UssdStep DEF OnceInv, MCNext, UssdInv, vars
<1>1. ASSUME UNCHANGED <<vars, joined, opened>> PROVE OnceInv'
  <2>1. ASSUME NEW c \in Caller PROVE OnceFor(c)'
    BY <1>0, <1>1, OthersStay DEF vars, IsKnown, Keys
  <2>2. QED
    BY <1>0, <1>1, <2>1 DEF OnceInv
<1>2. ASSUME MCNext PROVE OnceInv'
  <2> DEFINE New == {code \in Code : status[code] = "unknown" /\ status'[code] # "unknown"}
  <2>1. /\ [Next]_vars /\ joined' = joined \cup New
        /\ \A d \in Caller : opened'[d] = (IF dials'[d] = dials[d] THEN opened[d] ELSE 0)
                                           + (IF Opens(d) THEN 1 ELSE 0)
        /\ opened' \in [Caller -> Nat]
    BY <1>0, <1>2 DEF MCNext
  <2>2. joined' \subseteq Code /\ joined \subseteq joined'
    BY <1>0, <2>1
  <2>3. SUFFICES ASSUME NEW d \in Caller PROVE OnceFor(d)'
    BY <1>0, <2>1, <2>2 DEF OnceInv
  <2>4. OnceFor(d) /\ opened[d] \in Nat /\ text[d] \in Seq(Entry)
    BY <1>0 DEF TypeOK
  <2>5. ASSUME NEW c \in Caller, NEW entries \in Seq(Entry), Handle(c, entries), UNCHANGED status,
               \/ dials' = [dials EXCEPT ![c] = dials[c] + 1]
               \/ Continues(reply[c]) /\ UNCHANGED dials /\ \E entry \in Entry : entries = Append(text[c], entry)
               \/ UNCHANGED dials /\ entries = text[c]
        PROVE  OnceFor(d)'
    <3>1. /\ text' = [text EXCEPT ![c] = entries] /\ reply' = [reply EXCEPT ![c] = ReadTill(entries)]
          /\ Keys \subseteq Keys'
          /\ payments' # payments =>
               \E code \in Code, amount \in Amount : payments' = Append(payments, NewPayment(c, code, amount))
      BY <1>0, <2>5, Handled
    <3>2. joined' = joined
      BY <2>1, <2>5
    <3>3. dials \in [Caller -> 0 .. MaxDials] /\ MaxDials \in Nat
      BY <1>0, UssdAssumption DEF TypeOK
    <3>4. CASE d # c
      <4>1. text'[d] = text[d] /\ reply'[d] = reply[d] /\ dials'[d] = dials[d]
        BY <1>0, <2>5, <3>1, <3>4 DEF TypeOK
      <4>2. ~Opens(d)
        <5>1. ASSUME Opens(d) PROVE FALSE
          <6>1. PICK code \in Code, amount \in Amount : payments' = Append(payments, NewPayment(c, code, amount))
            BY <3>1, <5>1 DEF Opens
          <6>2. QED
            BY <1>0, <3>4, <5>1, <6>1, OpensOwn
        <5>2. QED
          BY <5>1
      <4>3. opened'[d] = opened[d]
        BY <2>1, <2>4, <4>1, <4>2
      <4>4. QED
        BY <1>0, <2>4, <2>5, <3>1, <3>2, <4>1, <4>3, OthersStay DEF IsKnown
    <3>5. CASE d = c /\ (dials'[c] # dials[c] \/ opened[c] = 0)
      <4>1. opened'[c] = IF Opens(c) THEN 1 ELSE 0
        BY <2>1, <3>5
      <4>2. QED
        BY <1>0, <2>5, <3>5, <4>1, FirstPayment
    <3>6. CASE d = c /\ dials'[c] = dials[c] /\ opened[c] # 0 /\ entries = text[c]
      <4>1. opened'[c] = opened[c] + (IF Opens(c) THEN 1 ELSE 0)
        BY <2>1, <3>6
      <4>2. QED
        BY <1>0, <2>4, <2>5, <3>2, <3>6, <4>1, SentAgain
    <3>7. CASE d = c /\ opened[c] # 0 /\ Continues(reply[c]) /\ \E entry \in Entry : entries = Append(text[c], entry)
      <4>1. PICK entry \in Entry : entries = Append(text[c], entry)
        BY <3>7
      <4>2. text'[c] = Append(text[c], entry) /\ text[c] \in Seq(Entry)
        BY <1>0, <3>1, <4>1 DEF TypeOK
      <4>3. ToSet(text[c]) \subseteq ToSet(text'[c])
        <5>1. ASSUME NEW i \in DOMAIN text[c] PROVE text[c][i] \in ToSet(text'[c])
          <6>1. i \in DOMAIN text'[c] /\ text'[c][i] = text[c][i]
            BY <4>2, <5>1
          <6>2. QED
            BY <6>1 DEF ToSet
        <5>2. QED
          BY <5>1 DEF ToSet
      <4>4. ToSet(text[c]) \cap joined # {}
        BY <2>4, <3>7 DEF OnceFor, Settled
      <4>5. QED
        BY <3>2, <3>7, <4>3, <4>4 DEF OnceFor, ToSet
    <3>8. dials' = [dials EXCEPT ![c] = dials[c] + 1] => dials'[c] # dials[c]
      BY <3>3
    <3>9. QED
      BY <2>5, <3>4, <3>5, <3>6, <3>7, <3>8
  <2>6. ASSUME NEW code \in Code, NEW after \in Status, status' = [status EXCEPT ![code] = after],
               after # "unknown", UNCHANGED <<text, reply, payments, dials>>
        PROVE  OnceFor(d)'
    <3>1. opened'[d] = opened[d] /\ Keys' = Keys
      BY <2>1, <2>4, <2>6 DEF Opens, Keys
    <3>2. ASSUME ToSet(text[d]) \cap joined' = {}, NEW i \in 1 .. Len(text[d])
          PROVE  IsKnown(text[d][i])' <=> IsKnown(text[d][i])
      <4>1. PICK entry : entry = text[d][i]
        OBVIOUS
      <4>2. entry \notin joined'
        BY <2>4, <3>2, <4>1 DEF ToSet
      <4>3. entry \in Code => (status'[entry] # "unknown" <=> status[entry] # "unknown")
        BY <1>0, <2>1, <2>6, <4>2 DEF TypeOK
      <4>4. QED
        BY <2>6, <4>1, <4>3 DEF IsKnown
    <3>3. QED
      BY <1>0, <2>2, <2>4, <2>6, <3>1, <3>2, OthersStay
  <2>7. ASSUME UNCHANGED vars PROVE OnceFor(d)'
    <3>1. opened'[d] = opened[d] /\ Keys' = Keys
      BY <2>1, <2>4, <2>7 DEF Opens, Keys, vars
    <3>2. QED
      BY <1>0, <2>2, <2>4, <2>7, <3>1, OthersStay DEF IsKnown, vars
  <2>8. QED
    BY <1>0, <2>1, <2>5, <2>6, <2>7, StepCases
<1>3. QED
  BY <1>1, <1>2

\* A session starts one payment at most, however often its steps are sent again
\* (ussd/session.py:231-238), unless an entry that was skipped as a typo has got
\* its merchant meanwhile.
THEOREM OncePerSession == MCSpec => []ConfirmedOnce
<1>1. MCInit => OnceInv
  BY UssdInit DEF MCInit, OnceInv, OnceFor
<1>2. OnceInv /\ [MCNext]_<<vars, joined, opened>> => OnceInv'
  BY OnceStep
<1>3. OnceInv => ConfirmedOnce
  <2>1. ASSUME OnceInv, NEW c \in Caller, ToSet(text[c]) \cap joined = {} PROVE opened[c] <= 1
    <3>1. opened[c] \in Nat /\ (opened[c] # 0 => opened[c] = 1)
      BY <2>1 DEF OnceInv, OnceFor
    <3>2. QED
      BY <3>1
  <2>2. QED
    BY <2>1 DEF ConfirmedOnce
<1>4. QED
  BY <1>1, <1>2, <1>3, PTL DEF MCSpec
=============================================================================
