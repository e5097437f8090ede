# TLA+ models of DRC Pay

DRC Pay lets a merchant in the DRC be paid by mobile money. A customer's deposit
is collected through pawaPay, the merchant is paid out net of the operators'
charges, and the customer is refunded if the payout fails; payer and merchant of
one operator pay each other directly and the merchant's word settles the payment.
These modules model the backend (`src/backend/src/drc_pay_api`, called `api/`
below) at the grain at which its threads can interleave: one access to the store,
the ledger or the rail is one step, and so is every database transaction.

How to run (in this directory): `tlasany M.tla` parses, `tlc -config X.cfg M`
checks the run X on its module, `tlapm M.tla` checks the proofs. `PROJECT.json`
lists the runs, the source lines each definition stands for, the hazards the
properties are aimed at, a mutant for every property, and the theorems.

## 1. The system

### Scheduling

One uvicorn process (`Dockerfile`, `docker-compose.yml`). Synchronous routes run
in a pool of threads and overlap; the pawaPay webhook is an async route and runs
on the event loop, so two callbacks do not overlap; the reconciliation loop
(`api/main.py:60-99`) runs a sweep in a thread every interval, and the demo
route `POST /demo/reconcile` can start another. The staff command line is a
process of its own, and so is the seed every release runs before the server
starts. They share a SQL database, in which every store call is one transaction:
there is no lock and no `SELECT ... FOR UPDATE`, and no transaction spans two store
calls. What the threads of the server share besides is in its memory and unlocked:
the login throttles, the USSD limiter and, without pawaPay credentials or without a
database, the simulator's operations and the stores themselves.

### Inventory

| Component | State | Operations | Meets | What makes it correct |
|---|---|---|---|---|
| Transaction state machine (`domains/transactions/state_machine.py`) | none: ten states and a table | `can_transition`, classes of states | everyone who saves a row | stored rows move along the table only |
| Routed orchestrator (`domains/transactions/orchestrator.py`) | a handler's copy of the row | start, deposit, payout and refund results | store, ledger, rail | each leg is posted once and only if it happened; a payout and a refund exclude each other; row and ledger agree; collected money comes to rest |
| Outcome applier, webhook, sweep (`application/outcomes.py`, `application/webhooks.py`, `jobs/reconciliation/sweep.py`) | the sweep's worklist | callback, poll, skip | orchestrator, pawaPay | an outcome delivered twice, late, out of order or never is applied once |
| pawaPay rail (`integrations/pawapay/`) | operations at pawaPay, by derived op-id | deposit, payout, refund, status | orchestrator, sweep | a duplicate request moves no money twice |
| Ledger, money, pricing (`domains/ledger`, `domains/money`, `domains/transactions/pricing.py`) | entries | record, cost, fee, format | orchestrator | books balance, clearing drains, refunds are whole |
| On-net payment (`domains/transactions/on_net.py`) | row | start, confirm, deny | merchant routes, ledger | booked once, only when received |
| Starting a payment (`application/payments.py`, `http/merchant_api.py:97-167`) | row with unique key | create or find | both payment kinds, USSD, charges | a key charges once and answers its owner |
| Charges (`domains/charges`, `http/public_routes.py:178-258`) | link to a transaction | create, pay, derived status | starting a payment | paid once, status is true |
| Merchant onboarding and login (`application/onboarding.py`, `domains/auth`) | merchants, credentials, sessions | sign up, approve, reject, login, logout, expiry | staff routes | unapproved merchants are inert, codes and usernames are unique |
| Staff accounts and sessions (`application/staff_accounts.py`, `domains/staff`, `create_staff.py`) | credentials, sessions | create, upsert, remove, login, logout, expiry | command line | nobody removed stays in, never all removed |
| USSD (`ussd/session.py`, `http/ussd_routes.py`) | none: the aggregator's accumulated text | one request | starting a payment, merchants | pays once, what was shown, for the caller |
| Configuration and boot (`config.py`, `container.py`, `main.py`, `seed.py`) | the process: rail, store, callback key | boot, stop, scheduled and manual sweep, callback | rail, stores | a deployment forgets nothing; no release on another rail makes up an outcome; payments heal without callbacks |
| Simulator (`integrations/pawapay/simulator.py`, `http/demo_routes.py`) | statuses in memory | accept, status, play out | orchestrator, sweep | answers only for its own operations |
| Login throttles (`domains/auth/service.py`, `domains/staff/service.py`) | failures per username, in memory | record, clear, lock | login | locks after so many failures in a row, and only then |
| SQL adapters (`adapters/sql.py`) | the tables, unique and foreign keys | get, save, find | everyone | - |

Behaviours that are hard to test, each at its line in PROJECT.json "hazards":
check-then-act between two database transactions (outcomes, on-net confirmation,
pay, removal of staff, sign-up); a stale whole-row save; the second driver of a
leg meeting pawaPay's answer to a duplicate; process death between a state, the
rail request, the op-id and the posting; lost and resent callbacks; the rounding
and precision of amounts; rates that change between two legs; the USSD text read
again and again against a table that changes; releases that come up with another
rail, store or key than the payments in the database began with; a failure counter
that threads read and write without a lock.

## 2. Modules

| Module | Models | Composed with |
|---|---|---|
| `TxStateMachine` | the ten states, the table, the state classes, the legs and their states | extended by every module of routed payments |
| `PaymentSpine` | routed payment: request threads, webhook, sweeps, store, ledger, pawaPay, crashes | |
| `SpineProperties` | its properties and the inductive invariant | extends `PaymentSpine` |
| `MoneyPromise` | abstract: where a payment's money is and what the books say | |
| `SpineRefinement`, `MCSpine` | refinement mapping; instance for TLC | `MoneyPromise` |
| `RoutedBooks`, `MCBooks` | amounts and postings of one routed payment; the published rates | |
| `OnNet`, `MCOnNet` | the on-net payment; its instance with a history | |
| `StartPayment` | idempotent creation of a payment | stands before `PaymentSpine` and `OnNet` |
| `Charges`, `MCCharges` | charges and their payments; instance with a history | stands before `StartPayment` |
| `Merchants`, `MCMerchants` | sign-up, decisions, login; instance with histories | |
| `LoginThrottle` | one entry of a failed-login throttle | extended by `Staff` |
| `Staff`, `MCStaff` | accounts, sessions, throttled login, command line, seed; instance with an observer of one username | |
| `Deploy` | settings, boot and stop, rail and store of the process, a handler save by save, callback keys, simulator, scheduled and manual sweep | one handler of `PaymentSpine` at a time, without its postings |
| `Ussd`, `MCUssd` | the dialogue; instance with histories | uses what `StartPayment` promises |
| `SpineProofs` | theorems of the spine for any threads, and for one, among them the refinement | extends `SpineRefinement` |
| `StartProofs` | theorems of starting a payment | extends `StartPayment` |
| `ReleaseProofs` | what a release cannot spoil: payments across deployments, books across changes of the rates | extends `Deploy` and `RoutedBooks` |
| `OnNetProofs`, `ChargesProofs`, `MerchantsProofs`, `StaffProofs`, `UssdProofs` | theorems of the component, with the histories of its instance | extend `MCOnNet`, `MCCharges`, `MCMerchants`, `MCStaff`, `MCUssd` |

### State and actions against the code

**PaymentSpine.** `rows[t]` is the transactions table: state and the set of legs
whose op-id is on the row. `postings[t][leg]` counts the ledger postings of a leg,
`rail[t][leg]` is pawaPay's operation; op-ids derive from (transaction, leg), so
(t, leg) names it. A thread has a place in its handler (`pc`), the leg it drives
(`job`) and the copy of the row that `store.get` returned (`mem`), written back
WHOLE by `store.save` (`Save`). `StartTransaction` is the first save, `Begin` the
transition to a pending state saved before the rail is called,
`RequestAccepted`/`RequestRejected`/`RequestRaises` the three ends of a rail call,
`StoreOpId` the save after it. `ReceiveCallback` and `SweepPoll` find a row by
op-id; `Guard` is `apply_outcome`'s check, `Load` the second read inside the
handler, `Resolve` the transition to the outcome's state, `PostLeg` the posting,
after which a collected payment goes on to its payout in the same handler and a
failed payout to its refund. `SweepBegin`/`SweepSkip` are the worklist snapshot
and the polls that find nothing. `RailSettles` is pawaPay. `Crash` empties every
thread and keeps database and pawaPay. Amounts are absent here: no branch of the
handlers depends on them except the precision error, which is one cause of
`RequestRaises` and is modelled with its amounts in `RoutedBooks`.

**RoutedBooks.** One payment's `amount`, `fee`, operators and the five account
balances; an action per handler outcome, posting what it posts. `rates` is the
running release's table, `Reprice` a deployment.

**OnNet.** `Confirm` is the route's check, `Load`, `Book`, `Resolve` are
`on_confirm` in the order of the code: posting before transition.

**StartPayment.** `Replay` is the route's lookup, `Recheck` that of
`start_merchant_payment`, `Insert` the insert with its unique constraint, `Raced`
the lookup after `DuplicateIdempotencyKey`, `Start` what `PaymentSpine` and
`OnNet` detail, `Fetch` the fenced answer. `answers` is a history variable.

**Charges.** `link` is the charge's transaction, `rows` the transactions' states,
`paying` a history variable: the charge a payment was started for. `Progress` is
everything that moves a started payment along the table, as `PaymentSpine` and
`OnNet` do.

**Merchants, Staff.** A thread's place and locals; one action per store call;
unique and foreign keys are in the save operators (`SaveCredential`,
`SaveMerchant`, `SaveSession`, `Delete`). In `Merchants` a login starts when the
password is verified; in `Staff` it starts before that (`Login`), because
the verification takes long enough for others to pass the throttle's check. `Right`
forgets the failures, `Wrong` and `Record` are the read and the write of
`_record_failure`, and `read` is the count in between. Which password an account has
matters to nothing else here, so that a save leaves the username only. The threads of
`CliThreads` are command lines, each a process; `SeedDemo` is the seed of a release, in
a process of its own that may run between any two steps of the others; `Restart` is the
end of the web process, which empties the throttle.

**LoginThrottle.** An entry is the count and the ticks its lockout still has. The
services of merchants and staff have the same lines; `Staff` checks them.

**Deploy.** `Boot` takes any settings, refuses what `create_app` and
`build_container` refuse (`Bootable`) and makes of the rest a process: its
environment, whether its store is the database, its rail and the key it verifies
callbacks with (`CallbackKeys`, where a fetch may fail). `table` and `rail` survive
`Stop`, `memory` and `simulated` do not. A row carries, for each leg, the rail it
was requested on, which the code keeps as the form of the op-id (`sim-...`).
`work` is the handler that runs: the leg it drives and the place it has reached. Its
steps are those of the orchestrator, a commit or a rail call each: `Pay` inserts the
row, `Begin` saves the pending state, `RequestAccepted`, `RequestRefused` and
`RequestRaises` are the ends of the rail call, `StoreOpId` saves the op-id, `Resolve`
the outcome's state, after which the next leg begins; on a simulator `Pay` may go on
through all outcomes (`play_out`). `Stop` falls between any two of them and
`RequestRaises` ends the handler where it is: `cut` remembers those payments, and
`Stranded` says which of them nothing takes on. `Apply` is `apply_outcome`, which lets a
handler go on from an outcome; `Callback`, `ReconcileLoop` and `DemoReconcile` are the
three ways to it. Postings are left to `PaymentSpine` and `RoutedBooks`.

**Ussd.** `text` is the accumulated input, `reply` the last screen. `ReadTill`,
`ReadAmount` and `ReadChoice` read the input from the start, `Handle` is one
request. An entry is a model value; which entries are codes or amounts is a
constant, because the parsing of a string is a table lookup to the dialogue. A code
has no merchant, an active one or one that is not (pending, rejected and suspended
read alike); `SignUp`, `Approve` and `Reject` move it between requests. `MCUssd` keeps
which codes got a merchant while sessions ran (`joined`) and how many payments each
caller's present session started (`opened`).

## 3. Runs

Two kinds of instance alternate. Where handlers do not overlap (`spine_serial`:
one thread plays every role) the code is what its tests exercise, and the strong
promises hold. Where they overlap, the runs separate what still holds from what
needs the handlers to be alone: `MCOnNet` and `MCCharges` keep a history variable,
`disturbed`, of the payments or charges that two requests worked on at once or
over which one died, and promise more for all others; `MCMerchants` keeps the
usernames two sign-ups wanted at once, and `MCStaff` whether logins of the watched
username overlapped and whether the removals of two accounts did.

For the spine the runs split concurrency and faults: `spine_live` interleaves
handlers without faults, `spine_serial` injects faults into handlers that do not
overlap. Both at once are covered by the theorems of `SpineProofs`, which state
the properties of `spine_live` for any threads and any faults.

| Run | Shows |
|---|---|
| `spine_serial` | two payments, two faults: each leg booked once, payout and refund exclude each other, rows follow the table, refinement of `MoneyPromise`; the books are never ahead of the row, nothing is paid out or refunded of an unbooked deposit, and each fault puts one payment at most out of lock-step or out of the sweep's reach |
| `spine_live` | request thread, webhook and sweep overlap on a payment: the ledger never claims a movement that did not happen, nobody is paid or refunded before the collection, rows tell the truth about money, refunds name their deposit; although callbacks may all be lost, every payment is resolved, collected money comes to rest and the books of a payment whose handlers did not overlap catch up |
| `race_books_twice` | violation: webhook and sweep post one leg twice |
| `fault_strands_money` | violation: a handler cut short leaves collected money that nothing moves on |
| `books` | every operator pair, amounts around rounding and whole-unit boundaries: trial balance, drained clearing, whole refunds |
| `onnet` | three overlapping requests, two crashes: paid implies booked; an undisturbed payment is booked once, and not when denied |
| `start` | two requests at a time on one key or none, one fault: charged once, also by retries of a request that died or raised, and answers are the merchant's own |
| `charges` | two overlapping pays, one fault: a charge never shows another's payment; an undisturbed one is paid once and shows it |
| `staff` | two web threads, two command lines, seed and restart: without an account only when two removals had both counted, sessions have accounts, the watched username is locked exactly when its undisturbed failures say so |
| `deploy` | four releases under any settings, stopped between any two saves, two rotations of the key, one payment: a deployment forgets nothing, a payment that began at pawaPay is paid or refunded by pawaPay, a live service resolves what it finds without any callback, unless a stop or a raise cut the handler off before the awaited op-id was saved |
| `merchants` | two overlapping requests, one crash: pending merchants are inert, codes name one merchant, an uncontested sign-up has its login |
| `ussd` | two callers under one session id while merchants sign up and are decided on: paid once unless a typo of theirs became a till, as shown while no merchant changes, within the attempts, told the truth |

`spine_serial` has a type invariant; the other modules' `TypeOK` state the types of
their variables and were left out of the runs for properties that say more: each is
proved, as the theorem `TypeCorrect` of its proof module or as a part of an invariant
there. Adding one to a cfg checks it.

### Disagreements between the code and what it says

`race_books_twice` and `fault_strands_money` each check one statement of the
repository that the code contradicts (PROJECT.json "findings" quotes both sides).
The models reach more of them; each is reproduced by the variation in the last
column, which no listed run makes.

| Statement contradicted | Behaviour | Variation |
|---|---|---|
| the money moves once (`rail.py:9`) | the second driver of a payout is refused as a duplicate, takes it for a failed payout and refunds | `race_books_twice.cfg` with INVARIANT `MoneyGoesOneWay` |
| only legal transitions are possible (`state_machine.py:5`) | a stale copy is saved over a newer state | the same with PROPERTY `RowsFollowTable` |
| a pending state maps to an outstanding op-id (`state_machine.py:67`) | a handler is cut short between the two saves | in `spine_serial`, `PendingHasOpId(t)` for every quiet `t` |
| state machine and ledger in lock-step (`orchestrator.py:4`) | a crash between state and posting | the same with `InLockStep(t)` |
| clearing drains to zero (`orchestrator.py:193`) | the payout's posting recomputes costs with newer rates | `books.cfg` with INVARIANT `Drained` |
| automatic refund if the settlement fails (`orchestrator.py:4-6`) | a net amount the operator cannot express raises | reach stage `payout_raised` in `books` |
| re-confirming is a no-op (`merchant_api.py:178`); not received, no money moved (`on_net.py:103`) | a confirmation overlaps another, or a denial, or is retried after a crash | `BookedOnce`, `DeniedIsUnbooked` for all of `Tx` in `MCOnNet` |
| key already processed (`merchant_api.py:134`) | a request died before the deposit, its key is replayed | reach a replay of an `initiated` row in `start` |
| a processing charge is closed; status is true (`charges/models.py`) | two pays overlap; a start raises after the deposit request | `ChargedOnce`, `StatusIsTrue` for all of `Created` in `MCCharges` |
| refuses to remove the last account (`staff_accounts.py:105`) | two command lines remove at once | in `staff`, `Accounts # {}` |
| five consecutive failures lock a username for a minute (`auth/service.py:13-16`) | overlapping logins lose increments; a late write puts an old count back and unlocks the name | `BrakeHolds` without `~disturbed` |
| demo controls are never allowed in production (`container.py:167-169`) | a production without pawaPay credentials boots on the simulator, where they are enabled | reach `process.environment = "production"` with `DemoControls` in `deploy` |
| the webhook rejects everything when no live rail is set (`config.py:27`) | with a configured key it takes a callback of an earlier release and drives the next leg on the simulator | `RealMoneyMoved` and `LoopHeals` without `mixed` |
| the sweep self-heals (`sweep.py:7`) | a release stops, or a call raises, between pending state and op-id: no later process polls the payment | `LoopHeals` without `Stranded` |
| creates merchant and login (`onboarding.py:74`) | two sign-ups want one username; a crash between the two saves | `EveryMerchantHasLogin` without its provisos |
| never retargets the payment silently (`session.py:153-155`) | an unknown code becomes a merchant mid-session | `PaysWhatWasShown` without `edits' = 0` |
| no request may double-charge on a retry (`payments.py:103`) | the same, then the confirm step is resent: below | `ConfirmedOnce` without `joined` |

The last one in full: a caller keys in `c2`, which nobody has, then `c1`, an amount
and 1, and a payment to `c1` starts. A merchant signs up, is given the code `c2` and
is approved. The aggregator, whose request timed out, sends the confirm step again:
the same text now reads as till `c2` and asks for the next entry that parses as an
amount, `c1` if it does, and the key of that payment is another one. It takes a merchant
who signs up and is approved before the resend.

### Bounds, and why they are enough

- `MaxBoots` = 4 and `MaxRotations` = 2 in `deploy`: a payment can begin on pawaPay, be
  cut off, go on in a release on the simulator, be cut off there and be found by another
  one, under a key that changed before or after. One payment: payments share the thread
  and the settings, no row and no operation. The theorems need neither bound.
- `MaxFailures` = 2 and `Lockout` = 1 in `staff` against 5 failures and 60 s: a
  count below, at and beyond the limit and a lockout before and after its end.
- Transactions: one in the spine's races, two where handlers are serial. Handlers
  of different transactions share no row, posting or operation; a second
  transaction matters for the sweep's worklist, which the serial runs cover, and
  for uniqueness, for which `StartPayment` and `Charges` have two or three.
- Threads: one request thread, the event loop and a sweep. The request thread
  creates the row and is alone on it until pawaPay knows of it; two are left to
  drive a leg at once, and two suffice for every violation found. The theorems of
  `SpineProofs` are about any number.
- `MaxFaults` (crashes and raising rail calls): 1 or 2 where handlers are serial; a
  fault followed by the retry of what it interrupted is reached with one, two cut off
  payments, or one payment twice, with two.
- `Amounts` in `books`: negative, zero, the amounts on both sides of a change of
  the floor at 3 % (33, 34), fractions and whole francs. The theorems need none.
- `Id`, `Token`, `MaxSaves` in `staff`: two accounts, two command lines and one session
  are what removals, a login and a creation can meet over. Two saves let creations,
  upserts and the seed come between any two steps of the others, and the seed bring
  back an account that was removed. The cfg's CONSTRAINT `OthersDoNotFail` lets wrong passwords be entered
  under the watched name only: each name has an entry of its own in the throttle. The
  theorems of `StaffProofs` need no bound and have no constraint.
- `Merchant` in `merchants`: three let one be decided on while two sign up.
- `MaxAttempts` in `ussd` is 2 against the code's 3: the reader treats every miss
  but the last alike, and a session can still miss and recover in every field.
  `MaxDialled` = 2 is what a QR or dial string fills in (`ussd/session.py:18-20`);
  `MaxDials` = 1 keeps two whole dialogues in reach, `MaxEdits` = 2 a sign-up with its
  approval. In the run every entry parses as an amount, so that codes are
  interchangeable; misses on the amount field are covered by the theorems of
  `UssdProofs`, which take any entries, amounts and bounds.
- Symmetry is used where ids are only compared for equality and only safety is
  checked (`MCOnNet`, `MCCharges`, `MCMerchants`, `MCStaff`, `MCUssd`).
- Deadlock checking is off: a model ends when ids, dials or faults are used up,
  as the system does when nobody asks anything of it.

### Fairness

`spine_live`, `fault_strands_money` and `deploy` assume some. In `deploy` a handler
goes on (WF on `HandlerStep`), the scheduled sweep reaches a payment it can resolve (WF
on `ReconcileLoop`) and pawaPay settles what it accepted; no boot, callback, demo button
or accepted request is owed, nor a raise, which is why `LoopHeals` is about a service
that stays up on the live rail. In the spine a thread
inside a handler is scheduled (WF on `HandlerStep`): it is an OS thread or a
coroutine that never waits for another handler. A sweep is started again and again (WF on `SweepBegin`):
`main.py`'s loop catches every exception of a pass and sleeps the interval.
pawaPay finishes what it accepted (WF on `RailSettles`). A poll may fail any
number of times, but a final status that is pollable again and again is read
eventually (SF on `SweepPoll`; WF would not do, because a skipped item leaves the
worklist until the next pass). Nothing is owed by callbacks (they may all be
lost), by customers (no request need come) or by faults; `RequestRaises` is an
action of its own so that fairness never forces one.

## 4. Proofs

Every theorem holds for any number of threads, payments, accounts, callers, inputs
and faults, and all values of the constants that meet the named ASSUMEs
(`SpineAssumption`, `BooksAssumption`, `StartAssumption`, `DeployAssumption`,
`OnNetAssumption`, `ChargesAssumption`, `MerchantsAssumption`, `StaffAssumption`,
`UssdAssumption`): bounds are naturals, null values are none of the values they stand
beside, whole-unit and on-net operators are operators, rates are naturals, merchant
ids are finitely many. Two more belong to instances with a history:
`ThreadPoolAssumption` (`MCOnNet`, `MCStaff`), the pool of threads is finite, and
`WatchedAssumption` (`MCStaff`), the watched username is one. TLC evaluates all of
them. Where a theorem needs more it says so: all threads are one (the serial theorems
of the spine), a dial string of two
entries (`PaidAsShown`) or of no more than the session allows (`SessionsAreShort`).

A property that needs its handlers to be alone is proved the same way in every
component. The named property is not inductive: it speaks of rows and postings, and
the next step depends on what threads carry in memory. The strengthening says, for
what nobody disturbed, that at most one thread is at work on it and that this thread's
copy is the row; then the row and the thread's place determine everything.

**SpineProofs.** `Inv == TypeOK /\ SpineInv /\ PostingsBacked /\ PayOnlyCollected
/\ RowsTellTheTruth`. `SpineInv` says what a busy thread knows. It is either
*Starting* its transaction - alone on it, its copy is the row, the deposit not yet
requested or just accepted - or *Driving* one whose deposit's op-id is on the row and,
if it holds a copy, on the copy. That split is what keeps a stale save from erasing the
op-id of the deposit and what keeps the starter's rejected deposit from overwriting a
collected payment. What a driver holds is *Truthful*: truth about money is stable
(pawaPay's final states are final), so saving an old copy cannot make a row lie.
From this: `TypeCorrect`, `PostingsAreBacked`, `OnlyCollectedIsPaid`,
`RowsAreTrue`, `RefundsNameTheirDeposit`. One lemma per action; `Frame` and
`OtherThread` carry the threads an action does not move.

Its second part is about handlers that do not overlap. Every theorem there assumes
`Serial` - all threads are one - and nothing else, so it covers any number of payments
and faults. `SerialInv` is the strengthening. With one thread the copy of a busy
handler is the row as it left it (`SerialThread`), so the row determines everything
(`SerialRow`): a leg that has not begun has no operation and no posting, the leg the
handler is on is booked or not by the place it has reached, legs before it are booked
at most once, and a payout that pawaPay refused or failed never completes, which is
what excludes paying and refunding. From it `BookedOnceSerially`, `OneWaySerially` and
`PromiseKeptSerially`: under the mapping of `SpineRefinement` every step of the spine is
a step of `MoneyPromise` or none.

What a crash or a raising call may break is counted. A row is *whole* (`WholeRow`) if its
booked states are posted or being posted and its awaited leg has its op-id or is being
requested. `FaultsCut` says that all rows but those of a set of at most `faults` payments
are whole: a step of a handler keeps the set, for it keeps whole rows whole (`CutStep`),
and a fault cuts off the one handler there is and adds its payment (`SerialCrash`). With
`SerialInv` it gives `LockStepSerially` and `PollableSerially`, both about histories with
any number of crashes and raising calls.

**ReleaseProofs.** `DeployInv`: a process outside a local environment has a durable
store, a payment is in one store only, an unmixed row that began at pawaPay has no leg
on a simulator (`LiveRow`), and a handler requests a deposit for an untouched row only
and drives what began at pawaPay on the live rail, with the outcome pawaPay knows
(`WorkInv`). The last two are what `RealMoneyMoved` lacks to be inductive: a simulator
answers for the legs it was asked for, so a row without such legs is out of its reach.
From it `NothingForgottenEver` and `RealMoneyOnly`. `BooksInv` relates the balance of a
routed payment to stage, amount, fee and, as long as the rates did not change, to the
costs. From it `BooksBalance`, `ClearingDrains` and `RefundMakesWhole`, for every
amount and rate table.

**StartProofs.** `Inv == TypeOK /\ OneRowPerKey /\ AnswersAreOwn`; `OneRowPerKey`
says that a key is on one row, that only started rows are charged, and that a
starting thread alone holds its own unstarted row. From it `OneRow`, `ChargesOnce`
and `AnswersTheOwner`.

**OnNetProofs.** `BookedFirst` (a thread about to save the payment as paid has posted
it) makes `PaidIsBooked` inductive, for any overlap and crash: `PaidStaysBooked`.
`HistoryInv` adds, for undisturbed payments, the lone thread's copy and how often it
has posted by its place. From it `BookedOnceUndisturbed` and
`DeniedUnbookedUndisturbed`.

**ChargesProofs.** A thread past the start holds a payment of its own charge that
nobody else holds (`HoldsOwnPayment`), so no link names another charge's payment:
`ShowsItsOwn`. Under the history, what claims an undisturbed charge - the payments
started for it and not declined - is the linked payment, nothing, or the one the lone
thread just started, by its place (`WorksAlone`): `ChargedOnceUndisturbed` and
`StatusIsTrueUndisturbed`.

**MerchantsProofs.** `ActiveIsApproved` also covers the thread that has passed the
activity gate and not yet opened its session: `UnapprovedStayInert`. A decision saves
the whole merchant back with the code it read, which is still its code
(`HoldsItsCode`), and a sign-up's new code was found free by the unique constraint:
`OneMerchantPerCode`. For `SignUpGivesLogin` the histories are invariants themselves:
two sign-ups with one username are contested and an uncontested one's username stays
free until its own credential is saved (`ContestsNoticed`, `SavesWhatWasAsked`).

**StaffProofs.** `NoOrphanSession` rests on the foreign key, seen from both sides.
`SomebodyCanSignIn`, for any number of command lines: as long as no two accounts were
ever on their way out at once, a removal that passed the count leaves somebody else
(`RaceInv`) until it deletes, for everybody else only adds. `BrakeIsExact`: while logins
of the watched username do not overlap, what a thread read is still what the dictionary holds
(`CountsWhatHappened`), so the dictionary holds the observer's count and time. After an
overlap the observer starts again from the first entry without failures.

**UssdProofs.** First the reader. It looks for the first good entry of each field;
`FirstIsGood` and `MinOfMore` say what a first is and what one more entry does to it.
From them what a text of any length reads as (`TillRead`, `AmountRead`,
`ChoiceRead`): a session that goes on has less than its fields' attempts, a started
payment has at least three entries; and `TillMore`: an entry that starts a payment
follows a confirm screen with the same till and amount. Then the dialogue.
`KeyNamesPayment` and `StartedIsKeyed` give `ToldOnlyWhatIs`: what a caller was told is
looked up by a key that has their number in it. `RoomForOneMore` gives
`SessionsAreShort`. While no merchant changed, the last screen is what the text reads
now (`ScreenIsCurrent`); with `TillMore` that is the action property `PaidAsShown`.
`OncePerSession`: a session that has started its payment is over, and its text reads
as that payment, which its key finds, or as an inactive till (`Settled`); a merchant
who signs up under a code that is not in the text does not change what it reads
(`SameTill`).

Only model-checked: liveness (`LoopHeals` of `deploy` and the eventualities of
`spine_live`), which needs fairness and ENABLED that the prover does not handle. No
module declares a RECURSIVE operator.

## 5. Assumptions and what is left out

- A store's `save` (select, then update or insert, one commit) is one step. SQLAlchemy
  updates the columns in which the copy differs from the row it has just selected, so
  the row becomes the copy, as in `Save`, unless another save commits in between: then a
  column in which copy and selected row agreed keeps the other's value. Such a row has
  one save's state and op-ids of both; whole-row saves of the two in either order have
  either state with fewer op-ids, and what is claimed under overlaps (`RowsTellTheTruth`,
  `RefundNamesDeposit` and what threads know, `SpineInv`) asks of the state column that
  some copy had it and of the op-ids only that the deposit's is there.
- pawaPay's answer to a fresh op-id other than ACCEPTED means it did not take the
  operation; the answer to an op-id it knows is a duplicate that moves nothing.
  The unreadable answer the client maps to UNKNOWN is listed as an uncovered
  hazard.
- The lookups of one USSD request are one step (milliseconds apart, in one
  request), while merchants change between requests.
- Tokens, transaction ids and op-ids never collide (uuid4, uuid5, `secrets`).
- Cryptography in `Deploy` is the comparison of keys: a callback is accepted when
  the process holds the key pawaPay signed with. One outside its 300 s window, or over
  another body, is refused, which equals a callback that never came.
- The in-memory store hands out the objects it holds; that two handlers then share
  one object instead of copies is left out, as a local environment serves one
  developer. Of the in-memory stores only the transactions are modelled.
- The clock of the throttle is a tick that ages every entry; a lockout is a number
  of ticks.

Not modelled: the USSD rate limiter (a lost update of its dictionary costs a
request more or less, and the caller dials again); seeded demo merchants, which a
release saves over whatever was decided on them; that a bootstrap administrator with
a name but no password makes the seed create neither it nor the demo one; the
simulator's `scenario` and `defer` are choices of `Pay`, not inputs; basic auth,
headers and static pages; `predict_provider`, which changes no state; parsing of
amounts and phone numbers; frontends, migrations and documents.

## 6. Plan

Done, in this order: the routed payment and its promise, its arithmetic, its
proofs; starting a payment and its proofs; on-net; charges; staff; merchants; USSD;
the throttle; deployment and its proofs; the serial theorems of the spine; the
proofs of on-net payments, charges, merchants, staff and USSD.

Next models:
1. The USSD rate limiter (`http/ussd_routes.py:55-90`): shared dictionary, sweep of
   idle callers, at most the limit in a window.
2. A composition of `Charges` with `StartPayment`, charges as its clients.
3. Demo merchants and their seed in `Merchants`.

Next theorems: every safety property of the runs but `RowsFollowTable` is stated by a
theorem. Open are: a payment of the spine whose handlers never overlapped, beside
others whose did (what `MCOnNet` does with its history), and with the composition of
2. the charge that is paid under one key.
