# Formal verification of the travel booking services

TLA+ models of the services in `src/src`, checked with TLC and, in part, proved
with TLAPS.  The system sells one seat of a flight to one customer: the booking
service holds the seat (flight service), creates a payment (payment service)
and, when the payment succeeds, has the seat committed.  Each service has its
own PostgreSQL database, calls the others over HTTP and sends events through an
outbox table and RabbitMQ.  There is no distributed transaction, so what makes
the system correct is the order in which rows, locks, messages and timers meet.
That is what is modelled here.

## The system

| Component | State | Operations | Talks to | Should hold |
| --- | --- | --- | --- | --- |
| flight: seat inventory (`flight/src/data/repositories/seatRepository.ts`) | the `seat` rows: state, hold token, hold expiry, booking id | create, reserve with or without a hold, commit, release, sweep expired holds, repair the inventory | called by booking over HTTP; commit and release come as messages | a live hold is its token's; a committed seat is its booking's until released; a release is final |
| flight: message consumers | `flight_processed_message` | register a message id, then run the statement | `SeatCommitRequested`, `SeatReleaseRequested` from booking | each message takes effect once, in any order |
| flight: flights, their list, the seeder (`create-flight.ts`, `get-flights.ts`, `data-seeder.ts`) | `flight`, `seat`, `aircraft` rows | create a flight with its seats, create a seat, reconcile missing seats, seed at start, list | the booking page | one flight per number and day; every flight has its cabin; what is listed, shown, offered and accepted agree |
| booking: checkout (`create-booking.ts`) | a `booking` row, an idempotency record, one active booking per user and flight | expire stale bookings, reserve, insert, create the payment, store its id, record the key, undo | HTTP to flight, passenger and payment | a failed or abandoned checkout leaves nothing behind; one active booking; one answer per key |
| booking: payment consumers, cancellation, pending sweeper, seat commit reconciler | the `booking` row under its row lock, the outbox, the processed messages | confirm, expire, cancel, commit, compensate | events of payment; messages to flight and payment | who has paid gets the seat or the money back |
| payment: intents, confirmation, reconciliation, wallet, scheduler, refunds | `payment_intent`, attempts, refunds, idempotency records, wallet and ledger, top-up requests | create, confirm, reconcile a bank transfer, pay from the wallet, expire, refund, review top-ups | events to booking; refund requests from booking | a payment is settled, charged, announced and refunded once |
| outbox dispatchers, RabbitMQ connection and subscriber (`building-blocks/rabbitmq`) | outbox rows, channels, consumer registrations | publish and mark, retry, reconnect, acknowledge or dead-letter | all services | each recorded message is applied at most once and not lost; the consumer comes back |
| identity users and the passenger projection | `user`, `passenger` rows, processed messages | create, update, delete, repair; apply a user event | `UserCreated`, `UserUpdated` | the projection ends with the newest user data |
| identity tokens and the session of a tab (`axios-instance.ts`, `AuthProvider.tsx`) | `token` rows; the pair of tokens in the store, the queue behind a refresh | log in, refresh, validate, log out; renew after a 401, on a timer, on load | the guard of every service asks identity | a refresh token is used once; every request ends; nobody is signed out without a cause |
| frontend: the booking page (`CreateBookingPage.tsx`) | the step, the checkout it holds, what it polls | submit, pay, poll, sync, resume | booking and payment over HTTP | a paid user is told so; a resumed booking is paid with its own payment |
| rate limiter, health, internal signatures, validation | counters in Redis, per request | - | - | - |
| the other pages, deployments | - | - | - | - |

The hard behaviours: handlers with several awaits around unlocked reads; row
locks held across HTTP calls; an HTTP call that takes effect and whose reply is
lost; messages that are published twice, late and out of order; consumers that
dead-letter a message at the first error (`rabbitmq-subscriber.ts:195`); a
connection that is lost while its consumers are being registered; timers that
race with all of this; agents of one browser tab that renew the same single-use
token; and two transactions where one would be needed
(`seat-release-requested.consumer.ts:23`).  `PROJECT.json` lists every one of
them at its line, with the properties aimed at it, or the reason why there is none.

## Modules

```
SeatRepository ----EXTENDS---- SeatInventory ----EXTENDS---- SeatInventoryProofs
      |
      | INSTANCE (Token <- Booking)
      v
 BookingSaga ------EXTENDS---- BookingSagaProofs
      ^
      | INSTANCE (Payment <- Booking)
      |
PaymentLifecycle <--refines-- Payments ----EXTENDS---- MCPayments, PaymentsProofs

Delivery <--refines-- MessageRelay ----EXTENDS---- RelayProofs

UserSync (on the promise of Delivery) ----EXTENDS---- UserSyncProofs

Checkout ----EXTENDS---- CheckoutProofs     Session ----EXTENDS---- SessionProofs

SeatLayout ----EXTENDS---- FlightCatalog ----EXTENDS---- MCFlightCatalog, FlightCatalogProofs
```

- **SeatRepository**: one seat row and the statements that change it, as pure
  operators (`HeldSeatValues`, `CommittedRow`, `ReleasedRow`, `SweptRow`, ...).
  `SeatInventory` and `BookingSaga` share them, so both run the same SQL.
- **SeatInventory**: the seat table, the HTTP routes that write it, the sweeper,
  and the two consumers, each in two steps (`Register` commits the message id,
  `CommitSeat` or `ReleaseSeat` runs the statement).  The booking service is the
  client the code makes it: it asks for commits and releases of what it holds,
  in any order and number.  Messages stay in `sent`: they can be delivered late
  and again.
- **PaymentLifecycle**: the contract of the payment service for one payment:
  how its status may change and which event each change writes.  The constants
  `LateSettlement` and `StaleExpiry` add the two changes that only a race makes
  possible.
- **Payments**: the payment service itself.  A transaction that locks the row is
  one action, an unlocked read before it is an action of its own
  (`ConfirmLookup`, `ConfirmRead`, `ReconcileCheck`, `CheckTopupRequest`).
  `Contract` instantiates `PaymentLifecycle` under a refinement mapping, and
  `ContractSpec` is checked as a property.
- **BookingSaga**: the checkout across the services.  Payments are their
  contract and seats the operators of `SeatRepository`; bookings, the checkout
  request step by step, the consumers, cancellation, the sweeper and the
  reconciler are modelled in full.  The reconciler reads the seat
  (`ReadSeatState`) and decides (`ReconcileSeatCommit`) in two steps under the
  row lock, as its HTTP call makes it.  Messages are counted, so their order is
  free.  The constant `Faults` switches each unlikely event on.
- **Checkout**: the same checkout from the side of one user: several requests
  with any idempotency keys and flights, each in the steps of
  `CreateBookingHandler` (`LookupKey`, `ExpireStale`, `FindActive`, `Insert`,
  `CreateIntent`, `LinkPayment`, `SaveRecord`, `Undo`), and the tab whose booking
  page sends them, polls, syncs and resumes.  What happens to a seat is in
  `BookingSaga`; here a reservation has an answer and no state.  A payment goes
  through every status the page tells apart: FAILED and PROCESSING are one
  (`stalled`), from which it can still be settled, and `RacedPayment` settles one
  that expired or overwrites one that was settled.  The page polls only what it
  saw as PENDING (`PollPayment`); its buttons read the payment in any status
  (`RefetchPayment`).  A page that is hidden pauses its polling, and reads that fail
  are tried again: here a page that polls is read in the end.
- **Delivery**: what a service may expect of a message it records in its outbox:
  applied at most once by a queue; sooner or later applied, dead-lettered, or
  dropped because no subscriber had declared the queue yet.
- **MessageRelay**: how that comes about: the dispatcher with its batch and its
  back-off, the publication with a confirm, the queue, and the subscriber with
  its connection, its channels, the overlapping runs of `ensureConsumer`, and a
  handler that checks, commits and acknowledges, possibly on a channel that is
  gone.  `DeliverySpec` is the refinement.
- **UserSync**: a user in identity and its copy in the passenger service, with
  the two queues `UserCreated` and `UserUpdated` handled at the same time.  It
  stands on `Delivery`: events arrive in any order and are applied once.
- **Session**: the token rows of a user, a tab with its interceptor and its
  provider, a second tab and other devices.  Each tab has a pair of tokens in
  memory (`held`, `other`); every `set()` writes that pair to the local storage
  the tabs share (`stored`), and a load of the page reads it from there
  (`Reload`, `OpenOther`).  A call of the second tab and the `set()` after it are one
  step, but for the user it fetches when it is opened, which may arrive after
  anything the first tab does (`OtherFetched`).
- **SeatLayout**, **FlightCatalog**: the cabins of the aircraft models, of which
  the service and the web app keep a copy each; flights and their seats, from the
  endpoints and the seeder; the four places that compute the state of a flight.
- **SeatInventoryProofs**, **PaymentsProofs**, **BookingSagaProofs**,
  **CheckoutProofs**, **FlightCatalogProofs**, **RelayProofs**, **UserSyncProofs**,
  **SessionProofs**: theorems, see below.

Operators whose name has a suffix (`Settled_NoRefund`, `Sufficient_Any`,
`Missing_ByRow`) and whose comment starts with "Fault:" are plausible bugs.  No
specification uses them; put in place of the operator they vary, each makes a
property fail, which is how we know that the property looks at that code.

Time is a small integer.  `Tick` advances it up to `MaxTime`; a hold of
`holdExpiresAt = t` is live before `t` and expired from `t` on, as in the
statements.  In `FlightCatalog` a slot is a quarter of a day and in `Session` a
second.

## What the runs show

| Run | Instance | Properties |
| --- | --- | --- |
| `seat_inventory` | 1 seat, 2 tokens, 2 bookings, 2 messages, 1 lost handler | `LiveHoldIsProtected`, `ObservedCommitStays`, `ReleaseIsFinal`, `HoldsEnd`, `RequestedReleaseFreesSeat` |
| `payments_wallet` | 2 payments, 2 bank transactions, 2 top-ups, a clock read one tick before the lock | `SettledOnce`, `ChargedOnce`, `WalletIsExplained`, `NoOverdraft` |
| `payments_races` | 1 payment, 2 confirmations with 2 keys, 1 bank transaction, the wallet, the scheduler | `OneAttemptPerKey`, `ContractSpec`, `PaymentsAreDecided` |
| `saga_faults` | 1 checkout, all faults | `MoneyFollowsBooking`, `PendingBookingsEnd`, `ReopenedOnlyByItsCheckout` |
| `saga_contention` | 2 checkouts and an outside reservation for 1 seat | `CommittedBookingOwnsSeat`, `PaidIsHonoured` |
| `saga_compensation` | 1 checkout, late settlement, slow reconciler | `PaidIsAccountedFor`, `PaidIsHonoured`, `ReleasedBookingFreesSeat`, `ReleaseFreesForGood` |
| `checkout` | 2 requests of one user, 2 flights, any keys, one tab, 1 fault or raced payment | `OneActiveBooking`, `OneAnswerPerKey`, `PaidIsShown` |
| `relay` | 1 outbox row, 5 channels, 2 overlapping runs of `ensureConsumer`, 2 faults | `DeliverySpec`, `RegistrationIsLive`, `NoMessageIsLost`, `ConsumersReturn` |
| `user_sync` | 1 user, 2 overlapping updates, a deletion, a repair, 4 events, 1 dead letter, 3 clock values | `AgreesWhenQuiet`, `Converges`, `MissingOnlyIfDead`, `FreshnessLostOnlyToRaces` |
| `session` | 2 requests of a tab, its timer, a second tab on the same local storage, other devices, 3 seconds, 3 things done, 1 fault | `SessionsAreEarned`, `RequestsEnd`, `SignedOutForCause` |
| `catalog` | 2 requests, 2 models, 1 seed, a day in two calendars, 1 crash or failed query | `ListingAgrees`, `ReconcileReportsTruth`, `OneFlightPerDay` |

One run is expected to find a violation, which `PROJECT.json` lists under
`findings`:

- `checkout_wrong_payment` (`ResumedPaymentIsTheBookings`): `activePaymentId`
  (`CreateBookingPage.tsx:203`) prefers the payment of the checkout the page still
  holds to that of the booking in the address.  A user who goes back to review,
  submits another flight and is sent to an existing booking of it sees that
  booking with the payment of the earlier one, and pays it.

Other behaviour the models have, because the code has it, and which the
properties are stated around:

- `updateBooking` writes the status the booking had when it was inserted.  With
  the fault `slow_checkout`, a booking that is cancelled, or whose hold lapses,
  while its request still runs becomes PENDING_PAYMENT again after its seat was
  released (`create-booking.ts:281`).  Nothing in the code prevents it: a plain
  cancellation from another tab is enough.  `ReopenedOnlyByItsCheckout` says with
  that fault and all the others that nothing else reopens a closed booking, and
  that a reopened one has had no refund asked for.  `ReleaseFreesForGood` and
  `ReleasedBookingFreesSeat` fail with that fault, and no other.
- A checkout that dies between creating the payment and storing its id
  (`checkout_crash`, `lost_reply`) leaves a payable payment no booking knows; its
  `PaymentSucceeded` is dead-lettered (`payment-succeeded.consumer.ts:61`), so
  `PaidIsAccountedFor` and
  `PaidIsHonoured` fail with those faults.
- When cancelling cannot read the payment (`payment_lookup`) it goes on without a
  refund (`cancel-booking.ts:160`): both fail with that fault too.
- With `slow_reconciler` the reconciler reads a live hold, the commit runs, the
  hold's expiry passes, and the reconciler cancels the booking without releasing
  the seat (`booking-seat-commit-reconciler.service.ts:88`, `:128`): the seat stays
  booked, and only what was requested to be released is freed
  (`ReleasedBookingFreesSeat`).
- A handler that stops after registering its message and before its statement
  loses the message (`seat-release-requested.consumer.ts:23`).
  `RequestedReleaseFreesSeat` excepts exactly those messages (`Lost`).
- A bank transfer checked before, and credited after, the scheduler expired the
  payment settles an EXPIRED payment (`reconcile-manual.ts:161`): the contract
  holds only with `LateSettlement`.  The saga is checked with it, and refunds.
- A late confirmation can save EXPIRED over a settlement committed since it read
  the row (`confirm-payment.ts:151`): the contract holds only with `StaleExpiry`
  where this race is possible (`ConfirmationRaces`).  `SettledOnce` and
  `ChargedOnce` are stated without it.
- That confirmation writes no `PaymentExpired`, and the scheduler does not look
  at EXPIRED payments: booking learns of it only from its own sweeper.
- The limit of pending top-ups is counted in one statement and the request
  inserted in another (`wallet.ts:359`): it is not a limit, and no property says
  that it is.
- Two refreshes that validate one token before either removes it both get a new
  session (`refresh-token.ts:51-61`): `SessionsAreEarned` counts them (`doubled`).
  The three agents of a browser that renew tokens know nothing of one another,
  so the slower one is refused and signs the user out (`SignedOutForCause`).
  Each `set()` of a tab stores the pair of that tab (`auth.store.ts:97`).  A tab whose
  user arrives after the other tab renewed the pair puts the older one back, and
  the next load of a page presents a token that was used already: the user is
  signed out, and `restored` is the cause `SignedOutForCause` gives.
  Any failure of the introspection becomes a 401 (`jwt.guard.ts:86`), any failure
  to load the user signs out (`AuthProvider.tsx:47`), and `isRefreshing` stays set
  when there was no refresh token (`axios-instance.ts:74`) until the page is loaded
  again.
- A booking page that reads its payment as FAILED, PROCESSING or EXPIRED does not
  ask again (`CreateBookingPage.tsx:244`).  When such a payment is settled after all,
  by a bank transfer after a declined card (`reconcile-manual.ts:161`), the user learns
  of it only from "Recheck payment", a wallet payment or a reload.  `PaidIsShown` promises
  nothing to a page that has stopped asking.
- Two user events handled at once can leave the older data, though each compares
  `sourceUpdatedAt` (`update-user.ts:52`); the repair tool mends it (`Converges`).
  The time of an update is read before its transaction (`misordered`).
- A message published before a subscriber first declared its queue is dropped by
  the broker after it was confirmed (`Drop` in `Delivery`), and an answer on a
  channel that has closed ends the subscriber's process
  (`AnswerOnClosedChannel`).  `docs/02-protocol-choice.md:76` gives each queue one
  consumer channel; overlapping runs of `ensureConsumer` can leave a consumer on
  an older channel too.
- The seeder dates flights by the server's calendar and the list starts with the
  business day of Vietnam: a seeded flight can leave the list while it can still
  be booked (`BookableIsListed` says which cannot).  A reconciliation that runs
  beside another may report FAILED although no seat is missing
  (`reconcile-missing.ts:102`); FIXED and SKIPPED are true.
- `SeatCreated` and `FlightCreated` are published after the commit, without an
  outbox (`create-flight.ts`); nothing consumes them.

### Bounds

Each bound is a constant in a guard: `MaxTime`, `MaxCrashes` and `MessageId` in
SeatInventory; `MaxTime`, `MaxEvents` and `MaxLockWait` in Payments; `MaxTime`,
`MaxEvents` and `MaxCopies` in BookingSaga; `MaxFaults` in Checkout and
MessageRelay; `MaxTime`, `MaxEvents` and `MaxDead` in UserSync; `MaxTime`,
`MaxWork` and `MaxFaults` in Session; `MaxTime`, `MaxWork`, `MaxFlights` and
`MaxFaults` in FlightCatalog.

- Two ticks are enough for a hold to lapse and be followed by another; the saga
  with one booking has three.  Two messages are a commit and a release in either
  order, or one of them twice; the proofs cover any number.  `MaxCopies = 2` lets
  the reconciler send a commit while one is under way.  A payment event repeats
  only where the code repeats it (a wallet payment tried on an EXPIRED payment);
  once is enough to deliver it after the booking moved on.  One seat is enough
  because every statement names one seat, and checkouts interact only on the
  seat they share.
- Two requests of one user are one that finds what the other wrote, or both
  side by side; with two flights and keys that may repeat, every refusal of the
  handler occurs.  The tab may send both, another client the second of them
  (`FromOther`): a client that sent the first as well would only repeat it in the
  tab's place.  The one fault is a failure, or a raced payment.  The violation of
  `checkout_wrong_payment` needs a third request.
- Two faults in the relay are a loss and another while the first is being
  repaired; five channels are as many as two runs of `ensureConsumer` open in that
  time.  Rows of the outbox meet only in the batch of a dispatcher, which takes
  one after the other and goes on after a failure.
- Four events are a creation, two updates that overlap and a repair.  The rows of
  different users never meet.
- In `Session` the refresh token runs out after two seconds and the access token
  after one: within the run both happen, and a renewal between them.  Three things
  done (`MaxWork`: logins, timers, requests of the tab, reloads, what the second tab
  and other devices do) are enough to sign in, renew in one tab while the other waits
  for its user, and load the page again.
- A day of four slots has the midnight of either calendar between two of them.

`CHECK_DEADLOCK FALSE`, where it is given: the system may stop when every request is
answered, every queue is empty and the clock is at its bound.

### Fairness

Assumed: the clock advances, timers fire (`setInterval` in the sweepers, the
reconciler, the scheduler, the dispatchers, the registration of consumers and the
polling page), queues are drained (the dispatchers retry for ever, the subscriber
acknowledges or rejects every message), a broker that is up hands messages to a
live consumer, and a request that has started runs on or fails.  `SF(Tick)` and
`SF(ReadSeatState)` in the saga: the reconciler disables both while it works on a
booking, briefly and again and again.  In `Session` and on the booking page one
weak fairness covers all that the tab and the servers have left to do: while some
of it can happen, some of it does.  Nothing is assumed of customers and
administrators: they need not pay, cancel, reload or review anything.  Faults are
never fair.  With the fault `lost_message` a message may be dropped instead of
handled; no liveness property but `PendingBookingsEnd` is claimed with it.

## What is proved

Each proof module extends its component and proves its theorems for every value
of the constants: any sets of seats, bookings, payments, requests, flights,
messages or channels, and any bounds.  The properties are proved through an
inductive strengthening, with one proof step per action; a run checks them on
a small instance, except the `TypeOK` of Payments, Checkout, FlightCatalog,
MessageRelay and UserSync, which are only proved.  (The `TypeOK` of Session documents
the types; no run or theorem lists it.)  There is a theorem for every invariant and
every action property that a passing run checks.

Assumed is only what the named ASSUMEs of the modules say: a null value is no
member of the set it extends, bounds and amounts are natural numbers, seeds do not
repeat, there are finitely many channels, seeds and update requests, and in
UserSync there is some payload, some time and room for some event.  Two theorems
of the saga assume in addition that some fault is switched off; without that
assumption they are false, and TLC shows it in a few thousand states at most.
`ReleasesFreeSeatsForGood` assumes `"slow_checkout" \notin Faults`: nobody cancels or
pays a booking, and its hold does not lapse, while the request that creates it
runs.  The code does not enforce that; the theorem says what holds where it is so.
`PaymentsAreAccountedFor` assumes `Faults \subseteq {"slow_reconciler"}`, which each of
the other five faults violates.  `SagaCompensation.cfg`, the run that checks these
properties, satisfies both.

| Module | Theorem | Shows | Through |
| --- | --- | --- | --- |
| `SeatInventoryProofs` | `TypeCorrect`, `ReleaseFinality`, `ObservedCommitsStay`, `LiveHoldProtection` | `TypeOK`, `ReleaseIsFinal`, `ObservedCommitStays`, `LiveHoldIsProtected` | `IInv` (`Invariance`) |
| `PaymentsProofs` | `TypeCorrect`, `ImplementsContract`, `PaymentsAreSettledOnce`, `PaymentsAreChargedOnce`, `WalletExplained`, `WalletIsNotOverdrawn`, `KeysAreUsedOnce` | `TypeOK`, `ContractSpec`, `SettledOnce`, `ChargedOnce`, `WalletIsExplained`, `NoOverdraft`, `OneAttemptPerKey` | `Windows`, `PaidIsSettled`, `Explained`, `SubmittedIsNew` |
| `BookingSagaProofs` | `TypeCorrect`, `MoneyFollows`, `CommittedBookingsOwnSeats`, `NoSeatIsSoldTwice`, `PaymentsAreAccountedFor`, `ReleasesFreeSeatsForGood`, `OnlyTheCheckoutReopens` | `TypeOK`, `MoneyFollowsBooking`, `CommittedBookingOwnsSeat`, `SeatsAreSoldOnce`, `PaidIsAccountedFor`, `ReleaseFreesForGood`, `ReopenedOnlyByItsCheckout` | `Decided`, `Owned`, `Punctual`, `AllAccounted`, `AllReleasable` |
| `CheckoutProofs` | `TypeCorrect`, `BookingsAreUnique`, `KeysHaveOneAnswer` | `TypeOK`, `OneActiveBooking`, `OneAnswerPerKey` | `Inv` (`Invariance`) |
| `FlightCatalogProofs` | `TypeCorrect`, `FlightsAreUnique`, `ListingsAgree`, `ReportsAreTrue` | `TypeOK`, `OneFlightPerDay`, `ListingAgrees`, `ReconcileReportsTruth` | `Accepted`, `AllTimely`, `Indexed`, `Offered`, `Reading`, `Reported` |
| `RelayProofs` | `TypeCorrect`, `RegistrationsAreLive`, `KeepsPromise`, `NoMessagesAreLost` | `TypeOK`, `RegistrationIsLive`, the steps of `DeliverySpec`, `NoMessageIsLost` | `HandlersHaveMessages`, `ListedIsOpen`, `OnlyRecorded`, `ConsumersKept`, `ConfirmedIsInHand` |
| `UserSyncProofs` | `TypeCorrect`, `FreshnessIsLostOnlyToRaces`, `ServicesAgreeWhenQuiet` | `TypeOK`, `FreshnessLostOnlyToRaces`, `AgreesWhenQuiet` | `Shape`, `Agreement` |
| `SessionProofs` | `EverySessionIsEarned`, `SignOutsHaveCause` | `SessionsAreEarned`, `SignedOutForCause` | `Typed`, `Cause` |

- **Seats.**  `ReleaseIsFinal` and `ObservedCommitStays` are not inductive: that a
  commit delivered after the release finds nothing to commit depends on who can
  hold the token by then.  `IInv` adds what the code relies on: a token is issued
  once and for one seat; two bookings do not share a claim; a message carries the
  claim of its booking; a seat is held with a token that was issued for it, and
  booked for a booking that claimed it; a release without the token is sent only
  for a booking observed as committed; and an observed booking holds its seat no
  more, so no commit of it can run again.
- **Payments.**  The refinement to `PaymentLifecycle` needs two facts beyond types
  (`Windows`): a confirmation about to save `EXPIRED` found a payment past its
  expiry, which stays past it, and which nothing settles afterwards unless a
  confirmation race is possible (`ExpiringIsLapsed`); and a reconciliation is under
  way only for a payment that exists (`ReconciledExists`).  A payment once debited
  or credited is never again in a status in which it could be paid
  (`PaidIsSettled`); the ledger is counted by the type of its entries (`Explained`);
  a top-up request still on its way cannot overwrite a reviewed one
  (`SubmittedIsNew`).
- **Saga.**  `Decided` says what the rows of booking and payment owe each other: only
  a booking whose checkout has stored its payment id is confirmed or paid back,
  the payment of a confirmed booking has succeeded, and a message that gives
  something back is under way only for a closed booking.  `Owned` says that a
  commit that was recorded, or read and about to be recorded, is still on the
  seat, because only a release that names the booking takes it away; so no two bookings
  that were committed have one seat (`NoSeatIsSoldTwice`).  Both hold
  for every set of faults: the faults under which `PaidIsHonoured` or
  `ReleaseFreesForGood` fail leave money and committed seats right.
  `OnlyTheCheckoutReopens` holds for every set too: one step after the other looks at
  the status under the row lock, and nothing asks for the refund of a booking that
  has no payment id yet (`Decided`).  A step is a step of one booking, and
  leaves the others alone (`OthersUntouched`), so each fact is proved for the
  booking that moves; a seat is what bookings share, and `SeatRecorded` is about
  all of them.
- **Saga, the compensation.**  Here nobody closes or pays a booking while its request
  runs: the request is done before the hold ends, and until then the booking is
  pending (`OnTime`), so `updateBooking` writes no old status over a newer one.
  `Linked` adds that a payment exists only
  for a booking that knows it or is about to, and that no event is consumed before
  it is announced; with both, every step that takes one account of a payment away
  leaves another (`Accounted`): the consumer that marks `PaymentSucceeded` as handled
  confirms the booking or asks for the refund in the same transaction, and one that
  closes a confirmed booking asks for the refund too.  `Releasable` says what a
  release relies on, since each of the two kinds names the seat in one way only:
  while a release of the hold is under way the booking does not own the seat and no
  commit of it is on its way; once its commit was recorded, or a release of the
  booking sent, it does not hold the seat any more.  `PaidIsHonoured`
  and `ReleasedBookingFreesSeat` are what these safety properties come to if messages
  are handled in the end, and that half is model-checked.
- **Checkout.**  `OneActiveBooking` needs that a request which has not arrived has
  inserted nothing (`IdleIsFresh`), `OneAnswerPerKey` that an answer was recorded under
  the key of its request before it was given (`AnswersAreRecorded`).
- **Catalog.**  Flights are unique because the date the index sees is the start of a
  business day and every flight departs on it (`Timely`), for any length of a day
  and any shift of the two calendars; that the four computations of a status agree
  follows from the order of its times, and for the button also from what was
  loaded still being true (`Offered`).  A report is true because no step takes a seat
  from a flight (`SeatsGrow`) and what a reconciliation is about to insert is all that
  the cabin lacked when it was read (`Reading`), so another one that inserts the same
  seats meanwhile does not matter.  That the count the service compares with and
  the layout the page draws agree for every model is a lemma about the two copies of
  the cabins (`PageCounts`).
- **Relay.**  The safety half of the refinement: every step of the dispatcher, the
  broker and the subscriber is a step `Delivery` allows, or none.  It needs that
  nothing is published, queued or handled that was not recorded (`OnlyRecorded`)
  and that a handler at work has a message.  `RegistrationIsLive` needs that the
  channel of the list, and one a run is binding, is open (`ListedIsOpen`).
  `NoMessageIsLost` is about every crash, loss and timeout between the outbox and the
  acknowledgement: what the dispatcher is about to stamp as delivered has reached the
  broker (`ConfirmedIsInHand`), and a consumer that is done with a message has had it
  applied (`ConsumersKept`).
- **Users.**  `Ledger` and `Handlers` tie the handlers to the events of the outbox.
  `FreshnessIsLostOnlyToRaces` follows from what a handler has compared: a row it goes
  on to save over is the one it read, or another handler wrote.  For
  `ServicesAgreeWhenQuiet` the invariant says where the newest row is at every moment
  (`OnItsWay`): in an event nobody handles yet (`Waits`), with the only handler at work
  (`IsHandled`), or in the passenger already, where whoever is at work can only write
  the same (`HasArrived`); and that it is the newest row published (`UserIsNewest`).
  This is the safety half of `Converges`.
- **Session.**  The count of rows and of refreshes between removing a row and writing
  the next grows only with a login or an overlap; the proof counts with finite sets.
  `SignOutsHaveCause` counts too: as long as nothing ended a token and the second tab did
  not present it, each of its claimants has a row of its own (`Backed`).  They are
  the agents that do not share a row with the store, and one more while somebody keeps
  the token (`Keeps`): the tab in memory, until an agent is about to replace it, the local
  storage, from where the tab may load it, or the second tab, which may put it there.
  A token that was presented and that the second tab stores again has no row, and has
  the cause `restored` from that step on.  A refresh that finds no row therefore has
  a cause (`FailuresHaveCause`).  `Order` says that a token an agent uses was presented,
  that a row it removes has that token, and that row ids are new.

Only model-checked: all liveness (`HoldsEnd`, `RequestedReleaseFreesSeat`,
`PaymentsAreDecided`, `PendingBookingsEnd`, `PaidIsHonoured`, `ReleasedBookingFreesSeat`,
`PaidIsShown`, `ConsumersReturn`, `RequestsEnd`, `Converges`, `MissingOnlyIfDead`, and
the fairness half of `DeliverySpec`), which is out of the prover's reach.
`ResumedPaymentIsTheBookings` does not hold.

## What is not modelled

`PROJECT.json` gives the reason per component.  In short:

- the rate limiter: its counters live in a library and Redis, and the code of the
  repository maps one answer of it to one response;
- health, monitoring, tracing, configuration, validation, exception filters: no
  state another component reads;
- the signature of internal requests: a check of one request;
- seat types and prices: numbers that are computed once and stored;
- creating an aircraft or an airport, which looks for the name and then inserts
  it without an index: nothing else reads these rows by name;
- the one-off scripts that fill in data of earlier versions, and the bookings and
  seats from before there were holds;
- the frontend pages other than booking, flight list and sign-in, which show what a
  query returned or send one form;
- deployments and dashboards.

Much of the repository is of that kind: pages and components that only show data,
contracts and DTOs that are repeated as compiled `.js` files beside their `.ts`,
module wiring and migrations.  That is why the definitions of this project
account for about a seventh of its lines, although every component that keeps
state other components depend on has a module.

Within the modules, left out on purpose: prices, currencies, names and texts;
choosing a seat for a request without seat number (any reclaimable seat); events
without a consumer (`BookingCreated`, `PaymentFailed`, `PaymentRefunded` are counted
but not delivered); flights that can no longer be cancelled (nothing changes);
several queues of one process, each of which is registered on its own.

## What could follow

- The safety half of the liveness properties that have none yet: for `Checkout`, an
  invariant on the page from which `PaidIsShown` follows; for `Payments`, that an
  undecided payment past its expiry is one the scheduler will find.
- That `BookingSaga` uses the seats as `SeatInventory` allows: both use the same
  operators, and `ReleasesFreeSeatsForGood` is proved apart from `ReleaseFinality`; a
  refinement would need the hold tokens of the one in the other.
- A composition of `Checkout` and `BookingSaga`, whose bookings are the same rows: they
  are kept apart because each alone comes near what TLC checks in minutes.
