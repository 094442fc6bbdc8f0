------------------------------ MODULE Checkout ------------------------------
(***************************************************************************)
(* One user checking out: the requests POST /booking/create the user makes *)
(* for a few flights, and one tab with the booking page of the web app.    *)
(*                                                                         *)
(* Every request runs in steps, one for each statement or remote call of   *)
(* CreateBookingHandler that another request can come between.  A request  *)
(* inserts at most one booking, so the booking and its payment go by the   *)
(* request's name; a fresh idempotency key does too.  The page makes a     *)
(* fresh key for every submit; other clients of the API repeat a key, with *)
(* the same flight or another.                                             *)
(*                                                                         *)
(* What a checkout does to the seat is in BookingSaga and SeatInventory:   *)
(* here a reservation has an answer and no state.  The payment service and *)
(* the consumers of booking are the environment: Attempt, Pay,             *)
(* PaymentExpires, RacedPayment, ConfirmBooking and CloseBooking.          *)
(***************************************************************************)
EXTENDS Naturals

CONSTANTS Request, Flight, None,
          FromTab,      \* requests the page may send
          FromOther,    \* requests another client of the user may send
          MaxFaults     \* bound on crashes, lost answers, failed calls and
                        \* raced payments

ASSUME CheckoutAssumption ==
  /\ None \notin Request \cup Flight /\ MaxFaults \in Nat
  /\ FromTab \cup FromOther \subseteq Request

VARIABLES request,  \* where each request is, its flight and its key
          reply,    \* what it was answered
          booking,  \* the row it inserted
          payment,  \* the payment intent of that booking
          record,   \* the idempotency records, by key
          page,     \* the tab
          faults

vars == <<request, reply, booking, payment, record, page, faults>>
serverVars == <<request, reply, booking, payment, record>>

NoReply == [kind |-> "none", of |-> None, settled |-> FALSE]
Answer(kind) == [NoReply EXCEPT !.kind = kind]
NoCheckout == [booking |-> None, payment |-> None]

\* What the page saw of the payment counts at the payment step only.
NewPage ==
  [step |-> "browse", flight |-> None, passenger |-> FALSE, sent |-> None,
   checkout |-> NoCheckout, seen |-> "none", sync |-> "idle",
   target |-> None, handled |-> FALSE]

Init ==
  /\ request = [r \in Request |-> [at |-> "idle", flight |-> None, key |-> None]]
  /\ reply = [r \in Request |-> NoReply]
  /\ booking = [r \in Request |->
                  [status |-> "none", linked |-> FALSE, lapsed |-> FALSE]]
  /\ payment = [r \in Request |-> "none"]
  /\ record = [k \in Request |-> None]
  /\ page = NewPage
  /\ faults = 0

-----------------------------------------------------------------------------
\* The booking table.

OfFlight(f) == {b \in Request : request[b].flight = f}

\* Rows the partial unique index on user and flight covers.
Indexed(f) == {b \in OfFlight(f) : booking[b].status \in {"pending", "confirmed"}}

\* findActiveBookingByUserAndFlight leaves out a hold that lapsed.
Active(f) ==
  {b \in Indexed(f) : booking[b].status = "pending" => ~booking[b].lapsed}

Goto(r, at) == request' = [request EXCEPT ![r].at = at]

Respond(r, answer) ==
  /\ Goto(r, "done")
  /\ reply' = [reply EXCEPT ![r] = answer]

ActiveBookingExists(b, withPayment) ==
  [kind |-> "active", of |-> b,
   settled |-> \/ booking[b].status = "confirmed"
               \/ withPayment /\ booking[b].linked /\ payment[b] = "succeeded"]

-----------------------------------------------------------------------------
\* A request.

\* It arrives with a key of its own, or with one a request already used.
Arrive(r, f, k) ==
  /\ request[r].at = "idle" /\ reply[r] = NoReply
  /\ k = r \/ request[k].at # "idle"
  /\ request' = [request EXCEPT ![r] = [at |-> "lookup", flight |-> f, key |-> k]]

ClientRequest(r, f, k) ==
  /\ r \in FromOther /\ Arrive(r, f, k)
  /\ UNCHANGED <<reply, booking, payment, record, page, faults>>

\* Fault: no unique index, a later record replaces the first.
Recorded_NoRecord(k) == FALSE

Recorded(k) == record[k] # None

LookupKey(r) ==
  LET k == request[r].key IN
  /\ request[r].at = "lookup"
  /\ \/ ~Recorded(k) /\ Goto(r, "check") /\ UNCHANGED reply
     \/ /\ Recorded(k) /\ request[record[k]].flight # request[r].flight
        /\ Respond(r, Answer("key_reused"))
     \/ /\ Recorded(k) /\ request[record[k]].flight = request[r].flight
        /\ Respond(r, [Answer("checkout") EXCEPT !.of = record[k]])
  /\ UNCHANGED <<booking, payment, record, page, faults>>

\* No passenger yet, the flight is gone, closed or departed, or a call fails.
Refuse(r) ==
  /\ request[r].at = "check"
  /\ Respond(r, Answer("refused"))
  /\ UNCHANGED <<booking, payment, record, page, faults>>

ExpireStale(r) ==
  /\ request[r].at = "check" /\ Goto(r, "find")
  /\ booking' = [b \in Request |->
       IF b \in Indexed(request[r].flight) \ Active(request[r].flight)
       THEN [booking[b] EXCEPT !.status = "closed"] ELSE booking[b]]
  /\ UNCHANGED <<reply, payment, record, page, faults>>

\* Look for an active booking; if there is none, reserve the seat.  Nothing
\* else is read or written here between the two.
FindActive(r) ==
  /\ request[r].at = "find"
  /\ \/ \E b \in Active(request[r].flight) : Respond(r, ActiveBookingExists(b, TRUE))
     \/ /\ Active(request[r].flight) = {}
        /\ \/ \E answer \in {"premium", "refused"} : Respond(r, Answer(answer))
           \/ Goto(r, "insert") /\ UNCHANGED reply
  /\ UNCHANGED <<booking, payment, record, page, faults>>

\* Fault: the check before the reservation is the only one.
IndexAllows_NoIndex(r) == TRUE

IndexAllows(r) == Indexed(request[r].flight) \subseteq {r}

Insert(r) ==
  /\ request[r].at = "insert" /\ IndexAllows(r)
  /\ booking' = [booking EXCEPT ![r].status = "pending"]
  /\ Goto(r, "intent")
  /\ UNCHANGED <<reply, payment, record, page, faults>>

\* The index refused the row: the seat is released and the other booking is
\* looked up again, without its payment.
InsertRefused(r) ==
  /\ request[r].at = "insert" /\ ~IndexAllows(r)
  /\ \/ \E b \in Active(request[r].flight) : Respond(r, ActiveBookingExists(b, FALSE))
     \/ Active(request[r].flight) = {} /\ Respond(r, Answer("error"))
  /\ UNCHANGED <<booking, payment, record, page, faults>>

CreateIntent(r) ==
  /\ request[r].at = "intent" /\ Goto(r, "link")
  /\ payment' = [payment EXCEPT ![r] = "pending"]
  /\ UNCHANGED <<reply, booking, record, page, faults>>

\* The call fails, or makes the payment and its answer is lost.
CreateIntentFails(r) ==
  /\ request[r].at = "intent" /\ Goto(r, "undo")
  /\ faults < MaxFaults /\ faults' = faults + 1
  /\ \E status \in {"none", "pending"} : payment' = [payment EXCEPT ![r] = status]
  /\ UNCHANGED <<reply, booking, record, page>>

\* The whole row is saved as it was inserted, with its payment: a booking
\* that was closed meanwhile is pending again if the index lets it.
LinkPayment(r) ==
  /\ request[r].at = "link"
  /\ \/ /\ IndexAllows(r) /\ Goto(r, "save")
        /\ booking' = [booking EXCEPT ![r].status = "pending", ![r].linked = TRUE]
     \/ ~IndexAllows(r) /\ Goto(r, "undo") /\ UNCHANGED booking
  /\ UNCHANGED <<reply, payment, record, page, faults>>

\* The unique index on scope and key decides between two requests.
SaveRecord(r) ==
  LET k == request[r].key IN
  /\ request[r].at = "save"
  /\ \/ /\ ~Recorded(k)
        /\ record' = [record EXCEPT ![k] = r]
        /\ Respond(r, [Answer("checkout") EXCEPT !.of = r])
     \/ Recorded(k) /\ Goto(r, "undo") /\ UNCHANGED <<reply, record>>
  /\ UNCHANGED <<booking, payment, page, faults>>

\* expirePendingBooking: only a booking that is still pending.
Undo(r) ==
  /\ request[r].at = "undo"
  /\ booking' = [booking EXCEPT ![r].status = IF @ = "pending" THEN "closed" ELSE @]
  /\ Respond(r, Answer("error"))
  /\ UNCHANGED <<payment, record, page, faults>>

\* The process or its database goes away; nothing answers and nothing undoes.
Crash(r) ==
  /\ request[r].at \notin {"idle", "done"} /\ Goto(r, "done")
  /\ faults < MaxFaults /\ faults' = faults + 1
  /\ UNCHANGED <<reply, booking, payment, record, page>>

-----------------------------------------------------------------------------
\* The rest of the system.

Environment == UNCHANGED <<request, reply, record, page, faults>>

HoldLapses(b) ==
  /\ request[b].at = "done" /\ booking[b].status = "pending"
  /\ booking' = [booking EXCEPT ![b].lapsed = TRUE]
  /\ UNCHANGED payment /\ Environment

Becomes(b, status) ==
  /\ payment' = [payment EXCEPT ![b] = status]
  /\ UNCHANGED <<request, reply, booking, record, page>>

\* FAILED and PROCESSING are one status here, "stalled": what settles or expires
\* one of them does it to the other, and the page treats them alike.
Unsettled == {"pending", "stalled"}

\* A confirmation that is declined, or gets no answer from the provider.
Attempt(b) == payment[b] = "pending" /\ Becomes(b, "stalled") /\ UNCHANGED faults

\* By the wallet, a confirmation or a reconciliation.
Pay(b) == payment[b] \in Unsettled /\ Becomes(b, "succeeded") /\ UNCHANGED faults

PaymentExpires(b) ==
  payment[b] \in Unsettled /\ Becomes(b, "expired") /\ UNCHANGED faults

\* Two races.  A reconciliation looks at the status before it locks the row,
\* and settles a payment that expired meanwhile; a confirmation that finds the
\* hold over saves the whole row it read as EXPIRED, over a settlement.
RacedPayment(b) ==
  /\ faults < MaxFaults /\ faults' = faults + 1
  /\ \/ payment[b] \in {"expired", "overwritten"} /\ Becomes(b, "succeeded")
     \/ payment[b] = "succeeded" /\ Becomes(b, "overwritten")

\* The event of the settlement may be handled after the row was overwritten.
ConfirmBooking(b) ==
  /\ payment[b] \in {"succeeded", "overwritten"} /\ booking[b].status = "pending"
  /\ booking' = [booking EXCEPT ![b].status =
                   IF booking[b].lapsed THEN "closed" ELSE "confirmed"]
  /\ UNCHANGED payment /\ Environment

\* Canceled, expired by a message, or swept.
CloseBooking(b) ==
  /\ booking[b].status \in {"pending", "confirmed"}
  /\ booking' = [booking EXCEPT ![b].status = "closed"]
  /\ UNCHANGED payment /\ Environment

-----------------------------------------------------------------------------
\* The page.

PageStep(new) == page' = new /\ UNCHANGED serverVars /\ UNCHANGED faults

AtPayment == page.step = "payment"
Locked == page.sync = "syncing"
Paid == AtPayment /\ page.seen = "succeeded"
Resumed == page.target # None /\ page.checkout.booking = page.target

\* A flight, a seat and on to the review.  The passenger is fetched there,
\* unless the page was opened for a booking.
ChooseFlight(f) ==
  /\ page.step \in {"browse", "review"}
  /\ PageStep([page EXCEPT !.step = "review", !.flight = f,
                           !.passenger = @ \/ page.target = None])

Submit(r) ==
  /\ r \in FromTab /\ page.step = "review" /\ page.passenger /\ page.sent = None
  /\ \A q \in Request : request[q].key # r
  /\ Arrive(r, page.flight, r)
  /\ page' = [page EXCEPT !.sent = r]
  /\ UNCHANGED <<reply, booking, payment, record, faults>>

Answered(r) == page.sent = r /\ reply[r] # NoReply

\* Another booking in the address makes the page resume that booking; the
\* address it already has changes nothing.
Navigate(b) ==
  IF page.target = b THEN [page EXCEPT !.sent = None]
  ELSE [page EXCEPT !.sent = None, !.target = b, !.handled = FALSE]

ShowCheckout(r) ==
  /\ Answered(r) /\ reply[r].kind = "checkout"
  /\ PageStep([page EXCEPT !.sent = None, !.step = "payment", !.sync = "idle",
                 !.seen = "pending",
                 !.checkout = [booking |-> reply[r].of, payment |-> reply[r].of]])

\* A conflict over a booking that is not paid yet reopens its payment.
ReopenPayment(r) ==
  /\ Answered(r) /\ reply[r].kind = "active" /\ ~reply[r].settled
  /\ PageStep(Navigate(reply[r].of))

OpenDetail(r) ==
  /\ Answered(r) /\ reply[r].kind = "active" /\ reply[r].settled
  /\ PageStep(NewPage)

ShowError(r) ==
  /\ Answered(r) /\ reply[r].kind \notin {"checkout", "active"}
  /\ PageStep([page EXCEPT !.sent = None,
       !.step = IF reply[r].kind \in {"premium", "key_reused"} THEN "browse" ELSE @])

\* The answer is lost, or none comes, and the client gives up.
LoseReply(r) ==
  /\ page.sent = r /\ page' = [page EXCEPT !.sent = None]
  /\ \/ request[r].at = "done" /\ reply[r] = NoReply /\ UNCHANGED faults
     \/ faults < MaxFaults /\ faults' = faults + 1
  /\ UNCHANGED serverVars

\* The payment the page fetches: that of the checkout it still holds before
\* that of the booking in the address.
ActivePayment(b) ==
  IF page.checkout.payment # None THEN page.checkout.payment ELSE b

\* The status a read of the payment returns.
PaymentStatus(p) == IF payment[p] = "overwritten" THEN "expired" ELSE payment[p]

\* The page reads the booking in its address once and decides for good.
ResumeTarget ==
  LET b == page.target
      gaveUp == [page EXCEPT !.handled = TRUE] IN
  /\ b # None /\ ~page.handled
  /\ \/ PageStep(gaveUp)     \* one of the reads fails
     \/ booking[b].status = "confirmed" /\ PageStep(NewPage)
     \/ /\ \/ booking[b].status \notin {"pending", "confirmed"}
           \/ booking[b].status = "pending" /\ ~booking[b].linked
        /\ PageStep(gaveUp)
     \/ /\ booking[b].status = "pending" /\ booking[b].linked
        /\ PageStep([gaveUp EXCEPT !.step = "payment", !.sync = "idle",
             !.flight = request[b].flight, !.seen = PaymentStatus(ActivePayment(b)),
             !.checkout = [booking |-> b, payment |-> ActivePayment(b)]])

BackToReview ==
  /\ AtPayment /\ ~Paid /\ ~Resumed
  /\ PageStep([page EXCEPT !.step = "review", !.seen = "none"])

\* By the buttons of the step, which have the page read any payment again.
RefetchPayment ==
  AtPayment /\ PageStep([page EXCEPT !.seen = PaymentStatus(page.checkout.payment)])

\* Every five seconds, while the payment it saw is PENDING: a page that saw it
\* FAILED, PROCESSING or EXPIRED does not ask again.
PollPayment == page.seen = "pending" /\ RefetchPayment

StartSync ==
  Paid /\ page.sync = "idle" /\ PageStep([page EXCEPT !.sync = "syncing"])

SyncConfirms ==
  /\ Paid /\ page.sync # "timed_out"
  /\ booking[page.checkout.booking].status = "confirmed"
  /\ PageStep([page EXCEPT !.step = "success", !.seen = "none", !.sync = "idle"])

\* Fault: after the time limit the page is idle, and starts over.
SyncTimesOut_Restarts == Locked /\ PageStep([page EXCEPT !.sync = "idle"])

SyncTimesOut == Locked /\ PageStep([page EXCEPT !.sync = "timed_out"])

BookAnother ==
  /\ page.step = "success"
  /\ PageStep([page EXCEPT !.step = "browse", !.checkout = NoCheckout, !.sync = "idle"])

\* A link of the app, or a reload of the address, mounts a new page.
OpenPage(b) ==
  /\ b # None => booking[b].status # "none"
  /\ PageStep([NewPage EXCEPT !.target = b])

-----------------------------------------------------------------------------
ServerStep(r) ==
  \/ LookupKey(r) \/ Refuse(r) \/ ExpireStale(r) \/ FindActive(r) \/ Insert(r)
  \/ InsertRefused(r) \/ CreateIntent(r) \/ CreateIntentFails(r)
  \/ LinkPayment(r) \/ SaveRecord(r) \/ Undo(r) \/ Crash(r)

EnvironmentStep(b) ==
  \/ HoldLapses(b) \/ Attempt(b) \/ Pay(b) \/ PaymentExpires(b) \/ RacedPayment(b)
  \/ ConfirmBooking(b) \/ CloseBooking(b)

ReplyStep(r) ==
  ShowCheckout(r) \/ ReopenPayment(r) \/ OpenDetail(r) \/ ShowError(r) \/ LoseReply(r)

PageNext ==
  \/ ResumeTarget \/ BackToReview \/ RefetchPayment \/ StartSync
  \/ SyncConfirms \/ SyncTimesOut \/ BookAnother

Next ==
  \/ \E r \in Request : ServerStep(r) \/ EnvironmentStep(r) \/ Submit(r) \/ ReplyStep(r)
  \/ \E r, k \in Request, f \in Flight : ClientRequest(r, f, k)
  \/ \E f \in Flight : ChooseFlight(f)
  \/ \E b \in Request \cup {None} : OpenPage(b)
  \/ PageNext

Spec == Init /\ [][Next]_vars

\* The timers and effects of the mounted page run, one at a time; nobody is made to submit,
\* pay or confirm anything.
FairSpec ==
  /\ Spec
  /\ WF_vars(PollPayment \/ StartSync \/ SyncTimesOut)

-----------------------------------------------------------------------------
\* The tables, the requests and the page hold what the code puts in them.
TypeOK ==
  /\ request \in [Request -> [at : {"idle", "lookup", "check", "find", "insert",
                                    "intent", "link", "save", "undo", "done"},
                              flight : Flight \cup {None}, key : Request \cup {None}]]
  /\ reply \in [Request -> [kind : {"none", "checkout", "active", "key_reused",
                                    "premium", "refused", "error"},
                            of : Request \cup {None}, settled : BOOLEAN]]
  /\ booking \in [Request -> [status : {"none", "pending", "confirmed", "closed"},
                              linked : BOOLEAN, lapsed : BOOLEAN]]
  /\ payment \in [Request -> {"none", "pending", "stalled", "succeeded", "expired",
                          "overwritten"}]
  /\ record \in [Request -> Request \cup {None}]
  /\ page \in [step : {"browse", "review", "payment", "success"},
               flight : Flight \cup {None}, passenger : BOOLEAN,
               sent : Request \cup {None},
               checkout : [booking : Request, payment : Request] \cup {NoCheckout},
               seen : {"none", "pending", "stalled", "succeeded", "expired"},
               sync : {"idle", "syncing", "timed_out"},
               target : Request \cup {None}, handled : BOOLEAN]
  /\ faults \in 0..MaxFaults

\* However the requests interleave, and though the check for an active
\* booking and the insert are two statements (create-booking.ts:169 and :198),
\* the user never has two pending or confirmed bookings for one flight.
OneActiveBooking ==
  \A a, b \in Request :
    /\ request[a].flight = request[b].flight
    /\ booking[a].status \in {"pending", "confirmed"}
    /\ booking[b].status \in {"pending", "confirmed"}
    => a = b

\* Requests that carry one idempotency key and are answered with a checkout
\* are answered with the same one, though the record is written last
\* (create-booking.ts:294): two of them may run side by side, die half-way or
\* come back after the first booking closed.
OneAnswerPerKey ==
  \A a, b \in Request :
    /\ request[a].key = request[b].key
    /\ reply[a].kind = "checkout" /\ reply[b].kind = "checkout"
    => reply[a].of = reply[b].of

\* A page at the payment step that still polls, or has seen the payment go
\* through, does not stay locked or unaware while the payment is settled: it
\* shows the confirmed booking or says after the time limit that it is delayed
\* (CreateBookingPage.tsx:240-277, :659-726), whoever paid, whatever was
\* declined before and whatever becomes of the booking.  A page that read
\* FAILED, PROCESSING or EXPIRED has stopped asking (:244) and promises nothing.
PaidIsShown ==
  \A p \in Request :
    /\ AtPayment /\ page.checkout.payment = p /\ page.seen \in {"pending", "succeeded"}
    /\ payment[p] = "succeeded"
    ~> \/ ~AtPayment \/ page.checkout.payment # p \/ page.sync = "timed_out"
       \/ payment[p] # "succeeded"

\* What create-booking-flow.test.tsx:1004 and the text of the page (:383) say
\* of a resumed checkout: the payment it offers is the booking's.
ResumedPaymentIsTheBookings ==
  AtPayment => page.checkout.payment = page.checkout.booking

=============================================================================
