---------------------------- MODULE BookingSaga ----------------------------
(***************************************************************************)
(* The checkout saga across three services: booking creates a booking      *)
(* around a seat hold (flight) and a payment intent (payment), confirms it *)
(* when PaymentSucceeded arrives, has its seat committed, and expires,     *)
(* cancels and compensates it.                                             *)
(*                                                                         *)
(* The payment service is its contract, PaymentLifecycle; the seats are    *)
(* the rows and statements of SeatRepository.  A checkout's hold token and *)
(* its payment are named by its booking.  Messages between the services    *)
(* are counted, not ordered: the outbox dispatchers retry, reorder and     *)
(* publish again, and the processed-message tables make each take effect   *)
(* at most once.                                                           *)
(*                                                                         *)
(* Each constant in Faults switches one unlikely thing on:                 *)
(*   "slow_checkout"    a booking may be cancelled or paid, or its hold    *)
(*                      lapse, while the request that creates it runs;     *)
(*   "checkout_crash"   the process dies during that request;              *)
(*   "lost_reply"       the request to create a payment intent is carried  *)
(*                      out, and its reply does not arrive;                *)
(*   "slow_reconciler"  the clock moves between the reconciler's read of a *)
(*                      seat and its decision;                             *)
(*   "payment_lookup"   cancelling cannot read the payment;                *)
(*   "lost_message"     a consumer fails and its message is dead-lettered. *)
(***************************************************************************)
EXTENDS Integers, FiniteSets

CONSTANTS Booking,         \* bookings, one for each checkout request
          Seat,            \* the seats of one flight
          None,            \* a NULL column
          Faults,          \* the faults that may happen
          LateSettlement,  \* see PaymentLifecycle
          HoldTime,        \* from a reservation to its holdUntil
          MaxTime,         \* bound on the clock
          MaxEvents,       \* bound on repeated payment events
          MaxCopies        \* bound on copies of a message under way

ASSUME SagaAssumption ==
  /\ None \notin Booking \union Seat
  /\ Faults \subseteq {"slow_checkout", "checkout_crash", "lost_reply",
                       "slow_reconciler", "payment_lookup", "lost_message"}
  /\ LateSettlement \in BOOLEAN
  /\ HoldTime \in Nat \ {0}
  /\ {MaxTime, MaxEvents, MaxCopies} \subseteq Nat

VARIABLES now,        \* the clock
          seats,      \* the seat table
          bookings,   \* the booking table
          checkout,   \* where the request that creates a booking stands
          read,       \* the seat row the reconciler read, for its booking
          status, refunded, emitted,  \* the payments, see PaymentLifecycle
          handled,    \* payment events the booking service has consumed
          dead,       \* payment events it has dead-lettered
          queue       \* messages of the booking service not consumed yet

paymentVars == <<status, refunded, emitted>>
eventVars   == <<handled, dead>>
vars == <<now, seats, bookings, checkout, read, paymentVars, eventVars, queue>>

S == INSTANCE SeatRepository WITH
       Token <- Booking, NoToken <- None, NoBooking <- None
P == INSTANCE PaymentLifecycle WITH Payment <- Booking, StaleExpiry <- FALSE

BookingStatus == {"NONE", "PENDING_PAYMENT", "CONFIRMED", "EXPIRED", "CANCELED"}
Active == {"PENDING_PAYMENT", "CONFIRMED"}
Closed == {"EXPIRED", "CANCELED"}

\* seatHoldToken is always the booking's own token; paymentId is its own or NULL.
BookingRow == [bookingStatus : BookingStatus,
               seatNumber : Seat \union {None},
               seatHoldExpiresAt : Nat,
               hasPaymentId : BOOLEAN,
               seatCommitted : BOOLEAN]

CheckoutState == {"idle", "reserved", "inserted", "intended", "saving",
                  "resurrecting", "failing", "ended"}

ConsumedEvent == {"PaymentSucceeded", "PaymentExpired"}

\* Releases differ in what they carry: the hold token, the booking id, both.
ReleaseKind == {"releaseHold", "releaseBoth", "releaseBooking"}
MessageKind == {"commit", "refund"} \union ReleaseKind

TypeOK ==
  /\ now \in 0..MaxTime
  /\ seats \in [Seat -> S!SeatRow]
  /\ bookings \in [Booking -> BookingRow]
  /\ checkout \in [Booking -> CheckoutState]
  /\ read \in [Booking -> S!SeatRow \union {None}]
  /\ status \in [Booking -> P!PaymentStatus]
  /\ refunded \subseteq Booking
  /\ emitted \in [Booking -> [P!EventType -> Nat]]
  /\ handled \in [Booking -> [ConsumedEvent -> Nat]]
  /\ dead \subseteq Booking \X ConsumedEvent
  /\ queue \in [MessageKind \X Booking -> Nat]

Init ==
  /\ now = 0
  /\ seats = [s \in Seat |-> S!AvailableSeatValues]
  /\ bookings = [b \in Booking |->
       [bookingStatus |-> "NONE", seatNumber |-> None, seatHoldExpiresAt |-> 0,
        hasPaymentId |-> FALSE, seatCommitted |-> FALSE]]
  /\ checkout = [b \in Booking |-> "idle"]
  /\ read = [b \in Booking |-> None]
  /\ P!Init
  /\ handled = [b \in Booking |-> [e \in ConsumedEvent |-> 0]]
  /\ dead = {}
  /\ queue = [m \in MessageKind \X Booking |-> 0]

-----------------------------------------------------------------------------
(* Helpers.                                                                *)

Status(b) == bookings[b].bookingStatus

\* The reconciler keeps the row of a booking locked while it asks for the seat.
Unlocked(b) == read[b] = None

Send(kinds, b) ==
  queue' = [m \in DOMAIN queue |->
              queue[m] + (IF m[1] \in kinds /\ m[2] = b THEN 1 ELSE 0)]

Receive(kind, b) ==
  /\ queue[<<kind, b>>] > 0
  /\ queue' = [queue EXCEPT ![<<kind, b>>] = @ - 1]

SetStatus(b, s) == bookings' = [bookings EXCEPT ![b].bookingStatus = s]

-----------------------------------------------------------------------------
(* The checkout request.                                                   *)

Goto(b, pc) == checkout' = [checkout EXCEPT ![b] = pc]

\* Fault: the expiry of the hold is not stored with the booking.
ReserveSeat_NoExpiry(b, s) ==
  /\ checkout[b] = "idle"
  /\ now + HoldTime <= MaxTime
  /\ S!ReclaimableSeatCondition(seats[s], now)
  /\ seats' = [seats EXCEPT ![s] = S!HeldSeatValues(b, now + HoldTime)]
  /\ bookings' = [bookings EXCEPT ![b].seatNumber = s,
                                  ![b].seatHoldExpiresAt = None]
  /\ Goto(b, "reserved")
  /\ UNCHANGED <<now, read, paymentVars, eventVars, queue>>

ReserveSeat(b, s) ==
  /\ checkout[b] = "idle"
  /\ now + HoldTime <= MaxTime
  /\ S!ReclaimableSeatCondition(seats[s], now)
  /\ seats' = [seats EXCEPT ![s] = S!HeldSeatValues(b, now + HoldTime)]
  /\ bookings' = [bookings EXCEPT ![b].seatNumber = s,
                                  ![b].seatHoldExpiresAt = now + HoldTime]
  /\ Goto(b, "reserved")
  /\ UNCHANGED <<now, read, paymentVars, eventVars, queue>>

InsertBooking(b) ==
  /\ checkout[b] = "reserved"
  /\ SetStatus(b, "PENDING_PAYMENT")
  /\ Goto(b, "inserted")
  /\ UNCHANGED <<now, seats, read, paymentVars, eventVars, queue>>

\* The unique index refuses the row, or the insert fails.  The release is
\* published at once; a failure to publish it is swallowed.
InsertBookingFails(b) ==
  /\ checkout[b] = "reserved"
  /\ Goto(b, "ended")
  /\ \/ Send({"releaseHold"}, b)
     \/ "lost_message" \in Faults /\ UNCHANGED queue
  /\ UNCHANGED <<now, seats, bookings, read, paymentVars, eventVars>>

CreatePaymentIntent(b) ==
  /\ checkout[b] = "inserted"
  /\ P!Create(b)
  /\ Goto(b, "intended")
  /\ UNCHANGED <<now, seats, bookings, read, eventVars, queue>>

\* The call fails, before or after the payment service created the intent.
CreatePaymentIntentFails(b) ==
  /\ checkout[b] = "inserted"
  /\ \/ UNCHANGED paymentVars
     \/ "lost_reply" \in Faults /\ P!Create(b)
  /\ Goto(b, "failing")
  /\ UNCHANGED <<now, seats, bookings, read, eventVars, queue>>

(***************************************************************************)
(* updateBooking saves the entity the insert returned, with the payment id *)
(* added.  save() loads the row and then updates the columns that differ   *)
(* from it: paymentId, and the status if the row was closed meanwhile.     *)
(***************************************************************************)
LoadForUpdate(b) ==
  /\ checkout[b] = "intended"
  /\ Goto(b, IF Status(b) = "PENDING_PAYMENT" THEN "saving" ELSE "resurrecting")
  /\ UNCHANGED <<now, seats, bookings, read, paymentVars, eventVars, queue>>

\* Fault: all columns are written as they were inserted.
UpdateBooking_AllColumns(b) ==
  /\ checkout[b] \in {"saving", "resurrecting"}
  /\ Unlocked(b)
  /\ bookings' = [bookings EXCEPT ![b].hasPaymentId = TRUE,
                                  ![b].bookingStatus = "PENDING_PAYMENT"]
  /\ Goto(b, "ended") \/ Goto(b, "failing")
  /\ UNCHANGED <<now, seats, read, paymentVars, eventVars, queue>>

UpdateBooking(b) ==
  /\ checkout[b] \in {"saving", "resurrecting"}
  /\ Unlocked(b)
  /\ bookings' = [bookings EXCEPT
       ![b].hasPaymentId = TRUE,
       ![b].bookingStatus = IF checkout[b] = "resurrecting"
                              THEN "PENDING_PAYMENT" ELSE @]
  /\ \/ Goto(b, "ended")
     \/ Goto(b, "failing")   \* saving the idempotency record fails
  /\ UNCHANGED <<now, seats, read, paymentVars, eventVars, queue>>

ExpirePendingBooking(b) ==
  \/ /\ Status(b) = "PENDING_PAYMENT"
     /\ SetStatus(b, "EXPIRED")
     /\ Send({"releaseHold"}, b)
  \/ /\ Status(b) # "PENDING_PAYMENT"
     /\ UNCHANGED <<bookings, queue>>

FailCheckout(b) ==
  /\ checkout[b] = "failing"
  /\ Unlocked(b)
  /\ ExpirePendingBooking(b)
  /\ Goto(b, "ended")
  /\ UNCHANGED <<now, seats, read, paymentVars, eventVars>>

CrashCheckout(b) ==
  /\ "checkout_crash" \in Faults
  /\ checkout[b] \notin {"idle", "ended"}
  /\ Goto(b, "ended")
  /\ UNCHANGED <<now, seats, bookings, read, paymentVars, eventVars, queue>>

-----------------------------------------------------------------------------
(* The payment service: any step its contract allows.  PaymentFailed and   *)
(* PaymentRefunded have no consumer.                                       *)

PaymentStep(b) ==
  /\ checkout[b] = "ended" \/ "slow_checkout" \in Faults
  /\ \/ P!Stall(b)
     \/ P!Decline(b) /\ emitted[b]["PaymentFailed"] < MaxEvents
     \/ P!Settle(b)
     \/ P!Expire(b) /\ emitted[b]["PaymentExpired"] < MaxEvents
     \/ P!ExpireSilently(b)
  /\ UNCHANGED <<now, seats, bookings, checkout, read, eventVars, queue>>

\* A refund request that finds nothing to refund is acknowledged and lost.
ConsumeRefundRequest(b) ==
  /\ Receive("refund", b)
  /\ \/ P!Refund(b)
     \/ /\ status[b] # "SUCCEEDED" \/ b \in refunded
        /\ UNCHANGED paymentVars
  /\ UNCHANGED <<now, seats, bookings, checkout, read, eventVars>>

-----------------------------------------------------------------------------
(* The booking service's consumers: one transaction each, in which the     *)
(* booking is found by its payment id and the message id is recorded.      *)

Undelivered(b, e) == handled[b][e] < emitted[b][e]

Handle(b, e) ==
  /\ Undelivered(b, e)
  /\ handled' = [handled EXCEPT ![b][e] = @ + 1]

\* Fault: a late payment is not refunded.
Settled_NoRefund(b) ==
  \/ /\ Status(b) = "PENDING_PAYMENT"
     /\ SetStatus(b, "CONFIRMED")
     /\ Send({"commit"}, b)
  \/ /\ Status(b) \in Closed \union {"CONFIRMED"}
     /\ UNCHANGED <<bookings, queue>>

\* Fault: a booking closed before the payment came is confirmed.
Settled_AnyStatus(b) ==
  /\ SetStatus(b, "CONFIRMED")
  /\ Send({"commit"}, b)

Settled(b) ==
  \/ /\ Status(b) = "PENDING_PAYMENT"
     /\ SetStatus(b, "CONFIRMED")
     /\ Send({"commit"}, b)
  \/ /\ Status(b) \in Closed
     /\ Send({"refund"}, b)
     /\ UNCHANGED bookings
  \/ /\ Status(b) = "CONFIRMED"
     /\ UNCHANGED <<bookings, queue>>

ConsumePaymentSucceeded(b) ==
  /\ Handle(b, "PaymentSucceeded")
  /\ bookings[b].hasPaymentId
  /\ Unlocked(b)
  /\ Settled(b)
  /\ UNCHANGED <<now, seats, checkout, read, paymentVars, dead>>

ConsumePaymentExpired(b) ==
  /\ Handle(b, "PaymentExpired")
  /\ bookings[b].hasPaymentId
  /\ Unlocked(b)
  /\ ExpirePendingBooking(b)
  /\ UNCHANGED <<now, seats, checkout, read, paymentVars, dead>>

\* No booking has the payment id, or another error: the handler throws and
\* the subscriber rejects the message without requeueing it.
DeadLetter(b, e) ==
  /\ Handle(b, e)
  /\ ~ bookings[b].hasPaymentId \/ "lost_message" \in Faults
  /\ dead' = dead \union {<<b, e>>}
  /\ UNCHANGED <<now, seats, bookings, checkout, read, paymentVars, queue>>

-----------------------------------------------------------------------------
(* Cancelling, and the booking service's timers.                           *)

RefundDue(b) == bookings[b].hasPaymentId /\ status[b] = "SUCCEEDED"

\* Fault: the hold token is left out although the commit may not have run.
ConfirmedRelease_NoToken(b) == "releaseBooking"

ConfirmedRelease(b) ==
  IF bookings[b].seatCommitted THEN "releaseBooking" ELSE "releaseBoth"

(***************************************************************************)
(* One transaction under the row lock, with two HTTP calls in it.  Nothing *)
(* the other services do between those calls and the commit depends on the *)
(* booking's row, so they are read in the same step.                       *)
(***************************************************************************)
CancelBooking(b) ==
  /\ Status(b) \in Active
  /\ Unlocked(b)
  /\ checkout[b] = "ended" \/ "slow_checkout" \in Faults
  /\ \E refund \in {RefundDue(b)}
                     \union (IF "payment_lookup" \in Faults THEN {FALSE} ELSE {}) :
       Send({IF Status(b) = "PENDING_PAYMENT" THEN "releaseHold"
                                              ELSE ConfirmedRelease(b)}
              \union (IF refund THEN {"refund"} ELSE {}), b)
  /\ SetStatus(b, "CANCELED")
  /\ UNCHANGED <<now, seats, checkout, read, paymentVars, eventVars>>

\* Fault: the hold's expiry is not compared with the clock.
Overdue_Never(b) == FALSE

Overdue(b) ==
  /\ Status(b) = "PENDING_PAYMENT"
  /\ bookings[b].seatHoldExpiresAt <= now

\* The pending seat sweeper; the next checkout of the same user and flight
\* does the same to the bookings it finds.
SweepPendingBooking(b) ==
  /\ Overdue(b)
  /\ Unlocked(b)
  /\ ExpirePendingBooking(b)
  /\ UNCHANGED <<now, seats, checkout, read, paymentVars, eventVars>>

\* The seat commit reconciler locks the booking and asks for the seat.
ReadSeatState(b) ==
  /\ Status(b) = "CONFIRMED"
  /\ ~ bookings[b].seatCommitted
  /\ Unlocked(b)
  /\ queue[<<"commit", b>>] < MaxCopies
  /\ read' = [read EXCEPT ![b] = seats[bookings[b].seatNumber]]
  /\ UNCHANGED <<now, seats, bookings, checkout, paymentVars, eventVars, queue>>

\* Fault: a booked seat is taken for the booking's without asking whose it is.
SeenCommitted_AnyOwner(b) == read[b].seatState = "BOOKED"

SeenCommitted(b) == S!BookedBy(read[b], b)

\* Fault: the customer of a booking whose seat is gone is not refunded.
Compensation_Nothing(b) == {}

Compensation(b) == {"refund"}

\* It does not compare the hold's token with the booking's.
SeenHeld(b) == read[b].seatState = "HELD" /\ read[b].holdExpiresAt > now

ReconcileSeatCommit(b) ==
  /\ ~ Unlocked(b)
  /\ read' = [read EXCEPT ![b] = None]
  /\ \/ /\ SeenCommitted(b)
        /\ bookings' = [bookings EXCEPT ![b].seatCommitted = TRUE]
        /\ UNCHANGED queue
     \/ /\ ~ SeenCommitted(b)
        /\ SeenHeld(b)
        /\ Send({"commit"}, b)
        /\ UNCHANGED bookings
     \/ /\ ~ SeenCommitted(b)
        /\ ~ SeenHeld(b)
        /\ SetStatus(b, "CANCELED")
        /\ Send(Compensation(b), b)
  /\ UNCHANGED <<now, seats, checkout, paymentVars, eventVars>>

-----------------------------------------------------------------------------
(* The flight service.  SeatInventory models its consumers in two steps    *)
(* each; here a message takes effect in one, or is lost.                   *)

Change(b, row) ==
  /\ seats' = [seats EXCEPT ![bookings[b].seatNumber] = row]
  /\ UNCHANGED <<now, bookings, checkout, read, paymentVars, eventVars>>

SeatOf(b) == seats[bookings[b].seatNumber]

ConsumeSeatCommit(b) ==
  /\ Receive("commit", b)
  /\ Change(b, S!CommittedRow(SeatOf(b), b, b, now))

ConsumeSeatRelease(b) ==
  \/ Receive("releaseHold", b) /\ Change(b, S!ReleasedRow(SeatOf(b), b, None))
  \/ Receive("releaseBoth", b) /\ Change(b, S!ReleasedRow(SeatOf(b), b, b))
  \/ Receive("releaseBooking", b) /\ Change(b, S!ReleasedRow(SeatOf(b), None, b))

\* A message to the flight or the payment service is lost in its consumer.
LoseMessage(kind, b) ==
  /\ "lost_message" \in Faults
  /\ Receive(kind, b)
  /\ UNCHANGED <<now, seats, bookings, checkout, read, paymentVars, eventVars>>

\* Somebody outside the saga books a seat at once.
ReserveSeatLegacy(s) ==
  /\ S!ReclaimableSeatCondition(seats[s], now)
  /\ seats' = [seats EXCEPT ![s] = S!BookedSeatValues(None)]
  /\ UNCHANGED <<now, bookings, checkout, read, paymentVars, eventVars, queue>>

SweepExpiredHolds ==
  /\ \E s \in Seat : S!HoldExpired(seats[s], now)
  /\ seats' = [s \in Seat |-> S!SweptRow(seats[s], now)]
  /\ UNCHANGED <<now, bookings, checkout, read, paymentVars, eventVars, queue>>

InCheckout(b) == checkout[b] \notin {"idle", "ended"}

Tick ==
  /\ now < MaxTime
  /\ now' = now + 1
  /\ \/ "slow_checkout" \in Faults
     \/ \A b \in Booking : InCheckout(b) => now' < bookings[b].seatHoldExpiresAt
  /\ "slow_reconciler" \in Faults \/ \A b \in Booking : Unlocked(b)
  /\ UNCHANGED <<seats, bookings, checkout, read, paymentVars, eventVars, queue>>

Next ==
  \/ \E b \in Booking, s \in Seat : ReserveSeat(b, s)
  \/ \E b \in Booking : InsertBooking(b)
  \/ \E b \in Booking : InsertBookingFails(b)
  \/ \E b \in Booking : CreatePaymentIntent(b)
  \/ \E b \in Booking : CreatePaymentIntentFails(b)
  \/ \E b \in Booking : LoadForUpdate(b)
  \/ \E b \in Booking : UpdateBooking(b)
  \/ \E b \in Booking : FailCheckout(b)
  \/ \E b \in Booking : CrashCheckout(b)
  \/ \E b \in Booking : PaymentStep(b)
  \/ \E b \in Booking : ConsumeRefundRequest(b)
  \/ \E b \in Booking : ConsumePaymentSucceeded(b)
  \/ \E b \in Booking : ConsumePaymentExpired(b)
  \/ \E b \in Booking, e \in ConsumedEvent : DeadLetter(b, e)
  \/ \E b \in Booking : CancelBooking(b)
  \/ \E b \in Booking : SweepPendingBooking(b)
  \/ \E b \in Booking : ReadSeatState(b)
  \/ \E b \in Booking : ReconcileSeatCommit(b)
  \/ \E b \in Booking : ConsumeSeatCommit(b)
  \/ \E b \in Booking : ConsumeSeatRelease(b)
  \/ \E kind \in MessageKind, b \in Booking : LoseMessage(kind, b)
  \/ \E s \in Seat : ReserveSeatLegacy(s)
  \/ SweepExpiredHolds
  \/ Tick

Spec == Init /\ [][Next]_vars

(***************************************************************************)
(* A checkout request runs on; queues are drained; the timers fire.  No    *)
(* fairness is asked of customers, administrators and payments.            *)
(***************************************************************************)
Fairness ==
  /\ SF_vars(Tick)
  /\ WF_vars(SweepExpiredHolds)
  /\ \A b \in Booking :
       /\ WF_vars(InsertBooking(b) \/ InsertBookingFails(b))
       /\ WF_vars(CreatePaymentIntent(b) \/ CreatePaymentIntentFails(b))
       /\ WF_vars(LoadForUpdate(b)) /\ WF_vars(UpdateBooking(b))
       /\ WF_vars(FailCheckout(b))
       /\ WF_vars(ConsumeRefundRequest(b))
       /\ WF_vars(ConsumePaymentSucceeded(b)) /\ WF_vars(ConsumePaymentExpired(b))
       /\ WF_vars(SweepPendingBooking(b))
       /\ SF_vars(ReadSeatState(b)) /\ WF_vars(ReconcileSeatCommit(b))
       /\ WF_vars(ConsumeSeatCommit(b)) /\ WF_vars(ConsumeSeatRelease(b))

FairSpec == Spec /\ Fairness

-----------------------------------------------------------------------------
(* Properties.                                                             *)

OwnsSeat(b) == \E s \in Seat : S!BookedBy(seats[s], b)

HoldsSeat(b) == \E s \in Seat : S!HeldBy(seats[s], b)

\* A confirmed booking whose seat is recorded as committed owns the seat:
\* no message still under way, stale or repeated, and no other checkout
\* takes it away while the booking stands.
CommittedBookingOwnsSeat ==
  \A b \in Booking :
    Status(b) = "CONFIRMED" /\ bookings[b].seatCommitted => OwnsSeat(b)

\* Nobody flies for nothing: a confirmed booking's payment has succeeded,
\* and a refund is paid only for a booking that is closed.
MoneyFollowsBooking ==
  \A b \in Booking :
    /\ Status(b) = "CONFIRMED" => status[b] = "SUCCEEDED"
    /\ b \in refunded => Status(b) \in Closed

\* Who has paid gets the seat or the money back, in whatever order the
\* payment, its expiry, the cancellation and the seat's commit happen.
PaidIsHonoured ==
  \A b \in Booking :
    status[b] = "SUCCEEDED" ~>
      \/ b \in refunded
      \/ Status(b) = "CONFIRMED" /\ OwnsSeat(b)

\* A payment that was taken is never left to nobody: until the refund or the
\* confirmation, a message that leads to one of them is under way.  This is what
\* must stay true at every step for PaidIsHonoured to come about.
PaidIsAccountedFor ==
  \A b \in Booking :
    status[b] = "SUCCEEDED" =>
      \/ b \in refunded
      \/ queue[<<"refund", b>>] > 0
      \/ Status(b) = "CONFIRMED"
      \/ Undelivered(b, "PaymentSucceeded") /\ bookings[b].hasPaymentId

\* Once the release of a booking is requested, the booking lets go of its
\* seat for good, whatever of its commits is still under way.
ReleasedBookingFreesSeat ==
  \A b \in Booking :
    (\E kind \in ReleaseKind : queue[<<kind, b>>] > 0)
      ~> [](~ OwnsSeat(b) /\ ~ HoldsSeat(b))

\* A release, whichever kind a booking was closed with, frees its seat, and a
\* seat that a booking has let go of does not come back to it: a hold that was
\* not the booking's any more is not committed, and a late commit finds nothing.
ReleaseFreesForGood ==
  [][\A b \in Booking :
       \/ ConsumeSeatRelease(b)
       \/ checkout[b] # "idle" /\ ~ OwnsSeat(b) /\ ~ HoldsSeat(b)
       => ~ OwnsSeat(b)' /\ ~ HoldsSeat(b)']_vars

\* A booking that was cancelled or expired stays so, whatever fails, is late or
\* is repeated.  Only its own checkout opens it again, and only if updateBooking
\* loads the row after it was closed (create-booking.ts:281); the payment of
\* such a booking is not refunded, and no refund of it is on its way.
ReopenedOnlyByItsCheckout ==
  [][\A b \in Booking :
       Status(b) \in Closed /\ Status(b)' # Status(b) =>
         /\ checkout[b] = "resurrecting" /\ UpdateBooking(b)
         /\ b \notin refunded /\ queue[<<"refund", b>>] = 0]_vars

\* No booking waits for its payment for ever, whatever was lost.
PendingBookingsEnd ==
  \A b \in Booking :
    Status(b) = "PENDING_PAYMENT" ~> Status(b) # "PENDING_PAYMENT"
=============================================================================
