------------------------ MODULE BookingSagaProofs ---------------------------
(***************************************************************************)
(* Theorems about BookingSaga, for every set of bookings and seats, every  *)
(* set of faults and every bound.                                          *)
(***************************************************************************)
EXTENDS BookingSaga, TLAPS

-----------------------------------------------------------------------------
(* Types.                                                                  *)

\* A booking whose checkout took a seat has one.
Seated == \A b \in Booking : checkout[b] # "idle" => bookings[b].seatNumber \in Seat

\* The reconciler holds the row of a confirmed booking; a booking has a status
\* only after its checkout inserted it.
Inserted ==
  \A b \in Booking :
    /\ Status(b) # "NONE" => checkout[b] \notin {"idle", "reserved"}
    /\ ~ Unlocked(b) => Status(b) = "CONFIRMED"

LEMMA RowTypes ==
  /\ S!AvailableSeatValues \in S!SeatRow
  /\ \A b \in Booking \union {None} : S!BookedSeatValues(b) \in S!SeatRow
  /\ \A b \in Booking : \A t \in Nat : S!HeldSeatValues(b, t) \in S!SeatRow
BY DEF S!SeatRow, S!SeatState, S!AvailableSeatValues, S!BookedSeatValues, S!HeldSeatValues

LEMMA StatementTypes ==
  ASSUME NEW row \in S!SeatRow, NEW b \in Booking,
         NEW token \in Booking \union {None}, NEW owner \in Booking \union {None}, NEW t \in Nat
  PROVE  /\ S!CommittedRow(row, token, b, t) \in S!SeatRow
         /\ S!ReleasedRow(row, token, owner) \in S!SeatRow
         /\ S!SweptRow(row, t) \in S!SeatRow
BY RowTypes DEF S!CommittedRow, S!ReleasedRow, S!SweptRow

\* What a message sent, or received, leaves of the queue.
LEMMA SendTypes ==
  ASSUME TypeOK, NEW b \in Booking, NEW kinds, Send(kinds, b)
  PROVE  /\ queue' \in [MessageKind \X Booking -> Nat]
         /\ \A k \in MessageKind : \A c \in Booking :
              queue'[<<k, c>>] =
                queue[<<k, c>>] + (IF k \in kinds /\ c = b THEN 1 ELSE 0)
<1>1. queue \in [MessageKind \X Booking -> Nat]
  BY DEF TypeOK
<1>2. queue' = [m \in MessageKind \X Booking |->
                 queue[m] + (IF m[1] \in kinds /\ m[2] = b THEN 1 ELSE 0)]
  BY <1>1 DEF Send
<1>3. QED
  BY <1>1, <1>2

LEMMA ReceiveTypes ==
  ASSUME TypeOK, NEW b \in Booking, NEW kind \in MessageKind, Receive(kind, b)
  PROVE  /\ queue' \in [MessageKind \X Booking -> Nat]
         /\ queue[<<kind, b>>] > 0
         /\ \A m \in MessageKind \X Booking : queue'[m] <= queue[m]
<1>1. queue \in [MessageKind \X Booking -> Nat] /\ <<kind, b>> \in MessageKind \X Booking
  BY DEF TypeOK
<1>2. QED
  BY <1>1 DEF Receive

LEMMA Kinds ==
  /\ {"commit", "refund", "releaseHold", "releaseBoth", "releaseBooking"} = MessageKind
  /\ {"PaymentSucceeded", "PaymentExpired"} = ConsumedEvent
BY DEF MessageKind, ReleaseKind, ConsumedEvent

\* The payments change as their contract says.
LEMMA PaymentTypes ==
  ASSUME TypeOK, NEW b \in Booking
  PROVE  P!Create(b) \/ PaymentStep(b) \/ P!Refund(b) =>
           /\ status' \in [Booking -> P!PaymentStatus] /\ refunded' \subseteq Booking
           /\ emitted' \in [Booking -> [P!EventType -> Nat]]
<1>1. ASSUME NEW e \in P!EventType, P!Emit(b, e)
      PROVE  emitted' \in [Booking -> [P!EventType -> Nat]]
  BY <1>1 DEF TypeOK, P!Emit
<1>2. ASSUME NEW x \in P!PaymentStatus, P!Become(b, x)
      PROVE  status' \in [Booking -> P!PaymentStatus]
  BY <1>2 DEF TypeOK, P!Become
<1>3. /\ {"PENDING", "PROCESSING", "FAILED", "SUCCEEDED", "EXPIRED"} \subseteq P!PaymentStatus
      /\ {"PaymentSucceeded", "PaymentFailed", "PaymentExpired", "PaymentRefunded"}
           = P!EventType
  BY DEF P!PaymentStatus, P!EventType
<1>4. CASE P!Create(b)
  BY <1>2, <1>3, <1>4 DEF P!Create, TypeOK
<1>5. CASE P!Refund(b)
  BY <1>1, <1>3, <1>5 DEF P!Refund, TypeOK
<1>6. CASE PaymentStep(b)
  <2>1. CASE P!Stall(b)
    BY <1>2, <1>3, <2>1 DEF P!Stall, TypeOK
  <2>2. CASE P!Decline(b)
    BY <1>1, <1>2, <1>3, <2>2 DEF P!Decline, TypeOK
  <2>3. CASE P!Settle(b)
    BY <1>1, <1>2, <1>3, <2>3 DEF P!Settle, TypeOK
  <2>4. CASE P!Expire(b)
    BY <1>1, <1>2, <1>3, <2>4 DEF P!Expire, TypeOK
  <2>5. CASE P!ExpireSilently(b)
    BY <1>2, <1>3, <2>5 DEF P!ExpireSilently, TypeOK
  <2>6. QED
    BY <1>6, <2>1, <2>2, <2>3, <2>4, <2>5 DEF PaymentStep
<1>7. QED
  BY <1>4, <1>5, <1>6

\* What writing a status, or moving a checkout on, changes and what not.
LEMMA StatusWritten ==
  ASSUME TypeOK, NEW b \in Booking, NEW x \in BookingStatus, SetStatus(b, x)
  PROVE  /\ bookings' \in [Booking -> BookingRow]
         /\ Status(b)' = x
         /\ \A c \in Booking : /\ c # b => bookings'[c] = bookings[c]
                              /\ bookings'[c].seatNumber = bookings[c].seatNumber
                              /\ bookings'[c].hasPaymentId = bookings[c].hasPaymentId
                              /\ bookings'[c].seatCommitted = bookings[c].seatCommitted
                              /\ bookings'[c].seatHoldExpiresAt
                                   = bookings[c].seatHoldExpiresAt
BY DEF TypeOK, SetStatus, BookingRow, Status

LEMMA CheckoutMoved ==
  ASSUME TypeOK, NEW b \in Booking, NEW pc \in CheckoutState, Goto(b, pc)
  PROVE  /\ checkout' \in [Booking -> CheckoutState]
         /\ checkout'[b] = pc
         /\ \A c \in Booking : c # b => checkout'[c] = checkout[c]
BY DEF TypeOK, Goto

LEMMA Expired ==
  ASSUME TypeOK, NEW b \in Booking, ExpirePendingBooking(b)
  PROVE  /\ bookings' \in [Booking -> BookingRow]
         /\ queue' \in [MessageKind \X Booking -> Nat]
         /\ Status(b)' = IF Status(b) = "PENDING_PAYMENT" THEN "EXPIRED" ELSE Status(b)
         /\ \A c \in Booking : /\ c # b => bookings'[c] = bookings[c]
                              /\ bookings'[c].seatNumber = bookings[c].seatNumber
                              /\ bookings'[c].hasPaymentId = bookings[c].hasPaymentId
                              /\ bookings'[c].seatCommitted = bookings[c].seatCommitted
                              /\ bookings'[c].seatHoldExpiresAt
                                   = bookings[c].seatHoldExpiresAt
         /\ \A k \in MessageKind : \A c \in Booking :
              k # "releaseHold" => queue'[<<k, c>>] = queue[<<k, c>>]
<1>1. CASE Status(b) = "PENDING_PAYMENT"
  <2>1. SetStatus(b, "EXPIRED") /\ Send({"releaseHold"}, b)
    BY <1>1 DEF ExpirePendingBooking
  <2>2. "EXPIRED" \in BookingStatus
    BY DEF BookingStatus
  <2>3. \A k \in MessageKind : \A c \in Booking :
          k # "releaseHold" => queue'[<<k, c>>] = queue[<<k, c>>]
    <3> SUFFICES ASSUME NEW k \in MessageKind, NEW c \in Booking, k # "releaseHold"
                 PROVE  queue'[<<k, c>>] = queue[<<k, c>>]
      OBVIOUS
    <3>1. queue[<<k, c>>] \in Nat
      BY DEF TypeOK
    <3>2. QED
      BY <2>1, <3>1, SendTypes
  <2>4. QED
    BY <1>1, <2>1, <2>2, <2>3, StatusWritten, SendTypes
<1>2. CASE Status(b) # "PENDING_PAYMENT"
  BY <1>2 DEF ExpirePendingBooking, TypeOK, Status
<1>3. QED
  BY <1>1, <1>2

LEMMA HandledTypes ==
  ASSUME TypeOK, NEW b \in Booking, NEW e \in ConsumedEvent, Handle(b, e)
  PROVE  handled' \in [Booking -> [ConsumedEvent -> Nat]]
BY DEF Handle, TypeOK

LEMMA SeatTypes ==
  ASSUME TypeOK, NEW b \in Booking, NEW row,
         bookings[b].seatNumber \in Seat => row \in S!SeatRow,
         Change(b, row)
  PROVE  seats' \in [Seat -> S!SeatRow]
BY DEF Change, TypeOK

\* A step of one booking, whose seat stays what it was.
LEMMA BookingStep ==
  ASSUME Seated, Inserted, NEW b \in Booking, checkout[b] # "idle",
         bookings'[b].seatNumber = bookings[b].seatNumber,
         \A c \in Booking : c # b => /\ bookings'[c] = bookings[c]
                                   /\ checkout'[c] = checkout[c]
                                   /\ read'[c] = read[c],
         checkout'[b] \notin {"idle", "reserved"},
         read'[b] # None => Status(b)' = "CONFIRMED"
  PROVE  Seated' /\ Inserted'
BY DEF Seated, Inserted, Status, Unlocked

LEMMA ExpiryStep ==
  ASSUME TypeOK, Seated, Inserted, NEW b \in Booking, ExpirePendingBooking(b),
         Unlocked(b), UNCHANGED checkout, UNCHANGED read
  PROVE  Seated' /\ Inserted'
<1>1. /\ bookings'[b].seatNumber = bookings[b].seatNumber
      /\ \A c \in Booking : c # b => bookings'[c] = bookings[c]
      /\ Status(b)' = IF Status(b) = "PENDING_PAYMENT" THEN "EXPIRED" ELSE Status(b)
  BY Expired
<1>2. CASE Status(b) = "PENDING_PAYMENT"
  BY <1>1, <1>2, BookingStep DEF Inserted, Unlocked
<1>3. CASE Status(b) # "PENDING_PAYMENT"
  BY <1>1, <1>3 DEF Seated, Inserted, Status, Unlocked
<1>4. QED
  BY <1>2, <1>3

LEMMA TypesHold == Spec => [](TypeOK /\ Seated /\ Inserted)
<1>1. Init => TypeOK /\ Seated /\ Inserted
  BY SagaAssumption, RowTypes
  DEF Init, TypeOK, Seated, Inserted, Status, Unlocked, BookingRow, BookingStatus,
      CheckoutState, P!Init, P!PaymentStatus, P!EventType, MessageKind, ReleaseKind
<1>2. TypeOK /\ Seated /\ Inserted /\ [Next]_vars => TypeOK' /\ Seated' /\ Inserted'
  <2> SUFFICES ASSUME TypeOK, Seated, Inserted, [Next]_vars
               PROVE  TypeOK' /\ Seated' /\ Inserted'
    OBVIOUS
  <2>0. /\ BookingStatus = {"NONE", "PENDING_PAYMENT", "CONFIRMED", "EXPIRED", "CANCELED"}
        /\ CheckoutState = {"idle", "reserved", "inserted", "intended", "saving",
                            "resurrecting", "failing", "ended"}
        /\ None \notin Booking /\ None \notin Seat
        /\ HoldTime \in Nat /\ MaxTime \in Nat /\ now \in Nat
    BY SagaAssumption DEF BookingStatus, CheckoutState, TypeOK
  <2>1. CASE \E b \in Booking, s \in Seat : ReserveSeat(b, s)
    <3>1. PICK b \in Booking, s \in Seat : ReserveSeat(b, s)
      BY <2>1
    <3> DEFINE until == now + HoldTime
    <3>0. until \in Nat
      BY <2>0
    <3>2. seats' \in [Seat -> S!SeatRow]
      <4>1. S!HeldSeatValues(b, until) \in S!SeatRow
        BY <3>0, RowTypes
      <4>2. QED
        BY <3>1, <4>1 DEF ReserveSeat, TypeOK
    <3>3. /\ bookings' \in [Booking -> BookingRow] /\ bookings'[b].seatNumber = s
          /\ \A c \in Booking : /\ c # b => bookings'[c] = bookings[c]
                               /\ Status(c)' = Status(c)
      <4>1. bookings' = [bookings EXCEPT ![b] =
              [bookings[b] EXCEPT !.seatNumber = s, !.seatHoldExpiresAt = until]]
        BY <3>1 DEF ReserveSeat, TypeOK
      <4> HIDE DEF until
      <4>2. bookings[b] \in BookingRow
        BY DEF TypeOK
      <4>3. [bookings[b] EXCEPT !.seatNumber = s, !.seatHoldExpiresAt = until] \in BookingRow
        BY <3>0, <4>2 DEF BookingRow
      <4>4. QED
        BY <4>1, <4>2, <4>3 DEF TypeOK, Status, BookingRow
    <3>4. Goto(b, "reserved")
      BY <3>1 DEF ReserveSeat
    <3>5. /\ checkout' \in [Booking -> CheckoutState] /\ checkout'[b] = "reserved"
          /\ \A c \in Booking : c # b => checkout'[c] = checkout[c]
      BY <2>0, <3>4, CheckoutMoved
    <3>6. TypeOK' /\ Seated'
      BY <3>1, <3>2, <3>3, <3>5 DEF ReserveSeat, TypeOK, Seated, paymentVars, eventVars
    <3>7. Inserted'
      BY <3>1, <3>3, <3>5 DEF ReserveSeat, Inserted, Unlocked
    <3>8. QED
      BY <3>6, <3>7
  <2>2. CASE \E b \in Booking : InsertBooking(b)
    <3>1. PICK b \in Booking : InsertBooking(b)
      BY <2>2
    <3>2. SetStatus(b, "PENDING_PAYMENT") /\ Goto(b, "inserted") /\ checkout[b] = "reserved"
      BY <3>1 DEF InsertBooking
    <3>3. QED
      <4>1. TypeOK'
        BY <2>0, <3>1, <3>2, StatusWritten, CheckoutMoved
        DEF InsertBooking, TypeOK, paymentVars, eventVars
      <4>2. checkout'[b] = "inserted" /\ \A c \in Booking : c # b => checkout'[c] = checkout[c]
        BY <2>0, <3>2, CheckoutMoved
      <4>3. /\ bookings'[b].seatNumber = bookings[b].seatNumber
            /\ \A c \in Booking : c # b => bookings'[c] = bookings[c]
        BY <2>0, <3>2, StatusWritten
      <4>4. read' = read /\ read[b] = None
        BY <3>1, <3>2 DEF InsertBooking, Inserted, Unlocked
      <4>5. QED
        BY <3>2, <4>1, <4>2, <4>3, <4>4, BookingStep
  <2>3. CASE \E b \in Booking : InsertBookingFails(b)
    <3>1. PICK b \in Booking : InsertBookingFails(b)
      BY <2>3
    <3>2. Goto(b, "ended") /\ checkout[b] = "reserved"
      BY <3>1 DEF InsertBookingFails
    <3>3. queue' \in [MessageKind \X Booking -> Nat]
      BY <3>1, SendTypes DEF InsertBookingFails, TypeOK
    <3>4. QED
      BY <2>0, <3>1, <3>2, <3>3, CheckoutMoved
      DEF InsertBookingFails, TypeOK, Seated, Inserted, Status, Unlocked, paymentVars, eventVars
  <2>4. CASE \E b \in Booking : CreatePaymentIntent(b) \/ CreatePaymentIntentFails(b)
    <3>1. PICK b \in Booking : CreatePaymentIntent(b) \/ CreatePaymentIntentFails(b)
      BY <2>4
    <3>2. /\ Goto(b, "intended") \/ Goto(b, "failing")
          /\ checkout[b] = "inserted"
          /\ P!Create(b) \/ UNCHANGED paymentVars
          /\ UNCHANGED <<now, seats, bookings, read, eventVars, queue>>
      BY <3>1 DEF CreatePaymentIntent, CreatePaymentIntentFails
    <3>3. /\ status' \in [Booking -> P!PaymentStatus] /\ refunded' \subseteq Booking
          /\ emitted' \in [Booking -> [P!EventType -> Nat]]
      BY <3>2, PaymentTypes DEF TypeOK, paymentVars
    <3>4. QED
      BY <2>0, <3>2, <3>3, CheckoutMoved
      DEF TypeOK, Seated, Inserted, Status, Unlocked, eventVars
  <2>5. CASE \E b \in Booking : LoadForUpdate(b) \/ CrashCheckout(b)
    <3>1. PICK b \in Booking, pc \in {"saving", "resurrecting", "ended"} :
            /\ Goto(b, pc) /\ checkout[b] # "idle"
            /\ UNCHANGED <<now, seats, bookings, read, paymentVars, eventVars, queue>>
      BY <2>5 DEF LoadForUpdate, CrashCheckout
    <3>2. QED
      BY <2>0, <3>1, CheckoutMoved
      DEF TypeOK, Seated, Inserted, Status, Unlocked, paymentVars, eventVars
  <2>6. CASE \E b \in Booking : UpdateBooking(b)
    <3>1. PICK b \in Booking : UpdateBooking(b)
      BY <2>6
    <3>2. PICK pc \in {"ended", "failing"} : Goto(b, pc)
      BY <3>1 DEF UpdateBooking
    <3>3. /\ bookings' \in [Booking -> BookingRow]
          /\ bookings'[b].seatNumber = bookings[b].seatNumber
          /\ \A c \in Booking : c # b => bookings'[c] = bookings[c]
      <4> DEFINE x == IF checkout[b] = "resurrecting" THEN "PENDING_PAYMENT"
                                                     ELSE bookings[b].bookingStatus
      <4>1. bookings[b] \in BookingRow
        BY DEF TypeOK
      <4>2. x \in BookingStatus
        BY <2>0, <4>1 DEF BookingRow
      <4>3. bookings' = [bookings EXCEPT ![b] =
              [bookings[b] EXCEPT !.hasPaymentId = TRUE, !.bookingStatus = x]]
        BY <3>1 DEF UpdateBooking, TypeOK, BookingRow
      <4> HIDE DEF x
      <4>4. QED
        BY <4>1, <4>2, <4>3 DEF TypeOK, BookingRow
    <3>4. checkout[b] # "idle" /\ Unlocked(b)
      BY <3>1 DEF UpdateBooking
    <3>5. QED
      BY <2>0, <3>1, <3>2, <3>3, <3>4, CheckoutMoved
      DEF UpdateBooking, TypeOK, Seated, Inserted, Status, Unlocked, paymentVars, eventVars
  <2>7. CASE \E b \in Booking : FailCheckout(b)
    <3>1. PICK b \in Booking : FailCheckout(b)
      BY <2>7
    <3>2. ExpirePendingBooking(b) /\ Goto(b, "ended") /\ checkout[b] = "failing" /\ Unlocked(b)
      BY <3>1 DEF FailCheckout
    <3>3. QED
      <4>1. TypeOK'
        BY <2>0, <3>1, <3>2, Expired, CheckoutMoved
        DEF FailCheckout, TypeOK, paymentVars, eventVars
      <4>2. checkout'[b] = "ended" /\ \A c \in Booking : c # b => checkout'[c] = checkout[c]
        BY <2>0, <3>2, CheckoutMoved
      <4>3. /\ bookings'[b].seatNumber = bookings[b].seatNumber
            /\ \A c \in Booking : c # b => bookings'[c] = bookings[c]
        BY <3>2, Expired
      <4>4. read' = read /\ read[b] = None
        BY <3>1, <3>2 DEF FailCheckout, Unlocked
      <4>5. QED
        BY <3>2, <4>1, <4>2, <4>3, <4>4, BookingStep
  <2>8. CASE \E b \in Booking : PaymentStep(b)
    <3>1. PICK b \in Booking : PaymentStep(b)
      BY <2>8
    <3>2. QED
      BY <3>1, PaymentTypes
      DEF PaymentStep, TypeOK, Seated, Inserted, Status, Unlocked, eventVars
  <2>9. CASE \E b \in Booking : ConsumeRefundRequest(b)
    <3>1. PICK b \in Booking : ConsumeRefundRequest(b)
      BY <2>9
    <3>2. Receive("refund", b) /\ (P!Refund(b) \/ UNCHANGED paymentVars)
      BY <3>1 DEF ConsumeRefundRequest
    <3>3. queue' \in [MessageKind \X Booking -> Nat]
      BY <3>2, Kinds, ReceiveTypes
    <3>4. /\ status' \in [Booking -> P!PaymentStatus] /\ refunded' \subseteq Booking
          /\ emitted' \in [Booking -> [P!EventType -> Nat]]
      BY <3>2, PaymentTypes DEF TypeOK, paymentVars
    <3>5. QED
      BY <3>1, <3>3, <3>4
      DEF ConsumeRefundRequest, TypeOK, Seated, Inserted, Status, Unlocked, eventVars
  <2>10. CASE \E b \in Booking : ConsumePaymentSucceeded(b)
    <3>1. PICK b \in Booking : ConsumePaymentSucceeded(b)
      BY <2>10
    <3>2. handled' \in [Booking -> [ConsumedEvent -> Nat]]
      BY <3>1, Kinds, HandledTypes DEF ConsumePaymentSucceeded
    <3>3. queue' \in [MessageKind \X Booking -> Nat]
      BY <3>1, SendTypes DEF ConsumePaymentSucceeded, Settled, TypeOK
    <3>4. \/ SetStatus(b, "CONFIRMED") /\ Status(b) = "PENDING_PAYMENT"
          \/ UNCHANGED bookings
      BY <3>1 DEF ConsumePaymentSucceeded, Settled
    <3>5. QED
      <4>1. UNCHANGED <<now, seats, checkout, read, paymentVars, dead>> /\ Unlocked(b)
        BY <3>1 DEF ConsumePaymentSucceeded
      <4>2. CASE UNCHANGED bookings
        BY <3>2, <3>3, <4>1, <4>2
        DEF TypeOK, Seated, Inserted, Status, Unlocked, paymentVars
      <4>3. CASE SetStatus(b, "CONFIRMED") /\ Status(b) = "PENDING_PAYMENT"
        <5>1. /\ bookings' \in [Booking -> BookingRow]
              /\ bookings'[b].seatNumber = bookings[b].seatNumber
              /\ \A c \in Booking : c # b => bookings'[c] = bookings[c]
          BY <2>0, <4>3, StatusWritten
        <5>2. TypeOK'
          BY <3>2, <3>3, <4>1, <5>1 DEF TypeOK, paymentVars
        <5>3. checkout[b] \notin {"idle", "reserved"}
          BY <4>3 DEF Inserted
        <5>4. QED
          BY <4>1, <5>1, <5>2, <5>3, BookingStep DEF Unlocked
      <4>4. QED
        BY <3>4, <4>2, <4>3
  <2>11. CASE \E b \in Booking : ConsumePaymentExpired(b)
    <3>1. PICK b \in Booking : ConsumePaymentExpired(b)
      BY <2>11
    <3>2. handled' \in [Booking -> [ConsumedEvent -> Nat]]
      BY <3>1, Kinds, HandledTypes DEF ConsumePaymentExpired
    <3>3. ExpirePendingBooking(b) /\ Unlocked(b)
      BY <3>1 DEF ConsumePaymentExpired
    <3>4. QED
      <4>1. UNCHANGED <<now, seats, checkout, read, paymentVars, dead>>
        BY <3>1 DEF ConsumePaymentExpired
      <4>2. TypeOK'
        BY <3>2, <3>3, <4>1, Expired DEF TypeOK, paymentVars
      <4>3. QED
        BY <3>3, <4>1, <4>2, ExpiryStep
  <2>12. CASE \E b \in Booking, e \in ConsumedEvent : DeadLetter(b, e)
    <3>1. PICK b \in Booking, e \in ConsumedEvent : DeadLetter(b, e)
      BY <2>12
    <3>2. handled' \in [Booking -> [ConsumedEvent -> Nat]]
      BY <3>1, HandledTypes DEF DeadLetter
    <3>3. QED
      BY <3>1, <3>2
      DEF DeadLetter, TypeOK, Seated, Inserted, Status, Unlocked, paymentVars
  <2>13. CASE \E b \in Booking : CancelBooking(b)
    <3>1. PICK b \in Booking : CancelBooking(b)
      BY <2>13
    <3>2. SetStatus(b, "CANCELED") /\ Unlocked(b) /\ Status(b) # "NONE"
      BY <3>1 DEF CancelBooking, Active
    <3>3. queue' \in [MessageKind \X Booking -> Nat]
      BY <3>1, SendTypes DEF CancelBooking
    <3>4. QED
      <4>1. UNCHANGED <<now, seats, checkout, read, paymentVars, eventVars>>
        BY <3>1 DEF CancelBooking
      <4>2. /\ bookings' \in [Booking -> BookingRow]
            /\ bookings'[b].seatNumber = bookings[b].seatNumber
            /\ \A c \in Booking : c # b => bookings'[c] = bookings[c]
        BY <2>0, <3>2, StatusWritten
      <4>3. TypeOK'
        BY <3>3, <4>1, <4>2 DEF TypeOK, paymentVars, eventVars
      <4>4. checkout[b] \notin {"idle", "reserved"}
        BY <3>2 DEF Inserted
      <4>5. QED
        BY <3>2, <4>1, <4>2, <4>3, <4>4, BookingStep DEF Unlocked
  <2>14. CASE \E b \in Booking : SweepPendingBooking(b)
    <3>1. PICK b \in Booking : SweepPendingBooking(b)
      BY <2>14
    <3>2. ExpirePendingBooking(b) /\ Unlocked(b)
      BY <3>1 DEF SweepPendingBooking
    <3>3. QED
      <4>1. UNCHANGED <<now, seats, checkout, read, paymentVars, eventVars>>
        BY <3>1 DEF SweepPendingBooking
      <4>2. TypeOK'
        BY <3>2, <4>1, Expired DEF TypeOK, paymentVars, eventVars
      <4>3. QED
        BY <3>2, <4>1, <4>2, ExpiryStep
  <2>15. CASE \E b \in Booking : ReadSeatState(b)
    <3>1. PICK b \in Booking : ReadSeatState(b)
      BY <2>15
    <3>2. bookings[b].seatNumber \in Seat
      BY <3>1 DEF ReadSeatState, Seated, Inserted
    <3>3. QED
      BY <3>1, <3>2
      DEF ReadSeatState, TypeOK, Seated, Inserted, Status, Unlocked, paymentVars, eventVars
  <2>16. CASE \E b \in Booking : ReconcileSeatCommit(b)
    <3>1. PICK b \in Booking : ReconcileSeatCommit(b)
      BY <2>16
    <3>2. queue' \in [MessageKind \X Booking -> Nat]
      BY <3>1, SendTypes DEF ReconcileSeatCommit, TypeOK
    <3>3. Status(b) = "CONFIRMED" /\ read' = [read EXCEPT ![b] = None]
      BY <3>1 DEF ReconcileSeatCommit, Inserted
    <3>4. CASE bookings' = [bookings EXCEPT ![b].seatCommitted = TRUE]
      <4>1. bookings' \in [Booking -> BookingRow]
        BY <3>4 DEF TypeOK, BookingRow
      <4>2. \A c \in Booking : /\ Status(c)' = Status(c)
                             /\ bookings'[c].seatNumber = bookings[c].seatNumber
        BY <3>4 DEF TypeOK, BookingRow, Status
      <4>3. QED
        BY <3>1, <3>2, <3>3, <4>1, <4>2
        DEF ReconcileSeatCommit, TypeOK, Seated, Inserted, Unlocked, paymentVars, eventVars
    <3>5. CASE UNCHANGED bookings
      BY <3>1, <3>2, <3>3, <3>5
      DEF ReconcileSeatCommit, TypeOK, Seated, Inserted, Status, Unlocked, paymentVars, eventVars
    <3>6. CASE SetStatus(b, "CANCELED")
      <4>1. UNCHANGED <<now, seats, checkout, paymentVars, eventVars>>
        BY <3>1 DEF ReconcileSeatCommit
      <4>2. /\ bookings' \in [Booking -> BookingRow]
            /\ bookings'[b].seatNumber = bookings[b].seatNumber
            /\ \A c \in Booking : c # b => bookings'[c] = bookings[c]
        BY <2>0, <3>6, StatusWritten
      <4>3. /\ read' \in [Booking -> S!SeatRow \union {None}] /\ read'[b] = None
            /\ \A c \in Booking : c # b => read'[c] = read[c]
        BY <3>3 DEF TypeOK
      <4>4. TypeOK'
        BY <3>2, <4>1, <4>2, <4>3 DEF TypeOK, paymentVars, eventVars
      <4>5. checkout[b] \notin {"idle", "reserved"}
        BY <3>3 DEF Inserted
      <4>6. QED
        BY <4>1, <4>2, <4>3, <4>4, <4>5, BookingStep
    <3>7. QED
      BY <3>1, <3>4, <3>5, <3>6 DEF ReconcileSeatCommit
  <2>17. CASE \E b \in Booking : ConsumeSeatCommit(b) \/ ConsumeSeatRelease(b)
    <3>1. PICK b \in Booking : ConsumeSeatCommit(b) \/ ConsumeSeatRelease(b)
      BY <2>17
    <3>2. PICK kind \in MessageKind : Receive(kind, b)
      BY <3>1, Kinds DEF ConsumeSeatCommit, ConsumeSeatRelease
    <3>3. PICK row : /\ Change(b, row)
                     /\ \/ row = S!CommittedRow(SeatOf(b), b, b, now)
                        \/ row = S!ReleasedRow(SeatOf(b), b, None)
                        \/ row = S!ReleasedRow(SeatOf(b), b, b)
                        \/ row = S!ReleasedRow(SeatOf(b), None, b)
      BY <3>1 DEF ConsumeSeatCommit, ConsumeSeatRelease
    <3>4. bookings[b].seatNumber \in Seat => row \in S!SeatRow
      BY <2>0, <3>3, StatementTypes DEF SeatOf, TypeOK
    <3>5. seats' \in [Seat -> S!SeatRow] /\ queue' \in [MessageKind \X Booking -> Nat]
      BY <3>2, <3>3, <3>4, SeatTypes, ReceiveTypes
    <3>6. QED
      BY <3>3, <3>5
      DEF Change, TypeOK, Seated, Inserted, Status, Unlocked, paymentVars, eventVars
  <2>18. CASE \E kind \in MessageKind, b \in Booking : LoseMessage(kind, b)
    <3>1. PICK kind \in MessageKind, b \in Booking : LoseMessage(kind, b)
      BY <2>18
    <3>2. queue' \in [MessageKind \X Booking -> Nat]
      BY <3>1, ReceiveTypes DEF LoseMessage
    <3>3. QED
      BY <3>1, <3>2
      DEF LoseMessage, TypeOK, Seated, Inserted, Status, Unlocked, paymentVars, eventVars
  <2>19. CASE (\E s \in Seat : ReserveSeatLegacy(s)) \/ SweepExpiredHolds
    <3>1. seats' \in [Seat -> S!SeatRow]
      <4>1. CASE \E s \in Seat : ReserveSeatLegacy(s)
        BY <4>1, RowTypes DEF ReserveSeatLegacy, TypeOK
      <4>2. CASE SweepExpiredHolds
        <5>1. \A s \in Seat : S!SweptRow(seats[s], now) \in S!SeatRow
          BY RowTypes DEF S!SweptRow, TypeOK
        <5>2. QED
          BY <4>2, <5>1 DEF SweepExpiredHolds
      <4>3. QED
        BY <2>19, <4>1, <4>2
    <3>2. QED
      BY <2>19, <3>1
      DEF ReserveSeatLegacy, SweepExpiredHolds, TypeOK, Seated, Inserted, Status, Unlocked,
          paymentVars, eventVars
  <2>20. CASE Tick
    BY <2>0, <2>20
    DEF Tick, TypeOK, Seated, Inserted, Status, Unlocked, paymentVars, eventVars
  <2>21. CASE UNCHANGED vars
    BY <2>21
    DEF vars, TypeOK, Seated, Inserted, Status, Unlocked, paymentVars, eventVars
  <2>22. QED
    BY <2>1, <2>2, <2>3, <2>4, <2>5, <2>6, <2>7, <2>8, <2>9, <2>10, <2>11, <2>12, <2>13,
       <2>14, <2>15, <2>16, <2>17, <2>18, <2>19, <2>20, <2>21 DEF Next
<1>3. QED
  BY <1>1, <1>2, PTL DEF Spec

\* Every reachable state of the saga is type correct.
THEOREM TypeCorrect == Spec => []TypeOK
BY TypesHold, PTL

-----------------------------------------------------------------------------
(* Steps.                                                                  *)

\* The steps that one booking takes, or that are taken for it.
StepOf(b) ==
  \/ \E s \in Seat : ReserveSeat(b, s)
  \/ InsertBooking(b) \/ InsertBookingFails(b)
  \/ CreatePaymentIntent(b) \/ CreatePaymentIntentFails(b)
  \/ LoadForUpdate(b) \/ UpdateBooking(b) \/ FailCheckout(b) \/ CrashCheckout(b)
  \/ PaymentStep(b) \/ ConsumeRefundRequest(b)
  \/ ConsumePaymentSucceeded(b) \/ ConsumePaymentExpired(b)
  \/ \E e \in ConsumedEvent : DeadLetter(b, e)
  \/ CancelBooking(b) \/ SweepPendingBooking(b)
  \/ ReadSeatState(b) \/ ReconcileSeatCommit(b)
  \/ ConsumeSeatCommit(b) \/ ConsumeSeatRelease(b)
  \/ \E kind \in MessageKind : LoseMessage(kind, b)

\* What a step for one booking leaves of another.
Untouched(c) ==
  /\ bookings'[c] = bookings[c] /\ checkout'[c] = checkout[c] /\ read'[c] = read[c]
  /\ status'[c] = status[c] /\ emitted'[c] = emitted[c]
  /\ c \in refunded' <=> c \in refunded
  /\ \A k \in MessageKind : queue'[<<k, c>>] = queue[<<k, c>>]

LEMMA StepsAreOfOne ==
  ASSUME [Next]_vars
  PROVE  \/ \E b \in Booking : StepOf(b)
         \/ UNCHANGED <<bookings, checkout, read, paymentVars, queue>>
BY DEF Next, StepOf, ReserveSeatLegacy, SweepExpiredHolds, Tick, vars

LEMMA OthersUntouched ==
  ASSUME TypeOK, NEW b \in Booking, StepOf(b), NEW c \in Booking, c # b
  PROVE  Untouched(c)
<1>1. bookings'[c] = bookings[c]
  BY DEF StepOf, TypeOK, ReserveSeat, InsertBooking, InsertBookingFails,
         CreatePaymentIntent, CreatePaymentIntentFails, LoadForUpdate, UpdateBooking,
         FailCheckout, CrashCheckout, PaymentStep, ConsumeRefundRequest,
         ConsumePaymentSucceeded, ConsumePaymentExpired, DeadLetter, CancelBooking,
         SweepPendingBooking, ReadSeatState, ReconcileSeatCommit, ConsumeSeatCommit,
         ConsumeSeatRelease, LoseMessage, Change, ExpirePendingBooking, Settled, SetStatus
<1>2. checkout'[c] = checkout[c]
  BY DEF StepOf, TypeOK, ReserveSeat, InsertBooking, InsertBookingFails,
         CreatePaymentIntent, CreatePaymentIntentFails, LoadForUpdate, UpdateBooking,
         FailCheckout, CrashCheckout, PaymentStep, ConsumeRefundRequest,
         ConsumePaymentSucceeded, ConsumePaymentExpired, DeadLetter, CancelBooking,
         SweepPendingBooking, ReadSeatState, ReconcileSeatCommit, ConsumeSeatCommit,
         ConsumeSeatRelease, LoseMessage, Change, Goto
<1>3. read'[c] = read[c]
  BY DEF StepOf, TypeOK, ReserveSeat, InsertBooking, InsertBookingFails,
         CreatePaymentIntent, CreatePaymentIntentFails, LoadForUpdate, UpdateBooking,
         FailCheckout, CrashCheckout, PaymentStep, ConsumeRefundRequest,
         ConsumePaymentSucceeded, ConsumePaymentExpired, DeadLetter, CancelBooking,
         SweepPendingBooking, ReadSeatState, ReconcileSeatCommit, ConsumeSeatCommit,
         ConsumeSeatRelease, LoseMessage, Change
<1>4. /\ status'[c] = status[c] /\ emitted'[c] = emitted[c]
      /\ c \in refunded' <=> c \in refunded
  <2>1. \/ P!Create(b) \/ PaymentStep(b) \/ P!Refund(b) \/ UNCHANGED paymentVars
    BY DEF StepOf, ReserveSeat, InsertBooking, InsertBookingFails,
           CreatePaymentIntent, CreatePaymentIntentFails, LoadForUpdate, UpdateBooking,
           FailCheckout, CrashCheckout, ConsumeRefundRequest,
           ConsumePaymentSucceeded, ConsumePaymentExpired, DeadLetter, CancelBooking,
           SweepPendingBooking, ReadSeatState, ReconcileSeatCommit, ConsumeSeatCommit,
           ConsumeSeatRelease, LoseMessage, Change
  <2>2. CASE UNCHANGED paymentVars
    BY <2>2 DEF paymentVars
  <2>3. CASE P!Create(b) \/ P!Refund(b)
    BY <2>3 DEF TypeOK, P!Create, P!Refund, P!Become, P!Emit
  <2>4. CASE PaymentStep(b)
    BY <2>4 DEF TypeOK, PaymentStep, P!Stall, P!Decline, P!Settle, P!Expire,
                P!ExpireSilently, P!Become, P!Emit
  <2>5. QED
    BY <2>1, <2>2, <2>3, <2>4
<1>5. ASSUME NEW k \in MessageKind
      PROVE  queue'[<<k, c>>] = queue[<<k, c>>]
  <2>1. queue[<<k, c>>] \in Nat
    BY DEF TypeOK
  <2>2. \/ UNCHANGED queue
        \/ \E kinds : Send(kinds, b)
        \/ \E kind \in MessageKind : Receive(kind, b)
    BY Kinds
    DEF StepOf, ReserveSeat, InsertBooking, InsertBookingFails,
        CreatePaymentIntent, CreatePaymentIntentFails, LoadForUpdate, UpdateBooking,
        FailCheckout, CrashCheckout, PaymentStep, ConsumeRefundRequest,
        ConsumePaymentSucceeded, ConsumePaymentExpired, DeadLetter, CancelBooking,
        SweepPendingBooking, ReadSeatState, ReconcileSeatCommit, ConsumeSeatCommit,
        ConsumeSeatRelease, LoseMessage, ExpirePendingBooking, Settled
  <2>3. CASE \E kinds : Send(kinds, b)
    BY <2>1, <2>3, SendTypes
  <2>4. CASE \E kind \in MessageKind : Receive(kind, b)
    BY <2>4 DEF Receive, TypeOK
  <2>5. QED
    BY <2>2, <2>3, <2>4
<1>6. QED
  BY <1>1, <1>2, <1>3, <1>4, <1>5 DEF Untouched

-----------------------------------------------------------------------------
(* Money.                                                                  *)

GivesBack == {"refund", "releaseBoth", "releaseBooking"}

\* Only a booking whose checkout has stored its payment id is confirmed, paid
\* back, or gives a booked seat back; after that nothing reopens it.
Decided(b) ==
  /\ bookings[b].hasPaymentId => checkout[b] \in {"failing", "ended"}
  /\ Status(b) = "CONFIRMED" => bookings[b].hasPaymentId /\ status[b] = "SUCCEEDED"
  /\ emitted[b]["PaymentSucceeded"] > 0 => status[b] = "SUCCEEDED"
  /\ (b \in refunded \/ \E k \in GivesBack : queue[<<k, b>>] > 0) =>
       Status(b) \in Closed /\ bookings[b].hasPaymentId

\* A step that neither pays, confirms, gives back nor closes.
LEMMA NothingGivenBack ==
  ASSUME TypeOK, TypeOK', NEW b \in Booking, Decided(b), UNCHANGED paymentVars,
         \A k \in GivesBack : queue'[<<k, b>>] <= queue[<<k, b>>],
         bookings'[b].hasPaymentId = bookings[b].hasPaymentId,
         Status(b)' = Status(b) \/ (Status(b) \notin Closed /\ Status(b)' # "CONFIRMED"),
         bookings[b].hasPaymentId => checkout'[b] \in {"failing", "ended"}
  PROVE  Decided(b)'
<1>1. ASSUME NEW k \in GivesBack, queue'[<<k, b>>] > 0 PROVE queue[<<k, b>>] > 0
  <2>1. k \in MessageKind
    BY Kinds DEF GivesBack
  <2>2. queue[<<k, b>>] \in Nat /\ queue'[<<k, b>>] \in Nat
    BY <2>1 DEF TypeOK
  <2>3. queue'[<<k, b>>] <= queue[<<k, b>>]
    OBVIOUS
  <2>4. QED
    BY <1>1, <2>2, <2>3
<1>2. QED
  BY <1>1 DEF Decided, paymentVars, Status

LEMMA SendsNothingBack ==
  ASSUME TypeOK, NEW b \in Booking,
         \/ UNCHANGED queue
         \/ \E kinds : Send(kinds, b) /\ kinds \cap GivesBack = {}
         \/ \E kind \in MessageKind : Receive(kind, b)
  PROVE  \A k \in GivesBack : queue'[<<k, b>>] <= queue[<<k, b>>]
<1> SUFFICES ASSUME NEW k \in GivesBack PROVE queue'[<<k, b>>] <= queue[<<k, b>>]
  OBVIOUS
<1>1. k \in MessageKind /\ queue[<<k, b>>] \in Nat
  BY Kinds DEF GivesBack, TypeOK
<1>2. CASE UNCHANGED queue
  BY <1>1, <1>2
<1>3. CASE \E kinds : Send(kinds, b) /\ kinds \cap GivesBack = {}
  <2>1. PICK kinds : Send(kinds, b) /\ kinds \cap GivesBack = {}
    BY <1>3
  <2>2. k \notin kinds
    BY <2>1
  <2>3. queue'[<<k, b>>] = queue[<<k, b>>] + 0
    BY <1>1, <2>1, <2>2, SendTypes
  <2>4. QED
    BY <1>1, <2>3
<1>4. CASE \E kind \in MessageKind : Receive(kind, b)
  BY <1>1, <1>4, ReceiveTypes
<1>5. QED
  BY <1>2, <1>3, <1>4

\* A booking with its payment id is closed; or was, and stays so.
LEMMA ClosedDecided ==
  ASSUME TypeOK, NEW b \in Booking, Decided(b),
         bookings[b].hasPaymentId, Status(b)' \in Closed,
         bookings'[b].hasPaymentId = bookings[b].hasPaymentId,
         UNCHANGED <<checkout, status, emitted>>
  PROVE  Decided(b)'
BY DEF Decided, Closed, Status

LEMMA DecidedStep ==
  ASSUME TypeOK, TypeOK', Seated, Inserted, NEW b \in Booking, Decided(b), StepOf(b)
  PROVE  Decided(b)'
<1>0. /\ BookingStatus = {"NONE", "PENDING_PAYMENT", "CONFIRMED", "EXPIRED", "CANCELED"}
      /\ CheckoutState = {"idle", "reserved", "inserted", "intended", "saving",
                          "resurrecting", "failing", "ended"}
      /\ Closed = {"EXPIRED", "CANCELED"}
  BY DEF BookingStatus, CheckoutState, Closed
<1>1. CASE \E s \in Seat : ReserveSeat(b, s)
  <2>1. PICK s \in Seat : ReserveSeat(b, s)
    BY <1>1
  <2>2. /\ bookings'[b].hasPaymentId = bookings[b].hasPaymentId
        /\ Status(b)' = Status(b)
    BY <2>1 DEF ReserveSeat, TypeOK, BookingRow, Status
  <2>3. ~ bookings[b].hasPaymentId
    BY <2>1 DEF ReserveSeat, Decided
  <2>4. UNCHANGED paymentVars /\ UNCHANGED queue
    BY <2>1 DEF ReserveSeat
  <2>5. QED
    BY <2>2, <2>3, <2>4, SendsNothingBack, NothingGivenBack
<1>2. CASE InsertBooking(b)
  <2>1. /\ SetStatus(b, "PENDING_PAYMENT") /\ checkout[b] = "reserved"
        /\ UNCHANGED paymentVars /\ UNCHANGED queue
    BY <1>2 DEF InsertBooking
  <2>2. ~ bookings[b].hasPaymentId /\ Status(b) = "NONE"
    BY <2>1 DEF Decided, Inserted
  <2>3. /\ bookings'[b].hasPaymentId = bookings[b].hasPaymentId
        /\ Status(b)' = "PENDING_PAYMENT"
    BY <1>0, <2>1, StatusWritten
  <2>4. QED
    BY <1>0, <2>1, <2>2, <2>3, SendsNothingBack, NothingGivenBack
<1>3. CASE InsertBookingFails(b) \/ LoadForUpdate(b) \/ CrashCheckout(b)
  <2>1. /\ UNCHANGED paymentVars /\ UNCHANGED bookings
        /\ UNCHANGED queue \/ Send({"releaseHold"}, b)
        /\ Goto(b, "ended") \/ checkout[b] = "intended"
    BY <1>3 DEF InsertBookingFails, LoadForUpdate, CrashCheckout
  <2>2. bookings[b].hasPaymentId => checkout'[b] \in {"failing", "ended"}
    BY <1>0, <2>1, CheckoutMoved DEF Decided
  <2>3. {"releaseHold"} \cap GivesBack = {}
    BY DEF GivesBack
  <2>4. QED
    BY <2>1, <2>2, <2>3, SendsNothingBack, NothingGivenBack DEF Status
<1>4. CASE CreatePaymentIntent(b) \/ CreatePaymentIntentFails(b)
  <2>1. /\ checkout[b] = "inserted" /\ UNCHANGED <<bookings, queue>>
        /\ P!Create(b) \/ UNCHANGED paymentVars
    BY <1>4 DEF CreatePaymentIntent, CreatePaymentIntentFails
  <2>2. ~ bookings[b].hasPaymentId
    BY <2>1 DEF Decided
  <2>3. CASE UNCHANGED paymentVars
    BY <2>1, <2>2, <2>3, SendsNothingBack, NothingGivenBack DEF Status
  <2>4. CASE P!Create(b)
    BY <2>1, <2>2, <2>4 DEF Decided, P!Create, P!Become, Status
  <2>5. QED
    BY <2>1, <2>3, <2>4
<1>5. CASE UpdateBooking(b)
  <2>1. /\ checkout[b] \in {"saving", "resurrecting"}
        /\ Goto(b, "ended") \/ Goto(b, "failing")
        /\ UNCHANGED <<status, refunded, emitted, queue>>
    BY <1>5 DEF UpdateBooking, paymentVars
  <2>2. ~ bookings[b].hasPaymentId
    BY <2>1 DEF Decided
  <2>3. checkout'[b] \in {"failing", "ended"}
    BY <1>0, <2>1, CheckoutMoved
  <2>4. Status(b)' \in {Status(b), "PENDING_PAYMENT"}
    BY <1>5 DEF UpdateBooking, Status, TypeOK, BookingRow
  <2>5. QED
    BY <2>1, <2>2, <2>3, <2>4 DEF Decided
<1>6. CASE \/ FailCheckout(b) \/ ConsumePaymentExpired(b) \/ SweepPendingBooking(b)
  <2>1. /\ ExpirePendingBooking(b) /\ UNCHANGED paymentVars
        /\ UNCHANGED checkout \/ Goto(b, "ended")
    BY <1>6 DEF FailCheckout, ConsumePaymentExpired, SweepPendingBooking
  <2>2. bookings[b].hasPaymentId => checkout'[b] \in {"failing", "ended"}
    BY <1>0, <2>1, CheckoutMoved DEF Decided
  <2>3. /\ Status(b)' = IF Status(b) = "PENDING_PAYMENT" THEN "EXPIRED" ELSE Status(b)
        /\ bookings'[b].hasPaymentId = bookings[b].hasPaymentId
    BY <2>1, Expired
  <2>4. \A k \in GivesBack : queue'[<<k, b>>] <= queue[<<k, b>>]
    <3>1. \A k \in GivesBack : k \in MessageKind /\ k # "releaseHold"
      BY Kinds DEF GivesBack
    <3>2. \A k \in GivesBack : queue'[<<k, b>>] = queue[<<k, b>>] /\ queue[<<k, b>>] \in Nat
      BY <2>1, <3>1, Expired DEF TypeOK
    <3>3. QED
      BY <3>2
  <2>5. QED
    BY <1>0, <2>1, <2>2, <2>3, <2>4, NothingGivenBack
<1>7. CASE PaymentStep(b)
  <2>1. UNCHANGED <<bookings, checkout, queue, refunded>>
    BY <1>7 DEF PaymentStep, P!Stall, P!Decline, P!Settle, P!Expire, P!ExpireSilently
  <2>2. status[b] = "SUCCEEDED" => status'[b] = "SUCCEEDED"
    BY <1>7 DEF PaymentStep, P!Stall, P!Decline, P!Settle, P!Expire, P!ExpireSilently,
                P!Become, P!Unsettled, TypeOK
  <2>3. emitted'[b]["PaymentSucceeded"] # emitted[b]["PaymentSucceeded"]
          => status'[b] = "SUCCEEDED"
    BY <1>7 DEF PaymentStep, P!Stall, P!Decline, P!Settle, P!Expire, P!ExpireSilently,
                P!Become, P!Emit, TypeOK, P!EventType
  <2>4. QED
    BY <2>1, <2>2, <2>3 DEF Decided, Status
<1>8. CASE ConsumeRefundRequest(b)
  <2>1. /\ Receive("refund", b) /\ UNCHANGED <<bookings, checkout, status>>
        /\ P!Refund(b) \/ UNCHANGED paymentVars
    BY <1>8 DEF ConsumeRefundRequest, P!Refund, paymentVars
  <2>2. queue[<<"refund", b>>] > 0 /\ "refund" \in GivesBack
    BY <2>1 DEF Receive, GivesBack
  <2>3. Status(b) \in Closed /\ bookings[b].hasPaymentId
    BY <2>2 DEF Decided
  <2>4. emitted'[b]["PaymentSucceeded"] = emitted[b]["PaymentSucceeded"]
    BY <2>1 DEF P!Refund, P!Emit, paymentVars, TypeOK, P!EventType
  <2>5. QED
    BY <2>1, <2>3, <2>4 DEF Decided, Status
<1>9. CASE ConsumePaymentSucceeded(b)
  <2>1. /\ Handle(b, "PaymentSucceeded") /\ bookings[b].hasPaymentId /\ Settled(b)
        /\ UNCHANGED checkout /\ UNCHANGED paymentVars
    BY <1>9 DEF ConsumePaymentSucceeded
  <2>2. status[b] = "SUCCEEDED"
    <3>1. /\ handled[b]["PaymentSucceeded"] < emitted[b]["PaymentSucceeded"]
          /\ handled[b]["PaymentSucceeded"] \in Nat
          /\ emitted[b]["PaymentSucceeded"] \in Nat
      BY <2>1, Kinds DEF Handle, Undelivered, TypeOK, P!EventType
    <3>2. QED
      BY <3>1 DEF Decided
  <2>3. CASE Status(b) = "PENDING_PAYMENT" /\ SetStatus(b, "CONFIRMED") /\ Send({"commit"}, b)
    <3>1. Status(b)' = "CONFIRMED" /\ bookings'[b].hasPaymentId
      BY <1>0, <2>1, <2>3, StatusWritten
    <3>2. b \notin refunded /\ \A k \in GivesBack : ~ (queue[<<k, b>>] > 0)
      BY <1>0, <2>3 DEF Decided
    <3>3. {"commit"} \cap GivesBack = {}
      BY DEF GivesBack
    <3>4. ASSUME NEW k \in GivesBack PROVE ~ (queue'[<<k, b>>] > 0)
      <4>1. k \in MessageKind
        BY Kinds DEF GivesBack
      <4>2. queue'[<<k, b>>] <= queue[<<k, b>>]
        BY <2>3, <3>3, SendsNothingBack
      <4>3. queue[<<k, b>>] \in Nat /\ queue'[<<k, b>>] \in Nat /\ ~ (queue[<<k, b>>] > 0)
        BY <3>2, <4>1 DEF TypeOK
      <4>4. QED
        BY <4>2, <4>3
    <3>5. QED
      BY <2>1, <2>2, <3>1, <3>2, <3>4 DEF Decided, paymentVars
  <2>4. CASE Status(b) \in Closed /\ UNCHANGED bookings
    BY <2>1, <2>4, ClosedDecided DEF Status, paymentVars
  <2>5. CASE Status(b) = "CONFIRMED" /\ UNCHANGED <<bookings, queue>>
    BY <2>1, <2>5, SendsNothingBack, NothingGivenBack DEF Status, Decided
  <2>6. QED
    BY <2>1, <2>3, <2>4, <2>5 DEF Settled
<1>10. CASE \/ \E e \in ConsumedEvent : DeadLetter(b, e)
            \/ ReadSeatState(b)
            \/ ConsumeSeatCommit(b) \/ ConsumeSeatRelease(b)
            \/ \E kind \in MessageKind : LoseMessage(kind, b)
  <2>1. /\ UNCHANGED paymentVars /\ UNCHANGED <<bookings, checkout>>
        /\ UNCHANGED queue \/ \E kind \in MessageKind : Receive(kind, b)
    BY <1>10, Kinds DEF DeadLetter, ReadSeatState, ConsumeSeatCommit, ConsumeSeatRelease,
                        LoseMessage, Change
  <2>2. QED
    BY <2>1, SendsNothingBack, NothingGivenBack DEF Status, Decided
<1>11. CASE CancelBooking(b)
  <2>1. /\ SetStatus(b, "CANCELED") /\ UNCHANGED <<checkout, status, emitted, refunded>>
        /\ Status(b) \in Active
    BY <1>11 DEF CancelBooking, paymentVars
  <2>2. Status(b)' = "CANCELED" /\ bookings'[b].hasPaymentId = bookings[b].hasPaymentId
    BY <1>0, <2>1, StatusWritten
  <2>3. CASE bookings[b].hasPaymentId
    BY <1>0, <2>1, <2>2, <2>3, ClosedDecided
  <2>4. CASE ~ bookings[b].hasPaymentId
    <3>1. Status(b) = "PENDING_PAYMENT"
      BY <2>1, <2>4 DEF Decided, Active
    <3>2. Send({"releaseHold"}, b)
      <4>1. ~ RefundDue(b)
        BY <2>4 DEF RefundDue
      <4>2. PICK refund \in {FALSE} :
              Send({"releaseHold"} \union (IF refund THEN {"refund"} ELSE {}), b)
        BY <1>11, <3>1, <4>1 DEF CancelBooking
      <4>3. {"releaseHold"} \union {} = {"releaseHold"}
        OBVIOUS
      <4>4. QED
        BY <4>2, <4>3
    <3>3. {"releaseHold"} \cap GivesBack = {}
      BY DEF GivesBack
    <3>4. QED
      BY <1>0, <2>1, <2>2, <2>4, <3>1, <3>2, <3>3, SendsNothingBack, NothingGivenBack
      DEF paymentVars
  <2>5. QED
    BY <2>3, <2>4
<1>12. CASE ReconcileSeatCommit(b)
  <2>1. /\ Status(b) = "CONFIRMED" /\ bookings[b].hasPaymentId
        /\ UNCHANGED checkout /\ UNCHANGED paymentVars
    BY <1>12 DEF ReconcileSeatCommit, Inserted, Decided
  <2>2. CASE bookings' = [bookings EXCEPT ![b].seatCommitted = TRUE] /\ UNCHANGED queue
    <3>1. /\ Status(b)' = Status(b)
          /\ bookings'[b].hasPaymentId = bookings[b].hasPaymentId
      BY <2>2 DEF Status, TypeOK, BookingRow
    <3>2. QED
      BY <2>1, <2>2, <3>1, SendsNothingBack, NothingGivenBack DEF Decided
  <2>3. CASE Send({"commit"}, b) /\ UNCHANGED bookings
    <3>1. {"commit"} \cap GivesBack = {}
      BY DEF GivesBack
    <3>2. QED
      BY <2>1, <2>3, <3>1, SendsNothingBack, NothingGivenBack DEF Status, Decided
  <2>4. CASE SetStatus(b, "CANCELED")
    <3>1. Status(b)' = "CANCELED" /\ bookings'[b].hasPaymentId = bookings[b].hasPaymentId
      BY <1>0, <2>4, StatusWritten
    <3>2. QED
      BY <1>0, <2>1, <3>1, ClosedDecided DEF paymentVars
  <2>5. QED
    BY <1>12, <2>2, <2>3, <2>4 DEF ReconcileSeatCommit
<1>13. QED
  BY <1>1, <1>2, <1>3, <1>4, <1>5, <1>6, <1>7, <1>8, <1>9, <1>10, <1>11, <1>12 DEF StepOf

-----------------------------------------------------------------------------
(* Seats.                                                                  *)

\* A commit that was recorded was seen, and what was seen is still there.
Owned(b) ==
  /\ bookings[b].seatCommitted =>
       bookings[b].hasPaymentId /\ Status(b) \in Closed \union {"CONFIRMED"}
  /\ Status(b) = "CONFIRMED" =>
       ((bookings[b].seatCommitted \/ (read[b] # None /\ S!BookedBy(read[b], b))) =>
         S!BookedBy(seats[bookings[b].seatNumber], b))

\* No statement takes a booked seat, but a release that names its booking.
LEMMA BookedStays ==
  ASSUME TypeOK, [Next]_vars, NEW b \in Booking, NEW s \in Seat,
         S!BookedBy(seats[s], b),
         ~ (queue[<<"releaseBoth", b>>] > 0), ~ (queue[<<"releaseBooking", b>>] > 0)
  PROVE  S!BookedBy(seats'[s], b)
<1>1. ~ S!ReclaimableSeatCondition(seats[s], now)
  BY DEF S!BookedBy, S!ReclaimableSeatCondition, S!HoldExpired
<1>2. CASE \E c \in Booking, x \in Seat : ReserveSeat(c, x)
  BY <1>1, <1>2 DEF ReserveSeat, TypeOK
<1>3. CASE \E x \in Seat : ReserveSeatLegacy(x)
  BY <1>1, <1>3 DEF ReserveSeatLegacy, TypeOK
<1>4. CASE SweepExpiredHolds
  BY <1>4 DEF SweepExpiredHolds, S!SweptRow, S!HoldExpired, S!BookedBy, TypeOK
<1>5. CASE \E c \in Booking : ConsumeSeatCommit(c)
  <2>1. PICK c \in Booking : Change(c, S!CommittedRow(SeatOf(c), c, c, now))
    BY <1>5 DEF ConsumeSeatCommit
  <2>2. CASE bookings[c].seatNumber = s
    <3>1. S!CommittedRow(SeatOf(c), c, c, now) = seats[s]
      BY <2>2 DEF SeatOf, S!CommittedRow, S!CommitCondition, S!BookedBy
    <3>2. QED
      BY <2>1, <2>2, <3>1 DEF Change, TypeOK
  <2>3. CASE bookings[c].seatNumber # s
    BY <2>1, <2>3 DEF Change, TypeOK
  <2>4. QED
    BY <2>2, <2>3
<1>6. CASE \E c \in Booking : ConsumeSeatRelease(c)
  <2>1. PICK c \in Booking, token \in Booking \union {None},
             owner \in Booking \union {None} :
          /\ token \in {c, None} /\ owner \in {c, None}
          /\ Change(c, S!ReleasedRow(SeatOf(c), token, owner))
          /\ token = c \/ owner = c
          /\ owner = c => c # b
    <3>1. PICK c \in Booking : ConsumeSeatRelease(c)
      BY <1>6
    <3>2. CASE Receive("releaseHold", c) /\ Change(c, S!ReleasedRow(SeatOf(c), c, None))
      BY <3>2, SagaAssumption
    <3>3. CASE Receive("releaseBoth", c) /\ Change(c, S!ReleasedRow(SeatOf(c), c, c))
      <4>1. c # b
        BY <3>3 DEF Receive
      <4>2. QED
        BY <3>3, <4>1
    <3>4. CASE Receive("releaseBooking", c) /\ Change(c, S!ReleasedRow(SeatOf(c), None, c))
      <4>1. c # b
        BY <3>4 DEF Receive
      <4>2. QED
        BY <3>4, <4>1
    <3>5. QED
      BY <3>1, <3>2, <3>3, <3>4 DEF ConsumeSeatRelease
  <2>2. CASE bookings[c].seatNumber = s
    <3>1. ~ S!ReleaseCondition(seats[s], token, owner)
      BY <2>1, SagaAssumption DEF S!ReleaseCondition, S!BookedBy, S!HeldBy
    <3>2. S!ReleasedRow(SeatOf(c), token, owner) = seats[s]
      BY <2>2, <3>1 DEF SeatOf, S!ReleasedRow
    <3>3. QED
      BY <2>1, <2>2, <3>2 DEF Change, TypeOK
  <2>3. CASE bookings[c].seatNumber # s
    BY <2>1, <2>3 DEF Change, TypeOK
  <2>4. QED
    BY <2>2, <2>3
<1>7. \/ \E c \in Booking, x \in Seat : ReserveSeat(c, x)
      \/ \E x \in Seat : ReserveSeatLegacy(x)
      \/ SweepExpiredHolds
      \/ \E c \in Booking : ConsumeSeatCommit(c)
      \/ \E c \in Booking : ConsumeSeatRelease(c)
      \/ UNCHANGED seats
  BY DEF Next, vars, InsertBooking, InsertBookingFails,
         CreatePaymentIntent, CreatePaymentIntentFails, LoadForUpdate, UpdateBooking,
         FailCheckout, CrashCheckout, PaymentStep, ConsumeRefundRequest,
         ConsumePaymentSucceeded, ConsumePaymentExpired, DeadLetter, CancelBooking,
         SweepPendingBooking, ReadSeatState, ReconcileSeatCommit, LoseMessage, Tick
<1>8. QED
  BY <1>2, <1>3, <1>4, <1>5, <1>6, <1>7

\* What the step of a booking does to its own seat and its record of it.
LEMMA SeatRecorded ==
  ASSUME TypeOK, Seated, Inserted, NEW b \in Booking, StepOf(b), Decided(b), Owned(b)
  PROVE  /\ bookings'[b].seatCommitted =>
              bookings'[b].hasPaymentId /\ Status(b)' \in Closed \union {"CONFIRMED"}
         /\ Status(b)' = "CONFIRMED" =>
              /\ bookings'[b].seatNumber = bookings[b].seatNumber
              /\ \/ /\ Status(b) = "CONFIRMED"
                    /\ bookings'[b].seatCommitted =>
                         bookings[b].seatCommitted
                           \/ (read[b] # None /\ S!BookedBy(read[b], b))
                 \/ ~ bookings'[b].seatCommitted
              /\ \/ read'[b] = read[b] /\ (read[b] # None => Status(b) = "CONFIRMED")
                 \/ read'[b] = None
                 \/ read'[b] = seats[bookings[b].seatNumber] /\ UNCHANGED seats
<1>0. /\ BookingStatus = {"NONE", "PENDING_PAYMENT", "CONFIRMED", "EXPIRED", "CANCELED"}
      /\ Closed = {"EXPIRED", "CANCELED"}
      /\ ~ Unlocked(b) => Status(b) = "CONFIRMED"
  BY DEF BookingStatus, Closed, Inserted
<1>1. CASE \E s \in Seat : ReserveSeat(b, s)
  <2>1. checkout[b] = "idle"
    BY <1>1 DEF ReserveSeat
  <2>2. Status(b) = "NONE" /\ ~ bookings[b].seatCommitted
    BY <2>1 DEF Inserted, Decided, Owned
  <2>3. Status(b)' = Status(b) /\ bookings'[b].seatCommitted = bookings[b].seatCommitted
    BY <1>1 DEF ReserveSeat, Status, TypeOK, BookingRow
  <2>4. QED
    BY <2>2, <2>3
<1>2. CASE UpdateBooking(b)
  <2>1. ~ bookings[b].seatCommitted /\ Status(b) # "CONFIRMED"
    BY <1>2 DEF UpdateBooking, Owned, Decided
  <2>2. /\ bookings'[b].seatCommitted = bookings[b].seatCommitted
        /\ Status(b)' \in {Status(b), "PENDING_PAYMENT"}
    BY <1>2 DEF UpdateBooking, Status, TypeOK, BookingRow
  <2>3. QED
    BY <2>1, <2>2
<1>3. CASE \E x \in BookingStatus :
             /\ SetStatus(b, x) /\ UNCHANGED read
             /\ x = "CONFIRMED" => Status(b) = "PENDING_PAYMENT"
             /\ x \in {"NONE", "PENDING_PAYMENT"} => checkout[b] = "reserved"
  <2>1. PICK x \in BookingStatus :
          /\ SetStatus(b, x) /\ UNCHANGED read
          /\ x = "CONFIRMED" => Status(b) = "PENDING_PAYMENT"
          /\ x \in {"NONE", "PENDING_PAYMENT"} => checkout[b] = "reserved"
    BY <1>3
  <2>2. /\ Status(b)' = x
        /\ bookings'[b].seatNumber = bookings[b].seatNumber
        /\ bookings'[b].hasPaymentId = bookings[b].hasPaymentId
        /\ bookings'[b].seatCommitted = bookings[b].seatCommitted
    BY <2>1, StatusWritten
  <2>3. /\ x \in {"CONFIRMED", "NONE", "PENDING_PAYMENT"} => ~ bookings[b].seatCommitted
        /\ x = "CONFIRMED" => read[b] = None
    BY <1>0, <2>1 DEF Owned, Decided, Unlocked
  <2>4. QED
    BY <1>0, <2>1, <2>2, <2>3 DEF Owned
<1>4. CASE /\ UNCHANGED bookings
           /\ \/ UNCHANGED read
              \/ read'[b] = None
              \/ read'[b] = seats[bookings[b].seatNumber] /\ UNCHANGED seats
  <2>1. Status(b)' = Status(b) /\ bookings'[b] = bookings[b]
    BY <1>4 DEF Status
  <2>2. \/ read'[b] = read[b] /\ (read[b] # None => Status(b) = "CONFIRMED")
        \/ read'[b] = None
        \/ read'[b] = seats[bookings[b].seatNumber] /\ UNCHANGED seats
    BY <1>0, <1>4 DEF Unlocked
  <2>3. bookings[b].seatCommitted =>
          bookings[b].hasPaymentId /\ Status(b) \in Closed \union {"CONFIRMED"}
    BY Zenon DEF Owned
  <2>4. QED
    BY <2>1, <2>2, <2>3
<1>5. CASE ReconcileSeatCommit(b)
  <2>1. Status(b) = "CONFIRMED" /\ read[b] # None /\ read'[b] = None
        /\ bookings[b].hasPaymentId
    BY <1>5 DEF ReconcileSeatCommit, Inserted, Unlocked, TypeOK, Decided
  <2>2. CASE SeenCommitted(b) /\ bookings' = [bookings EXCEPT ![b].seatCommitted = TRUE]
    <3>1. /\ Status(b)' = Status(b)
          /\ bookings'[b].seatNumber = bookings[b].seatNumber
          /\ bookings'[b].hasPaymentId = bookings[b].hasPaymentId
      BY <2>2 DEF Status, TypeOK, BookingRow
    <3>2. QED
      BY <2>1, <2>2, <3>1 DEF SeenCommitted
  <2>3. CASE UNCHANGED bookings
    BY <2>1, <2>3 DEF Owned, Status
  <2>4. CASE SetStatus(b, "CANCELED")
    <3>1. /\ Status(b)' = "CANCELED"
          /\ bookings'[b].hasPaymentId = bookings[b].hasPaymentId
      BY <1>0, <2>4, StatusWritten
    <3>2. QED
      BY <1>0, <2>1, <3>1
  <2>5. QED
    BY <1>5, <2>2, <2>3, <2>4 DEF ReconcileSeatCommit
<1>6. CASE \/ InsertBooking(b) \/ FailCheckout(b) \/ ConsumePaymentExpired(b)
           \/ ConsumePaymentSucceeded(b) \/ CancelBooking(b) \/ SweepPendingBooking(b)
  <2>1. UNCHANGED read
    BY <1>6 DEF InsertBooking, FailCheckout, ConsumePaymentExpired,
                ConsumePaymentSucceeded, CancelBooking, SweepPendingBooking
  <2>2. \/ UNCHANGED bookings
        \/ SetStatus(b, "PENDING_PAYMENT") /\ checkout[b] = "reserved"
        \/ SetStatus(b, "EXPIRED") \/ SetStatus(b, "CANCELED")
        \/ SetStatus(b, "CONFIRMED") /\ Status(b) = "PENDING_PAYMENT"
    BY <1>6 DEF InsertBooking, FailCheckout, ConsumePaymentExpired,
                ConsumePaymentSucceeded, CancelBooking, SweepPendingBooking,
                ExpirePendingBooking, Settled
  <2>3. QED
    BY <1>0, <1>3, <1>4, <2>1, <2>2
<1>7. CASE \/ InsertBookingFails(b) \/ CreatePaymentIntent(b) \/ CreatePaymentIntentFails(b)
           \/ LoadForUpdate(b) \/ CrashCheckout(b) \/ PaymentStep(b)
           \/ ConsumeRefundRequest(b) \/ \E e \in ConsumedEvent : DeadLetter(b, e)
           \/ ReadSeatState(b) \/ ConsumeSeatCommit(b) \/ ConsumeSeatRelease(b)
           \/ \E kind \in MessageKind : LoseMessage(kind, b)
  BY <1>4, <1>7
  DEF InsertBookingFails, CreatePaymentIntent, CreatePaymentIntentFails,
      LoadForUpdate, CrashCheckout, PaymentStep, ConsumeRefundRequest, DeadLetter,
      ReadSeatState, ConsumeSeatCommit, ConsumeSeatRelease, LoseMessage, Change, TypeOK
<1>8. QED
  BY <1>1, <1>2, <1>5, <1>6, <1>7 DEF StepOf

(***************************************************************************)
(* The invariant.  Decided is needed for Owned: a confirmed booking keeps  *)
(* its seat only because no release that names it can be under way, and    *)
(* that in turn because a booking that was closed after its payment id was *)
(* stored is never opened again.                                           *)
(***************************************************************************)
IInv == \A b \in Booking : Decided(b) /\ Owned(b)

LEMMA InvariantHolds == Spec => [](TypeOK /\ Seated /\ Inserted /\ IInv)
<1>1. Init => IInv
  BY DEF Init, IInv, Decided, Owned, Status, P!Init, P!EventType, GivesBack,
         MessageKind, ReleaseKind
<1>2. /\ TypeOK /\ Seated /\ Inserted /\ IInv /\ [Next]_vars
      /\ TypeOK' /\ Seated' /\ Inserted'
      => IInv'
  <2> SUFFICES ASSUME TypeOK, Seated, Inserted, IInv, [Next]_vars,
                      TypeOK', Seated', Inserted',
                      NEW b \in Booking
               PROVE  Decided(b)' /\ Owned(b)'
    BY DEF IInv
  <2>1. Decided(b) /\ Owned(b)
    BY DEF IInv
  <2>2. CASE StepOf(b)
    <3>1. Decided(b)'
      BY <2>1, <2>2, DecidedStep
    <3>2. Owned(b)'
      <4>1. CASE Status(b)' # "CONFIRMED"
        BY <2>1, <2>2, <4>1, SeatRecorded DEF Owned
      <4>2. CASE Status(b)' = "CONFIRMED"
        <5> DEFINE s == bookings[b].seatNumber
        <5>1. s \in Seat /\ bookings'[b].seatNumber = s
          BY <2>1, <2>2, <4>2, SeatRecorded DEF Seated, Inserted
        <5>2. Status(b) = "CONFIRMED" /\ S!BookedBy(seats[s], b) => S!BookedBy(seats'[s], b)
          <6>1. SUFFICES ASSUME Status(b) = "CONFIRMED", S!BookedBy(seats[s], b)
                         PROVE  S!BookedBy(seats'[s], b)
            OBVIOUS
          <6>2. \A k \in GivesBack : ~ (queue[<<k, b>>] > 0)
            BY <2>1, <6>1 DEF Decided, Closed
          <6>3. QED
            BY <5>1, <6>1, <6>2, BookedStays DEF GivesBack
        <5>3. bookings'[b].seatCommitted =>
                bookings'[b].hasPaymentId /\ Status(b)' \in Closed \union {"CONFIRMED"}
          BY <2>1, <2>2, SeatRecorded
        <5>4. bookings'[b].seatCommitted => S!BookedBy(seats'[s], b)
          BY <2>1, <2>2, <4>2, <5>2, SeatRecorded DEF Owned
        <5>5. S!BookedBy(read'[b], b) /\ read'[b] # None => S!BookedBy(seats'[s], b)
          BY <2>1, <2>2, <4>2, <5>2, SeatRecorded DEF Owned
        <5>6. QED
          BY <5>1, <5>3, <5>4, <5>5 DEF Owned
      <4>3. QED
        BY <4>1, <4>2
    <3>3. QED
      BY <3>1, <3>2
  <2>3. CASE Untouched(b)
    <3>1. Decided(b)'
      <4>1. GivesBack \subseteq MessageKind
        BY Kinds DEF GivesBack
      <4>2. QED
        BY <2>1, <2>3, <4>1 DEF Untouched, Decided, Status
    <3>2. CASE Status(b) = "CONFIRMED"
      <4>1. bookings[b].seatNumber \in Seat
        BY <3>2 DEF Seated, Inserted
      <4>2. \A k \in GivesBack : ~ (queue[<<k, b>>] > 0)
        BY <2>1, <3>2 DEF Decided, Closed
      <4>3. S!BookedBy(seats[bookings[b].seatNumber], b)
              => S!BookedBy(seats'[bookings[b].seatNumber], b)
        BY <4>1, <4>2, BookedStays DEF GivesBack
      <4>4. QED
        BY <2>1, <2>3, <3>1, <4>3 DEF Untouched, Owned, Status
    <3>3. CASE Status(b) # "CONFIRMED"
      BY <2>1, <2>3, <3>1, <3>3 DEF Untouched, Owned, Status
    <3>4. QED
      BY <3>2, <3>3
  <2>4. StepOf(b) \/ Untouched(b)
    BY StepsAreOfOne, OthersUntouched DEF Untouched, paymentVars
  <2>5. QED
    BY <2>2, <2>3, <2>4
<1>3. QED
  BY <1>1, <1>2, TypesHold, PTL DEF Spec

-----------------------------------------------------------------------------
(* Closed bookings.                                                        *)

\* Of all the steps a booking takes, or that are taken for it, one alone changes
\* the status of a closed one.
LEMMA ClosedStep ==
  ASSUME TypeOK, Inserted, NEW b \in Booking, StepOf(b),
         Status(b) \in Closed, Status(b)' # Status(b)
  PROVE  checkout[b] = "resurrecting" /\ UpdateBooking(b)
<1>0. /\ BookingStatus = {"NONE", "PENDING_PAYMENT", "CONFIRMED", "EXPIRED", "CANCELED"}
      /\ Closed = {"EXPIRED", "CANCELED"} /\ Active = {"PENDING_PAYMENT", "CONFIRMED"}
      /\ Status(b) \in {"EXPIRED", "CANCELED"}
  BY DEF BookingStatus, Closed, Active
<1>1. ASSUME NEW s \in Seat PROVE ~ ReserveSeat(b, s)
  <2>1. ReserveSeat(b, s) => Status(b)' = Status(b)
    BY DEF ReserveSeat, TypeOK, BookingRow, Status
  <2>2. QED
    BY <2>1
<1>2. ~ InsertBooking(b)
  BY <1>0 DEF InsertBooking, Inserted
<1>3. ~ (ConsumePaymentExpired(b) \/ SweepPendingBooking(b) \/ FailCheckout(b))
  <2>1. ~ ExpirePendingBooking(b)
    BY <1>0, Expired
  <2>2. QED
    BY <2>1 DEF ConsumePaymentExpired, SweepPendingBooking, FailCheckout
<1>4. ~ (ConsumePaymentSucceeded(b) \/ CancelBooking(b))
  BY <1>0 DEF ConsumePaymentSucceeded, Settled, CancelBooking, Status
<1>5. ~ ReconcileSeatCommit(b)
  BY <1>0 DEF ReconcileSeatCommit, Inserted
<1>6. ASSUME UpdateBooking(b) PROVE checkout[b] = "resurrecting"
  BY <1>6 DEF UpdateBooking, Status, TypeOK, BookingRow
<1>7. ~ (\/ InsertBookingFails(b) \/ CreatePaymentIntent(b)
          \/ CreatePaymentIntentFails(b) \/ LoadForUpdate(b) \/ CrashCheckout(b)
          \/ PaymentStep(b) \/ ConsumeRefundRequest(b)
          \/ ReadSeatState(b) \/ ConsumeSeatCommit(b) \/ ConsumeSeatRelease(b))
  BY DEF InsertBookingFails, CreatePaymentIntent, CreatePaymentIntentFails,
         LoadForUpdate, CrashCheckout, PaymentStep, ConsumeRefundRequest,
         ReadSeatState, ConsumeSeatCommit, ConsumeSeatRelease, Change, Status
<1>8. /\ \A e \in ConsumedEvent : ~ DeadLetter(b, e)
      /\ \A kind \in MessageKind : ~ LoseMessage(kind, b)
  BY DEF DeadLetter, LoseMessage, Change, Status
<1>9. UpdateBooking(b)
  <2>1. CASE \E s \in Seat : ReserveSeat(b, s)
    BY <1>1, <2>1
  <2>2. CASE \E e \in ConsumedEvent : DeadLetter(b, e)
    BY <1>8, <2>2
  <2>3. CASE \E kind \in MessageKind : LoseMessage(kind, b)
    BY <1>8, <2>3
  <2>4. QED
    BY <1>2, <1>3, <1>4, <1>5, <1>7, <2>1, <2>2, <2>3 DEF StepOf
<1>10. QED
  BY <1>6, <1>9

-----------------------------------------------------------------------------
(* What holds without the fault "slow_checkout": while the request that    *)
(* creates a booking runs, nobody cancels or pays the booking and its hold *)
(* does not end.                                                           *)

\* So the request never finds its booking closed, and never reopens it.
OnTime(b) ==
  /\ InCheckout(b) => now < bookings[b].seatHoldExpiresAt
  /\ checkout[b] \in {"inserted", "intended", "saving"} => Status(b) = "PENDING_PAYMENT"
  /\ checkout[b] # "resurrecting"

LEMMA OnTimeStep ==
  ASSUME "slow_checkout" \notin Faults, TypeOK, Inserted, NEW b \in Booking,
         Decided(b), OnTime(b), StepOf(b)
  PROVE  OnTime(b)' /\ (Status(b) \in Closed => Status(b)' = Status(b))
<1>0. /\ BookingStatus = {"NONE", "PENDING_PAYMENT", "CONFIRMED", "EXPIRED", "CANCELED"}
      /\ CheckoutState = {"idle", "reserved", "inserted", "intended", "saving",
                          "resurrecting", "failing", "ended"}
      /\ Closed = {"EXPIRED", "CANCELED"} /\ Active = {"PENDING_PAYMENT", "CONFIRMED"}
      /\ now \in Nat /\ HoldTime \in Nat \ {0}
      /\ checkout[b] \in CheckoutState
  BY SagaAssumption DEF BookingStatus, CheckoutState, Closed, Active, TypeOK
<1>1. CASE \E s \in Seat : ReserveSeat(b, s)
  <2>1. /\ bookings'[b].seatHoldExpiresAt = now + HoldTime /\ now' = now
        /\ checkout'[b] = "reserved" /\ Status(b)' = Status(b)
    BY <1>1 DEF ReserveSeat, Goto, Status, TypeOK, BookingRow
  <2>2. now < now + HoldTime
    BY <1>0
  <2>3. QED
    BY <2>1, <2>2 DEF OnTime
<1>2. CASE InsertBooking(b)
  <2>1. /\ SetStatus(b, "PENDING_PAYMENT") /\ Goto(b, "inserted")
        /\ checkout[b] = "reserved" /\ now' = now
    BY <1>2 DEF InsertBooking
  <2>2. Status(b)' = "PENDING_PAYMENT" /\ checkout'[b] = "inserted" /\ Status(b) = "NONE"
        /\ bookings'[b].seatHoldExpiresAt = bookings[b].seatHoldExpiresAt
    BY <1>0, <2>1, StatusWritten, CheckoutMoved DEF Inserted
  <2>3. QED
    BY <1>0, <2>1, <2>2 DEF OnTime, InCheckout
<1>3. CASE \/ InsertBookingFails(b) \/ CreatePaymentIntent(b)
           \/ CreatePaymentIntentFails(b) \/ LoadForUpdate(b) \/ CrashCheckout(b)
  <2>1. PICK pc \in {"ended", "failing", "intended", "saving"} :
          /\ Goto(b, pc) /\ InCheckout(b)
          /\ pc = "intended" => checkout[b] = "inserted"
          /\ pc = "saving" => checkout[b] = "intended"
    BY <1>3 DEF InsertBookingFails, CreatePaymentIntent, CreatePaymentIntentFails,
                LoadForUpdate, CrashCheckout, InCheckout, OnTime
  <2>2. checkout'[b] = pc
    BY <1>0, <2>1, CheckoutMoved
  <2>3. UNCHANGED <<now, bookings>>
    BY <1>3 DEF InsertBookingFails, CreatePaymentIntent, CreatePaymentIntentFails,
                LoadForUpdate, CrashCheckout
  <2>4. QED
    BY <2>1, <2>2, <2>3 DEF OnTime, InCheckout, Status
<1>4. CASE UpdateBooking(b)
  <2>1. /\ checkout[b] = "saving" /\ now' = now
        /\ Goto(b, "ended") \/ Goto(b, "failing")
    BY <1>4 DEF UpdateBooking, OnTime
  <2>2. /\ Status(b)' = Status(b)
        /\ bookings'[b].seatHoldExpiresAt = bookings[b].seatHoldExpiresAt
    BY <1>4, <2>1 DEF UpdateBooking, Status, TypeOK, BookingRow
  <2>3. checkout'[b] \in {"failing", "ended"}
    BY <1>0, <2>1, CheckoutMoved
  <2>4. QED
    BY <2>1, <2>2, <2>3 DEF OnTime, InCheckout
<1>5. CASE FailCheckout(b)
  <2>1. ExpirePendingBooking(b) /\ Goto(b, "ended") /\ now' = now
    BY <1>5 DEF FailCheckout
  <2>2. checkout'[b] = "ended"
    BY <1>0, <2>1, CheckoutMoved
  <2>3. Status(b) \in Closed => Status(b)' = Status(b)
    BY <1>0, <2>1, Expired
  <2>4. QED
    BY <2>2, <2>3 DEF OnTime, InCheckout
<1>6. CASE \/ PaymentStep(b) \/ ConsumeRefundRequest(b)
           \/ \E e \in ConsumedEvent : DeadLetter(b, e)
           \/ ReadSeatState(b) \/ ConsumeSeatCommit(b) \/ ConsumeSeatRelease(b)
           \/ \E kind \in MessageKind : LoseMessage(kind, b)
  <2>1. UNCHANGED <<now, bookings, checkout>>
    BY <1>6 DEF PaymentStep, ConsumeRefundRequest, DeadLetter, ReadSeatState,
                ConsumeSeatCommit, ConsumeSeatRelease, LoseMessage, Change
  <2>2. QED
    BY <2>1 DEF OnTime, InCheckout, Status
<1>7. ASSUME UNCHANGED <<now, checkout>>, checkout[b] \in {"failing", "ended"},
             bookings'[b].seatHoldExpiresAt = bookings[b].seatHoldExpiresAt
      PROVE  OnTime(b)'
  BY <1>7 DEF OnTime, InCheckout
<1>8. CASE ConsumePaymentExpired(b) \/ SweepPendingBooking(b)
  <2>1. ExpirePendingBooking(b) /\ UNCHANGED <<now, checkout>>
    BY <1>8 DEF ConsumePaymentExpired, SweepPendingBooking
  <2>2. checkout[b] \in {"failing", "ended"}
    <3>1. CASE ConsumePaymentExpired(b)
      BY <3>1 DEF ConsumePaymentExpired, Decided
    <3>2. CASE SweepPendingBooking(b)
      <4>1. Status(b) = "PENDING_PAYMENT" /\ bookings[b].seatHoldExpiresAt <= now
        BY <3>2 DEF SweepPendingBooking, Overdue
      <4>2. bookings[b].seatHoldExpiresAt \in Nat
        BY DEF TypeOK, BookingRow
      <4>3. ~ InCheckout(b)
        BY <1>0, <4>1, <4>2 DEF OnTime
      <4>4. QED
        BY <4>1, <4>3 DEF InCheckout, Inserted
    <3>3. QED
      BY <1>8, <3>1, <3>2
  <2>3. /\ bookings'[b].seatHoldExpiresAt = bookings[b].seatHoldExpiresAt
        /\ Status(b) \in Closed => Status(b)' = Status(b)
    BY <1>0, <2>1, Expired
  <2>4. QED
    BY <1>7, <2>1, <2>2, <2>3
<1>9. CASE ConsumePaymentSucceeded(b) \/ CancelBooking(b) \/ ReconcileSeatCommit(b)
  <2>1. UNCHANGED <<now, checkout>>
    BY <1>9 DEF ConsumePaymentSucceeded, CancelBooking, ReconcileSeatCommit
  <2>2. checkout[b] \in {"failing", "ended"}
    BY <1>9 DEF ConsumePaymentSucceeded, CancelBooking, ReconcileSeatCommit, Decided, Inserted
  <2>3. PICK x \in BookingStatus :
          \/ SetStatus(b, x) /\ Status(b) \notin Closed
          \/ UNCHANGED bookings
          \/ bookings' = [bookings EXCEPT ![b].seatCommitted = TRUE]
    BY <1>0, <1>9 DEF ConsumePaymentSucceeded, Settled, CancelBooking,
                      ReconcileSeatCommit, Inserted
  <2>4. /\ bookings'[b].seatHoldExpiresAt = bookings[b].seatHoldExpiresAt
        /\ Status(b) \in Closed => Status(b)' = Status(b)
    <3>1. CASE SetStatus(b, x) /\ Status(b) \notin Closed
      BY <3>1, StatusWritten
    <3>2. CASE UNCHANGED bookings
      BY <3>2 DEF Status
    <3>3. CASE bookings' = [bookings EXCEPT ![b].seatCommitted = TRUE]
      BY <3>3 DEF TypeOK, BookingRow, Status
    <3>4. QED
      BY <2>3, <3>1, <3>2, <3>3
  <2>5. QED
    BY <1>7, <2>1, <2>2, <2>4
<1>10. QED
  BY <1>1, <1>2, <1>3, <1>4, <1>5, <1>6, <1>8, <1>9 DEF StepOf

\* A step for another booking, or for none.
LEMMA OnTimeOtherwise ==
  ASSUME "slow_checkout" \notin Faults, TypeOK, [Next]_vars, NEW b \in Booking,
         OnTime(b), Untouched(b)
  PROVE  OnTime(b)' /\ Status(b)' = Status(b)
<1>1. Status(b)' = Status(b) /\ bookings'[b] = bookings[b] /\ checkout'[b] = checkout[b]
  BY DEF Untouched, Status
<1>2. CASE now' = now
  BY <1>1, <1>2 DEF OnTime, InCheckout
<1>3. CASE Tick
  <2>1. InCheckout(b) => now' < bookings[b].seatHoldExpiresAt
    BY <1>3 DEF Tick
  <2>2. QED
    BY <1>1, <2>1 DEF OnTime, InCheckout
<1>4. now' = now \/ Tick
  BY DEF Next, vars, ReserveSeat, InsertBooking, InsertBookingFails,
         CreatePaymentIntent, CreatePaymentIntentFails, LoadForUpdate, UpdateBooking,
         FailCheckout, CrashCheckout, PaymentStep, ConsumeRefundRequest,
         ConsumePaymentSucceeded, ConsumePaymentExpired, DeadLetter, CancelBooking,
         SweepPendingBooking, ReadSeatState, ReconcileSeatCommit, ConsumeSeatCommit,
         ConsumeSeatRelease, LoseMessage, ReserveSeatLegacy, SweepExpiredHolds, Change
<1>5. QED
  BY <1>2, <1>3, <1>4

Punctual == \A b \in Booking : OnTime(b)

LEMMA PunctualStep ==
  ASSUME "slow_checkout" \notin Faults, TypeOK, Inserted, IInv, Punctual, [Next]_vars
  PROVE  Punctual' /\ \A b \in Booking : Status(b) \in Closed => Status(b)' = Status(b)
<1> SUFFICES ASSUME NEW b \in Booking
             PROVE  OnTime(b)' /\ (Status(b) \in Closed => Status(b)' = Status(b))
  BY DEF Punctual
<1>1. OnTime(b) /\ Decided(b)
  BY DEF Punctual, IInv
<1>2. StepOf(b) \/ Untouched(b)
  BY StepsAreOfOne, OthersUntouched DEF Untouched, paymentVars
<1>3. QED
  BY <1>1, <1>2, OnTimeStep, OnTimeOtherwise

LEMMA PunctualHolds ==
  ASSUME "slow_checkout" \notin Faults
  PROVE  Spec => []Punctual
<1>1. Init => Punctual
  BY DEF Init, Punctual, OnTime, InCheckout
<1>2. TypeOK /\ Inserted /\ IInv /\ Punctual /\ [Next]_vars => Punctual'
  BY PunctualStep
<1>3. QED
  BY <1>1, <1>2, InvariantHolds, PTL DEF Spec

-----------------------------------------------------------------------------
(* What holds while only the reconciler may be slow.                       *)

\* A payment intent belongs to a booking that knows it, or is about to; and no
\* event is consumed before it is announced.
Linked(b) ==
  /\ status[b] # "NONE" =>
       checkout[b] \in {"intended", "saving"} \/ bookings[b].hasPaymentId
  /\ handled[b]["PaymentSucceeded"] <= emitted[b]["PaymentSucceeded"]

\* A payment taken for a booking leads to its confirmation or to a refund.
Accounted(b) ==
  status[b] = "SUCCEEDED" =>
    \/ b \in refunded
    \/ queue[<<"refund", b>>] > 0
    \/ Status(b) = "CONFIRMED"
    \/ Undelivered(b, "PaymentSucceeded") /\ bookings[b].hasPaymentId

LEMMA Counts ==
  ASSUME TypeOK, NEW b \in Booking
  PROVE  /\ handled[b]["PaymentSucceeded"] \in Nat
         /\ emitted[b]["PaymentSucceeded"] \in Nat
         /\ \A k \in MessageKind : queue[<<k, b>>] \in Nat
BY DEF TypeOK, ConsumedEvent, P!EventType

\* A step that takes no account of a payment away.
LEMMA StaysAccounted ==
  ASSUME TypeOK, TypeOK', NEW b \in Booking, Linked(b), Accounted(b),
         Status(b) = "CONFIRMED" => Status(b)' = "CONFIRMED",
         bookings[b].hasPaymentId => bookings'[b].hasPaymentId,
         status'[b] = status[b], b \in refunded => b \in refunded',
         emitted'[b]["PaymentSucceeded"] = emitted[b]["PaymentSucceeded"],
         handled'[b]["PaymentSucceeded"] = handled[b]["PaymentSucceeded"],
         queue[<<"refund", b>>] <= queue'[<<"refund", b>>],
         \/ bookings'[b].hasPaymentId
         \/ checkout[b] \in {"intended", "saving"} => checkout'[b] \in {"intended", "saving"}
  PROVE  Linked(b)' /\ Accounted(b)'
<1>1. Linked(b)'
  BY DEF Linked
<1>2. queue[<<"refund", b>>] > 0 => queue'[<<"refund", b>>] > 0
  <2>1. queue[<<"refund", b>>] \in Nat /\ queue'[<<"refund", b>>] \in Nat
    BY Kinds DEF TypeOK
  <2>2. QED
    BY <2>1
<1>3. Accounted(b)'
  BY <1>2 DEF Accounted, Undelivered
<1>4. QED
  BY <1>1, <1>3

\* Messages that are no refund requests leave these alone.
LEMMA RefundsStay ==
  ASSUME TypeOK, NEW b \in Booking,
         \/ UNCHANGED queue
         \/ \E kinds : Send(kinds, b)
         \/ \E kind \in MessageKind : kind # "refund" /\ Receive(kind, b)
  PROVE  queue[<<"refund", b>>] <= queue'[<<"refund", b>>]
<1>1. queue[<<"refund", b>>] \in Nat /\ "refund" \in MessageKind
  BY Kinds DEF TypeOK
<1>2. CASE UNCHANGED queue
  BY <1>1, <1>2
<1>3. CASE \E kinds : Send(kinds, b)
  BY <1>1, <1>3, SendTypes
<1>4. CASE \E kind \in MessageKind : kind # "refund" /\ Receive(kind, b)
  <2>1. queue'[<<"refund", b>>] = queue[<<"refund", b>>]
    BY <1>1, <1>4 DEF Receive, TypeOK
  <2>2. QED
    BY <1>1, <2>1
<1>5. QED
  BY <1>2, <1>3, <1>4

\* A refund request on its way is an account of a payment.
LEMMA RefundSent ==
  ASSUME TypeOK, NEW b \in Booking, NEW kinds, "refund" \in kinds, Send(kinds, b)
  PROVE  queue'[<<"refund", b>>] > 0
<1>1. queue[<<"refund", b>>] \in Nat /\ "refund" \in MessageKind
  BY Kinds DEF TypeOK
<1>2. queue'[<<"refund", b>>] = queue[<<"refund", b>>] + 1
  BY <1>1, SendTypes
<1>3. QED
  BY <1>1, <1>2

\* Only a booking's own consumers count its events.
LEMMA HandledOfOne ==
  ASSUME TypeOK, [Next]_vars, NEW b \in Booking, ~ StepOf(b)
  PROVE  handled'[b] = handled[b]
<1>1. CASE \E c \in Booking : ConsumePaymentSucceeded(c)
  BY <1>1 DEF ConsumePaymentSucceeded, Handle, StepOf, TypeOK
<1>2. CASE \E c \in Booking : ConsumePaymentExpired(c)
  BY <1>2 DEF ConsumePaymentExpired, Handle, StepOf, TypeOK
<1>3. CASE \E c \in Booking, e \in ConsumedEvent : DeadLetter(c, e)
  BY <1>3 DEF DeadLetter, Handle, StepOf, TypeOK
<1>4. CASE UNCHANGED handled
  BY <1>4
<1>5. QED
  BY <1>1, <1>2, <1>3, <1>4
  DEF Next, vars, eventVars, ReserveSeat, InsertBooking, InsertBookingFails,
      CreatePaymentIntent, CreatePaymentIntentFails, LoadForUpdate, UpdateBooking,
      FailCheckout, CrashCheckout, PaymentStep, ConsumeRefundRequest, CancelBooking,
      SweepPendingBooking, ReadSeatState, ReconcileSeatCommit, ConsumeSeatCommit,
      ConsumeSeatRelease, LoseMessage, ReserveSeatLegacy, SweepExpiredHolds, Change, Tick

LEMMA AccountedStep ==
  ASSUME Faults \subseteq {"slow_reconciler"}, TypeOK, TypeOK', Inserted,
         NEW b \in Booking, Decided(b), OnTime(b), Linked(b), Accounted(b), StepOf(b)
  PROVE  Linked(b)' /\ Accounted(b)'
<1>0. /\ "slow_checkout" \notin Faults /\ "checkout_crash" \notin Faults
      /\ "lost_reply" \notin Faults /\ "payment_lookup" \notin Faults
      /\ "lost_message" \notin Faults
      /\ BookingStatus = {"NONE", "PENDING_PAYMENT", "CONFIRMED", "EXPIRED", "CANCELED"}
      /\ CheckoutState = {"idle", "reserved", "inserted", "intended", "saving",
                          "resurrecting", "failing", "ended"}
      /\ Closed = {"EXPIRED", "CANCELED"} /\ Active = {"PENDING_PAYMENT", "CONFIRMED"}
  BY DEF BookingStatus, CheckoutState, Closed, Active
<1>1. CASE \E s \in Seat : ReserveSeat(b, s)
  <2>1. /\ checkout[b] = "idle" /\ UNCHANGED <<paymentVars, eventVars, queue>>
        /\ Status(b)' = Status(b)
        /\ bookings'[b].hasPaymentId = bookings[b].hasPaymentId
    BY <1>1 DEF ReserveSeat, Status, TypeOK, BookingRow
  <2>2. QED
    BY <2>1, RefundsStay, StaysAccounted DEF paymentVars, eventVars
<1>2. CASE InsertBooking(b)
  <2>1. /\ SetStatus(b, "PENDING_PAYMENT") /\ checkout[b] = "reserved"
        /\ UNCHANGED <<paymentVars, eventVars, queue>>
    BY <1>2 DEF InsertBooking
  <2>2. /\ Status(b) = "NONE"
        /\ bookings'[b].hasPaymentId = bookings[b].hasPaymentId
    BY <1>0, <2>1, StatusWritten DEF Inserted
  <2>3. QED
    BY <2>1, <2>2, RefundsStay, StaysAccounted DEF paymentVars, eventVars
<1>3. CASE InsertBookingFails(b) \/ CreatePaymentIntentFails(b)
  <2>1. /\ checkout[b] \in {"reserved", "inserted"}
        /\ UNCHANGED <<paymentVars, eventVars, bookings>>
        /\ UNCHANGED queue \/ Send({"releaseHold"}, b)
    BY <1>0, <1>3 DEF InsertBookingFails, CreatePaymentIntentFails
  <2>2. QED
    BY <2>1, RefundsStay, StaysAccounted DEF paymentVars, eventVars, Status
<1>4. CASE CreatePaymentIntent(b)
  <2>1. /\ P!Create(b) /\ Goto(b, "intended") /\ UNCHANGED <<eventVars, queue, bookings>>
    BY <1>4 DEF CreatePaymentIntent
  <2>2. status'[b] = "PENDING" /\ UNCHANGED emitted /\ checkout'[b] = "intended"
    BY <1>0, <2>1, CheckoutMoved DEF P!Create, P!Become, TypeOK
  <2>3. QED
    BY <2>1, <2>2 DEF Linked, Accounted, eventVars
<1>5. CASE LoadForUpdate(b)
  <2>1. /\ checkout[b] = "intended" /\ Status(b) = "PENDING_PAYMENT"
        /\ Goto(b, "saving")
        /\ UNCHANGED <<paymentVars, eventVars, queue, bookings>>
    BY <1>5 DEF LoadForUpdate, OnTime
  <2>2. checkout'[b] = "saving"
    BY <1>0, <2>1, CheckoutMoved
  <2>3. QED
    BY <2>1, <2>2, RefundsStay, StaysAccounted DEF paymentVars, eventVars, Status
<1>6. CASE UpdateBooking(b)
  <2>1. /\ checkout[b] = "saving" /\ UNCHANGED <<paymentVars, eventVars, queue>>
    BY <1>6 DEF UpdateBooking, OnTime
  <2>2. bookings'[b].hasPaymentId /\ Status(b)' = Status(b)
    BY <1>6, <2>1 DEF UpdateBooking, Status, TypeOK, BookingRow
  <2>3. QED
    BY <2>1, <2>2, RefundsStay, StaysAccounted DEF paymentVars, eventVars
<1>7. CASE \/ FailCheckout(b) \/ SweepPendingBooking(b) \/ ConsumePaymentExpired(b)
  <2>1. /\ ExpirePendingBooking(b) /\ UNCHANGED paymentVars
        /\ UNCHANGED checkout \/ checkout[b] = "failing"
        /\ UNCHANGED handled \/ Handle(b, "PaymentExpired")
    BY <1>7 DEF FailCheckout, SweepPendingBooking, ConsumePaymentExpired, eventVars
  <2>2. handled'[b]["PaymentSucceeded"] = handled[b]["PaymentSucceeded"]
    BY <2>1 DEF Handle, TypeOK, ConsumedEvent
  <2>3. /\ Status(b) = "CONFIRMED" => Status(b)' = "CONFIRMED"
        /\ bookings'[b].hasPaymentId = bookings[b].hasPaymentId
    BY <2>1, Expired
  <2>4. UNCHANGED queue \/ Send({"releaseHold"}, b)
    BY <2>1 DEF ExpirePendingBooking
  <2>5. queue[<<"refund", b>>] <= queue'[<<"refund", b>>]
    BY <2>4, RefundsStay
  <2>6. checkout[b] \in {"intended", "saving"} => checkout'[b] \in {"intended", "saving"}
    BY <2>1
  <2>7. QED
    BY <2>1, <2>2, <2>3, <2>5, <2>6, StaysAccounted DEF paymentVars
<1>8. CASE CrashCheckout(b) \/ \E kind \in MessageKind : LoseMessage(kind, b)
  BY <1>0, <1>8 DEF CrashCheckout, LoseMessage
<1>9. CASE PaymentStep(b)
  <2>1. /\ checkout[b] = "ended"
        /\ UNCHANGED <<refunded, bookings, checkout, eventVars, queue>>
    BY <1>0, <1>9 DEF PaymentStep, P!Stall, P!Decline, P!Settle, P!Expire, P!ExpireSilently
  <2>2. status[b] # "NONE"
    BY <1>9 DEF PaymentStep, P!Stall, P!Decline, P!Settle, P!Expire, P!ExpireSilently,
                P!Unsettled
  <2>3. bookings[b].hasPaymentId /\ bookings'[b].hasPaymentId
    BY <2>1, <2>2 DEF Linked
  <2>4. \/ /\ status'[b] = "SUCCEEDED"
           /\ emitted'[b]["PaymentSucceeded"] = emitted[b]["PaymentSucceeded"] + 1
        \/ /\ status'[b] # "SUCCEEDED"
           /\ emitted'[b]["PaymentSucceeded"] = emitted[b]["PaymentSucceeded"]
    BY <1>9 DEF PaymentStep, P!Stall, P!Decline, P!Settle, P!Expire, P!ExpireSilently,
                P!Become, P!Emit, P!EventType, TypeOK
  <2>5. handled'[b]["PaymentSucceeded"] = handled[b]["PaymentSucceeded"]
    BY <2>1 DEF eventVars
  <2>6. Linked(b)'
    BY <2>3, <2>4, <2>5, Counts DEF Linked
  <2>7. status'[b] = "SUCCEEDED" =>
          handled'[b]["PaymentSucceeded"] < emitted'[b]["PaymentSucceeded"]
    BY <2>4, <2>5, Counts DEF Linked
  <2>8. QED
    BY <2>3, <2>6, <2>7 DEF Accounted, Undelivered
<1>10. CASE ConsumeRefundRequest(b)
  <2>1. /\ UNCHANGED <<bookings, checkout, eventVars, status>>
        /\ P!Refund(b) \/ status[b] # "SUCCEEDED" \/ b \in refunded
        /\ P!Refund(b) \/ UNCHANGED paymentVars
    BY <1>10 DEF ConsumeRefundRequest, P!Refund, paymentVars
  <2>2. emitted'[b]["PaymentSucceeded"] = emitted[b]["PaymentSucceeded"]
    BY <2>1 DEF P!Refund, P!Emit, paymentVars, TypeOK, P!EventType
  <2>3. status[b] = "SUCCEEDED" => b \in refunded'
    BY <2>1 DEF P!Refund, paymentVars
  <2>4. QED
    BY <2>1, <2>2, <2>3 DEF Linked, Accounted, eventVars
<1>11. CASE ConsumePaymentSucceeded(b)
  <2>1. /\ Handle(b, "PaymentSucceeded") /\ bookings[b].hasPaymentId /\ Settled(b)
        /\ UNCHANGED <<checkout, paymentVars>>
    BY <1>11 DEF ConsumePaymentSucceeded
  <2>2. handled'[b]["PaymentSucceeded"] <= emitted[b]["PaymentSucceeded"]
    <3>1. /\ handled'[b]["PaymentSucceeded"] = handled[b]["PaymentSucceeded"] + 1
          /\ handled[b]["PaymentSucceeded"] < emitted[b]["PaymentSucceeded"]
      BY <2>1 DEF Handle, Undelivered, TypeOK, ConsumedEvent
    <3>2. QED
      BY <3>1, Counts
  <2>3. CASE Status(b) = "PENDING_PAYMENT" /\ SetStatus(b, "CONFIRMED")
    <3>1. Status(b)' = "CONFIRMED" /\ bookings'[b].hasPaymentId
      BY <1>0, <2>1, <2>3, StatusWritten
    <3>2. QED
      BY <2>1, <2>2, <3>1 DEF Linked, Accounted, paymentVars
  <2>4. CASE Send({"refund"}, b) /\ UNCHANGED bookings
    <3>1. queue'[<<"refund", b>>] > 0
      BY <2>4, RefundSent
    <3>2. QED
      BY <2>1, <2>2, <2>4, <3>1 DEF Linked, Accounted, paymentVars
  <2>5. CASE Status(b) = "CONFIRMED" /\ UNCHANGED <<bookings, queue>>
    BY <2>1, <2>2, <2>5 DEF Linked, Accounted, paymentVars, Status
  <2>6. QED
    BY <2>1, <2>3, <2>4, <2>5 DEF Settled
<1>12. CASE \E e \in ConsumedEvent : DeadLetter(b, e)
  <2>1. PICK e \in ConsumedEvent : DeadLetter(b, e)
    BY <1>12
  <2>2. /\ ~ bookings[b].hasPaymentId /\ Handle(b, e)
        /\ UNCHANGED <<bookings, checkout, paymentVars, queue>>
    BY <1>0, <2>1 DEF DeadLetter
  <2>3. handled'[b]["PaymentSucceeded"] <= emitted[b]["PaymentSucceeded"]
    <3>1. \/ handled'[b]["PaymentSucceeded"] = handled[b]["PaymentSucceeded"]
          \/ /\ handled'[b]["PaymentSucceeded"] = handled[b]["PaymentSucceeded"] + 1
             /\ handled[b]["PaymentSucceeded"] < emitted[b]["PaymentSucceeded"]
      BY <2>2 DEF Handle, Undelivered, TypeOK, ConsumedEvent
    <3>2. QED
      BY <3>1, Counts DEF Linked
  <2>4. QED
    BY <2>2, <2>3 DEF Linked, Accounted, paymentVars, Status
<1>13. CASE CancelBooking(b)
  <2>1. /\ SetStatus(b, "CANCELED") /\ UNCHANGED <<checkout, paymentVars, eventVars>>
        /\ Status(b) \in Active
    BY <1>13 DEF CancelBooking
  <2>2. bookings'[b].hasPaymentId = bookings[b].hasPaymentId
    BY <1>0, <2>1, StatusWritten
  <2>3. CASE Status(b) = "CONFIRMED"
    <3>1. RefundDue(b)
      BY <2>3 DEF Decided, RefundDue
    <3>2. \E kinds : Send(kinds \union {"refund"}, b)
      BY <1>0, <1>13, <3>1 DEF CancelBooking
    <3>3. queue'[<<"refund", b>>] > 0
      BY <3>2, RefundSent
    <3>4. QED
      BY <2>1, <2>2, <3>3 DEF Linked, Accounted, paymentVars, eventVars
  <2>4. CASE Status(b) # "CONFIRMED"
    <3>1. \E kinds : Send(kinds, b)
      BY <1>13 DEF CancelBooking
    <3>2. queue[<<"refund", b>>] <= queue'[<<"refund", b>>]
      BY <3>1, RefundsStay
    <3>3. QED
      BY <2>1, <2>2, <2>4, <3>2, StaysAccounted DEF paymentVars, eventVars
  <2>5. QED
    BY <2>3, <2>4
<1>14. CASE ReconcileSeatCommit(b)
  <2>1. UNCHANGED <<checkout, paymentVars, eventVars>>
    BY <1>14 DEF ReconcileSeatCommit
  <2>2. CASE bookings' = [bookings EXCEPT ![b].seatCommitted = TRUE] /\ UNCHANGED queue
    <3>1. /\ Status(b)' = Status(b)
          /\ bookings'[b].hasPaymentId = bookings[b].hasPaymentId
      BY <2>2 DEF Status, TypeOK, BookingRow
    <3>2. QED
      BY <2>1, <2>2, <3>1, RefundsStay, StaysAccounted DEF paymentVars, eventVars
  <2>3. CASE Send({"commit"}, b) /\ UNCHANGED bookings
    <3>1. queue[<<"refund", b>>] <= queue'[<<"refund", b>>]
      BY <2>3, RefundsStay
    <3>2. QED
      BY <2>1, <2>3, <3>1, StaysAccounted DEF paymentVars, eventVars, Status
  <2>4. CASE SetStatus(b, "CANCELED") /\ Send({"refund"}, b)
    <3>1. bookings'[b].hasPaymentId = bookings[b].hasPaymentId
      BY <1>0, <2>4, StatusWritten
    <3>2. queue'[<<"refund", b>>] > 0
      BY <2>4, RefundSent
    <3>3. QED
      BY <2>1, <3>1, <3>2 DEF Linked, Accounted, paymentVars, eventVars
  <2>5. QED
    BY <1>14, <2>2, <2>3, <2>4 DEF ReconcileSeatCommit, Compensation
<1>15. CASE ReadSeatState(b) \/ ConsumeSeatCommit(b) \/ ConsumeSeatRelease(b)
  <2>1. /\ UNCHANGED <<bookings, checkout, paymentVars, eventVars>>
        /\ \/ UNCHANGED queue
           \/ \E kind \in MessageKind : kind # "refund" /\ Receive(kind, b)
    BY <1>15, Kinds DEF ReadSeatState, ConsumeSeatCommit, ConsumeSeatRelease, Change
  <2>2. queue[<<"refund", b>>] <= queue'[<<"refund", b>>]
    BY <2>1, RefundsStay
  <2>3. QED
    BY <2>1, <2>2, StaysAccounted DEF paymentVars, eventVars, Status
<1>16. QED
  BY <1>1, <1>2, <1>3, <1>4, <1>5, <1>6, <1>7, <1>8, <1>9, <1>10, <1>11, <1>12, <1>13,
     <1>14, <1>15 DEF StepOf

AllAccounted == \A b \in Booking : Linked(b) /\ Accounted(b)

LEMMA AccountsHold ==
  ASSUME Faults \subseteq {"slow_reconciler"}
  PROVE  Spec => []AllAccounted
<1>0. "slow_checkout" \notin Faults
  OBVIOUS
<1>1. Init => AllAccounted
  BY DEF Init, AllAccounted, Linked, Accounted, P!Init, P!EventType, ConsumedEvent
<1>2. /\ TypeOK /\ Inserted /\ IInv /\ Punctual /\ AllAccounted /\ [Next]_vars /\ TypeOK'
      => AllAccounted'
  <2> SUFFICES ASSUME TypeOK, Inserted, IInv, Punctual, AllAccounted, [Next]_vars, TypeOK',
                      NEW b \in Booking
               PROVE  Linked(b)' /\ Accounted(b)'
    BY DEF AllAccounted
  <2>1. Decided(b) /\ OnTime(b) /\ Linked(b) /\ Accounted(b)
    BY DEF IInv, Punctual, AllAccounted
  <2>2. CASE StepOf(b)
    BY <2>1, <2>2, AccountedStep
  <2>3. CASE ~ StepOf(b)
    <3>1. Untouched(b)
      BY <2>3, StepsAreOfOne, OthersUntouched DEF Untouched, paymentVars
    <3>2. handled'[b] = handled[b]
      BY <2>3, HandledOfOne
    <3>3. queue[<<"refund", b>>] <= queue'[<<"refund", b>>]
      BY <3>1, Counts, Kinds DEF Untouched
    <3>4. QED
      BY <2>1, <3>1, <3>2, <3>3, StaysAccounted DEF Untouched, Status
  <2>4. QED
    BY <2>2, <2>3
<1>3. QED
  BY <1>0, <1>1, <1>2, InvariantHolds, PunctualHolds, PTL DEF Spec

-----------------------------------------------------------------------------
(* How a booking gets a seat, and how it lets go of it.                    *)

\* Only a checkout puts a hold in a booking's name, and only the commit of that
\* hold books the seat for it.
LEMMA SeatsAreGained ==
  ASSUME TypeOK, [Next]_vars, NEW b \in Booking, NEW s \in Seat
  PROVE  /\ S!HeldBy(seats'[s], b) => S!HeldBy(seats[s], b) \/ ReserveSeat(b, s)
         /\ S!BookedBy(seats'[s], b) =>
              \/ S!BookedBy(seats[s], b)
              \/ S!HeldBy(seats[s], b) /\ ConsumeSeatCommit(b)
<1>0. None \notin Booking
  BY SagaAssumption
<1>1. CASE \E c \in Booking, x \in Seat : ReserveSeat(c, x)
  <2>1. PICK c \in Booking, x \in Seat : ReserveSeat(c, x)
    BY <1>1
  <2>2. CASE x = s
    BY <2>1, <2>2 DEF ReserveSeat, TypeOK, S!HeldSeatValues, S!HeldBy, S!BookedBy
  <2>3. CASE x # s
    BY <2>1, <2>3 DEF ReserveSeat, TypeOK
  <2>4. QED
    BY <2>2, <2>3
<1>2. CASE \E x \in Seat : ReserveSeatLegacy(x)
  <2>1. PICK x \in Seat : ReserveSeatLegacy(x)
    BY <1>2
  <2>2. CASE x = s
    BY <1>0, <2>1, <2>2 DEF ReserveSeatLegacy, TypeOK, S!BookedSeatValues, S!HeldBy, S!BookedBy
  <2>3. CASE x # s
    BY <2>1, <2>3 DEF ReserveSeatLegacy, TypeOK
  <2>4. QED
    BY <2>2, <2>3
<1>3. CASE SweepExpiredHolds
  <2>1. seats'[s] = S!SweptRow(seats[s], now)
    BY <1>3 DEF SweepExpiredHolds
  <2>2. QED
    BY <2>1 DEF S!SweptRow, S!AvailableSeatValues, S!HeldBy, S!BookedBy
<1>4. CASE \E c \in Booking : ConsumeSeatCommit(c)
  <2>1. PICK c \in Booking : ConsumeSeatCommit(c)
    BY <1>4
  <2>2. Change(c, S!CommittedRow(SeatOf(c), c, c, now))
    BY <2>1 DEF ConsumeSeatCommit
  <2>3. CASE bookings[c].seatNumber = s
    <3>1. seats'[s] = S!CommittedRow(seats[s], c, c, now)
      BY <2>2, <2>3 DEF Change, SeatOf, TypeOK
    <3>2. \/ seats'[s] = seats[s]
          \/ S!HeldBy(seats[s], c) /\ seats'[s] = S!BookedSeatValues(c)
      BY <3>1 DEF S!CommittedRow, S!CommitCondition, S!HeldBy
    <3>3. QED
      BY <2>1, <3>2 DEF S!BookedSeatValues, S!HeldBy, S!BookedBy
  <2>4. CASE bookings[c].seatNumber # s
    BY <2>2, <2>4 DEF Change, TypeOK
  <2>5. QED
    BY <2>3, <2>4
<1>5. CASE \E c \in Booking : ConsumeSeatRelease(c)
  <2>1. PICK c \in Booking, token \in Booking \union {None},
             owner \in Booking \union {None} :
          Change(c, S!ReleasedRow(SeatOf(c), token, owner))
    BY <1>5 DEF ConsumeSeatRelease
  <2>2. CASE bookings[c].seatNumber = s
    <3>1. seats'[s] = S!ReleasedRow(seats[s], token, owner)
      BY <2>1, <2>2 DEF Change, SeatOf, TypeOK
    <3>2. QED
      BY <3>1 DEF S!ReleasedRow, S!AvailableSeatValues, S!HeldBy, S!BookedBy
  <2>3. CASE bookings[c].seatNumber # s
    BY <2>1, <2>3 DEF Change, TypeOK
  <2>4. QED
    BY <2>2, <2>3
<1>6. CASE UNCHANGED seats
  BY <1>6
<1>7. \/ \E c \in Booking, x \in Seat : ReserveSeat(c, x)
      \/ \E x \in Seat : ReserveSeatLegacy(x)
      \/ SweepExpiredHolds
      \/ \E c \in Booking : ConsumeSeatCommit(c)
      \/ \E c \in Booking : ConsumeSeatRelease(c)
      \/ UNCHANGED seats
  BY DEF Next, vars, InsertBooking, InsertBookingFails,
         CreatePaymentIntent, CreatePaymentIntentFails, LoadForUpdate, UpdateBooking,
         FailCheckout, CrashCheckout, PaymentStep, ConsumeRefundRequest,
         ConsumePaymentSucceeded, ConsumePaymentExpired, DeadLetter, CancelBooking,
         SweepPendingBooking, ReadSeatState, ReconcileSeatCommit, LoseMessage, Tick
<1>8. QED
  BY <1>1, <1>2, <1>3, <1>4, <1>5, <1>6, <1>7

\* A checkout takes one seat and keeps it in mind.
LEMMA SeatStays ==
  ASSUME TypeOK, NEW b \in Booking, StepOf(b), checkout[b] # "idle"
  PROVE  bookings'[b].seatNumber = bookings[b].seatNumber /\ checkout'[b] # "idle"
<1>1. \/ UNCHANGED bookings
      \/ \E x : bookings' = [bookings EXCEPT ![b].bookingStatus = x]
      \/ \E x : bookings' = [bookings EXCEPT ![b].hasPaymentId = TRUE,
                                             ![b].bookingStatus = x]
      \/ bookings' = [bookings EXCEPT ![b].seatCommitted = TRUE]
  <2>1. CASE UpdateBooking(b)
    <3>1. \E x : bookings' = [bookings EXCEPT ![b].hasPaymentId = TRUE,
                                              ![b].bookingStatus = x]
      BY <2>1 DEF UpdateBooking, TypeOK, BookingRow
    <3>2. QED
      BY <3>1
  <2>2. CASE ~ UpdateBooking(b)
    BY <2>2
    DEF StepOf, ReserveSeat, InsertBooking, InsertBookingFails,
        CreatePaymentIntent, CreatePaymentIntentFails, LoadForUpdate,
        FailCheckout, CrashCheckout, PaymentStep, ConsumeRefundRequest,
        ConsumePaymentSucceeded, ConsumePaymentExpired, DeadLetter, CancelBooking,
        SweepPendingBooking, ReadSeatState, ReconcileSeatCommit, ConsumeSeatCommit,
        ConsumeSeatRelease, LoseMessage, Change, ExpirePendingBooking, Settled, SetStatus
  <2>3. QED
    BY <2>1, <2>2
<1>2. bookings'[b].seatNumber = bookings[b].seatNumber
  BY <1>1 DEF TypeOK, BookingRow
<1>3. UNCHANGED checkout \/ \E pc \in CheckoutState \ {"idle"} : Goto(b, pc)
  BY DEF StepOf, ReserveSeat, InsertBooking, InsertBookingFails,
         CreatePaymentIntent, CreatePaymentIntentFails, LoadForUpdate, UpdateBooking,
         FailCheckout, CrashCheckout, PaymentStep, ConsumeRefundRequest,
         ConsumePaymentSucceeded, ConsumePaymentExpired, DeadLetter, CancelBooking,
         SweepPendingBooking, ReadSeatState, ReconcileSeatCommit, ConsumeSeatCommit,
         ConsumeSeatRelease, LoseMessage, Change, CheckoutState
<1>4. QED
  BY <1>2, <1>3, CheckoutMoved

\* Every kind of message but those sent is no more under way than it was.
LEMMA OnlySent ==
  ASSUME TypeOK, NEW b \in Booking, NEW kinds,
         \/ UNCHANGED queue
         \/ Send(kinds, b)
         \/ \E kind \in MessageKind : Receive(kind, b)
  PROVE  \A k \in MessageKind : k \notin kinds => queue'[<<k, b>>] <= queue[<<k, b>>]
<1> SUFFICES ASSUME NEW k \in MessageKind, k \notin kinds
             PROVE  queue'[<<k, b>>] <= queue[<<k, b>>]
  OBVIOUS
<1>1. queue[<<k, b>>] \in Nat
  BY DEF TypeOK
<1>2. CASE UNCHANGED queue
  BY <1>1, <1>2
<1>3. CASE Send(kinds, b)
  <2>1. queue'[<<k, b>>] = queue[<<k, b>>] + 0
    BY <1>1, <1>3, SendTypes
  <2>2. QED
    BY <1>1, <2>1
<1>4. CASE \E kind \in MessageKind : Receive(kind, b)
  BY <1>1, <1>4, ReceiveTypes
<1>5. QED
  BY <1>2, <1>3, <1>4

\* Why a step sends a message of the seat workflow, and which statuses it leaves.
Orderly(b) ==
  /\ \/ queue'[<<"commit", b>>] <= queue[<<"commit", b>>]
     \/ /\ Status(b) \in Active /\ Status(b)' = "CONFIRMED"
        /\ queue'[<<"releaseHold", b>>] <= queue[<<"releaseHold", b>>]
  /\ \/ queue'[<<"releaseHold", b>>] <= queue[<<"releaseHold", b>>]
     \/ Status(b) = "PENDING_PAYMENT" /\ Status(b)' \in Closed
     \/ Status(b) = "NONE" /\ Status(b)' = "NONE" /\ checkout'[b] = "ended"
  /\ \/ queue'[<<"releaseBooking", b>>] <= queue[<<"releaseBooking", b>>]
     \/ bookings[b].seatCommitted
  /\ Status(b)' \in {"NONE", "PENDING_PAYMENT"} => Status(b) \in {"NONE", "PENDING_PAYMENT"}
  /\ Status(b) = "NONE" /\ checkout[b] = "ended" =>
       Status(b)' = "NONE" /\ checkout'[b] = "ended"
  /\ bookings'[b].seatCommitted =>
       bookings[b].seatCommitted \/ (read[b] # None /\ SeenCommitted(b))

LEMMA OrderlyStep ==
  ASSUME "slow_checkout" \notin Faults, TypeOK, Inserted, NEW b \in Booking,
         Decided(b), OnTime(b), StepOf(b)
  PROVE  Orderly(b)
<1>0. /\ BookingStatus = {"NONE", "PENDING_PAYMENT", "CONFIRMED", "EXPIRED", "CANCELED"}
      /\ CheckoutState = {"idle", "reserved", "inserted", "intended", "saving",
                          "resurrecting", "failing", "ended"}
      /\ Closed = {"EXPIRED", "CANCELED"} /\ Active = {"PENDING_PAYMENT", "CONFIRMED"}
      /\ {"commit", "releaseHold", "releaseBooking"} \subseteq MessageKind
  BY Kinds DEF BookingStatus, CheckoutState, Closed, Active
<1>1. CASE \/ \E s \in Seat : ReserveSeat(b, s)
           \/ CreatePaymentIntent(b) \/ CreatePaymentIntentFails(b)
           \/ LoadForUpdate(b) \/ UpdateBooking(b) \/ CrashCheckout(b)
           \/ PaymentStep(b) \/ ConsumeRefundRequest(b)
           \/ \E e \in ConsumedEvent : DeadLetter(b, e)
           \/ ReadSeatState(b) \/ ConsumeSeatCommit(b) \/ ConsumeSeatRelease(b)
           \/ \E kind \in MessageKind : LoseMessage(kind, b)
  <2>1. UNCHANGED queue \/ \E kind \in MessageKind : Receive(kind, b)
    BY <1>1, Kinds
    DEF ReserveSeat, CreatePaymentIntent, CreatePaymentIntentFails, LoadForUpdate,
        UpdateBooking, CrashCheckout, PaymentStep, ConsumeRefundRequest, DeadLetter,
        ReadSeatState, ConsumeSeatCommit, ConsumeSeatRelease, LoseMessage
  <2>2. \A k \in MessageKind : queue'[<<k, b>>] <= queue[<<k, b>>]
    <3> DEFINE none == {}
    <3>1. \A k \in MessageKind : k \notin none
      OBVIOUS
    <3> HIDE DEF none
    <3>2. QED
      BY <2>1, <3>1, OnlySent
  <2>3. /\ Status(b)' = Status(b)
        /\ bookings'[b].seatCommitted = bookings[b].seatCommitted
    <3>1. CASE \E s \in Seat : ReserveSeat(b, s)
      BY <3>1 DEF ReserveSeat, Status, TypeOK, BookingRow
    <3>2. CASE UpdateBooking(b)
      BY <3>2 DEF UpdateBooking, OnTime, Status, TypeOK, BookingRow
    <3>3. CASE UNCHANGED bookings
      BY <3>3 DEF Status
    <3>4. QED
      BY <1>1, <3>1, <3>2, <3>3
      DEF CreatePaymentIntent, CreatePaymentIntentFails, LoadForUpdate,
          CrashCheckout, PaymentStep, ConsumeRefundRequest, DeadLetter,
          ReadSeatState, ConsumeSeatCommit, ConsumeSeatRelease, LoseMessage, Change
  <2>4. checkout[b] = "ended" => checkout'[b] = "ended"
    BY <1>1
    DEF ReserveSeat, CreatePaymentIntent, CreatePaymentIntentFails, LoadForUpdate,
        UpdateBooking, CrashCheckout, PaymentStep, ConsumeRefundRequest, DeadLetter,
        ReadSeatState, ConsumeSeatCommit, ConsumeSeatRelease, LoseMessage, Change
  <2>5. QED
    BY <1>0, <2>2, <2>3, <2>4 DEF Orderly
<1>2. CASE InsertBooking(b)
  <2>1. /\ SetStatus(b, "PENDING_PAYMENT") /\ checkout[b] = "reserved" /\ UNCHANGED queue
    BY <1>2 DEF InsertBooking
  <2>2. /\ Status(b) = "NONE"
        /\ bookings'[b].seatCommitted = bookings[b].seatCommitted
    BY <1>0, <2>1, StatusWritten DEF Inserted
  <2>3. \A k \in MessageKind : queue'[<<k, b>>] <= queue[<<k, b>>]
    BY <2>1 DEF TypeOK
  <2>4. QED
    BY <1>0, <2>1, <2>2, <2>3 DEF Orderly
<1>3. CASE InsertBookingFails(b)
  <2>1. /\ Goto(b, "ended") /\ checkout[b] = "reserved" /\ UNCHANGED bookings
        /\ UNCHANGED queue \/ Send({"releaseHold"}, b)
    BY <1>3 DEF InsertBookingFails
  <2>2. Status(b) = "NONE" /\ Status(b)' = "NONE" /\ checkout'[b] = "ended"
    BY <1>0, <2>1, CheckoutMoved DEF Inserted, Status
  <2>3. \A k \in MessageKind : k \notin {"releaseHold"} => queue'[<<k, b>>] <= queue[<<k, b>>]
    BY <2>1, OnlySent
  <2>4. QED
    BY <1>0, <2>1, <2>2, <2>3 DEF Orderly
<1>4. CASE FailCheckout(b) \/ ConsumePaymentExpired(b) \/ SweepPendingBooking(b)
  <2>1. /\ ExpirePendingBooking(b)
        /\ checkout[b] = "ended" => checkout'[b] = "ended"
    BY <1>4 DEF FailCheckout, ConsumePaymentExpired, SweepPendingBooking
  <2>2. CASE Status(b) = "PENDING_PAYMENT"
    <3>1. SetStatus(b, "EXPIRED") /\ Send({"releaseHold"}, b)
      BY <2>1, <2>2 DEF ExpirePendingBooking
    <3>2. /\ Status(b)' = "EXPIRED"
          /\ bookings'[b].seatCommitted = bookings[b].seatCommitted
      BY <1>0, <3>1, StatusWritten
    <3>3. \A k \in MessageKind : k \notin {"releaseHold"} => queue'[<<k, b>>] <= queue[<<k, b>>]
      BY <3>1, OnlySent
    <3>4. QED
      BY <1>0, <2>2, <3>2, <3>3 DEF Orderly
  <2>3. CASE Status(b) # "PENDING_PAYMENT"
    <3>1. UNCHANGED <<bookings, queue>>
      BY <2>1, <2>3 DEF ExpirePendingBooking
    <3>2. \A k \in MessageKind : queue'[<<k, b>>] <= queue[<<k, b>>]
      BY <3>1 DEF TypeOK
    <3>3. QED
      BY <1>0, <2>1, <2>3, <3>1, <3>2 DEF Orderly, Status
  <2>4. QED
    BY <2>2, <2>3
<1>5. CASE ConsumePaymentSucceeded(b)
  <2>1. Settled(b) /\ UNCHANGED checkout
    BY <1>5 DEF ConsumePaymentSucceeded
  <2>2. CASE Status(b) = "PENDING_PAYMENT" /\ SetStatus(b, "CONFIRMED") /\ Send({"commit"}, b)
    <3>1. /\ Status(b)' = "CONFIRMED"
          /\ bookings'[b].seatCommitted = bookings[b].seatCommitted
      BY <1>0, <2>2, StatusWritten
    <3>2. \A k \in MessageKind : k \notin {"commit"} => queue'[<<k, b>>] <= queue[<<k, b>>]
      BY <2>2, OnlySent
    <3>3. QED
      BY <1>0, <2>2, <3>1, <3>2 DEF Orderly
  <2>3. CASE /\ UNCHANGED bookings /\ Status(b) \notin {"NONE", "PENDING_PAYMENT"}
             /\ UNCHANGED queue \/ Send({"refund"}, b)
    <3>1. \A k \in MessageKind : k \notin {"refund"} => queue'[<<k, b>>] <= queue[<<k, b>>]
      BY <2>3, OnlySent
    <3>2. QED
      BY <1>0, <2>3, <3>1 DEF Orderly, Status
  <2>4. QED
    BY <1>0, <2>1, <2>2, <2>3 DEF Settled
<1>6. CASE CancelBooking(b)
  <2>1. SetStatus(b, "CANCELED") /\ Status(b) \in Active
    BY <1>6 DEF CancelBooking
  <2>2. /\ Status(b)' = "CANCELED"
        /\ bookings'[b].seatCommitted = bookings[b].seatCommitted
    BY <1>0, <2>1, StatusWritten
  <2>3. PICK release \in ReleaseKind, refund \in BOOLEAN :
          /\ Send({release} \union (IF refund THEN {"refund"} ELSE {}), b)
          /\ release = "releaseHold" => Status(b) = "PENDING_PAYMENT"
          /\ release = "releaseBooking" => bookings[b].seatCommitted
    BY <1>0, <1>6 DEF CancelBooking, ConfirmedRelease, ReleaseKind, RefundDue,
                      TypeOK, BookingRow
  <2> DEFINE kinds == {release} \union (IF refund THEN {"refund"} ELSE {})
  <2>4. /\ "commit" \notin kinds
        /\ release # "releaseHold" => "releaseHold" \notin kinds
        /\ release # "releaseBooking" => "releaseBooking" \notin kinds
    BY DEF ReleaseKind
  <2>5. Send(kinds, b)
    BY <2>3
  <2> HIDE DEF kinds
  <2>6. \A k \in MessageKind : k \notin kinds => queue'[<<k, b>>] <= queue[<<k, b>>]
    BY <2>5, OnlySent
  <2>7. QED
    BY <1>0, <2>1, <2>2, <2>3, <2>4, <2>6 DEF Orderly
<1>7. CASE ReconcileSeatCommit(b)
  <2>1. Status(b) = "CONFIRMED" /\ read[b] # None /\ UNCHANGED checkout
    BY <1>7 DEF ReconcileSeatCommit, Inserted, Unlocked
  <2>2. CASE /\ SeenCommitted(b) /\ UNCHANGED queue
             /\ bookings' = [bookings EXCEPT ![b].seatCommitted = TRUE]
    <3>1. Status(b)' = Status(b)
      BY <2>2 DEF Status, TypeOK, BookingRow
    <3>2. \A k \in MessageKind : queue'[<<k, b>>] <= queue[<<k, b>>]
      BY <2>2 DEF TypeOK
    <3>3. QED
      BY <1>0, <2>1, <2>2, <3>1, <3>2 DEF Orderly
  <2>3. CASE Send({"commit"}, b) /\ UNCHANGED bookings
    <3>1. \A k \in MessageKind : k \notin {"commit"} => queue'[<<k, b>>] <= queue[<<k, b>>]
      BY <2>3, OnlySent
    <3>2. QED
      BY <1>0, <2>1, <2>3, <3>1 DEF Orderly, Status
  <2>4. CASE SetStatus(b, "CANCELED") /\ Send({"refund"}, b)
    <3>1. /\ Status(b)' = "CANCELED"
          /\ bookings'[b].seatCommitted = bookings[b].seatCommitted
      BY <1>0, <2>4, StatusWritten
    <3>2. \A k \in MessageKind : k \notin {"refund"} => queue'[<<k, b>>] <= queue[<<k, b>>]
      BY <2>4, OnlySent
    <3>3. QED
      BY <1>0, <2>1, <3>1, <3>2 DEF Orderly
  <2>5. QED
    BY <1>7, <2>2, <2>3, <2>4 DEF ReconcileSeatCommit, Compensation
<1>8. QED
  BY <1>1, <1>2, <1>3, <1>4, <1>5, <1>6, <1>7 DEF StepOf

\* A booking has no seat but the one it names.
OwnSeatOnly(b) ==
  \A s \in Seat : S!HeldBy(seats[s], b) \/ S!BookedBy(seats[s], b) =>
    checkout[b] # "idle" /\ bookings[b].seatNumber = s

\* While no checkout is slow, the message that closes a pending booking is sent
\* for one whose seat is held and will not be committed; and a booking recorded
\* as committed has no hold left.
Releasable(b) ==
  /\ OwnSeatOnly(b)
  /\ queue[<<"releaseHold", b>>] > 0 =>
       Status(b) \in Closed \/ (Status(b) = "NONE" /\ checkout[b] = "ended")
  /\ Status(b) \in {"NONE", "PENDING_PAYMENT"} \/ queue[<<"releaseHold", b>>] > 0 =>
       ~ OwnsSeat(b) /\ ~ (queue[<<"commit", b>>] > 0)
  /\ bookings[b].seatCommitted \/ queue[<<"releaseBooking", b>>] > 0 => ~ HoldsSeat(b)

LEMMA OwnSeatStep ==
  ASSUME TypeOK, [Next]_vars, NEW b \in Booking, OwnSeatOnly(b),
         StepOf(b) \/ Untouched(b)
  PROVE  OwnSeatOnly(b)'
<1> SUFFICES ASSUME NEW s \in Seat, S!HeldBy(seats'[s], b) \/ S!BookedBy(seats'[s], b)
             PROVE  checkout'[b] # "idle" /\ bookings'[b].seatNumber = s
  BY DEF OwnSeatOnly, S!HeldBy, S!BookedBy
<1>1. CASE ReserveSeat(b, s)
  BY <1>1 DEF ReserveSeat, Goto, TypeOK, BookingRow
<1>2. CASE ~ ReserveSeat(b, s)
  <2>1. checkout[b] # "idle" /\ bookings[b].seatNumber = s
    BY <1>2, SeatsAreGained DEF OwnSeatOnly
  <2>2. CASE Untouched(b)
    BY <2>1, <2>2 DEF Untouched
  <2>3. CASE StepOf(b)
    BY <2>1, <2>3, SeatStays
  <2>4. QED
    BY <2>2, <2>3
<1>3. QED
  BY <1>1, <1>2

\* A seat that is gone does not come back.
LEMMA SeatIsGone ==
  ASSUME TypeOK, [Next]_vars, NEW b \in Booking, checkout[b] # "idle",
         ~ HoldsSeat(b)
  PROVE  /\ ~ HoldsSeat(b)'
         /\ ~ OwnsSeat(b) => ~ OwnsSeat(b)'
<1>1. \A s \in Seat : ~ ReserveSeat(b, s) /\ ~ S!HeldBy(seats[s], b)
  BY DEF ReserveSeat, HoldsSeat
<1>2. \A s \in Seat : ~ S!HeldBy(seats'[s], b)
  BY <1>1, SeatsAreGained
<1>3. \A s \in Seat : S!BookedBy(seats'[s], b) => S!BookedBy(seats[s], b)
  BY <1>1, SeatsAreGained
<1>4. ~ HoldsSeat(b)'
  BY <1>2 DEF HoldsSeat, S!HeldBy
<1>5. ~ OwnsSeat(b) => ~ OwnsSeat(b)'
  BY <1>3 DEF OwnsSeat, S!BookedBy
<1>6. QED
  BY <1>4, <1>5

\* What a release does to the seat of its booking.
LEMMA ReleaseFrees ==
  ASSUME TypeOK, Seated, [Next]_vars, NEW b \in Booking, Releasable(b),
         ConsumeSeatRelease(b)
  PROVE  ~ OwnsSeat(b)' /\ ~ HoldsSeat(b)'
<1>0. None \notin Booking
  BY SagaAssumption
<1>1. SUFFICES ASSUME NEW s \in Seat, S!HeldBy(seats'[s], b) \/ S!BookedBy(seats'[s], b)
               PROVE  FALSE
  BY DEF OwnsSeat, HoldsSeat, S!HeldBy, S!BookedBy
<1>2. ~ ReserveSeat(b, s) /\ ~ ConsumeSeatCommit(b)
  <2>1. PICK kind \in ReleaseKind : Receive(kind, b) /\ kind \in MessageKind
    BY Kinds DEF ConsumeSeatRelease, ReleaseKind
  <2>2. queue' # queue /\ UNCHANGED checkout
    <3>1. queue'[<<kind, b>>] = queue[<<kind, b>>] - 1 /\ queue[<<kind, b>>] \in Nat
      BY <2>1 DEF Receive, TypeOK
    <3>2. queue'[<<kind, b>>] # queue[<<kind, b>>]
      BY <3>1
    <3>3. UNCHANGED checkout
      BY DEF ConsumeSeatRelease, Change
    <3>4. QED
      BY <3>2, <3>3
  <2>3. ~ ReserveSeat(b, s)
    BY <2>2 DEF ReserveSeat
  <2>4. ~ ConsumeSeatCommit(b)
    <3>1. kind # "commit"
      BY <2>1 DEF ReleaseKind
    <3>2. queue'[<<"commit", b>>] = queue[<<"commit", b>>]
          /\ queue[<<"commit", b>>] \in Nat
      BY <2>1, <3>1, Kinds DEF Receive, TypeOK
    <3>3. ConsumeSeatCommit(b) => queue'[<<"commit", b>>] = queue[<<"commit", b>>] - 1
      BY Kinds DEF ConsumeSeatCommit, Receive, TypeOK
    <3>4. QED
      BY <3>2, <3>3
  <2>5. QED
    BY <2>3, <2>4
<1>3. S!HeldBy(seats[s], b) \/ S!BookedBy(seats[s], b)
  BY <1>1, <1>2, SeatsAreGained
<1>4. bookings[b].seatNumber = s
  BY <1>3 DEF Releasable, OwnSeatOnly
<1>5. \/ /\ queue[<<"releaseHold", b>>] > 0
         /\ Change(b, S!ReleasedRow(seats[s], b, None))
      \/ Change(b, S!ReleasedRow(seats[s], b, b))
      \/ /\ queue[<<"releaseBooking", b>>] > 0
         /\ Change(b, S!ReleasedRow(seats[s], None, b))
  BY <1>4 DEF ConsumeSeatRelease, SeatOf, Receive
<1>6. \/ S!HeldBy(seats[s], b) /\ seats'[s] = S!ReleasedRow(seats[s], b, None)
      \/ seats'[s] = S!ReleasedRow(seats[s], b, b)
      \/ S!BookedBy(seats[s], b) /\ seats'[s] = S!ReleasedRow(seats[s], None, b)
  <2>1. queue[<<"releaseHold", b>>] > 0 => ~ S!BookedBy(seats[s], b)
    BY DEF Releasable, OwnsSeat
  <2>2. queue[<<"releaseBooking", b>>] > 0 => ~ S!HeldBy(seats[s], b)
    BY DEF Releasable, HoldsSeat
  <2>3. QED
    BY <1>3, <1>4, <1>5, <2>1, <2>2 DEF Change, TypeOK
<1>7. seats'[s] = S!AvailableSeatValues
  BY <1>0, <1>3, <1>6 DEF S!ReleasedRow, S!ReleaseCondition
<1>8. QED
  BY <1>1, <1>7 DEF S!AvailableSeatValues, S!HeldBy, S!BookedBy

\* A commit that takes effect was under way, and a checkout that takes a seat was
\* only starting.
LEMMA SeatGained ==
  ASSUME TypeOK, [Next]_vars, NEW b \in Booking
  PROVE  /\ HoldsSeat(b)' => HoldsSeat(b) \/ \E s \in Seat : ReserveSeat(b, s)
         /\ OwnsSeat(b)' => OwnsSeat(b) \/ queue[<<"commit", b>>] > 0
<1>1. ASSUME HoldsSeat(b)' PROVE HoldsSeat(b) \/ \E s \in Seat : ReserveSeat(b, s)
  <2>1. PICK s \in Seat : S!HeldBy(seats'[s], b)
    BY <1>1 DEF HoldsSeat, S!HeldBy
  <2>2. QED
    BY <2>1, SeatsAreGained DEF HoldsSeat
<1>2. ASSUME OwnsSeat(b)' PROVE OwnsSeat(b) \/ queue[<<"commit", b>>] > 0
  <2>1. PICK s \in Seat : S!BookedBy(seats'[s], b)
    BY <1>2 DEF OwnsSeat, S!BookedBy
  <2>2. QED
    BY <2>1, SeatsAreGained DEF OwnsSeat, ConsumeSeatCommit, Receive
<1>3. QED
  BY <1>1, <1>2

LEMMA ReleasableStep ==
  ASSUME "slow_checkout" \notin Faults, TypeOK, TypeOK', Seated, Inserted, [Next]_vars,
         NEW b \in Booking, Decided(b), Owned(b), OnTime(b), Releasable(b),
         Status(b) \in Closed => Status(b)' = Status(b),
         StepOf(b) \/ Untouched(b)
  PROVE  Releasable(b)'
<1> DEFINE more(kind) == queue'[<<kind, b>>] > 0 /\ ~ (queue[<<kind, b>>] > 0)
           open       == Status(b) \in {"NONE", "PENDING_PAYMENT"}
<1>0. /\ Closed = {"EXPIRED", "CANCELED"} /\ Active = {"PENDING_PAYMENT", "CONFIRMED"}
      /\ {"commit", "releaseHold", "releaseBooking"} \subseteq MessageKind
  BY Kinds DEF Closed, Active
<1>1. Orderly(b)
  <2>1. CASE StepOf(b)
    BY <2>1, OrderlyStep
  <2>2. CASE Untouched(b)
    <3>1. \A k \in MessageKind : queue'[<<k, b>>] <= queue[<<k, b>>]
      BY <2>2 DEF Untouched, TypeOK
    <3>2. QED
      BY <1>0, <2>2, <3>1 DEF Untouched, Orderly, Status
  <2>3. QED
    BY <2>1, <2>2
<1>2. OwnSeatOnly(b)'
  BY OwnSeatStep DEF Releasable
<1>3. /\ more("commit") => /\ Status(b) \in Active /\ Status(b)' = "CONFIRMED"
                           /\ ~ more("releaseHold")
      /\ more("releaseHold") =>
           \/ Status(b) = "PENDING_PAYMENT" /\ Status(b)' \in Closed
           \/ Status(b) = "NONE" /\ Status(b)' = "NONE" /\ checkout'[b] = "ended"
      /\ more("releaseBooking") => bookings[b].seatCommitted
  <2>1. \A k \in {"commit", "releaseHold", "releaseBooking"} :
          more(k) => ~ (queue'[<<k, b>>] <= queue[<<k, b>>])
    <3>1. \A k \in {"commit", "releaseHold", "releaseBooking"} :
            queue[<<k, b>>] \in Nat /\ queue'[<<k, b>>] \in Nat
      BY <1>0 DEF TypeOK
    <3>2. QED
      BY <3>1
  <2>2. queue'[<<"releaseHold", b>>] <= queue[<<"releaseHold", b>>] => ~ more("releaseHold")
    BY <2>1
  <2> HIDE DEF more
  <2>3. QED
    BY <1>1, <2>1, <2>2 DEF Orderly
<1> HIDE DEF more
<1>4. queue'[<<"releaseHold", b>>] > 0 =>
        Status(b)' \in Closed \/ (Status(b)' = "NONE" /\ checkout'[b] = "ended")
  <2>1. CASE more("releaseHold")
    BY <1>3, <2>1
  <2>2. CASE queue[<<"releaseHold", b>>] > 0
    BY <1>1, <2>2 DEF Releasable, Orderly
  <2>3. QED
    BY <2>1, <2>2 DEF more
<1>5. ASSUME Status(b)' \in {"NONE", "PENDING_PAYMENT"} \/ queue'[<<"releaseHold", b>>] > 0
      PROVE  ~ OwnsSeat(b)' /\ ~ (queue'[<<"commit", b>>] > 0)
  <2>1. open \/ queue[<<"releaseHold", b>>] > 0
    BY <1>1, <1>3, <1>5 DEF Orderly, more
  <2>2. ~ OwnsSeat(b) /\ ~ (queue[<<"commit", b>>] > 0)
    BY <2>1 DEF Releasable
  <2>3. ~ OwnsSeat(b)'
    BY <2>2, SeatGained
  <2>4. ~ more("commit")
    <3>1. SUFFICES ASSUME more("commit") PROVE FALSE
      OBVIOUS
    <3>2. /\ Status(b)' = "CONFIRMED" /\ Status(b) \in Active
          /\ ~ more("releaseHold")
      BY <1>3, <3>1
    <3>3. queue[<<"releaseHold", b>>] > 0
      BY <1>5, <3>2 DEF more
    <3>4. QED
      BY <1>0, <3>2, <3>3 DEF Releasable
  <2>5. QED
    BY <2>2, <2>3, <2>4 DEF more
<1>6. ASSUME bookings'[b].seatCommitted \/ queue'[<<"releaseBooking", b>>] > 0
      PROVE  ~ HoldsSeat(b)'
  <2>1. \/ bookings[b].seatCommitted \/ queue[<<"releaseBooking", b>>] > 0
        \/ read[b] # None /\ SeenCommitted(b)
    BY <1>1, <1>3, <1>6 DEF Orderly, more
  <2>2. ~ HoldsSeat(b)
    <3>1. CASE read[b] # None /\ SeenCommitted(b)
      <4>1. Status(b) = "CONFIRMED"
        BY <3>1 DEF Inserted, Unlocked
      <4>2. S!BookedBy(seats[bookings[b].seatNumber], b)
        BY <3>1, <4>1 DEF Owned, SeenCommitted
      <4>3. QED
        BY <4>2 DEF HoldsSeat, Releasable, OwnSeatOnly, S!HeldBy, S!BookedBy
    <3>2. QED
      BY <2>1, <3>1 DEF Releasable
  <2>3. ~ \E s \in Seat : ReserveSeat(b, s)
    <3>1. SUFFICES ASSUME NEW s \in Seat, ReserveSeat(b, s) PROVE FALSE
      OBVIOUS
    <3>2. /\ checkout[b] = "idle" /\ UNCHANGED queue
          /\ bookings'[b].seatCommitted = bookings[b].seatCommitted
      BY <3>1 DEF ReserveSeat, TypeOK, BookingRow
    <3>3. Status(b) = "NONE" /\ ~ bookings[b].hasPaymentId
      BY <3>2 DEF Inserted, Decided
    <3>4. ~ bookings[b].seatCommitted
      BY <3>3 DEF Owned
    <3>5. ~ (queue[<<"releaseBooking", b>>] > 0)
      BY <3>3 DEF Decided, GivesBack
    <3>6. QED
      BY <1>6, <3>2, <3>4, <3>5
  <2>4. QED
    BY <2>2, <2>3, SeatGained
<1>7. QED
  BY <1>2, <1>4, <1>5, <1>6 DEF Releasable, Status, OwnsSeat, HoldsSeat

AllReleasable == \A b \in Booking : Releasable(b)

LEMMA ReleasableHolds ==
  ASSUME "slow_checkout" \notin Faults
  PROVE  Spec => []AllReleasable
<1>1. Init => AllReleasable
  BY Kinds, SagaAssumption
  DEF Init, AllReleasable, Releasable, OwnSeatOnly, OwnsSeat, HoldsSeat, Status,
      S!AvailableSeatValues, S!HeldBy, S!BookedBy
<1>2. /\ TypeOK /\ Seated /\ Inserted /\ IInv /\ Punctual /\ AllReleasable /\ [Next]_vars
      /\ TypeOK'
      => AllReleasable'
  <2> SUFFICES ASSUME TypeOK, Seated, Inserted, IInv, Punctual, AllReleasable,
                      [Next]_vars, TypeOK', NEW b \in Booking
               PROVE  Releasable(b)'
    BY DEF AllReleasable
  <2>1. Decided(b) /\ Owned(b) /\ OnTime(b) /\ Releasable(b)
    BY DEF IInv, Punctual, AllReleasable
  <2>2. StepOf(b) \/ Untouched(b)
    BY StepsAreOfOne, OthersUntouched DEF Untouched, paymentVars
  <2>3. Status(b) \in Closed => Status(b)' = Status(b)
    BY PunctualStep
  <2>4. QED
    BY <2>1, <2>2, <2>3, ReleasableStep
<1>3. QED
  BY <1>1, <1>2, InvariantHolds, PunctualHolds, PTL DEF Spec

-----------------------------------------------------------------------------
(* Theorems.                                                               *)

\* Whatever fails, is late or is repeated: a confirmed booking is paid, and only
\* a closed one is refunded.
THEOREM MoneyFollows == Spec => []MoneyFollowsBooking
<1>1. IInv => MoneyFollowsBooking
  BY DEF IInv, Decided, MoneyFollowsBooking
<1>2. QED
  BY <1>1, InvariantHolds, PTL

\* Whatever fails, is late or is repeated: a confirmed booking whose commit is
\* recorded owns its seat.
THEOREM CommittedBookingsOwnSeats == Spec => []CommittedBookingOwnsSeat
<1>1. Seated /\ Inserted /\ IInv => CommittedBookingOwnsSeat
  <2> SUFFICES ASSUME Seated, Inserted, IInv, NEW b \in Booking,
                      Status(b) = "CONFIRMED", bookings[b].seatCommitted
               PROVE  OwnsSeat(b)
    BY DEF CommittedBookingOwnsSeat
  <2>1. bookings[b].seatNumber \in Seat
    BY DEF Seated, Inserted
  <2>2. S!BookedBy(seats[bookings[b].seatNumber], b)
    <3>1. Owned(b)
      BY DEF IInv
    <3>2. QED
      BY <3>1, Zenon DEF Owned
  <2>3. QED
    BY <2>1, <2>2 DEF OwnsSeat
<1>2. QED
  BY <1>1, InvariantHolds, PTL

\* What the services are for: of all bookings whose payment succeeded and whose
\* seat was committed, no two have one seat, though no transaction spans the
\* database of the bookings and that of the seats.
SeatsAreSoldOnce ==
  \A b, c \in Booking :
    /\ b # c
    /\ Status(b) = "CONFIRMED" /\ bookings[b].seatCommitted
    /\ Status(c) = "CONFIRMED" /\ bookings[c].seatCommitted
    => bookings[b].seatNumber # bookings[c].seatNumber

\* No seat is sold twice, whatever fails, is late or is repeated.
THEOREM NoSeatIsSoldTwice == Spec => []SeatsAreSoldOnce
<1>1. IInv => SeatsAreSoldOnce
  <2> SUFFICES ASSUME IInv, NEW b \in Booking, NEW c \in Booking,
                      Status(b) = "CONFIRMED", bookings[b].seatCommitted,
                      Status(c) = "CONFIRMED", bookings[c].seatCommitted,
                      bookings[b].seatNumber = bookings[c].seatNumber
               PROVE  b = c
    BY DEF SeatsAreSoldOnce
  <2>1. Owned(b) /\ Owned(c)
    BY DEF IInv
  <2>2. /\ S!BookedBy(seats[bookings[b].seatNumber], b)
        /\ S!BookedBy(seats[bookings[c].seatNumber], c)
    BY <2>1, Zenon DEF Owned
  <2>3. QED
    BY <2>2 DEF S!BookedBy
<1>2. QED
  BY <1>1, InvariantHolds, PTL

\* With every fault: only its own checkout opens a closed booking again, when it
\* loads the row after it was closed, and never a booking that was paid back.
THEOREM OnlyTheCheckoutReopens == Spec => ReopenedOnlyByItsCheckout
<1>1. TypeOK /\ Seated /\ Inserted /\ IInv /\ [Next]_vars
        => [\A b \in Booking :
              Status(b) \in Closed /\ Status(b)' # Status(b) =>
                /\ checkout[b] = "resurrecting" /\ UpdateBooking(b)
                /\ b \notin refunded /\ queue[<<"refund", b>>] = 0]_vars
  <2> SUFFICES ASSUME TypeOK, Inserted, IInv, [Next]_vars, NEW b \in Booking,
                      Status(b) \in Closed, Status(b)' # Status(b)
               PROVE  /\ checkout[b] = "resurrecting" /\ UpdateBooking(b)
                      /\ b \notin refunded /\ queue[<<"refund", b>>] = 0
    OBVIOUS
  <2>1. checkout[b] = "resurrecting" /\ UpdateBooking(b)
    <3>1. StepOf(b)
      BY StepsAreOfOne, OthersUntouched DEF Untouched, paymentVars, Status
    <3>2. QED
      BY <3>1, ClosedStep
  <2>2. ~ bookings[b].hasPaymentId
    BY <2>1 DEF IInv, Decided
  <2>3. b \notin refunded /\ ~ (queue[<<"refund", b>>] > 0)
    BY <2>2 DEF IInv, Decided, GivesBack
  <2>4. queue[<<"refund", b>>] \in Nat
    BY Kinds DEF TypeOK
  <2>5. QED
    BY <2>1, <2>3, <2>4
<1>2. QED
  BY <1>1, InvariantHolds, PTL DEF Spec, ReopenedOnlyByItsCheckout

\* No payment is left to nobody, in whatever order it, its expiry, the
\* cancellation and the commit of the seat happen, as long as no checkout is
\* slow, crashes or loses an answer and no consumer or lookup fails.
THEOREM PaymentsAreAccountedFor ==
  ASSUME Faults \subseteq {"slow_reconciler"}
  PROVE  Spec => []PaidIsAccountedFor
<1>1. AllAccounted => PaidIsAccountedFor
  BY DEF AllAccounted, Accounted, PaidIsAccountedFor
<1>2. QED
  BY <1>1, AccountsHold, PTL

\* A release frees the seat of its booking, whichever kind the booking was closed
\* with, and no late commit gives it back, as long as nobody cancels or pays a
\* booking, and its hold does not end, while the request that creates it runs.
THEOREM ReleasesFreeSeatsForGood ==
  ASSUME "slow_checkout" \notin Faults
  PROVE  Spec => ReleaseFreesForGood
<1>1. TypeOK /\ Seated /\ AllReleasable /\ [Next]_vars
        => [\A b \in Booking :
              \/ ConsumeSeatRelease(b)
              \/ checkout[b] # "idle" /\ ~ OwnsSeat(b) /\ ~ HoldsSeat(b)
              => ~ OwnsSeat(b)' /\ ~ HoldsSeat(b)']_vars
  <2> SUFFICES ASSUME TypeOK, Seated, AllReleasable, [Next]_vars, NEW b \in Booking,
                      \/ ConsumeSeatRelease(b)
                      \/ checkout[b] # "idle" /\ ~ OwnsSeat(b) /\ ~ HoldsSeat(b)
               PROVE  ~ OwnsSeat(b)' /\ ~ HoldsSeat(b)'
    OBVIOUS
  <2>1. CASE ConsumeSeatRelease(b)
    BY <2>1, ReleaseFrees DEF AllReleasable
  <2>2. CASE checkout[b] # "idle" /\ ~ OwnsSeat(b) /\ ~ HoldsSeat(b)
    BY <2>2, SeatIsGone
  <2>3. QED
    BY <2>1, <2>2
<1>2. QED
  BY <1>1, InvariantHolds, ReleasableHolds, PTL DEF Spec, ReleaseFreesForGood

=============================================================================
