---------------------------- MODULE CheckoutProofs ----------------------------
(* Theorems about Checkout, for every value of its constants.              *)
EXTENDS Checkout, TLAPS

\* An answer that is about a booking names it.
RepliesName ==
  \A r \in Request : reply[r].kind \in {"checkout", "active"} => reply[r].of \in Request

\* The payment step is shown for a checkout.
PaymentHasCheckout == AtPayment => page.checkout # NoCheckout

\* A request that has not arrived has inserted nothing, and one that has
\* brought a key.
IdleIsFresh ==
  \A r \in Request :
    IF request[r].at = "idle" THEN booking[r].status = "none"
    ELSE request[r].key \in Request

\* A checkout is answered with the record of its key.
AnswersAreRecorded ==
  \A r \in Request : reply[r].kind = "checkout" =>
    request[r].key \in Request /\ record[request[r].key] = reply[r].of

Inv ==
  /\ TypeOK /\ RepliesName /\ PaymentHasCheckout
  /\ IdleIsFresh /\ OneActiveBooking /\ AnswersAreRecorded

RequestRow ==
  [at : {"idle", "lookup", "check", "find", "insert", "intent", "link", "save",
         "undo", "done"},
   flight : Flight \cup {None}, key : Request \cup {None}]
ReplyRow ==
  [kind : {"none", "checkout", "active", "key_reused", "premium", "refused", "error"},
   of : Request \cup {None}, settled : BOOLEAN]
BookingRow ==
  [status : {"none", "pending", "confirmed", "closed"}, linked : BOOLEAN,
   lapsed : BOOLEAN]
Seen == {"none", "pending", "stalled", "succeeded", "expired"}
Page ==
  [step : {"browse", "review", "payment", "success"},
   flight : Flight \cup {None}, passenger : BOOLEAN, sent : Request \cup {None},
   checkout : [booking : Request, payment : Request] \cup {NoCheckout},
   seen : Seen,
   sync : {"idle", "syncing", "timed_out"},
   target : Request \cup {None}, handled : BOOLEAN]

Payments == [Request -> Seen \cup {"overwritten"}]

\* The steps of the server leave the page alone, and those of the page the
\* tables: each half of the invariant is kept by the other for free.
ServerInv ==
  /\ request \in [Request -> RequestRow]
  /\ reply \in [Request -> ReplyRow]
  /\ booking \in [Request -> BookingRow]
  /\ payment \in Payments
  /\ record \in [Request -> Request \cup {None}]
  /\ RepliesName /\ IdleIsFresh /\ OneActiveBooking /\ AnswersAreRecorded

PageInv == page \in Page /\ PaymentHasCheckout

LEMMA Halves == Inv <=> ServerInv /\ PageInv /\ faults \in 0..MaxFaults
<1>1. Seen \cup {"overwritten"} =
        {"none", "pending", "stalled", "succeeded", "expired", "overwritten"}
  BY DEF Seen
<1>2. QED
  BY <1>1 DEF Inv, ServerInv, PageInv, TypeOK, RequestRow, ReplyRow, BookingRow, Page,
              Payments, Seen

\* What the page reads of a payment.
LEMMA Reads ==
  ASSUME ServerInv, NEW p \in Request
  PROVE  PaymentStatus(p) \in Seen
BY DEF ServerInv, Payments, PaymentStatus, Seen

LEMMA ServerUnchanged == ServerInv /\ UNCHANGED serverVars => ServerInv'
BY DEF ServerInv, serverVars, RepliesName, IdleIsFresh, OneActiveBooking,
       AnswersAreRecorded

LEMMA PageUnchanged == PageInv /\ UNCHANGED page => PageInv'
BY DEF PageInv, PaymentHasCheckout, AtPayment

\* What a request may be answered.
Fine(r, answer) ==
  /\ answer \in ReplyRow
  /\ answer.kind = "active" => answer.of \in Request
  /\ answer.kind = "checkout" =>
       /\ answer.of \in Request /\ request[r].key \in Request
       /\ record[request[r].key] = answer.of

\* Bookings that stay as they are, but for some that are closed.
OnlyCloses ==
  /\ booking' \in [Request -> BookingRow]
  /\ \A b \in Request : \/ booking'[b].status = booking[b].status
                        \/ booking'[b].status = "closed" /\ booking[b].status # "none"

\* A request that goes on, or is answered, without a new booking.
LEMMA GoesOn ==
  ASSUME ServerInv, NEW r \in Request, request[r].at # "idle",
         NEW at \in {"check", "find", "insert", "intent", "link", "save", "undo", "done"},
         Goto(r, at), UNCHANGED <<reply, record>>, OnlyCloses, payment' \in Payments
  PROVE  ServerInv'
<1> USE DEF ServerInv, Goto, OnlyCloses, Payments
<1>1. request' \in [Request -> RequestRow]
  BY DEF RequestRow
<1>2. RepliesName'
  BY DEF RepliesName
<1>3. \A q \in Request : /\ request'[q].flight = request[q].flight
                         /\ request'[q].key = request[q].key
                         /\ request'[q].at = "idle" => request[q].at = "idle"
  BY DEF RequestRow
<1>4. IdleIsFresh' /\ OneActiveBooking'
  BY <1>3 DEF IdleIsFresh, OneActiveBooking
<1>5. AnswersAreRecorded'
  BY <1>3 DEF AnswersAreRecorded
<1>6. QED
  BY <1>1, <1>2, <1>4, <1>5

LEMMA IsAnswered ==
  ASSUME ServerInv, NEW r \in Request, request[r].at # "idle",
         NEW answer, Fine(r, answer), Respond(r, answer),
         UNCHANGED <<payment, record>>, OnlyCloses
  PROVE  ServerInv'
<1> USE DEF ServerInv, Respond, Goto, Fine, OnlyCloses, Payments
<1>1. request' \in [Request -> RequestRow]
  BY DEF RequestRow
<1>2. reply' \in [Request -> ReplyRow] /\ RepliesName'
  BY DEF RepliesName
<1>3. \A q \in Request : /\ request'[q].flight = request[q].flight
                         /\ request'[q].key = request[q].key
                         /\ request'[q].at = "idle" => request[q].at = "idle"
  BY DEF RequestRow
<1>4. IdleIsFresh' /\ OneActiveBooking'
  BY <1>3 DEF IdleIsFresh, OneActiveBooking
<1>5. AnswersAreRecorded'
  BY <1>3 DEF AnswersAreRecorded
<1>6. QED
  BY <1>1, <1>2, <1>4, <1>5

\* An answer that is about no booking, and one about an active booking.
LEMMA PlainAnswers ==
  ASSUME NEW r \in Request,
         NEW kind \in {"key_reused", "premium", "refused", "error"}
  PROVE  Fine(r, Answer(kind))
BY DEF Fine, Answer, NoReply, ReplyRow

LEMMA ActiveAnswers ==
  ASSUME NEW r \in Request, NEW b \in Request, NEW w \in BOOLEAN
  PROVE  Fine(r, ActiveBookingExists(b, w))
BY DEF Fine, ActiveBookingExists, ReplyRow

LEMMA SameBookings == ServerInv /\ UNCHANGED booking => OnlyCloses
BY DEF OnlyCloses, ServerInv

LEMMA SamePayments == ServerInv /\ UNCHANGED payment => payment' \in Payments
BY DEF ServerInv

LEMMA Indices ==
  \A f : Active(f) \subseteq Indexed(f) /\ Indexed(f) \subseteq Request
BY DEF Active, Indexed, OfFlight

LEMMA RequestStep ==
  ASSUME ServerInv, NEW r \in Request, ServerStep(r)
  PROVE  ServerInv'
<1>0. /\ request[r] \in RequestRow /\ None \notin Request
      /\ record \in [Request -> Request \cup {None}]
      /\ booking \in [Request -> BookingRow]
  BY CheckoutAssumption DEF ServerInv
<1>1. CASE LookupKey(r)
  <2>1. request[r].at # "idle" /\ OnlyCloses /\ payment' \in Payments
    BY <1>1, SameBookings, SamePayments DEF LookupKey
  <2>2. CASE Goto(r, "check") /\ UNCHANGED reply
    BY <1>1, <2>1, <2>2, GoesOn DEF LookupKey
  <2>3. CASE Respond(r, Answer("key_reused"))
    BY <1>1, <2>1, <2>3, IsAnswered, PlainAnswers DEF LookupKey
  <2>4. CASE /\ Recorded(request[r].key)
             /\ Respond(r, [Answer("checkout") EXCEPT !.of = record[request[r].key]])
    <3>1. request[r].key \in Request /\ record[request[r].key] \in Request
      BY <1>0, <1>1, <2>4 DEF LookupKey, ServerInv, IdleIsFresh, Recorded
    <3>2. Fine(r, [Answer("checkout") EXCEPT !.of = record[request[r].key]])
      BY <3>1 DEF Fine, Answer, NoReply, ReplyRow
    <3>3. QED
      BY <1>1, <2>1, <2>4, <3>2, IsAnswered DEF LookupKey
  <2>5. QED
    BY <1>1, <2>2, <2>3, <2>4 DEF LookupKey
<1>2. CASE Refuse(r)
  BY <1>2, SameBookings, IsAnswered, PlainAnswers DEF Refuse
<1>3. CASE ExpireStale(r)
  <2>1. OnlyCloses
    BY <1>0, <1>3 DEF ExpireStale, BookingRow, Indexed, OnlyCloses
  <2>2. QED
    BY <1>3, <2>1, GoesOn, SamePayments DEF ExpireStale
<1>4. CASE FindActive(r)
  <2>1. request[r].at # "idle" /\ OnlyCloses /\ payment' \in Payments
    BY <1>4, SameBookings, SamePayments DEF FindActive
  <2>2. CASE \E b \in Active(request[r].flight) : Respond(r, ActiveBookingExists(b, TRUE))
    BY <1>4, <2>1, <2>2, Indices, IsAnswered, ActiveAnswers DEF FindActive
  <2>3. CASE \E answer \in {"premium", "refused"} : Respond(r, Answer(answer))
    BY <1>4, <2>1, <2>3, IsAnswered, PlainAnswers DEF FindActive
  <2>4. CASE Goto(r, "insert") /\ UNCHANGED reply
    BY <1>4, <2>1, <2>4, GoesOn DEF FindActive
  <2>5. QED
    BY <1>4, <2>2, <2>3, <2>4 DEF FindActive
<1>5. CASE Insert(r)
  <2> USE <1>0, <1>5 DEF Insert, ServerInv, Goto
  <2>1. request' \in [Request -> RequestRow] /\ booking' \in [Request -> BookingRow]
    BY DEF RequestRow, BookingRow
  <2>2. IdleIsFresh' /\ AnswersAreRecorded' /\ RepliesName'
    BY DEF IdleIsFresh, AnswersAreRecorded, RepliesName, RequestRow, BookingRow
  <2>3. OneActiveBooking'
    BY DEF OneActiveBooking, IndexAllows, Indexed, OfFlight, RequestRow, BookingRow
  <2>4. QED
    BY <2>1, <2>2, <2>3
<1>6. CASE InsertRefused(r)
  <2>1. request[r].at # "idle" /\ OnlyCloses
    BY <1>6, SameBookings DEF InsertRefused
  <2>2. CASE \E b \in Active(request[r].flight) : Respond(r, ActiveBookingExists(b, FALSE))
    BY <1>6, <2>1, <2>2, Indices, IsAnswered, ActiveAnswers DEF InsertRefused
  <2>3. CASE Respond(r, Answer("error"))
    BY <1>6, <2>1, <2>3, IsAnswered, PlainAnswers DEF InsertRefused
  <2>4. QED
    BY <1>6, <2>2, <2>3 DEF InsertRefused
<1>7. CASE CreateIntent(r)
  <2>1. payment' \in Payments
    BY <1>7 DEF CreateIntent, ServerInv, Payments, Seen
  <2>2. QED
    BY <1>7, <2>1, GoesOn, SameBookings DEF CreateIntent
<1>8. CASE CreateIntentFails(r)
  <2>1. payment' \in Payments
    BY <1>8 DEF CreateIntentFails, ServerInv, Payments, Seen
  <2>2. QED
    BY <1>8, <2>1, GoesOn, SameBookings DEF CreateIntentFails
<1>9. CASE LinkPayment(r)
  <2>1. CASE ~IndexAllows(r) /\ Goto(r, "undo") /\ UNCHANGED booking
    BY <1>9, <2>1, GoesOn, SameBookings, SamePayments DEF LinkPayment
  <2>2. CASE /\ IndexAllows(r) /\ Goto(r, "save")
             /\ booking' = [booking EXCEPT ![r].status = "pending", ![r].linked = TRUE]
    <3> USE <1>0, <1>9, <2>2 DEF LinkPayment, ServerInv, Goto
    <3>1. request' \in [Request -> RequestRow] /\ booking' \in [Request -> BookingRow]
      BY ZenonT(40) DEF RequestRow, BookingRow
    <3>2. IdleIsFresh' /\ AnswersAreRecorded' /\ RepliesName'
      BY DEF IdleIsFresh, AnswersAreRecorded, RepliesName, RequestRow, BookingRow
    <3>3. OneActiveBooking'
      BY DEF OneActiveBooking, IndexAllows, Indexed, OfFlight, RequestRow, BookingRow
    <3>4. QED
      BY <3>1, <3>2, <3>3
  <2>3. QED
    BY <1>9, <2>1, <2>2 DEF LinkPayment
<1>10. CASE SaveRecord(r)
  <2>1. CASE Recorded(request[r].key) /\ Goto(r, "undo") /\ UNCHANGED <<reply, record>>
    BY <1>10, <2>1, GoesOn, SameBookings, SamePayments DEF SaveRecord
  <2>2. CASE /\ ~Recorded(request[r].key)
             /\ record' = [record EXCEPT ![request[r].key] = r]
             /\ Respond(r, [Answer("checkout") EXCEPT !.of = r])
    <3> DEFINE answer == [Answer("checkout") EXCEPT !.of = r]
    <3>1. answer \in ReplyRow /\ answer.kind = "checkout" /\ answer.of = r
      BY DEF Answer, NoReply, ReplyRow
    <3> HIDE DEF answer
    <3>2. request[r].key \in Request /\ record[request[r].key] = None
      BY <1>10, <2>2 DEF SaveRecord, ServerInv, IdleIsFresh, Recorded
    <3>3. /\ request' = [request EXCEPT ![r].at = "done"]
          /\ reply' = [reply EXCEPT ![r] = answer]
          /\ UNCHANGED <<booking, payment>>
      BY <1>10, <2>2 DEF SaveRecord, Respond, Goto, answer
    <3> USE <1>0, <3>1, <3>2, <3>3 DEF ServerInv
    <3>4. /\ request' \in [Request -> RequestRow] /\ reply' \in [Request -> ReplyRow]
          /\ record' \in [Request -> Request \cup {None}]
      BY <2>2 DEF RequestRow
    <3>5. \A q \in Request : /\ request'[q].flight = request[q].flight
                             /\ request'[q].key = request[q].key
                             /\ request'[q].at = "idle" => request[q].at = "idle"
      BY DEF RequestRow
    <3>6. IdleIsFresh' /\ OneActiveBooking'
      BY <3>5 DEF IdleIsFresh, OneActiveBooking
    <3>7. RepliesName' /\ AnswersAreRecorded'
      BY <2>2, <3>5 DEF RepliesName, AnswersAreRecorded
    <3>8. QED
      BY <3>4, <3>6, <3>7
  <2>3. QED
    BY <1>10, <2>1, <2>2 DEF SaveRecord
<1>11. CASE Undo(r)
  <2>1. OnlyCloses
    BY <1>0, <1>11 DEF Undo, BookingRow, OnlyCloses
  <2>2. QED
    BY <1>11, <2>1, IsAnswered, PlainAnswers DEF Undo
<1>12. CASE Crash(r)
  BY <1>12, GoesOn, SameBookings, SamePayments DEF Crash
<1>13. QED
  BY <1>1, <1>2, <1>3, <1>4, <1>5, <1>6, <1>7, <1>8, <1>9, <1>10, <1>11, <1>12
     DEF ServerStep
\* An arrival, of the page or of another client.
LEMMA ArrivalStep ==
  ASSUME ServerInv, NEW r \in Request, NEW f \in Flight \cup {None}, NEW k \in Request,
         Arrive(r, f, k), UNCHANGED <<reply, booking, payment, record>>
  PROVE  ServerInv'
<1> USE DEF ServerInv, Arrive
<1>1. request' \in [Request -> RequestRow]
  BY DEF RequestRow
<1>2. IdleIsFresh' /\ RepliesName'
  BY DEF IdleIsFresh, RepliesName, RequestRow
<1>3. OneActiveBooking'
  BY DEF OneActiveBooking, IdleIsFresh, RequestRow
<1>4. AnswersAreRecorded'
  BY DEF AnswersAreRecorded, NoReply, RequestRow
<1>5. QED
  BY <1>1, <1>2, <1>3, <1>4

LEMMA EnvironmentKeeps ==
  ASSUME ServerInv, NEW b \in Request, EnvironmentStep(b)
  PROVE  ServerInv'
<1> USE DEF ServerInv, Environment, Becomes
<1>0. booking[b] \in BookingRow
  OBVIOUS
<1>1. booking' \in [Request -> BookingRow] /\ payment' \in Payments
  <2>1. CASE HoldLapses(b)
    <3>1. [booking[b] EXCEPT !.lapsed = TRUE] \in BookingRow
      BY <1>0 DEF BookingRow
    <3>2. QED
      BY <2>1, <3>1 DEF HoldLapses, Payments
  <2>0. CASE CloseBooking(b)
    BY <1>0, <2>0 DEF CloseBooking, BookingRow, Payments
  <2>2. CASE Attempt(b) \/ Pay(b) \/ PaymentExpires(b) \/ RacedPayment(b)
    BY <2>2 DEF Attempt, Pay, PaymentExpires, RacedPayment, Payments, Seen
  <2>3. CASE ConfirmBooking(b)
    BY <1>0, <2>3 DEF ConfirmBooking, BookingRow, Payments
  <2>4. QED
    BY <2>0, <2>1, <2>2, <2>3 DEF EnvironmentStep
<1>2. \A q \in Request :
        /\ booking[q].status = "none" => booking'[q].status = "none"
        /\ booking'[q].status \in {"pending", "confirmed"}
             => booking[q].status \in {"pending", "confirmed"}
  BY <1>0 DEF EnvironmentStep, HoldLapses, Attempt, Pay, PaymentExpires, RacedPayment,
              ConfirmBooking, CloseBooking, BookingRow
<1>3. UNCHANGED <<request, reply, record>>
  BY DEF EnvironmentStep, HoldLapses, Attempt, Pay, PaymentExpires, RacedPayment,
         ConfirmBooking, CloseBooking
<1>4. IdleIsFresh' /\ OneActiveBooking' /\ RepliesName' /\ AnswersAreRecorded'
  BY <1>2, <1>3 DEF IdleIsFresh, OneActiveBooking, RepliesName, AnswersAreRecorded
<1>5. QED
  BY <1>1, <1>3, <1>4 DEF Payments

\* The page only ever shows a checkout it was given.
LEMMA PageKeeps ==
  ASSUME ServerInv, PageInv,
         \/ \E r \in Request : Submit(r) \/ ReplyStep(r)
         \/ \E f \in Flight : ChooseFlight(f)
         \/ \E b \in Request \cup {None} : OpenPage(b)
         \/ PageNext
  PROVE  PageInv'
<1> USE DEF PageInv
<1>0. NewPage \in Page /\ NewPage.step = "browse" /\ NoCheckout.booking \notin Request
  BY CheckoutAssumption DEF NewPage, Page, Seen, NoCheckout
<1>1. CASE \E r \in Request : Submit(r)
  BY <1>1 DEF Submit, Page, PaymentHasCheckout, AtPayment
<1>2. ASSUME NEW r \in Request, ReplyStep(r) PROVE PageInv'
  <2>1. reply[r] \in ReplyRow
    BY DEF ServerInv
  <2>2. CASE ShowCheckout(r)
    <3>1. reply[r].of \in Request
      BY <2>2 DEF ShowCheckout, ServerInv, RepliesName
    <3>2. [booking |-> reply[r].of, payment |-> reply[r].of] # NoCheckout
      BY <1>0, <3>1 DEF NoCheckout
    <3>3. QED
      BY <2>2, <3>1, <3>2
         DEF ShowCheckout, PageStep, Page, Seen, PaymentHasCheckout, AtPayment
  <2>3. CASE ReopenPayment(r)
    <3>1. reply[r].of \in Request
      BY <2>3 DEF ReopenPayment, ServerInv, RepliesName
    <3>2. QED
      BY <2>3, <3>1
         DEF ReopenPayment, Navigate, PageStep, Page, PaymentHasCheckout, AtPayment
  <2>4. CASE OpenDetail(r)
    BY <1>0, <2>4 DEF OpenDetail, PageStep, PaymentHasCheckout, AtPayment
  <2>5. CASE ShowError(r)
    BY <2>5 DEF ShowError, PageStep, Page, PaymentHasCheckout, AtPayment
  <2>6. CASE LoseReply(r)
    BY <2>6 DEF LoseReply, Page, PaymentHasCheckout, AtPayment
  <2>7. QED
    BY <1>2, <2>2, <2>3, <2>4, <2>5, <2>6 DEF ReplyStep
<1>3. CASE \E f \in Flight : ChooseFlight(f)
  BY <1>3 DEF ChooseFlight, PageStep, Page, PaymentHasCheckout, AtPayment
<1>4. CASE \E b \in Request \cup {None} : OpenPage(b)
  BY <1>0, <1>4 DEF OpenPage, PageStep, NewPage, Page, PaymentHasCheckout, AtPayment
<1>5. CASE ResumeTarget
  <2> DEFINE b == page.target
             gaveUp == [page EXCEPT !.handled = TRUE]
             resumed == [gaveUp EXCEPT !.step = "payment", !.sync = "idle",
                           !.flight = request[b].flight, !.seen = PaymentStatus(ActivePayment(b)),
                           !.checkout = [booking |-> b, payment |-> ActivePayment(b)]]
  <2>1. b \in Request /\ ActivePayment(b) \in Request
    BY <1>0, <1>5, CheckoutAssumption DEF ResumeTarget, ActivePayment, Page, NoCheckout
  <2>2. request[b].flight \in Flight \cup {None} /\ request[b] \in RequestRow
    BY <2>1 DEF ServerInv, RequestRow
  <2>3. PaymentStatus(ActivePayment(b)) \in Seen
    BY <2>1, Reads
  <2>4. gaveUp \in Page /\ (gaveUp.step = "payment" => gaveUp.checkout # NoCheckout)
    BY DEF Page, PaymentHasCheckout, AtPayment
  <2>5. resumed \in Page /\ resumed.checkout # NoCheckout
    BY <1>0, <2>1, <2>2, <2>3 DEF Page, NoCheckout
  <2>6. page' = gaveUp \/ page' = NewPage \/ page' = resumed
    BY <1>5 DEF ResumeTarget, PageStep
  <2>7. QED
    BY <1>0, <2>4, <2>5, <2>6 DEF PaymentHasCheckout, AtPayment
<1>6. CASE BackToReview
  BY <1>6 DEF BackToReview, PageStep, Page, Seen, PaymentHasCheckout, AtPayment
<1>7. CASE RefetchPayment
  <2>1. page.checkout.payment \in Request
    BY <1>7 DEF RefetchPayment, PaymentHasCheckout, Page
  <2>2. PaymentStatus(page.checkout.payment) \in Seen
    BY <2>1, Reads
  <2>3. QED
    BY <1>7, <2>2 DEF RefetchPayment, PageStep, Page, PaymentHasCheckout, AtPayment
<1>8. CASE StartSync
  BY <1>8 DEF StartSync, PageStep, Page, PaymentHasCheckout, AtPayment
<1>9. CASE SyncConfirms
  BY <1>9 DEF SyncConfirms, PageStep, Page, Seen, PaymentHasCheckout, AtPayment
<1>10. CASE SyncTimesOut
  BY <1>10 DEF SyncTimesOut, PageStep, Page, PaymentHasCheckout, AtPayment
<1>11. CASE BookAnother
  BY <1>11 DEF BookAnother, PageStep, Page, PaymentHasCheckout, AtPayment
<1>12. QED
  BY <1>1, <1>2, <1>3, <1>4, <1>5, <1>6, <1>7, <1>8, <1>9, <1>10, <1>11 DEF PageNext

\* The invariant behind the theorems below.
THEOREM Invariance == Spec => []Inv
<1>1. Init => Inv
  BY CheckoutAssumption
     DEF Init, Inv, TypeOK, NoReply, NewPage, NoCheckout, RepliesName,
         PaymentHasCheckout, AtPayment, IdleIsFresh, OneActiveBooking, AnswersAreRecorded
<1>2. Inv /\ [Next]_vars => Inv'
  <2> SUFFICES ASSUME Inv, [Next]_vars PROVE ServerInv' /\ PageInv' /\ faults' \in 0..MaxFaults
    <3>1. Seen \cup {"overwritten"} =
            {"none", "pending", "stalled", "succeeded", "expired", "overwritten"}
      BY DEF Seen
    <3>2. QED
      BY <3>1 DEF Inv, ServerInv, PageInv, TypeOK, RequestRow, ReplyRow, BookingRow, Page,
                  Payments, Seen
  <2>0. ServerInv /\ PageInv /\ faults \in 0..MaxFaults
    BY Halves
  <2>1. CASE UNCHANGED vars
    BY <2>0, <2>1, ServerUnchanged, PageUnchanged DEF vars, serverVars
  <2>2. ASSUME NEW r \in Request, ServerStep(r) PROVE ServerInv' /\ PageInv' /\ faults' \in 0..MaxFaults
    <3>1. UNCHANGED page /\ faults' \in 0..MaxFaults
      <4>1. CASE CreateIntentFails(r) \/ Crash(r)
        BY <2>0, <4>1, CheckoutAssumption DEF CreateIntentFails, Crash
      <4>2. CASE \/ LookupKey(r) \/ Refuse(r) \/ ExpireStale(r) \/ FindActive(r)
                 \/ Insert(r) \/ InsertRefused(r) \/ CreateIntent(r)
        BY <2>0, <4>2 DEF LookupKey, Refuse, ExpireStale, FindActive, Insert,
                          InsertRefused, CreateIntent
      <4>3. CASE LinkPayment(r) \/ SaveRecord(r) \/ Undo(r)
        BY <2>0, <4>3 DEF LinkPayment, SaveRecord, Undo
      <4>4. QED
        BY <2>2, <4>1, <4>2, <4>3 DEF ServerStep
    <3>2. QED
      BY <2>0, <2>2, <3>1, RequestStep, PageUnchanged
  <2>3. ASSUME NEW b \in Request, EnvironmentStep(b) PROVE ServerInv' /\ PageInv' /\ faults' \in 0..MaxFaults
    <3>1. UNCHANGED page /\ faults' \in 0..MaxFaults
      BY <2>0, <2>3, CheckoutAssumption
         DEF EnvironmentStep, Environment, Becomes, HoldLapses, Attempt, Pay,
             PaymentExpires, RacedPayment, ConfirmBooking, CloseBooking
    <3>2. QED
      BY <2>0, <2>3, <3>1, EnvironmentKeeps, PageUnchanged
  <2>4. ASSUME NEW r \in Request, Submit(r) PROVE ServerInv' /\ PageInv' /\ faults' \in 0..MaxFaults
    <3>1. page.flight \in Flight \cup {None}
      BY <2>0 DEF PageInv, Page
    <3>2. ServerInv'
      BY <2>0, <2>4, <3>1, ArrivalStep DEF Submit
    <3>3. QED
      BY <2>0, <2>4, <3>2, PageKeeps DEF Submit
  <2>5. ASSUME NEW r \in Request, ReplyStep(r) PROVE ServerInv' /\ PageInv' /\ faults' \in 0..MaxFaults
    <3>1. UNCHANGED serverVars /\ faults' \in 0..MaxFaults
      BY <2>0, <2>5, CheckoutAssumption
         DEF ReplyStep, ShowCheckout, ReopenPayment, OpenDetail, ShowError, LoseReply,
             PageStep
    <3>2. QED
      BY <2>0, <2>5, <3>1, ServerUnchanged, PageKeeps
  <2>6. ASSUME NEW r \in Request, NEW k \in Request, NEW f \in Flight, ClientRequest(r, f, k)
        PROVE  ServerInv' /\ PageInv' /\ faults' \in 0..MaxFaults
    BY <2>0, <2>6, ArrivalStep, PageUnchanged DEF ClientRequest
  <2>7. CASE \/ \E f \in Flight : ChooseFlight(f)
             \/ \E b \in Request \cup {None} : OpenPage(b)
             \/ PageNext
    <3>1. UNCHANGED serverVars /\ UNCHANGED faults
      BY <2>7 DEF ChooseFlight, OpenPage, PageNext, ResumeTarget, BackToReview,
                  RefetchPayment, StartSync, SyncConfirms, SyncTimesOut, BookAnother,
                  PageStep
    <3>2. QED
      BY <2>0, <2>7, <3>1, ServerUnchanged, PageKeeps
  <2>8. QED
    BY <2>1, <2>2, <2>3, <2>4, <2>5, <2>6, <2>7 DEF Next
<1>3. QED
  BY <1>1, <1>2, PTL DEF Spec

\* Every variable of a checkout keeps its type.
THEOREM TypeCorrect == Spec => []TypeOK
BY Invariance, PTL DEF Inv

\* However many requests interleave, a user has one active booking per flight.
THEOREM BookingsAreUnique == Spec => []OneActiveBooking
BY Invariance, PTL DEF Inv

\* Requests with one key that get a checkout get the same one.
THEOREM KeysHaveOneAnswer == Spec => []OneAnswerPerKey
<1>1. Inv => OneAnswerPerKey
  BY DEF Inv, AnswersAreRecorded, OneAnswerPerKey
<1>2. QED
  BY <1>1, Invariance, PTL
=============================================================================
