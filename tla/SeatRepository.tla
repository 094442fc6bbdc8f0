--------------------------- MODULE SeatRepository ---------------------------
(***************************************************************************)
(* The seat rows of the flight service and the conditional UPDATE          *)
(* statements of seatRepository.ts, as functions from a row to the row the *)
(* statement leaves.  Every statement names one seat (or all of them, the  *)
(* sweeper) and carries its whole condition in its WHERE clause, so it is  *)
(* atomic on the row: a row that does not match is left as it was.         *)
(*                                                                         *)
(* Columns left out: the class, type and price of the seat, isReserved     *)
(* (TRUE exactly when the state is HELD or BOOKED), heldAt and updatedAt.  *)
(***************************************************************************)
EXTENDS Integers

CONSTANTS Token,      \* the UUIDs randomUUID() can return
          NoToken,    \* a NULL holdToken
          Booking,    \* booking ids
          NoBooking   \* a NULL reservedBookingId

ASSUME NullsAreNotValues == NoToken \notin Token /\ NoBooking \notin Booking

SeatState == {"MISSING", "AVAILABLE", "HELD", "BOOKED"}

SeatRow == [seatState : SeatState,
            holdToken : Token \union {NoToken},
            holdExpiresAt : Nat,
            reservedBookingId : Booking \union {NoBooking}]

\* A seat of the aircraft whose row has not been inserted yet.
MissingRow == [seatState |-> "MISSING", holdToken |-> NoToken,
               holdExpiresAt |-> 0, reservedBookingId |-> NoBooking]

AvailableSeatValues == [seatState |-> "AVAILABLE", holdToken |-> NoToken,
                        holdExpiresAt |-> 0, reservedBookingId |-> NoBooking]

\* Fault: the expiry is not written.
HeldSeatValues_NoExpiry(token, until) ==
  [seatState |-> "HELD", holdToken |-> token,
   holdExpiresAt |-> NoToken, reservedBookingId |-> NoBooking]

HeldSeatValues(token, until) ==
  [seatState |-> "HELD", holdToken |-> token,
   holdExpiresAt |-> until, reservedBookingId |-> NoBooking]

\* b = NoBooking is the legacy reservation made without holdUntil.
BookedSeatValues(b) ==
  [seatState |-> "BOOKED", holdToken |-> NoToken,
   holdExpiresAt |-> 0, reservedBookingId |-> b]

HoldExpired(row, now) == row.seatState = "HELD" /\ row.holdExpiresAt <= now

\* Fault: any hold can be reclaimed.
ReclaimableSeatCondition_AnyHold(row, now) ==
  row.seatState \in {"AVAILABLE", "HELD"}

ReclaimableSeatCondition(row, now) ==
  row.seatState = "AVAILABLE" \/ HoldExpired(row, now)

\* The WHERE clause of commitSeat.
CommitCondition(row, token, now) ==
  /\ row.seatState = "HELD"
  /\ row.holdToken = token
  /\ row.holdExpiresAt > now

CommittedRow(row, token, b, now) ==
  IF CommitCondition(row, token, now) THEN BookedSeatValues(b) ELSE row

HeldBy(row, token) == row.seatState = "HELD" /\ row.holdToken = token

BookedBy(row, b) == row.seatState = "BOOKED" /\ row.reservedBookingId = b

\* Fault: the legacy release does not ask for a NULL owner.
ReleaseCondition_AnyOwner(row, token, b) ==
  \/ token # NoToken /\ HeldBy(row, token)
  \/ b # NoBooking /\ BookedBy(row, b)
  \/ token = NoToken /\ b = NoBooking /\ row.seatState = "BOOKED"

\* Fault: a message with a token is not tried as a release by booking id.
ReleaseCondition_TokenOnly(row, token, b) ==
  \/ token # NoToken /\ HeldBy(row, token)
  \/ token = NoToken /\ BookedBy(row, b)

(***************************************************************************)
(* The release handler tries the hold token, then the booking id, and      *)
(* falls back to the legacy release only when the message carries neither. *)
(***************************************************************************)
ReleaseCondition(row, token, b) ==
  \/ token # NoToken /\ HeldBy(row, token)
  \/ b # NoBooking /\ BookedBy(row, b)
  \/ token = NoToken /\ b = NoBooking /\ BookedBy(row, NoBooking)

ReleasedRow(row, token, b) ==
  IF ReleaseCondition(row, token, b) THEN AvailableSeatValues ELSE row

\* Fault: the sweeper selects the wrong state.
SweptRow_WrongState(row, now) ==
  IF row.seatState = "BOOKED" /\ HoldExpired(row, now)
    THEN AvailableSeatValues ELSE row

SweptRow(row, now) ==
  IF HoldExpired(row, now) THEN AvailableSeatValues ELSE row

\* INSERT ... ON CONFLICT DO NOTHING under the unique (flightId, seatNumber).
EnsuredRow(row) ==
  IF row.seatState = "MISSING" THEN AvailableSeatValues ELSE row
=============================================================================
