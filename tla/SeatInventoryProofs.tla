------------------------ MODULE SeatInventoryProofs ------------------------
(* Theorems about SeatInventory, for every value of its constants.         *)
EXTENDS SeatInventory, TLAPS

(***************************************************************************)
(* The statements of seatRepository.ts leave a well-formed row.            *)
(***************************************************************************)
LEMMA RowTypes ==
  /\ MissingRow \in SeatRow
  /\ AvailableSeatValues \in SeatRow
  /\ \A token \in Token, until \in Nat : HeldSeatValues(token, until) \in SeatRow
  /\ \A b \in Booking \union {NoBooking} : BookedSeatValues(b) \in SeatRow
BY DEF SeatRow, SeatState, MissingRow, AvailableSeatValues, HeldSeatValues,
       BookedSeatValues

LEMMA StatementTypes ==
  ASSUME NEW row \in SeatRow
  PROVE  /\ EnsuredRow(row) \in SeatRow
         /\ \A t \in Nat : SweptRow(row, t) \in SeatRow
         /\ \A token \in Token \union {NoToken}, b \in Booking \union {NoBooking} :
              /\ ReleasedRow(row, token, b) \in SeatRow
              /\ \A t \in Nat : CommittedRow(row, token, b, t) \in SeatRow
BY RowTypes DEF CommittedRow, ReleasedRow, SweptRow, EnsuredRow

\* Every variable of the inventory keeps its type.
THEOREM TypeCorrect == Spec => []TypeOK
<1>1. Init => TypeOK
  BY RowTypes, InventoryAssumption DEF Init, TypeOK
<1>2. TypeOK /\ [Next]_vars => TypeOK'
  <2> SUFFICES ASSUME TypeOK, [Next]_vars PROVE TypeOK'
    OBVIOUS
  <2> USE DEF TypeOK, clientVars, consumerVars
  <2>0. now \in Nat /\ MaxTime \in Nat /\ MaxCrashes \in Nat
    BY InventoryAssumption
  <2>1. CASE EnsureSeatInventory
    BY <2>1, StatementTypes DEF EnsureSeatInventory
  <2>2. CASE \E s \in Seat : CreateSeat(s)
    BY <2>2, RowTypes DEF CreateSeat
  <2>3. CASE \E s \in Seat, token \in Token, until \in now..MaxTime :
               ReserveSeat(s, token, until)
    <3>1. PICK s \in Seat, token \in Token, until \in now..MaxTime :
            ReserveSeat(s, token, until)
      BY <2>3
    <3>2. HeldSeatValues(token, until) \in SeatRow
      BY <2>0, RowTypes
    <3>3. QED
      BY <3>1, <3>2 DEF ReserveSeat
  <2>4. CASE \E s \in Seat : ReserveSeatLegacy(s)
    <3>1. BookedSeatValues(NoBooking) \in SeatRow
      BY RowTypes
    <3>2. QED
      BY <2>4, <3>1 DEF ReserveSeatLegacy
  <2>5. CASE SweepExpiredHolds
    BY <2>0, <2>5, StatementTypes DEF SweepExpiredHolds
  <2>6. CASE \E b \in Booking, s \in Seat, token \in Token :
               CreateBooking(b, s, token)
    BY <2>6 DEF CreateBooking, Claim
  <2>7. ASSUME NEW kind \in {"commit", "release"}, NEW s \in Seat,
               NEW token \in Token \union {NoToken},
               NEW b \in Booking \union {NoBooking},
               Enqueue(kind, s, token, b)
        PROVE  TypeOK'
    BY <2>7 DEF Enqueue, Message
  <2>8. CASE \E b \in Booking : EnqueueSeatCommit(b)
    BY <2>8, <2>7 DEF EnqueueSeatCommit, Claimed, Claim
  <2>9. CASE \E s \in Seat, token \in Token : EnqueuePendingSeatRelease(s, token)
    BY <2>9, <2>7 DEF EnqueuePendingSeatRelease
  <2>10. CASE \E b \in Booking : EnqueueConfirmedSeatRelease(b)
    BY <2>10, <2>7 DEF EnqueueConfirmedSeatRelease, Claimed, Claim
  <2>11. CASE \E s \in Seat : EnqueueLegacySeatRelease(s)
    BY <2>11, <2>7 DEF EnqueueLegacySeatRelease
  <2>12. CASE \E b \in Booking : ObserveCommit(b)
    BY <2>12 DEF ObserveCommit
  <2>13. CASE \E m \in sent : Register(m)
    BY <2>13 DEF Register, Message
  <2>14. CASE \E m \in handling : CommitSeat(m)
    BY <2>0, <2>14, StatementTypes DEF CommitSeat, Finish, Message
  <2>15. CASE \E m \in handling : ReleaseSeat(m)
    BY <2>15, StatementTypes DEF ReleaseSeat, Finish, Message
  <2>16. CASE \E m \in handling : LoseHandler(m)
    BY <2>0, <2>16 DEF LoseHandler
  <2>17. CASE Tick
    BY <2>0, <2>17 DEF Tick
  <2>18. CASE UNCHANGED vars
    BY <2>18 DEF vars
  <2>19. QED
    BY <2>1, <2>2, <2>3, <2>4, <2>5, <2>6, <2>8, <2>9, <2>10, <2>11,
       <2>12, <2>13, <2>14, <2>15, <2>16, <2>17, <2>18 DEF Next
<1>3. QED
  BY <1>1, <1>2, PTL DEF Spec

-----------------------------------------------------------------------------
(***************************************************************************)
(* The inductive invariant.  ReleaseIsFinal and ObservedCommitStays rest   *)
(* on tokens being spent once: a hold always carries a token that has been *)
(* issued, so a fresh reservation can bring no claimed token back, and the *)
(* token of an observed booking is spent already, which is why its release *)
(* may leave the token out.                                                *)
(***************************************************************************)
HoldsAreIssued ==
  \A s \in Seat :
    seats[s].seatState = "HELD" => <<s, seats[s].holdToken>> \in issued

ClaimsAreIssued ==
  \A b \in Claimed : <<claim[b].seat, claim[b].token>> \in issued

MessageMatchesClaim(m) ==
  /\ m.kind = "commit" => m.booking # NoBooking /\ m.token = claim[m.booking].token
  /\ m.booking # NoBooking =>
       /\ m.booking \in Claimed
       /\ m.seat = claim[m.booking].seat
       /\ \/ m.token = claim[m.booking].token
          \/ m.token = NoToken /\ m.booking \in observed

MessagesMatchClaims == \A m \in sent : MessageMatchesClaim(m)

ObservedTokensAreSpent ==
  \A b \in observed :
    /\ b \in Claimed
    /\ ~ HeldBy(seats[claim[b].seat], claim[b].token)

IInv ==
  /\ TypeOK
  /\ HoldsAreIssued
  /\ ClaimsAreIssued
  /\ MessagesMatchClaims
  /\ ObservedTokensAreSpent
  /\ ObservedCommitStays
  /\ ReleaseIsFinal

\* The inductive invariant holds of every behaviour of the inventory.
THEOREM Invariance == Spec => []IInv
<1>1. Init => IInv
  <2>1. ASSUME Init PROVE TypeOK
    BY <2>1, RowTypes, InventoryAssumption DEF Init, TypeOK
  <2>2. QED
    BY <2>1 DEF Init, IInv, HoldsAreIssued, ClaimsAreIssued,
       MessagesMatchClaims, ObservedTokensAreSpent, ObservedCommitStays,
       ReleaseIsFinal, Claimed, MissingRow, AvailableSeatValues
<1>2. IInv /\ TypeOK' /\ [Next]_vars => IInv'
  <2> SUFFICES ASSUME IInv, TypeOK', [Next]_vars PROVE IInv'
    OBVIOUS
  <2> USE NullsAreNotValues DEF IInv, TypeOK, clientVars, consumerVars,
        HoldsAreIssued, ClaimsAreIssued, MessagesMatchClaims,
        MessageMatchesClaim, ObservedTokensAreSpent, ObservedCommitStays,
        ReleaseIsFinal, Claimed, HeldBy, BookedBy
  \* A step that only makes rows available that were not booked.
  <2>0. ASSUME UNCHANGED <<clientVars, consumerVars>>,
               \A s \in Seat : \/ seats'[s] = seats[s]
                              \/ /\ seats[s].seatState # "BOOKED"
                                 /\ seats'[s] = AvailableSeatValues
        PROVE  IInv'
    <3>1. \A s \in Seat, token \in Token :
            HeldBy(seats[s], token)' => HeldBy(seats[s], token)
      BY <2>0 DEF AvailableSeatValues
    <3>2. \A s \in Seat, b \in Booking :
            BookedBy(seats[s], b)' <=> BookedBy(seats[s], b)
      BY <2>0 DEF AvailableSeatValues
    <3>3. HoldsAreIssued'
      BY <2>0 DEF AvailableSeatValues
    <3>4. ClaimsAreIssued' /\ MessagesMatchClaims'
      BY <2>0
    <3>5. \A b \in Claimed : claim[b].seat \in Seat /\ claim[b].token \in Token
      BY DEF Claim
    <3>6. ObservedTokensAreSpent'
      BY <2>0, <3>1, <3>5
    <3>7. ObservedCommitStays'
      BY <2>0, <3>2, <3>5
    <3>8. ReleaseIsFinal'
      BY <2>0, <3>1, <3>2, <3>5
    <3>9. QED
      BY <3>3, <3>4, <3>6, <3>7, <3>8
  <2>1. CASE EnsureSeatInventory
    <3>1. \A s \in Seat : \/ seats'[s] = seats[s]
                          \/ /\ seats[s].seatState # "BOOKED"
                             /\ seats'[s] = AvailableSeatValues
      BY <2>1 DEF EnsureSeatInventory, EnsuredRow
    <3>2. QED
      BY <2>0, <2>1, <3>1 DEF EnsureSeatInventory
  <2>2. CASE \E s \in Seat : CreateSeat(s)
    BY <2>2 DEF CreateSeat, AvailableSeatValues
  <2>3. CASE \E s \in Seat, token \in Token, until \in now..MaxTime :
               ReserveSeat(s, token, until)
    <3>1. PICK s \in Seat, token \in Token, until \in now..MaxTime :
            ReserveSeat(s, token, until)
      BY <2>3
    <3>2. \A b \in Claimed : claim[b].token # token /\ claim[b].seat \in Seat
      BY <3>1, ZenonT(40) DEF ReserveSeat, Claim
    <3>3. \A x \in Seat : seats'[x] = IF x = s THEN HeldSeatValues(token, until)
                                            ELSE seats[x]
      BY <3>1 DEF ReserveSeat
    <3>4. seats[s].seatState # "BOOKED"
      BY <3>1 DEF ReserveSeat, ReclaimableSeatCondition, HoldExpired
    <3>5. issued \subseteq issued' /\ <<s, token>> \in issued'
          /\ UNCHANGED <<claim, observed, sent, applied>>
      BY <3>1 DEF ReserveSeat
    <3>6. HoldsAreIssued' /\ ClaimsAreIssued' /\ MessagesMatchClaims'
      BY <3>3, <3>5 DEF HeldSeatValues
    <3>7. \A b \in Claimed, x \in Seat :
            /\ HeldBy(seats[x], claim[b].token)' => HeldBy(seats[x], claim[b].token)
            /\ BookedBy(seats[x], b)' <=> BookedBy(seats[x], b)
      BY <3>2, <3>3, <3>4, <3>5 DEF HeldSeatValues
    <3>8. ObservedTokensAreSpent' /\ ObservedCommitStays'
      BY <3>2, <3>5, <3>7
    <3>9. ReleaseIsFinal'
      BY <3>2, <3>5, <3>7
    <3>10. QED
      BY <3>6, <3>8, <3>9
  <2>4. CASE \E s \in Seat : ReserveSeatLegacy(s)
    BY <2>4 DEF ReserveSeatLegacy, ReclaimableSeatCondition, HoldExpired, BookedSeatValues
  <2>5. CASE SweepExpiredHolds
    <3>1. \A s \in Seat : \/ seats'[s] = seats[s]
                          \/ /\ seats[s].seatState # "BOOKED"
                             /\ seats'[s] = AvailableSeatValues
      BY <2>5 DEF SweepExpiredHolds, SweptRow, HoldExpired
    <3>2. QED
      BY <2>0, <2>5, <3>1 DEF SweepExpiredHolds
  <2>6. CASE \E b \in Booking, s \in Seat, token \in Token :
               CreateBooking(b, s, token)
    BY <2>6 DEF CreateBooking
  <2>8. CASE \E b \in Booking : EnqueueSeatCommit(b)
    BY <2>8 DEF EnqueueSeatCommit, Enqueue
  <2>9. CASE \E s \in Seat, token \in Token : EnqueuePendingSeatRelease(s, token)
    BY <2>9 DEF EnqueuePendingSeatRelease, Enqueue
  <2>10. CASE \E b \in Booking : EnqueueConfirmedSeatRelease(b)
    BY <2>10 DEF EnqueueConfirmedSeatRelease, Enqueue
  <2>11. CASE \E s \in Seat : EnqueueLegacySeatRelease(s)
    BY <2>11 DEF EnqueueLegacySeatRelease, Enqueue
  <2>12. CASE \E b \in Booking : ObserveCommit(b)
    BY <2>12 DEF ObserveCommit
  <2>13. CASE \E m \in sent : Register(m)
    BY <2>13 DEF Register
  <2>14. CASE \E m \in handling : CommitSeat(m)
    BY <2>14 DEF CommitSeat, Finish, CommittedRow, CommitCondition, BookedSeatValues
  <2>15. CASE \E m \in handling : ReleaseSeat(m)
    <3>1. PICK m \in handling : ReleaseSeat(m)
      BY <2>15
    <3>2. /\ m \in sent /\ MessageMatchesClaim(m) /\ m.kind = "release"
          /\ m.seat \in Seat /\ m.booking \in Booking \union {NoBooking}
      BY <3>1 DEF Message, ReleaseSeat
    <3>3. /\ applied' = applied \union {m}
          /\ UNCHANGED <<issued, claim, observed, sent>>
      BY <3>1 DEF ReleaseSeat, Finish
    <3>4. \A x \in Seat : seats'[x] = IF x = m.seat
                                       THEN ReleasedRow(seats[x], m.token, m.booking)
                                       ELSE seats[x]
      BY <3>1, <3>2 DEF ReleaseSeat
    <3>5. \A b \in Claimed : claim[b].seat \in Seat /\ claim[b].token \in Token
      BY DEF Claim
    <3>6. HoldsAreIssued' /\ ClaimsAreIssued' /\ MessagesMatchClaims'
      BY <3>3, <3>4 DEF ReleasedRow, AvailableSeatValues
    <3>7. \A x \in Seat, token \in Token, b \in Booking :
            /\ HeldBy(seats[x], token)' => HeldBy(seats[x], token)
            /\ BookedBy(seats[x], b)' => BookedBy(seats[x], b)
            /\ BookedBy(seats[x], b) /\ ~ BookedBy(seats[x], b)' => m.booking = b
      BY <3>2, <3>4 DEF ReleasedRow, ReleaseCondition, AvailableSeatValues
    <3>8. ObservedTokensAreSpent' /\ ObservedCommitStays'
      BY <3>2, <3>3, <3>5, <3>7
    <3>9. m.booking # NoBooking =>
            /\ ~ BookedBy(seats[m.seat], m.booking)'
            /\ ~ HeldBy(seats[m.seat], claim[m.booking].token)'
      BY <3>2, <3>3, <3>4, <3>5
         DEF ReleasedRow, ReleaseCondition, AvailableSeatValues
    <3>10. ReleaseIsFinal'
      BY <3>2, <3>3, <3>5, <3>7, <3>9
    <3>11. QED
      BY <3>6, <3>8, <3>10
  <2>16. CASE \E m \in handling : LoseHandler(m)
    BY <2>16 DEF LoseHandler
  <2>17. CASE Tick
    BY <2>17 DEF Tick
  <2>18. CASE UNCHANGED vars
    BY <2>18 DEF vars
  <2>19. QED
    BY <2>1, <2>2, <2>3, <2>4, <2>5, <2>6, <2>8, <2>9, <2>10, <2>11,
       <2>12, <2>13, <2>14, <2>15, <2>16, <2>17, <2>18 DEF Next
<1>3. QED
  BY <1>1, <1>2, TypeCorrect, PTL DEF Spec

\* A release naming a booking is final, for any number of seats, bookings,
\* messages and lost handlers.
THEOREM ReleaseFinality == Spec => []ReleaseIsFinal
BY Invariance, PTL DEF IInv

\* A commit the reconciler has recorded stays until the booking is released.
THEOREM ObservedCommitsStay == Spec => []ObservedCommitStays
BY Invariance, PTL DEF IInv

\* Only messages carrying its own token change a hold that has not expired.
THEOREM LiveHoldProtection == Spec => LiveHoldIsProtected
<1>1. ASSUME TypeOK, [Next]_vars, NEW s \in Seat, LiveHold(s), seats'[s] # seats[s]
      PROVE  \E m \in handling : m.seat = s /\ m.token = seats[s].holdToken
  <2> USE <1>1 DEF TypeOK, LiveHold
  <2>1. seats[s].seatState = "HELD" /\ ~ (seats[s].holdExpiresAt <= now)
    BY InventoryAssumption DEF SeatRow
  <2>2. CASE \E m \in handling : CommitSeat(m)
    BY <2>1, <2>2 DEF CommitSeat, CommittedRow, CommitCondition
  <2>3. CASE \E m \in handling : ReleaseSeat(m)
    BY <2>1, <2>3 DEF ReleaseSeat, ReleasedRow, ReleaseCondition, HeldBy, BookedBy
  <2>4. CASE \/ EnsureSeatInventory
             \/ \E x \in Seat : CreateSeat(x)
             \/ SweepExpiredHolds
    BY <2>1, <2>4 DEF EnsureSeatInventory, EnsuredRow, CreateSeat,
                      SweepExpiredHolds, SweptRow, HoldExpired
  <2>5. CASE \/ \E x \in Seat, token \in Token, until \in now..MaxTime :
                  ReserveSeat(x, token, until)
             \/ \E x \in Seat : ReserveSeatLegacy(x)
    BY <2>1, <2>5 DEF ReserveSeat, ReserveSeatLegacy,
                      ReclaimableSeatCondition, HoldExpired
  <2>6. CASE UNCHANGED seats
    BY <2>6
  <2>7. QED
    BY <2>2, <2>3, <2>4, <2>5, <2>6
       DEF Next, vars, CreateBooking, Enqueue, EnqueueSeatCommit,
           EnqueuePendingSeatRelease, EnqueueConfirmedSeatRelease,
           EnqueueLegacySeatRelease, ObserveCommit, Register, LoseHandler, Tick
<1>2. TypeOK /\ [Next]_vars =>
        [\A s \in Seat : LiveHold(s) /\ seats'[s] # seats[s] =>
           \E m \in handling : m.seat = s /\ m.token = seats[s].holdToken]_vars
  BY <1>1
<1>3. QED
  BY <1>2, TypeCorrect, PTL DEF Spec, LiveHoldIsProtected
=============================================================================
