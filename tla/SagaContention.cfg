\* Two checkouts after one seat, without faults.
SPECIFICATION FairSpec
CONSTANTS
  Booking = {b1, b2}
  Seat = {s1}
  None = None
  Faults = {}
  LateSettlement = FALSE
  HoldTime = 1
  MaxTime = 2
  MaxEvents = 1
  MaxCopies = 2
CHECK_DEADLOCK FALSE
INVARIANT CommittedBookingOwnsSeat
PROPERTY PaidIsHonoured
