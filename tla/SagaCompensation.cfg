\* One checkout whose payment and commit may come too late, and a slow reconciler.
SPECIFICATION FairSpec
CONSTANTS
  Booking = {b1}
  Seat = {s1}
  None = None
  Faults = {"slow_reconciler"}
  LateSettlement = TRUE
  HoldTime = 1
  MaxTime = 3
  MaxEvents = 1
  MaxCopies = 2
CHECK_DEADLOCK FALSE
INVARIANT PaidIsAccountedFor
PROPERTIES PaidIsHonoured ReleasedBookingFreesSeat ReleaseFreesForGood
