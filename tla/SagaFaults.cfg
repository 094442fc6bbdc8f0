\* One checkout with every fault.
SPECIFICATION FairSpec
CONSTANTS
  Booking = {b1}
  Seat = {s1}
  None = None
  Faults = {"slow_checkout", "checkout_crash", "lost_reply",
            "slow_reconciler", "payment_lookup", "lost_message"}
  LateSettlement = TRUE
  HoldTime = 1
  MaxTime = 3
  MaxEvents = 1
  MaxCopies = 2

CHECK_DEADLOCK FALSE
INVARIANTS TypeOK MoneyFollowsBooking
PROPERTIES PendingBookingsEnd ReopenedOnlyByItsCheckout
