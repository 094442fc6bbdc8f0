\* Two tokens, two bookings, two messages, and one handler lost between its two steps.
SPECIFICATION FairSpec
CONSTANTS
  Seat = {s1}
  Token = {t1, t2}
  NoToken = NoToken
  Booking = {b1, b2}
  NoBooking = NoBooking
  NoClaim = NoClaim
  MessageId = {m1, m2}
  MaxTime = 2
  MaxCrashes = 1
CHECK_DEADLOCK FALSE
INVARIANTS TypeOK ObservedCommitStays ReleaseIsFinal
PROPERTIES LiveHoldIsProtected HoldsEnd RequestedReleaseFreesSeat
