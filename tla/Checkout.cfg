SPECIFICATION FairSpec
CONSTANTS
  Request = {r1, r2}
  Flight = {f1, f2}
  None = None
  FromTab = {r1, r2}
  FromOther = {r2}
  MaxFaults = 1

INVARIANTS OneActiveBooking OneAnswerPerKey
PROPERTY PaidIsShown
