SPECIFICATION Spec
CONSTANTS
  Request = {r1, r2, r3}
  Flight = {f1, f2}
  None = None
  FromTab = {r1, r3}
  FromOther = {r2}
  MaxFaults = 0

INVARIANT ResumedPaymentIsTheBookings
