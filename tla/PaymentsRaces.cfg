\* Every way to settle, expire and refund one payment at once.
SPECIFICATION FairSpec
CONSTANTS
  Payment = {p1}
  Request = {r1, r2}
  Key = {k1, k2}
  Txn = {x1}
  Topup = {t1}
  None = None
  Price = 1
  TopupAmount = 1
  MAX_PENDING_TOPUP_REQUESTS = 3
  MaxLockWait = 1
  MaxTime = 2
  MaxEvents = 1
CHECK_DEADLOCK FALSE
INVARIANT OneAttemptPerKey
PROPERTIES ContractSpec PaymentsAreDecided
