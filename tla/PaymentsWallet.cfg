\* Wallet, top-ups, reconciliation and refunds, with a clock read before the lock.
SPECIFICATION Spec
CONSTANTS
  Payment = {p1, p2}
  Request = {}
  Key = {}
  Txn = {x1, x2}
  Topup = {t1, t2}
  None = None
  Price = 2
  TopupAmount = 3
  MAX_PENDING_TOPUP_REQUESTS = 1
  MaxLockWait = 1
  MaxTime = 2
  MaxEvents = 1
SYMMETRY Symmetry
CHECK_DEADLOCK FALSE
INVARIANTS SettledOnce WalletIsExplained NoOverdraft ChargedOnce
