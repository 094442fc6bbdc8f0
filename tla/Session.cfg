\* Two requests of the tab, a timer and a second tab; the access token runs
\* out after a second and the refresh token after two.
SPECIFICATION FairSpec
CONSTANTS
  Query = {1, 2}
  None = None
  AccessLife = 1
  RefreshLife = 2
  MaxTime = 2
  MaxWork = 3
  MaxFaults = 1

CHECK_DEADLOCK FALSE
INVARIANTS SessionsAreEarned
PROPERTIES RequestsEnd SignedOutForCause
