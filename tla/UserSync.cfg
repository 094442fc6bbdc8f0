\* Two requests at once, four events, a name that changes and changes back.
SPECIFICATION FairSpec
CONSTANTS
  Data = {d1, d2}
  Request = {r1, r2}
  NoRow = NoRow
  MaxTime = 3
  MaxEvents = 4
  MaxDead = 1

CHECK_DEADLOCK FALSE
INVARIANT AgreesWhenQuiet
PROPERTIES Converges MissingOnlyIfDead FreshnessLostOnlyToRaces
