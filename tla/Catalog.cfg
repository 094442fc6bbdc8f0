\* Two requests, two aircraft models, one seed, one crash or failed query, and a midnight.
SPECIFICATION Spec
CONSTANTS
  Client = {c1, c2}
  Number = {"VN"}
  Schedule <- MCSchedule
  Seeds <- MCSeeds
  ManualSeat <- MCManual
  NewModel = {"AT72", "A320"}
  Day = 4
  BusinessShift = 2
  ServerShift = 0
  MaxTime = 4
  MaxWork = 3
  MaxFlights = 3
  MaxFaults = 1
SYMMETRY Symmetry
CHECK_DEADLOCK FALSE
INVARIANTS ListingAgrees ReconcileReportsTruth OneFlightPerDay
