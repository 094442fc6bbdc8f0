---------------------------- MODULE FlightCatalog ---------------------------
(***************************************************************************)
(* The flights of the flight service and the seats they start with: the    *)
(* endpoints that create a flight, create a seat and reconcile missing     *)
(* seats, the seeder that runs when the process starts, and the list of    *)
(* flights a customer sees and books from.                                 *)
(*                                                                         *)
(* Time is counted in slots, Day of them to a day, from a midnight of UTC. *)
(* Three calendars meet here.  The business day of Vietnam begins          *)
(* BusinessShift slots before a midnight of UTC; CreateFlight stores its   *)
(* first instant as the date of a flight, and the list starts with it.     *)
(* The local day of the server begins ServerShift slots before a midnight  *)
(* of UTC; the seeder stores its first instant, and DATE() in a query sees *)
(* it, since the driver writes local time into a column without time zone. *)
(*                                                                         *)
(* What an endpoint refuses without reading a row is left out: its inputs  *)
(* are those that pass.  A flight is created in one transaction that reads *)
(* and then writes.  CreateSeat reads and writes on its own, and so does   *)
(* the reconciliation, flight by flight.                                   *)
(***************************************************************************)
EXTENDS SeatLayout, Sequences

CONSTANTS Client,         \* requests in flight at once
          Number,         \* flight numbers
          Schedule,       \* [departure, arrive] a request may ask for
          Seeds,          \* the flights the seeder adds, [number, model,
                          \* offset, departure, arrive, status]
          ManualSeat,     \* seats a request may ask for, <<row, letter>>
          NewModel,       \* the aircraft models of the fleet
          Day, BusinessShift, ServerShift,
          MaxTime,        \* bound on the clock
          MaxWork,        \* bound on requests
          MaxFlights,     \* bound on flights
          MaxFaults       \* bound on crashes and failed queries

Status == {"FLYING", "DELAY", "CANCELED", "COMPLETED", "SCHEDULED"}

\* The times of a seed are within its day.
Seed == [number : Number, model : NewModel, offset : Int,
         departure : 0..(Day - 1), arrive : 0..(Day - 1), status : Status]

\* Rows and letters a request may ask for; no cabin has the letter Z.
Seat == (1..9) \X (Wide \union {"Z"})

ASSUME CatalogAssumption ==
  /\ Day \in Nat \ {0}
  /\ {BusinessShift, ServerShift, MaxTime, MaxWork, MaxFlights, MaxFaults}
       \subseteq Nat
  /\ Schedule \subseteq [departure : Int, arrive : Int]
  /\ IsFiniteSet(Seeds) /\ Seeds \subseteq Seed
  /\ \A s, t \in Seeds : s.number = t.number /\ s.offset = t.offset => s = t
  /\ ManualSeat \subseteq Seat

VARIABLES now,
          phase,          \* of the process: what it seeds, or "serving"
          fleet,          \* models of the aircraft rows
          flight,         \* the flight table
          seats,          \* the seats of each flight
          request,        \* of each client
          report,         \* the last result of a reconciliation, per flight
          list,           \* the customer's list: flight -> shown status
          work, faults

table == <<fleet, flight, seats>>
bounds == <<work, faults>>
vars == <<now, phase, table, request, report, list, bounds>>

-----------------------------------------------------------------------------
(* Dates and statuses.                                                     *)

BusinessDay(t) == (t + BusinessShift) \div Day
BusinessDayStart(t) == BusinessDay(t) * Day - BusinessShift

ServerDay(t) == (t + ServerShift) \div Day
ServerDayStart(t) == ServerDay(t) * Day - ServerShift

EffectiveStatus(f, t) ==
  CASE f.status = "CANCELED" -> "CANCELED"
    [] f.status # "CANCELED" /\ t >= f.arrive -> "COMPLETED"
    [] f.status # "CANCELED" /\ t >= f.departure /\ t < f.arrive -> "FLYING"
    [] f.status = "DELAY" /\ t < f.departure -> "DELAY"
    [] OTHER -> "SCHEDULED"

IsBookable(f, t) ==
  EffectiveStatus(f, t) \in {"SCHEDULED", "DELAY"} /\ f.departure > t

\* Fault: the conditions on the times forget that a flight may be canceled.
MatchesFilter_IgnoresCancel(f, status, t) ==
  CASE status = "CANCELED"  -> f.status = "CANCELED"
    [] status = "COMPLETED" -> f.arrive <= t
    [] status = "FLYING"    -> f.departure <= t /\ f.arrive > t
    [] status = "DELAY"     -> f.status = "DELAY" /\ f.departure > t
    [] OTHER -> f.status \notin {"CANCELED", "DELAY"} /\ f.departure > t

\* The condition the query of findFlights puts on a status, at time t.
MatchesFilter(f, status, t) ==
  CASE status = "CANCELED"  -> f.status = "CANCELED"
    [] status = "COMPLETED" -> f.status # "CANCELED" /\ f.arrive <= t
    [] status = "FLYING" ->
         f.status # "CANCELED" /\ f.departure <= t /\ f.arrive > t
    [] status = "DELAY"     -> f.status = "DELAY" /\ f.departure > t
    [] OTHER -> f.status \notin {"CANCELED", "DELAY"} /\ f.departure > t

\* Everybody but an administrator gets the flights from this business day on.
ListedFor(f, t) == f.date >= BusinessDayStart(t)

\* What the button of the page looks at: the status it was sent, and its clock.
OffersBooking(f, shown, t) ==
  shown \in {"SCHEDULED", "DELAY"} /\ f.departure > t

-----------------------------------------------------------------------------
Flight == [number : Number, model : NewModel, status : Status,
           date : Int, departure : Int, arrive : Int]
Id == DOMAIN flight

Idle == [step |-> "idle"]

Request ==
  {Idle}
    \union [step : {"find", "save"}, flight : Flight]
    \union [step : {"seat"}, id : 1..MaxFlights, seat : Seat]
    \union [step : {"count"}, left : SUBSET (1..MaxFlights)]
    \union [step : {"read"}, left : SUBSET (1..MaxFlights), before : Nat]
    \union [step : {"insert"}, left : SUBSET (1..MaxFlights), before : Nat,
            missing : SUBSET Seat]

TypeOK ==
  /\ now \in 0..MaxTime
  /\ phase \in {"fleet", "flights", "seats", "serving"}
  /\ fleet \subseteq NewModel
  /\ flight \in Seq(Flight) /\ Len(flight) <= MaxFlights
  /\ seats \in Seq(SUBSET Seat) /\ Len(seats) = Len(flight)
  /\ request \in [Client -> Request]
  /\ report \in Seq({"none", "FIXED", "SKIPPED", "FAILED"})
  /\ Len(report) = Len(flight)
  /\ \A i \in DOMAIN list : i \in Id /\ list[i] \in Status
  /\ work \in 0..MaxWork /\ faults \in 0..MaxFaults

Init ==
  /\ now = 0 /\ phase = "fleet"
  /\ fleet = {} /\ flight = <<>> /\ seats = <<>> /\ report = <<>>
  /\ request = [c \in Client |-> Idle]
  /\ list = <<>>
  /\ work = 0 /\ faults = 0

Answer(c) == request' = [request EXCEPT ![c] = Idle]

\* Rows added by one statement, with the seats they come with.
AddFlights(rows, cabins) ==
  /\ flight' = flight \o rows
  /\ seats' = seats \o cabins
  /\ report' = report \o [i \in DOMAIN rows |-> "none"]

\* A request reaches a process that is serving.
Begin(c) ==
  /\ phase = "serving" /\ request[c] = Idle
  /\ work < MaxWork /\ work' = work + 1
  /\ UNCHANGED <<now, phase, table, report, list, faults>>

Continue(c, step) ==
  /\ request[c].step = step
  /\ UNCHANGED <<now, phase, fleet, list, work>>

-----------------------------------------------------------------------------
(* CreateFlight: the date is derived from the departure, whatever the      *)
(* request says; the flight may have departed.                             *)

AskFlight(c) ==
  /\ Begin(c)
  /\ \E n \in Number, model \in fleet, s \in Schedule, status \in Status :
       /\ s.arrive > s.departure
       /\ request' = [request EXCEPT ![c] =
            [step |-> "find",
             flight |-> [number |-> n, model |-> model, status |-> status,
                         date |-> BusinessDayStart(s.departure),
                         departure |-> s.departure, arrive |-> s.arrive]]]

FindFlight(c) ==
  /\ Continue(c, "find")
  /\ LET f == request[c].flight
         taken == \E i \in Id : /\ flight[i].number = f.number
                                /\ ServerDay(flight[i].date) = ServerDay(f.date)
     IN  request' = [request EXCEPT ![c] =
                       IF taken THEN Idle ELSE [@ EXCEPT !.step = "save"]]
  /\ UNCHANGED <<flight, seats, report, faults>>

\* Fault: there is no index, and FindFlight alone decides.
IndexAllowsFlight_None(f) == TRUE

\* The unique index on the number and the date, which is an instant.
IndexAllowsFlight(f) ==
  \A i \in Id : flight[i].number = f.number => flight[i].date # f.date

\* Fault: a row with one seat counts as complete.
Missing_ByRow(model, existing) ==
  {s \in SeatTemplates(model) : \A e \in existing : e[1] # s[1]}

\* The templates that the seats of a flight do not have yet.
Missing(model, existing) == SeatTemplates(model) \ existing

SaveFlight(c) ==
  /\ Continue(c, "save")
  /\ LET f == request[c].flight
     IN  IF IndexAllowsFlight(f)
         THEN /\ Len(flight) < MaxFlights
              /\ AddFlights(<<f>>, <<Missing(f.model, {})>>)
         ELSE UNCHANGED <<flight, seats, report>>
  /\ Answer(c)
  /\ UNCHANGED faults

-----------------------------------------------------------------------------
(* CreateSeat looks for the seat and then inserts it; the unique index     *)
(* refuses the second of two.  Any number in the format is accepted.       *)

AskSeat(c) ==
  /\ Begin(c)
  /\ \E i \in Id, s \in ManualSeat :
       /\ s \notin seats[i]
       /\ request' = [request EXCEPT ![c] =
                        [step |-> "seat", id |-> i, seat |-> s]]

SaveSeat(c) ==
  /\ Continue(c, "seat")
  /\ seats' = [seats EXCEPT ![request[c].id] = @ \union {request[c].seat}]
  /\ Answer(c)
  /\ UNCHANGED <<flight, report, faults>>

-----------------------------------------------------------------------------
(* ReconcileMissingSeats: all flights, or one.  Of each it counts the      *)
(* seats, reads them, inserts what is missing, ignoring conflicts, and     *)
(* works its result out from the count and the number of rows inserted.    *)

AskReconcile(c) ==
  /\ Begin(c)
  /\ \E left \in {Id} \union {{i} : i \in Id} :
       /\ left # {}
       /\ request' = [request EXCEPT ![c] =
                        [step |-> "count", left |-> left]]

Current(c) == CHOOSE i \in request[c].left :
                \A j \in request[c].left : i <= j

CountSeats(c) ==
  /\ Continue(c, "count")
  /\ request' = [request EXCEPT ![c] =
                   [step |-> "read", left |-> @.left,
                    before |-> Cardinality(seats[Current(c)])]]
  /\ UNCHANGED <<flight, seats, report, faults>>

\* The result of one flight, and on to the next.
Report(c, result) ==
  LET i == Current(c)
      left == request[c].left \ {i}
  IN  /\ report' = [report EXCEPT ![i] = result]
      /\ request' = [request EXCEPT ![c] =
           IF left = {} THEN Idle ELSE [step |-> "count", left |-> left]]

Result(c, created) ==
  IF created > 0 THEN "FIXED"
  ELSE IF Cardinality(SeatTemplates(flight[Current(c)].model))
            > request[c].before
       THEN "FAILED" ELSE "SKIPPED"

ReadSeats(c) ==
  /\ Continue(c, "read")
  /\ LET i == Current(c)
         missing == Missing(flight[i].model, seats[i])
     IN  IF missing = {}
         THEN Report(c, Result(c, 0))
         ELSE /\ request' = [request EXCEPT ![c] =
                   [step |-> "insert", left |-> @.left,
                    before |-> @.before, missing |-> missing]]
              /\ UNCHANGED report
  /\ UNCHANGED <<flight, seats, faults>>

InsertSeats(c) ==
  /\ Continue(c, "insert")
  /\ LET i == Current(c)
         missing == request[c].missing
     IN  /\ seats' = [seats EXCEPT ![i] = @ \union missing]
         /\ Report(c, Result(c, Cardinality(missing \ seats[i])))
  /\ UNCHANGED <<flight, faults>>

\* A query of one flight fails: its item says so, and the loop goes on.
ReconcileFails(c) ==
  /\ \E step \in {"count", "read", "insert"} : Continue(c, step)
  /\ faults < MaxFaults /\ faults' = faults + 1
  /\ Report(c, "FAILED")
  /\ UNCHANGED <<flight, seats>>

-----------------------------------------------------------------------------
(* The seeder runs before the process listens, and each part of it is one  *)
(* batch.  It looks for the flights and their seats by number and local    *)
(* day, counted from the day it runs.                                      *)

SeedFleet ==
  /\ phase = "fleet" /\ phase' = "flights"
  /\ fleet' = fleet \union NewModel
  /\ UNCHANGED <<now, flight, seats, request, report, list, bounds>>

SeedDate(s) == ServerDayStart(now) + s.offset * Day

IsSeed(f, s) ==
  f.number = s.number /\ ServerDay(f.date) = ServerDay(SeedDate(s))

Seeded(s) ==
  [number |-> s.number, model |-> s.model, status |-> s.status,
   date |-> SeedDate(s), departure |-> SeedDate(s) + s.departure,
   arrive |-> SeedDate(s) + s.arrive
                + IF s.arrive <= s.departure THEN Day ELSE 0]

\* The rows of a batch, in some order.
InSequence(set) ==
  CHOOSE b \in [1..Cardinality(set) -> set] :
    \A i, j \in DOMAIN b : b[i] = b[j] => i = j

SeedFlights ==
  /\ phase = "flights" /\ phase' = "seats"
  /\ LET new == {s \in Seeds : s.model \in fleet
                                 /\ \A i \in Id : ~IsSeed(flight[i], s)}
         batch == InSequence(new)
     IN  /\ Len(flight) + Cardinality(new) <= MaxFlights
         /\ AddFlights([i \in DOMAIN batch |-> Seeded(batch[i])],
                       [i \in DOMAIN batch |-> {}])
  /\ UNCHANGED <<now, fleet, request, list, bounds>>

SeedSeats ==
  /\ phase = "seats" /\ phase' = "serving"
  /\ seats' = [i \in Id |->
       IF \E s \in Seeds : IsSeed(flight[i], s)
       THEN seats[i] \union Missing(flight[i].model, seats[i])
       ELSE seats[i]]
  /\ UNCHANGED <<now, fleet, flight, request, report, list, bounds>>

\* The process stops, whatever it is doing, and is started again.
Crash ==
  /\ faults < MaxFaults /\ faults' = faults + 1
  /\ phase' = "fleet"
  /\ request' = [c \in Client |-> Idle]
  /\ UNCHANGED <<now, table, report, list, work>>

-----------------------------------------------------------------------------
\* The customer's page loads the list; it keeps it until it loads it again.
FetchFlights ==
  /\ phase = "serving"
  /\ list' = [i \in {j \in Id : ListedFor(flight[j], now)} |->
                EffectiveStatus(flight[i], now)]
  /\ UNCHANGED <<now, phase, table, request, report, bounds>>

Tick ==
  /\ now < MaxTime /\ now' = now + 1
  /\ UNCHANGED <<phase, table, request, report, list, bounds>>

Next ==
  \/ \E c \in Client :
       \/ AskFlight(c) \/ FindFlight(c) \/ SaveFlight(c)
       \/ AskSeat(c) \/ SaveSeat(c)
       \/ AskReconcile(c) \/ CountSeats(c) \/ ReadSeats(c) \/ InsertSeats(c)
       \/ ReconcileFails(c)
  \/ SeedFleet \/ SeedFlights \/ SeedSeats
  \/ Crash \/ FetchFlights \/ Tick

Spec == Init /\ [][Next]_vars

-----------------------------------------------------------------------------
(* Properties.                                                             *)

\* The condition of the query and the status the answer shows agree: a list
\* filtered by a status holds exactly the flights shown with it.
FilterIsExact ==
  \A i \in Id : \A status \in Status :
    MatchesFilter(flight[i], status, now)
      <=> EffectiveStatus(flight[i], now) = status

\* Whatever can be booked is in the customer's list.  A seeded flight whose
\* date is not the start of a business day may drop out of it too early.
BookableIsListed ==
  \A i \in Id :
    /\ IsBookable(flight[i], now)
    /\ flight[i].date = BusinessDayStart(flight[i].date)
    => ListedFor(flight[i], now)

\* However old the list on the page is, the button it offers is for a flight
\* that ReserveSeat would still accept.
OfferIsBookable ==
  \A i \in DOMAIN list :
    OffersBooking(flight[i], list[i], now) => IsBookable(flight[i], now)

\* The list, its filter, the page and the reservation compute the state of a
\* flight in four places and from two calendars, and agree
\* (flightRepository.ts:107, flight-status.ts, presentation.ts:139).
ListingAgrees == FilterIsExact /\ BookableIsListed /\ OfferIsBookable

\* A reconciliation that reports a flight as fixed or complete left it with
\* every seat of its cabin, also when seats were created, or the process
\* stopped, while it ran, and the seat page, which counts with its own copy of
\* the cabins, shows none missing (reconcile-missing.ts:98-118).
ReconcileReportsTruth ==
  \A i \in Id : report[i] \in {"FIXED", "SKIPPED"} =>
    /\ SeatTemplates(flight[i].model) \subseteq seats[i]
    /\ ExpectedSeatCount(flight[i].model) <= Cardinality(seats[i])

\* Two requests that create one flight at once: the index lets one in, as long
\* as both store the start of the business day (create-flight.ts:103, :157).
OneFlightPerDay ==
  \A i, j \in Id :
    /\ i # j /\ flight[i].number = flight[j].number
    /\ \A k \in {i, j} : flight[k].date = BusinessDayStart(flight[k].date)
    => BusinessDay(flight[i].date) # BusinessDay(flight[j].date)
=============================================================================
