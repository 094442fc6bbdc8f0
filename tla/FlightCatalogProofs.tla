------------------------ MODULE FlightCatalogProofs -------------------------
(***************************************************************************)
(* Theorems about FlightCatalog, for every set of clients, seeds and       *)
(* requests, every length of the day, every offset between the calendars   *)
(* and every bound.                                                        *)
(***************************************************************************)
EXTENDS FlightCatalog, SequenceTheorems, FiniteSetTheorems,
        WellFoundedInduction, TLAPS

-----------------------------------------------------------------------------
(* Calendars.                                                              *)

\* Days are in order.
LEMMA DaysAreOrdered ==
  ASSUME NEW t \in Int, NEW u \in Int, t <= u
  PROVE  BusinessDayStart(t) <= BusinessDayStart(u)
<1> DEFINE p == BusinessDay(t)  q == BusinessDay(u)
<1>1. /\ p \in Int /\ q \in Int /\ Day \in Nat \ {0} /\ BusinessShift \in Nat
      /\ t + BusinessShift \in Int /\ u + BusinessShift \in Int
  BY CatalogAssumption DEF BusinessDay
<1>2. /\ p * Day <= t + BusinessShift
      /\ u + BusinessShift < q * Day + Day
  BY <1>1 DEF BusinessDay
<1>3. p * Day < (q + 1) * Day
  BY <1>1, <1>2
<1>4. p < q + 1
  BY <1>1, <1>3
<1>5. p * Day <= q * Day
  BY <1>1, <1>4
<1>6. QED
  BY <1>1, <1>5 DEF BusinessDayStart

\* Whatever departs within a day that starts when a business day does,
\* departs on that business day.
LEMMA SameDay ==
  ASSUME NEW t \in Int, NEW d \in 0..(Day - 1), t = BusinessDayStart(t)
  PROVE  BusinessDayStart(t + d) = t
<1> DEFINE q == BusinessDay(t)
<1>1. q \in Int /\ Day \in Nat \ {0} /\ BusinessShift \in Nat
  BY CatalogAssumption DEF BusinessDay
<1>2. t + BusinessShift = q * Day
  BY <1>1 DEF BusinessDayStart
<1>3. (q * Day + d) \div Day = q
  <2> DEFINE n == q * Day + d  r == n \div Day
  <2>1. n \in Int /\ r \in Int /\ r * Day <= n /\ n < r * Day + Day
    BY <1>1
  <2>2. r * Day < (q + 1) * Day /\ q * Day < (r + 1) * Day
    BY <1>1, <2>1
  <2>3. r < q + 1 /\ q < r + 1
    BY <1>1, <2>1, <2>2
  <2>4. QED
    BY <1>1, <2>1, <2>3
<1>4. BusinessDay(t + d) = q
  BY <1>1, <1>2, <1>3 DEF BusinessDay
<1>5. QED
  BY <1>1, <1>2, <1>4 DEF BusinessDayStart

-----------------------------------------------------------------------------
(* Types.                                                                  *)

\* The cabins fit the seat numbers a request may use.
LEMMA CabinsAreSeats ==
  ASSUME NEW model
  PROVE  SeatTemplates(model) \subseteq Seat
<1>1. \A s \in CabinLayout(model) : s.rows \subseteq 1..9 /\ s.letters \subseteq Wide
  BY DEF CabinLayout, Section, Narrow, Six, Wide
<1>2. QED
  BY <1>1 DEF SeatTemplates, Seat

\* What a statement that inserts flights leaves: the old rows where they were,
\* the new ones after them.
LEMMA RowsAdded ==
  ASSUME TypeOK, NEW rows \in Seq(Flight), NEW cabins \in Seq(SUBSET Seat),
         Len(rows) = Len(cabins), Len(flight) + Len(rows) <= MaxFlights,
         AddFlights(rows, cabins)
  PROVE  /\ flight' \in Seq(Flight)
         /\ Len(flight') = Len(flight) + Len(rows) /\ Len(flight') <= MaxFlights
         /\ seats' \in Seq(SUBSET Seat) /\ Len(seats') = Len(flight')
         /\ report' \in Seq({"none", "FIXED", "SKIPPED", "FAILED"})
         /\ Len(report') = Len(flight')
         /\ Id = 1..Len(flight) /\ Id' = 1..Len(flight')
         /\ \A i \in Id :
              /\ i \in Id' /\ flight'[i] = flight[i]
              /\ seats'[i] = seats[i] /\ report'[i] = report[i]
         /\ \A i \in Id' : i \notin Id =>
              /\ i - Len(flight) \in 1..Len(rows)
              /\ flight'[i] = rows[i - Len(flight)]
              /\ report'[i] = "none"
<1> DEFINE none == [i \in DOMAIN rows |-> "none"]
           result == {"none", "FIXED", "SKIPPED", "FAILED"}
<1>1. /\ flight \in Seq(Flight) /\ seats \in Seq(SUBSET Seat) /\ report \in Seq(result)
      /\ Len(seats) = Len(flight) /\ Len(report) = Len(flight)
  BY DEF TypeOK
<1>2. none \in Seq(result) /\ Len(none) = Len(rows)
  OBVIOUS
<1>3. flight' = flight \o rows /\ seats' = seats \o cabins /\ report' = report \o none
  BY DEF AddFlights
<1> HIDE DEF none, result
<1>4. flight' \in Seq(Flight) /\ Len(flight') = Len(flight) + Len(rows)
  BY <1>1, <1>3, ConcatProperties
<1>5. \A i \in 1..(Len(flight) + Len(rows)) :
        flight'[i] = IF i <= Len(flight) THEN flight[i] ELSE rows[i - Len(flight)]
  BY <1>1, <1>3, ConcatProperties
<1>6. /\ seats' \in Seq(SUBSET Seat) /\ Len(seats') = Len(seats) + Len(cabins)
      /\ \A i \in 1..Len(seats) : seats'[i] = seats[i]
  <2>1. /\ seats' \in Seq(SUBSET Seat) /\ Len(seats') = Len(seats) + Len(cabins)
        /\ \A i \in 1..(Len(seats) + Len(cabins)) :
             seats'[i] = IF i <= Len(seats) THEN seats[i] ELSE cabins[i - Len(seats)]
    BY <1>1, <1>3, ConcatProperties
  <2>2. Len(seats) \in Nat /\ Len(cabins) \in Nat
    BY <1>1
  <2>3. QED
    BY <2>1, <2>2
<1>7. /\ report' \in Seq(result) /\ Len(report') = Len(report) + Len(none)
      /\ \A i \in 1..Len(report) : report'[i] = report[i]
      /\ \A i \in 1..Len(report') : i \notin 1..Len(report) => report'[i] = "none"
  <2>1. /\ report' \in Seq(result) /\ Len(report') = Len(report) + Len(none)
        /\ \A i \in 1..(Len(report) + Len(none)) :
             report'[i] = IF i <= Len(report) THEN report[i] ELSE none[i - Len(report)]
    <3>1. /\ report \o none \in Seq(result)
          /\ Len(report \o none) = Len(report) + Len(none)
          /\ \A i \in 1..(Len(report) + Len(none)) :
               (report \o none)[i] = IF i <= Len(report) THEN report[i]
                                                         ELSE none[i - Len(report)]
      BY <1>1, <1>2, ConcatProperties
    <3>2. QED
      BY <1>3, <3>1
  <2>2. Len(report) \in Nat /\ Len(none) \in Nat
    BY <1>1, <1>2
  <2>3. \A k \in 1..Len(none) : none[k] = "none"
    BY <1>2 DEF none
  <2>4. QED
    BY <2>1, <2>2, <2>3
<1>8. Id = 1..Len(flight) /\ Id' = 1..Len(flight')
  BY <1>1, <1>4 DEF Id
<1>9. Len(flight) \in Nat /\ Len(rows) \in Nat
  BY <1>1
<1>10. QED
  BY <1>1, <1>2, <1>4, <1>5, <1>6, <1>7, <1>8, <1>9 DEF result

\* The batch of the seeder holds each of its seeds once.
LEMMA BatchIsOnce ==
  ASSUME NEW new \in SUBSET Seeds
  PROVE  /\ Cardinality(new) \in Nat
         /\ InSequence(new) \in [1..Cardinality(new) -> new]
         /\ \A i, j \in 1..Cardinality(new) :
              InSequence(new)[i] = InSequence(new)[j] => i = j
<1>1. IsFiniteSet(new)
  BY CatalogAssumption, FS_Subset
<1>2. Cardinality(new) \in Nat /\ ExistsBijection(1..Cardinality(new), new)
  BY <1>1, FS_CardinalityType
<1>3. \E b \in [1..Cardinality(new) -> new] :
        \A i, j \in DOMAIN b : b[i] = b[j] => i = j
  BY <1>2 DEF ExistsBijection, Bijection, Injection, IsInjective
<1>4. QED
  BY <1>2, <1>3 DEF InSequence

\* A seat set that changes is a seat set still.
LEMMA CabinChanges ==
  ASSUME NEW cabins \in Seq(SUBSET Seat), NEW i \in Int, NEW more \in SUBSET Seat
  PROVE  /\ [cabins EXCEPT ![i] = @ \union more] \in Seq(SUBSET Seat)
         /\ Len([cabins EXCEPT ![i] = @ \union more]) = Len(cabins)
<1>1. CASE i \in 1..Len(cabins)
  <2>1. cabins[i] \union more \in SUBSET Seat
    BY <1>1
  <2>2. QED
    BY <1>1, <2>1, ExceptSeq
<1>2. CASE i \notin 1..Len(cabins)
  <2>1. [cabins EXCEPT ![i] = @ \union more] = cabins
    BY <1>2
  <2>2. QED
    BY <2>1
<1>3. QED
  BY <1>1, <1>2

\* What a request carries at each of its steps.
LEMMA RequestShape ==
  ASSUME TypeOK, NEW c \in Client
  PROVE  /\ request[c].step \in {"find", "save"} =>
              request[c] = [step |-> request[c].step, flight |-> request[c].flight]
              /\ request[c].flight \in Flight
         /\ request[c].step = "seat" =>
              request[c].id \in 1..MaxFlights /\ request[c].seat \in Seat
         /\ request[c].step \in {"count", "read", "insert"} =>
              request[c].left \in SUBSET (1..MaxFlights)
         /\ request[c].step \in {"read", "insert"} => request[c].before \in Nat
         /\ request[c].step = "insert" => request[c].missing \in SUBSET Seat
<1>1. request[c] \in Request
  BY DEF TypeOK
<1>2. QED
  BY <1>1 DEF Request, Idle

\* Requests as TypeOK has them, and what a client's request may become.
LEMMA RequestTypes ==
  /\ Idle \in Request
  /\ \A f \in Flight : \A s \in {"find", "save"} : [step |-> s, flight |-> f] \in Request
  /\ \A i \in 1..MaxFlights : \A s \in Seat :
       [step |-> "seat", id |-> i, seat |-> s] \in Request
  /\ \A left \in SUBSET (1..MaxFlights) :
       /\ [step |-> "count", left |-> left] \in Request
       /\ \A n \in Nat :
            /\ [step |-> "read", left |-> left, before |-> n] \in Request
            /\ \A m \in SUBSET Seat :
                 [step |-> "insert", left |-> left, before |-> n, missing |-> m]
                   \in Request
BY DEF Request

\* The step of a client from one request to another.
LEMMA RequestChanges ==
  ASSUME TypeOK, NEW c \in Client, NEW x \in Request,
         request' = [request EXCEPT ![c] = x]
  PROVE  request' \in [Client -> Request]
BY DEF TypeOK

LEMMA LettersAreFinite == IsFiniteSet(Wide \union {"Z"})
<1>1. IsFiniteSet({"A"})
  BY FS_Singleton
<1>2. IsFiniteSet(({"A"} \union {"B"}))
  BY <1>1, FS_AddElement
<1>3. IsFiniteSet(({"A"} \union {"B"}) \union {"C"})
  BY <1>2, FS_AddElement
<1>4. IsFiniteSet((({"A"} \union {"B"}) \union {"C"}) \union {"D"})
  BY <1>3, FS_AddElement
<1>5. Narrow = (({"A"} \union {"B"}) \union {"C"}) \union {"D"}
  BY DEF Narrow
<1>6. IsFiniteSet((Narrow \union {"E"}) \union {"F"})
  BY <1>4, <1>5, FS_AddElement
<1>7. Six = (Narrow \union {"E"}) \union {"F"}
  BY DEF Six
<1>8. IsFiniteSet((Six \union {"G"}) \union {"H"})
  BY <1>6, <1>7, FS_AddElement
<1>9. Wide = (Six \union {"G"}) \union {"H"}
  BY DEF Wide
<1>10. QED
  BY <1>8, <1>9, FS_AddElement

LEMMA SeatsAreFinite == IsFiniteSet(Seat)
<1>1. IsFiniteSet(1..9)
  <2>1. 1 \in Int /\ 9 \in Int
    OBVIOUS
  <2>2. QED
    BY <2>1, FS_Interval
<1>2. QED
  BY <1>1, LettersAreFinite, FS_Product DEF Seat

\* A reconciliation under way has a flight to go on with.
Left ==
  \A c \in Client : request[c].step \in {"count", "read", "insert"} =>
    request[c].left # {} /\ request[c].left \subseteq Id

LEMMA CurrentIsLeft ==
  ASSUME TypeOK, Left, NEW c \in Client,
         request[c].step \in {"count", "read", "insert"}
  PROVE  /\ Current(c) \in request[c].left /\ Current(c) \in Id
         /\ seats[Current(c)] \in SUBSET Seat
         /\ Cardinality(seats[Current(c)]) \in Nat
<1> DEFINE left == request[c].left
<1>1. left \in SUBSET Nat /\ left # {} /\ left \subseteq Id
  <2>1. left \in SUBSET (1..MaxFlights)
    BY RequestShape
  <2>2. MaxFlights \in Nat
    BY CatalogAssumption
  <2>3. QED
    BY <2>1, <2>2 DEF Left
<1>2. \E i \in left : \A j \in left : i <= j
  <2>1. PICK i \in left : \A j \in left : ~ (<<j, i>> \in OpToRel(<, Nat))
    BY <1>1, NatLessThanWellFounded, WFMin
  <2>2. ASSUME NEW j \in left PROVE i <= j
    <3>1. i \in Nat /\ j \in Nat
      BY <1>1
    <3>2. ~ (j < i)
      BY <2>1, <3>1, Zenon DEF OpToRel
    <3>3. QED
      BY <3>1, <3>2
  <2>3. QED
    BY <2>2
<1>3. Current(c) \in left
  BY <1>2 DEF Current
<1>4. seats[Current(c)] \in SUBSET Seat
  BY <1>1, <1>3 DEF TypeOK, Id
<1>5. QED
  BY <1>1, <1>3, <1>4, SeatsAreFinite, FS_Subset, FS_CardinalityType

LEMMA ReportTypes ==
  ASSUME TypeOK, Left, NEW c \in Client,
         request[c].step \in {"count", "read", "insert"},
         NEW result \in {"FIXED", "SKIPPED", "FAILED"},
         Report(c, result), UNCHANGED flight
  PROVE  /\ request' \in [Client -> Request] /\ Left'
         /\ report' \in Seq({"none", "FIXED", "SKIPPED", "FAILED"})
         /\ Len(report') = Len(report)
<1> DEFINE left == request[c].left \ {Current(c)}
           x == IF left = {} THEN Idle ELSE [step |-> "count", left |-> left]
<1>1. left \in SUBSET (1..MaxFlights) /\ left \subseteq Id
  BY RequestShape DEF Left
<1>2. x \in Request
  BY <1>1, RequestTypes
<1>3. request' = [request EXCEPT ![c] = x]
  BY DEF Report
<1>4. request' \in [Client -> Request]
  BY <1>2, <1>3, RequestChanges
<1>5. x.step \in {"count", "read", "insert"} => x.left # {} /\ x.left \subseteq Id
  BY <1>1 DEF Idle
<1>6. Left'
  BY <1>3, <1>5 DEF Left, TypeOK, Id
<1>7. Current(c) \in 1..Len(report)
  BY CurrentIsLeft DEF TypeOK, Id
<1>8. QED
  BY <1>4, <1>6, <1>7, ExceptSeq DEF Report, TypeOK

LEMMA AnswerTypes ==
  ASSUME TypeOK, Left, NEW c \in Client, Answer(c), Id \subseteq Id'
  PROVE  request' \in [Client -> Request] /\ Left'
<1>1. request' = [request EXCEPT ![c] = Idle]
  BY DEF Answer
<1>2. request' \in [Client -> Request]
  BY <1>1, RequestTypes, RequestChanges
<1>3. Left'
  BY <1>1 DEF Left, Idle, TypeOK
<1>4. QED
  BY <1>2, <1>3

LEMMA StatusIsShown ==
  ASSUME NEW f, NEW t
  PROVE  EffectiveStatus(f, t) \in Status
BY DEF EffectiveStatus, Status

LEMMA SeedsAreFlights ==
  ASSUME NEW s \in Seeds, now \in Nat
  PROVE  Seeded(s) \in Flight
<1>1. Day \in Nat \ {0} /\ ServerShift \in Nat /\ s \in Seed
  BY CatalogAssumption
<1>2. ServerDay(now) \in Int
  BY <1>1 DEF ServerDay
<1>3. SeedDate(s) \in Int
  BY <1>1, <1>2 DEF SeedDate, ServerDayStart, Seed
<1>4. SeedDate(s) + s.departure \in Int
  BY <1>1, <1>3 DEF Seed
<1>5. SeedDate(s) + s.arrive + (IF s.arrive <= s.departure THEN Day ELSE 0) \in Int
  BY <1>1, <1>3 DEF Seed
<1>6. s.number \in Number /\ s.model \in NewModel /\ s.status \in Status
  BY <1>1 DEF Seed
<1> HIDE DEF Seeded
<1>7. QED
  BY <1>3, <1>4, <1>5, <1>6 DEF Seeded, Flight

\* The seeder adds its flights as one batch of rows.
LEMMA SeedRows ==
  ASSUME TypeOK, SeedFlights
  PROVE  \E rows \in Seq(Flight), cabins \in Seq(SUBSET Seat) :
           /\ Len(rows) = Len(cabins) /\ Len(flight) + Len(rows) <= MaxFlights
           /\ AddFlights(rows, cabins)
<1> DEFINE new == {s \in Seeds : s.model \in fleet
                               /\ \A i \in Id : ~IsSeed(flight[i], s)}
           batch == InSequence(new)
           rows == [i \in DOMAIN batch |-> Seeded(batch[i])]
           cabins == [i \in DOMAIN batch |-> {}]
<1>1. Len(flight) + Cardinality(new) <= MaxFlights /\ AddFlights(rows, cabins)
  BY DEF SeedFlights
<1>2. new \in SUBSET Seeds
  OBVIOUS
<1>3. Cardinality(new) \in Nat /\ batch \in [1..Cardinality(new) -> new]
  <2> HIDE DEF new
  <2>1. QED
    BY <1>2, BatchIsOnce
<1> HIDE DEF batch, new
<1>4. /\ rows \in Seq(Flight) /\ Len(rows) = Cardinality(new)
      /\ cabins \in Seq(SUBSET Seat) /\ Len(cabins) = Cardinality(new)
  <2>1. ASSUME NEW i \in 1..Cardinality(new) PROVE Seeded(batch[i]) \in Flight
    <3>1. batch[i] \in Seeds /\ now \in Nat
      BY <1>2, <1>3, CatalogAssumption DEF TypeOK
    <3>2. QED
      BY <3>1, SeedsAreFlights
  <2> HIDE DEF Seeded
  <2>2. QED
    BY <1>3, <2>1
<1> HIDE DEF rows, cabins
<1>5. QED
  BY <1>1, <1>4

LEMMA TypesHold == Spec => [](TypeOK /\ Left)
<1>1. Init => TypeOK /\ Left
  BY CatalogAssumption, RequestTypes DEF Init, TypeOK, Id, Left, Idle
<1>2. TypeOK /\ Left /\ [Next]_vars => TypeOK' /\ Left'
  <2> SUFFICES ASSUME TypeOK, Left, [Next]_vars PROVE TypeOK' /\ Left'
    OBVIOUS
  <2>0. Id = 1..Len(flight) /\ Len(flight) \in Nat /\ Len(flight) <= MaxFlights
    BY DEF TypeOK, Id
  <2>1. ASSUME NEW c \in Client, NEW x \in Request,
               request' = [request EXCEPT ![c] = x],
               UNCHANGED <<now, phase, table, list>>, UNCHANGED report,
               work' \in 0..MaxWork, faults' \in 0..MaxFaults,
               x.step \in {"count", "read", "insert"} =>
                 x.left # {} /\ x.left \subseteq Id
        PROVE  TypeOK' /\ Left'
    BY <2>1, RequestChanges DEF TypeOK, table, Id, Left
  <2>2. CASE \E c \in Client : AskFlight(c)
    <3>1. PICK c \in Client, n \in Number, model \in fleet, s \in Schedule, status \in Status :
            /\ Begin(c)
            /\ request' = [request EXCEPT ![c] =
                 [step |-> "find",
                  flight |-> [number |-> n, model |-> model, status |-> status,
                              date |-> BusinessDayStart(s.departure),
                              departure |-> s.departure, arrive |-> s.arrive]]]
      BY <2>2 DEF AskFlight
    <3>2. s.departure \in Int /\ s.arrive \in Int
      BY CatalogAssumption
    <3>3. BusinessDayStart(s.departure) \in Int
      BY <3>2, CatalogAssumption DEF BusinessDayStart, BusinessDay
    <3>4. model \in NewModel
      BY DEF TypeOK
    <3>5. [number |-> n, model |-> model, status |-> status,
           date |-> BusinessDayStart(s.departure),
           departure |-> s.departure, arrive |-> s.arrive] \in Flight
      BY <3>2, <3>3, <3>4 DEF Flight
    <3>6. work' \in 0..MaxWork /\ faults' \in 0..MaxFaults
      BY <3>1, CatalogAssumption DEF Begin, TypeOK
    <3>7. QED
      BY <2>1, <3>1, <3>5, <3>6, RequestTypes DEF Begin
  <2>3. CASE \E c \in Client : FindFlight(c)
    <3>1. PICK c \in Client : FindFlight(c)
      BY <2>3
    <3>2. [request[c] EXCEPT !.step = "save"] \in Request
      <4>1. /\ request[c] = [step |-> request[c].step, flight |-> request[c].flight]
            /\ request[c].flight \in Flight
        BY <3>1, RequestShape DEF FindFlight, Continue
      <4>2. [request[c] EXCEPT !.step = "save"]
              = [step |-> "save", flight |-> request[c].flight]
        BY <4>1
      <4>3. QED
        BY <4>1, <4>2, RequestTypes
    <3>3. PICK x \in Request : /\ request' = [request EXCEPT ![c] = x]
                               /\ x = Idle \/ x = [request[c] EXCEPT !.step = "save"]
      BY <3>1, <3>2, RequestTypes DEF FindFlight
    <3>4. x.step \notin {"count", "read", "insert"}
      <4>1. request[c] = [step |-> request[c].step, flight |-> request[c].flight]
        BY <3>1, RequestShape DEF FindFlight, Continue
      <4>2. QED
        BY <3>3, <4>1 DEF Idle
    <3>5. QED
      BY <2>1, <3>1, <3>3, <3>4 DEF FindFlight, Continue, TypeOK, table
  <2>4. CASE \E c \in Client : SaveFlight(c)
    <3>1. PICK c \in Client : SaveFlight(c)
      BY <2>4
    <3> DEFINE f == request[c].flight
    <3>2. f \in Flight /\ Missing(f.model, {}) \subseteq Seat
      BY <3>1, RequestShape, CabinsAreSeats DEF SaveFlight, Continue, Missing
    <3>3. Answer(c)
      BY <3>1 DEF SaveFlight
    <3> HIDE DEF f
    <3>4. CASE IndexAllowsFlight(f)
      <4>1. /\ <<f>> \in Seq(Flight) /\ <<Missing(f.model, {})>> \in Seq(SUBSET Seat)
            /\ Len(<<f>>) = 1 /\ Len(<<Missing(f.model, {})>>) = 1
        BY <3>2
      <4>2. /\ Len(flight) < MaxFlights
            /\ AddFlights(<<f>>, <<Missing(f.model, {})>>)
        BY <3>1, <3>4 DEF SaveFlight, f
      <4>3. /\ flight' \in Seq(Flight) /\ Len(flight') <= MaxFlights
            /\ seats' \in Seq(SUBSET Seat) /\ Len(seats') = Len(flight')
            /\ report' \in Seq({"none", "FIXED", "SKIPPED", "FAILED"})
            /\ Len(report') = Len(flight')
            /\ \A i \in Id : i \in Id'
        <5> DEFINE rows == <<f>>  cabins == <<Missing(f.model, {})>>
        <5>1. Len(flight) + Len(rows) <= MaxFlights
          BY <2>0, <4>1, <4>2, CatalogAssumption
        <5>2. rows \in Seq(Flight) /\ cabins \in Seq(SUBSET Seat) /\ Len(rows) = Len(cabins)
          BY <4>1
        <5>3. AddFlights(rows, cabins)
          BY <4>2
        <5> HIDE DEF rows, cabins
        <5>4. QED
          BY <5>1, <5>2, <5>3, RowsAdded
      <4>4. QED
        BY <3>1, <3>3, <4>3, AnswerTypes DEF SaveFlight, Continue, TypeOK
    <3>5. CASE ~ IndexAllowsFlight(f)
      <4>1. UNCHANGED <<flight, seats, report>>
        BY <3>1, <3>5 DEF SaveFlight, f
      <4>2. request' \in [Client -> Request] /\ Left'
        BY <3>3, <4>1, AnswerTypes DEF Id
      <4>3. QED
        BY <3>1, <4>1, <4>2 DEF SaveFlight, Continue, TypeOK, Id
    <3>6. QED
      BY <3>4, <3>5
  <2>5. CASE \E c \in Client : AskSeat(c)
    <3>1. PICK c \in Client, i \in Id, s \in ManualSeat :
            /\ Begin(c)
            /\ request' = [request EXCEPT ![c] = [step |-> "seat", id |-> i, seat |-> s]]
      BY <2>5 DEF AskSeat
    <3>2. [step |-> "seat", id |-> i, seat |-> s] \in Request
      BY <2>0, CatalogAssumption, RequestTypes
    <3>3. work' \in 0..MaxWork /\ faults' \in 0..MaxFaults
      BY <3>1, CatalogAssumption DEF Begin, TypeOK
    <3>4. QED
      BY <2>1, <3>1, <3>2, <3>3 DEF Begin
  <2>6. CASE \E c \in Client : SaveSeat(c)
    <3>1. PICK c \in Client : SaveSeat(c)
      BY <2>6
    <3>2. request[c].seat \in Seat
      BY <3>1, RequestShape DEF SaveSeat, Continue
    <3>3. seats' \in Seq(SUBSET Seat) /\ Len(seats') = Len(seats)
      BY <3>1, <3>2, RequestShape, CabinChanges DEF SaveSeat, Continue, TypeOK
    <3>4. request' \in [Client -> Request] /\ Left'
      BY <3>1, AnswerTypes DEF SaveSeat, Id
    <3>5. QED
      BY <3>1, <3>3, <3>4 DEF SaveSeat, Continue, TypeOK, Id
  <2>7. CASE \E c \in Client : AskReconcile(c)
    <3>1. PICK c \in Client, left \in {Id} \union {{i} : i \in Id} :
            /\ Begin(c) /\ left # {}
            /\ request' = [request EXCEPT ![c] = [step |-> "count", left |-> left]]
      BY <2>7 DEF AskReconcile
    <3>2. left \in SUBSET (1..MaxFlights) /\ left \subseteq Id
      BY <2>0, CatalogAssumption
    <3>3. work' \in 0..MaxWork /\ faults' \in 0..MaxFaults
      BY <3>1, CatalogAssumption DEF Begin, TypeOK
    <3>4. QED
      BY <2>1, <3>1, <3>2, <3>3, RequestTypes DEF Begin
  <2>8. CASE \E c \in Client : CountSeats(c)
    <3>1. PICK c \in Client : CountSeats(c)
      BY <2>8
    <3>2. /\ request[c].left \in SUBSET (1..MaxFlights)
          /\ request[c].left # {} /\ request[c].left \subseteq Id
          /\ Cardinality(seats[Current(c)]) \in Nat
      BY <3>1, RequestShape, CurrentIsLeft DEF CountSeats, Continue, Left
    <3>3. request' = [request EXCEPT ![c] =
            [step |-> "read", left |-> request[c].left,
             before |-> Cardinality(seats[Current(c)])]]
      BY <3>1 DEF CountSeats, TypeOK
    <3>4. QED
      BY <2>1, <3>1, <3>2, <3>3, RequestTypes DEF CountSeats, Continue, TypeOK, table
  <2>9. CASE \E c \in Client : ReadSeats(c)
    <3>1. PICK c \in Client : ReadSeats(c)
      BY <2>9
    <3> DEFINE i == Current(c)
               missing == Missing(flight[i].model, seats[i])
    <3>2. CASE missing = {}
      <4>1. Report(c, Result(c, 0)) /\ Result(c, 0) \in {"FIXED", "SKIPPED", "FAILED"}
        BY <3>1, <3>2 DEF ReadSeats, Result
      <4>2. /\ request' \in [Client -> Request] /\ Left'
            /\ report' \in Seq({"none", "FIXED", "SKIPPED", "FAILED"})
            /\ Len(report') = Len(report)
        BY <3>1, <4>1, ReportTypes DEF ReadSeats, Continue
      <4>3. QED
        BY <3>1, <4>2 DEF ReadSeats, Continue, TypeOK, Id
    <3>3. CASE missing # {}
      <4>1. /\ request[c].left \in SUBSET (1..MaxFlights)
            /\ request[c].left # {} /\ request[c].left \subseteq Id
            /\ request[c].before \in Nat
            /\ missing \in SUBSET Seat
        BY <3>1, RequestShape, CabinsAreSeats DEF ReadSeats, Continue, Left, Missing
      <4>2. /\ request' = [request EXCEPT ![c] =
                 [step |-> "insert", left |-> request[c].left,
                  before |-> request[c].before, missing |-> missing]]
            /\ UNCHANGED report
        BY <3>1, <3>3 DEF ReadSeats, TypeOK
      <4> HIDE DEF missing
      <4>3. QED
        BY <2>1, <3>1, <4>1, <4>2, RequestTypes DEF ReadSeats, Continue, TypeOK, table
    <3>4. QED
      BY <3>2, <3>3
  <2>10. CASE \E c \in Client : InsertSeats(c)
    <3>1. PICK c \in Client : InsertSeats(c)
      BY <2>10
    <3> DEFINE i == Current(c)
               missing == request[c].missing
               result == Result(c, Cardinality(missing \ seats[i]))
    <3>2. missing \in SUBSET Seat /\ i \in Int
      <4>1. request[c].step = "insert"
        BY <3>1 DEF InsertSeats, Continue
      <4>2. missing \in SUBSET Seat
        BY <4>1, RequestShape
      <4>3. i \in Int
        BY <2>0, <4>1, CurrentIsLeft
      <4>4. QED
        BY <4>2, <4>3
    <3>3. Report(c, result) /\ result \in {"FIXED", "SKIPPED", "FAILED"}
      BY <3>1 DEF InsertSeats, Result
    <3>4. /\ request' \in [Client -> Request] /\ Left'
          /\ report' \in Seq({"none", "FIXED", "SKIPPED", "FAILED"})
          /\ Len(report') = Len(report)
      BY <3>1, <3>3, ReportTypes DEF InsertSeats, Continue
    <3>5. seats' = [seats EXCEPT ![i] = @ \union missing]
      BY <3>1 DEF InsertSeats
    <3> HIDE DEF i, missing, result
    <3>6. seats' \in Seq(SUBSET Seat) /\ Len(seats') = Len(seats)
      BY <3>2, <3>5, CabinChanges, ZenonT(40) DEF TypeOK
    <3>7. QED
      BY <3>1, <3>4, <3>6 DEF InsertSeats, Continue, TypeOK, Id
  <2>11. CASE \E c \in Client : ReconcileFails(c)
    <3>1. PICK c \in Client : ReconcileFails(c)
      BY <2>11
    <3>2. /\ request' \in [Client -> Request] /\ Left'
          /\ report' \in Seq({"none", "FIXED", "SKIPPED", "FAILED"})
          /\ Len(report') = Len(report)
      BY <3>1, ReportTypes DEF ReconcileFails, Continue
    <3>3. faults' \in 0..MaxFaults
      BY <3>1, CatalogAssumption DEF ReconcileFails, TypeOK
    <3>4. QED
      BY <3>1, <3>2, <3>3 DEF ReconcileFails, Continue, TypeOK, Id
  <2>12. CASE SeedFleet
    BY <2>12 DEF SeedFleet, TypeOK, bounds, Left, Id
  <2>13. CASE SeedFlights
    <3>1. PICK rows \in Seq(Flight), cabins \in Seq(SUBSET Seat) :
            /\ Len(rows) = Len(cabins) /\ Len(flight) + Len(rows) <= MaxFlights
            /\ AddFlights(rows, cabins)
      BY <2>13, SeedRows
    <3>2. /\ flight' \in Seq(Flight) /\ Len(flight') <= MaxFlights
          /\ seats' \in Seq(SUBSET Seat) /\ Len(seats') = Len(flight')
          /\ report' \in Seq({"none", "FIXED", "SKIPPED", "FAILED"})
          /\ Len(report') = Len(flight')
          /\ \A i \in Id : i \in Id'
      BY <3>1, RowsAdded
    <3>3. QED
      BY <2>13, <3>2 DEF SeedFlights, TypeOK, Left, bounds
  <2>14. CASE SeedSeats
    <3>1. \A i \in Id : Missing(flight[i].model, seats[i]) \in SUBSET Seat
      BY CabinsAreSeats DEF Missing
    <3>2. \A i \in Id : seats[i] \in SUBSET Seat
      BY DEF TypeOK, Id
    <3>3. seats' \in Seq(SUBSET Seat) /\ Len(seats') = Len(flight)
      BY <2>0, <2>14, <3>1, <3>2 DEF SeedSeats
    <3>4. QED
      BY <2>14, <3>3 DEF SeedSeats, TypeOK, Left, Id, bounds
  <2>15. CASE Crash
    BY <2>15, RequestTypes, CatalogAssumption DEF Crash, TypeOK, Left, Id, Idle, table
  <2>16. CASE FetchFlights
    <3>1. \A i \in DOMAIN list' : i \in Id /\ list'[i] \in Status
      BY <2>16, StatusIsShown DEF FetchFlights
    <3>2. QED
      BY <2>16, <3>1 DEF FetchFlights, TypeOK, Left, Id, table, bounds
  <2>17. CASE Tick
    BY <2>17, CatalogAssumption DEF Tick, TypeOK, Left, Id, table, bounds
  <2>18. CASE UNCHANGED vars
    BY <2>18 DEF vars, TypeOK, Left, Id, table, bounds
  <2>19. QED
    BY <2>2, <2>3, <2>4, <2>5, <2>6, <2>7, <2>8, <2>9, <2>10, <2>11, <2>12, <2>13,
       <2>14, <2>15, <2>16, <2>17, <2>18 DEF Next
<1>3. QED
  BY <1>1, <1>2, PTL DEF Spec

\* Every reachable state of the catalogue is type correct.
THEOREM TypeCorrect == Spec => []TypeOK
BY TypesHold, PTL

-----------------------------------------------------------------------------
(* Flights, and what the list and the index make of them.                  *)

\* A flight lands after it departs; if its date starts a business day, it
\* departs on that day.
Timely(f) ==
  /\ f.departure < f.arrive
  /\ f.date = BusinessDayStart(f.date) => f.date = BusinessDayStart(f.departure)

\* A request to create a flight has worked its date out.
Accepted ==
  \A c \in Client : request[c].step \in {"find", "save"} => Timely(request[c].flight)

\* The unique index.
Indexed ==
  \A i, j \in Id :
    i # j /\ flight[i].number = flight[j].number => flight[i].date # flight[j].date

\* The list offers no flight that was cancelled when it was loaded, and no
\* flight is cancelled later.
Offered ==
  \A i \in DOMAIN list :
    list[i] \in {"SCHEDULED", "DELAY"} => flight[i].status # "CANCELED"

AllTimely == \A i \in Id : Timely(flight[i])

LEMMA AcceptedStep ==
  ASSUME TypeOK, Accepted, [Next]_vars
  PROVE  Accepted'
<1>1. CASE \E c \in Client : AskFlight(c)
  <2>1. PICK c \in Client, n \in Number, model \in fleet, s \in Schedule, status \in Status :
          /\ s.arrive > s.departure
          /\ request' = [request EXCEPT ![c] =
               [step |-> "find",
                flight |-> [number |-> n, model |-> model, status |-> status,
                            date |-> BusinessDayStart(s.departure),
                            departure |-> s.departure, arrive |-> s.arrive]]]
    BY <1>1 DEF AskFlight
  <2>2. s.departure \in Int /\ s.arrive \in Int
    BY CatalogAssumption
  <2>3. QED
    BY <2>1, <2>2 DEF Accepted, Timely, TypeOK
<1>2. CASE \E c \in Client : FindFlight(c)
  <2>1. PICK c \in Client : FindFlight(c)
    BY <1>2
  <2>2. request[c] = [step |-> request[c].step, flight |-> request[c].flight]
    BY <2>1, RequestShape DEF FindFlight, Continue
  <2>3. request[c].step = "find"
    BY <2>1 DEF FindFlight, Continue
  <2>4. PICK x : /\ request' = [request EXCEPT ![c] = x]
                 /\ x = Idle \/ x = [request[c] EXCEPT !.step = "save"]
    BY <2>1 DEF FindFlight
  <2>5. x.step \in {"find", "save"} => x.flight = request[c].flight
    BY <2>2, <2>4 DEF Idle
  <2>6. QED
    BY <2>3, <2>4, <2>5 DEF Accepted, TypeOK
<1>3. CASE \E c \in Client : \/ SaveFlight(c) \/ SaveSeat(c)
                            \/ AskSeat(c) \/ AskReconcile(c)
                            \/ CountSeats(c) \/ ReadSeats(c) \/ InsertSeats(c)
                            \/ ReconcileFails(c)
  <2>1. PICK c \in Client : \/ SaveFlight(c) \/ SaveSeat(c)
                            \/ AskSeat(c) \/ AskReconcile(c)
                            \/ CountSeats(c) \/ ReadSeats(c) \/ InsertSeats(c)
                            \/ ReconcileFails(c)
    BY <1>3
  <2> DEFINE Done == /\ request'[c].step \notin {"find", "save"}
                     /\ \A d \in Client : d # c => request'[d] = request[d]
  <2>2. Done
    <3>0. \A x : [request EXCEPT ![c] = x][c] = x
      BY DEF TypeOK
    <3>1. CASE SaveFlight(c) \/ SaveSeat(c)
      <4>1. Answer(c)
        BY <3>1 DEF SaveFlight, SaveSeat
      <4>2. QED
        BY <3>0, <4>1 DEF Answer, Idle
    <3>2. CASE AskSeat(c)
      BY <3>0, <3>2 DEF AskSeat
    <3>3. CASE AskReconcile(c)
      BY <3>0, <3>3 DEF AskReconcile
    <3>4. CASE CountSeats(c)
      BY <3>0, <3>4 DEF CountSeats, TypeOK
    <3>5. ASSUME NEW r, Report(c, r)
          PROVE  Done
      BY <3>0, <3>5 DEF Report, Idle
    <3>6. CASE ReadSeats(c)
      BY <3>0, <3>5, <3>6 DEF ReadSeats, TypeOK
    <3>7. CASE InsertSeats(c)
      BY <3>5, <3>7 DEF InsertSeats
    <3>8. CASE ReconcileFails(c)
      BY <3>5, <3>8 DEF ReconcileFails
    <3>9. QED
      BY <2>1, <3>1, <3>2, <3>3, <3>4, <3>6, <3>7, <3>8
  <2>3. QED
    BY <2>2 DEF Accepted
<1>4. CASE SeedFleet \/ SeedFlights \/ SeedSeats \/ FetchFlights \/ Tick
  BY <1>4 DEF SeedFleet, SeedFlights, SeedSeats, FetchFlights, Tick, Accepted
<1>5. CASE Crash
  BY <1>5 DEF Crash, Accepted, Idle
<1>6. CASE UNCHANGED vars
  BY <1>6 DEF vars, Accepted
<1>7. QED
  BY <1>1, <1>2, <1>3, <1>4, <1>5, <1>6 DEF Next

\* A step adds the flight of one request, or a batch of seeds, or none.
LEMMA FlightsGrow ==
  ASSUME TypeOK, [Next]_vars
  PROVE  \/ UNCHANGED flight
         \/ \E c \in Client :
              /\ request[c].step = "save" /\ IndexAllowsFlight(request[c].flight)
              /\ AddFlights(<<request[c].flight>>,
                            <<Missing(request[c].flight.model, {})>>)
              /\ Len(flight) < MaxFlights
              /\ UNCHANGED list
         \/ SeedFlights
<1>1. CASE \E c \in Client : SaveFlight(c)
  BY <1>1 DEF SaveFlight, Continue
<1>2. CASE SeedFlights
  BY <1>2
<1>3. CASE \E c \in Client : \/ AskFlight(c) \/ FindFlight(c) \/ SaveSeat(c)
                            \/ AskSeat(c) \/ AskReconcile(c)
                            \/ CountSeats(c) \/ ReadSeats(c) \/ InsertSeats(c)
                            \/ ReconcileFails(c)
  BY <1>3 DEF AskFlight, FindFlight, SaveSeat, AskSeat, AskReconcile, CountSeats,
              ReadSeats, InsertSeats, ReconcileFails, Begin, table
<1>4. CASE SeedFleet \/ SeedSeats \/ FetchFlights \/ Tick \/ Crash \/ UNCHANGED vars
  BY <1>4 DEF SeedFleet, SeedSeats, FetchFlights, Tick, Crash, vars, table
<1>5. QED
  BY <1>1, <1>2, <1>3, <1>4 DEF Next

\* Rows that are added as the index allows and keep to the order of time.
LEMMA RowsFit ==
  ASSUME TypeOK, AllTimely, Indexed,
         NEW rows \in Seq(Flight), NEW cabins \in Seq(SUBSET Seat),
         Len(rows) = Len(cabins), Len(flight) + Len(rows) <= MaxFlights,
         AddFlights(rows, cabins),
         \A k \in 1..Len(rows) : Timely(rows[k]) /\ IndexAllowsFlight(rows[k]),
         \A k, l \in 1..Len(rows) :
           k # l /\ rows[k].number = rows[l].number => rows[k].date # rows[l].date
  PROVE  AllTimely' /\ Indexed'
<1>1. /\ Id = 1..Len(flight) /\ Len(flight) \in Nat
      /\ \A i \in Id : i \in Id' /\ flight'[i] = flight[i]
      /\ \A i \in Id' : i \in Int /\ (i \notin Id =>
           /\ i - Len(flight) \in 1..Len(rows)
           /\ flight'[i] = rows[i - Len(flight)])
  <2>1. /\ Len(flight') = Len(flight) + Len(rows)
        /\ Id = 1..Len(flight) /\ Id' = 1..Len(flight')
        /\ \A i \in Id : i \in Id' /\ flight'[i] = flight[i]
        /\ \A i \in Id' : i \notin Id =>
             /\ i - Len(flight) \in 1..Len(rows)
             /\ flight'[i] = rows[i - Len(flight)]
    BY RowsAdded
  <2>2. Len(flight) \in Nat
    BY DEF TypeOK
  <2>3. QED
    BY <2>1, <2>2
<1>2. AllTimely'
  <2>1. ASSUME NEW i \in Id' PROVE Timely(flight'[i])
    BY <1>1 DEF AllTimely
  <2>2. QED
    BY <2>1 DEF AllTimely, Timely, BusinessDayStart, BusinessDay
<1>3. ASSUME NEW i \in Id', NEW j \in Id', i # j,
             flight'[i].number = flight'[j].number
      PROVE  flight'[i].date # flight'[j].date
  <2>1. CASE i \in Id /\ j \in Id
    BY <1>1, <1>3, <2>1 DEF Indexed
  <2>2. CASE i \in Id /\ j \notin Id
    BY <1>1, <1>3, <2>2, SMTT(30) DEF IndexAllowsFlight
  <2>3. CASE i \notin Id /\ j \in Id
    BY <1>1, <1>3, <2>3, SMTT(30) DEF IndexAllowsFlight
  <2>4. CASE i \notin Id /\ j \notin Id
    <3>1. i - Len(flight) # j - Len(flight)
      BY <1>1, <1>3
    <3> DEFINE k == i - Len(flight)  l == j - Len(flight)
    <3>2. /\ k \in 1..Len(rows) /\ flight'[i] = rows[k]
          /\ l \in 1..Len(rows) /\ flight'[j] = rows[l]
      BY <1>1, <2>4
    <3> HIDE DEF k, l
    <3>3. k # l
      BY <3>1 DEF k, l
    <3>4. QED
      BY <1>3, <3>2, <3>3
  <2>5. QED
    BY <2>1, <2>2, <2>3, <2>4
<1>4. QED
  BY <1>2, <1>3 DEF Indexed

\* The seeder's rows: it looks for its flights by local day, and no two of its
\* seeds have one number and one day.
LEMMA SeedsFit ==
  ASSUME TypeOK, AllTimely, Indexed, SeedFlights
  PROVE  AllTimely' /\ Indexed' /\ \A i \in Id : i \in Id' /\ flight'[i] = flight[i]
<1> DEFINE new == {s \in Seeds : s.model \in fleet
                               /\ \A i \in Id : ~IsSeed(flight[i], s)}
           batch == InSequence(new)
           rows == [i \in DOMAIN batch |-> Seeded(batch[i])]
           cabins == [i \in DOMAIN batch |-> {}]
<1>1. /\ Len(flight) + Cardinality(new) <= MaxFlights
      /\ AddFlights(rows, cabins)
  BY DEF SeedFlights
<1>2. /\ new \in SUBSET Seeds
      /\ \A s \in new : \A i \in Id : ~IsSeed(flight[i], s)
  OBVIOUS
<1>3. /\ Cardinality(new) \in Nat /\ batch \in [1..Cardinality(new) -> new]
      /\ \A i, j \in 1..Cardinality(new) : batch[i] = batch[j] => i = j
  <2> HIDE DEF new
  <2>1. QED
    BY <1>2, BatchIsOnce
<1> HIDE DEF batch, new
<1>4. now \in Nat /\ Day \in Nat \ {0} /\ ServerShift \in Nat
  BY CatalogAssumption DEF TypeOK
<1>5. ServerDayStart(now) \in Int
  BY <1>4 DEF ServerDayStart, ServerDay
<1>6. ASSUME NEW s \in Seeds PROVE Timely(Seeded(s))
  <2>1. s \in Seed
    BY CatalogAssumption
  <2>2. SeedDate(s) \in Int
    BY <1>4, <1>5, <2>1 DEF SeedDate, Seed
  <2>3. Seeded(s).departure < Seeded(s).arrive
    BY <1>4, <2>1, <2>2 DEF Seeded, Seed
  <2>4. /\ Seeded(s).date = SeedDate(s)
        /\ Seeded(s).departure = SeedDate(s) + s.departure
        /\ s.departure \in 0..(Day - 1)
    BY <2>1 DEF Seeded, Seed
  <2>5. QED
    BY <2>2, <2>3, <2>4, SameDay DEF Timely
<1>7. ASSUME NEW s \in new PROVE IndexAllowsFlight(Seeded(s))
  BY <1>2 DEF IndexAllowsFlight, Seeded, IsSeed
<1>8. ASSUME NEW s \in Seeds, NEW t \in Seeds, s # t,
             Seeded(s).number = Seeded(t).number
      PROVE  Seeded(s).date # Seeded(t).date
  <2>1. s.number = t.number /\ Seeded(s).date = SeedDate(s) /\ Seeded(t).date = SeedDate(t)
    BY <1>8 DEF Seeded
  <2>2. s.offset # t.offset /\ s.offset \in Int /\ t.offset \in Int
    BY <1>8, <2>1, CatalogAssumption DEF Seed
  <2>3. s.offset * Day # t.offset * Day
    BY <1>4, <2>2
  <2>4. s.offset * Day \in Int /\ t.offset * Day \in Int
    BY <1>4, <2>2
  <2>5. SeedDate(s) # SeedDate(t)
    <3> DEFINE a == s.offset * Day  b == t.offset * Day
    <3>1. /\ SeedDate(s) = ServerDayStart(now) + a
          /\ SeedDate(t) = ServerDayStart(now) + b
      BY DEF SeedDate
    <3>2. a \in Int /\ b \in Int /\ a # b
      BY <2>3, <2>4
    <3> HIDE DEF a, b
    <3>3. QED
      BY <1>5, <3>1, <3>2
  <2>6. QED
    BY <2>1, <2>5
<1>9. \A k \in 1..Cardinality(new) : batch[k] \in new /\ batch[k] \in Seeds
  BY <1>2, <1>3
<1>10. /\ rows \in Seq(Flight) /\ Len(rows) = Cardinality(new)
       /\ cabins \in Seq(SUBSET Seat) /\ Len(cabins) = Cardinality(new)
       /\ \A k \in 1..Len(rows) : rows[k] = Seeded(batch[k])
  <2>1. \A k \in 1..Cardinality(new) : Seeded(batch[k]) \in Flight
    BY <1>4, <1>9, SeedsAreFlights
  <2> HIDE DEF Seeded
  <2>2. QED
    BY <1>3, <2>1
<1> HIDE DEF rows, cabins
<1>11. \A k \in 1..Len(rows) : Timely(rows[k]) /\ IndexAllowsFlight(rows[k])
  BY <1>6, <1>7, <1>9, <1>10
<1>12. ASSUME NEW k \in 1..Len(rows), NEW l \in 1..Len(rows), k # l,
              rows[k].number = rows[l].number
       PROVE  rows[k].date # rows[l].date
  BY <1>3, <1>8, <1>9, <1>10, <1>12
<1>13. AllTimely' /\ Indexed'
  BY <1>1, <1>10, <1>11, <1>12, RowsFit
<1>14. \A i \in Id : i \in Id' /\ flight'[i] = flight[i]
  BY <1>1, <1>10, RowsAdded
<1>15. QED
  BY <1>13, <1>14

\* The status of a flight, by the times it is between.
LEMMA StatusByTime ==
  ASSUME NEW f \in Flight, f.departure < f.arrive, NEW t \in Int
  PROVE  /\ f.status = "CANCELED" => EffectiveStatus(f, t) = "CANCELED"
         /\ f.status # "CANCELED" =>
              /\ f.arrive <= t => EffectiveStatus(f, t) = "COMPLETED"
              /\ f.departure <= t /\ t < f.arrive => EffectiveStatus(f, t) = "FLYING"
              /\ t < f.departure =>
                   EffectiveStatus(f, t) = IF f.status = "DELAY" THEN "DELAY"
                                                                ELSE "SCHEDULED"
<1>1. /\ t >= f.arrive <=> f.arrive <= t
      /\ t >= f.departure <=> f.departure <= t
      /\ t < f.arrive <=> ~ (f.arrive <= t)
      /\ t < f.departure <=> ~ (f.departure <= t)
      /\ f.arrive <= t => f.departure <= t
  BY DEF Flight
<1>2. QED
  BY <1>1, Zenon DEF EffectiveStatus

LEMMA FilterByTime ==
  ASSUME NEW f \in Flight, f.departure < f.arrive, NEW t \in Int, NEW status \in Status
  PROVE  MatchesFilter(f, status, t) <=> EffectiveStatus(f, t) = status
<1>1. /\ f.departure > t <=> t < f.departure
      /\ f.arrive > t <=> t < f.arrive
      /\ t < f.arrive <=> ~ (f.arrive <= t)
      /\ t < f.departure <=> ~ (f.departure <= t)
      /\ f.arrive <= t => f.departure <= t
  BY DEF Flight
<1> DEFINE canceled == f.status = "CANCELED"  delay == f.status = "DELAY"
           landed == f.arrive <= t  gone == f.departure <= t
<1>2. /\ status = "CANCELED" => (MatchesFilter(f, status, t) <=> canceled)
      /\ status = "COMPLETED" => (MatchesFilter(f, status, t) <=> ~canceled /\ landed)
      /\ status = "FLYING" => (MatchesFilter(f, status, t) <=> ~canceled /\ gone /\ ~landed)
      /\ status = "DELAY" => (MatchesFilter(f, status, t) <=> delay /\ ~gone)
      /\ status = "SCHEDULED" => (MatchesFilter(f, status, t) <=> ~canceled /\ ~delay /\ ~gone)
  BY <1>1, Zenon DEF MatchesFilter
<1>3. /\ canceled => EffectiveStatus(f, t) = "CANCELED"
      /\ ~canceled /\ landed => EffectiveStatus(f, t) = "COMPLETED"
      /\ ~canceled /\ gone /\ ~landed => EffectiveStatus(f, t) = "FLYING"
      /\ delay /\ ~gone => EffectiveStatus(f, t) = "DELAY"
      /\ ~canceled /\ ~delay /\ ~gone => EffectiveStatus(f, t) = "SCHEDULED"
  BY <1>1, StatusByTime
<1>4. landed => gone
  BY <1>1
<1> HIDE DEF landed, gone
<1>5. QED
  BY <1>2, <1>3, <1>4 DEF Status

LEMMA OfferedStep ==
  ASSUME TypeOK, AllTimely, Offered, [Next]_vars,
         \A i \in Id : i \in Id' /\ flight'[i] = flight[i]
  PROVE  Offered'
<1>1. CASE FetchFlights
  <2>1. ASSUME NEW i \in Id, EffectiveStatus(flight[i], now) \in {"SCHEDULED", "DELAY"}
        PROVE  flight[i].status # "CANCELED"
    <3>1. flight[i] \in Flight /\ flight[i].departure < flight[i].arrive /\ now \in Int
      BY CatalogAssumption DEF TypeOK, Id, AllTimely, Timely
    <3>2. QED
      BY <2>1, <3>1, StatusByTime
  <2>2. \A i \in DOMAIN list' : i \in Id /\ list'[i] = EffectiveStatus(flight[i], now)
    BY <1>1 DEF FetchFlights
  <2>3. QED
    BY <1>1, <2>1, <2>2 DEF FetchFlights, table, Offered
<1>2. CASE UNCHANGED list
  <2>1. DOMAIN list \subseteq Id
    BY DEF TypeOK
  <2>2. QED
    BY <1>2, <2>1 DEF Offered
<1>3. ~ FetchFlights => UNCHANGED list
  BY DEF Next, vars, AskFlight, FindFlight, SaveFlight, AskSeat, SaveSeat,
         AskReconcile, CountSeats, ReadSeats, InsertSeats, ReconcileFails, Begin,
         Continue, SeedFleet, SeedFlights, SeedSeats, Crash, Tick, table
<1>4. QED
  BY <1>1, <1>2, <1>3

(***************************************************************************)
(* The invariant.  TypeOK and Left say what a request carries, Accepted    *)
(* what CreateFlight worked out before it saves; from these every flight   *)
(* is Timely and the table Indexed, whether a request or the seeder adds   *)
(* the row; and Offered ties the list on the page to the flights it shows. *)
(***************************************************************************)
IInv == Accepted /\ AllTimely /\ Indexed /\ Offered

LEMMA InvariantHolds == Spec => [](TypeOK /\ IInv)
<1>1. Init => IInv
  BY DEF Init, IInv, Accepted, AllTimely, Indexed, Offered, Id, Idle
<1>2. TypeOK /\ IInv /\ [Next]_vars => IInv'
  <2> SUFFICES ASSUME TypeOK, IInv, [Next]_vars PROVE IInv'
    OBVIOUS
  <2>1. Accepted'
    BY AcceptedStep DEF IInv
  <2>2. AllTimely' /\ Indexed' /\ \A i \in Id : i \in Id' /\ flight'[i] = flight[i]
    <3>1. CASE UNCHANGED flight
      BY <3>1 DEF IInv, AllTimely, Indexed, Id, Timely, BusinessDayStart, BusinessDay
    <3>2. CASE SeedFlights
      BY <3>2, SeedsFit DEF IInv
    <3>3. ASSUME NEW c \in Client,
                 request[c].step = "save", IndexAllowsFlight(request[c].flight),
                 AddFlights(<<request[c].flight>>,
                            <<Missing(request[c].flight.model, {})>>),
                 Len(flight) < MaxFlights
          PROVE  /\ AllTimely' /\ Indexed'
                 /\ \A i \in Id : i \in Id' /\ flight'[i] = flight[i]
      <4> DEFINE f == request[c].flight
                 rows == <<f>>
                 cabins == <<Missing(f.model, {})>>
      <4>1. f \in Flight /\ Missing(f.model, {}) \in SUBSET Seat
        BY <3>3, RequestShape, CabinsAreSeats DEF Missing
      <4>2. Timely(f) /\ IndexAllowsFlight(f)
        BY <3>3 DEF IInv, Accepted
      <4>3. AddFlights(rows, cabins)
        BY <3>3
      <4> HIDE DEF f
      <4>4. /\ rows \in Seq(Flight) /\ cabins \in Seq(SUBSET Seat)
            /\ Len(rows) = 1 /\ Len(cabins) = 1 /\ rows[1] = f
        BY <4>1
      <4>5. Len(flight) + Len(rows) <= MaxFlights
        BY <3>3, <4>4, CatalogAssumption DEF TypeOK
      <4>6. \A k \in 1..Len(rows) : k = 1
        BY <4>4
      <4> HIDE DEF rows, cabins
      <4>7. AllTimely' /\ Indexed'
        <5>1. \A k \in 1..Len(rows) : Timely(rows[k]) /\ IndexAllowsFlight(rows[k])
          BY <4>2, <4>4, <4>6
        <5>2. \A k, l \in 1..Len(rows) :
                k # l /\ rows[k].number = rows[l].number => rows[k].date # rows[l].date
          BY <4>6
        <5>3. QED
          BY <4>3, <4>4, <4>5, <5>1, <5>2, RowsFit DEF IInv
      <4>8. \A i \in Id : i \in Id' /\ flight'[i] = flight[i]
        BY <4>3, <4>4, <4>5, RowsAdded
      <4>9. QED
        BY <4>7, <4>8
    <3>4. QED
      BY <3>1, <3>2, <3>3, FlightsGrow
  <2>3. Offered'
    BY <2>2, OfferedStep DEF IInv
  <2>4. QED
    BY <2>1, <2>2, <2>3 DEF IInv
<1>3. QED
  BY <1>1, <1>2, TypesHold, PTL DEF Spec

-----------------------------------------------------------------------------
(* Theorems.                                                               *)

\* No two flights of one number whose dates start a business day are of the
\* same business day (create-flight.ts:103, :157 and the unique index).
THEOREM FlightsAreUnique == Spec => []OneFlightPerDay
<1>1. Indexed => OneFlightPerDay
  BY DEF Indexed, OneFlightPerDay, BusinessDayStart
<1>2. QED
  BY <1>1, InvariantHolds, PTL DEF IInv

\* The list, its filter, the page's button and the reservation agree on the
\* state of every flight at every time.
THEOREM ListingsAgree == Spec => []ListingAgrees
<1>1. TypeOK /\ IInv => ListingAgrees
  <2> SUFFICES ASSUME TypeOK, IInv PROVE ListingAgrees
    OBVIOUS
  <2>1. now \in Int
    BY CatalogAssumption DEF TypeOK
  <2>2. ASSUME NEW i \in Id
        PROVE  flight[i] \in Flight /\ Timely(flight[i])
    BY DEF TypeOK, Id, IInv, AllTimely
  <2>3. FilterIsExact
    BY <2>1, <2>2, FilterByTime DEF FilterIsExact, Timely
  <2>4. BookableIsListed
    <3> SUFFICES ASSUME NEW i \in Id, IsBookable(flight[i], now),
                        flight[i].date = BusinessDayStart(flight[i].date)
                 PROVE  ListedFor(flight[i], now)
      BY DEF BookableIsListed
    <3>1. flight[i].departure \in Int /\ now <= flight[i].departure
      BY <2>1, <2>2 DEF IsBookable, Flight
    <3>2. flight[i].date = BusinessDayStart(flight[i].departure)
      BY <2>2 DEF Timely
    <3>3. BusinessDayStart(now) <= BusinessDayStart(flight[i].departure)
      BY <2>1, <3>1, DaysAreOrdered
    <3>4. flight[i].date \in Int /\ BusinessDayStart(now) \in Int
      BY <2>1, <2>2, CatalogAssumption DEF Flight, BusinessDayStart, BusinessDay
    <3>5. QED
      BY <3>2, <3>3, <3>4 DEF ListedFor
  <2>5. OfferIsBookable
    <3> SUFFICES ASSUME NEW i \in DOMAIN list, OffersBooking(flight[i], list[i], now)
                 PROVE  IsBookable(flight[i], now)
      BY DEF OfferIsBookable
    <3>1. i \in Id /\ flight[i].status # "CANCELED"
      BY DEF TypeOK, IInv, Offered, OffersBooking
    <3>2. now < flight[i].departure /\ flight[i].departure > now
      BY <2>1, <2>2, <3>1 DEF OffersBooking, Flight
    <3>3. EffectiveStatus(flight[i], now) \in {"SCHEDULED", "DELAY"}
      BY <2>1, <2>2, <3>1, <3>2, StatusByTime DEF Timely
    <3>4. QED
      BY <3>2, <3>3 DEF IsBookable
  <2>6. QED
    BY <2>3, <2>4, <2>5 DEF ListingAgrees
<1>2. QED
  BY <1>1, InvariantHolds, PTL

-----------------------------------------------------------------------------
(* Reconciliation.                                                         *)

\* What a reconciliation is about to insert is all that the cabin it works on
\* still lacks.
Reading ==
  \A c \in Client : request[c].step = "insert" =>
    SeatTemplates(flight[Current(c)].model) \ request[c].missing
      \subseteq seats[Current(c)]

\* A flight reported as fixed or complete has its cabin.
Reported ==
  \A i \in Id : report[i] \in {"FIXED", "SKIPPED"} =>
    SeatTemplates(flight[i].model) \subseteq seats[i]

\* No step takes a seat from a flight, or changes the flight.
LEMMA SeatsGrow ==
  ASSUME TypeOK, Left, [Next]_vars
  PROVE  \A i \in Id : i \in Id' /\ flight'[i] = flight[i] /\ seats[i] \subseteq seats'[i]
<1>1. Id = 1..Len(flight) /\ DOMAIN seats = Id
  BY DEF TypeOK, Id
<1>2. CASE \E c \in Client : SaveFlight(c)
  <2>1. PICK c \in Client : SaveFlight(c)
    BY <1>2
  <2> DEFINE f == request[c].flight
             rows == <<f>>
             cabins == <<Missing(f.model, {})>>
  <2>2. CASE IndexAllowsFlight(f)
    <3>1. /\ f \in Flight /\ Missing(f.model, {}) \in SUBSET Seat
          /\ Len(flight) < MaxFlights /\ AddFlights(rows, cabins)
      BY <2>1, <2>2, RequestShape, CabinsAreSeats DEF SaveFlight, Continue, Missing
    <3> HIDE DEF f
    <3>2. /\ rows \in Seq(Flight) /\ cabins \in Seq(SUBSET Seat)
          /\ Len(rows) = 1 /\ Len(cabins) = 1
      BY <3>1
    <3>3. Len(flight) + Len(rows) <= MaxFlights
      BY <3>1, <3>2, CatalogAssumption DEF TypeOK
    <3> HIDE DEF rows, cabins
    <3>4. QED
      BY <3>1, <3>2, <3>3, RowsAdded
  <2>3. CASE ~ IndexAllowsFlight(f)
    BY <2>1, <2>3 DEF SaveFlight, Id
  <2>4. QED
    BY <2>2, <2>3
<1>3. CASE SeedFlights
  BY <1>3, SeedRows, RowsAdded
<1>4. CASE SeedSeats
  BY <1>1, <1>4 DEF SeedSeats, Id
<1>5. CASE \E c \in Client : SaveSeat(c) \/ InsertSeats(c)
  BY <1>1, <1>5 DEF SaveSeat, InsertSeats, Id
<1>6. CASE UNCHANGED <<flight, seats>>
  BY <1>6 DEF Id
<1>7. QED
  BY <1>2, <1>3, <1>4, <1>5, <1>6
  DEF Next, vars, table, AskFlight, FindFlight, AskSeat, AskReconcile, CountSeats,
      ReadSeats, ReconcileFails, Begin, SeedFleet, FetchFlights, Tick, Crash

\* The result of a flight changes at the end of its turn, and is "none" before.
LEMMA ResultsChange ==
  ASSUME TypeOK, Left, [Next]_vars, NEW i \in Id',
         report'[i] \in {"FIXED", "SKIPPED"}
  PROVE  \/ i \in Id /\ report'[i] = report[i]
         \/ \E c \in Client : InsertSeats(c) /\ i = Current(c)
         \/ \E c \in Client : /\ ReadSeats(c) /\ i = Current(c)
                              /\ Missing(flight[i].model, seats[i]) = {}
<1>1. Id = 1..Len(flight) /\ DOMAIN report = Id
  BY DEF TypeOK, Id
<1>2. ASSUME NEW c \in Client, NEW result, Report(c, result), UNCHANGED flight
      PROVE  /\ i \in Id
             /\ i # Current(c) => report'[i] = report[i]
             /\ i = Current(c) => report'[i] = result
  BY <1>1, <1>2 DEF Report, Id
<1>3. CASE \E c \in Client : SaveFlight(c)
  <2>1. PICK c \in Client : SaveFlight(c)
    BY <1>3
  <2> DEFINE f == request[c].flight
             rows == <<f>>
             cabins == <<Missing(f.model, {})>>
  <2>2. CASE IndexAllowsFlight(f)
    <3>1. /\ f \in Flight /\ Missing(f.model, {}) \in SUBSET Seat
          /\ Len(flight) < MaxFlights /\ AddFlights(rows, cabins)
      BY <2>1, <2>2, RequestShape, CabinsAreSeats DEF SaveFlight, Continue, Missing
    <3> HIDE DEF f
    <3>2. /\ rows \in Seq(Flight) /\ cabins \in Seq(SUBSET Seat)
          /\ Len(rows) = 1 /\ Len(cabins) = 1
      BY <3>1
    <3>3. Len(flight) + Len(rows) <= MaxFlights
      BY <3>1, <3>2, CatalogAssumption DEF TypeOK
    <3> HIDE DEF rows, cabins
    <3>4. QED
      BY <3>1, <3>2, <3>3, RowsAdded
  <2>3. CASE ~ IndexAllowsFlight(f)
    BY <2>1, <2>3 DEF SaveFlight, Id
  <2>4. QED
    BY <2>2, <2>3
<1>4. CASE SeedFlights
  BY <1>4, SeedRows, RowsAdded
<1>5. CASE \E c \in Client : ReconcileFails(c)
  BY <1>2, <1>5 DEF ReconcileFails
<1>6. CASE \E c \in Client : InsertSeats(c)
  BY <1>2, <1>6 DEF InsertSeats
<1>7. CASE \E c \in Client : ReadSeats(c)
  <2>1. PICK c \in Client : ReadSeats(c)
    BY <1>7
  <2>2. CASE Missing(flight[Current(c)].model, seats[Current(c)]) = {}
    <3>1. Report(c, Result(c, 0)) /\ UNCHANGED flight
      BY <2>1, <2>2 DEF ReadSeats
    <3>2. QED
      BY <1>2, <2>1, <2>2, <3>1
  <2>3. CASE Missing(flight[Current(c)].model, seats[Current(c)]) # {}
    BY <2>1, <2>3 DEF ReadSeats, Id
  <2>4. QED
    BY <2>2, <2>3
<1>8. CASE UNCHANGED <<flight, report>>
  BY <1>8 DEF Id
<1>9. QED
  BY <1>3, <1>4, <1>5, <1>6, <1>7, <1>8
  DEF Next, vars, table, AskFlight, FindFlight, AskSeat, SaveSeat, AskReconcile,
      CountSeats, Begin, Continue, SeedFleet, SeedSeats, FetchFlights, Tick, Crash

\* What a reconciliation inserts it has just worked out from what it read.
LEMMA InsertIsRead ==
  ASSUME TypeOK, [Next]_vars, NEW c \in Client, request'[c].step = "insert"
  PROVE  \/ request'[c] = request[c]
         \/ /\ request[c].step = "read"
            /\ request'[c].left = request[c].left
            /\ request'[c].missing
                 = Missing(flight[Current(c)].model, seats[Current(c)])
<1>1. CASE UNCHANGED request
  BY <1>1
<1>2. CASE Crash
  BY <1>2 DEF Crash, Idle
<1>3. ASSUME NEW d \in Client, NEW x, request' = [request EXCEPT ![d] = x]
      PROVE  d # c \/ request'[c] = x
  BY <1>3 DEF TypeOK
<1>4. ASSUME NEW d \in Client, NEW x, request' = [request EXCEPT ![d] = x],
             x.step # "insert"
      PROVE  request'[c] = request[c]
  BY <1>4 DEF TypeOK
<1>5. ASSUME NEW d \in Client, Answer(d) PROVE request'[c] = request[c]
  BY <1>4, <1>5 DEF Answer, Idle
<1>6. ASSUME NEW d \in Client, NEW result, Report(d, result)
      PROVE  request'[c] = request[c]
  BY <1>4, <1>6 DEF Report, Idle
<1>7. CASE \E d \in Client : \/ AskFlight(d) \/ AskSeat(d) \/ AskReconcile(d)
                            \/ SaveFlight(d) \/ SaveSeat(d) \/ InsertSeats(d)
                            \/ ReconcileFails(d)
  <2>1. PICK d \in Client : \/ AskFlight(d) \/ AskSeat(d) \/ AskReconcile(d)
                            \/ SaveFlight(d) \/ SaveSeat(d) \/ InsertSeats(d)
                            \/ ReconcileFails(d)
    BY <1>7
  <2>2. CASE AskFlight(d)
    BY <1>4, <2>2 DEF AskFlight
  <2>3. CASE AskSeat(d)
    BY <1>4, <2>3 DEF AskSeat
  <2>4. CASE AskReconcile(d)
    BY <1>4, <2>4 DEF AskReconcile
  <2>5. CASE SaveFlight(d) \/ SaveSeat(d)
    BY <1>5, <2>5 DEF SaveFlight, SaveSeat
  <2>6. CASE InsertSeats(d)
    BY <1>6, <2>6 DEF InsertSeats
  <2>7. CASE ReconcileFails(d)
    BY <1>6, <2>7 DEF ReconcileFails
  <2>8. QED
    BY <2>1, <2>2, <2>3, <2>4, <2>5, <2>6, <2>7
<1>8. CASE \E d \in Client : FindFlight(d)
  <2>1. PICK d \in Client : FindFlight(d)
    BY <1>8
  <2>2. request[d] = [step |-> request[d].step, flight |-> request[d].flight]
    BY <2>1, RequestShape DEF FindFlight, Continue
  <2>3. PICK x : /\ request' = [request EXCEPT ![d] = x]
                 /\ x = Idle \/ x = [request[d] EXCEPT !.step = "save"]
    BY <2>1 DEF FindFlight
  <2>4. x.step # "insert"
    BY <2>2, <2>3 DEF Idle
  <2>5. QED
    BY <1>4, <2>3, <2>4
<1>9. CASE \E d \in Client : CountSeats(d)
  BY <1>4, <1>9 DEF CountSeats, TypeOK
<1>10. CASE \E d \in Client : ReadSeats(d)
  <2>1. PICK d \in Client : ReadSeats(d)
    BY <1>10
  <2> DEFINE missing == Missing(flight[Current(d)].model, seats[Current(d)])
             x == [step |-> "insert", left |-> request[d].left,
                   before |-> request[d].before, missing |-> missing]
  <2>2. CASE missing = {}
    BY <1>6, <2>1, <2>2 DEF ReadSeats
  <2>3. CASE missing # {}
    <3>1. request[d].step = "read" /\ request' = [request EXCEPT ![d] = x]
      BY <2>1, <2>3 DEF ReadSeats, Continue, TypeOK
    <3>2. x.left = request[d].left /\ x.missing = missing
      OBVIOUS
    <3> HIDE DEF x, missing
    <3>3. CASE d = c
      <4>1. request'[c] = x
        BY <3>1, <3>3 DEF TypeOK
      <4>2. QED
        BY <3>1, <3>2, <3>3, <4>1 DEF missing
    <3>4. CASE d # c
      BY <3>1, <3>4 DEF TypeOK
    <3>5. QED
      BY <3>3, <3>4
  <2>4. QED
    BY <2>2, <2>3
<1>11. QED
  BY <1>1, <1>2, <1>7, <1>8, <1>9, <1>10
  DEF Next, vars, SeedFleet, SeedFlights, SeedSeats, FetchFlights, Tick

LEMMA ReportsHold == Spec => [](Reading /\ Reported)
<1>1. Init => Reading /\ Reported
  BY DEF Init, Reading, Reported, Id, Idle
<1>2. TypeOK /\ Left /\ Reading /\ Reported /\ [Next]_vars => Reading' /\ Reported'
  <2> SUFFICES ASSUME TypeOK, Left, Reading, Reported, [Next]_vars
               PROVE  Reading' /\ Reported'
    OBVIOUS
  <2>1. ASSUME NEW c \in Client, request'[c].step = "insert"
        PROVE  SeatTemplates(flight'[Current(c)'].model) \ request'[c].missing
                 \subseteq seats'[Current(c)']
    <3>1. /\ request[c].step \in {"read", "insert"}
          /\ request'[c].left = request[c].left
      BY <2>1, InsertIsRead
    <3>2. Current(c)' = Current(c)
      BY <3>1 DEF Current
    <3>3. Current(c) \in Id
      BY <3>1, CurrentIsLeft
    <3>4. SeatTemplates(flight[Current(c)].model) \ request'[c].missing
            \subseteq seats[Current(c)]
      BY <2>1, InsertIsRead DEF Reading, Missing
    <3>5. /\ flight'[Current(c)] = flight[Current(c)]
          /\ seats[Current(c)] \subseteq seats'[Current(c)]
      BY <3>3, SeatsGrow
    <3>6. QED
      BY <3>2, <3>4, <3>5
  <2>2. ASSUME NEW i \in Id', report'[i] \in {"FIXED", "SKIPPED"}
        PROVE  SeatTemplates(flight'[i].model) \subseteq seats'[i]
    <3>1. CASE i \in Id /\ report'[i] = report[i]
      BY <2>2, <3>1, SeatsGrow DEF Reported
    <3>2. ASSUME NEW c \in Client, InsertSeats(c), i = Current(c)
          PROVE  SeatTemplates(flight'[i].model) \subseteq seats'[i]
      <4>1. request[c].step = "insert" /\ i \in Id
        BY <3>2, CurrentIsLeft DEF InsertSeats, Continue
      <4>2. i \in DOMAIN seats
        BY <4>1 DEF TypeOK, Id
      <4>3. flight' = flight /\ seats'[i] = seats[i] \union request[c].missing
        BY <3>2, <4>2 DEF InsertSeats
      <4>4. SeatTemplates(flight[i].model) \ request[c].missing \subseteq seats[i]
        BY <3>2, <4>1 DEF Reading
      <4>5. QED
        BY <4>3, <4>4
    <3>3. ASSUME NEW c \in Client, ReadSeats(c), i = Current(c),
                 Missing(flight[i].model, seats[i]) = {}
          PROVE  SeatTemplates(flight'[i].model) \subseteq seats'[i]
      BY <3>3 DEF ReadSeats, Continue, Missing
    <3>4. QED
      BY <2>2, <3>1, <3>2, <3>3, ResultsChange
  <2>3. QED
    BY <2>1, <2>2 DEF Reading, Reported
<1>3. QED
  BY <1>1, <1>2, TypesHold, PTL DEF Spec

\* The letters of the sections, counted.
LEMMA Letters ==
  /\ IsFiniteSet(Narrow) /\ Cardinality(Narrow) = 4
  /\ IsFiniteSet(Six) /\ Cardinality(Six) = 6
  /\ IsFiniteSet(Wide) /\ Cardinality(Wide) = 8
  /\ IsFiniteSet({"A", "C", "D", "F"}) /\ Cardinality({"A", "C", "D", "F"}) = 4
<1>1. ASSUME NEW a, NEW b, NEW c, NEW d,
             a # b, a # c, a # d, b # c, b # d, c # d
      PROVE  IsFiniteSet({a, b, c, d}) /\ Cardinality({a, b, c, d}) = 4
  <2>1. IsFiniteSet({a}) /\ Cardinality({a}) = 1
    BY FS_Singleton
  <2>2. IsFiniteSet({a} \union {b}) /\ Cardinality({a} \union {b}) = 2
    BY <1>1, <2>1, FS_AddElement
  <2> DEFINE two == {a} \union {b}
  <2>3. c \notin two /\ d \notin two \union {c}
    BY <1>1
  <2> HIDE DEF two
  <2>4. IsFiniteSet(two \union {c}) /\ Cardinality(two \union {c}) = 3
    BY <2>2, <2>3, FS_AddElement DEF two
  <2>5. /\ IsFiniteSet((two \union {c}) \union {d})
        /\ Cardinality((two \union {c}) \union {d}) = 4
    BY <2>3, <2>4, FS_AddElement
  <2>6. {a, b, c, d} = (two \union {c}) \union {d}
    BY DEF two
  <2>7. QED
    BY <2>5, <2>6
<1>2. ASSUME NEW S, IsFiniteSet(S), NEW n \in Nat, Cardinality(S) = n,
             NEW x, NEW y, x # y, x \notin S, y \notin S
      PROVE  IsFiniteSet(S \union {x, y}) /\ Cardinality(S \union {x, y}) = n + 2
  <2>1. IsFiniteSet(S \union {x}) /\ Cardinality(S \union {x}) = n + 1
    BY <1>2, FS_AddElement
  <2> DEFINE T == S \union {x}
  <2>2. y \notin T
    BY <1>2
  <2> HIDE DEF T
  <2>3. IsFiniteSet(T \union {y}) /\ Cardinality(T \union {y}) = n + 2
    BY <2>1, <2>2, FS_AddElement DEF T
  <2>4. S \union {x, y} = T \union {y}
    BY DEF T
  <2>5. QED
    BY <2>3, <2>4
<1>3. IsFiniteSet(Narrow) /\ Cardinality(Narrow) = 4
  BY <1>1 DEF Narrow
<1>4. "E" \notin Narrow /\ "F" \notin Narrow
  BY DEF Narrow
<1>5. IsFiniteSet(Six) /\ Cardinality(Six) = 6
  BY <1>2, <1>3, <1>4 DEF Six
<1>6. "G" \notin Six /\ "H" \notin Six
  BY DEF Six, Narrow
<1>7. IsFiniteSet(Wide) /\ Cardinality(Wide) = 8
  BY <1>2, <1>5, <1>6 DEF Wide
<1>8. IsFiniteSet({"A", "C", "D", "F"}) /\ Cardinality({"A", "C", "D", "F"}) = 4
  BY <1>1
<1>9. QED
  BY <1>3, <1>5, <1>7, <1>8

\* The seats of two sections, one before the other.
LEMMA SectionsCount ==
  ASSUME NEW S, IsFiniteSet(S), NEW T, IsFiniteSet(T),
         NEW m \in Nat, NEW n \in Nat, Cardinality(S) = m, Cardinality(T) = n,
         S \intersect T = {}
  PROVE  Cardinality(S \union T) = m + n
<1>1. Cardinality(S \intersect T) = 0
  BY FS_EmptySet
<1>2. QED
  BY <1>1, FS_Union

\* The page's copy of the cabins and the flight service's count the same seats.
LEMMA PageCounts ==
  ASSUME NEW model
  PROVE  /\ IsFiniteSet(SeatTemplates(model))
         /\ Cardinality(SeatTemplates(model)) = ExpectedSeatCount(model)
<1>1. ASSUME NEW a \in 1..9, NEW b \in 1..9, NEW c \in 1..9, NEW d \in 1..9,
             a <= b, b < c, c <= d,
             NEW S, NEW T, IsFiniteSet(S), IsFiniteSet(T),
             NEW m \in Nat, NEW n \in Nat, Cardinality(S) = m, Cardinality(T) = n,
             CabinLayout(model) = {Section(a, b, S), Section(c, d, T)}
      PROVE  /\ IsFiniteSet(SeatTemplates(model))
             /\ Cardinality(SeatTemplates(model)) = (b - a + 1) * m + (d - c + 1) * n
  <2> DEFINE front == (a..b) \X S  back == (c..d) \X T
             k == (b - a + 1) * m  l == (d - c + 1) * n
  <2>1. SeatTemplates(model) = front \union back
    BY <1>1 DEF SeatTemplates, Section
  <2>2. /\ IsFiniteSet(front) /\ Cardinality(front) = k /\ k \in Nat
        /\ IsFiniteSet(back) /\ Cardinality(back) = l /\ l \in Nat
    <3>1. b - a + 1 \in Nat /\ d - c + 1 \in Nat
      BY <1>1
    <3>2. k \in Nat /\ l \in Nat
      BY <1>1, <3>1
    <3>3. IsFiniteSet(front) /\ Cardinality(front) = k
      <4> HIDE DEF front, k
      <4>1. /\ IsFiniteSet((a..b) \X S)
            /\ Cardinality((a..b) \X S) = (b - a + 1) * m
        <5>1. IsFiniteSet(a..b) /\ Cardinality(a..b) = b - a + 1
          BY <1>1, FS_Interval
        <5>2. QED
          BY <1>1, <5>1, FS_Product
      <4>2. QED
        BY <4>1 DEF front, k
    <3>4. IsFiniteSet(back) /\ Cardinality(back) = l
      <4> HIDE DEF back, l
      <4>1. /\ IsFiniteSet((c..d) \X T)
            /\ Cardinality((c..d) \X T) = (d - c + 1) * n
        <5>1. IsFiniteSet(c..d) /\ Cardinality(c..d) = d - c + 1
          BY <1>1, FS_Interval
        <5>2. QED
          BY <1>1, <5>1, FS_Product
      <4>2. QED
        BY <4>1 DEF back, l
    <3>5. QED
      BY <3>2, <3>3, <3>4
  <2>3. front \intersect back = {}
    <3>1. (a..b) \intersect (c..d) = {}
      BY <1>1
    <3>2. QED
      BY <3>1
  <2> HIDE DEF front, back, k, l
  <2>4. IsFiniteSet(front \union back) /\ Cardinality(front \union back) = k + l
    <3>1. IsFiniteSet(front \union back)
      BY <2>2, FS_Union
    <3>2. Cardinality(front \union back) = k + l
      BY <2>2, <2>3, SectionsCount
    <3>3. QED
      BY <3>1, <3>2
  <2>5. QED
    BY <2>1, <2>4 DEF k, l
<1>2. ASSUME NEW b \in 1..9, NEW S, IsFiniteSet(S), NEW m \in Nat, Cardinality(S) = m,
             CabinLayout(model) = {Section(1, b, S)}
      PROVE  /\ IsFiniteSet(SeatTemplates(model))
             /\ Cardinality(SeatTemplates(model)) = b * m
  <2>1. SeatTemplates(model) = (1..b) \X S
    BY <1>2 DEF SeatTemplates, Section
  <2>2. IsFiniteSet(1..b) /\ Cardinality(1..b) = b
    <3>1. 1 \in Int /\ b \in Int /\ b > 0
      OBVIOUS
    <3>2. Cardinality(1..b) = IF 1 > b THEN 0 ELSE b - 1 + 1
      BY <3>1, FS_Interval
    <3>3. IsFiniteSet(1..b)
      BY <3>1, FS_Interval
    <3>4. QED
      BY <3>1, <3>2, <3>3
  <2>3. IsFiniteSet((1..b) \X S) /\ Cardinality((1..b) \X S) = b * m
    BY <1>2, <2>2, FS_Product
  <2>4. QED
    BY <2>1, <2>3
<1>3. CASE model \in {"A320", "A321", "A20N"}
  <2>1. CabinLayout(model) = {Section(1, 2, Narrow), Section(3, 6, Six)}
    BY <1>3 DEF CabinLayout
  <2>2. ExpectedSeatCount(model) = 32
    BY <1>3 DEF ExpectedSeatCount, PageLayout
  <2>3. /\ IsFiniteSet(SeatTemplates(model))
        /\ Cardinality(SeatTemplates(model)) = (2 - 1 + 1) * 4 + (6 - 3 + 1) * 6
    BY <1>1, <2>1, Letters
  <2>4. QED
    BY <2>2, <2>3
<1>4. CASE model = "B787"
  <2>1. CabinLayout(model) = {Section(1, 3, {"A", "C", "D", "F"}), Section(4, 6, Wide)}
    BY <1>4 DEF CabinLayout
  <2>2. ExpectedSeatCount(model) = 36
    BY <1>4 DEF ExpectedSeatCount, PageLayout
  <2>3. /\ IsFiniteSet(SeatTemplates(model))
        /\ Cardinality(SeatTemplates(model)) = (3 - 1 + 1) * 4 + (6 - 4 + 1) * 8
    <3> DEFINE business == {"A", "C", "D", "F"}
    <3>1. IsFiniteSet(business) /\ Cardinality(business) = 4
      BY Letters
    <3>2. CabinLayout(model) = {Section(1, 3, business), Section(4, 6, Wide)}
      BY <2>1
    <3> HIDE DEF business
    <3>3. QED
      BY <1>1, <3>1, <3>2, Letters
  <2>4. QED
    BY <2>2, <2>3
<1>5. CASE model = "A333"
  <2>1. CabinLayout(model) = {Section(1, 2, Six), Section(3, 5, Wide)}
    BY <1>5 DEF CabinLayout
  <2>2. ExpectedSeatCount(model) = 36
    BY <1>5 DEF ExpectedSeatCount, PageLayout
  <2>3. /\ IsFiniteSet(SeatTemplates(model))
        /\ Cardinality(SeatTemplates(model)) = (2 - 1 + 1) * 6 + (5 - 3 + 1) * 8
    BY <1>1, <2>1, Letters
  <2>4. QED
    BY <2>2, <2>3
<1>6. CASE model = "AT72"
  <2>1. CabinLayout(model) = {Section(1, 7, Narrow)}
    BY <1>6 DEF CabinLayout
  <2>2. ExpectedSeatCount(model) = 28
    BY <1>6 DEF ExpectedSeatCount, PageLayout
  <2>3. /\ IsFiniteSet(SeatTemplates(model))
        /\ Cardinality(SeatTemplates(model)) = 7 * 4
    BY <1>2, <2>1, Letters
  <2>4. QED
    BY <2>2, <2>3
<1>7. CASE model \notin {"A320", "A321", "A20N", "B787", "A333", "AT72"}
  <2>1. CabinLayout(model) = {Section(1, 6, Six)}
    BY <1>7 DEF CabinLayout
  <2>2. ExpectedSeatCount(model) = 36
    BY <1>7 DEF ExpectedSeatCount, PageLayout
  <2>3. /\ IsFiniteSet(SeatTemplates(model))
        /\ Cardinality(SeatTemplates(model)) = 6 * 6
    BY <1>2, <2>1, Letters
  <2>4. QED
    BY <2>2, <2>3
<1>8. QED
  BY <1>3, <1>4, <1>5, <1>6, <1>7

\* A flight reported as fixed or complete has every seat of its cabin, and the
\* seat page shows none missing (reconcile-missing.ts:98-118).
THEOREM ReportsAreTrue == Spec => []ReconcileReportsTruth
<1>1. TypeOK /\ Reported => ReconcileReportsTruth
  <2> SUFFICES ASSUME TypeOK, Reported, NEW i \in Id, report[i] \in {"FIXED", "SKIPPED"}
               PROVE  /\ SeatTemplates(flight[i].model) \subseteq seats[i]
                      /\ ExpectedSeatCount(flight[i].model) <= Cardinality(seats[i])
    BY DEF ReconcileReportsTruth
  <2> DEFINE cabin == SeatTemplates(flight[i].model)
  <2>1. cabin \subseteq seats[i]
    BY DEF Reported
  <2>2. IsFiniteSet(seats[i])
    <3>1. seats[i] \in SUBSET Seat
      BY DEF TypeOK, Id
    <3>2. QED
      BY <3>1, SeatsAreFinite, FS_Subset
  <2>3. Cardinality(cabin) = ExpectedSeatCount(flight[i].model)
    BY PageCounts
  <2> HIDE DEF cabin
  <2>4. Cardinality(cabin) <= Cardinality(seats[i])
    BY <2>1, <2>2, FS_Subset
  <2>5. QED
    BY <2>1, <2>3, <2>4 DEF cabin
<1>2. QED
  BY <1>1, TypesHold, ReportsHold, PTL

=============================================================================
