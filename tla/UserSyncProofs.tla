--------------------------- MODULE UserSyncProofs ---------------------------
(***************************************************************************)
(* Theorems about UserSync: its types, what can turn the passenger's clock *)
(* back, and the agreement of the two services once nothing is under way,  *)
(* for any payloads, requests, times, events and dead letters.             *)
(***************************************************************************)
EXTENDS UserSync, FiniteSetTheorems, TLAPS

RequestRow == [at : {"idle", "reloaded"},
               new : Row \union {NoRow}, was : Row \union {NoRow}]
HandlerRow == [at : {"idle", "read", "reloaded"}, event : 0..MaxEvents,
               read : Row \union {NoRow}, was : Row \union {NoRow}]

\* The outbox numbers its events, and nothing begins that it has no room for.
Ledger ==
  /\ IsFiniteSet(sent)
  /\ Cardinality(sent) + Begun <= MaxEvents
  /\ \A e \in sent : e.id <= Cardinality(sent)
  /\ \A e, f \in sent : e.id = f.id => e = f

\* Nothing happens before the account is created.
Unborn ==
  sent = {} => /\ user = NoRow /\ repair = NoRow /\ passenger = NoRow
               /\ request = [r \in Request |-> IdleRequest]

\* A request at work has its new entity.
Requests ==
  \A r \in Request : request[r].at = "reloaded" => request[r].new # NoRow

\* A handler at work has an event of the outbox; one that goes on to save has
\* found a passenger that is no newer.
Handlers ==
  \A q \in Queue :
    /\ handler[q].at = "idle" => handler[q] = IdleHandler
    /\ handler[q].at # "idle" =>
         /\ \E e \in sent : e.id = handler[q].event
         /\ handler[q].read # NoRow => passenger # NoRow
    /\ handler[q].at = "reloaded" =>
         handler[q].read # NoRow /\ ~Stale(handler[q].read, EventOf(q))

\* Every time in a row was published.
Published(row) == \E e \in sent : e.row.time = row.time
Times ==
  \A row \in {user, repair, passenger} : row # NoRow => Published(row)

\* While times tell the order, the user's row is the newest that was published,
\* and what the repair tool holds is that row or an older one.
UserIsNewest ==
  user # NoRow /\ ~misordered =>
    /\ \A e \in sent : e.row.time < user.time \/ e.row = user
    /\ repair # NoRow => repair.time < user.time \/ repair = user

\* The user's row waits for a handler, is in the hands of the only one at
\* work, or has arrived and can be overwritten only by itself.
Waits == \E e \in Pending :
           e.row = user /\ \A q \in Queue : handler[q].event # e.id
IsHandled ==
  \E q \in Queue :
    /\ handler[q].at # "idle" /\ Others(q) = {}
    /\ EventOf(q).row = user /\ handler[q].read = passenger
    /\ handler[q].at = "reloaded" => handler[q].was = passenger
HasArrived ==
  /\ passenger = user
  /\ \A q \in Queue : handler[q].at # "idle" =>
       /\ handler[q].read = user
       /\ handler[q].at = "reloaded" => handler[q].was = user
OnItsWay ==
  user # NoRow /\ ~misordered /\ ~disturbed => Waits \/ IsHandled \/ HasArrived

Shape == TypeOK /\ Ledger /\ Unborn /\ Requests /\ Handlers
Agreement == Times /\ UserIsNewest /\ OnItsWay
Inv == Shape /\ Agreement

-----------------------------------------------------------------------------
(* Rows, events and room.                                                  *)

LEMMA Shapes ==
  /\ IdleRequest \in RequestRow /\ IdleHandler \in HandlerRow
  /\ TypeOK <=> /\ {user, passenger, repair} \subseteq Row \union {NoRow}
                /\ request \in [Request -> RequestRow]
                /\ sent \subseteq Event
                /\ processed \union dead \subseteq {e.id : e \in sent}
                /\ handler \in [Queue -> HandlerRow]
                /\ {misordered, disturbed} \subseteq BOOLEAN
  BY UserSyncAssumption
  DEF IdleRequest, IdleHandler, RequestRow, HandlerRow, TypeOK

\* A row is never mistaken for its absence.
LEMMA RowsAreRows ==
  /\ NoRow \notin Row
  /\ \A row \in Row : row.data \in Data /\ row.time \in 1..MaxTime
  /\ \A d \in Data, t \in 1..MaxTime : [data |-> d, time |-> t] \in Row
<1>1. 1..MaxTime \subseteq Nat
  OBVIOUS
<1>2. \A row \in Row : row \in [data : Data, time : Nat]
  BY <1>1 DEF Row
<1>3. QED
  BY <1>2, UserSyncAssumption DEF Row

\* A save over the row that was read writes the new row; over another one it
\* mixes the two.
LEMMA SavedIs ==
  ASSUME NEW new \in Row, NEW was, NEW current \in Row
  PROVE  /\ Saved(new, was, current) \in Row
         /\ Saved(new, was, current).time \in {new.time, current.time}
         /\ was = current => Saved(new, was, current) = new
  BY DEF Saved, Row

LEMMA EmitIs ==
  ASSUME TypeOK, Ledger, NEW q \in Queue, NEW row \in Row, Emit(q, row),
         Cardinality(sent) < MaxEvents
  PROVE  /\ \E e \in Event :
              /\ e.id = Cardinality(sent) + 1 /\ e.row = row
              /\ e \notin sent /\ sent' = sent \union {e}
         /\ IsFiniteSet(sent') /\ Cardinality(sent') = Cardinality(sent) + 1
         /\ \A e \in sent' : e.id <= Cardinality(sent')
         /\ \A e, f \in sent' : e.id = f.id => e = f
<1> DEFINE n == Cardinality(sent)
           new == [id |-> n + 1, queue |-> q, row |-> row]
<1>1. n \in Nat /\ MaxEvents \in Nat
  BY FS_CardinalityType, UserSyncAssumption DEF Ledger
<1>2. new \in Event /\ new.id = n + 1 /\ new.row = row
  BY <1>1 DEF Event
<1>3. sent' = sent \union {new}
  BY DEF Emit
<1>4. \A e \in sent : e.id \in Nat /\ e.id <= n
  BY DEF TypeOK, Event, Ledger
<1>5. new \notin sent
  BY <1>1, <1>2, <1>4
<1>6. IsFiniteSet(sent') /\ Cardinality(sent') = n + 1
  BY <1>3, <1>5, FS_AddElement DEF Ledger
<1> HIDE DEF new
<1>7. \A e \in sent' : e.id <= n + 1
  BY <1>1, <1>2, <1>3, <1>4
<1>8. \A e, f \in sent' : e.id = f.id => e = f
  BY <1>1, <1>2, <1>3, <1>4 DEF Ledger
<1>9. QED
  BY <1>2, <1>3, <1>5, <1>6, <1>7, <1>8

LEMMA BegunIs ==
  ASSUME request \in [Request -> RequestRow]
  PROVE  /\ IsFiniteSet({r \in Request : request[r] # IdleRequest})
         /\ Begun \in Nat
         /\ repair # NoRow => Begun >= 1
         /\ \E n \in Nat : /\ n = Cardinality({r \in Request : request[r] # IdleRequest})
                          /\ Begun = n + (IF repair = NoRow THEN 0 ELSE 1)
<1>1. IsFiniteSet({r \in Request : request[r] # IdleRequest})
  BY FS_Subset, UserSyncAssumption
<1>2. Cardinality({r \in Request : request[r] # IdleRequest}) \in Nat
  BY <1>1, FS_CardinalityType
<1>3. QED
  BY <1>1, <1>2 DEF Begun

\* A request that begins takes one place, and one that ends gives it back.
LEMMA Begins ==
  ASSUME request \in [Request -> RequestRow], NEW r \in Request, NEW x \in RequestRow,
         request[r] = IdleRequest, x # IdleRequest,
         request' = [request EXCEPT ![r] = x], repair' = repair
  PROVE  Begun' = Begun + 1
<1> DEFINE B == {y \in Request : request[y] # IdleRequest}
<1>1. IsFiniteSet(B) /\ r \notin B
  BY BegunIs
<1>2. B' = B \union {r}
  OBVIOUS
<1>3. Cardinality(B') = Cardinality(B) + 1 /\ Cardinality(B) \in Nat
  BY <1>1, <1>2, FS_AddElement, FS_CardinalityType
<1> HIDE DEF B
<1>4. /\ Begun = Cardinality(B) + (IF repair = NoRow THEN 0 ELSE 1)
      /\ Begun' = Cardinality(B') + (IF repair = NoRow THEN 0 ELSE 1)
  BY DEF Begun, B
<1>5. QED
  BY <1>3, <1>4

LEMMA Ends ==
  ASSUME request \in [Request -> RequestRow], NEW r \in Request,
         request[r].at = "reloaded",
         request' = [request EXCEPT ![r] = IdleRequest], repair' = repair
  PROVE  /\ Begun' = Begun - 1
         /\ Begun >= 1 /\ Begun \in Nat
<1> DEFINE B == {y \in Request : request[y] # IdleRequest}
<1>1. IsFiniteSet(B) /\ r \in B
  BY BegunIs DEF IdleRequest
<1>2. B' = B \ {r}
  OBVIOUS
<1>3. Cardinality(B') = Cardinality(B) - 1 /\ Cardinality(B) \in Nat /\ Cardinality(B') \in Nat
  BY <1>1, <1>2, FS_RemoveElement, FS_CardinalityType
<1> HIDE DEF B
<1>4. /\ Begun = Cardinality(B) + (IF repair = NoRow THEN 0 ELSE 1)
      /\ Begun' = Cardinality(B') + (IF repair = NoRow THEN 0 ELSE 1)
  BY DEF Begun, B
<1>5. QED
  BY <1>3, <1>4

\* The event of a handler at work, which stays the same while others are
\* recorded.
LEMMA EventOfIs ==
  ASSUME TypeOK, Ledger, Handlers, NEW q \in Queue, handler[q].at # "idle"
  PROVE  /\ EventOf(q) \in sent /\ EventOf(q).id = handler[q].event
         /\ EventOf(q) \in Event /\ EventOf(q).row \in Row
         /\ \A e \in sent : e.id = handler[q].event => e = EventOf(q)
<1>1. \E e \in sent : e.id = handler[q].event
  BY DEF Handlers
<1>2. EventOf(q) \in sent /\ EventOf(q).id = handler[q].event
  BY <1>1 DEF EventOf
<1>3. QED
  BY <1>2 DEF Ledger, TypeOK, Event

LEMMA EventStays ==
  ASSUME TypeOK, Ledger, Handlers, NEW q \in Queue, handler[q].at # "idle",
         sent \subseteq sent', \A e, f \in sent' : e.id = f.id => e = f,
         handler'[q].event = handler[q].event
  PROVE  EventOf(q)' = EventOf(q)
<1>1. EventOf(q) \in sent' /\ EventOf(q).id = handler'[q].event
  BY EventOfIs
<1>2. \A e \in sent' : e.id = handler'[q].event => e = EventOf(q)
  BY <1>1
<1>3. QED
  BY <1>1, <1>2 DEF EventOf

-----------------------------------------------------------------------------
(* The shape of the state.                                                 *)

IdentityStep ==
  \/ CreateUser \/ DeleteUser \/ RepairRead \/ RepairPublish
  \/ \E d \in Data, t \in 1..MaxTime : UpdateReload(d, t)
  \/ \E r \in Request : UpdateCommit(r) \/ UpdateConflict(r)
PassengerStep == \E q \in Queue : HandlerStep(q) \/ HandlerFails(q)

LEMMA StepsAre ==
  Next => IdentityStep \/ PassengerStep
  BY DEF Next, IdentityStep, PassengerStep

\* What identity's steps keep, whatever the passenger service does.
IdentityShape ==
  /\ {user, repair} \subseteq Row \union {NoRow}
  /\ request \in [Request -> RequestRow] /\ sent \subseteq Event
  /\ misordered \in BOOLEAN
  /\ Ledger /\ Requests
  /\ sent = {} => /\ user = NoRow /\ repair = NoRow
                  /\ request = [r \in Request |-> IdleRequest]

LEMMA IdentityShapeStep ==
  ASSUME Shape, IdentityStep
  PROVE  IdentityShape' /\ sent \subseteq sent'
<1> USE DEF Shape
<1>0. /\ {user, repair} \subseteq Row \union {NoRow} /\ misordered \in BOOLEAN
      /\ request \in [Request -> RequestRow] /\ sent \subseteq Event
      /\ Cardinality(sent) \in Nat /\ MaxEvents \in Nat \ {0}
  BY Shapes, FS_CardinalityType, UserSyncAssumption DEF Ledger
<1>1. CASE CreateUser
  <2> DEFINE row == [data |-> CHOOSE d \in Data : TRUE, time |-> 1]
  <2>1. 1 \in 1..MaxTime
    BY UserSyncAssumption
  <2>2. row \in Row
    BY <2>1, RowsAreRows, UserSyncAssumption
  <2> HIDE DEF row
  <2>3. Emit("user_created", row) /\ "user_created" \in Queue
    BY <1>1 DEF CreateUser, Queue, row
  <2>4. Cardinality(sent) < MaxEvents
    BY <1>0, <1>1, FS_EmptySet DEF CreateUser
  <2>5. /\ user' = row /\ UNCHANGED <<request, repair, misordered>>
        /\ Begun' = Begun /\ sent = {}
        /\ repair = NoRow /\ request = [r \in Request |-> IdleRequest]
    BY <1>1 DEF CreateUser, row, Begun, Unborn
  <2>6. Begun = 0 /\ Cardinality(sent) = 0
    BY <2>5, FS_EmptySet DEF Begun
  <2>7. Ledger' /\ sent' \subseteq Event /\ sent' # {} /\ sent \subseteq sent'
    BY <1>0, <2>2, <2>3, <2>4, <2>5, <2>6, EmitIs DEF Ledger
  <2>8. QED
    BY <1>0, <2>2, <2>5, <2>7 DEF IdentityShape, Requests
<1>2. CASE DeleteUser
  BY <1>0, <1>2 DEF DeleteUser, IdentityShape, Ledger, Begun, Requests, Unborn
<1>3. CASE RepairRead
  <2>1. /\ repair = NoRow /\ user # NoRow /\ RoomForEvent /\ repair' = user
        /\ UNCHANGED <<user, request, sent, misordered>>
    BY <1>3 DEF RepairRead
  <2>2. Begun' = Begun + 1
    <3>1. PICK n \in Nat :
            /\ n = Cardinality({r \in Request : request[r] # IdleRequest})
            /\ Begun = n + (IF repair = NoRow THEN 0 ELSE 1)
      BY <1>0, BegunIs
    <3>2. Begun' = n + (IF repair' = NoRow THEN 0 ELSE 1)
      BY <2>1, <3>1 DEF Begun
    <3>3. QED
      BY <2>1, <3>1, <3>2
  <2>3. Ledger'
    BY <1>0, <2>1, <2>2, BegunIs DEF Ledger, RoomForEvent
  <2>4. QED
    BY <1>0, <2>1, <2>3 DEF IdentityShape, Requests, Unborn
<1>4. CASE RepairPublish
  <2>1. /\ repair \in Row /\ Emit("user_created", repair) /\ repair' = NoRow
        /\ UNCHANGED <<user, request, misordered>> /\ "user_created" \in Queue
    BY <1>0, <1>4 DEF RepairPublish, Queue
  <2>2. /\ Begun' = Begun - 1 /\ Begun >= 1 /\ Begun \in Nat
    <3>1. PICK n \in Nat :
            /\ n = Cardinality({r \in Request : request[r] # IdleRequest})
            /\ Begun = n + (IF repair = NoRow THEN 0 ELSE 1)
      BY <1>0, BegunIs
    <3>2. Begun' = n + (IF repair' = NoRow THEN 0 ELSE 1)
      BY <2>1, <3>1 DEF Begun
    <3>3. QED
      BY <1>4, <2>1, <3>1, <3>2 DEF RepairPublish
  <2>3. Cardinality(sent) < MaxEvents
    BY <1>0, <2>2 DEF Ledger
  <2>4. Ledger' /\ sent' \subseteq Event /\ sent' # {} /\ sent \subseteq sent'
    BY <1>0, <2>1, <2>2, <2>3, EmitIs DEF Ledger
  <2>5. QED
    BY <1>0, <2>1, <2>4 DEF IdentityShape, Requests
<1>5. ASSUME NEW d \in Data, NEW t \in 1..MaxTime, UpdateReload(d, t)
      PROVE  IdentityShape' /\ sent \subseteq sent'
  <2> DEFINE r == CHOOSE x \in FreeRequests : TRUE
             new == [data |-> d, time |-> t]
             x == [at |-> "reloaded", new |-> new, was |-> user]
  <2>1. /\ r \in Request /\ request[r] = IdleRequest /\ RoomForEvent /\ sent # {}
        /\ UNCHANGED <<user, repair, sent, misordered>>
        /\ request' = [request EXCEPT ![r] = x]
    BY <1>5 DEF UpdateReload, FreeRequests
  <2>2. new \in Row /\ new # NoRow
    BY RowsAreRows
  <2> HIDE DEF r, new
  <2>3. x \in RequestRow /\ x.at = "reloaded" /\ x.new # NoRow /\ x # IdleRequest
    BY <1>0, <2>2 DEF RequestRow, IdleRequest
  <2> HIDE DEF x
  <2>4. Begun' = Begun + 1
    BY <1>0, <2>1, <2>3, Begins
  <2>5. Ledger'
    BY <1>0, <2>1, <2>4, BegunIs DEF Ledger, RoomForEvent
  <2>6. request' \in [Request -> RequestRow] /\ Requests'
    BY <1>0, <2>1, <2>3 DEF Requests
  <2>7. QED
    BY <1>0, <2>1, <2>5, <2>6 DEF IdentityShape
<1>6. ASSUME NEW r \in Request, UpdateCommit(r)
      PROVE  IdentityShape' /\ sent \subseteq sent'
  <2> DEFINE new == request[r].new
             was == request[r].was
  <2>1. /\ request[r].at = "reloaded" /\ Emit("user_updated", new)
        /\ user' = IF was = NoRow THEN new
                   ELSE IF user = NoRow THEN NoRow ELSE Saved(new, was, user)
        /\ misordered' \in BOOLEAN /\ repair' = repair
        /\ request' = [request EXCEPT ![r] = IdleRequest]
        /\ "user_updated" \in Queue
    BY <1>6 DEF UpdateCommit, Queue
  <2>2. new \in Row
    BY <1>0, <2>1 DEF RequestRow, Requests
  <2> HIDE DEF new, was
  <2>3. user' \in Row \union {NoRow}
    BY <1>0, <2>1, <2>2, SavedIs
  <2>4. Begun' = Begun - 1 /\ Begun >= 1 /\ Begun \in Nat
    BY <1>0, <2>1, Ends
  <2>5. Cardinality(sent) < MaxEvents
    BY <1>0, <2>4 DEF Ledger
  <2>6. Ledger' /\ sent' \subseteq Event /\ sent' # {} /\ sent \subseteq sent'
    BY <1>0, <2>1, <2>2, <2>4, <2>5, EmitIs DEF Ledger
  <2>7. request' \in [Request -> RequestRow] /\ Requests'
    BY <1>0, <2>1, Shapes DEF Requests, IdleRequest
  <2>8. QED
    BY <1>0, <2>1, <2>3, <2>6, <2>7 DEF IdentityShape
<1>7. ASSUME NEW r \in Request, UpdateConflict(r)
      PROVE  IdentityShape' /\ sent \subseteq sent'
  <2>1. /\ request[r].at = "reloaded" /\ user # NoRow
        /\ request' = [request EXCEPT ![r] = IdleRequest]
        /\ UNCHANGED <<user, repair, sent, misordered>>
    BY <1>7 DEF UpdateConflict
  <2>2. Begun' = Begun - 1 /\ Begun \in Nat /\ Begun >= 1
    BY <1>0, <2>1, Ends
  <2>3. Ledger'
    BY <1>0, <2>1, <2>2 DEF Ledger
  <2>4. request' \in [Request -> RequestRow] /\ Requests'
    BY <1>0, <2>1, Shapes DEF Requests, IdleRequest
  <2>5. QED
    BY <1>0, <2>1, <2>3, <2>4 DEF IdentityShape, Unborn
<1>8. QED
  BY <1>1, <1>2, <1>3, <1>4, <1>5, <1>6, <1>7 DEF IdentityStep

LEMMA IdentityKeepsShape ==
  ASSUME Shape, IdentityStep
  PROVE  Shape'
<1>1. IdentityShape' /\ sent \subseteq sent'
  BY IdentityShapeStep
<1>2. UNCHANGED passengerVars /\ disturbed' \in BOOLEAN
  BY DEF IdentityStep, CreateUser, UpdateReload, UpdateCommit, UpdateConflict,
         DeleteUser, RepairRead, RepairPublish, Shape, TypeOK
<1>3. TypeOK'
  BY <1>1, <1>2, Shapes DEF Shape, TypeOK, IdentityShape, passengerVars, RequestRow
<1>4. Unborn'
  BY <1>1, <1>2 DEF Shape, Unborn, IdentityShape, passengerVars
<1>5. Handlers'
  <2>1. ASSUME NEW q \in Queue, handler[q].at # "idle"
        PROVE  EventOf(q)' = EventOf(q)
    BY <1>1, <1>2, <2>1, EventStays DEF Shape, IdentityShape, Ledger, passengerVars
  <2>2. QED
    BY <1>1, <1>2, <2>1 DEF Shape, Handlers, passengerVars, Stale
<1>6. QED
  BY <1>1, <1>3, <1>4, <1>5 DEF Shape, IdentityShape

\* What a step of a handler does to the handlers and the rest.
LEMMA HandlerEnds ==
  ASSUME Shape, NEW q \in Queue,
         handler' = [handler EXCEPT ![q] = IdleHandler], UNCHANGED sent,
         passenger # NoRow => passenger' # NoRow
  PROVE  handler' \in [Queue -> HandlerRow] /\ Handlers'
<1>1. handler \in [Queue -> HandlerRow]
  BY Shapes DEF Shape
<1>2. /\ handler' \in [Queue -> HandlerRow] /\ handler'[q] = IdleHandler
      /\ \A o \in Queue \ {q} : handler'[o] = handler[o]
  BY <1>1, Shapes
<1>3. \A o \in Queue \ {q} : EventOf(o)' = EventOf(o)
  BY <1>2 DEF EventOf
<1>4. QED
  BY <1>2, <1>3 DEF Shape, Handlers, IdleHandler, Stale

LEMMA PassengerKeepsShape ==
  ASSUME Shape, PassengerStep
  PROVE  Shape' /\ UNCHANGED identityVars
<1> USE DEF Shape
<1>1. UNCHANGED identityVars
  BY DEF PassengerStep, HandlerStep, HandlerStart, HandlerReload, HandlerIgnores,
         HandlerInserts, HandlerUpdates, HandlerConflict, HandlerFails, Finish, Bury
<1>2. Ledger' /\ Requests'
  BY <1>1 DEF identityVars, Ledger, Requests, Begun
<1>3. /\ handler \in [Queue -> HandlerRow] /\ passenger \in Row \union {NoRow}
      /\ processed \union dead \subseteq {e.id : e \in sent} /\ sent \subseteq Event
      /\ disturbed \in BOOLEAN
  BY Shapes
<1>4. PICK q \in Queue : HandlerStep(q) \/ HandlerFails(q)
  BY DEF PassengerStep
<1>5. /\ handler' \in [Queue -> HandlerRow] /\ Handlers'
      /\ processed' \union dead' \subseteq {e.id : e \in sent}
      /\ passenger' \in Row \union {NoRow} /\ disturbed' \in BOOLEAN
      /\ passenger' # passenger => sent # {}
  <2>1. CASE HandlerStart(q)
    <3>1. PICK e \in Pending :
            handler' = [handler EXCEPT ![q] =
              [at |-> "read", event |-> e.id, read |-> passenger, was |-> NoRow]]
      BY <2>1 DEF HandlerStart
    <3>2. e \in sent /\ e.id \in 0..MaxEvents
      BY <1>3 DEF Pending, Event
    <3>3. UNCHANGED <<processed, dead, passenger>> /\ disturbed' \in BOOLEAN
      BY <1>3, <2>1 DEF HandlerStart
    <3>4. /\ handler' \in [Queue -> HandlerRow]
          /\ handler'[q].at = "read" /\ handler'[q].event = e.id
          /\ handler'[q].read = passenger
          /\ \A o \in Queue \ {q} : handler'[o] = handler[o]
      BY <1>3, <3>1, <3>2 DEF HandlerRow
    <3>5. \A o \in Queue \ {q} : EventOf(o)' = EventOf(o)
      BY <1>1, <3>4 DEF EventOf, identityVars
    <3>6. Handlers'
      BY <1>1, <3>2, <3>3, <3>4, <3>5 DEF Handlers, Stale, identityVars
    <3>7. QED
      BY <1>3, <3>3, <3>4, <3>6
  <2>2. CASE HandlerReload(q)
    <3>1. /\ handler[q].at = "read" /\ handler[q].read # NoRow
          /\ ~Stale(handler[q].read, EventOf(q))
          /\ handler' = [handler EXCEPT ![q].at = "reloaded", ![q].was = passenger]
          /\ UNCHANGED <<processed, dead, passenger, disturbed>>
      BY <2>2 DEF HandlerReload
    <3>2. /\ handler' \in [Queue -> HandlerRow]
          /\ handler'[q].at = "reloaded" /\ handler'[q].event = handler[q].event
          /\ handler'[q].read = handler[q].read
          /\ \A o \in Queue \ {q} : handler'[o] = handler[o]
      BY <1>3, <3>1 DEF HandlerRow
    <3>3. \A o \in Queue : EventOf(o)' = EventOf(o)
      BY <1>1, <3>2 DEF EventOf, identityVars
    <3>4. Handlers'
      BY <1>1, <3>1, <3>2, <3>3 DEF Handlers, Stale, identityVars
    <3>5. QED
      BY <1>3, <3>1, <3>2, <3>4
  <2>3. ASSUME handler[q].at # "idle"
        PROVE  EventOf(q).row \in Row /\ EventOf(q) \in sent
               /\ handler[q].event \in {e.id : e \in sent}
    BY <2>3, EventOfIs
  <2>4. CASE HandlerIgnores(q) \/ HandlerInserts(q) \/ HandlerUpdates(q)
    <3>1. /\ handler[q].at # "idle" /\ handler' = [handler EXCEPT ![q] = IdleHandler]
          /\ processed' = processed \union {handler[q].event}
          /\ UNCHANGED <<dead, disturbed>>
      BY <2>4 DEF HandlerIgnores, HandlerInserts, HandlerUpdates, Finish
    <3>2. passenger' \in Row \union {NoRow} /\ (passenger # NoRow => passenger' # NoRow)
      <4>1. CASE HandlerIgnores(q)
        BY <1>3, <4>1 DEF HandlerIgnores
      <4>2. CASE HandlerInserts(q)
        BY <2>3, <3>1, <4>2 DEF HandlerInserts
      <4>3. CASE HandlerUpdates(q)
        <5>1. passenger \in Row
          BY <1>3, <4>3 DEF HandlerUpdates, Handlers
        <5>2. QED
          BY <2>3, <3>1, <4>3, <5>1, SavedIs, RowsAreRows DEF HandlerUpdates
      <4>4. QED
        BY <2>4, <4>1, <4>2, <4>3
    <3>3. QED
      BY <1>1, <1>3, <2>3, <3>1, <3>2, HandlerEnds DEF identityVars
  <2>5. CASE HandlerConflict(q) \/ HandlerFails(q)
    <3>1. /\ handler[q].at # "idle" /\ handler' = [handler EXCEPT ![q] = IdleHandler]
          /\ dead' = dead \union {handler[q].event}
          /\ UNCHANGED <<processed, passenger>> /\ disturbed' = TRUE
      BY <2>5 DEF HandlerConflict, HandlerFails, Bury
    <3>2. QED
      BY <1>1, <1>3, <2>3, <3>1, HandlerEnds DEF identityVars
  <2>6. QED
    BY <1>4, <2>1, <2>2, <2>4, <2>5 DEF HandlerStep
<1>6. TypeOK'
  BY <1>1, <1>3, <1>5, Shapes DEF TypeOK, identityVars, HandlerRow
<1>7. Unborn'
  BY <1>1, <1>5 DEF Unborn, identityVars
<1>8. QED
  BY <1>1, <1>2, <1>5, <1>6, <1>7

LEMMA ShapeHolds == Spec => []Shape
<1>1. Init => Shape
  <2> SUFFICES ASSUME Init PROVE Shape
    OBVIOUS
  <2>1. /\ user = NoRow /\ passenger = NoRow /\ repair = NoRow
        /\ request = [r \in Request |-> IdleRequest]
        /\ sent = {} /\ processed = {} /\ dead = {}
        /\ handler = [q \in Queue |-> IdleHandler]
        /\ misordered = FALSE /\ disturbed = FALSE
    BY DEF Init
  <2>2. TypeOK
    BY <2>1, Shapes
  <2>3. Begun = 0 /\ Cardinality(sent) = 0 /\ IsFiniteSet(sent)
    <3>1. {r \in Request : request[r] # IdleRequest} = {}
      BY <2>1
    <3>2. QED
      BY <2>1, <3>1, FS_EmptySet DEF Begun
  <2>4. Ledger
    BY <2>1, <2>3, UserSyncAssumption DEF Ledger
  <2>5. Requests /\ Handlers /\ Unborn
    BY <2>1 DEF Requests, Handlers, Unborn, IdleRequest, IdleHandler
  <2>6. QED
    BY <2>2, <2>4, <2>5 DEF Shape
<1>2. Shape /\ [Next]_vars => Shape'
  <2> SUFFICES ASSUME Shape, [Next]_vars PROVE Shape'
    OBVIOUS
  <2>1. CASE UNCHANGED vars
    BY <2>1 DEF vars, Shape, TypeOK, Ledger, Unborn, Requests, Handlers, Begun,
                EventOf, Stale
  <2>2. CASE Next
    BY <2>2, StepsAre, IdentityKeepsShape, PassengerKeepsShape
  <2>3. QED
    BY <2>1, <2>2
<1>3. QED
  BY <1>1, <1>2, PTL DEF Spec

\* Whatever the interleaving, the two services' rows stay rows, and no event is
\* recorded that the outbox has no place for.
THEOREM TypeCorrect == Spec => []TypeOK
<1>1. Shape => TypeOK
  BY DEF Shape
<1>2. QED
  BY <1>1, ShapeHolds, PTL

\* The time of the passenger's row goes back only under a handler that read the
\* row before another one wrote it: never when it still is what was compared.
THEOREM FreshnessIsLostOnlyToRaces == Spec => FreshnessLostOnlyToRaces
<1>1. Shape /\ [Next]_vars =>
        [passenger # NoRow /\ passenger'.time < passenger.time =>
          \E q \in Queue : handler[q].at # "idle" /\ handler[q].read # passenger]_vars
  <2> SUFFICES ASSUME Shape, Next, passenger # NoRow, passenger'.time < passenger.time
               PROVE  \E q \in Queue :
                        handler[q].at # "idle" /\ handler[q].read # passenger
    OBVIOUS
  <2>1. passenger \in Row /\ passenger.time \in Nat
    BY RowsAreRows DEF Shape, TypeOK
  <2>2. passenger' # passenger
    BY <2>1
  <2>3. PICK q \in Queue : HandlerUpdates(q)
    BY <2>2, StepsAre
    DEF IdentityStep, PassengerStep, HandlerStep, HandlerStart, HandlerReload,
        HandlerIgnores, HandlerInserts, HandlerConflict, HandlerFails, Bury, CreateUser,
        UpdateReload, UpdateCommit, UpdateConflict, DeleteUser, RepairRead,
        RepairPublish, passengerVars
  <2>4. /\ handler[q].at = "reloaded"
        /\ passenger' = Saved(EventOf(q).row, handler[q].was, passenger)
    BY <2>3 DEF HandlerUpdates
  <2>5. EventOf(q).row \in Row /\ EventOf(q).row.time \in Nat
    BY <2>4, EventOfIs, RowsAreRows DEF Shape
  <2>6. passenger'.time \in {EventOf(q).row.time, passenger.time}
    BY <2>1, <2>4, <2>5, SavedIs
  <2>7. handler[q].read # passenger
    BY <2>1, <2>4, <2>5, <2>6 DEF Shape, Handlers, Stale
  <2>8. QED
    BY <2>4, <2>7
<1>2. QED
  BY <1>1, ShapeHolds, PTL DEF Spec, FreshnessLostOnlyToRaces

-----------------------------------------------------------------------------
(* Agreement.                                                              *)

\* A row that has just been published waits for a handler.
LEMMA PublishedWaits ==
  ASSUME Shape, NEW q, NEW row, Emit(q, row), UNCHANGED passengerVars
  PROVE  /\ user' = row => Waits'
         /\ \A f \in sent' : f \in sent \/ f.row = row
         /\ sent \subseteq sent' /\ \E f \in sent' : f.row = row
<1> DEFINE n == Cardinality(sent)
           new == [id |-> n + 1, queue |-> q, row |-> row]
<1>1. n \in Nat /\ sent' = sent \union {new} /\ new.id = n + 1 /\ new.row = row
  BY FS_CardinalityType DEF Shape, Ledger, Emit
<1>2. \A e \in sent : e.id \in Nat /\ e.id <= n
  BY DEF Shape, TypeOK, Event, Ledger
<1> HIDE DEF new, n
<1>3. n + 1 \notin processed \union dead
  <2>1. processed \union dead \subseteq {e.id : e \in sent}
    BY DEF Shape, TypeOK
  <2>2. \A x \in processed \union dead : x <= n /\ x \in Nat
    BY <1>2, <2>1
  <2>3. QED
    BY <1>1, <2>2
<1>4. \A h \in Queue : handler[h].event # n + 1
  <2> SUFFICES ASSUME NEW h \in Queue PROVE handler[h].event # n + 1
    OBVIOUS
  <2>1. handler[h].at = "idle" => handler[h].event = 0
    BY DEF Shape, Handlers, IdleHandler
  <2>2. handler[h].at # "idle" => \E e \in sent : e.id = handler[h].event
    BY DEF Shape, Handlers
  <2>3. QED
    BY <1>1, <1>2, <2>1, <2>2
<1>5. QED
  BY <1>1, <1>3, <1>4 DEF Waits, Pending, passengerVars

\* More events change nothing for a row that is on its way.
LEMMA StaysOnItsWay ==
  ASSUME Shape, sent \subseteq sent', Ledger', UNCHANGED <<user, passengerVars>>
  PROVE  /\ Waits => Waits'
         /\ IsHandled => IsHandled'
         /\ HasArrived => HasArrived'
<1>1. ASSUME NEW q \in Queue, handler[q].at # "idle"
      PROVE  EventOf(q)' = EventOf(q)
  BY <1>1, EventStays DEF Shape, Ledger, passengerVars
<1>2. Waits => Waits'
  BY DEF Waits, Pending, passengerVars
<1>3. IsHandled => IsHandled'
  BY <1>1 DEF IsHandled, Others, passengerVars
<1>4. QED
  BY <1>2, <1>3 DEF HasArrived, passengerVars

\* Times of rows compare as numbers.
LEMMA TimesAreNumbers ==
  ASSUME Shape
  PROVE  /\ \A row \in Row : row.time \in Nat
         /\ \A e \in sent : e.row \in Row /\ e.row.time \in Nat
         /\ {user, repair, passenger} \subseteq Row \union {NoRow}
<1>1. \A row \in Row : row.time \in Nat
  BY RowsAreRows
<1>2. QED
  BY <1>1 DEF Shape, TypeOK, Event

LEMMA CommitKeepsAgreement ==
  ASSUME Inv, NEW r \in Request, UpdateCommit(r), Ledger'
  PROVE  Agreement'
<1> DEFINE new == request[r].new
           was == request[r].was
<1>1. /\ request[r].at = "reloaded" /\ Emit("user_updated", new)
      /\ user' = IF was = NoRow THEN new
                 ELSE IF user = NoRow THEN NoRow ELSE Saved(new, was, user)
      /\ misordered' = ~(Newest(new) /\ user = was)
      /\ UNCHANGED <<repair, passengerVars, disturbed>>
  BY DEF UpdateCommit
<1>2. new \in Row
  BY <1>1, Shapes DEF Inv, Shape, RequestRow, Requests
<1>3. /\ \A row \in Row : row.time \in Nat
      /\ \A e \in sent : e.row \in Row /\ e.row.time \in Nat
      /\ {user, repair, passenger} \subseteq Row \union {NoRow} /\ NoRow \notin Row
  BY TimesAreNumbers, RowsAreRows DEF Inv
<1> HIDE DEF new, was
<1>4. /\ user' = new => Waits'
      /\ \A f \in sent' : f \in sent \/ f.row = new
      /\ sent \subseteq sent' /\ \E f \in sent' : f.row = new
  BY <1>1, PublishedWaits DEF Inv
<1>5. Times'
  <2>1. user' # NoRow => Published(user)'
    <3>1. user # NoRow => \E e \in sent' : e.row.time = user.time
      BY <1>4 DEF Inv, Agreement, Times, Published
    <3>2. user' # NoRow => user' = new \/ (user # NoRow /\ user'.time \in {new.time, user.time})
      BY <1>1, <1>2, <1>3, SavedIs
    <3>3. QED
      BY <1>4, <3>1, <3>2 DEF Published
  <2>2. \A row \in {repair, passenger} : row # NoRow => Published(row)'
    BY <1>4 DEF Inv, Agreement, Times, Published
  <2>3. QED
    BY <1>1, <2>1, <2>2 DEF Times, Published, passengerVars
<1>6. ASSUME ~misordered', user' # NoRow
      PROVE  user' = new /\ \A e \in sent : e.row.time < new.time
  BY <1>1, <1>2, <1>3, <1>6, SavedIs DEF Newest
<1>7. UserIsNewest'
  <2> SUFFICES ASSUME ~misordered', user' # NoRow
               PROVE  /\ \A e \in sent' : e.row.time < user'.time \/ e.row = user'
                      /\ repair # NoRow => repair.time < user'.time
    BY <1>1 DEF UserIsNewest
  <2>1. repair # NoRow => \E e \in sent : e.row.time = repair.time
    BY DEF Inv, Agreement, Times, Published
  <2>2. QED
    BY <1>4, <1>6, <2>1
<1>8. OnItsWay'
  BY <1>4, <1>6 DEF OnItsWay
<1>9. QED
  BY <1>5, <1>7, <1>8 DEF Agreement

LEMMA PublishKeepsAgreement ==
  ASSUME Inv, RepairPublish, Ledger'
  PROVE  Agreement'
<1>1. /\ repair # NoRow /\ repair' = NoRow /\ Emit("user_created", repair)
      /\ disturbed' = (disturbed /\ repair # user)
      /\ UNCHANGED <<user, misordered, passengerVars>>
  BY DEF RepairPublish
<1>2. /\ user' = repair => Waits'
      /\ \A f \in sent' : f \in sent \/ f.row = repair
      /\ sent \subseteq sent'
  BY <1>1, PublishedWaits DEF Inv
<1>3. Times'
  BY <1>1, <1>2 DEF Inv, Agreement, Times, Published, passengerVars
<1>4. UserIsNewest'
  BY <1>1, <1>2 DEF Inv, Agreement, UserIsNewest
<1>5. OnItsWay'
  BY <1>1, <1>2, StaysOnItsWay DEF Inv, Shape, Agreement, OnItsWay
<1>6. QED
  BY <1>3, <1>4, <1>5 DEF Agreement

LEMMA IdentityKeepsAgreement ==
  ASSUME Inv, IdentityStep
  PROVE  Agreement'
<1>1. Ledger' /\ sent \subseteq sent'
  BY IdentityShapeStep DEF Inv, IdentityShape
<1>2. CASE CreateUser
  <2> DEFINE row == [data |-> CHOOSE d \in Data : TRUE, time |-> 1]
  <2>1. /\ sent = {} /\ user' = row /\ Emit("user_created", row)
        /\ repair = NoRow /\ passenger = NoRow
        /\ UNCHANGED <<repair, misordered, passengerVars, disturbed>>
    BY <1>2 DEF CreateUser, Inv, Shape, Unborn
  <2> HIDE DEF row
  <2>2. Waits' /\ \A f \in sent' : f.row = row
    BY <2>1, PublishedWaits DEF Inv
  <2>3. \E f \in sent' : f.row = row
    BY <2>1, PublishedWaits DEF Inv
  <2>4. QED
    BY <2>1, <2>2, <2>3
    DEF Agreement, Times, Published, UserIsNewest, OnItsWay, passengerVars
<1>3. CASE DeleteUser
  <2>1. user' = NoRow /\ UNCHANGED <<repair, passenger, sent>>
    BY <1>3 DEF DeleteUser, passengerVars
  <2>2. QED
    BY <2>1 DEF Inv, Agreement, Times, Published, UserIsNewest, OnItsWay
<1>4. CASE RepairRead
  <2>1. /\ repair' = user
        /\ UNCHANGED <<user, sent, misordered, disturbed, passengerVars>>
    BY <1>4 DEF RepairRead
  <2>2. UserIsNewest' /\ Times'
    BY <2>1 DEF Inv, Agreement, Times, Published, UserIsNewest, passengerVars
  <2>3. OnItsWay'
    BY <1>1, <2>1, StaysOnItsWay DEF Inv, Agreement, OnItsWay
  <2>4. QED
    BY <2>2, <2>3 DEF Agreement
<1>5. CASE RepairPublish
  BY <1>1, <1>5, PublishKeepsAgreement
<1>6. ASSUME NEW r \in Request, UpdateCommit(r)
      PROVE  Agreement'
  BY <1>1, <1>6, CommitKeepsAgreement
<1>7. CASE UNCHANGED <<user, repair, sent, misordered, passengerVars, disturbed>>
  <2>1. UserIsNewest' /\ Times'
    BY <1>7 DEF Inv, Agreement, Times, Published, UserIsNewest, passengerVars
  <2>2. OnItsWay'
    BY <1>1, <1>7, StaysOnItsWay DEF Inv, Agreement, OnItsWay
  <2>3. QED
    BY <2>1, <2>2 DEF Agreement
<1>8. QED
  BY <1>2, <1>3, <1>4, <1>5, <1>6, <1>7
  DEF IdentityStep, UpdateReload, UpdateConflict

LEMMA PassengerKeepsAgreement ==
  ASSUME Inv, PassengerStep
  PROVE  Agreement'
<1> USE DEF Inv, Agreement
<1>1. UNCHANGED <<user, repair, sent, misordered>>
  BY PassengerKeepsShape DEF identityVars
<1>2. /\ \A row \in Row : row.time \in Nat
      /\ \A e \in sent : e.row \in Row /\ e.row.time \in Nat
      /\ {user, repair, passenger} \subseteq Row \union {NoRow} /\ NoRow \notin Row
      /\ handler \in [Queue -> HandlerRow]
  BY TimesAreNumbers, RowsAreRows, Shapes DEF Shape
<1>3. UserIsNewest'
  BY <1>1 DEF UserIsNewest
<1>4. PICK q \in Queue : HandlerStep(q) \/ HandlerFails(q)
  BY DEF PassengerStep
<1>5. \A o \in Queue : handler'[o].event = handler[o].event => EventOf(o)' = EventOf(o)
  BY <1>1 DEF EventOf
<1>6. ASSUME handler[q].at # "idle"
      PROVE  EventOf(q) \in sent /\ EventOf(q).row \in Row
             /\ EventOf(q).id = handler[q].event
  BY <1>6, EventOfIs DEF Shape
<1>7. Times'
  <2>1. passenger' # NoRow => Published(passenger)'
    <3>1. CASE UNCHANGED passenger
      BY <1>1, <3>1 DEF Times, Published
    <3>2. CASE HandlerInserts(q)
      <4>1. handler[q].at # "idle" /\ passenger' = EventOf(q).row
        BY <3>2 DEF HandlerInserts
      <4>2. QED
        BY <1>1, <1>6, <4>1 DEF Published
    <3>3. CASE HandlerUpdates(q)
      <4>1. /\ handler[q].at # "idle" /\ passenger \in Row
            /\ passenger' = Saved(EventOf(q).row, handler[q].was, passenger)
        BY <1>2, <3>3 DEF HandlerUpdates, Shape, Handlers
      <4>2. passenger'.time \in {EventOf(q).row.time, passenger.time}
        BY <1>6, <4>1, SavedIs
      <4>3. Published(passenger)
        BY <1>2, <4>1 DEF Times
      <4>4. QED
        BY <1>1, <1>6, <4>1, <4>2, <4>3 DEF Published
    <3>4. QED
      BY <1>4, <3>1, <3>2, <3>3
      DEF HandlerStep, HandlerStart, HandlerReload, HandlerIgnores, HandlerConflict,
          HandlerFails, Bury
  <2>2. QED
    BY <1>1, <2>1 DEF Times, Published
<1>8. OnItsWay'
  <2> SUFFICES ASSUME user # NoRow, ~misordered, ~disturbed'
               PROVE  Waits' \/ IsHandled' \/ HasArrived'
    BY <1>1 DEF OnItsWay
  <2>1. ~disturbed /\ (Waits \/ IsHandled \/ HasArrived)
    <3>1. disturbed => disturbed'
      BY <1>4 DEF HandlerStep, HandlerStart, HandlerReload, HandlerIgnores,
                  HandlerInserts, HandlerUpdates, HandlerConflict, HandlerFails,
                  Finish, Bury
    <3>2. QED
      BY <3>1 DEF OnItsWay
  <2>2. user \in Row /\ \A e \in sent : e.row.time < user.time \/ e.row = user
    BY <1>2 DEF UserIsNewest
  <2>3. CASE HandlerStart(q)
    <3>1. PICK e \in Pending :
            handler' = [handler EXCEPT ![q] =
              [at |-> "read", event |-> e.id, read |-> passenger, was |-> NoRow]]
      BY <2>3 DEF HandlerStart
    <3>2. /\ handler[q].at = "idle" /\ Others(q) = {} /\ UNCHANGED <<processed, dead, passenger>>
      BY <2>3 DEF HandlerStart
    <3>3. /\ handler'[q] =
               [at |-> "read", event |-> e.id, read |-> passenger, was |-> NoRow]
          /\ \A o \in Queue \ {q} : handler'[o] = handler[o]
      BY <1>2, <3>1
    <3>4. \A o \in Queue \ {q} : handler[o].at = "idle" /\ handler[o] = IdleHandler
      BY <3>2 DEF Others, Shape, Handlers
    <3>5. ~IsHandled
      BY <3>2, <3>4 DEF IsHandled
    <3>6. CASE Waits
      <4>1. PICK w \in Pending : w.row = user /\ \A o \in Queue : handler[o].event # w.id
        BY <3>6 DEF Waits
      <4>2. CASE w.id = e.id
        <5>1. EventOf(q)' = w
          BY <1>1, <3>3, <4>1, <4>2 DEF EventOf, Pending, Shape, Ledger
        <5>2. Others(q)' = {}
          BY <3>3, <3>4 DEF Others
        <5>3. QED
          BY <1>1, <3>2, <3>3, <4>1, <5>1, <5>2 DEF IsHandled
      <4>3. CASE w.id # e.id
        BY <1>1, <3>2, <3>3, <4>1, <4>3 DEF Waits, Pending
      <4>4. QED
        BY <4>2, <4>3
    <3>7. CASE HasArrived
      BY <1>1, <3>2, <3>3, <3>7 DEF HasArrived
    <3>8. QED
      BY <2>1, <3>5, <3>6, <3>7
  <2>4. CASE HandlerReload(q)
    <3>1. /\ handler[q].at = "read"
          /\ handler' = [handler EXCEPT ![q].at = "reloaded", ![q].was = passenger]
          /\ UNCHANGED <<processed, dead, passenger>>
      BY <2>4 DEF HandlerReload
    <3>2. /\ handler'[q].at = "reloaded" /\ handler'[q].was = passenger
          /\ handler'[q].event = handler[q].event /\ handler'[q].read = handler[q].read
          /\ \A o \in Queue \ {q} : handler'[o] = handler[o]
      BY <1>2, <3>1 DEF HandlerRow
    <3>3. CASE Waits
      <4>1. \A o \in Queue : handler'[o].event = handler[o].event
        BY <3>2
      <4>2. QED
        BY <1>1, <3>1, <3>3, <4>1 DEF Waits, Pending
    <3>4. CASE IsHandled
      <4>1. PICK h \in Queue :
              /\ handler[h].at # "idle" /\ Others(h) = {}
              /\ EventOf(h).row = user /\ handler[h].read = passenger
        BY <3>4 DEF IsHandled
      <4>2. h = q
        BY <3>1, <4>1 DEF Others
      <4>3. Others(q)' = {} /\ EventOf(q)' = EventOf(q)
        BY <1>5, <3>2, <4>1, <4>2 DEF Others
      <4>4. QED
        BY <1>1, <3>1, <3>2, <4>1, <4>2, <4>3 DEF IsHandled
    <3>5. CASE HasArrived
      BY <1>1, <3>1, <3>2, <3>5 DEF HasArrived
    <3>6. QED
      BY <2>1, <3>3, <3>4, <3>5
  <2>5. CASE HandlerIgnores(q) \/ HandlerInserts(q) \/ HandlerUpdates(q)
    <3>1. /\ handler[q].at # "idle" /\ handler' = [handler EXCEPT ![q] = IdleHandler]
          /\ processed' = processed \union {handler[q].event} /\ UNCHANGED dead
      BY <2>5 DEF HandlerIgnores, HandlerInserts, HandlerUpdates, Finish
    <3>2. /\ handler'[q] = IdleHandler
          /\ \A o \in Queue \ {q} : handler'[o] = handler[o]
      BY <1>2, <3>1
    <3>3. CASE Waits
      <4>1. PICK w \in Pending : w.row = user /\ \A o \in Queue : handler[o].event # w.id
        BY <3>3 DEF Waits
      <4>2. w.id # 0
        BY <4>1 DEF Pending, Shape, TypeOK, Event
      <4>3. QED
        BY <1>1, <3>1, <3>2, <4>1, <4>2 DEF Waits, Pending, IdleHandler
    <3>4. ASSUME EventOf(q).row = user, handler[q].read = passenger,
                 handler[q].at = "reloaded" => handler[q].was = passenger
          PROVE  passenger' = user
      <4>1. CASE HandlerIgnores(q)
        <5>1. passenger # NoRow /\ passenger.time > user.time
          BY <3>4, <4>1 DEF HandlerIgnores, Stale
        <5>2. \E e \in sent : e.row.time = passenger.time
          BY <5>1 DEF Times, Published
        <5>3. QED
          BY <1>2, <2>2, <5>1, <5>2
      <4>2. CASE HandlerInserts(q)
        BY <3>4, <4>2 DEF HandlerInserts
      <4>3. CASE HandlerUpdates(q)
        <5>1. passenger \in Row /\ handler[q].was = passenger
          BY <1>2, <3>4, <4>3 DEF HandlerUpdates, Shape, Handlers
        <5>2. QED
          BY <2>2, <3>4, <4>3, <5>1, SavedIs DEF HandlerUpdates
      <4>4. QED
        BY <2>5, <4>1, <4>2, <4>3
    <3>5. CASE IsHandled
      <4>1. PICK h \in Queue :
              /\ handler[h].at # "idle" /\ Others(h) = {}
              /\ EventOf(h).row = user /\ handler[h].read = passenger
              /\ handler[h].at = "reloaded" => handler[h].was = passenger
        BY <3>5 DEF IsHandled
      <4>2. h = q
        BY <3>1, <4>1 DEF Others
      <4>3. \A o \in Queue : handler'[o].at = "idle"
        BY <3>2, <4>1, <4>2 DEF Others, IdleHandler
      <4>4. QED
        BY <1>1, <3>4, <4>1, <4>2, <4>3 DEF HasArrived
    <3>6. CASE HasArrived
      <4>1. /\ passenger = user /\ handler[q].read = user
            /\ handler[q].at = "reloaded" => handler[q].was = user
        BY <3>1, <3>6 DEF HasArrived
      <4>2. passenger' = user
        <5>1. CASE HandlerIgnores(q)
          BY <4>1, <5>1 DEF HandlerIgnores
        <5>2. CASE HandlerInserts(q)
          BY <4>1, <5>2 DEF HandlerInserts
        <5>3. CASE HandlerUpdates(q)
          <6>1. EventOf(q).row.time >= user.time
            BY <1>2, <1>6, <2>2, <3>1, <4>1, <5>3 DEF HandlerUpdates, Shape, Handlers, Stale
          <6>2. EventOf(q).row = user
            BY <1>2, <1>6, <2>2, <3>1, <6>1
          <6>3. QED
            BY <3>4, <4>1, <6>2
        <5>4. QED
          BY <2>5, <5>1, <5>2, <5>3
      <4>3. QED
        BY <1>1, <3>2, <3>6, <4>2 DEF HasArrived, IdleHandler
    <3>7. QED
      BY <2>1, <3>3, <3>5, <3>6
  <2>6. ~HandlerConflict(q) /\ ~HandlerFails(q)
    BY DEF HandlerConflict, HandlerFails, Bury
  <2>7. QED
    BY <1>4, <2>3, <2>4, <2>5, <2>6 DEF HandlerStep
<1>9. QED
  BY <1>3, <1>7, <1>8

LEMMA InvHolds == Spec => []Inv
<1>1. Init => Agreement
  BY DEF Init, Agreement, Times, UserIsNewest, OnItsWay
<1>2. Shape /\ Agreement /\ [Next]_vars => Agreement'
  <2> SUFFICES ASSUME Shape, Agreement, [Next]_vars PROVE Agreement'
    OBVIOUS
  <2>1. CASE UNCHANGED vars
    <3>1. UNCHANGED <<user, repair, sent, processed, dead, handler, passenger,
                      misordered, disturbed>>
      BY <2>1 DEF vars
    <3>2. UserIsNewest' /\ Times'
      BY <3>1 DEF Agreement, Times, Published, UserIsNewest
    <3>3. OnItsWay'
      BY <3>1 DEF Agreement, OnItsWay, Waits, Pending, IsHandled, Others, EventOf,
                  HasArrived
    <3>4. QED
      BY <3>2, <3>3 DEF Agreement
  <2>2. CASE Next
    BY <2>2, StepsAre, IdentityKeepsAgreement, PassengerKeepsAgreement DEF Inv
  <2>3. QED
    BY <2>1, <2>2
<1>3. QED
  BY <1>1, <1>2, ShapeHolds, PTL DEF Spec, Inv

\* When nothing is under way, no times were misleading and no handlers
\* overlapped or failed since the last repair, the passenger's row is the
\* user's, for any number of updates, requests and events, in any order.
THEOREM ServicesAgreeWhenQuiet == Spec => []AgreesWhenQuiet
<1>1. Inv => AgreesWhenQuiet
  BY DEF Inv, Agreement, OnItsWay, Waits, IsHandled, HasArrived, AgreesWhenQuiet
<1>2. QED
  BY <1>1, InvHolds, PTL

=============================================================================
