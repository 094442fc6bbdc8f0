------------------------------ MODULE UserSync ------------------------------
(***************************************************************************)
(* One user of the identity service and the passenger row another service  *)
(* keeps of it.  Identity writes the user and the event in one             *)
(* transaction, but reads the user and takes the event's time before it;   *)
(* the passenger service handles UserCreated and UserUpdated on two queues *)
(* and compares the event's time with the sourceUpdatedAt of its row,      *)
(* which it reads without a lock.  A repair tool publishes the user again. *)
(*                                                                         *)
(* Between the two is the promise of Delivery: any order, any number of    *)
(* times, each message applied once unless it is dead-lettered.  The rows  *)
(* of different users never meet; one user is enough.  A row is its        *)
(* payload, one value of Data, and the time it carries; a save writes the  *)
(* columns that differ from what it reads just before.  Times are whatever *)
(* the clock said, in any order and possibly equal, none before the        *)
(* account's first.  A handler that is interrupted is rolled back and its  *)
(* message delivered again: as if it had not begun.  UserDeleted has no    *)
(* consumer and is left out.                                               *)
(***************************************************************************)
EXTENDS Naturals, FiniteSets

CONSTANTS Data,       \* what the event copies: name, passport number, age, type
          Request,    \* update transactions under way at once
          NoRow,
          MaxTime,    \* bound on the times read from the clock
          MaxEvents,  \* bound on outbox messages
          MaxDead     \* bound on dead letters that a failure causes

ASSUME UserSyncAssumption ==
  /\ NoRow \notin [data : Data, time : Nat]
  /\ Data # {} /\ IsFiniteSet(Request)
  /\ {MaxTime, MaxEvents} \subseteq Nat \ {0} /\ MaxDead \in Nat

Queue == {"user_created", "user_updated"}
Row == [data : Data, time : 1..MaxTime]
Event == [id : 1..MaxEvents, queue : Queue, row : Row]

VARIABLES user,       \* the row of identity; its time is updatedAt or createdAt
          request,    \* update requests
          repair,     \* what the repair tool has read
          sent,       \* events recorded in the outbox
          processed,  \* events with a processed-message row
          dead,       \* events in the dead-letter queues
          handler,    \* the handler of each queue
          passenger,  \* the projection; its time is sourceUpdatedAt
          \* History.
          misordered, \* the times of committed updates do not tell their order
          disturbed   \* handlers overlapped or failed since the last repair

vars == <<user, request, repair, sent, processed, dead, handler,
          passenger, misordered, disturbed>>
identityVars == <<user, request, repair, sent, misordered>>
passengerVars == <<processed, dead, handler, passenger>>

IdleRequest == [at |-> "idle", new |-> NoRow, was |-> NoRow]
IdleHandler == [at |-> "idle", event |-> 0, read |-> NoRow, was |-> NoRow]

Init ==
  /\ user = NoRow /\ passenger = NoRow /\ repair = NoRow
  /\ request = [r \in Request |-> IdleRequest]
  /\ sent = {} /\ processed = {} /\ dead = {}
  /\ handler = [q \in Queue |-> IdleHandler]
  /\ misordered = FALSE /\ disturbed = FALSE

\* A save updates the columns in which the entity differs from the row it has
\* just read; the others keep what the table holds when the update runs.
Saved(new, was, current) ==
  [data |-> IF new.data # was.data THEN new.data ELSE current.data,
   time |-> IF new.time # was.time THEN new.time ELSE current.time]

-----------------------------------------------------------------------------
(* Identity. *)

Emit(q, row) ==
  sent' = sent \union {[id |-> Cardinality(sent) + 1, queue |-> q, row |-> row]}

\* Nothing begins whose event would exceed the bound.
Begun == Cardinality({r \in Request : request[r] # IdleRequest})
         + (IF repair = NoRow THEN 0 ELSE 1)
RoomForEvent == Cardinality(sent) + Begun < MaxEvents

Newest(row) == \A e \in sent : e.row.time < row.time

\* The names of the payloads and times are free: the first are fixed.
CreateUser ==
  LET row == [data |-> CHOOSE d \in Data : TRUE, time |-> 1]
  IN /\ sent = {} /\ user = NoRow
     /\ user' = row
     /\ Emit("user_created", row)
     /\ UNCHANGED <<request, repair, misordered, passengerVars, disturbed>>

\* The SELECT inside save.  The user was found, and the new entity stamped, at
\* some time after the account was created: nothing holds the row meanwhile.
FreeRequests == {r \in Request : request[r] = IdleRequest}
UpdateReload(d, t) ==
  /\ FreeRequests # {} /\ RoomForEvent
  /\ sent # {}
  /\ LET r == CHOOSE x \in FreeRequests : TRUE
     IN request' = [request EXCEPT ![r] =
          [at |-> "reloaded", new |-> [data |-> d, time |-> t], was |-> user]]
  /\ UNCHANGED <<user, repair, sent, misordered, passengerVars, disturbed>>

\* A user that was gone at the SELECT is inserted with its old id; one that
\* went since then is not, and its event is published all the same.
UpdateCommit(r) ==
  LET new == request[r].new
      was == request[r].was
  IN /\ request[r].at = "reloaded"
     /\ was = NoRow => user = NoRow
     /\ user' = IF was = NoRow THEN new
                ELSE IF user = NoRow THEN NoRow ELSE Saved(new, was, user)
     /\ Emit("user_updated", new)
     /\ misordered' = ~(Newest(new) /\ user = was)
     /\ request' = [request EXCEPT ![r] = IdleRequest]
     /\ UNCHANGED <<repair, passengerVars, disturbed>>

\* The insert meets a row another request has inserted again: rolled back.
UpdateConflict(r) ==
  /\ request[r].at = "reloaded" /\ request[r].was = NoRow /\ user # NoRow
  /\ request' = [request EXCEPT ![r] = IdleRequest]
  /\ UNCHANGED <<user, repair, sent, misordered, passengerVars, disturbed>>

DeleteUser ==
  /\ user # NoRow
  /\ user' = NoRow
  /\ UNCHANGED <<request, repair, sent, misordered, passengerVars, disturbed>>

RepairRead ==
  /\ repair = NoRow /\ user # NoRow /\ RoomForEvent
  /\ repair' = user
  /\ UNCHANGED <<user, request, sent, misordered, passengerVars, disturbed>>

\* The event goes to the outbox in a transaction of its own.
RepairPublish ==
  /\ repair # NoRow
  /\ Emit("user_created", repair)
  /\ repair' = NoRow
  /\ disturbed' = (disturbed /\ repair # user)
  /\ UNCHANGED <<user, request, misordered, passengerVars>>

-----------------------------------------------------------------------------
(* Passenger. *)

Pending == {e \in sent : e.id \notin processed \union dead}
EventOf(q) == CHOOSE e \in sent : e.id = handler[q].event
Others(q) == {o \in Queue \ {q} : handler[o].at # "idle"}

\* The processed message and then the passenger are read.
HandlerStart(q) ==
  /\ handler[q].at = "idle"
  /\ \E e \in Pending :
       /\ e.queue = q
       /\ handler' = [handler EXCEPT ![q] =
            [at |-> "read", event |-> e.id, read |-> passenger, was |-> NoRow]]
  /\ disturbed' = (disturbed \/ Others(q) # {})
  /\ UNCHANGED <<identityVars, processed, dead, passenger>>

\* Fault: no event is stale.
Stale_Never(row, event) == FALSE
Stale(row, event) == row # NoRow /\ row.time > event.row.time

\* The SELECT inside save, for a passenger that exists.
HandlerReload(q) ==
  /\ handler[q].at = "read"
  /\ handler[q].read # NoRow /\ ~Stale(handler[q].read, EventOf(q))
  /\ handler' = [handler EXCEPT ![q].at = "reloaded", ![q].was = passenger]
  /\ UNCHANGED <<identityVars, processed, dead, passenger, disturbed>>

Finish(q) ==
  /\ processed' = processed \union {handler[q].event}
  /\ handler' = [handler EXCEPT ![q] = IdleHandler]
  /\ UNCHANGED <<identityVars, dead, disturbed>>

HandlerIgnores(q) ==
  /\ handler[q].at = "read" /\ Stale(handler[q].read, EventOf(q))
  /\ Finish(q) /\ UNCHANGED passenger

\* Fault: an update of a passenger that is not there is dropped.
HandlerInserts_CreatedOnly(q) ==
  /\ handler[q].at = "read" /\ handler[q].read = NoRow /\ passenger = NoRow
  /\ passenger' = IF q = "user_created" THEN EventOf(q).row ELSE NoRow
  /\ Finish(q)

\* Either queue's handler inserts a passenger it did not find.
HandlerInserts(q) ==
  /\ handler[q].at = "read" /\ handler[q].read = NoRow /\ passenger = NoRow
  /\ passenger' = EventOf(q).row
  /\ Finish(q)

HandlerUpdates(q) ==
  /\ handler[q].at = "reloaded"
  /\ passenger' = Saved(EventOf(q).row, handler[q].was, passenger)
  /\ Finish(q)

Bury(q) ==
  /\ dead' = dead \union {handler[q].event}
  /\ handler' = [handler EXCEPT ![q] = IdleHandler]
  /\ disturbed' = TRUE
  /\ UNCHANGED <<identityVars, processed, passenger>>

\* The unique index on userId refuses the second insert.
HandlerConflict(q) ==
  /\ handler[q].at = "read" /\ handler[q].read = NoRow /\ passenger # NoRow
  /\ Bury(q)

HandlerFails(q) ==
  /\ handler[q].at # "idle" /\ Cardinality(dead) < MaxDead
  /\ Bury(q)

-----------------------------------------------------------------------------
HandlerStep(q) ==
  \/ HandlerStart(q) \/ HandlerReload(q) \/ HandlerIgnores(q)
  \/ HandlerInserts(q) \/ HandlerUpdates(q) \/ HandlerConflict(q)

Next ==
  \/ CreateUser
  \/ \E d \in Data, t \in 1..MaxTime : UpdateReload(d, t)
  \/ \E r \in Request : UpdateCommit(r) \/ UpdateConflict(r)
  \/ DeleteUser \/ RepairRead \/ RepairPublish
  \/ \E q \in Queue : HandlerStep(q) \/ HandlerFails(q)

Spec == Init /\ [][Next]_vars

\* Messages are delivered and handlers come to an end.
FairSpec == Spec /\ \A q \in Queue : WF_vars(HandlerStep(q))
-----------------------------------------------------------------------------
TypeOK ==
  /\ {user, passenger, repair} \subseteq Row \union {NoRow}
  /\ request \in [Request -> [at : {"idle", "reloaded"},
                              new : Row \union {NoRow}, was : Row \union {NoRow}]]
  /\ sent \subseteq Event
  /\ processed \union dead \subseteq {e.id : e \in sent}
  /\ handler \in [Queue -> [at : {"idle", "read", "reloaded"}, event : 0..MaxEvents,
                            read : Row \union {NoRow}, was : Row \union {NoRow}]]
  /\ {misordered, disturbed} \subseteq BOOLEAN

\* In whatever order and on whichever queue the events arrive, the projection
\* ends up equal to the user, as long as the times of the updates tell their
\* order and no two handlers overlapped since the user was last published
\* whole; a repair makes good what overlapping and dead letters spoilt.
Converges ==
  <>[](user # NoRow /\ ~misordered /\ ~disturbed => passenger = user)

\* This is what Converges comes to at any moment when nothing is under way
\* between the two services.
AgreesWhenQuiet ==
  /\ user # NoRow /\ ~misordered /\ ~disturbed
  /\ Pending = {} /\ \A q \in Queue : handler[q].at = "idle"
  => passenger = user

\* A passenger is missing in the end only if every event of its user was
\* dead-lettered: an update alone creates it.
MissingOnlyIfDead ==
  <>[](passenger = NoRow => \A e \in sent : e.id \in dead)

\* sourceUpdatedAt goes back only under a handler that read the row before
\* another one wrote it.
FreshnessLostOnlyToRaces ==
  [][passenger # NoRow /\ passenger'.time < passenger.time =>
       \E q \in Queue : handler[q].at # "idle" /\ handler[q].read # passenger]_vars
=============================================================================
