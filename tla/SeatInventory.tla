--------------------------- MODULE SeatInventory ---------------------------
(***************************************************************************)
(* The flight service's seat inventory: reservations over HTTP, the hold   *)
(* sweeper, and the SeatCommitRequested and SeatReleaseRequested consumers *)
(* with their processed-message table.                                     *)
(*                                                                         *)
(* A consumer handles a message in two database transactions: it first     *)
(* registers the message id (Register) and then runs the UPDATE on the     *)
(* seat row (CommitSeat, ReleaseSeat).  Between the two it can fail or     *)
(* crash, and a redelivery of the message is then taken for a duplicate.   *)
(* handling is the set of messages between the two steps: it is a set, so  *)
(* it covers both queues, any number of instances of the service, and the  *)
(* second channel a reconnecting subscriber may open.                      *)
(*                                                                         *)
(* The booking service appears as the client the code makes it: it books   *)
(* with a token a reservation returned to it (claim), asks for commits and *)
(* releases in any order and number, and leaves the hold token out of a    *)
(* confirmed release exactly when its reconciler saw the seat committed.   *)
(* Messages are never removed from sent, so that each may be delivered     *)
(* late, in any order and any number of times.                             *)
(***************************************************************************)
EXTENDS SeatRepository, FiniteSets

CONSTANTS Seat,       \* the seats of one flight
          NoClaim,    \* a booking that does not exist yet
          MessageId,  \* outbox message ids; bounds the messages sent
          MaxTime,    \* bound on the clock, and the latest hold expiry
          MaxCrashes  \* bound on the handlers lost between their two steps

ASSUME InventoryAssumption ==
  /\ MaxTime \in Nat
  /\ MaxCrashes \in Nat
  /\ NoClaim \notin [seat : Seat, token : Token]

VARIABLES now,        \* the database clock
          seats,      \* the seat table: [Seat -> SeatRow]
          issued,     \* the <<seat, token>> pairs reservations have returned
          claim,      \* the seat and hold token stored in each booking
          observed,   \* bookings whose seatCommittedAt is set
          sent,       \* messages the booking service has enqueued
          processed,  \* ids in flight_processed_message
          handling,   \* messages registered and not applied yet
          applied,    \* history: messages whose UPDATE has run
          crashes     \* handlers lost so far

clientVars   == <<issued, claim, observed, sent>>
consumerVars == <<processed, handling, applied, crashes>>
vars == <<now, seats, clientVars, consumerVars>>

Claim == [seat : Seat, token : Token]
Message == [id : MessageId, kind : {"commit", "release"}, seat : Seat,
            token : Token \union {NoToken}, booking : Booking \union {NoBooking}]

TypeOK ==
  /\ now \in 0..MaxTime
  /\ seats \in [Seat -> SeatRow]
  /\ issued \subseteq Seat \X Token
  /\ claim \in [Booking -> Claim \union {NoClaim}]
  /\ observed \subseteq Booking
  /\ sent \subseteq Message
  /\ processed \subseteq MessageId
  /\ handling \subseteq sent
  /\ applied \subseteq sent
  /\ crashes \in 0..MaxCrashes

Init ==
  /\ now = 0
  /\ seats \in [Seat -> {MissingRow, AvailableSeatValues}]
  /\ issued = {}
  /\ claim = [b \in Booking |-> NoClaim]
  /\ observed = {}
  /\ sent = {}
  /\ processed = {}
  /\ handling = {}
  /\ applied = {}
  /\ crashes = 0

-----------------------------------------------------------------------------
(* The HTTP routes of the flight service.                                  *)

\* Creates what the aircraft's layout lacks: create-flight, reconcile-missing.
EnsureSeatInventory ==
  /\ \E s \in Seat : seats[s].seatState = "MISSING"
  /\ seats' = [s \in Seat |-> EnsuredRow(seats[s])]
  /\ UNCHANGED <<now, clientVars, consumerVars>>

CreateSeat(s) ==
  /\ seats[s].seatState = "MISSING"
  /\ seats' = [seats EXCEPT ![s] = AvailableSeatValues]
  /\ UNCHANGED <<now, clientVars, consumerVars>>

(***************************************************************************)
(* reserveSeat, and reserveEconomySeat, whose SKIP LOCKED lets it end on   *)
(* any reclaimable economy seat.  holdUntil was in the future when it was  *)
(* checked; the UPDATE may run at that very instant or later, so the hold  *)
(* it writes may already have lapsed.  The token is a fresh UUID.          *)
(***************************************************************************)
ReserveSeat(s, token, until) ==
  /\ ReclaimableSeatCondition(seats[s], now)
  /\ \A x \in Seat : <<x, token>> \notin issued
  /\ seats' = [seats EXCEPT ![s] = HeldSeatValues(token, until)]
  /\ issued' = issued \union {<<s, token>>}
  /\ UNCHANGED <<now, claim, observed, sent, consumerVars>>

\* A reservation without holdUntil books the seat at once, for no booking.
ReserveSeatLegacy(s) ==
  /\ ReclaimableSeatCondition(seats[s], now)
  /\ seats' = [seats EXCEPT ![s] = BookedSeatValues(NoBooking)]
  /\ UNCHANGED <<now, clientVars, consumerVars>>

SweepExpiredHolds ==
  /\ \E s \in Seat : HoldExpired(seats[s], now)
  /\ seats' = [s \in Seat |-> SweptRow(seats[s], now)]
  /\ UNCHANGED <<now, clientVars, consumerVars>>

-----------------------------------------------------------------------------
(* The booking service, as the client of the inventory.                    *)

Claimed == {b \in Booking : claim[b] # NoClaim}

CreateBooking(b, s, token) ==
  /\ b \notin Claimed
  /\ <<s, token>> \in issued
  /\ \A c \in Claimed : claim[c].token # token
  /\ claim' = [claim EXCEPT ![b] = [seat |-> s, token |-> token]]
  /\ UNCHANGED <<now, seats, issued, observed, sent, consumerVars>>

\* The outbox inserts one row with a fresh id.
Enqueue(kind, s, token, b) ==
  /\ \E id \in MessageId :
       /\ \A m \in sent : m.id # id
       /\ sent' = sent \union {[id |-> id, kind |-> kind, seat |-> s,
                                token |-> token, booking |-> b]}
  /\ UNCHANGED <<now, seats, issued, claim, observed, consumerVars>>

EnqueueSeatCommit(b) ==
  /\ b \in Claimed
  /\ Enqueue("commit", claim[b].seat, claim[b].token, b)

\* Of a pending booking, or of a reservation whose booking row failed.
EnqueuePendingSeatRelease(s, token) ==
  /\ <<s, token>> \in issued
  /\ Enqueue("release", s, token, NoBooking)

\* Fault: the release never carries the hold token.
EnqueueConfirmedSeatRelease_NoToken(b) ==
  /\ b \in Claimed
  /\ Enqueue("release", claim[b].seat, NoToken, b)

EnqueueConfirmedSeatRelease(b) ==
  /\ b \in Claimed
  /\ Enqueue("release", claim[b].seat,
             IF b \in observed THEN NoToken ELSE claim[b].token, b)

EnqueueLegacySeatRelease(s) == Enqueue("release", s, NoToken, NoBooking)

\* The reconciler reads the seat state and sets seatCommittedAt.
ObserveCommit(b) ==
  /\ b \in Claimed
  /\ BookedBy(seats[claim[b].seat], b)
  /\ observed' = observed \union {b}
  /\ UNCHANGED <<now, seats, issued, claim, sent, consumerVars>>

-----------------------------------------------------------------------------
(* The consumers.                                                          *)

\* registerProcessedMessage commits on its own; a known id ends the handler.
Register(m) ==
  /\ m.id \notin processed
  /\ processed' = processed \union {m.id}
  /\ handling' = handling \union {m}
  /\ UNCHANGED <<now, seats, clientVars, applied, crashes>>

Finish(m) ==
  /\ handling' = handling \ {m}
  /\ applied' = applied \union {m}
  /\ UNCHANGED <<now, clientVars, processed, crashes>>

CommitSeat(m) ==
  /\ m.kind = "commit"
  /\ seats' = [seats EXCEPT ![m.seat] = CommittedRow(@, m.token, m.booking, now)]
  /\ Finish(m)

ReleaseSeat(m) ==
  /\ m.kind = "release"
  /\ seats' = [seats EXCEPT ![m.seat] = ReleasedRow(@, m.token, m.booking)]
  /\ Finish(m)

\* The process dies, or the UPDATE throws and the subscriber dead-letters.
LoseHandler(m) ==
  /\ crashes < MaxCrashes
  /\ crashes' = crashes + 1
  /\ handling' = handling \ {m}
  /\ UNCHANGED <<now, seats, clientVars, processed, applied>>

Tick ==
  /\ now < MaxTime
  /\ now' = now + 1
  /\ UNCHANGED <<seats, clientVars, consumerVars>>

Next ==
  \/ EnsureSeatInventory
  \/ \E s \in Seat : CreateSeat(s)
  \/ \E s \in Seat, token \in Token, until \in now..MaxTime :
       ReserveSeat(s, token, until)
  \/ \E s \in Seat : ReserveSeatLegacy(s)
  \/ SweepExpiredHolds
  \/ \E b \in Booking, s \in Seat, token \in Token : CreateBooking(b, s, token)
  \/ \E b \in Booking : EnqueueSeatCommit(b)
  \/ \E s \in Seat, token \in Token : EnqueuePendingSeatRelease(s, token)
  \/ \E b \in Booking : EnqueueConfirmedSeatRelease(b)
  \/ \E s \in Seat : EnqueueLegacySeatRelease(s)
  \/ \E b \in Booking : ObserveCommit(b)
  \/ \E m \in sent : Register(m)
  \/ \E m \in handling : CommitSeat(m)
  \/ \E m \in handling : ReleaseSeat(m)
  \/ \E m \in handling : LoseHandler(m)
  \/ Tick

Spec == Init /\ [][Next]_vars

(***************************************************************************)
(* What the scheduling justifies: the clock advances, the sweeper's timer  *)
(* fires, and a message in the queue is delivered and its handler runs on. *)
(* Nothing is assumed of the clients.                                      *)
(***************************************************************************)
Fairness ==
  /\ WF_vars(Tick)
  /\ WF_vars(SweepExpiredHolds)
  /\ \A id \in MessageId :
       /\ WF_vars(\E m \in sent : m.id = id /\ Register(m))
       /\ WF_vars(\E m \in handling : m.id = id /\ (CommitSeat(m) \/ ReleaseSeat(m)))

FairSpec == Spec /\ Fairness

-----------------------------------------------------------------------------
(* Properties.                                                             *)

LiveHold(s) == seats[s].seatState = "HELD" /\ seats[s].holdExpiresAt > now

\* A hold that has not expired is changed only by a message that carries its
\* own token: no other reservation, commit, release, sweep or inventory
\* repair takes the seat from the checkout that holds it.
LiveHoldIsProtected ==
  [][\A s \in Seat :
       LiveHold(s) /\ seats'[s] # seats[s] =>
         \E m \in handling : m.seat = s /\ m.token = seats[s].holdToken]_vars

\* Once the reconciler has recorded a booking's seat as committed, the seat
\* stays that booking's until a release naming the booking has run, however
\* late or often the other messages arrive.
ObservedCommitStays ==
  \A b \in observed :
    \/ BookedBy(seats[claim[b].seat], b)
    \/ \E m \in applied : m.kind = "release" /\ m.booking = b

\* A release naming a booking is final: whatever order its commits, their
\* retries and the release run in, afterwards the booking neither owns the
\* seat nor holds it.
ReleaseIsFinal ==
  \A m \in applied :
    m.kind = "release" /\ m.booking # NoBooking =>
      /\ ~ BookedBy(seats[m.seat], m.booking)
      /\ ~ HeldBy(seats[m.seat], claim[m.booking].token)

\* A hold never outlives its expiry for good: it is committed, released,
\* reclaimed or swept.
HoldsEnd ==
  \A s \in Seat, token \in Token :
    HeldBy(seats[s], token) ~> ~ HeldBy(seats[s], token)

\* Registered and never applied: the handler stopped between its two steps,
\* and a redelivery is taken for a duplicate.
Lost(id) ==
  id \in processed /\ \A m \in handling \union applied : m.id # id

\* A requested release of a booking eventually frees its seat of it for good,
\* unless its own handler was lost; losing any other handler does no harm.
RequestedReleaseFreesSeat ==
  \A id \in MessageId, b \in Booking :
    (\E m \in sent : m.id = id /\ m.kind = "release" /\ m.booking = b)
      ~> \/ Lost(id)
         \/ [](\A s \in Seat : ~ BookedBy(seats[s], b))
=============================================================================
