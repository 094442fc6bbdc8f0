-------------------------- MODULE PaymentLifecycle --------------------------
(***************************************************************************)
(* What the payment service promises of one payment intent to the rest of  *)
(* the system: how its status may change and which events each change puts *)
(* in the outbox.  It hides the wallet, the idempotency records, the locks *)
(* and the clock.  Payments implements it; the booking saga relies on it.  *)
(*                                                                         *)
(* Two changes are possible only through races of administrator requests   *)
(* and are switched by constants, so that the promises can be stated with  *)
(* and without them.                                                       *)
(***************************************************************************)
EXTENDS Naturals

CONSTANTS Payment,         \* payment intents, one for each booking
          LateSettlement,  \* an EXPIRED payment may still be settled
          StaleExpiry      \* a SUCCEEDED payment may be overwritten

VARIABLES status,    \* paymentStatus, "NONE" before the intent exists
          refunded,  \* payments whose refundStatus is SUCCEEDED
          emitted    \* events put in the outbox, per payment and type

vars == <<status, refunded, emitted>>

PaymentStatus ==
  {"NONE", "PENDING", "PROCESSING", "FAILED", "SUCCEEDED", "EXPIRED"}

Unsettled == {"PENDING", "PROCESSING", "FAILED"}

EventType ==
  {"PaymentSucceeded", "PaymentFailed", "PaymentExpired", "PaymentRefunded"}

Init ==
  /\ status = [p \in Payment |-> "NONE"]
  /\ refunded = {}
  /\ emitted = [p \in Payment |-> [e \in EventType |-> 0]]

Become(p, s) == status' = [status EXCEPT ![p] = s]

Emit(p, e) == emitted' = [emitted EXCEPT ![p][e] = @ + 1]

Create(p) ==
  /\ status[p] = "NONE"
  /\ Become(p, "PENDING")
  /\ UNCHANGED <<refunded, emitted>>

\* An attempt that timed out leaves the payment in processing.
Stall(p) ==
  /\ status[p] \in {"PENDING", "FAILED"}
  /\ Become(p, "PROCESSING")
  /\ UNCHANGED <<refunded, emitted>>

Decline(p) ==
  /\ status[p] \in {"PENDING", "FAILED"}
  /\ Become(p, "FAILED")
  /\ Emit(p, "PaymentFailed")
  /\ UNCHANGED refunded

Settle(p) ==
  /\ \/ status[p] \in Unsettled
     \/ LateSettlement /\ status[p] = "EXPIRED"
  /\ Become(p, "SUCCEEDED")
  /\ Emit(p, "PaymentSucceeded")
  /\ UNCHANGED refunded

\* Announced, and announced again by every wallet payment tried afterwards.
Expire(p) ==
  /\ status[p] \in Unsettled \union {"EXPIRED"}
  /\ Become(p, "EXPIRED")
  /\ Emit(p, "PaymentExpired")
  /\ UNCHANGED refunded

\* A confirmation that comes too late expires the payment without an event.
ExpireSilently(p) ==
  /\ \/ status[p] \in Unsettled
     \/ StaleExpiry /\ status[p] = "SUCCEEDED"
  /\ Become(p, "EXPIRED")
  /\ UNCHANGED <<refunded, emitted>>

Refund(p) ==
  /\ status[p] = "SUCCEEDED"
  /\ p \notin refunded
  /\ refunded' = refunded \union {p}
  /\ Emit(p, "PaymentRefunded")
  /\ UNCHANGED status

Next ==
  \E p \in Payment :
    \/ Create(p) \/ Stall(p) \/ Decline(p) \/ Settle(p)
    \/ Expire(p) \/ ExpireSilently(p) \/ Refund(p)

Spec == Init /\ [][Next]_vars
=============================================================================
