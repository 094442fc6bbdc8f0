------------------------------ MODULE Delivery ------------------------------
(***************************************************************************)
(* What a service may expect of a message it records in its outbox: one    *)
(* subscribing queue applies it at most once, and every recorded message   *)
(* is, sooner or later, applied, rejected to the dead-letter queue, or     *)
(* dropped by the broker because no subscriber had declared its queue yet. *)
(* Neither an order nor the number of deliveries is promised.              *)
(***************************************************************************)
EXTENDS Naturals

CONSTANT Message  \* outbox messages, named by their messageId

VARIABLES recorded,  \* messages whose outbox row was committed
          applied,   \* how often the subscriber's transaction committed
          dead,      \* messages in the dead-letter queue
          dropped,   \* messages confirmed by the broker and routed nowhere
          declared   \* whether the subscriber's queue exists

vars == <<recorded, applied, dead, dropped, declared>>

Init ==
  /\ recorded = {} /\ dead = {} /\ dropped = {}
  /\ applied = [m \in Message |-> 0]
  /\ declared = FALSE

\* The outbox row is inserted in the transaction of the change it announces.
Record(m) ==
  /\ m \notin recorded
  /\ recorded' = recorded \union {m}
  /\ UNCHANGED <<applied, dead, dropped, declared>>

Declare ==
  /\ declared' = TRUE
  /\ UNCHANGED <<recorded, applied, dead, dropped>>

Apply(m) ==
  /\ m \in recorded /\ applied[m] = 0
  /\ applied' = [applied EXCEPT ![m] = 1]
  /\ UNCHANGED <<recorded, dead, dropped, declared>>

\* A copy whose handler failed; another copy may have been applied.
Bury(m) ==
  /\ m \in recorded
  /\ dead' = dead \union {m}
  /\ UNCHANGED <<recorded, applied, dropped, declared>>

Drop(m) ==
  /\ m \in recorded /\ ~declared
  /\ dropped' = dropped \union {m}
  /\ UNCHANGED <<recorded, applied, dead, declared>>

Next ==
  \/ Declare
  \/ \E m \in Message : Record(m) \/ Apply(m) \/ Bury(m) \/ Drop(m)

Answered(m) == applied[m] > 0 \/ m \in dead \union dropped
Answer(m) == ~Answered(m) /\ (Apply(m) \/ Bury(m) \/ Drop(m))

Spec == Init /\ [][Next]_vars /\ \A m \in Message : WF_vars(Answer(m))
=============================================================================
