------------------------------ MODULE Payments ------------------------------
(***************************************************************************)
(* The payment service: payment intents and the ways one is settled        *)
(* (administrator confirmation, manual reconciliation of a bank transfer,  *)
(* the owner's wallet), expired and refunded, and the wallet's top-ups.    *)
(*                                                                         *)
(* A handler is one action for each stretch of code between two awaits     *)
(* whose order matters: a database transaction that locks the payment row  *)
(* is one step, the unlocked reads before it are steps of their own, and   *)
(* what a request read is kept with the request.  A request may stop after *)
(* any step (its process died, or the client gave up).                     *)
(*                                                                         *)
(* All payments belong to one user: a wallet row, and everything that      *)
(* locks it, concerns one user only.  Left out: currency, names, the       *)
(* reading back of rows for responses, amounts other than one price and    *)
(* one top-up size.                                                        *)
(***************************************************************************)
EXTENDS Integers, FiniteSets

CONSTANTS Payment,       \* payment intents, one for each booking
          Request,       \* confirmation requests of administrators
          Key,           \* their Idempotency-Key headers
          Txn,           \* bank transaction ids an administrator may enter
          Topup,         \* wallet top-up requests
          None,          \* a NULL column
          Price,         \* amount of a payment
          TopupAmount,   \* amount of a top-up
          MAX_PENDING_TOPUP_REQUESTS,
          MaxLockWait,   \* bound on the age of a clock read under a row lock
          MaxTime,       \* bound on the clock, and the latest expiresAt
          MaxEvents      \* bound on repeated PaymentExpired events

ASSUME PaymentsAssumption ==
  /\ None \notin Txn \union Key \union Payment
  /\ {Price, TopupAmount, MAX_PENDING_TOPUP_REQUESTS, MaxLockWait,
      MaxTime, MaxEvents} \subseteq Nat

VARIABLES now,        \* the clock
          payments,   \* the payment_intent table
          confirms,   \* the confirmation requests in progress
          records,    \* payment_idempotency_record: the payment answered for
          reconciles, \* reconciliations checked and not credited yet
          emitted,    \* events put in the outbox, per payment and type
          balance,    \* wallet.balance
          ledger,     \* wallet_ledger: number of entries per <<type, id>>
          topups,     \* status of the wallet_topup_request rows
          submitting  \* top-up requests checked and not inserted yet

requestVars == <<confirms, records, reconciles>>
walletVars  == <<balance, ledger>>
topupVars   == <<topups, submitting>>
vars == <<now, payments, emitted, requestVars, walletVars, topupVars>>

Unsettled == {"PENDING", "PROCESSING", "FAILED"}
PaymentStatus == Unsettled \union {"NONE", "SUCCEEDED", "EXPIRED"}
EventType ==
  {"PaymentSucceeded", "PaymentFailed", "PaymentExpired", "PaymentRefunded"}
Scenario == {"SUCCESS", "DECLINE", "TIMEOUT"}

PaymentIntent == [paymentStatus : PaymentStatus,
                  refundStatus : {"NONE", "SUCCEEDED"},
                  providerTxnId : Txn \union {None},
                  expiresAt : Nat]

ConfirmState == {"idle", "looked", "expiring", "recording", "paying",
                 "attempted", "ended"}
Confirm == [pc : ConfirmState, key : Key \union {None},
            payment : Payment \union {None}, scenario : Scenario]

LedgerEntry == ({"TOPUP_APPROVED"} \X Topup)
                 \union ({"BOOKING_DEBIT", "BOOKING_REFUND"} \X Payment)

TypeOK ==
  /\ now \in 0..MaxTime
  /\ payments \in [Payment -> PaymentIntent]
  /\ confirms \in [Request -> Confirm]
  /\ records \in [Key -> Payment \union {None}]
  /\ reconciles \subseteq Payment \X Txn
  /\ emitted \in [Payment -> [EventType -> Nat]]
  /\ balance \in Int
  /\ ledger \in [LedgerEntry -> Nat]
  /\ topups \in [Topup -> {"NONE", "PENDING", "APPROVED", "REJECTED"}]
  /\ submitting \subseteq Topup

Init ==
  /\ now = 0
  /\ payments = [p \in Payment |->
       [paymentStatus |-> "NONE", refundStatus |-> "NONE",
        providerTxnId |-> None, expiresAt |-> 0]]
  /\ confirms = [r \in Request |-> [pc |-> "idle", key |-> None,
                                    payment |-> None, scenario |-> "SUCCESS"]]
  /\ records = [k \in Key |-> None]
  /\ reconciles = {}
  /\ emitted = [p \in Payment |-> [e \in EventType |-> 0]]
  /\ balance = 0
  /\ ledger = [e \in LedgerEntry |-> 0]
  /\ topups = [t \in Topup |-> "NONE"]
  /\ submitting = {}

-----------------------------------------------------------------------------
(* Helpers.                                                                *)

Status(p) == payments[p].paymentStatus

Become(p, s) == payments' = [payments EXCEPT ![p].paymentStatus = s]

Emit(p, e) == emitted' = [emitted EXCEPT ![p][e] = @ + 1]

\* One ledger entry for every change of the balance, in the transaction.
Post(type, id, amount) ==
  /\ balance' = balance + amount
  /\ ledger' = [ledger EXCEPT ![<<type, id>>] = @ + 1]

Lapsed(p, at) == payments[p].expiresAt <= at

(***************************************************************************)
(* The booking service fixed expiresAt when it made the booking, some time *)
(* before.  The unique bookingId makes a second intent impossible.         *)
(***************************************************************************)
CreatePaymentIntent(p, expiresAt) ==
  /\ Status(p) = "NONE"
  /\ payments' = [payments EXCEPT ![p].paymentStatus = "PENDING",
                                  ![p].expiresAt = expiresAt]
  /\ UNCHANGED <<now, emitted, requestVars, walletVars, topupVars>>

-----------------------------------------------------------------------------
(* Confirmation by an administrator, with an Idempotency-Key.              *)

Goto(r, pc) == confirms' = [confirms EXCEPT ![r].pc = pc]

Recorded(k) == records[k] # None

\* A recorded key is answered from the record, or refused: nothing changes.
ConfirmLookup(r, k, p, scenario) ==
  /\ confirms[r].pc = "idle"
  /\ ~ Recorded(k)
  /\ confirms' = [confirms EXCEPT ![r] =
       [pc |-> "looked", key |-> k, payment |-> p, scenario |-> scenario]]
  /\ UNCHANGED <<now, payments, emitted, records, reconciles, walletVars,
                 topupVars>>

(***************************************************************************)
(* The row is read without a lock.  A payment past its expiry is about to  *)
(* be saved as EXPIRED (nothing is written when it was EXPIRED already:    *)
(* save() writes the columns that differ from the row it loads).  save()   *)
(* reads the row once more, but fails when the row gained an attempt or a  *)
(* refund in between, so both reads are this one step.                     *)
(***************************************************************************)
ConfirmRead(r) ==
  LET p == confirms[r].payment IN
  /\ confirms[r].pc = "looked"
  /\ \/ /\ Status(p) \in {"NONE", "PROCESSING"}
        /\ Goto(r, "ended")
     \/ /\ Status(p) \in {"PENDING", "FAILED"}
        /\ Goto(r, IF Lapsed(p, now) THEN "expiring" ELSE "paying")
     \/ /\ Status(p) \in {"SUCCEEDED", "EXPIRED"}
        /\ Goto(r, "recording")
  /\ UNCHANGED <<now, payments, emitted, records, reconciles, walletVars,
                 topupVars>>

\* Whatever the row has become; no event.
ConfirmSaveExpired(r) ==
  /\ confirms[r].pc = "expiring"
  /\ Become(confirms[r].payment, "EXPIRED")
  /\ Goto(r, "recording")
  /\ UNCHANGED <<now, emitted, records, reconciles, walletVars, topupVars>>

Record(r) ==
  /\ ~ Recorded(confirms[r].key)
  /\ records' = [records EXCEPT ![confirms[r].key] = confirms[r].payment]

\* The unique (scope, key) refuses the second record of a key.
ConfirmRecord(r) ==
  /\ confirms[r].pc = "recording"
  /\ Goto(r, "ended")
  /\ \/ Record(r)
     \/ Recorded(confirms[r].key) /\ UNCHANGED records
  /\ UNCHANGED <<now, payments, emitted, reconciles, walletVars, topupVars>>

\* Fault: the record of the key is not part of the transaction.
Attempt_Unrecorded(r, p, scenario) ==
  /\ Goto(r, "attempted")
  /\ UNCHANGED records
  /\ \/ scenario = "SUCCESS" /\ Become(p, "SUCCEEDED") /\ Emit(p, "PaymentSucceeded")
     \/ scenario = "DECLINE" /\ Become(p, "FAILED") /\ Emit(p, "PaymentFailed")
     \/ scenario = "TIMEOUT" /\ Become(p, "PROCESSING") /\ UNCHANGED emitted

Attempt(r, p, scenario) ==
  /\ Goto(r, "attempted")
  /\ Record(r)
  /\ \/ scenario = "SUCCESS" /\ Become(p, "SUCCEEDED") /\ Emit(p, "PaymentSucceeded")
     \/ scenario = "DECLINE" /\ Become(p, "FAILED") /\ Emit(p, "PaymentFailed")
     \/ scenario = "TIMEOUT" /\ Become(p, "PROCESSING") /\ UNCHANGED emitted

\* Fault: the transaction trusts the status and the clock read before it.
LockedConfirm_NoRecheck(r, p) == Attempt(r, p, confirms[r].scenario)

(***************************************************************************)
(* The transaction looks at the locked row again.  Every way to commit     *)
(* inserts the record of the key, so it rolls back if the key has one.     *)
(***************************************************************************)
LockedConfirm(r, p) ==
  \/ /\ Status(p) = "PROCESSING"
     /\ Goto(r, "ended")
     /\ UNCHANGED <<payments, emitted, records>>
  \/ /\ Status(p) \in {"PENDING", "FAILED"}
     /\ Lapsed(p, now)
     /\ Become(p, "EXPIRED")
     /\ Goto(r, "ended")
     /\ Record(r)
     /\ UNCHANGED emitted
  \/ /\ Status(p) \in {"SUCCEEDED", "EXPIRED"}
     /\ Goto(r, "ended")
     /\ Record(r)
     /\ UNCHANGED <<payments, emitted>>
  \/ /\ Status(p) \in {"PENDING", "FAILED"}
     /\ ~ Lapsed(p, now)
     /\ Attempt(r, p, confirms[r].scenario)

ConfirmPay(r) ==
  /\ confirms[r].pc = "paying"
  /\ LockedConfirm(r, confirms[r].payment)
  /\ UNCHANGED <<now, reconciles, walletVars, topupVars>>

-----------------------------------------------------------------------------
(* Manual reconciliation of a bank transfer by an administrator.           *)

TxnUsed(x) == \E p \in Payment : payments[p].providerTxnId = x

Credited(p) == Status(p) = "SUCCEEDED" \/ payments[p].providerTxnId # None

\* Unlocked.  transferredAt is what the administrator enters: a transfer
\* made in time may be entered when the payment's window is long over.
ReconcileCheck(p, x) ==
  /\ ~ TxnUsed(x)
  /\ Status(p) # "NONE"
  /\ ~ Credited(p)
  /\ Status(p) # "EXPIRED"
  /\ reconciles' = reconciles \union {<<p, x>>}
  /\ UNCHANGED <<now, payments, emitted, confirms, records, walletVars,
                 topupVars>>

\* Fault: the transaction does not look at the locked row again.
MayCredit_NoRecheck(p, x) == ~ TxnUsed(x)

\* Under the lock, and by the unique providerTxnId; not for EXPIRED.
MayCredit(p, x) == ~ Credited(p) /\ ~ TxnUsed(x)

ReconcileCredit(p, x) ==
  /\ <<p, x>> \in reconciles
  /\ reconciles' = reconciles \ {<<p, x>>}
  /\ \/ /\ MayCredit(p, x)
        /\ payments' = [payments EXCEPT ![p].paymentStatus = "SUCCEEDED",
                                        ![p].providerTxnId = x]
        /\ Emit(p, "PaymentSucceeded")
     \/ /\ ~ MayCredit(p, x)
        /\ UNCHANGED <<payments, emitted>>
  /\ UNCHANGED <<now, confirms, records, walletVars, topupVars>>

-----------------------------------------------------------------------------
(* Payment from the wallet, expiry and refunds: one transaction each, with *)
(* the payment row locked.                                                 *)

\* Fault: a payment already settled is debited again.
Debitable_Settled(p) == Status(p) \in {"PENDING", "FAILED", "SUCCEEDED"}

Debitable(p) == Status(p) \in {"PENDING", "FAILED"}

\* Fault: the balance is not compared with the price.
Sufficient_Any(amount) == TRUE

Sufficient(amount) == balance >= amount

\* The clock is read (at) before the row is locked.
PayBookingWithWallet(p, at) ==
  /\ \/ /\ Status(p) \in Unsettled \union {"EXPIRED"}
        /\ Lapsed(p, at)
        /\ emitted[p]["PaymentExpired"] < MaxEvents
        /\ Become(p, "EXPIRED")
        /\ Emit(p, "PaymentExpired")
        /\ UNCHANGED walletVars
     \/ /\ Debitable(p)
        /\ ~ Lapsed(p, at)
        /\ Sufficient(Price)
        /\ Become(p, "SUCCEEDED")
        /\ Emit(p, "PaymentSucceeded")
        /\ Post("BOOKING_DEBIT", p, -Price)
  /\ UNCHANGED <<now, requestVars, topupVars>>

\* Fault: declined payments are not looked for.
ExpiryCandidate_NotFailed(p) ==
  Status(p) \in {"PENDING", "PROCESSING"} /\ Lapsed(p, now)

ExpiryCandidate(p) == Status(p) \in Unsettled /\ Lapsed(p, now)

\* The scheduler looks for candidates and checks each again under its lock.
ExpirePendingPayment(p) ==
  /\ ExpiryCandidate(p)
  /\ Become(p, "EXPIRED")
  /\ Emit(p, "PaymentExpired")
  /\ UNCHANGED <<now, requestVars, walletVars, topupVars>>

Refundable(p) ==
  Status(p) = "SUCCEEDED" /\ payments[p].refundStatus = "NONE"

(***************************************************************************)
(* The PaymentRefundRequested consumer.  A message may come at any time,   *)
(* any number of times: the processed-message table only removes           *)
(* deliveries.  One that finds nothing to refund is acknowledged and lost. *)
(***************************************************************************)
RefundPayment(p) ==
  /\ Refundable(p)
  /\ payments' = [payments EXCEPT ![p].refundStatus = "SUCCEEDED"]
  /\ Emit(p, "PaymentRefunded")
  /\ Post("BOOKING_REFUND", p, Price)
  /\ UNCHANGED <<now, requestVars, topupVars>>

-----------------------------------------------------------------------------
(* Wallet top-ups.  Each request has a provider transaction id of its own: *)
(* a repeated one is refused by the lookup or by the unique index.         *)

Pending == {t \in Topup : topups[t] = "PENDING"}

\* The limit is checked in one statement and the row inserted in another.
CheckTopupRequest(t) ==
  /\ topups[t] = "NONE"
  /\ t \notin submitting
  /\ Cardinality(Pending) < MAX_PENDING_TOPUP_REQUESTS
  /\ submitting' = submitting \union {t}
  /\ UNCHANGED <<now, payments, emitted, requestVars, walletVars, topups>>

SaveTopupRequest(t) ==
  /\ t \in submitting
  /\ submitting' = submitting \ {t}
  /\ topups' = [topups EXCEPT ![t] = "PENDING"]
  /\ UNCHANGED <<now, payments, emitted, requestVars, walletVars>>

\* Fault: a request that was reviewed may be reviewed again.
Reviewable_Again(t) == topups[t] \in {"PENDING", "APPROVED", "REJECTED"}

\* Under the lock of the request row.
Reviewable(t) == topups[t] = "PENDING"

ApproveTopupRequest(t) ==
  /\ Reviewable(t)
  /\ topups' = [topups EXCEPT ![t] = "APPROVED"]
  /\ Post("TOPUP_APPROVED", t, TopupAmount)
  /\ UNCHANGED <<now, payments, emitted, requestVars, submitting>>

RejectTopupRequest(t) ==
  /\ Reviewable(t)
  /\ topups' = [topups EXCEPT ![t] = "REJECTED"]
  /\ UNCHANGED <<now, payments, emitted, requestVars, walletVars, submitting>>

Tick ==
  /\ now < MaxTime
  /\ now' = now + 1
  /\ UNCHANGED <<payments, emitted, requestVars, walletVars, topupVars>>

Next ==
  \/ \E p \in Payment, expiresAt \in now..MaxTime :
       CreatePaymentIntent(p, expiresAt)
  \/ \E r \in Request, k \in Key, p \in Payment, c \in Scenario :
       ConfirmLookup(r, k, p, c)
  \/ \E r \in Request : ConfirmRead(r)
  \/ \E r \in Request : ConfirmSaveExpired(r)
  \/ \E r \in Request : ConfirmRecord(r)
  \/ \E r \in Request : ConfirmPay(r)
  \/ \E p \in Payment, x \in Txn : ReconcileCheck(p, x)
  \/ \E p \in Payment, x \in Txn : ReconcileCredit(p, x)
  \/ \E p \in Payment, at \in (now - MaxLockWait)..now :
       PayBookingWithWallet(p, at)
  \/ \E p \in Payment : ExpirePendingPayment(p)
  \/ \E p \in Payment : RefundPayment(p)
  \/ \E t \in Topup : CheckTopupRequest(t)
  \/ \E t \in Topup : SaveTopupRequest(t)
  \/ \E t \in Topup : ApproveTopupRequest(t)
  \/ \E t \in Topup : RejectTopupRequest(t)
  \/ Tick

Spec == Init /\ [][Next]_vars

\* The clock advances and the expiry scheduler's timer fires.
FairSpec ==
  Spec /\ WF_vars(Tick) /\ \A p \in Payment : WF_vars(ExpirePendingPayment(p))

-----------------------------------------------------------------------------
(* Properties.                                                             *)

Refunded == {p \in Payment : payments[p].refundStatus = "SUCCEEDED"}

(***************************************************************************)
(* An administrator's late confirmation reads the row without a lock; it   *)
(* can overwrite a settlement only if another way to settle does not ask   *)
(* the clock under the lock: reconciliation, or the wallet when its        *)
(* transaction waited for the row across the expiry.                       *)
(***************************************************************************)
ConfirmationRaces == Request # {} /\ (Txn # {} \/ MaxLockWait # 0)

\* The service implements the contract its clients rely on, whatever the
\* interleaving of requests, with the two races where they are possible.
Contract == INSTANCE PaymentLifecycle WITH
  LateSettlement <- Txn # {},
  StaleExpiry <- ConfirmationRaces,
  status <- [p \in Payment |-> Status(p)],
  refunded <- Refunded,
  emitted <- emitted

ContractSpec == Contract!Spec

\* Without a confirmation race a payment is settled once: it is SUCCEEDED
\* exactly if one PaymentSucceeded event was written, and refunded exactly
\* if one PaymentRefunded event was.
SettledOnce ==
  ~ ConfirmationRaces =>
    \A p \in Payment :
      /\ emitted[p]["PaymentSucceeded"] = (IF Status(p) = "SUCCEEDED" THEN 1 ELSE 0)
      /\ emitted[p]["PaymentRefunded"] = (IF p \in Refunded THEN 1 ELSE 0)

\* However many requests carry an idempotency key, at the same time or one
\* after the other, at most one of them makes a payment attempt.
OneAttemptPerKey ==
  \A r, s \in Request :
    /\ r # s
    /\ confirms[r].pc = "attempted"
    /\ confirms[s].pc = "attempted"
    => confirms[r].key # confirms[s].key

\* The balance is what the rows of the other tables explain: approved
\* top-ups, less the payments debited, plus the payments refunded; each has
\* one ledger entry.
WalletIsExplained ==
  LET Posted(type) == {e \in LedgerEntry : e[1] = type /\ ledger[e] > 0} IN
  /\ \A e \in LedgerEntry : ledger[e] <= 1
  /\ Posted("TOPUP_APPROVED") =
       {<<"TOPUP_APPROVED", t>> : t \in {u \in Topup : topups[u] = "APPROVED"}}
  /\ Posted("BOOKING_REFUND") = {<<"BOOKING_REFUND", p>> : p \in Refunded}
  /\ balance = TopupAmount * Cardinality(Posted("TOPUP_APPROVED"))
               + Price * Cardinality(Posted("BOOKING_REFUND"))
               - Price * Cardinality(Posted("BOOKING_DEBIT"))

\* The wallet is never overdrawn, however its payments interleave.
NoOverdraft == balance >= 0

\* Without a confirmation race nobody pays twice: a payment is not both
\* debited from the wallet and credited from a bank transfer.
ChargedOnce ==
  ~ ConfirmationRaces =>
    \A p \in Payment :
      ledger[<<"BOOKING_DEBIT", p>>] > 0 => payments[p].providerTxnId = None

\* Every payment is settled or expires, even one left in PROCESSING.
PaymentsAreDecided ==
  \A p \in Payment :
    Status(p) # "NONE" ~> Status(p) \in {"SUCCEEDED", "EXPIRED"}
=============================================================================
