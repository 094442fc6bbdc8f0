--------------------------- MODULE PaymentsProofs ---------------------------
(***************************************************************************)
(* Theorems about Payments, for every set of payments, requests, keys and  *)
(* transactions, and every bound.                                          *)
(***************************************************************************)
EXTENDS Payments, FiniteSetTheorems, TLAPS

-----------------------------------------------------------------------------
(* Types.                                                                  *)


(* A request that started has a key and a payment. *)
Started ==
  \A r \in Request :
    confirms[r].pc # "idle" =>
      confirms[r].key \in Key /\ confirms[r].payment \in Payment

\* An intent opened anew is an intent.
LEMMA FreshIntent ==
  ASSUME NEW row \in PaymentIntent, NEW s \in PaymentStatus, NEW e \in Nat
  PROVE  [row EXCEPT !.paymentStatus = s, !.expiresAt = e] \in PaymentIntent
BY DEF PaymentIntent

LEMMA Types == Spec => [](TypeOK /\ Started)
<1>1. Init => TypeOK /\ Started
  BY PaymentsAssumption
  DEF Init, TypeOK, Started, PaymentIntent, PaymentStatus, Unsettled, Confirm,
      ConfirmState, Scenario
<1>2. TypeOK /\ Started /\ [Next]_vars => TypeOK' /\ Started'
  <2> SUFFICES ASSUME TypeOK, Started, [Next]_vars PROVE TypeOK' /\ Started'
    OBVIOUS
  <2>0. Price \in Nat /\ TopupAmount \in Nat /\ MaxTime \in Nat
    BY PaymentsAssumption
  <2> USE DEF TypeOK, Started, requestVars, walletVars, topupVars
  <2>1. ASSUME NEW p \in Payment, NEW s \in PaymentStatus, Become(p, s)
        PROVE  payments' \in [Payment -> PaymentIntent]
    BY <2>1 DEF Become, PaymentIntent
  <2>2. ASSUME NEW p \in Payment, NEW e \in EventType, Emit(p, e)
        PROVE  emitted' \in [Payment -> [EventType -> Nat]]
    BY <2>2 DEF Emit
  <2>3. ASSUME NEW r \in Request, NEW pc \in ConfirmState, Goto(r, pc),
               confirms[r].pc # "idle"
        PROVE  confirms' \in [Request -> Confirm] /\ Started'
    BY <2>3 DEF Goto, Confirm
  <2>4. ASSUME NEW r \in Request, confirms[r].pc # "idle", Record(r)
        PROVE  records' \in [Key -> Payment \union {None}]
    BY <2>4 DEF Record, Confirm
  <2>5. /\ PaymentStatus = {"PENDING", "PROCESSING", "FAILED", "NONE",
                            "SUCCEEDED", "EXPIRED"}
        /\ EventType = {"PaymentSucceeded", "PaymentFailed",
                        "PaymentExpired", "PaymentRefunded"}
        /\ ConfirmState = {"idle", "looked", "expiring", "recording",
                           "paying", "attempted", "ended"}
    BY DEF PaymentStatus, Unsettled, EventType, ConfirmState
  <2>6. /\ \A p \in Payment : <<"BOOKING_DEBIT", p>> \in LedgerEntry
        /\ \A p \in Payment : <<"BOOKING_REFUND", p>> \in LedgerEntry
        /\ \A t \in Topup : <<"TOPUP_APPROVED", t>> \in LedgerEntry
    BY DEF LedgerEntry
  <2>10. CASE \E p \in Payment, expiresAt \in now..MaxTime :
                CreatePaymentIntent(p, expiresAt)
    <3>1. PICK p \in Payment, expiresAt \in now..MaxTime :
            CreatePaymentIntent(p, expiresAt)
      BY <2>10
    <3>2. expiresAt \in Nat
      BY <2>0
    <3>3. payments' \in [Payment -> PaymentIntent]
      <4>1. [payments[p] EXCEPT !.paymentStatus = "PENDING", !.expiresAt = expiresAt]
              \in PaymentIntent
        <5>1. payments[p] \in PaymentIntent
          OBVIOUS
        <5>2. "PENDING" \in PaymentStatus
          BY <2>5
        <5>3. QED
          BY <3>2, <5>1, <5>2, FreshIntent
      <4>2. QED
        BY <2>5, <3>1, <4>1 DEF CreatePaymentIntent
    <3>4. QED
      BY <3>1, <3>3 DEF CreatePaymentIntent
  <2>11. CASE \E r \in Request, k \in Key, p \in Payment, c \in Scenario :
                ConfirmLookup(r, k, p, c)
    BY <2>5, <2>11 DEF ConfirmLookup, Confirm
  <2>12. CASE \E r \in Request : ConfirmRead(r)
    BY <2>3, <2>5, <2>12 DEF ConfirmRead
  <2>13. CASE \E r \in Request : ConfirmSaveExpired(r)
    BY <2>1, <2>3, <2>5, <2>13 DEF ConfirmSaveExpired
  <2>14. CASE \E r \in Request : ConfirmRecord(r)
    BY <2>3, <2>4, <2>5, <2>14 DEF ConfirmRecord
  <2>15. CASE \E r \in Request : ConfirmPay(r)
    <3>1. PICK r \in Request : ConfirmPay(r)
      BY <2>15
    <3>2. confirms[r].pc # "idle" /\ confirms[r].payment \in Payment
      BY <3>1 DEF ConfirmPay
    <3>3. confirms' \in [Request -> Confirm] /\ Started'
      BY <2>3, <2>5, <3>1, <3>2 DEF ConfirmPay, LockedConfirm, Attempt
    <3>4. records' \in [Key -> Payment \union {None}]
      BY <2>4, <3>1, <3>2 DEF ConfirmPay, LockedConfirm, Attempt
    <3>5. payments' \in [Payment -> PaymentIntent]
      BY <2>1, <2>5, <3>1, <3>2 DEF ConfirmPay, LockedConfirm, Attempt
    <3>6. emitted' \in [Payment -> [EventType -> Nat]]
      BY <2>2, <2>5, <3>1, <3>2 DEF ConfirmPay, LockedConfirm, Attempt
    <3>7. QED
      BY <3>1, <3>3, <3>4, <3>5, <3>6 DEF ConfirmPay
  <2>16. CASE \E p \in Payment, x \in Txn : ReconcileCheck(p, x)
    BY <2>16 DEF ReconcileCheck
  <2>17. CASE \E p \in Payment, x \in Txn : ReconcileCredit(p, x)
    <3>1. PICK p \in Payment, x \in Txn : ReconcileCredit(p, x)
      BY <2>17
    <3>2. payments' \in [Payment -> PaymentIntent]
      BY <2>5, <3>1, SMTT(30) DEF ReconcileCredit, PaymentIntent
    <3>3. QED
      BY <2>2, <2>5, <3>1, <3>2 DEF ReconcileCredit
  <2>18. CASE \E p \in Payment, at \in (now - MaxLockWait)..now :
                PayBookingWithWallet(p, at)
    <3>1. PICK p \in Payment, at \in (now - MaxLockWait)..now :
            PayBookingWithWallet(p, at)
      BY <2>18
    <3>2. balance' \in Int /\ ledger' \in [LedgerEntry -> Nat]
      <4>1. UNCHANGED walletVars \/ Post("BOOKING_DEBIT", p, -Price)
        BY <3>1 DEF PayBookingWithWallet
      <4>2. -Price \in Int /\ <<"BOOKING_DEBIT", p>> \in LedgerEntry
        BY <2>0, <2>6
      <4>3. CASE Post("BOOKING_DEBIT", p, -Price)
        BY <4>2, <4>3 DEF Post
      <4>4. QED
        BY <4>1, <4>3
    <3>3. /\ payments' \in [Payment -> PaymentIntent]
          /\ emitted' \in [Payment -> [EventType -> Nat]]
      BY <2>1, <2>2, <2>5, <3>1 DEF PayBookingWithWallet
    <3>4. QED
      BY <3>1, <3>2, <3>3 DEF PayBookingWithWallet
  <2>19. CASE \E p \in Payment : ExpirePendingPayment(p)
    BY <2>1, <2>2, <2>5, <2>19 DEF ExpirePendingPayment
  <2>20. CASE \E p \in Payment : RefundPayment(p)
    <3>1. PICK p \in Payment : RefundPayment(p)
      BY <2>20
    <3>2. balance' \in Int /\ ledger' \in [LedgerEntry -> Nat]
      BY <2>0, <2>6, <3>1 DEF RefundPayment, Post
    <3>3. payments' \in [Payment -> PaymentIntent]
      BY <3>1 DEF RefundPayment, PaymentIntent
    <3>4. QED
      BY <2>2, <2>5, <3>1, <3>2, <3>3 DEF RefundPayment
  <2>21. CASE \E t \in Topup : CheckTopupRequest(t)
    BY <2>21 DEF CheckTopupRequest
  <2>22. CASE \E t \in Topup : SaveTopupRequest(t)
    BY <2>22 DEF SaveTopupRequest
  <2>23. CASE \E t \in Topup : ApproveTopupRequest(t)
    <3>1. PICK t \in Topup : ApproveTopupRequest(t)
      BY <2>23
    <3>2. balance' \in Int /\ ledger' \in [LedgerEntry -> Nat]
      BY <2>0, <2>6, <3>1 DEF ApproveTopupRequest, Post
    <3>3. QED
      BY <3>1, <3>2 DEF ApproveTopupRequest
  <2>24. CASE \E t \in Topup : RejectTopupRequest(t)
    BY <2>24 DEF RejectTopupRequest
  <2>25. CASE Tick
    BY <2>0, <2>25 DEF Tick
  <2>26. CASE UNCHANGED vars
    BY <2>26 DEF vars
  <2> QED
    BY <2>10, <2>11, <2>12, <2>13, <2>14, <2>15, <2>16, <2>17, <2>18, <2>19,
       <2>20, <2>21, <2>22, <2>23, <2>24, <2>25, <2>26 DEF Next
<1> QED
  BY <1>1, <1>2, PTL DEF Spec

\* Every variable of the payment service keeps its type.
THEOREM TypeCorrect == Spec => []TypeOK
<1> QED
  BY Types, PTL

-----------------------------------------------------------------------------
(* Idempotency keys.                                                       *)

(***************************************************************************)
(* What makes the keys work: a request that made its attempt has its key   *)
(* recorded, and a recorded key stays recorded and refuses the next one.   *)
(***************************************************************************)
AttemptIsRecorded ==
  \A r \in Request :
    confirms[r].pc = "attempted" => Recorded(confirms[r].key)

\* However many requests carry a key, at most one makes an attempt: the
\* record is inserted in the transaction that makes it.
THEOREM KeysAreUsedOnce == Spec => []OneAttemptPerKey
<1> DEFINE Inv == AttemptIsRecorded /\ OneAttemptPerKey
<1>1. Init => Inv
  BY DEF Init, AttemptIsRecorded, OneAttemptPerKey
<1>2. TypeOK /\ Started /\ Inv /\ [Next]_vars => Inv'
  <2> SUFFICES ASSUME TypeOK, Started, Inv, [Next]_vars PROVE Inv'
    OBVIOUS
  <2> USE DEF TypeOK, Started, AttemptIsRecorded, OneAttemptPerKey, Recorded
  <2>1. \A r \in Request : confirms[r] \in Confirm
    OBVIOUS
  <2>2. ASSUME NEW r \in Request, NEW pc \in ConfirmState \ {"attempted"},
               Goto(r, pc), confirms[r].pc # "idle",
               Record(r) \/ UNCHANGED records
        PROVE  Inv'
    <3>1. \A q \in Request : /\ confirms'[q].key = confirms[q].key
                             /\ confirms'[q].pc = "attempted"
                                  => confirms[q].pc = "attempted"
      BY <2>1, <2>2 DEF Goto, Confirm
    <3>2. \A k \in Key : records[k] # None => records'[k] # None
      BY <2>2, PaymentsAssumption DEF Record
    <3>3. \A q \in Request : confirms[q].pc = "attempted"
                               => confirms[q].key \in Key
      OBVIOUS
    <3>4. QED
      BY <3>1, <3>2, <3>3
  <2>3. CASE \E r \in Request, k \in Key, p \in Payment, c \in Scenario :
               ConfirmLookup(r, k, p, c)
    BY <2>3 DEF ConfirmLookup
  <2>4. CASE \E r \in Request :
               ConfirmRead(r) \/ ConfirmSaveExpired(r) \/ ConfirmRecord(r)
    BY <2>2, <2>4 DEF ConfirmRead, ConfirmSaveExpired, ConfirmRecord,
       ConfirmState
  <2>5. CASE \E r \in Request : ConfirmPay(r)
    <3>1. PICK r \in Request : ConfirmPay(r)
      BY <2>5
    <3>2. CASE Goto(r, "ended") /\ (Record(r) \/ UNCHANGED records)
      BY <2>2, <3>1, <3>2 DEF ConfirmPay, ConfirmState
    <3>3. CASE Goto(r, "attempted") /\ Record(r)
      <4>1. \A q \in Request : /\ confirms'[q].key = confirms[q].key
                               /\ q # r => confirms'[q].pc = confirms[q].pc
        BY <2>1, <3>3 DEF Goto, Confirm
      <4>2. \A q \in Request : confirms[q].pc = "attempted"
                                 => confirms[q].key # confirms[r].key
        BY <3>3 DEF Record
      <4>3. confirms[r].key \in Key /\ confirms[r].payment \in Payment
        BY <3>1 DEF ConfirmPay
      <4>4. /\ records'[confirms[r].key] # None
            /\ \A k \in Key : records[k] # None => records'[k] # None
        BY <3>3, <4>3, PaymentsAssumption DEF Record
      <4>5. \A q \in Request : confirms[q].pc = "attempted"
                                 => confirms[q].key \in Key
        OBVIOUS
      <4>6. QED
        BY <4>1, <4>2, <4>3, <4>4, <4>5
    <3>4. QED
      BY <3>1, <3>2, <3>3 DEF ConfirmPay, LockedConfirm, Attempt
  <2>6. CASE UNCHANGED <<confirms, records>>
    BY <2>6
  <2>7. QED
    BY <2>3, <2>4, <2>5, <2>6
    DEF Next, vars, requestVars, CreatePaymentIntent, ReconcileCheck,
        ReconcileCredit, PayBookingWithWallet, ExpirePendingPayment,
        RefundPayment, CheckTopupRequest, SaveTopupRequest,
        ApproveTopupRequest, RejectTopupRequest, Tick
<1>3. QED
  BY <1>1, <1>2, Types, PTL DEF Spec

-----------------------------------------------------------------------------
(* The life of a payment.                                                  *)

\* A confirmation about to save EXPIRED found the payment past its expiry,
\* and nothing settles it any more unless a confirmation race is possible.
ExpiringIsLapsed ==
  \A r \in Request :
    confirms[r].pc = "expiring" =>
      /\ Status(confirms[r].payment) # "NONE"
      /\ Lapsed(confirms[r].payment, now)
      /\ ~ ConfirmationRaces => Status(confirms[r].payment) # "SUCCEEDED"

\* A reconciliation is checked for a payment that exists.
ReconciledExists == \A p \in Payment, x \in Txn :
                      <<p, x>> \in reconciles => Status(p) # "NONE"

LEMMA Rows ==
  ASSUME TypeOK, Started, Next, NEW p \in Payment, Status(p) # "NONE"
  PROVE  /\ Status(p)' # "NONE"
         /\ payments'[p].expiresAt = payments[p].expiresAt
         /\ \/ Status(p)' # "SUCCEEDED"
            \/ Status(p) = "SUCCEEDED"
            \/ Txn # {}
            \/ MaxLockWait # 0
            \/ ~ Lapsed(p, now)
<1> USE DEF TypeOK, Status, Lapsed
<1>1. \A q \in Payment : payments[q] \in PaymentIntent
  OBVIOUS
<1>2. ASSUME NEW q \in Payment, NEW s, s # "NONE", Become(q, s)
      PROVE  /\ payments'[p].paymentStatus # "NONE"
             /\ payments'[p].paymentStatus =
                  IF p = q THEN s ELSE payments[p].paymentStatus
             /\ payments'[p].expiresAt = payments[p].expiresAt
  BY <1>1, <1>2 DEF Become, PaymentIntent
<1>3. CASE \E q \in Payment, expiresAt \in now..MaxTime :
             CreatePaymentIntent(q, expiresAt)
  <2>1. PICK q \in Payment, expiresAt \in now..MaxTime :
          CreatePaymentIntent(q, expiresAt)
    BY <1>3
  <2>2. payments' = [payments EXCEPT ![q].paymentStatus = "PENDING",
                                     ![q].expiresAt = expiresAt]
        /\ payments[q].paymentStatus = "NONE"
    BY <2>1 DEF CreatePaymentIntent
  <2>3. CASE p = q
    BY <1>1, <2>2, <2>3 DEF PaymentIntent
  <2>4. CASE p # q
    BY <2>2, <2>4
  <2>5. QED
    BY <2>3, <2>4
<1>4. CASE \E r \in Request : ConfirmSaveExpired(r)
  <2>1. \E q \in Payment : Become(q, "EXPIRED")
    BY <1>4 DEF ConfirmSaveExpired, Started
  <2>2. QED
    BY <1>2, <2>1
<1>5. CASE \E r \in Request : ConfirmPay(r)
  <2>1. PICK r \in Request : ConfirmPay(r)
    BY <1>5
  <2>2. PICK q \in Payment : LockedConfirm(r, q)
    BY <2>1 DEF ConfirmPay, Started
  <2>3. CASE UNCHANGED payments
    BY <2>3
  <2>4. CASE Become(q, "EXPIRED")
    BY <1>2, <2>4
  <2>5. CASE ~ Lapsed(q, now) /\ Become(q, "SUCCEEDED")
    BY <1>2, <2>5
  <2>6. CASE Become(q, "FAILED")
    BY <1>2, <2>6
  <2>7. CASE Become(q, "PROCESSING")
    BY <1>2, <2>7
  <2>8. QED
    BY <2>2, <2>3, <2>4, <2>5, <2>6, <2>7 DEF LockedConfirm, Attempt
<1>6. CASE \E q \in Payment, x \in Txn : ReconcileCredit(q, x)
  BY <1>1, <1>6 DEF ReconcileCredit, PaymentIntent
<1>7. CASE \E q \in Payment, at \in (now - MaxLockWait)..now :
             PayBookingWithWallet(q, at)
  <2>1. PICK q \in Payment, at \in (now - MaxLockWait)..now :
          PayBookingWithWallet(q, at)
    BY <1>7
  <2>2. CASE Become(q, "EXPIRED")
    BY <1>2, <2>2
  <2>3. CASE Become(q, "SUCCEEDED") /\ ~ Lapsed(q, at)
    <3>1. MaxLockWait = 0 => at = now
      BY PaymentsAssumption
    <3>2. QED
      BY <1>2, <2>3, <3>1
  <2>4. QED
    BY <2>1, <2>2, <2>3 DEF PayBookingWithWallet
<1>8. CASE \E q \in Payment : ExpirePendingPayment(q)
  BY <1>2, <1>8 DEF ExpirePendingPayment
<1>9. CASE \E q \in Payment : RefundPayment(q)
  BY <1>1, <1>9 DEF RefundPayment, PaymentIntent
<1>10. CASE UNCHANGED payments
  BY <1>10
<1>11. QED
  BY <1>3, <1>4, <1>5, <1>6, <1>7, <1>8, <1>9, <1>10
  DEF Next, ConfirmLookup, ConfirmRead, ConfirmRecord, ReconcileCheck,
      CheckTopupRequest, SaveTopupRequest, ApproveTopupRequest,
      RejectTopupRequest, Tick

LEMMA Windows == Spec => [](ExpiringIsLapsed /\ ReconciledExists)
<1> DEFINE Inv == ExpiringIsLapsed /\ ReconciledExists
<1>1. Init => Inv
  BY DEF Init, ExpiringIsLapsed, ReconciledExists
<1>2. TypeOK /\ Started /\ Inv /\ [Next]_vars => Inv'
  <2> SUFFICES ASSUME TypeOK, Started, Inv, Next PROVE Inv'
    BY DEF vars, requestVars, Inv, ExpiringIsLapsed, ReconciledExists, Status,
       Lapsed
  <2>1. now \in Int /\ now' \in Int /\ now' >= now
    <3>1. now' = now \/ now' = now + 1
      BY DEF Next, CreatePaymentIntent, ConfirmLookup, ConfirmRead,
         ConfirmSaveExpired, ConfirmRecord, ConfirmPay, ReconcileCheck,
         ReconcileCredit, PayBookingWithWallet, ExpirePendingPayment,
         RefundPayment, CheckTopupRequest, SaveTopupRequest,
         ApproveTopupRequest, RejectTopupRequest, Tick
    <3>2. QED
      BY <3>1 DEF TypeOK
  <2>2. \A p \in Payment : payments[p].expiresAt \in Nat
    BY DEF TypeOK, PaymentIntent
  <2>3. ASSUME NEW p \in Payment, Status(p) # "NONE", Lapsed(p, now)
        PROVE  Lapsed(p, now)'
    BY <2>1, <2>2, <2>3, Rows DEF Lapsed
  <2>4. ASSUME NEW r \in Request, confirms'[r].pc = "expiring"
        PROVE  \/ /\ confirms[r].pc = "expiring"
                  /\ confirms'[r].payment = confirms[r].payment
                  /\ confirms[r].payment \in Payment
               \/ /\ confirms'[r].payment = confirms[r].payment
                  /\ confirms[r].payment \in Payment
                  /\ Status(confirms[r].payment) \in {"PENDING", "FAILED"}
                  /\ Lapsed(confirms[r].payment, now)
                  /\ UNCHANGED <<now, payments>>
    <3> USE DEF TypeOK, Started
    <3>1. \A q \in Request : confirms[q] \in Confirm
      OBVIOUS
    <3>2. ASSUME NEW q \in Request, NEW pc, Goto(q, pc)
          PROVE  /\ confirms'[r].payment = confirms[r].payment
                 /\ confirms'[r].pc = IF q = r THEN pc ELSE confirms[r].pc
      BY <3>1, <3>2 DEF Goto, Confirm
    <3>3. CASE \E q \in Request, k \in Key, p \in Payment, c \in Scenario :
                 ConfirmLookup(q, k, p, c)
      BY <2>4, <3>1, <3>3 DEF ConfirmLookup, Confirm
    <3>4. CASE \E q \in Request : ConfirmRead(q)
      <4>1. PICK q \in Request : ConfirmRead(q)
        BY <3>4
      <4>2. \/ Goto(q, "ended") \/ Goto(q, "paying") \/ Goto(q, "recording")
            \/ /\ Goto(q, "expiring")
               /\ Status(confirms[q].payment) \in {"PENDING", "FAILED"}
               /\ Lapsed(confirms[q].payment, now)
               /\ UNCHANGED <<now, payments>>
        BY <4>1 DEF ConfirmRead
      <4>3. confirms[q].payment \in Payment
        BY <4>1 DEF ConfirmRead
      <4>4. QED
        BY <2>4, <3>2, <4>2, <4>3
    <3>5. CASE \E q \in Request : ConfirmSaveExpired(q) \/ ConfirmRecord(q)
      BY <2>4, <3>2, <3>5 DEF ConfirmSaveExpired, ConfirmRecord
    <3>6. CASE \E q \in Request : ConfirmPay(q)
      BY <2>4, <3>2, <3>6 DEF ConfirmPay, LockedConfirm, Attempt
    <3>7. CASE UNCHANGED confirms
      BY <2>4, <3>7
    <3>8. QED
      BY <3>3, <3>4, <3>5, <3>6, <3>7
      DEF Next, requestVars, CreatePaymentIntent, ReconcileCheck,
          ReconcileCredit, PayBookingWithWallet, ExpirePendingPayment,
          RefundPayment, CheckTopupRequest, SaveTopupRequest,
          ApproveTopupRequest, RejectTopupRequest, Tick
  <2>5. ASSUME NEW r \in Request, confirms'[r].pc = "expiring",
               NEW p \in Payment, p = confirms'[r].payment
        PROVE  /\ Status(p)' # "NONE"
               /\ Lapsed(p, now)'
               /\ ~ ConfirmationRaces => Status(p)' # "SUCCEEDED"
    <3>1. CASE confirms[r].pc = "expiring"
      <4>1. /\ Status(p) # "NONE"
            /\ Lapsed(p, now)
            /\ ~ ConfirmationRaces => Status(p) # "SUCCEEDED"
        BY <2>4, <2>5, <3>1 DEF ExpiringIsLapsed
      <4>2. QED
        BY <2>3, <4>1, Rows DEF ConfirmationRaces
    <3>2. CASE confirms[r].pc # "expiring"
      BY <2>4, <2>5, <3>2 DEF Status, Lapsed
    <3>3. QED
      BY <3>1, <3>2
  <2>6. ReconciledExists'
    <3> SUFFICES ASSUME NEW p \in Payment, NEW x \in Txn,
                        <<p, x>> \in reconciles'
                 PROVE  Status(p)' # "NONE"
      BY DEF ReconciledExists
    <3>1. CASE <<p, x>> \in reconciles
      BY <3>1, Rows DEF ReconciledExists
    <3>2. CASE \E q \in Payment, y \in Txn : ReconcileCheck(q, y)
      <4>1. PICK q \in Payment, y \in Txn : ReconcileCheck(q, y)
        BY <3>2
      <4>2. <<p, x>> \in reconciles \/ p = q
        BY <4>1 DEF ReconcileCheck
      <4>3. QED
        BY <3>1, <4>1, <4>2, Rows DEF ReconcileCheck
    <3>3. CASE reconciles' \subseteq reconciles
      BY <3>1, <3>3
    <3>4. QED
      BY <3>2, <3>3 DEF Next, requestVars, CreatePaymentIntent,
         ConfirmLookup, ConfirmRead, ConfirmSaveExpired, ConfirmRecord,
         ConfirmPay, ReconcileCredit, PayBookingWithWallet,
         ExpirePendingPayment, RefundPayment, CheckTopupRequest,
         SaveTopupRequest, ApproveTopupRequest, RejectTopupRequest, Tick
  <2>7. QED
    BY <2>4, <2>5, <2>6 DEF ExpiringIsLapsed, Status, Lapsed
<1>3. QED
  BY <1>1, <1>2, Types, PTL DEF Spec

-----------------------------------------------------------------------------
(* The contract.                                                           *)

(***************************************************************************)
(* The payment service implements PaymentLifecycle: every interleaving of  *)
(* confirmations, reconciliations, wallet payments, expiries and refunds   *)
(* changes the status of a payment, and writes its events, only as the     *)
(* contract allows.                                                        *)
(***************************************************************************)
THEOREM ImplementsContract == Spec => ContractSpec
<1>1. Init => Contract!Init
  BY DEF Init, Status, Refunded, Contract!Init, Contract!EventType, EventType
<1>2. /\ TypeOK /\ Started /\ ExpiringIsLapsed /\ ReconciledExists
      /\ [Next]_vars
      => [Contract!Next]_(Contract!vars)
  <2> SUFFICES ASSUME TypeOK, Started, ExpiringIsLapsed, ReconciledExists,
                      [Next]_vars
               PROVE  [Contract!Next]_(Contract!vars)
    OBVIOUS
  <2> DEFINE status == [p \in Payment |-> Status(p)]
  <2>1. \A p \in Payment : payments[p] \in PaymentIntent
    BY DEF TypeOK
  <2>2. ASSUME NEW p \in Payment, NEW s, Become(p, s)
        PROVE  Contract!Become(p, s) /\ UNCHANGED Refunded
    BY <2>1, <2>2 DEF TypeOK, Become, Contract!Become, Refunded, Status,
       PaymentIntent
  <2>3. ASSUME NEW p \in Payment, NEW e, Emit(p, e)
        PROVE  Contract!Emit(p, e)
    BY <2>3 DEF Emit, Contract!Emit
  <2>4. ASSUME NEW p \in Payment, Status(p) = "EXPIRED", Become(p, "EXPIRED")
        PROVE  UNCHANGED <<status, Refunded>>
    BY <2>1, <2>2, <2>4 DEF TypeOK, Become, Status, PaymentIntent
  <2>5. ASSUME NEW p \in Payment,
               Status(p) \in Unsettled \/ (Txn # {} /\ Status(p) = "EXPIRED"),
               Contract!Become(p, "SUCCEEDED"), Emit(p, "PaymentSucceeded"),
               UNCHANGED Refunded
        PROVE  Contract!Next
    BY <2>3, <2>5 DEF Contract!Next, Contract!Settle, Contract!Unsettled,
       Unsettled
  <2>6. CASE \E p \in Payment, expiresAt \in now..MaxTime :
               CreatePaymentIntent(p, expiresAt)
    <3>1. PICK p \in Payment, expiresAt \in now..MaxTime :
            CreatePaymentIntent(p, expiresAt)
      BY <2>6
    <3>2. Contract!Become(p, "PENDING") /\ UNCHANGED Refunded
      BY <2>1, <3>1 DEF TypeOK, CreatePaymentIntent, Contract!Become, Refunded,
         Status, PaymentIntent
    <3>3. QED
      BY <3>1, <3>2 DEF CreatePaymentIntent, Contract!Next, Contract!Create
  <2>7. CASE \E r \in Request : ConfirmSaveExpired(r)
    <3>1. PICK r \in Request : ConfirmSaveExpired(r)
      BY <2>7
    <3> DEFINE q == confirms[r].payment
    <3>2. PICK p \in Payment : p = q
      BY <3>1 DEF ConfirmSaveExpired, Started
    <3>3. /\ Become(p, "EXPIRED")
          /\ Status(p) # "NONE"
          /\ ~ ConfirmationRaces => Status(p) # "SUCCEEDED"
          /\ UNCHANGED emitted
      BY <3>1, <3>2 DEF ConfirmSaveExpired, ExpiringIsLapsed
    <3>4. Status(p) \in PaymentStatus
      BY <2>1 DEF Status, PaymentIntent
    <3>5. CASE Status(p) = "EXPIRED"
      BY <2>4, <3>3, <3>5 DEF Contract!vars
    <3>6. CASE Status(p) # "EXPIRED"
      BY <2>2, <3>3, <3>4, <3>6
      DEF Contract!Next, Contract!ExpireSilently, Contract!Unsettled,
          PaymentStatus, Unsettled
    <3>7. QED
      BY <3>5, <3>6
  <2>8. CASE \E r \in Request : ConfirmPay(r)
    <3>1. PICK r \in Request : ConfirmPay(r)
      BY <2>8
    <3>2. PICK p \in Payment : LockedConfirm(r, p)
      BY <3>1 DEF ConfirmPay, Started
    <3>3. CASE UNCHANGED <<payments, emitted>>
      BY <3>3 DEF Contract!vars, Status, Refunded
    <3>4. CASE /\ Status(p) \in {"PENDING", "FAILED"}
               /\ Become(p, "EXPIRED")
               /\ UNCHANGED emitted
      BY <2>2, <3>4
      DEF Contract!Next, Contract!ExpireSilently, Contract!Unsettled
    <3>5. CASE /\ Status(p) \in {"PENDING", "FAILED"}
               /\ Attempt(r, p, confirms[r].scenario)
      <4>1. CASE Become(p, "SUCCEEDED") /\ Emit(p, "PaymentSucceeded")
        BY <2>2, <2>5, <3>5, <4>1 DEF Unsettled
      <4>2. CASE Become(p, "FAILED") /\ Emit(p, "PaymentFailed")
        BY <2>2, <2>3, <3>5, <4>2 DEF Contract!Next, Contract!Decline
      <4>3. CASE Become(p, "PROCESSING") /\ UNCHANGED emitted
        BY <2>2, <3>5, <4>3 DEF Contract!Next, Contract!Stall
      <4>4. QED
        BY <3>5, <4>1, <4>2, <4>3 DEF Attempt
    <3>6. QED
      BY <3>2, <3>3, <3>4, <3>5 DEF LockedConfirm
  <2>9. CASE \E p \in Payment, x \in Txn : ReconcileCredit(p, x)
    <3>1. PICK p \in Payment, x \in Txn : ReconcileCredit(p, x)
      BY <2>9
    <3>2. CASE MayCredit(p, x)
      <4>1. Contract!Become(p, "SUCCEEDED") /\ UNCHANGED Refunded
        <5>1. \A q \in Payment :
                /\ payments'[q].refundStatus = payments[q].refundStatus
                /\ payments'[q].paymentStatus =
                     IF q = p THEN "SUCCEEDED" ELSE payments[q].paymentStatus
          BY <2>1, <3>1, <3>2 DEF TypeOK, ReconcileCredit, PaymentIntent
        <5>2. QED
          BY <5>1 DEF Contract!Become, Refunded, Status
      <4>2. Status(p) \in Unsettled \/ Status(p) = "EXPIRED"
        BY <2>1, <3>1, <3>2 DEF ReconcileCredit, MayCredit, Credited,
           ReconciledExists, Status, PaymentIntent, PaymentStatus
      <4>3. QED
        BY <2>5, <3>1, <3>2, <4>1, <4>2 DEF ReconcileCredit
    <3>3. CASE ~ MayCredit(p, x)
      BY <3>1, <3>3 DEF ReconcileCredit, Contract!vars, Status, Refunded
    <3>4. QED
      BY <3>2, <3>3
  <2>10. CASE \E p \in Payment, at \in (now - MaxLockWait)..now :
                PayBookingWithWallet(p, at)
    <3>1. PICK p \in Payment, at \in (now - MaxLockWait)..now :
            PayBookingWithWallet(p, at)
      BY <2>10
    <3>2. CASE /\ Status(p) \in Unsettled \union {"EXPIRED"}
               /\ Become(p, "EXPIRED")
               /\ Emit(p, "PaymentExpired")
      BY <2>2, <2>3, <3>2
      DEF Contract!Next, Contract!Expire, Contract!Unsettled, Unsettled
    <3>3. CASE /\ Debitable(p)
               /\ Become(p, "SUCCEEDED")
               /\ Emit(p, "PaymentSucceeded")
      BY <2>2, <2>5, <3>3 DEF Debitable, Unsettled
    <3>4. QED
      BY <3>1, <3>2, <3>3 DEF PayBookingWithWallet
  <2>11. CASE \E p \in Payment : ExpirePendingPayment(p)
    BY <2>2, <2>3, <2>11
    DEF ExpirePendingPayment, ExpiryCandidate, Contract!Next, Contract!Expire,
        Contract!Unsettled, Unsettled
  <2>12. CASE \E p \in Payment : RefundPayment(p)
    <3>1. PICK p \in Payment : RefundPayment(p)
      BY <2>12
    <3>2. UNCHANGED status /\ Refunded' = Refunded \union {p}
      BY <2>1, <3>1 DEF TypeOK, RefundPayment, Refunded, Status, PaymentIntent
    <3>3. QED
      BY <2>3, <3>1, <3>2 DEF RefundPayment, Refundable, Contract!Next,
         Contract!Refund, Refunded, Status
  <2>13. CASE UNCHANGED <<payments, emitted>>
    BY <2>13 DEF Contract!vars, Status, Refunded
  <2>14. QED
    BY <2>6, <2>7, <2>8, <2>9, <2>10, <2>11, <2>12, <2>13
    DEF Next, vars, ConfirmLookup, ConfirmRead, ConfirmRecord, ReconcileCheck,
        CheckTopupRequest, SaveTopupRequest, ApproveTopupRequest,
        RejectTopupRequest, Tick
<1>3. QED
  BY <1>1, <1>2, Types, Windows, PTL DEF Spec, ContractSpec, Contract!Spec

(***************************************************************************)
(* A payment is SUCCEEDED exactly if one PaymentSucceeded event was        *)
(* written, and refunded exactly if one PaymentRefunded event was, unless  *)
(* a confirmation race is possible: the row is changed under its lock, or  *)
(* by a confirmation that found it past an expiry nothing else ignores.    *)
(***************************************************************************)
THEOREM PaymentsAreSettledOnce == Spec => []SettledOnce
<1>1. Init => SettledOnce
  BY DEF Init, SettledOnce, Status, Refunded, EventType
<1>2. TypeOK /\ Started /\ ExpiringIsLapsed /\ SettledOnce /\ [Next]_vars
      => SettledOnce'
  <2> SUFFICES ASSUME TypeOK, Started, ExpiringIsLapsed, SettledOnce,
                      ~ ConfirmationRaces, [Next]_vars
               PROVE  SettledOnce'
    BY DEF SettledOnce
  <2>1. /\ \A p \in Payment : payments[p] \in PaymentIntent
        /\ payments \in [Payment -> PaymentIntent]
        /\ emitted \in [Payment -> [EventType -> Nat]]
        /\ {"PaymentSucceeded", "PaymentFailed", "PaymentExpired",
            "PaymentRefunded"} = EventType
    BY DEF TypeOK, EventType
  <2>2. ASSUME UNCHANGED <<payments, emitted>>
        PROVE  SettledOnce'
    BY <2>2 DEF SettledOnce, Status, Refunded
  <2>3. ASSUME NEW p \in Payment, Status(p) # "SUCCEEDED",
               Become(p, "SUCCEEDED"), Emit(p, "PaymentSucceeded")
        PROVE  SettledOnce'
    BY <2>1, <2>3 DEF SettledOnce, Status, Refunded, Become, Emit, PaymentIntent
  <2>4. ASSUME NEW p \in Payment, Status(p) # "SUCCEEDED",
               NEW s \in {"FAILED", "PROCESSING", "EXPIRED"}, Become(p, s),
               \/ UNCHANGED emitted
               \/ Emit(p, "PaymentFailed") \/ Emit(p, "PaymentExpired")
        PROVE  SettledOnce'
    BY <2>1, <2>4 DEF SettledOnce, Status, Refunded, Become, Emit, PaymentIntent
  <2>5. CASE \E p \in Payment, expiresAt \in now..MaxTime :
               CreatePaymentIntent(p, expiresAt)
    BY <2>1, <2>5 DEF CreatePaymentIntent, SettledOnce, Status, Refunded,
       PaymentIntent
  <2>6. CASE \E r \in Request : ConfirmSaveExpired(r)
    <3>1. PICK r \in Request : ConfirmSaveExpired(r)
      BY <2>6
    <3>2. PICK p \in Payment : p = confirms[r].payment
      BY <3>1 DEF ConfirmSaveExpired, Started
    <3>3. QED
      BY <2>4, <3>1, <3>2 DEF ConfirmSaveExpired, ExpiringIsLapsed
  <2>7. CASE \E r \in Request : ConfirmPay(r)
    <3>1. PICK r \in Request : ConfirmPay(r)
      BY <2>7
    <3>2. PICK p \in Payment : LockedConfirm(r, p)
      BY <3>1 DEF ConfirmPay, Started
    <3>3. QED
      BY <2>2, <2>3, <2>4, <3>2 DEF LockedConfirm, Attempt
  <2>8. CASE \E p \in Payment, x \in Txn : ReconcileCredit(p, x)
    <3>1. PICK p \in Payment, x \in Txn : ReconcileCredit(p, x)
      BY <2>8
    <3>2. CASE MayCredit(p, x)
      <4>1. /\ Status(p) # "SUCCEEDED"
            /\ Emit(p, "PaymentSucceeded")
            /\ \A q \in Payment :
                 /\ payments'[q].refundStatus = payments[q].refundStatus
                 /\ payments'[q].paymentStatus =
                      IF q = p THEN "SUCCEEDED" ELSE payments[q].paymentStatus
        BY <2>1, <3>1, <3>2 DEF ReconcileCredit, MayCredit, Credited,
           PaymentIntent
      <4>2. QED
        BY <2>1, <4>1 DEF SettledOnce, Status, Refunded, Emit
    <3>3. QED
      BY <2>2, <3>1, <3>2 DEF ReconcileCredit
  <2>9. CASE \E p \in Payment, at \in (now - MaxLockWait)..now :
               PayBookingWithWallet(p, at)
    BY <2>3, <2>4, <2>9 DEF PayBookingWithWallet, Debitable, Unsettled
  <2>10. CASE \E p \in Payment : ExpirePendingPayment(p)
    BY <2>4, <2>10 DEF ExpirePendingPayment, ExpiryCandidate, Unsettled
  <2>11. CASE \E p \in Payment : RefundPayment(p)
    <3>1. PICK p \in Payment : RefundPayment(p)
      BY <2>11
    <3>2. /\ Emit(p, "PaymentRefunded")
          /\ p \notin Refunded
          /\ \A q \in Payment :
               /\ payments'[q].paymentStatus = payments[q].paymentStatus
               /\ payments'[q].refundStatus =
                    IF q = p THEN "SUCCEEDED" ELSE payments[q].refundStatus
      BY <2>1, <3>1 DEF RefundPayment, Refundable, Refunded, PaymentIntent
    <3>3. QED
      BY <2>1, <3>2 DEF SettledOnce, Status, Refunded, Emit
  <2>12. QED
    BY <2>2, <2>5, <2>6, <2>7, <2>8, <2>9, <2>10, <2>11
    DEF Next, vars, ConfirmLookup, ConfirmRead, ConfirmRecord, ReconcileCheck,
        CheckTopupRequest, SaveTopupRequest, ApproveTopupRequest,
        RejectTopupRequest, Tick
<1>3. QED
  BY <1>1, <1>2, Types, Windows, PTL DEF Spec

-----------------------------------------------------------------------------
(* The wallet.                                                             *)

Posted(type) == {e \in LedgerEntry : e[1] = type /\ ledger[e] > 0}

\* A payment that was debited, or credited from a transfer, is settled and
\* never returns to a status in which it could be paid once more.
PaidIsSettled ==
  \A p \in Payment :
    \/ ledger[<<"BOOKING_DEBIT", p>>] > 0
    \/ payments[p].providerTxnId # None
    => Status(p) \in {"SUCCEEDED", "EXPIRED"}

Debits  == Posted("BOOKING_DEBIT")
Refunds == Posted("BOOKING_REFUND")
Topups  == Posted("TOPUP_APPROVED")

\* WalletIsExplained, with what it takes to count the entries.
Explained ==
  /\ IsFiniteSet(Debits) /\ IsFiniteSet(Refunds) /\ IsFiniteSet(Topups)
  /\ \A e \in LedgerEntry : ledger[e] <= 1
  /\ \A p \in Payment : <<"BOOKING_REFUND", p>> \in Refunds <=> p \in Refunded
  /\ \A t \in Topup :
       <<"TOPUP_APPROVED", t>> \in Topups <=> topups[t] = "APPROVED"
  /\ balance = TopupAmount * Cardinality(Topups)
               + Price * Cardinality(Refunds) - Price * Cardinality(Debits)

LEMMA Entries ==
  /\ \A p \in Payment : <<"BOOKING_DEBIT", p>> \in LedgerEntry
  /\ \A p \in Payment : <<"BOOKING_REFUND", p>> \in LedgerEntry
  /\ \A t \in Topup : <<"TOPUP_APPROVED", t>> \in LedgerEntry
  /\ \A e \in LedgerEntry :
       \/ \E p \in Payment : e = <<"BOOKING_DEBIT", p>>
       \/ \E p \in Payment : e = <<"BOOKING_REFUND", p>>
       \/ \E t \in Topup : e = <<"TOPUP_APPROVED", t>>
BY DEF LedgerEntry

\* A top-up request on its way to the table is not there yet.
SubmittedIsNew == \A t \in submitting : topups[t] = "NONE"

LEMMA Submissions == Spec => []SubmittedIsNew
<1>1. Init => SubmittedIsNew
  BY DEF Init, SubmittedIsNew
<1>2. TypeOK /\ SubmittedIsNew /\ [Next]_vars => SubmittedIsNew'
  <2> SUFFICES ASSUME TypeOK, SubmittedIsNew, [Next]_vars PROVE SubmittedIsNew'
    OBVIOUS
  <2> USE DEF TypeOK, SubmittedIsNew
  <2>1. CASE \E t \in Topup : CheckTopupRequest(t)
    BY <2>1 DEF CheckTopupRequest
  <2>2. CASE \E t \in Topup : SaveTopupRequest(t)
    BY <2>2 DEF SaveTopupRequest
  <2>3. CASE \E t \in Topup : ApproveTopupRequest(t) \/ RejectTopupRequest(t)
    BY <2>3 DEF ApproveTopupRequest, RejectTopupRequest, Reviewable
  <2>4. CASE UNCHANGED topupVars
    BY <2>4 DEF topupVars
  <2>5. QED
    BY <2>1, <2>2, <2>3, <2>4
    DEF Next, vars, CreatePaymentIntent, ConfirmLookup, ConfirmRead,
        ConfirmSaveExpired, ConfirmRecord, ConfirmPay, ReconcileCheck,
        ReconcileCredit, PayBookingWithWallet, ExpirePendingPayment,
        RefundPayment, Tick, topupVars
<1>3. QED
  BY <1>1, <1>2, Types, PTL DEF Spec

\* A posting that was not made before adds one entry of its type.
LEMMA Posting ==
  ASSUME TypeOK, NEW type, NEW id, NEW amount, <<type, id>> \in LedgerEntry,
         ledger[<<type, id>>] = 0, Post(type, id, amount),
         IsFiniteSet(Posted(type))
  PROVE  /\ Posted(type)' = Posted(type) \union {<<type, id>>}
         /\ IsFiniteSet(Posted(type)')
         /\ Cardinality(Posted(type)') = Cardinality(Posted(type)) + 1
         /\ \A other : other # type => Posted(other)' = Posted(other)
         /\ ledger'[<<type, id>>] = 1
         /\ \A e \in LedgerEntry : e # <<type, id>> => ledger'[e] = ledger[e]
<1>1. /\ ledger'[<<type, id>>] = 1
      /\ \A e \in LedgerEntry : e # <<type, id>> => ledger'[e] = ledger[e]
  BY DEF Post, TypeOK
<1>2. Posted(type)' = Posted(type) \union {<<type, id>>}
  BY <1>1 DEF Posted
<1>3. <<type, id>> \notin Posted(type)
  BY DEF Posted
<1>4. \A other : other # type => Posted(other)' = Posted(other)
  BY <1>1 DEF Posted
<1>5. QED
  BY <1>1, <1>2, <1>3, <1>4, FS_AddElement

LEMMA Wallet == Spec => [](PaidIsSettled /\ Explained)
<1> DEFINE Inv == PaidIsSettled /\ Explained
<1>1. Init => Inv
  <2> SUFFICES ASSUME Init PROVE Inv
    OBVIOUS
  <2>1. Debits = {} /\ Refunds = {} /\ Topups = {}
    BY Entries DEF Init, Debits, Refunds, Topups, Posted
  <2>2. PaidIsSettled
    BY Entries DEF Init, PaidIsSettled
  <2>3. IsFiniteSet({}) /\ Cardinality({}) = 0
    BY FS_EmptySet
  <2>4. Explained
    BY <2>1, <2>3, PaymentsAssumption DEF Init, Explained, Refunded
  <2>5. QED
    BY <2>2, <2>4
<1>2. TypeOK /\ Started /\ SubmittedIsNew /\ Inv /\ [Next]_vars => Inv'
  <2> SUFFICES ASSUME TypeOK, Started, SubmittedIsNew, Inv, [Next]_vars
               PROVE  Inv'
    OBVIOUS
  <2>1. Price \in Nat /\ TopupAmount \in Nat
    BY PaymentsAssumption
  <2>2. /\ payments \in [Payment -> PaymentIntent]
        /\ \A p \in Payment : payments[p] \in PaymentIntent
        /\ ledger \in [LedgerEntry -> Nat]
        /\ topups \in [Topup -> {"NONE", "PENDING", "APPROVED", "REJECTED"}]
        /\ balance \in Int
    BY DEF TypeOK
  <2>3. /\ Cardinality(Debits) \in Nat /\ Cardinality(Refunds) \in Nat
        /\ Cardinality(Topups) \in Nat
    BY FS_CardinalityType DEF Explained
  <2>4. ASSUME UNCHANGED <<balance, ledger>>,
               UNCHANGED Refunded,
               \A t \in Topup : topups'[t] = "APPROVED" <=> topups[t] = "APPROVED"
        PROVE  Explained'
    BY <2>4 DEF Explained, Debits, Refunds, Topups, Posted
  <2>5. ASSUME NEW p \in Payment, NEW s, Become(p, s),
               s \in {"SUCCEEDED", "EXPIRED"}
                 \/ Status(p) \in {"PENDING", "FAILED"},
               UNCHANGED ledger
        PROVE  PaidIsSettled'
    BY <2>2, <2>5, Entries DEF PaidIsSettled, Status, Become, PaymentIntent
  <2>6. ASSUME NEW p \in Payment, NEW s, Become(p, s)
        PROVE  UNCHANGED Refunded
    BY <2>2, <2>6 DEF Become, Refunded, PaymentIntent
  <2>7. CASE \E p \in Payment, expiresAt \in now..MaxTime :
               CreatePaymentIntent(p, expiresAt)
    <3>1. PICK p \in Payment, expiresAt \in now..MaxTime :
            CreatePaymentIntent(p, expiresAt)
      BY <2>7
    <3>2. /\ UNCHANGED <<balance, ledger, topups>>
          /\ Status(p) = "NONE"
          /\ \A q \in Payment :
               /\ payments'[q].refundStatus = payments[q].refundStatus
               /\ payments'[q].providerTxnId = payments[q].providerTxnId
               /\ q # p => Status(q)' = Status(q)
      BY <2>2, <3>1 DEF CreatePaymentIntent, walletVars, topupVars, Status,
         PaymentIntent
    <3>3. PaidIsSettled'
      BY <3>2 DEF PaidIsSettled
    <3>4. Explained'
      BY <2>4, <3>2 DEF Refunded
    <3>5. QED
      BY <3>3, <3>4
  <2>8. CASE \E r \in Request : ConfirmSaveExpired(r)
    <3>1. PICK p \in Payment : Become(p, "EXPIRED")
      BY <2>8 DEF ConfirmSaveExpired, Started
    <3>2. UNCHANGED <<balance, ledger, topups>>
      BY <2>8 DEF ConfirmSaveExpired, walletVars, topupVars
    <3>3. QED
      BY <2>4, <2>5, <2>6, <3>1, <3>2
  <2>9. CASE \E r \in Request : ConfirmPay(r)
    <3>1. PICK r \in Request : ConfirmPay(r)
      BY <2>9
    <3>2. PICK p \in Payment : LockedConfirm(r, p)
      BY <3>1 DEF ConfirmPay, Started
    <3>3. UNCHANGED <<balance, ledger, topups>>
      BY <3>1 DEF ConfirmPay, walletVars, topupVars
    <3>4. CASE UNCHANGED payments
      BY <2>4, <3>3, <3>4 DEF PaidIsSettled, Refunded, Status
    <3>5. CASE Status(p) \in {"PENDING", "FAILED"} /\ \E s : Become(p, s)
      BY <2>4, <2>5, <2>6, <3>3, <3>5
    <3>6. QED
      BY <3>2, <3>4, <3>5 DEF LockedConfirm, Attempt
  <2>10. CASE \E p \in Payment, x \in Txn : ReconcileCredit(p, x)
    <3>1. PICK p \in Payment, x \in Txn : ReconcileCredit(p, x)
      BY <2>10
    <3>2. UNCHANGED <<balance, ledger, topups>>
      BY <3>1 DEF ReconcileCredit, walletVars, topupVars
    <3>3. CASE UNCHANGED payments
      BY <2>4, <3>2, <3>3 DEF PaidIsSettled, Refunded, Status
    <3>4. CASE payments' = [payments EXCEPT ![p].paymentStatus = "SUCCEEDED",
                                            ![p].providerTxnId = x]
      <4>1. \A q \in Payment :
              /\ payments'[q].refundStatus = payments[q].refundStatus
              /\ q # p => payments'[q] = payments[q]
              /\ q = p => Status(q)' = "SUCCEEDED"
        BY <2>2, <3>4 DEF Status, PaymentIntent
      <4>2. PaidIsSettled'
        BY <3>2, <4>1 DEF PaidIsSettled, Status
      <4>3. Explained'
        BY <2>4, <3>2, <4>1 DEF Refunded
      <4>4. QED
        BY <4>2, <4>3
    <3>5. QED
      BY <3>1, <3>3, <3>4 DEF ReconcileCredit
  <2>11. CASE \E p \in Payment, at \in (now - MaxLockWait)..now :
                PayBookingWithWallet(p, at)
    <3>1. PICK p \in Payment, at \in (now - MaxLockWait)..now :
            PayBookingWithWallet(p, at)
      BY <2>11
    <3>2. UNCHANGED topups
      BY <3>1 DEF PayBookingWithWallet, topupVars
    <3>3. CASE Become(p, "EXPIRED") /\ UNCHANGED walletVars
      BY <2>4, <2>5, <2>6, <3>2, <3>3 DEF walletVars
    <3>4. CASE /\ Debitable(p)
               /\ Become(p, "SUCCEEDED")
               /\ Post("BOOKING_DEBIT", p, -Price)
      <4>1. ledger[<<"BOOKING_DEBIT", p>>] = 0
        BY <2>2, <3>4, Entries DEF PaidIsSettled, Debitable
      <4>2. /\ Cardinality(Debits') = Cardinality(Debits) + 1
            /\ IsFiniteSet(Debits')
            /\ Refunds' = Refunds /\ Topups' = Topups
            /\ ledger'[<<"BOOKING_DEBIT", p>>] = 1
            /\ \A e \in LedgerEntry :
                 e # <<"BOOKING_DEBIT", p>> => ledger'[e] = ledger[e]
        BY <3>4, <4>1, Posting, Entries
        DEF Explained, Debits, Refunds, Topups
      <4>3. balance' = balance - Price
        BY <2>1, <2>2, <3>4 DEF Post
      <4>4. balance' = TopupAmount * Cardinality(Topups')
              + Price * Cardinality(Refunds') - Price * Cardinality(Debits')
        BY <2>1, <2>3, <4>2, <4>3 DEF Explained
      <4>5. UNCHANGED Refunded
        BY <2>6, <3>4
      <4>6. Explained'
        BY <3>2, <4>2, <4>4, <4>5 DEF Explained
      <4>7. PaidIsSettled'
        <5>1. \A q \in Payment :
                /\ payments'[q].providerTxnId = payments[q].providerTxnId
                /\ Status(q)' = IF q = p THEN "SUCCEEDED" ELSE Status(q)
                /\ q # p => ledger'[<<"BOOKING_DEBIT", q>>] =
                              ledger[<<"BOOKING_DEBIT", q>>]
          BY <2>2, <3>4, <4>2, Entries DEF Become, Status, PaymentIntent
        <5>2. QED
          BY <5>1 DEF PaidIsSettled
      <4>8. QED
        BY <4>6, <4>7
    <3>5. QED
      BY <3>1, <3>3, <3>4 DEF PayBookingWithWallet
  <2>12. CASE \E p \in Payment : ExpirePendingPayment(p)
    <3>1. PICK p \in Payment : ExpirePendingPayment(p)
      BY <2>12
    <3>2. Become(p, "EXPIRED") /\ UNCHANGED <<balance, ledger, topups>>
      BY <3>1 DEF ExpirePendingPayment, walletVars, topupVars
    <3>3. QED
      BY <2>4, <2>5, <2>6, <3>2
  <2>13. CASE \E p \in Payment : RefundPayment(p)
    <3>1. PICK p \in Payment : RefundPayment(p)
      BY <2>13
    <3>2. /\ Post("BOOKING_REFUND", p, Price)
          /\ UNCHANGED topups
          /\ p \notin Refunded
          /\ Refunded' = Refunded \union {p}
          /\ \A q \in Payment :
               /\ payments'[q].paymentStatus = payments[q].paymentStatus
               /\ payments'[q].providerTxnId = payments[q].providerTxnId
      BY <2>2, <3>1 DEF RefundPayment, Refundable, Refunded, topupVars,
         PaymentIntent
    <3>3. ledger[<<"BOOKING_REFUND", p>>] = 0
      BY <2>2, <3>2, Entries DEF Explained, Refunds, Posted
    <3>4. /\ Refunds' = Refunds \union {<<"BOOKING_REFUND", p>>}
          /\ Cardinality(Refunds') = Cardinality(Refunds) + 1
          /\ IsFiniteSet(Refunds')
          /\ Debits' = Debits /\ Topups' = Topups
          /\ ledger'[<<"BOOKING_REFUND", p>>] = 1
          /\ \A e \in LedgerEntry :
               e # <<"BOOKING_REFUND", p>> => ledger'[e] = ledger[e]
      BY <3>2, <3>3, Posting, Entries DEF Explained, Debits, Refunds, Topups
    <3>5. balance' = balance + Price
      BY <3>2 DEF Post
    <3>6. balance' = TopupAmount * Cardinality(Topups')
            + Price * Cardinality(Refunds') - Price * Cardinality(Debits')
      BY <2>1, <2>3, <3>4, <3>5 DEF Explained
    <3>7. Explained'
      BY <3>2, <3>4, <3>6 DEF Explained
    <3>8. PaidIsSettled'
      <4>1. \A q \in Payment :
              ledger'[<<"BOOKING_DEBIT", q>>] = ledger[<<"BOOKING_DEBIT", q>>]
        BY <3>4, Entries
      <4>2. QED
        BY <3>2, <4>1 DEF PaidIsSettled, Status
    <3>9. QED
      BY <3>7, <3>8
  <2>14. CASE \E t \in Topup : ApproveTopupRequest(t)
    <3>1. PICK t \in Topup : ApproveTopupRequest(t)
      BY <2>14
    <3>2. /\ Post("TOPUP_APPROVED", t, TopupAmount)
          /\ UNCHANGED payments
          /\ topups[t] # "APPROVED"
          /\ \A u \in Topup :
               topups'[u] = IF u = t THEN "APPROVED" ELSE topups[u]
      BY <2>2, <3>1 DEF ApproveTopupRequest, Reviewable
    <3>3. ledger[<<"TOPUP_APPROVED", t>>] = 0
      BY <2>2, <3>2, Entries DEF Explained, Topups, Posted
    <3>4. /\ Topups' = Topups \union {<<"TOPUP_APPROVED", t>>}
          /\ Cardinality(Topups') = Cardinality(Topups) + 1
          /\ IsFiniteSet(Topups')
          /\ Debits' = Debits /\ Refunds' = Refunds
          /\ ledger'[<<"TOPUP_APPROVED", t>>] = 1
          /\ \A e \in LedgerEntry :
               e # <<"TOPUP_APPROVED", t>> => ledger'[e] = ledger[e]
      BY <3>2, <3>3, Posting, Entries DEF Explained, Debits, Refunds, Topups
    <3>5. balance' = balance + TopupAmount
      BY <3>2 DEF Post
    <3>6. balance' = TopupAmount * Cardinality(Topups')
            + Price * Cardinality(Refunds') - Price * Cardinality(Debits')
      BY <2>1, <2>3, <3>4, <3>5 DEF Explained
    <3>7. UNCHANGED Refunded
      BY <3>2 DEF Refunded
    <3>8. Explained'
      BY <3>2, <3>4, <3>6, <3>7 DEF Explained
    <3>9. PaidIsSettled'
      <4>1. \A q \in Payment :
              ledger'[<<"BOOKING_DEBIT", q>>] = ledger[<<"BOOKING_DEBIT", q>>]
        BY <3>4, Entries
      <4>2. QED
        BY <3>2, <4>1 DEF PaidIsSettled, Status
    <3>10. QED
      BY <3>8, <3>9
  <2>15. CASE \E t \in Topup : SaveTopupRequest(t) \/ RejectTopupRequest(t)
    <3>1. PICK t \in Topup : SaveTopupRequest(t) \/ RejectTopupRequest(t)
      BY <2>15
    <3>2. /\ topups[t] # "APPROVED" /\ topups'[t] # "APPROVED"
          /\ \A u \in Topup : u # t => topups'[u] = topups[u]
          /\ UNCHANGED <<payments, balance, ledger>>
      BY <2>2, <3>1 DEF SaveTopupRequest, RejectTopupRequest, Reviewable,
         SubmittedIsNew, walletVars
    <3>3. QED
      BY <2>4, <3>2 DEF PaidIsSettled, Refunded, Status
  <2>16. CASE UNCHANGED <<payments, balance, ledger, topups>>
    BY <2>4, <2>16 DEF PaidIsSettled, Refunded, Status
  <2>17. QED
    BY <2>7, <2>8, <2>9, <2>10, <2>11, <2>12, <2>13, <2>14, <2>15, <2>16
    DEF Next, vars, walletVars, topupVars, ConfirmLookup, ConfirmRead,
        ConfirmRecord, ReconcileCheck, CheckTopupRequest, Tick
<1>3. QED
  BY <1>1, <1>2, Types, Submissions, PTL DEF Spec

(***************************************************************************)
(* The balance is always what the approved top-ups, the debits and the     *)
(* refunds of the other tables explain: nothing is posted twice, and no    *)
(* change of a row is left without its posting.                            *)
(***************************************************************************)
THEOREM WalletExplained == Spec => []WalletIsExplained
<1>1. Explained => WalletIsExplained
  <2> SUFFICES ASSUME Explained PROVE WalletIsExplained
    OBVIOUS
  <2>1. Refunds = {<<"BOOKING_REFUND", p>> : p \in Refunded}
    BY Entries DEF Explained, Refunds, Posted, Refunded
  <2>2. Topups =
          {<<"TOPUP_APPROVED", t>> : t \in {u \in Topup : topups[u] = "APPROVED"}}
    BY Entries DEF Explained, Topups, Posted
  <2>3. QED
    BY <2>1, <2>2
    DEF Explained, Debits, Refunds, Topups, Posted, WalletIsExplained
<1>2. QED
  BY <1>1, Wallet, PTL

(***************************************************************************)
(* Nobody pays twice, from the wallet and by a transfer, unless a          *)
(* confirmation race is possible: a debited payment stays SUCCEEDED, and   *)
(* one that was ever paid is never debited (PaidIsSettled).                *)
(***************************************************************************)
THEOREM PaymentsAreChargedOnce == Spec => []ChargedOnce
<1> DEFINE Inv == ~ ConfirmationRaces =>
                    \A p \in Payment :
                      ledger[<<"BOOKING_DEBIT", p>>] > 0 =>
                        /\ Status(p) = "SUCCEEDED"
                        /\ payments[p].providerTxnId = None
<1>1. Init => Inv
  BY Entries DEF Init
<1>2. /\ TypeOK /\ Started /\ ExpiringIsLapsed /\ PaidIsSettled
      /\ Inv /\ [Next]_vars
      => Inv'
  <2> SUFFICES ASSUME TypeOK, Started, ExpiringIsLapsed, PaidIsSettled, Inv,
                      [Next]_vars, ~ ConfirmationRaces,
                      NEW p \in Payment, ledger'[<<"BOOKING_DEBIT", p>>] > 0
               PROVE  /\ Status(p)' = "SUCCEEDED"
                      /\ payments'[p].providerTxnId = None
    OBVIOUS
  <2>1. /\ payments \in [Payment -> PaymentIntent]
        /\ payments[p] \in PaymentIntent
        /\ ledger \in [LedgerEntry -> Nat]
    BY DEF TypeOK
  <2>2. ASSUME NEW q \in Payment, NEW s, Become(q, s)
        PROVE  /\ payments'[p].providerTxnId = payments[p].providerTxnId
               /\ Status(p)' = IF p = q THEN s ELSE Status(p)
    BY <2>1, <2>2 DEF Become, Status, PaymentIntent
  <2>3. CASE ledger[<<"BOOKING_DEBIT", p>>] = 0
    <3>1. ASSUME NEW type, NEW id, NEW amount, Post(type, id, amount),
                 type # "BOOKING_DEBIT"
          PROVE  FALSE
      BY <2>1, <2>3, <3>1, Entries DEF Post
    <3>2. PICK q \in Payment, at \in (now - MaxLockWait)..now :
            PayBookingWithWallet(q, at)
      <4>1. CASE \E q \in Payment : RefundPayment(q)
        BY <3>1, <4>1 DEF RefundPayment
      <4>2. CASE \E t \in Topup : ApproveTopupRequest(t)
        BY <3>1, <4>2 DEF ApproveTopupRequest
      <4>3. CASE UNCHANGED ledger
        BY <2>1, <2>3, <4>3, Entries
      <4>4. QED
        BY <4>1, <4>2, <4>3
        DEF Next, vars, walletVars, CreatePaymentIntent, ConfirmLookup,
            ConfirmRead, ConfirmSaveExpired, ConfirmRecord, ConfirmPay,
            ReconcileCheck, ReconcileCredit, ExpirePendingPayment,
            CheckTopupRequest, SaveTopupRequest, RejectTopupRequest, Tick
    <3>3. /\ Debitable(q)
          /\ Become(q, "SUCCEEDED")
          /\ Post("BOOKING_DEBIT", q, -Price)
      BY <2>1, <2>3, <3>2 DEF PayBookingWithWallet, walletVars
    <3>4. p = q
      BY <2>1, <2>3, <3>3, Entries DEF Post
    <3>5. QED
      BY <2>2, <3>3, <3>4 DEF Debitable, PaidIsSettled
  <2>4. CASE ledger[<<"BOOKING_DEBIT", p>>] # 0
    <3>1. Status(p) = "SUCCEEDED" /\ payments[p].providerTxnId = None
      BY <2>1, <2>4, Entries
    <3>2. CASE \E q \in Payment, expiresAt \in now..MaxTime :
                 CreatePaymentIntent(q, expiresAt)
      BY <2>1, <3>1, <3>2 DEF CreatePaymentIntent, Status, PaymentIntent
    <3>3. CASE \E q \in Payment : \E s : Become(q, s) /\ Status(q) # "SUCCEEDED"
      BY <2>2, <3>1, <3>3
    <3>4. CASE UNCHANGED payments
      BY <3>1, <3>4 DEF Status
    <3>5. CASE \E q \in Payment, x \in Txn : ReconcileCredit(q, x)
      BY <2>1, <3>1, <3>5 DEF ReconcileCredit, MayCredit, Credited, Status,
         PaymentIntent
    <3>6. CASE \E q \in Payment : RefundPayment(q)
      BY <2>1, <3>1, <3>6 DEF RefundPayment, Status, PaymentIntent
    <3>7. CASE \E r \in Request : ConfirmSaveExpired(r)
      BY <3>3, <3>7 DEF ConfirmSaveExpired, Started, ExpiringIsLapsed
    <3>8. CASE \E r \in Request : ConfirmPay(r)
      BY <3>3, <3>4, <3>8 DEF ConfirmPay, Started, LockedConfirm, Attempt
    <3>9. CASE \E q \in Payment, at \in (now - MaxLockWait)..now :
                 PayBookingWithWallet(q, at)
      BY <3>3, <3>9 DEF PayBookingWithWallet, Debitable, Unsettled
    <3>10. CASE \E q \in Payment : ExpirePendingPayment(q)
      BY <3>3, <3>10 DEF ExpirePendingPayment, ExpiryCandidate, Unsettled
    <3>11. QED
      BY <3>2, <3>4, <3>5, <3>6, <3>7, <3>8, <3>9, <3>10
      DEF Next, vars, ConfirmLookup, ConfirmRead, ConfirmRecord,
          ReconcileCheck, CheckTopupRequest, SaveTopupRequest,
          ApproveTopupRequest, RejectTopupRequest, Tick
  <2>5. QED
    BY <2>3, <2>4
<1>3. Inv => ChargedOnce
  BY DEF ChargedOnce
<1>4. QED
  BY <1>1, <1>2, <1>3, Types, Windows, Wallet, PTL DEF Spec

\* The wallet is never overdrawn, however its payments interleave: the
\* balance is compared with the price in the transaction that debits it.
THEOREM WalletIsNotOverdrawn == Spec => []NoOverdraft
<1>1. Init => NoOverdraft
  BY DEF Init, NoOverdraft
<1>2. TypeOK /\ NoOverdraft /\ [Next]_vars => NoOverdraft'
  <2> SUFFICES ASSUME TypeOK, NoOverdraft, [Next]_vars PROVE NoOverdraft'
    OBVIOUS
  <2>1. Price \in Nat /\ TopupAmount \in Nat
    BY PaymentsAssumption
  <2> USE DEF TypeOK, NoOverdraft
  <2>2. CASE \E p \in Payment, at \in (now - MaxLockWait)..now :
               PayBookingWithWallet(p, at)
    BY <2>1, <2>2 DEF PayBookingWithWallet, Sufficient, Post, walletVars
  <2>3. CASE \E p \in Payment : RefundPayment(p)
    BY <2>1, <2>3 DEF RefundPayment, Post
  <2>4. CASE \E t \in Topup : ApproveTopupRequest(t)
    BY <2>1, <2>4 DEF ApproveTopupRequest, Post
  <2>5. CASE UNCHANGED balance
    BY <2>5
  <2>6. QED
    BY <2>2, <2>3, <2>4, <2>5
    DEF Next, vars, walletVars, CreatePaymentIntent, ConfirmLookup,
        ConfirmRead, ConfirmSaveExpired, ConfirmRecord, ConfirmPay,
        ReconcileCheck, ReconcileCredit, ExpirePendingPayment,
        CheckTopupRequest, SaveTopupRequest, RejectTopupRequest, Tick
<1>3. QED
  BY <1>1, <1>2, Types, PTL DEF Spec
=============================================================================
