---------------------------- MODULE IntakeProofs ----------------------------
(***************************************************************************)
(* Theorems about Intake, for any number of requests and payments.  The    *)
(* inductive invariant adds to the properties what a request in flight     *)
(* knows: a request past the insert has a row, one past the transfer has   *)
(* spent its payment, and a proof is a payment that was made.              *)
(***************************************************************************)
EXTENDS Intake, TLAPS

Stored == Charged \cup {"settle", "failhook"}

\* A row has its three parts or none, and its token is that of a request
\* which carries its payment.
RowWhole ==
    \A p \in Payments :
        /\ order[p] = "absent" <=> product[p] = "none"
        /\ order[p] = "absent" <=> token[p] = NoRequest
        /\ order[p] = "absent" <=> job[p] = "absent"
        /\ token[p] # NoRequest => pay[token[p]] = p

\* What a request has behind it.
Behind ==
    \A r \in Requests :
        /\ pc[r] = "idle" <=> pay[r] = NoPayment
        /\ pc[r] \in Charged => pay[r] \in spent

\* Nothing is known to be paid that was not.
ProofsSpent == proof \subseteq spent

\* Until something breaks, a payment is cancelled only by a request of its
\* own that was declined, and a request that was answered left its proof.
Undisturbed ==
    ~broken =>
        \A r \in Requests :
            /\ pc[r] \in Stored \ {"failhook"} /\ Sole(r) => job[pay[r]] # "cancelled"
            /\ pc[r] \in {"verify", "store"} /\ Sole(r) => order[pay[r]] = "absent"
            /\ pc[r] \in {"respond", "ok"} /\ HasReceipt(r) => pay[r] \in proof

IInv ==
    /\ TypeOK
    /\ RowWhole
    /\ Behind
    /\ ProofsSpent
    /\ StoredBeforeCharged
    /\ ChargedBeforeQueued
    /\ OneServicePerPayment
    /\ OneReceiptPerPayment
    /\ Undisturbed

LEMMA InitIInv == Init => IInv
  <1> SUFFICES ASSUME Init PROVE IInv
    OBVIOUS
  <1> USE SentinelAssumption DEF Init
  <1>1. TypeOK
    BY DEF TypeOK, Stages
  <1>2. RowWhole /\ Behind /\ ProofsSpent
    BY DEF RowWhole, Behind, ProofsSpent, Charged
  <1>3. StoredBeforeCharged /\ ChargedBeforeQueued
    BY DEF StoredBeforeCharged, ChargedBeforeQueued
  <1>4. OneServicePerPayment /\ OneReceiptPerPayment /\ Undisturbed
    BY DEF OneServicePerPayment, OneReceiptPerPayment, Undisturbed, Stored, Charged
  <1> QED
    BY <1>1, <1>2, <1>3, <1>4 DEF IInv

LEMMA StutterIInv == ASSUME IInv, UNCHANGED vars PROVE IInv'
  BY DEF IInv, TypeOK, RowWhole, Behind, ProofsSpent, StoredBeforeCharged,
         ChargedBeforeQueued, OneServicePerPayment, OneReceiptPerPayment, Undisturbed,
         Sole, HasReceipt, vars, tables, inputs

-----------------------------------------------------------------------------
(* One lemma for each part of the invariant. *)

LEMMA TypeStep ==
  ASSUME TypeOK, Behind, Next
  PROVE  TypeOK' /\ Behind'
  <1> USE SentinelAssumption
  <1> USE DEF TypeOK, Stages, Charged, InFlight, Routes, Behind
  <1>1. ASSUME NEW r \in Requests, NEW p \in Payments, Arrive(r, p)
        PROVE  TypeOK' /\ Behind'
    BY <1>1 DEF Arrive, Go, tables
  <1>2. ASSUME NEW r \in Requests, Handle(r)
        PROVE  TypeOK' /\ Behind'
    <2>1. CASE Verify(r)
      BY <2>1 DEF Verify, Go, tables, inputs
    <2>2. CASE Store(r)
      BY <2>2 DEF Store, Conflict, InsertOrder, Product, Go, tables, inputs
    <2>3. CASE StoreError(r)
      BY <2>3 DEF StoreError, Conflict, InsertOrder, Product, Fault, Go, tables, inputs
    <2>4. CASE Settle(r)
      BY <2>4 DEF Settle, Go, tables, inputs
    <2>5. CASE SettleDeclined(r)
      BY <2>5 DEF SettleDeclined, Go, tables, inputs
    <2>6. CASE SettleReplyLost(r)
      BY <2>6 DEF SettleReplyLost, Fault, Go, tables, inputs
    <2>7. CASE AfterSettle(r)
      BY <2>7 DEF AfterSettle, HasReceipt, Fault, Go, tables, inputs
    <2>8. CASE SettleFailure(r)
      <3>1. Go(r, "failhook", "refused") /\ UNCHANGED <<spent, proof, inputs>> /\ broken' \in BOOLEAN
        BY <2>8 DEF SettleFailure, Fault
      <3>2. MarkOrderSettlementFailed(pay[r]) \/ UNCHANGED tables
        BY <2>8 DEF SettleFailure, tables
      <3>3. UNCHANGED <<product, token>>
        BY <3>2 DEF MarkOrderSettlementFailed, tables
      <3>4. /\ order' \in [Payments -> {"absent", "payment_verified",
                                       "paid_intake_received", "settlement_failed"}]
            /\ job' \in [Payments -> {"absent", "awaiting_settlement", "queued", "cancelled"}]
        BY <3>2 DEF MarkOrderSettlementFailed, tables
      <3> QED
        BY <3>1, <3>3, <3>4 DEF Go, inputs
    <2>9. CASE Respond(r)
      BY <2>9 DEF Respond, Go, tables, inputs
    <2> QED
      BY <1>2, <2>1, <2>2, <2>3, <2>4, <2>5, <2>6, <2>7, <2>8, <2>9 DEF Handle
  <1>3. ASSUME NEW p \in Payments, MarkOrderSettled(p)
        PROVE  TypeOK' /\ Behind'
    BY <1>3 DEF MarkOrderSettled, inputs
  <1>4. CASE CrashApi
    BY <1>4 DEF CrashApi, Fault, tables, inputs
  <1> QED
    BY <1>1, <1>2, <1>3, <1>4 DEF Next

LEMMA RowStep ==
  ASSUME TypeOK, Behind, RowWhole, ProofsSpent, StoredBeforeCharged, OneServicePerPayment, Next
  PROVE  RowWhole'
  <1> USE SentinelAssumption
  <1> USE DEF TypeOK, Stages, Charged, InFlight, Routes, Behind, RowWhole, ProofsSpent, StoredBeforeCharged,
             OneServicePerPayment, Product
  <1>1. ASSUME NEW r \in Requests, NEW p \in Payments, Arrive(r, p)
        PROVE  RowWhole'
    BY <1>1 DEF Arrive, Go, tables
  <1>2. ASSUME NEW r \in Requests, Handle(r)
        PROVE  RowWhole'
    <2>1. CASE Verify(r)
      BY <2>1 DEF Verify, Go, tables, inputs
    <2>2. CASE Store(r)
      BY <2>2 DEF Store, Conflict, InsertOrder, Product, Go, tables, inputs
    <2>3. CASE StoreError(r)
      BY <2>3 DEF StoreError, Conflict, InsertOrder, Product, Fault, Go, tables, inputs
    <2>4. CASE Settle(r)
      BY <2>4 DEF Settle, Go, tables, inputs
    <2>5. CASE SettleDeclined(r)
      BY <2>5 DEF SettleDeclined, Go, tables, inputs
    <2>6. CASE SettleReplyLost(r)
      BY <2>6 DEF SettleReplyLost, Fault, Go, tables, inputs
    <2>7. CASE AfterSettle(r)
      BY <2>7 DEF AfterSettle, HasReceipt, Fault, Go, tables, inputs
    <2>8. CASE SettleFailure(r)
      <3>1. pay[r] \in Payments /\ order[pay[r]] # "absent"
        BY <2>8 DEF SettleFailure, Go, OneServicePerPayment, Product
      <3>2. CASE MarkOrderSettlementFailed(pay[r])
        BY <2>8, <3>1, <3>2 DEF SettleFailure, MarkOrderSettlementFailed, inputs
      <3>3. CASE UNCHANGED tables
        BY <2>8, <3>3 DEF SettleFailure, tables, inputs
      <3> QED
        BY <2>8, <3>2, <3>3 DEF SettleFailure, tables
    <2>9. CASE Respond(r)
      BY <2>9 DEF Respond, Go, tables, inputs
    <2> QED
      BY <1>2, <2>1, <2>2, <2>3, <2>4, <2>5, <2>6, <2>7, <2>8, <2>9 DEF Handle
  <1>3. ASSUME NEW p \in Payments, MarkOrderSettled(p)
        PROVE  RowWhole'
    <2>1. order[p] # "absent"
      BY <1>3 DEF MarkOrderSettled, ProofsSpent, StoredBeforeCharged
    <2> QED
      BY <1>3, <2>1 DEF MarkOrderSettled, inputs
  <1>4. CASE CrashApi
    BY <1>4 DEF CrashApi, Fault, tables, inputs
  <1> QED
    BY <1>1, <1>2, <1>3, <1>4 DEF Next

LEMMA SpentStep ==
  ASSUME TypeOK, Behind, RowWhole, ProofsSpent, StoredBeforeCharged, OneServicePerPayment, Next
  PROVE  ProofsSpent' /\ StoredBeforeCharged'
  <1> USE SentinelAssumption
  <1> USE DEF TypeOK, Stages, Charged, InFlight, Routes, Behind, RowWhole, ProofsSpent, StoredBeforeCharged,
             OneServicePerPayment, Product
  <1>1. ASSUME NEW r \in Requests, NEW p \in Payments, Arrive(r, p)
        PROVE  ProofsSpent' /\ StoredBeforeCharged'
    BY <1>1 DEF Arrive, Go, tables
  <1>2. ASSUME NEW r \in Requests, Handle(r)
        PROVE  ProofsSpent' /\ StoredBeforeCharged'
    <2>1. CASE Verify(r)
      BY <2>1 DEF Verify, Go, tables, inputs
    <2>2. CASE Store(r)
      BY <2>2 DEF Store, Conflict, InsertOrder, Product, Go, tables, inputs
    <2>3. CASE StoreError(r)
      BY <2>3 DEF StoreError, Conflict, InsertOrder, Product, Fault, Go, tables, inputs
    <2>4. CASE Settle(r)
      BY <2>4 DEF Settle, Go, tables, inputs
    <2>5. CASE SettleDeclined(r)
      BY <2>5 DEF SettleDeclined, Go, tables, inputs
    <2>6. CASE SettleReplyLost(r)
      BY <2>6 DEF SettleReplyLost, Fault, Go, tables, inputs
    <2>7. CASE AfterSettle(r)
      BY <2>7 DEF AfterSettle, HasReceipt, Fault, Go, tables, inputs
    <2>8. CASE SettleFailure(r)
      BY <2>8 DEF SettleFailure, HasReceipt, MarkOrderSettlementFailed, Fault, Go, tables, inputs
    <2>9. CASE Respond(r)
      BY <2>9 DEF Respond, Go, tables, inputs
    <2> QED
      BY <1>2, <2>1, <2>2, <2>3, <2>4, <2>5, <2>6, <2>7, <2>8, <2>9 DEF Handle
  <1>3. ASSUME NEW p \in Payments, MarkOrderSettled(p)
        PROVE  ProofsSpent' /\ StoredBeforeCharged'
    BY <1>3 DEF MarkOrderSettled, inputs
  <1>4. CASE CrashApi
    BY <1>4 DEF CrashApi, Fault, tables, inputs
  <1> QED
    BY <1>1, <1>2, <1>3, <1>4 DEF Next

LEMMA QueuedStep ==
  ASSUME TypeOK, Behind, RowWhole, ProofsSpent, ChargedBeforeQueued, Next
  PROVE  ChargedBeforeQueued'
  <1> USE SentinelAssumption
  <1> USE DEF TypeOK, Stages, Charged, InFlight, Routes, Behind, RowWhole, ProofsSpent, ChargedBeforeQueued
  <1>1. ASSUME NEW r \in Requests, NEW p \in Payments, Arrive(r, p)
        PROVE  ChargedBeforeQueued'
    BY <1>1 DEF Arrive, Go, tables
  <1>2. ASSUME NEW r \in Requests, Handle(r)
        PROVE  ChargedBeforeQueued'
    <2>1. CASE Verify(r)
      BY <2>1 DEF Verify, Go, tables, inputs
    <2>2. CASE Store(r)
      BY <2>2 DEF Store, Conflict, InsertOrder, Product, Go, tables, inputs
    <2>3. CASE StoreError(r)
      BY <2>3 DEF StoreError, Conflict, InsertOrder, Product, Fault, Go, tables, inputs
    <2>4. CASE Settle(r)
      BY <2>4 DEF Settle, Go, tables, inputs
    <2>5. CASE SettleDeclined(r)
      BY <2>5 DEF SettleDeclined, Go, tables, inputs
    <2>6. CASE SettleReplyLost(r)
      BY <2>6 DEF SettleReplyLost, Fault, Go, tables, inputs
    <2>7. CASE AfterSettle(r)
      BY <2>7 DEF AfterSettle, HasReceipt, Fault, Go, tables, inputs
    <2>8. CASE SettleFailure(r)
      BY <2>8 DEF SettleFailure, HasReceipt, MarkOrderSettlementFailed, Fault, Go, tables, inputs
    <2>9. CASE Respond(r)
      BY <2>9 DEF Respond, Go, tables, inputs
    <2> QED
      BY <1>2, <2>1, <2>2, <2>3, <2>4, <2>5, <2>6, <2>7, <2>8, <2>9 DEF Handle
  <1>3. ASSUME NEW p \in Payments, MarkOrderSettled(p)
        PROVE  ChargedBeforeQueued'
    BY <1>3 DEF MarkOrderSettled, inputs
  <1>4. CASE CrashApi
    BY <1>4 DEF CrashApi, Fault, tables, inputs
  <1> QED
    BY <1>1, <1>2, <1>3, <1>4 DEF Next

LEMMA ServiceStep ==
  ASSUME TypeOK, Behind, RowWhole, OneServicePerPayment, Next
  PROVE  OneServicePerPayment'
  <1> USE SentinelAssumption
  <1> USE DEF TypeOK, Stages, Charged, InFlight, Routes, Behind, RowWhole, OneServicePerPayment, Product
  <1>1. ASSUME NEW r \in Requests, NEW p \in Payments, Arrive(r, p)
        PROVE  OneServicePerPayment'
    BY <1>1 DEF Arrive, Go, tables
  <1>2. ASSUME NEW r \in Requests, Handle(r)
        PROVE  OneServicePerPayment'
    <2>1. CASE Verify(r)
      BY <2>1 DEF Verify, Go, tables, inputs
    <2>2. CASE Store(r)
      BY <2>2 DEF Store, Conflict, InsertOrder, Product, Go, tables, inputs
    <2>3. CASE StoreError(r)
      BY <2>3 DEF StoreError, Conflict, InsertOrder, Product, Fault, Go, tables, inputs
    <2>4. CASE Settle(r)
      BY <2>4 DEF Settle, Go, tables, inputs
    <2>5. CASE SettleDeclined(r)
      BY <2>5 DEF SettleDeclined, Go, tables, inputs
    <2>6. CASE SettleReplyLost(r)
      BY <2>6 DEF SettleReplyLost, Fault, Go, tables, inputs
    <2>7. CASE AfterSettle(r)
      BY <2>7 DEF AfterSettle, HasReceipt, Fault, Go, tables, inputs
    <2>8. CASE SettleFailure(r)
      BY <2>8 DEF SettleFailure, HasReceipt, MarkOrderSettlementFailed, Fault, Go, tables, inputs
    <2>9. CASE Respond(r)
      BY <2>9 DEF Respond, Go, tables, inputs
    <2> QED
      BY <1>2, <2>1, <2>2, <2>3, <2>4, <2>5, <2>6, <2>7, <2>8, <2>9 DEF Handle
  <1>3. ASSUME NEW p \in Payments, MarkOrderSettled(p)
        PROVE  OneServicePerPayment'
    BY <1>3 DEF MarkOrderSettled, inputs
  <1>4. CASE CrashApi
    BY <1>4 DEF CrashApi, Fault, tables, inputs
  <1> QED
    BY <1>1, <1>2, <1>3, <1>4 DEF Next

LEMMA ReceiptStep ==
  ASSUME TypeOK, Behind, OneReceiptPerPayment, Next
  PROVE  OneReceiptPerPayment'
  <1> USE SentinelAssumption
  <1> USE DEF TypeOK, Stages, Charged, InFlight, Routes, Behind, OneReceiptPerPayment
  <1>1. ASSUME NEW r \in Requests, NEW p \in Payments, Arrive(r, p)
        PROVE  OneReceiptPerPayment'
    BY <1>1 DEF Arrive, Go, tables
  <1>2. ASSUME NEW r \in Requests, Handle(r)
        PROVE  OneReceiptPerPayment'
    <2>1. CASE Verify(r)
      BY <2>1 DEF Verify, Go, tables, inputs
    <2>2. CASE Store(r)
      BY <2>2 DEF Store, Conflict, InsertOrder, Product, Go, tables, inputs
    <2>3. CASE StoreError(r)
      BY <2>3 DEF StoreError, Conflict, InsertOrder, Product, Fault, Go, tables, inputs
    <2>4. CASE Settle(r)
      BY <2>4 DEF Settle, Go, tables, inputs
    <2>5. CASE SettleDeclined(r)
      BY <2>5 DEF SettleDeclined, Go, tables, inputs
    <2>6. CASE SettleReplyLost(r)
      BY <2>6 DEF SettleReplyLost, Fault, Go, tables, inputs
    <2>7. CASE AfterSettle(r)
      BY <2>7 DEF AfterSettle, HasReceipt, Fault, Go, tables, inputs
    <2>8. CASE SettleFailure(r)
      BY <2>8 DEF SettleFailure, HasReceipt, MarkOrderSettlementFailed, Fault, Go, tables, inputs
    <2>9. CASE Respond(r)
      BY <2>9 DEF Respond, Go, tables, inputs
    <2> QED
      BY <1>2, <2>1, <2>2, <2>3, <2>4, <2>5, <2>6, <2>7, <2>8, <2>9 DEF Handle
  <1>3. ASSUME NEW p \in Payments, MarkOrderSettled(p)
        PROVE  OneReceiptPerPayment'
    BY <1>3 DEF MarkOrderSettled, inputs
  <1>4. CASE CrashApi
    BY <1>4 DEF CrashApi, Fault, tables, inputs
  <1> QED
    BY <1>1, <1>2, <1>3, <1>4 DEF Next

LEMMA UndisturbedStep ==
  ASSUME TypeOK, Behind, RowWhole, ProofsSpent, StoredBeforeCharged, Undisturbed, Next
  PROVE  Undisturbed'
  <1> USE SentinelAssumption
  <1> USE DEF TypeOK, Stages, Charged, InFlight, Routes, Behind, RowWhole, ProofsSpent, StoredBeforeCharged,
             Undisturbed, Sole, Stored, HasReceipt
  <1>1. ASSUME NEW r \in Requests, NEW p \in Payments, Arrive(r, p)
        PROVE  Undisturbed'
    BY <1>1 DEF Arrive, Go, tables
  <1>2. ASSUME NEW r \in Requests, Handle(r)
        PROVE  Undisturbed'
    <2>1. CASE Verify(r)
      BY <2>1 DEF Verify, Go, tables, inputs
    <2>2. CASE Store(r)
      BY <2>2 DEF Store, Conflict, InsertOrder, Product, Go, tables, inputs
    <2>3. CASE StoreError(r)
      BY <2>3 DEF StoreError, Conflict, InsertOrder, Product, Fault, Go, tables, inputs
    <2>4. CASE Settle(r)
      BY <2>4 DEF Settle, Go, tables, inputs
    <2>5. CASE SettleDeclined(r)
      BY <2>5 DEF SettleDeclined, Go, tables, inputs
    <2>6. CASE SettleReplyLost(r)
      BY <2>6 DEF SettleReplyLost, Fault, Go, tables, inputs
    <2>7. CASE AfterSettle(r)
      BY <2>7 DEF AfterSettle, HasReceipt, Fault, Go, tables, inputs
    <2>8. CASE SettleFailure(r)
      BY <2>8 DEF SettleFailure, HasReceipt, MarkOrderSettlementFailed, Fault, Go, tables, inputs
    <2>9. CASE Respond(r)
      BY <2>9 DEF Respond, Go, tables, inputs
    <2> QED
      BY <1>2, <2>1, <2>2, <2>3, <2>4, <2>5, <2>6, <2>7, <2>8, <2>9 DEF Handle
  <1>3. ASSUME NEW p \in Payments, MarkOrderSettled(p)
        PROVE  Undisturbed'
    BY <1>3 DEF MarkOrderSettled, inputs
  <1>4. CASE CrashApi
    BY <1>4 DEF CrashApi, Fault, tables, inputs
  <1> QED
    BY <1>1, <1>2, <1>3, <1>4 DEF Next

-----------------------------------------------------------------------------
(* The invariant, and the theorems. *)

LEMMA NextIInv == IInv /\ [Next]_vars => IInv'
  <1> SUFFICES ASSUME IInv, [Next]_vars PROVE IInv'
    OBVIOUS
  <1>1. CASE Next
    <2>1. TypeOK' /\ Behind'
      BY <1>1, TypeStep DEF IInv
    <2>2. RowWhole' /\ ProofsSpent' /\ StoredBeforeCharged'
      BY <1>1, RowStep, SpentStep DEF IInv
    <2>3. ChargedBeforeQueued' /\ OneServicePerPayment' /\ OneReceiptPerPayment'
      BY <1>1, QueuedStep, ServiceStep, ReceiptStep DEF IInv
    <2>4. Undisturbed'
      BY <1>1, UndisturbedStep DEF IInv
    <2> QED
      BY <2>1, <2>2, <2>3, <2>4 DEF IInv
  <1>2. CASE UNCHANGED vars
    BY <1>2, StutterIInv
  <1> QED
    BY <1>1, <1>2

\* The invariant holds of every behaviour of the intake.
THEOREM Invariance == Spec => []IInv
  BY InitIInv, NextIInv, PTL DEF Spec

\* Every variable keeps its type; orders and jobs keep the statuses of the
\* tables' CHECK constraints.
THEOREM TypeCorrect == Spec => []TypeOK
  <1>1. IInv => TypeOK
    BY DEF IInv
  <1> QED
    BY <1>1, Invariance, PTL

\* saveVerifiedOrder has committed for every payment that was ever made, and no
\* job is queued and no order called paid without its payment, however requests
\* of one payment interleave and whatever fails.
THEOREM PaidInOrderAlways == Spec => []PaidInOrder
  <1>1. IInv => PaidInOrder
    BY DEF IInv, PaidInOrder
  <1> QED
    BY <1>1, Invariance, PTL

\* The unique payment_fingerprint keeps one payment from buying two services.
THEOREM OneServicePerPaymentAlways == Spec => []OneServicePerPayment
  <1>1. IInv => OneServicePerPayment
    BY DEF IInv
  <1> QED
    BY <1>1, Invariance, PTL

\* At most one of the requests of a payment is answered with a receipt.
THEOREM OneReceiptPerPaymentAlways == Spec => []OneReceiptPerPayment
  <1>1. IInv => OneReceiptPerPayment
    BY DEF IInv
  <1> QED
    BY <1>1, Invariance, PTL

\* One payment buys one service and at most one receipt, however its requests
\* interleave.
THEOREM PaymentBuysOnceAlways == Spec => []PaymentBuysOnce
  BY OneServicePerPaymentAlways, OneReceiptPerPaymentAlways, PTL DEF PaymentBuysOnce

\* A buyer who sends one request for a payment, and to whom nothing happens,
\* gets the token that opens the order, which is recorded and not cancelled.
THEOREM SoleBuyerServedAlways == Spec => []SoleBuyerServed
  <1>1. IInv => SoleBuyerServed
    <2> SUFFICES ASSUME IInv, NEW r \in Requests, pc[r] = "ok", Sole(r), ~broken
                 PROVE  /\ token[pay[r]] = r
                        /\ job[pay[r]] # "cancelled"
                        /\ HasReceipt(r) => pay[r] \in proof
      BY DEF SoleBuyerServed
    <2>1. pay[r] \in Payments /\ token[pay[r]] # NoRequest
      BY DEF IInv, TypeOK, Behind, Charged, StoredBeforeCharged
    <2>2. token[pay[r]] \in Requests /\ pay[token[pay[r]]] = pay[r]
      BY <2>1 DEF IInv, TypeOK, RowWhole
    <2> QED
      BY <2>2 DEF IInv, Undisturbed, Sole, Stored, Charged
  <1> QED
    BY <1>1, Invariance, PTL

\* A recorded payment stays recorded and the token of an order never changes.
THEOREM SettledForeverAlways == Spec => SettledForever
  <1> DEFINE SettledStep ==
        \A p \in Payments :
          /\ order[p] = "paid_intake_received" => order'[p] = order[p]
          /\ token[p] # NoRequest => token'[p] = token[p]
  <1>1. IInv /\ [Next]_vars => [SettledStep]_vars
    <2> SUFFICES ASSUME IInv, Next PROVE SettledStep
      OBVIOUS
    <2> USE DEF IInv, TypeOK
    <2>1. ASSUME NEW r \in Requests, NEW p \in Payments, Arrive(r, p)
          PROVE  SettledStep
      BY <2>1 DEF Arrive, tables
    <2>2. ASSUME NEW r \in Requests, Handle(r)
          PROVE  SettledStep
      BY <2>2 DEF Handle, Verify, Store, StoreError, InsertOrder, Settle, SettleDeclined,
                  SettleReplyLost, AfterSettle, SettleFailure, MarkOrderSettlementFailed,
                  Respond, RowWhole, tables
    <2>3. ASSUME NEW p \in Payments, MarkOrderSettled(p)
          PROVE  SettledStep
      BY <2>3 DEF MarkOrderSettled
    <2>4. CASE CrashApi
      BY <2>4 DEF CrashApi, tables
    <2> QED
      BY <2>1, <2>2, <2>3, <2>4 DEF Next
  <1>2. Spec => [][SettledStep]_vars
    BY <1>1, Invariance, PTL DEF Spec
  <1> QED
    BY <1>2 DEF SettledForever

-----------------------------------------------------------------------------
(* Intake as the Api of ReviewQueue. *)

\* What a step does to the orders and their jobs: nothing, or one transaction.
TablesStep(p) ==
    \/ /\ order[p] = "absent"
       /\ order' = [order EXCEPT ![p] = "payment_verified"]
       /\ job' = [job EXCEPT ![p] = "awaiting_settlement"]
    \/ /\ order[p] # "absent"
       /\ order' = [order EXCEPT ![p] = "paid_intake_received"]
       /\ job' = [job EXCEPT ![p] = IF @ = "awaiting_settlement" THEN "queued" ELSE @]
    \/ order[p] # "absent" /\ MarkOrderSettlementFailed(p)

LEMMA TablesLemma ==
  ASSUME IInv, Next
  PROVE  UNCHANGED <<order, job>> \/ \E p \in Payments : TablesStep(p)
  <1> USE DEF IInv, tables
  <1>1. ASSUME NEW r \in Requests, pay[r] \in Payments, InsertOrder(r)
        PROVE  UNCHANGED <<order, job>> \/ \E p \in Payments : TablesStep(p)
    BY <1>1 DEF InsertOrder, TablesStep
  <1>2. ASSUME NEW r \in Requests, Handle(r)
        PROVE  UNCHANGED <<order, job>> \/ \E p \in Payments : TablesStep(p)
    <2>1. pay[r] \in Payments
      <3>1. pc[r] # "idle"
        BY <1>2 DEF Handle, Verify, Store, StoreError, Settle, SettleDeclined,
                    SettleReplyLost, AfterSettle, SettleFailure, Respond, Go
      <3> QED
        BY <3>1 DEF TypeOK, Behind
    <2>2. CASE Store(r) \/ StoreError(r)
      BY <1>1, <2>1, <2>2 DEF Store, StoreError
    <2>3. CASE SettleFailure(r)
      <3>1. order[pay[r]] # "absent"
        BY <2>1, <2>3 DEF SettleFailure, Go, OneServicePerPayment, RowWhole, Product
      <3>2. MarkOrderSettlementFailed(pay[r]) \/ UNCHANGED <<order, job>>
        BY <2>3 DEF SettleFailure
      <3> QED
        BY <2>1, <3>1, <3>2 DEF TablesStep
    <2>4. CASE ~(Store(r) \/ StoreError(r) \/ SettleFailure(r))
      BY <1>2, <2>4 DEF Handle, Verify, Settle, SettleDeclined, SettleReplyLost,
                        AfterSettle, Respond
    <2> QED
      BY <2>2, <2>3, <2>4
  <1>3. ASSUME NEW p \in Payments, MarkOrderSettled(p)
        PROVE  TablesStep(p)
    <2>1. order[p] # "absent"
      BY <1>3 DEF MarkOrderSettled, ProofsSpent, StoredBeforeCharged
    <2> QED
      BY <1>3, <2>1 DEF MarkOrderSettled, TablesStep
  <1>4. ASSUME NEW r \in Requests, NEW p \in Payments, Arrive(r, p)
        PROVE  UNCHANGED <<order, job>>
    BY <1>4 DEF Arrive
  <1>5. CASE CrashApi
    BY <1>5 DEF CrashApi
  <1> QED
    BY <1>2, <1>3, <1>4, <1>5 DEF Next

LEMMA ApiStep ==
  ASSUME TypeOK, NEW p \in Payments, TablesStep(p)
  PROVE  Queue!Api(p)
  <1> DEFINE R(s) == [status |-> s, attempts |-> 0, available |-> "now",
                      owner |-> NoRequest, lease |-> "none"]
             jobs == [q \in Payments |-> R(job[q])]
  <1> USE DEF TypeOK
  <1>1. ASSUME NEW s, job' = [job EXCEPT ![p] = s]
        PROVE  jobs' = [jobs EXCEPT ![p] = R(s)]
    BY <1>1
  <1>2. CASE /\ order[p] = "absent"
             /\ order' = [order EXCEPT ![p] = "payment_verified"]
             /\ job' = [job EXCEPT ![p] = "awaiting_settlement"]
    <2>1. Queue!SaveVerifiedOrder(p)
      BY <1>1, <1>2 DEF Queue!SaveVerifiedOrder, Queue!Row
    <2> QED
      BY <2>1 DEF Queue!Api
  <1>3. CASE /\ order[p] # "absent"
             /\ order' = [order EXCEPT ![p] = "paid_intake_received"]
             /\ job' = [job EXCEPT ![p] = IF @ = "awaiting_settlement" THEN "queued" ELSE @]
    <2>1. Queue!MarkOrderSettled(p)
      BY <1>1, <1>3 DEF Queue!MarkOrderSettled, Queue!Row
    <2> QED
      BY <2>1 DEF Queue!Api
  <1>4. CASE order[p] # "absent" /\ MarkOrderSettlementFailed(p)
    <2>1. Queue!MarkOrderSettlementFailed(p)
      BY <1>1, <1>4 DEF Queue!MarkOrderSettlementFailed, MarkOrderSettlementFailed
    <2> QED
      BY <2>1 DEF Queue!Api
  <1> QED
    BY <1>2, <1>3, <1>4 DEF TablesStep

\* Requests, hooks, lost replies and crashes together implement ReviewQueue
\* without workers: an Api that does nothing to the tables but its transactions.
THEOREM IntakeImplementsApi == Spec => ApiOfQueue
  <1>1. Init => Queue!Init
    BY DEF Init, Queue!Init, Queue!Row
  <1>2. IInv /\ [Next]_vars => [Queue!Next]_(Queue!vars)
    <2> SUFFICES ASSUME IInv, [Next]_vars PROVE [Queue!Next]_(Queue!vars)
      OBVIOUS
    <2>1. CASE UNCHANGED <<order, job>>
      BY <2>1 DEF Queue!vars
    <2>2. ASSUME NEW p \in Payments, TablesStep(p) PROVE Queue!Next
      BY <2>2, ApiStep DEF IInv, Queue!Next
    <2> QED
      BY <2>1, <2>2, TablesLemma DEF vars, tables
  <1> QED
    BY <1>1, <1>2, Invariance, PTL DEF Spec, ApiOfQueue, Queue!Spec

=============================================================================
