------------------------------- MODULE Intake -------------------------------
(***************************************************************************)
(* Paid requests: the payment middleware around the order routes of        *)
(* src/index.js, buildAndStoreServiceOrder, which stores an order before   *)
(* its payment is settled, and the hooks onAfterSettle and onSettleFailure,*)
(* which recover the order from the body of the response.                  *)
(*                                                                         *)
(* The order id is a digest of the payment header, so requests that carry  *)
(* the same PAYMENT share one row; each makes an access token of its own.  *)
(* A buyer repeats a request when an answer does not come.                 *)
(***************************************************************************)
CONSTANTS
    Requests,     \* HTTP requests
    Payments,     \* payment headers, each with one authorization to transfer
    NoRequest, NoPayment

ASSUME SentinelAssumption == NoRequest \notin Requests /\ NoPayment \notin Payments

VARIABLES
    spent,      \* payments whose authorization has been used on the chain
    order,      \* paid_service_orders.status
    product,    \* the prefix of order_id
    token,      \* access_token_hash, named by the request that made the token
    job,        \* review_jobs.status
    proof,      \* settlements that are journaled or being recorded
    pc,         \* where each request is
    pay,        \* its payment header
    route,      \* the route it came in by
    broken      \* whether something has failed yet

tables == <<order, product, token, job>>
inputs == <<pay, route>>
vars == <<spent, tables, proof, pc, inputs, broken>>

\* POST /mcp with the paid tool order_x402_remediation is the third route: it
\* makes a triage order and answers with a JSON-RPC envelope.
Routes == {"quick", "triage", "mcp"}
Product(rt) == IF rt = "quick" THEN "quick" ELSE "triage"

Charged == {"hook", "respond", "ok"}
Stages == Charged \cup {"idle", "verify", "store", "settle", "failhook", "refused", "cut"}
InFlight == Stages \ {"idle", "ok", "refused", "cut"}

TypeOK ==
    /\ spent \subseteq Payments
    /\ order \in [Payments -> {"absent", "payment_verified",
                               "paid_intake_received", "settlement_failed"}]
    /\ product \in [Payments -> {"none", "quick", "triage"}]
    /\ token \in [Payments -> Requests \cup {NoRequest}]
    /\ job \in [Payments -> {"absent", "awaiting_settlement", "queued", "cancelled"}]
    /\ proof \subseteq Payments
    /\ pc \in [Requests -> Stages]
    /\ pay \in [Requests -> Payments \cup {NoPayment}]
    /\ route \in [Requests -> Routes]
    /\ broken \in BOOLEAN

Init ==
    /\ spent = {}
    /\ order = [p \in Payments |-> "absent"]
    /\ product = [p \in Payments |-> "none"]
    /\ token = [p \in Payments |-> NoRequest]
    /\ job = [p \in Payments |-> "absent"]
    /\ proof = {}
    /\ pc = [r \in Requests |-> "idle"]
    /\ pay = [r \in Requests |-> NoPayment]
    /\ route \in [Requests -> Routes]
    /\ broken = FALSE

Fault == broken' = TRUE

Go(r, from, to) == pc[r] = from /\ pc' = [pc EXCEPT ![r] = to]

-----------------------------------------------------------------------------
(* Before settlement. *)

Arrive(r, p) ==
    /\ Go(r, "idle", "verify")
    /\ pay' = [pay EXCEPT ![r] = p]
    /\ UNCHANGED <<spent, tables, proof, route, broken>>

\* The middleware asks the facilitator: a payment already made is refused,
\* another may be.
Verify(r) ==
    /\ \/ Go(r, "verify", "store") /\ pay[r] \notin spent
       \/ Go(r, "verify", "refused")
    /\ UNCHANGED <<spent, tables, proof, inputs, broken>>

\* Mutant of InsertOrder: ON CONFLICT DO UPDATE sets access_token_hash too.
InsertRefreshesToken(r) ==
    /\ order' = [order EXCEPT ![pay[r]] = IF @ = "absent" THEN "payment_verified" ELSE @]
    /\ product' = [product EXCEPT ![pay[r]] = Product(route[r])]
    /\ token' = [token EXCEPT ![pay[r]] = r]
    /\ job' = [job EXCEPT ![pay[r]] = IF @ = "absent" THEN "awaiting_settlement" ELSE @]

\* saveVerifiedOrder: the first request of a payment inserts the order, with
\* the hash of its token, and the job; a later one finds both, whatever state
\* they are in, and changes nothing but updated_at.
InsertOrder(r) ==
    IF order[pay[r]] = "absent"
    THEN /\ order' = [order EXCEPT ![pay[r]] = "payment_verified"]
         /\ product' = [product EXCEPT ![pay[r]] = Product(route[r])]
         /\ token' = [token EXCEPT ![pay[r]] = r]
         /\ job' = [job EXCEPT ![pay[r]] = "awaiting_settlement"]
    ELSE UNCHANGED tables

\* Mutant of Conflict: WHERE order_id = EXCLUDED.order_id is missing.
ConflictIgnored(r) == r \notin Requests

\* The payment header belongs to an order of another product.
Conflict(r) == order[pay[r]] # "absent" /\ product[pay[r]] # Product(route[r])

Store(r) ==
    /\ \/ Go(r, "store", "settle") /\ ~Conflict(r) /\ InsertOrder(r)
       \/ Go(r, "store", "refused") /\ Conflict(r) /\ UNCHANGED tables
    /\ UNCHANGED <<spent, proof, inputs, broken>>

\* Mutant of StoreError: the error is logged and the receipt is returned.
StoreErrorIgnored(r) ==
    /\ Go(r, "store", "settle")
    /\ Fault
    /\ UNCHANGED <<spent, tables, proof, inputs>>

\* The transaction fails, or its reply is lost after the commit.  The route
\* answers 503 and the middleware does not settle.
StoreError(r) ==
    /\ Go(r, "store", "refused")
    /\ Fault
    /\ \/ UNCHANGED tables
       \/ ~Conflict(r) /\ InsertOrder(r)
    /\ UNCHANGED <<spent, proof, inputs>>

-----------------------------------------------------------------------------
(* Settlement, and the hooks, which the middleware awaits. *)

\* Mutant of Settle: the facilitator's reply is not awaited.
SettleAssumed(r) ==
    /\ Go(r, "settle", "hook")
    /\ UNCHANGED <<spent, tables, proof, inputs, broken>>

\* The transfer is made: an authorization is good for one.
Settle(r) ==
    /\ Go(r, "settle", "hook")
    /\ pay[r] \notin spent
    /\ spent' = spent \cup {pay[r]}
    /\ UNCHANGED <<tables, proof, inputs, broken>>

\* The facilitator declines, as it must when the authorization is used up.
SettleDeclined(r) ==
    /\ Go(r, "settle", "failhook")
    /\ UNCHANGED <<spent, tables, proof, inputs, broken>>

\* The transfer is made and the facilitator's reply is lost.
SettleReplyLost(r) ==
    /\ Go(r, "settle", "failhook")
    /\ pay[r] \notin spent
    /\ spent' = spent \cup {pay[r]}
    /\ Fault
    /\ UNCHANGED <<tables, proof, inputs>>

\* storedServiceOrderReceipt: orderId, request and service are looked for at
\* the top of the response body, where a JSON-RPC envelope has none of them.
HasReceipt(r) == route[r] # "mcp"

\* Mutant of AfterSettle: one of the two services is missing from the list.
AfterSettleOneService(r) ==
    /\ Go(r, "hook", "respond")
    /\ proof' = IF route[r] = "quick" THEN proof \cup {pay[r]} ELSE proof
    /\ UNCHANGED <<spent, tables, inputs, broken>>

\* handleStoredServiceOrderSettlement hands the proof to the journal and to
\* retryOrderStoreMutation (module Settlement), unless both fail or the reply
\* has no transaction hash.
AfterSettle(r) ==
    /\ Go(r, "hook", "respond")
    /\ \/ proof' = (IF HasReceipt(r) THEN proof \cup {pay[r]} ELSE proof) /\ UNCHANGED broken
       \/ Fault /\ UNCHANGED proof
    /\ UNCHANGED <<spent, tables, inputs>>

\* markOrderSettlementFailed, by order_id: whichever request it was.
MarkOrderSettlementFailed(p) ==
    /\ order' = [order EXCEPT ![p] =
                   IF @ = "paid_intake_received" THEN @ ELSE "settlement_failed"]
    /\ job' = [job EXCEPT ![p] = IF @ = "awaiting_settlement" THEN "cancelled" ELSE @]
    /\ UNCHANGED <<product, token>>

\* handleStoredServiceOrderSettlementFailure, whose three tries may all fail;
\* the middleware answers 402.
SettleFailure(r) ==
    /\ Go(r, "failhook", "refused")
    /\ \/ HasReceipt(r) /\ MarkOrderSettlementFailed(pay[r]) /\ UNCHANGED broken
       \/ ~HasReceipt(r) /\ UNCHANGED <<tables, broken>>
       \/ Fault /\ UNCHANGED tables
    /\ UNCHANGED <<spent, proof, inputs>>

\* The response, with the token of this request, reaches the buyer.
Respond(r) ==
    /\ Go(r, "respond", "ok")
    /\ UNCHANGED <<spent, tables, proof, inputs, broken>>

-----------------------------------------------------------------------------
(* The rest of the world. *)

\* markOrderSettled, by the callback or by a reconciler, now or later, once
\* or repeatedly.
MarkOrderSettled(p) ==
    /\ p \in proof
    /\ order' = [order EXCEPT ![p] = "paid_intake_received"]
    /\ job' = [job EXCEPT ![p] = IF @ = "awaiting_settlement" THEN "queued" ELSE @]
    /\ UNCHANGED <<spent, product, token, proof, pc, inputs, broken>>

\* The API dies: no request in flight is answered.
CrashApi ==
    /\ \E r \in Requests : pc[r] \in InFlight
    /\ pc' = [r \in Requests |-> IF pc[r] \in InFlight THEN "cut" ELSE pc[r]]
    /\ Fault
    /\ UNCHANGED <<spent, tables, proof, inputs>>

Handle(r) ==
    \/ Verify(r) \/ Store(r) \/ StoreError(r)
    \/ Settle(r) \/ SettleDeclined(r) \/ SettleReplyLost(r)
    \/ AfterSettle(r) \/ SettleFailure(r) \/ Respond(r)

Next ==
    \/ \E r \in Requests, p \in Payments : Arrive(r, p)
    \/ \E r \in Requests : Handle(r)
    \/ \E p \in Payments : MarkOrderSettled(p)
    \/ CrashApi

Spec == Init /\ [][Next]_vars

-----------------------------------------------------------------------------
(* Properties. *)

\* No buyer is charged for an order that is not stored: "payment was not
\* settled" is true of every 503.
StoredBeforeCharged == \A p \in spent : order[p] # "absent" /\ token[p] # NoRequest

\* "Settlement fallido no ejecuta revision": a job is queued, and an order is
\* called paid, only after its payment was made, whatever other requests with
\* the same header did before or do now.
ChargedBeforeQueued ==
    \A p \in Payments :
        /\ job[p] = "queued" => order[p] = "paid_intake_received"
        /\ order[p] = "paid_intake_received" => p \in spent
PaidInOrder == StoredBeforeCharged /\ ChargedBeforeQueued

\* A payment buys one service, once: every request that gets as far as
\* settlement asks for what is stored, and one of them at most is answered
\* with a receipt.
OneServicePerPayment ==
    \A r \in Requests :
        pc[r] \in Charged \cup {"settle", "failhook"} =>
            product[pay[r]] = Product(route[r])
OneReceiptPerPayment ==
    \A r, t \in Requests :
        pc[r] \in Charged /\ pc[t] \in Charged /\ pay[r] = pay[t] => r = t
PaymentBuysOnce == OneServicePerPayment /\ OneReceiptPerPayment

\* A buyer who sent one request for a payment, and to whom nothing happened,
\* holds a token that opens the order, and the order is not cancelled.
Sole(r) == \A t \in Requests : pay[t] = pay[r] => t = r
SoleBuyerServed ==
    \A r \in Requests :
        pc[r] = "ok" /\ Sole(r) /\ ~broken =>
            /\ token[pay[r]] = r
            /\ job[pay[r]] # "cancelled"
            /\ HasReceipt(r) => pay[r] \in proof

\* A recorded payment is never unrecorded by the late failure of another
\* request, and the token that opens an order never changes.
SettledForever ==
    [][\A p \in Payments :
          /\ order[p] = "paid_intake_received" => order'[p] = order[p]
          /\ token[p] # NoRequest => token'[p] = token[p]]_vars

\* Intake beside ReviewQueue: to the queue's tables, requests and hooks do only
\* what its Api does, in particular nothing to an order that is not stored.  So
\* what ReviewQueue shows of every Api holds of this one.
Queue == INSTANCE ReviewQueue
    WITH Orders <- Payments, Workers <- {}, Callbacks <- {},
         MaxAttempts <- 1, Concurrency <- 1, MaxFaults <- 0,
         NoOrder <- NoPayment, NoWorker <- NoRequest, NoResult <- "none",
         job <- [p \in Payments |->
                    [status |-> job[p], attempts |-> 0, available |-> "now",
                     owner |-> NoRequest, lease |-> "none"]],
         result <- [p \in Payments |-> "none"], events <- {}, faults <- 0,
         pc <- [w \in {} |-> "new"], held <- [w \in {} |-> NoPayment],
         turn <- [w \in {} |-> 0]
ApiOfQueue == Queue!Spec

-----------------------------------------------------------------------------
(* A statement of the repository that the code does not meet. *)

\* "Todo settlement valido crea exactamente un job durable": a request that
\* has been settled and answered is recorded or about to be.
SettlementSeen ==
    \A r \in Requests : pc[r] = "ok" /\ ~broken => pay[r] \in proof

=============================================================================
