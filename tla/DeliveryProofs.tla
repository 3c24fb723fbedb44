--------------------------- MODULE DeliveryProofs ---------------------------
(***************************************************************************)
(* Theorems about Delivery, for any number of deliveries and senders and   *)
(* any bounds.  The inductive invariant adds to TypeOK that a busy process *)
(* holds a delivery, that an outcome "ok" was answered 2xx, that a row     *)
(* which may be claimed again has a fault or a hang to spare, and, for the *)
(* time before anything breaks or hangs, that a row is "sending" exactly   *)
(* while one process holds it and so never grows stale.                    *)
(***************************************************************************)
EXTENDS Delivery, TLAPS

Busy == Errors \cup {"post", "hang", "ok"}

\* A process is busy exactly while it holds a delivery.
HeldWhileBusy == \A s \in Senders : pc[s] \in Busy <=> held[s] # NoDelivery

\* A sender about to record a success has been answered 2xx.
OkAccepted == \A s \in Senders : pc[s] = "ok" => held[s] \in accepted

Calm == faults = 0 /\ hangs = 0

\* While nothing has broken or hung, a row being sent is held by a process
\* that is neither dead nor hanging, and is fresh.
CalmSending ==
    Calm =>
        /\ \A s \in Senders : pc[s] \notin {"dead", "hang"}
        /\ \A d \in Deliveries : status[d] = "sending" => \E s \in Senders : held[s] = d
        /\ \A d \in Deliveries : age[d] = "fresh"

\* A row that may be claimed, now or once it is found stale, has a fault or a
\* hang to its account that no attempt beyond the limit has used.
TriesLeft ==
    \A d \in Deliveries :
        /\ status[d] = "absent" => attempts[d] = 0
        /\ (\/ status[d] = "pending"
            \/ /\ status[d] = "sending"
               /\ age[d] = "stale" \/ \A s \in Senders : held[s] = d => pc[s] = "hang")
             => attempts[d] < MaxTries + faults + hangs

IInv ==
    /\ TypeOK
    /\ HeldWhileBusy
    /\ OkAccepted
    /\ DeliveredMeansAccepted
    /\ OneSender
    /\ CalmSending
    /\ TriesLeft
    /\ TriesBounded

LEMMA InitIInv == Init => IInv
  BY NoDeliveryAssumption, LimitsAssumption
  DEF Init, IInv, TypeOK, HeldWhileBusy, OkAccepted, DeliveredMeansAccepted,
      OneSender, CalmSending, Calm, Busy, Stages, Errors, TriesLeft, TriesBounded

-----------------------------------------------------------------------------
(* Types, and what a process holds. *)

\* The disjuncts of Next, by the process that takes them.
SenderStep(s) == Loop(s) \/ DeliveredLost(s) \/ Crash(s)

LEMMA TypeStep ==
  ASSUME TypeOK, HeldWhileBusy, Next
  PROVE  TypeOK' /\ HeldWhileBusy'
  <1> USE NoDeliveryAssumption, LimitsAssumption
  <1> USE DEF TypeOK, HeldWhileBusy, Busy, Stages, Errors
  <1>1. ASSUME NEW d \in Deliveries, EnqueueDelivery(d) \/ Clock(d)
        PROVE  TypeOK' /\ HeldWhileBusy'
    BY <1>1 DEF EnqueueDelivery, Clock, BackoffEnds, TenMinutesPass, Update
  <1>2. ASSUME NEW s \in Senders, SenderStep(s)
        PROVE  TypeOK' /\ HeldWhileBusy'
    <2>1. CASE RequeueStaleDeliveries(s)
      BY <2>1 DEF RequeueStaleDeliveries, Go, Fault, rows
    <2>2. CASE Claim(s)
      BY <2>2 DEF Claim, ClaimNextDelivery, Go, Update
    <2>3. CASE ClaimNothing(s)
      BY <2>3 DEF ClaimNothing, Go, rows
    <2>4. CASE Post(s)
      BY <2>4 DEF Post, Accept, Reject, Receive, Hang, HangEnds, Go, rows
    <2>5. CASE Record(s)
      BY <2>5 DEF Record, MarkDeliveryDelivered, MarkDeliveryFailed, Go, Update, Release
    <2>6. CASE DeliveredLost(s)
      BY <2>6 DEF DeliveredLost, Go, Update, Fault
    <2>7. CASE Crash(s)
      BY <2>7 DEF Crash, Fault, Release, rows
    <2> QED
      BY <1>2, <2>1, <2>2, <2>3, <2>4, <2>5, <2>6, <2>7 DEF SenderStep, Loop
  <1> QED
    BY <1>1, <1>2 DEF Next, SenderStep

-----------------------------------------------------------------------------
(* Delivered means accepted. *)

LEMMA AcceptedStep ==
  ASSUME TypeOK, HeldWhileBusy, OkAccepted, DeliveredMeansAccepted, Next
  PROVE  OkAccepted' /\ DeliveredMeansAccepted'
  <1> USE NoDeliveryAssumption
  <1> USE DEF TypeOK, HeldWhileBusy, Busy, Errors, Stages, OkAccepted, DeliveredMeansAccepted
  <1>1. ASSUME NEW d \in Deliveries, EnqueueDelivery(d) \/ Clock(d)
        PROVE  OkAccepted' /\ DeliveredMeansAccepted'
    BY <1>1 DEF EnqueueDelivery, Clock, BackoffEnds, TenMinutesPass, Update
  <1>2. ASSUME NEW s \in Senders, SenderStep(s)
        PROVE  OkAccepted' /\ DeliveredMeansAccepted'
    <2>1. CASE RequeueStaleDeliveries(s)
      BY <2>1 DEF RequeueStaleDeliveries, Go, rows
    <2>2. CASE Claim(s)
      BY <2>2 DEF Claim, ClaimNextDelivery, Go, Update
    <2>3. CASE ClaimNothing(s)
      BY <2>3 DEF ClaimNothing, Go, rows
    <2>4. CASE Post(s)
      BY <2>4 DEF Post, Accept, Reject, Receive, Hang, HangEnds, Go, rows
    <2>5. CASE Record(s)
      BY <2>5 DEF Record, MarkDeliveryDelivered, MarkDeliveryFailed, Go, Update, Release
    <2>6. CASE DeliveredLost(s)
      BY <2>6 DEF DeliveredLost, Go, Update
    <2>7. CASE Crash(s)
      BY <2>7 DEF Crash, Release, rows
    <2> QED
      BY <1>2, <2>1, <2>2, <2>3, <2>4, <2>5, <2>6, <2>7 DEF SenderStep, Loop
  <1> QED
    BY <1>1, <1>2 DEF Next, SenderStep

-----------------------------------------------------------------------------
(* One sender at a time, until something breaks or hangs. *)

\* What OneSender and CalmSending say of a calm state.
Orderly ==
    /\ \A s, t \in Senders :
        /\ held[s] # NoDelivery => status[held[s]] = "sending"
        /\ held[s] = held[t] /\ held[s] # NoDelivery => s = t
    /\ \A s \in Senders : pc[s] \notin {"dead", "hang"}
    /\ \A d \in Deliveries : status[d] = "sending" => \E s \in Senders : held[s] = d
    /\ \A d \in Deliveries : age[d] = "fresh"

LEMMA OrderlyIsBoth == (OneSender /\ CalmSending) <=> (Calm => Orderly)
  BY DEF OneSender, CalmSending, Calm, Orderly

LEMMA CalmBefore ==
  ASSUME TypeOK, Next, Calm'
  PROVE  Calm
  <1> USE LimitsAssumption
  <1> USE DEF TypeOK, Calm
  <1>1. faults' \in {faults, faults + 1} /\ hangs' \in {hangs, hangs + 1}
    <2>1. ASSUME NEW d \in Deliveries, EnqueueDelivery(d) \/ Clock(d)
          PROVE  faults' = faults /\ hangs' = hangs
      BY <2>1 DEF EnqueueDelivery, Clock, BackoffEnds, TenMinutesPass
    <2>2. ASSUME NEW s \in Senders, SenderStep(s)
          PROVE  faults' \in {faults, faults + 1} /\ hangs' \in {hangs, hangs + 1}
      BY <2>2 DEF SenderStep, Loop, RequeueStaleDeliveries, Claim, ClaimNextDelivery,
                  ClaimNothing, Post, Accept, Reject, Hang, HangEnds, Record,
                  MarkDeliveryDelivered, MarkDeliveryFailed, DeliveredLost, Crash, Fault
    <2> QED
      BY <2>1, <2>2 DEF Next, SenderStep
  <1> QED
    BY <1>1

LEMMA OrderlyStep ==
  ASSUME TypeOK, HeldWhileBusy, Calm, Orderly, Next, Calm'
  PROVE  Orderly'
  <1> USE NoDeliveryAssumption
  <1> USE DEF TypeOK, HeldWhileBusy, Busy, Errors, Stages, Orderly
  <1>1. ~(faults' = faults + 1) /\ ~(hangs' = hangs + 1)
    BY LimitsAssumption DEF Calm
  <1>2. ASSUME NEW d \in Deliveries, EnqueueDelivery(d) \/ BackoffEnds(d)
        PROVE  Orderly'
    BY <1>2 DEF EnqueueDelivery, BackoffEnds, Update
  <1>3. ASSUME NEW d \in Deliveries, TenMinutesPass(d)
        PROVE  FALSE
    BY <1>3 DEF TenMinutesPass
  <1>4. ASSUME NEW s \in Senders, SenderStep(s)
        PROVE  Orderly'
    <2>1. CASE RequeueStaleDeliveries(s)
      <3>1. \A d \in Deliveries : ~Stale(d)
        BY DEF Stale
      <3> QED
        BY <2>1, <3>1 DEF RequeueStaleDeliveries, Go, rows
    <2>2. ASSUME NEW d \in Deliveries, ClaimNextDelivery(s, d)
          PROVE  Orderly'
      <3>1. \A t \in Senders : held[t] # d
        BY <2>2 DEF ClaimNextDelivery
      <3> QED
        BY <2>2, <3>1 DEF ClaimNextDelivery, Go, Update
    <2>3. CASE ClaimNothing(s)
      BY <2>3 DEF ClaimNothing, Go, rows
    <2>4. CASE Post(s)
      <3>1. ~Hang(s) /\ ~HangEnds(s)
        BY <1>1 DEF Hang, HangEnds, Go
      <3> QED
        BY <2>4, <3>1 DEF Post, Accept, Reject, Receive, Go, rows
    <2>5. CASE Record(s)
      <3>1. held[s] \in Deliveries /\ \A t \in Senders : t # s => held[t] # held[s]
        BY <2>5 DEF Record, MarkDeliveryDelivered, MarkDeliveryFailed, Go
      <3> QED
        BY <2>5, <3>1 DEF Record, MarkDeliveryDelivered, MarkDeliveryFailed, Go, Update, Release
    <2>6. ~DeliveredLost(s) /\ ~Crash(s)
      BY <1>1 DEF DeliveredLost, Crash, Fault
    <2> QED
      BY <1>4, <2>1, <2>2, <2>3, <2>4, <2>5, <2>6 DEF SenderStep, Loop, Claim
  <1> QED
    BY <1>2, <1>3, <1>4 DEF Next, SenderStep, Clock

-----------------------------------------------------------------------------
(* The limit on attempts. *)

LEMMA TriesStep ==
  ASSUME TypeOK, HeldWhileBusy, TriesLeft, TriesBounded, Next
  PROVE  TriesLeft' /\ TriesBounded'
  <1> USE NoDeliveryAssumption, LimitsAssumption
  <1> USE DEF TypeOK, HeldWhileBusy, Busy, Errors, Stages, TriesLeft, TriesBounded
  <1>1. ASSUME NEW d \in Deliveries, EnqueueDelivery(d) \/ Clock(d)
        PROVE  TriesLeft' /\ TriesBounded'
    BY <1>1 DEF EnqueueDelivery, Clock, BackoffEnds, TenMinutesPass, Update
  <1>2. ASSUME NEW s \in Senders, SenderStep(s)
        PROVE  TriesLeft' /\ TriesBounded'
    <2>1. CASE RequeueStaleDeliveries(s)
      BY <2>1 DEF RequeueStaleDeliveries, Go, rows, Stale, Fault
    <2>2. CASE Claim(s)
      BY <2>2 DEF Claim, ClaimNextDelivery, Go, Update
    <2>3. CASE ClaimNothing(s)
      BY <2>3 DEF ClaimNothing, Go, rows
    <2>4. CASE Post(s)
      <3>1. CASE Accept(s) \/ Reject(s) \/ HangEnds(s)
        BY <3>1 DEF Accept, Reject, Receive, HangEnds, Go, rows
      <3>2. CASE Hang(s)
        BY <3>2 DEF Hang, Go, rows
      <3> QED
        BY <2>4, <3>1, <3>2 DEF Post
    <2>5. CASE Record(s)
      BY <2>5 DEF Record, MarkDeliveryDelivered, MarkDeliveryFailed, Retryable, Go, Update, Release
    <2>6. CASE DeliveredLost(s)
      BY <2>6 DEF DeliveredLost, Go, Update, Fault
    <2>7. CASE Crash(s)
      BY <2>7 DEF Crash, Fault, Release, rows
    <2> QED
      BY <1>2, <2>1, <2>2, <2>3, <2>4, <2>5, <2>6, <2>7 DEF SenderStep, Loop
  <1> QED
    BY <1>1, <1>2 DEF Next, SenderStep

-----------------------------------------------------------------------------
(* The invariant, and the theorems. *)

LEMMA NextIInv == IInv /\ [Next]_vars => IInv'
  <1> SUFFICES ASSUME IInv, [Next]_vars PROVE IInv'
    OBVIOUS
  <1>1. CASE Next
    <2>1. TypeOK' /\ HeldWhileBusy'
      BY <1>1, TypeStep DEF IInv
    <2>2. OkAccepted' /\ DeliveredMeansAccepted'
      BY <1>1, AcceptedStep DEF IInv
    <2>3. Calm' => Orderly'
      BY <1>1, CalmBefore, OrderlyStep, OrderlyIsBoth DEF IInv
    <2>4. OneSender' /\ CalmSending'
      BY <2>3 DEF OneSender, CalmSending, Calm, Orderly
    <2>5. TriesLeft' /\ TriesBounded'
      BY <1>1, TriesStep DEF IInv
    <2> QED
      BY <2>1, <2>2, <2>4, <2>5 DEF IInv
  <1>2. CASE UNCHANGED vars
    BY <1>2 DEF IInv, TypeOK, HeldWhileBusy, OkAccepted, DeliveredMeansAccepted,
                OneSender, CalmSending, Calm, TriesLeft, TriesBounded, vars, rows
  <1> QED
    BY <1>1, <1>2

\* The invariant holds of every behaviour of the senders and the rows.
THEOREM Invariance == Spec => []IInv
  BY InitIInv, NextIInv, PTL DEF Spec

\* Every variable keeps its type; in particular a row keeps a status of the
\* table's CHECK constraint.
THEOREM TypeCorrect == Spec => []TypeOK
  <1>1. IInv => TypeOK
    BY DEF IInv
  <1> QED
    BY <1>1, Invariance, PTL

\* A webhook recorded as delivered was answered 2xx, whatever stale senders,
\* crashes, lost replies and repeated posts came before the record.
THEOREM DeliveredMeansAcceptedAlways == Spec => []DeliveredMeansAccepted
  <1>1. IInv => DeliveredMeansAccepted
    BY DEF IInv
  <1> QED
    BY <1>1, Invariance, PTL

\* With no fault and no hanging post, the claim and the status alone keep two
\* processes from sending one delivery, though the rows have no owner.
THEOREM OneSenderAlways == Spec => []OneSender
  <1>1. IInv => OneSender
    BY DEF IInv
  <1> QED
    BY <1>1, Invariance, PTL

\* However faults, hangs, stale senders and recoveries interleave, the attempts
\* at one delivery never exceed the limit by more than the faults and hangs.
THEOREM TriesBoundedAlways == Spec => []TriesBounded
  <1>1. IInv => TriesBounded
    BY DEF IInv
  <1> QED
    BY <1>1, Invariance, PTL

=============================================================================
