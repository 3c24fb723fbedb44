------------------------ MODULE ConditionalPayment ------------------------
(***************************************************************************)
(* scripts/conditional-x402-payment.js: once a transfer of exactly two     *)
(* USDC to the payer is confirmed, pay two USDC back through the x402      *)
(* endpoint, and do so once.  A run takes a lock file, reads its state     *)
(* file, scans the chain for the funding and for a payment already made,   *)
(* signs an authorization, stores it, sends it and waits for the receipt.  *)
(*                                                                         *)
(* runConditionalPayment ends with "return executeAuthorizedPayment(...)"  *)
(* inside try/finally without await: the finally block releases the lock   *)
(* while the payment is under way (Release is enabled from "sign" on).     *)
(*                                                                         *)
(* One block is one tick of the clock.  The endpoint and the facilitator   *)
(* are external: a sent authorization may be mined in any block before its *)
(* validBefore, and the endpoint may answer anything.                      *)
(***************************************************************************)
EXTENDS Integers, FiniteSets

CONSTANTS
    Runs,           \* executions of the script
    Auths,          \* authorizations that may be signed
    NoAuth,
    Confirmations,  \* CONFIG.confirmations
    Lifetime,       \* blocks from signing to validBefore
    Margin,         \* the 15 seconds within which an authorization is renewed
    Lookback,       \* the 20 blocks before the first run
    FirstBlock,     \* height at the start
    Spare,          \* payments the wallet can make besides the funded one
    LastBlock,      \* bound on the height
    MaxFaults       \* bound: crashes and locks older than ten minutes

ASSUME ChainAssumption ==
    /\ Confirmations \in Nat \ {0}
    /\ {Lifetime, Margin, Lookback, Spare, LastBlock, MaxFaults} \subseteq Nat
    /\ FirstBlock \in Nat
    /\ FirstBlock > Lookback          \* Base is long past its first blocks,
    /\ FirstBlock >= Confirmations    \* so confirmedBlock is positive
ASSUME AuthAssumption == NoAuth \notin Auths

VARIABLES
    height,     \* latest block
    fundedAt,   \* block of the funding transfer, 0 before it
    older,      \* block of a transfer of two USDC back that is not the
                \* script's, made before its first run; 0 if there is none
    auth,       \* every authorization: its state, validBefore and block
    file,       \* the state file
    lock,       \* the lock file: absent, fresh, or older than ten minutes
    pc, mem, confirmed,   \* per run: control point, state, confirmedBlock
    open,       \* per run: it still holds a handle that releaseLock closes
    faults,
    overlapped, \* history: a run took the lock while another was at work,
    renewed     \* an authorization was renewed that could still settle, or had
                \* settled, in a block beyond the search of the signing run

history == <<overlapped, renewed>>
vars == <<height, fundedAt, older, auth, file, lock, pc, mem, confirmed, open,
          faults, history>>
chain == <<height, fundedAt, older>>
process == <<confirmed, open>>

Statuses == {"none", "waiting", "funding_confirmed", "authorized",
             "funding_spent_or_missing", "completed"}
States == [status : Statuses, start : Nat, next : Nat, source : Nat,
           auth : Auths \cup {NoAuth}]
\* readJson gives null for a missing file, which becomes {}.
NoState == [status |-> "none", start |-> 0, next |-> 0, source |-> 0,
            auth |-> NoAuth]
Unsigned == [state |-> "none", until |-> 0, block |-> 0]

Settled == {a \in Auths : auth[a].state = "settled"}
Signed == {a \in Auths : auth[a].state # "none"}
\* Blocks with a transfer of exactly two USDC from the payer back.
Transfers == {auth[a].block : a \in Settled} \cup ({older} \ {0})
Balance == Spare + (IF fundedAt = 0 THEN 0 ELSE 1) - Cardinality(Settled)

Locking == {"off", "break", "reopen"}
Checking == {"load", "survey", "scan", "outgoing", "balance"}
Paying == {"sign", "send", "wait", "receipt"}
Stages == Locking \cup Checking \cup Paying \cup {"finish", "ended", "dead"}

TypeOK ==
    /\ height \in Nat /\ fundedAt \in Nat /\ older \in Nat /\ faults \in 0..MaxFaults
    /\ auth \in [Auths -> [state : {"none", "signed", "sent", "settled"},
                           until : Nat, block : Nat]]
    /\ file \in States
    /\ lock \in {"free", "held", "stale"}
    /\ pc \in [Runs -> Stages]
    /\ mem \in [Runs -> States]
    /\ confirmed \in [Runs -> Nat]
    /\ open \in [Runs -> BOOLEAN]
    /\ overlapped \in BOOLEAN /\ renewed \in BOOLEAN

\* The funding may have arrived already, and a run that was killed before it
\* wrote anything may have left its lock.
Init ==
    /\ height = FirstBlock /\ fundedAt \in 0..FirstBlock /\ older \in 0..FirstBlock
    /\ auth = [a \in Auths |-> Unsigned]
    /\ file = NoState /\ lock \in {"free", "stale"}
    /\ pc = [r \in Runs |-> "off"]
    /\ mem = [r \in Runs |-> NoState]
    /\ confirmed = [r \in Runs |-> 0]
    /\ open = [r \in Runs |-> FALSE]
    /\ faults = 0 /\ overlapped = FALSE /\ renewed = FALSE

Goto(r, stage) == pc' = [pc EXCEPT ![r] = stage]
\* writePrivateJson(statePath, state): a rename, so readers see all or nothing.
Save(r, state) == mem' = [mem EXCEPT ![r] = state] /\ file' = state
-----------------------------------------------------------------------------
\* acquireLock.  A fresh lock ends the run; a stale one is removed, whoever
\* made it, and the second open fails if another run was faster.
TakeLock(r) ==
    /\ lock = "free"
    /\ lock' = "held" /\ open' = [open EXCEPT ![r] = TRUE]
    /\ overlapped' = (overlapped \/ \E q \in Runs \ {r} : pc[q] \in Checking \cup Paying)
    /\ Goto(r, "load")

TryLock(r) ==
    /\ pc[r] = "off"
    /\ \/ TakeLock(r)
       \/ lock # "free" /\ Goto(r, IF lock = "held" THEN "ended" ELSE "break")
                        /\ UNCHANGED <<lock, open, overlapped>>
    /\ UNCHANGED <<chain, auth, file, mem, confirmed, faults, renewed>>

BreakLock(r) ==
    /\ pc[r] = "break"
    /\ lock' = "free" /\ Goto(r, IF lock = "free" THEN "ended" ELSE "reopen")
    /\ UNCHANGED <<chain, auth, file, mem, process, faults, history>>

Reopen(r) ==
    /\ pc[r] = "reopen"
    /\ \/ TakeLock(r)
       \/ lock # "free" /\ Goto(r, "ended") /\ UNCHANGED <<lock, open, overlapped>>
    /\ UNCHANGED <<chain, auth, file, mem, confirmed, faults, renewed>>

\* releaseLock unlinks the path, whoever holds it by now.
Release(r) ==
    /\ open[r] /\ pc[r] \in Paying \cup {"finish", "ended"}
    /\ open' = [open EXCEPT ![r] = FALSE] /\ lock' = "free"
    /\ pc' = [pc EXCEPT ![r] = IF @ = "finish" THEN "ended" ELSE @]
    /\ UNCHANGED <<chain, auth, file, mem, confirmed, faults, history>>

Load(r) ==
    /\ pc[r] = "load"
    /\ mem' = [mem EXCEPT ![r] = file]
    /\ Goto(r, IF file.status = "completed" THEN "finish" ELSE "survey")
    /\ UNCHANGED <<chain, auth, file, lock, process, faults, history>>

\* Mutant of Survey: the latest block counts as confirmed.
SurveyEager(r) ==
    /\ pc[r] = "survey"
    /\ confirmed' = [confirmed EXCEPT ![r] = height]
    /\ IF mem[r].start = 0
       THEN Save(r, [NoState EXCEPT !.status = "waiting",
                         !.start = height - Lookback, !.next = height - Lookback])
       ELSE UNCHANGED <<mem, file>>
    /\ Goto(r, "scan")
    /\ UNCHANGED <<chain, auth, lock, open, faults, history>>

Survey(r) ==
    /\ pc[r] = "survey"
    /\ confirmed' = [confirmed EXCEPT ![r] = height - Confirmations + 1]
    /\ IF mem[r].start = 0
       THEN Save(r, [NoState EXCEPT !.status = "waiting",
                         !.start = height - Lookback, !.next = height - Lookback])
       ELSE UNCHANGED <<mem, file>>
    /\ Goto(r, "scan")
    /\ UNCHANGED <<chain, auth, lock, open, faults, history>>

\* Mutant of Scan: the next scan starts after the latest block.
ScanAhead(r) ==
    /\ pc[r] = "scan"
    /\ IF mem[r].source # 0
       THEN Goto(r, "outgoing") /\ UNCHANGED <<mem, file>>
       ELSE IF fundedAt # 0 /\ fundedAt \in mem[r].next .. confirmed[r]
       THEN /\ Save(r, [mem[r] EXCEPT !.source = fundedAt,
                                      !.status = "funding_confirmed"])
            /\ Goto(r, "outgoing")
       ELSE /\ Save(r, [mem[r] EXCEPT !.next = height + 1])
            /\ Goto(r, "finish")
    /\ UNCHANGED <<chain, auth, lock, process, faults, history>>

\* Looks for the funding in next..confirmedBlock, or stops waiting for it.
Scan(r) ==
    /\ pc[r] = "scan"
    /\ IF mem[r].source # 0
       THEN Goto(r, "outgoing") /\ UNCHANGED <<mem, file>>
       ELSE IF fundedAt # 0 /\ fundedAt \in mem[r].next .. confirmed[r]
       THEN /\ Save(r, [mem[r] EXCEPT !.source = fundedAt,
                                      !.status = "funding_confirmed"])
            /\ Goto(r, "outgoing")
       ELSE /\ Save(r, [mem[r] EXCEPT !.next = confirmed[r] + 1])
            /\ Goto(r, "finish")
    /\ UNCHANGED <<chain, auth, lock, process, faults, history>>

\* findOutgoingSettlement: a payment already on the chain completes the run.
FoundOutgoing(r) ==
    \E b \in Transfers : b \in mem[r].source .. confirmed[r]

\* Mutant of Outgoing: the outgoing transfers are not looked for.
OutgoingUnseen(r) ==
    /\ pc[r] = "outgoing" /\ Goto(r, "balance")
    /\ UNCHANGED <<mem, file, chain, auth, lock, process, faults, history>>

Outgoing(r) ==
    /\ pc[r] = "outgoing"
    /\ IF FoundOutgoing(r)
       THEN /\ Save(r, [mem[r] EXCEPT !.status = "completed", !.auth = NoAuth])
            /\ Goto(r, "finish")
       ELSE Goto(r, "balance") /\ UNCHANGED <<mem, file>>
    /\ UNCHANGED <<chain, auth, lock, process, faults, history>>

\* Mutant of CheckBalance: each run signs an authorization of its own.
CheckBalanceAfresh(r) ==
    /\ pc[r] = "balance"
    /\ IF Balance < 1
       THEN /\ Save(r, [mem[r] EXCEPT !.status = "funding_spent_or_missing"])
            /\ Goto(r, "finish")
       ELSE Goto(r, "sign") /\ UNCHANGED <<mem, file>>
    /\ UNCHANGED <<chain, auth, lock, process, faults, history>>

\* The balance is that of the latest block.  A stored authorization is used
\* again unless it is about to expire.
CheckBalance(r) ==
    /\ pc[r] = "balance"
    /\ IF Balance < 1
       THEN /\ Save(r, [mem[r] EXCEPT !.status = "funding_spent_or_missing"])
            /\ Goto(r, "finish")
       ELSE /\ Goto(r, IF \/ mem[r].auth = NoAuth
                          \/ auth[mem[r].auth].until <= height + Margin
                       THEN "sign" ELSE "send")
            /\ UNCHANGED <<mem, file>>
    /\ UNCHANGED <<chain, auth, lock, process, faults, history>>

\* r renews the authorization it has read.  Its search for a transfer ended at
\* confirmed[r]: in the blocks after that one it may settle, or has settled.
RenewsEarly(r) ==
    /\ mem[r].auth # NoAuth
    /\ auth[mem[r].auth].until > confirmed[r] + 1
    /\ auth[mem[r].auth].until <= height + Margin

\* Mutant of Sign: what is signed is sent before it is stored.
SignUnstored(r) ==
    /\ pc[r] = "sign"
    /\ \E a \in Auths \ Signed :
        /\ auth' = [auth EXCEPT ![a] = [state |-> "signed",
                        until |-> height + Lifetime, block |-> 0]]
        /\ mem' = [mem EXCEPT ![r] = [@ EXCEPT !.auth = a, !.status = "authorized"]]
    /\ renewed' = (renewed \/ RenewsEarly(r))
    /\ Goto(r, "send")
    /\ UNCHANGED <<chain, lock, process, faults, overlapped, file>>

\* createAuthorization: the challenge is fetched and must ask for exactly this
\* payment; what is signed is stored before it is sent.
Sign(r) ==
    /\ pc[r] = "sign"
    /\ \E a \in Auths \ Signed :
        /\ auth' = [auth EXCEPT ![a] = [state |-> "signed",
                        until |-> height + Lifetime, block |-> 0]]
        /\ Save(r, [mem[r] EXCEPT !.auth = a, !.status = "authorized"])
    /\ renewed' = (renewed \/ RenewsEarly(r))
    /\ Goto(r, "send")
    /\ UNCHANGED <<chain, lock, process, faults, overlapped>>

Send(r) ==
    /\ pc[r] = "send"
    /\ auth' = [auth EXCEPT ![mem[r].auth].state =
                    IF @ = "signed" THEN "sent" ELSE @]
    /\ Goto(r, "wait")
    /\ UNCHANGED <<chain, file, lock, mem, process, faults, history>>

\* The response claims a settlement, or it is refused and the attempt noted.
Answer(r) ==
    /\ pc[r] = "wait"
    /\ \/ Goto(r, "receipt") /\ UNCHANGED <<mem, file>>
       \/ Save(r, mem[r]) /\ Goto(r, "ended")
    /\ UNCHANGED <<chain, auth, lock, process, faults, history>>

\* Mutant of Receipt: the endpoint's answer is taken for the receipt.
ReceiptTrusted(r) ==
    /\ pc[r] = "receipt"
    /\ Save(r, [mem[r] EXCEPT !.status = "completed", !.auth = NoAuth])
    /\ Goto(r, "ended")
    /\ UNCHANGED <<chain, auth, lock, process, faults, history>>

\* waitForReceipt: only a receipt with the exact transfer completes, but that
\* of any transaction the endpoint names, in whatever block.
Receipt(r) ==
    /\ pc[r] = "receipt" /\ Transfers # {}
    /\ Save(r, [mem[r] EXCEPT !.status = "completed", !.auth = NoAuth])
    /\ Goto(r, "ended")
    /\ UNCHANGED <<chain, auth, lock, process, faults, history>>

\* Any call to the RPC node or the endpoint may throw.
Throw(r) ==
    /\ pc[r] \in (Checking \ {"load"}) \cup Paying
    /\ Goto(r, IF pc[r] \in Paying THEN "ended" ELSE "finish")
    /\ UNCHANGED <<chain, auth, file, lock, mem, process, faults, history>>

Crash(r) ==
    /\ pc[r] \notin {"off", "ended", "dead"} /\ faults < MaxFaults
    /\ Goto(r, "dead") /\ faults' = faults + 1
    /\ UNCHANGED <<chain, auth, file, lock, mem, process, history>>

\* The lock file turns ten minutes old.
LockAges ==
    /\ lock = "held" /\ faults < MaxFaults
    /\ lock' = "stale" /\ faults' = faults + 1
    /\ UNCHANGED <<chain, auth, file, pc, mem, process, history>>

\* A block: it may hold the funding and any payments the token accepts.
Mine ==
    /\ height < LastBlock
    /\ height' = height + 1
    /\ UNCHANGED older
    /\ fundedAt' \in {fundedAt, IF fundedAt = 0 THEN height + 1 ELSE fundedAt}
    /\ \E S \in SUBSET {a \in Auths : auth[a].state = "sent"
                                      /\ auth[a].until > height + 1} :
        /\ Cardinality(S) <= Balance
        /\ auth' = [a \in Auths |-> IF a \in S
                       THEN [auth[a] EXCEPT !.state = "settled", !.block = height + 1]
                       ELSE auth[a]]
    /\ UNCHANGED <<file, lock, pc, mem, process, faults, history>>

Acquiring(r) == TryLock(r) \/ BreakLock(r) \/ Reopen(r) \/ Release(r)
Deciding(r) ==
    Load(r) \/ Survey(r) \/ Scan(r) \/ Outgoing(r) \/ CheckBalance(r)
Executing(r) == Sign(r) \/ Send(r) \/ Answer(r) \/ Receipt(r)

Next ==
    \/ \E r \in Runs :
        Acquiring(r) \/ Deciding(r) \/ Executing(r) \/ Throw(r) \/ Crash(r)
    \/ LockAges
    \/ Mine

Spec == Init /\ [][Next]_vars
-----------------------------------------------------------------------------
\* At most one payment ever settles ("one-shot", AUTOMATED_REVIEW_PLAN.md:69).
\* It does not hold: the lock is released before the payment is made.
PaidOnce == \A a, b \in Settled : a = b

\* What does hold: a second payment takes two runs at work at the same time (the
\* lock released early, or broken as stale under a live run), or an authorization
\* renewed within Margin of its end or later, while the search for its transfer
\* stopped Confirmations short of the latest block.  Runs that follow each other,
\* whatever they die of and wherever, otherwise pay once; that they store what
\* they sign before it is sent, use it again while it lives and look for its
\* transfer first are each needed for it.
PaidTwiceExplained == PaidOnce \/ overlapped \/ renewed

\* Nothing is signed before the funding transfer has all its confirmations,
\* whatever runs overlap and whichever state file a run happened to read.
FundedBeforeSigned ==
    Signed # {} => fundedAt # 0 /\ fundedAt + Confirmations - 1 <= height

\* The state file says completed only of a confirmed funding and a transfer back
\* in its block or a later one, never on the endpoint's word alone.  The code
\* leaves one case open: the block of the receipt is not compared with that of
\* the funding, so that an older transfer, where there is one, may stand in.
CompletedIsPaid ==
    file.status = "completed" =>
        /\ fundedAt # 0
        /\ \/ \E b \in Transfers : b >= fundedAt
           \/ older \in 1..(fundedAt - 1)

\* The scan never moves past a funding transfer it has not noted, even when
\* runs overwrite each other's state file.
NoSkippedFunding ==
    fundedAt # 0 /\ file.start # 0 /\ fundedAt >= file.start /\ file.source = 0
        => file.next <= fundedAt
=============================================================================
