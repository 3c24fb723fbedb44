---------------------- MODULE ConditionalPaymentProofs ----------------------
(***************************************************************************)
(* Proofs about ConditionalPayment, for any number of runs, authorizations *)
(* and blocks.  The inductive invariant says of every copy of the state,   *)
(* the file's and each run's, what the chain already confirms (StateOK);   *)
(* because any copy may be written back over the file, the file is safe    *)
(* only as long as all of them are.  A second one, OnceInv, says how many  *)
(* authorizations can still settle.                                        *)
(***************************************************************************)
EXTENDS ConditionalPayment, TLAPS

Funded == fundedAt # 0 /\ fundedAt + Confirmations - 1 <= height

\* What CompletedIsPaid says of the chain.
Paid ==
    /\ fundedAt # 0
    /\ \/ \E b \in Transfers : b >= fundedAt
       \/ older \in 1..(fundedAt - 1)

StateOK(s) ==
    /\ s.source # 0 => s.source = fundedAt /\ Funded
    /\ s.status = "completed" => Paid
    /\ s.next <= height + 1
    /\ s.start # 0 /\ s.source = 0 /\ fundedAt # 0 /\ fundedAt >= s.start
        => s.next <= fundedAt
StateInv == StateOK(file) /\ \A r \in Runs : StateOK(mem[r])

\* A run that is past the scan for outgoing transfers has seen none.
RunOK(r) ==
    /\ confirmed[r] <= height - Confirmations + 1
    /\ pc[r] \in {"outgoing", "balance"} \cup Paying => mem[r].source # 0
    /\ pc[r] \in {"balance", "sign"} =>
        \A a \in Settled : auth[a].block \notin mem[r].source .. confirmed[r]
RunInv == \A r \in Runs : RunOK(r)

AuthOK(a) ==
    /\ auth[a].state # "none" => Funded
    /\ auth[a].state = "settled" =>
        auth[a].block < auth[a].until /\ fundedAt <= auth[a].block
AuthInv == \A a \in Auths : AuthOK(a)

IInv ==
    /\ TypeOK /\ height >= FirstBlock
    /\ StateInv /\ RunInv /\ AuthInv
-----------------------------------------------------------------------------
LEMMA ChainFacts ==
    /\ Confirmations \in Nat \ {0} /\ FirstBlock \in Nat
    /\ {Lifetime, Margin, Lookback, Spare, LastBlock, MaxFaults} \subseteq Nat
    /\ FirstBlock > Lookback /\ FirstBlock >= Confirmations
  BY ChainAssumption

LEMMA StateFacts ==
  ASSUME NEW s \in States, NEW n \in Nat, NEW a \in Auths \cup {NoAuth},
         NEW status \in Statuses
  PROVE  /\ [NoState EXCEPT !.status = status, !.start = n, !.next = n] \in States
         /\ [s EXCEPT !.source = n, !.status = status] \in States
         /\ [s EXCEPT !.next = n] \in States
         /\ [s EXCEPT !.status = status, !.auth = NoAuth] \in States
         /\ [s EXCEPT !.status = status] \in States
         /\ [s EXCEPT !.auth = a, !.status = status] \in States
         /\ NoState \in States
  BY DEF States, NoState, Statuses

LEMMA TypeStep == TypeOK /\ height >= FirstBlock /\ [Next]_vars
                    => TypeOK' /\ height' >= FirstBlock
  <1> SUFFICES ASSUME TypeOK, height >= FirstBlock, [Next]_vars
               PROVE  TypeOK' /\ height' >= FirstBlock
    OBVIOUS
  <1> DEFINE Records == [state : {"none", "signed", "sent", "settled"},
                         until : Nat, block : Nat]
             Moved(r) == \E stage \in Stages : pc' = [pc EXCEPT ![r] = stage]
             Saved(r) == \E s \in States : /\ mem' = [mem EXCEPT ![r] = s]
                                           /\ file' \in {file, s}
  <1> USE ChainFacts
  <1>a. TypeOK /\ (TypeOK' <=> /\ height' \in Nat /\ fundedAt' \in Nat
          /\ faults' \in 0..MaxFaults /\ auth' \in [Auths -> Records]
          /\ file' \in States /\ lock' \in {"free", "held", "stale"}
          /\ pc' \in [Runs -> Stages] /\ mem' \in [Runs -> States]
          /\ confirmed' \in [Runs -> Nat] /\ open' \in [Runs -> BOOLEAN]
          /\ older' \in Nat /\ overlapped' \in BOOLEAN /\ renewed' \in BOOLEAN)
    BY DEF TypeOK
  <1>b. ASSUME NEW r \in Runs, Moved(r) PROVE pc' \in [Runs -> Stages]
    BY <1>b DEF TypeOK
  <1>c. ASSUME NEW r \in Runs, Saved(r) PROVE mem' \in [Runs -> States] /\ file' \in States
    BY <1>c DEF TypeOK
  <1>d. ASSUME NEW r \in Runs PROVE mem[r] \in States /\ confirmed[r] \in Nat
    BY DEF TypeOK
  <1>e. /\ {"ended", "break", "reopen", "load", "finish", "survey", "scan", "outgoing",
            "balance", "sign", "send", "wait", "receipt", "dead"} \subseteq Stages
        /\ {"waiting", "funding_confirmed", "authorized", "completed",
            "funding_spent_or_missing"} \subseteq Statuses
    BY DEF Stages, Locking, Checking, Paying, Statuses
  <1> DEFINE Goal == TypeOK' /\ height' >= FirstBlock
  <1> HIDE DEF Records
  <1>1. ASSUME NEW r \in Runs, Acquiring(r) PROVE Goal
    <2>1. /\ open' \in [Runs -> BOOLEAN] /\ lock' \in {"free", "held", "stale"}
          /\ pc' \in [Runs -> Stages]
      BY <1>1, <1>e DEF Acquiring, TryLock, BreakLock, Reopen, Release, TakeLock,
                        TypeOK, Goto, process
    <2>2. UNCHANGED <<height, fundedAt, older, auth, file, mem, confirmed, faults, renewed>>
      BY <1>1 DEF Acquiring, TryLock, BreakLock, Reopen, Release, chain, process, history
    <2>3. overlapped' \in BOOLEAN
      BY <1>1 DEF Acquiring, TryLock, BreakLock, Reopen, Release, TakeLock, history, TypeOK
    <2> QED
      BY <1>a, <2>1, <2>2, <2>3 DEF TypeOK
  <1>2. ASSUME NEW r \in Runs, Deciding(r) PROVE Goal
    <2> DEFINE Part == /\ Moved(r) /\ Saved(r) /\ confirmed' \in [Runs -> Nat]
                       /\ UNCHANGED <<height, fundedAt, older, auth, lock, open, faults, history>>
    <2> USE <1>d, <1>e DEF TypeOK, Goto, Save, chain, process, history
    <2>0. UNCHANGED <<mem, file>> => Saved(r)
      <3>1. UNCHANGED <<mem, file>> => mem' = [mem EXCEPT ![r] = mem[r]]
        OBVIOUS
      <3> QED
        BY <3>1
    <2>1. ASSUME Load(r) PROVE Part
      BY <2>1 DEF Load
    <2>2. ASSUME Survey(r) PROVE Part
      <3>1. height - Lookback \in Nat /\ height - Confirmations + 1 \in Nat
        OBVIOUS
      <3>2. [NoState EXCEPT !.status = "waiting", !.start = height - Lookback,
                            !.next = height - Lookback] \in States
        BY <3>1, StateFacts
      <3> QED
        BY <2>0, <2>2, <3>1, <3>2 DEF Survey
    <2>3. ASSUME Scan(r) PROVE Part
      <3>1. [mem[r] EXCEPT !.source = fundedAt, !.status = "funding_confirmed"] \in States
        BY StateFacts
      <3>2. confirmed[r] + 1 \in Nat
        OBVIOUS
      <3>3. [mem[r] EXCEPT !.next = confirmed[r] + 1] \in States
        BY <3>2, StateFacts
      <3>4. Saved(r)
        BY <2>0, <2>3, <3>1, <3>3 DEF Scan
      <3> QED
        BY <2>3, <3>4 DEF Scan
    <2>4. ASSUME Outgoing(r) PROVE Part
      <3>1. [mem[r] EXCEPT !.status = "completed", !.auth = NoAuth] \in States
        BY StateFacts
      <3> QED
        BY <2>0, <2>4, <3>1 DEF Outgoing
    <2>5. ASSUME CheckBalance(r) PROVE Part
      <3>1. [mem[r] EXCEPT !.status = "funding_spent_or_missing"] \in States
        BY StateFacts
      <3> QED
        BY <2>0, <2>5, <3>1 DEF CheckBalance
    <2>6. Part
      BY <1>2, <2>1, <2>2, <2>3, <2>4, <2>5 DEF Deciding
    <2> HIDE DEF Moved, Saved
    <2> QED
      BY <1>a, <1>b, <1>c, <2>6
  <1>3. ASSUME NEW r \in Runs, Executing(r) PROVE Goal
    <2> DEFINE Part == /\ Moved(r) /\ Saved(r) /\ auth' \in [Auths -> Records]
                       /\ renewed' \in BOOLEAN
                       /\ UNCHANGED <<height, fundedAt, older, lock, confirmed, open, faults,
                                      overlapped>>
    <2> USE <1>d, <1>e DEF TypeOK, Goto, Save, chain, process, history
    <2>0. UNCHANGED mem /\ UNCHANGED file => Saved(r)
      <3>1. UNCHANGED mem => mem' = [mem EXCEPT ![r] = mem[r]]
        OBVIOUS
      <3> QED
        BY <3>1
    <2>1. ASSUME Sign(r) PROVE Part
      <3>1. PICK a \in Auths \ Signed :
               /\ auth' = [auth EXCEPT ![a] = [state |-> "signed",
                                until |-> height + Lifetime, block |-> 0]]
               /\ Save(r, [mem[r] EXCEPT !.auth = a, !.status = "authorized"])
        BY <2>1 DEF Sign
      <3>2. [mem[r] EXCEPT !.auth = a, !.status = "authorized"] \in States
        BY StateFacts
      <3>3. auth' \in [Auths -> Records]
        BY <3>1 DEF Records
      <3>4. renewed' \in BOOLEAN /\ Moved(r)
            /\ UNCHANGED <<height, fundedAt, older, lock, confirmed, open, faults,
                           overlapped>>
        BY <2>1 DEF Sign
      <3> QED
        BY <3>1, <3>2, <3>3, <3>4
    <2>2. ASSUME Send(r) PROVE Part
      <3>1. auth' \in [Auths -> Records]
        BY <2>2 DEF Send, Records
      <3> QED
        BY <2>0, <2>2, <3>1 DEF Send
    <2>3. ASSUME Answer(r) PROVE Part
      BY <2>0, <2>3 DEF Answer, Records
    <2>4. ASSUME Receipt(r) PROVE Part
      <3>1. [mem[r] EXCEPT !.status = "completed", !.auth = NoAuth] \in States
        BY StateFacts
      <3> QED
        BY <2>4, <3>1 DEF Receipt, Records
    <2>5. Part
      BY <1>3, <2>1, <2>2, <2>3, <2>4 DEF Executing
    <2> HIDE DEF Moved, Saved
    <2> QED
      BY <1>a, <1>b, <1>c, <2>5
  <1>4. ASSUME NEW r \in Runs, Throw(r) \/ Crash(r) PROVE Goal
    <2>1. /\ Moved(r) /\ faults' \in 0..MaxFaults
          /\ UNCHANGED <<height, fundedAt, older, auth, file, lock, mem, confirmed, open,
                         history>>
      BY <1>4, <1>e DEF Throw, Crash, Goto, chain, process, TypeOK
    <2> HIDE DEF Moved
    <2> QED
      BY <1>a, <1>b, <2>1 DEF TypeOK, history
  <1>5. ASSUME LockAges PROVE Goal
    BY <1>a, <1>5 DEF LockAges, TypeOK, chain, process, history
  <1>6. ASSUME Mine PROVE Goal
    <2>1. /\ height' = height + 1
          /\ UNCHANGED <<older, file, lock, pc, mem, confirmed, open, faults, history>>
      BY <1>6 DEF Mine, process
    <2>2. fundedAt' \in {fundedAt, height + 1}
      BY <1>6 DEF Mine
    <2>3. PICK S :
             auth' = [a \in Auths |-> IF a \in S
                        THEN [auth[a] EXCEPT !.state = "settled", !.block = height + 1]
                        ELSE auth[a]]
      BY <1>6 DEF Mine
    <2>4. height + 1 \in Nat
      BY DEF TypeOK
    <2>5. ASSUME NEW x \in Records, NEW n \in Nat
          PROVE  [x EXCEPT !.state = "settled", !.block = n] \in Records
      BY DEF Records
    <2>6. \A a \in Auths : auth[a] \in Records
      BY <1>a DEF TypeOK, Records
    <2>7. auth' \in [Auths -> Records]
      BY <2>3, <2>4, <2>5, <2>6
    <2> QED
      BY <1>a, <2>1, <2>2, <2>7 DEF TypeOK, history
  <1>7. ASSUME UNCHANGED vars PROVE Goal
    BY <1>a, <1>7 DEF vars, TypeOK, history
  <1> QED
    BY <1>1, <1>2, <1>3, <1>4, <1>5, <1>6, <1>7 DEF Next

LEMMA InitOK == Init => IInv
  <1> SUFFICES ASSUME Init PROVE IInv
    OBVIOUS
  <1> USE ChainFacts DEF Init
  <1>0. height \in Nat /\ fundedAt \in Nat /\ older \in Nat /\ faults \in 0..MaxFaults
        /\ height >= FirstBlock /\ lock \in {"free", "held", "stale"}
    OBVIOUS
  <1>1. TypeOK /\ height >= FirstBlock
    BY <1>0 DEF TypeOK, Stages, Locking, States, Statuses, NoState, Unsigned
  <1>2. Settled = {} /\ Signed = {}
    BY DEF Settled, Signed, Unsigned
  <1>3. StateInv
    BY DEF StateInv, StateOK, NoState
  <1>4. RunInv
    BY DEF RunInv, RunOK, Paying
  <1>5. AuthInv
    BY DEF AuthInv, AuthOK, Unsigned
  <1> QED
    BY <1>1, <1>3, <1>4, <1>5 DEF IInv

\* Steps that leave the chain alone leave what it says of authorizations alone.
Still == UNCHANGED <<height, fundedAt, older, auth>>
LEMMA StillKeeps ==
  ASSUME AuthInv, Still
  PROVE  AuthInv' /\ Settled' = Settled /\ Paid' = Paid
  BY DEF Still, AuthInv, AuthOK, Settled, Funded, Paid, Transfers

\* A run that saves s and moves on.  The other runs and the chain stay.
LEMMA SavedKeeps ==
  ASSUME IInv, Still, NEW r \in Runs, NEW s,
         mem' = [mem EXCEPT ![r] = s], file' \in {file, s}, StateOK(s)',
         UNCHANGED confirmed \/ confirmed' = [confirmed EXCEPT ![r] = height - Confirmations + 1],
         \A q \in Runs \ {r} : pc'[q] = pc[q],
         RunOK(r)'
  PROVE  StateInv' /\ RunInv' /\ AuthInv'
  <1> USE DEF IInv
  <1>1. AuthInv' /\ Settled' = Settled /\ Paid' = Paid
    BY StillKeeps
  <1>2. \A q \in Runs \ {r} : mem'[q] = mem[q] /\ confirmed'[q] = confirmed[q]
    BY DEF TypeOK
  <1>3. mem'[r] = s
    BY DEF TypeOK
  <1>4. StateInv'
    <2>1. StateOK(file)'
      BY <1>1 DEF StateInv, StateOK, Still, Funded
    <2>2. ASSUME NEW q \in Runs \ {r} PROVE StateOK(mem[q])'
      BY <1>1, <1>2 DEF StateInv, StateOK, Still, Funded
    <2> QED
      BY <1>3, <2>1, <2>2 DEF StateInv
  <1>5. RunInv'
    <2>1. ASSUME NEW q \in Runs \ {r} PROVE RunOK(q)'
      BY <1>1, <1>2 DEF RunInv, RunOK, Still
    <2> QED
      BY <2>1 DEF RunInv
  <1> QED
    BY <1>1, <1>4, <1>5

\* Locks, failures and crashes: only control points change, never towards one
\* that RunOK speaks of.
LEMMA QuietKeeps ==
  ASSUME IInv, Still, UNCHANGED <<file, mem, confirmed>>,
         \A q \in Runs : pc'[q] = pc[q]
                         \/ pc'[q] \notin {"outgoing", "balance"} \cup Paying
  PROVE  StateInv' /\ RunInv' /\ AuthInv'
  <1> USE DEF IInv
  <1>1. AuthInv' /\ Settled' = Settled /\ Paid' = Paid
    BY StillKeeps
  <1>2. StateInv'
    BY <1>1 DEF StateInv, StateOK, Still, Funded
  <1>3. RunInv'
    BY <1>1 DEF RunInv, RunOK, Still, Paying
  <1> QED
    BY <1>1, <1>2, <1>3

LEMMA InvStep == IInv /\ [Next]_vars => IInv'
  <1> SUFFICES ASSUME IInv, [Next]_vars PROVE IInv'
    OBVIOUS
  <1> DEFINE Goal == StateInv' /\ RunInv' /\ AuthInv'
  <1>0. TypeOK' /\ height' >= FirstBlock
    BY TypeStep DEF IInv
  <1>1. ASSUME NEW r \in Runs, Acquiring(r) \/ Throw(r) \/ Crash(r) PROVE Goal
    <2>1. Still /\ UNCHANGED <<file, mem, confirmed>>
      BY <1>1 DEF Acquiring, TryLock, BreakLock, Reopen, Release, Throw, Crash,
                  Still, chain, process
    <2>2. \A q \in Runs : pc'[q] = pc[q]
                          \/ pc'[q] \notin {"outgoing", "balance"} \cup Paying
      BY <1>1 DEF Acquiring, TryLock, BreakLock, Reopen, TakeLock, Release, Throw,
                  Crash, Goto, Paying, IInv, TypeOK
    <2> QED
      BY <2>1, <2>2, QuietKeeps
  <1>2. ASSUME LockAges PROVE Goal
    <2>1. Still /\ UNCHANGED <<file, mem, confirmed, pc>>
      BY <1>2 DEF LockAges, Still, chain, process
    <2> QED
      BY <2>1, QuietKeeps
  <1>3. ASSUME NEW r \in Runs, Deciding(r) \/ Answer(r) \/ Receipt(r) PROVE Goal
    <2>0. /\ mem[r] \in States /\ file \in States /\ StateOK(mem[r]) /\ StateOK(file)
          /\ RunOK(r) /\ confirmed[r] \in Nat
          /\ height \in Nat /\ fundedAt \in Nat /\ height >= FirstBlock
      BY DEF IInv, TypeOK, StateInv, RunInv
    <2>a. \A q \in Runs \ {r} : pc'[q] = pc[q]
      BY <1>3 DEF Deciding, Load, Survey, Scan, Outgoing, CheckBalance, Answer,
                  Receipt, Goto, IInv, TypeOK
    <2>b. Still
      BY <1>3 DEF Deciding, Load, Survey, Scan, Outgoing, CheckBalance, Answer,
                  Receipt, Still, chain
    <2>c. Settled' = Settled /\ Paid' = Paid
      BY <2>b, StillKeeps DEF IInv
    <2>d. \A s : StateOK(s)' <=> StateOK(s)
      BY <2>b, <2>c DEF StateOK, Still, Funded
    <2>e. UNCHANGED mem => mem' = [mem EXCEPT ![r] = mem[r]]
      BY DEF IInv, TypeOK
    <2> DEFINE Wrote(s) == /\ mem' = [mem EXCEPT ![r] = s] /\ file' \in {file, s}
                           /\ StateOK(s)
               Part == /\ \E s : Wrote(s)
                       /\ \/ UNCHANGED confirmed
                          \/ confirmed' = [confirmed EXCEPT ![r] = height - Confirmations + 1]
                       /\ RunOK(r)'
    <2>f. UNCHANGED <<mem, file>> => \E s : Wrote(s)
      BY <2>0, <2>e
    <2>g. ASSUME NEW stage, Goto(r, stage) PROVE pc'[r] = stage
      BY <2>g DEF Goto, IInv, TypeOK
    <2>h. ASSUME NEW s, Wrote(s) PROVE mem'[r] = s
      BY <2>h DEF IInv, TypeOK
    <2>i. ASSUME UNCHANGED confirmed, pc'[r] \in {"finish", "ended"} PROVE RunOK(r)'
      BY <2>0, <2>b, <2>i DEF RunOK, Still, Paying
    <2>1. ASSUME Load(r) PROVE Part
      <3>1. Wrote(file)
        BY <2>0, <2>1 DEF Load
      <3>2. pc'[r] \in {"finish", "survey"} /\ UNCHANGED confirmed
        BY <2>1, <2>g DEF Load, process
      <3>3. RunOK(r)'
        BY <2>0, <2>b, <3>2 DEF RunOK, Still, Paying
      <3> QED
        BY <3>1, <3>2, <3>3
    <2>2. ASSUME Survey(r) PROVE Part
      <3> DEFINE n == [NoState EXCEPT !.status = "waiting", !.start = height - Lookback,
                                      !.next = height - Lookback]
      <3>1. n.source = 0 /\ n.status = "waiting" /\ n.start = height - Lookback
            /\ n.next = height - Lookback
        BY DEF NoState
      <3>2. StateOK(n)
        BY <2>0, <3>1, ChainFacts DEF StateOK
      <3> HIDE DEF n
      <3>3. \E s : Wrote(s)
        <4>1. CASE UNCHANGED <<mem, file>>
          BY <2>f, <4>1
        <4>2. CASE Save(r, n)
          BY <3>2, <4>2 DEF Save
        <4> QED
          BY <2>2, <4>1, <4>2 DEF Survey, n
      <3>4. confirmed' = [confirmed EXCEPT ![r] = height - Confirmations + 1]
            /\ pc'[r] = "scan"
        BY <2>2, <2>g DEF Survey
      <3>5. confirmed'[r] = height - Confirmations + 1
        BY <3>4 DEF IInv, TypeOK
      <3>6. RunOK(r)'
        BY <2>0, <2>b, <3>4, <3>5, ChainFacts DEF RunOK, Still, Paying
      <3> QED
        BY <3>3, <3>4, <3>6
    <2>3. ASSUME Scan(r) PROVE Part
      <3>0. UNCHANGED confirmed
        BY <2>3 DEF Scan, process
      <3>1. CASE mem[r].source # 0
        <4>1. UNCHANGED <<mem, file>> /\ pc'[r] = "outgoing"
          BY <2>3, <2>g, <3>1 DEF Scan
        <4>2. RunOK(r)'
          BY <2>0, <2>b, <3>0, <3>1, <4>1 DEF RunOK, Still
        <4> QED
          BY <2>f, <3>0, <4>1, <4>2
      <3>2. CASE mem[r].source = 0 /\ fundedAt # 0 /\ fundedAt \in mem[r].next .. confirmed[r]
        <4> DEFINE n == [mem[r] EXCEPT !.source = fundedAt, !.status = "funding_confirmed"]
        <4>1. n.source = fundedAt /\ n.status = "funding_confirmed" /\ n.next = mem[r].next
          BY <2>0 DEF States
        <4>2. Funded
          BY <2>0, <3>2, ChainFacts DEF RunOK, Funded, States
        <4>3. StateOK(n)
          BY <2>0, <3>2, <4>1, <4>2 DEF StateOK
        <4>4. Save(r, n) /\ pc'[r] = "outgoing"
          BY <2>3, <2>g, <3>2 DEF Scan
        <4> HIDE DEF n
        <4>5. Wrote(n)
          BY <4>3, <4>4 DEF Save
        <4>6. RunOK(r)'
          BY <2>0, <2>b, <2>h, <3>0, <3>2, <4>1, <4>4, <4>5 DEF RunOK, Still
        <4> QED
          BY <3>0, <4>5, <4>6
      <3>3. CASE mem[r].source = 0 /\ ~(fundedAt # 0 /\ fundedAt \in mem[r].next .. confirmed[r])
        <4> DEFINE n == [mem[r] EXCEPT !.next = confirmed[r] + 1]
        <4>1. n.source = 0 /\ n.status = mem[r].status /\ n.start = mem[r].start
              /\ n.next = confirmed[r] + 1 /\ mem[r].next \in Nat /\ mem[r].start \in Nat
          BY <2>0, <3>3 DEF States
        <4>2. StateOK(n)
          BY <2>0, <3>3, <4>1, ChainFacts DEF StateOK, RunOK
        <4>3. Save(r, n) /\ pc'[r] = "finish"
          BY <2>3, <2>g, <3>3 DEF Scan
        <4> HIDE DEF n
        <4>4. Wrote(n)
          BY <4>2, <4>3 DEF Save
        <4> QED
          BY <2>i, <3>0, <4>3, <4>4
      <3> QED
        BY <3>1, <3>2, <3>3
    <2>4. ASSUME Outgoing(r) PROVE Part
      <3>0. UNCHANGED confirmed /\ pc[r] = "outgoing"
        BY <2>4 DEF Outgoing, process
      <3>1. CASE FoundOutgoing(r)
        <4> DEFINE n == [mem[r] EXCEPT !.status = "completed", !.auth = NoAuth]
        <4>1. n.source = mem[r].source /\ n.next = mem[r].next /\ n.start = mem[r].start
          BY <2>0 DEF States
        <4>a. Paid
          BY <2>0, <3>0, <3>1 DEF RunOK, StateOK, Paid, FoundOutgoing
        <4>2. StateOK(n)
          BY <2>0, <4>1, <4>a DEF StateOK
        <4>3. Save(r, n) /\ pc'[r] = "finish"
          BY <2>4, <2>g, <3>1 DEF Outgoing
        <4> HIDE DEF n
        <4>4. Wrote(n)
          BY <4>2, <4>3 DEF Save
        <4> QED
          BY <2>i, <3>0, <4>3, <4>4
      <3>2. CASE ~FoundOutgoing(r)
        <4>1. UNCHANGED <<mem, file>> /\ pc'[r] = "balance"
          BY <2>4, <2>g, <3>2 DEF Outgoing
        <4>a. \A a \in Settled : auth[a].block \notin mem[r].source .. confirmed[r]
          BY <3>2 DEF FoundOutgoing, Transfers
        <4>2. RunOK(r)'
          BY <2>0, <2>b, <2>c, <3>0, <4>1, <4>a DEF RunOK, Still
        <4> QED
          BY <2>f, <3>0, <4>1, <4>2
      <3> QED
        BY <3>1, <3>2
    <2>5. ASSUME CheckBalance(r) PROVE Part
      <3>0. UNCHANGED confirmed /\ pc[r] = "balance"
        BY <2>5 DEF CheckBalance, process
      <3>1. CASE Balance < 1
        <4> DEFINE n == [mem[r] EXCEPT !.status = "funding_spent_or_missing"]
        <4>1. n.source = mem[r].source /\ n.next = mem[r].next /\ n.start = mem[r].start
              /\ n.status = "funding_spent_or_missing"
          BY <2>0 DEF States
        <4>2. StateOK(n)
          BY <2>0, <4>1 DEF StateOK
        <4>3. Save(r, n) /\ pc'[r] = "finish"
          BY <2>5, <2>g, <3>1 DEF CheckBalance
        <4> HIDE DEF n
        <4>4. Wrote(n)
          BY <4>2, <4>3 DEF Save
        <4> QED
          BY <2>i, <3>0, <4>3, <4>4
      <3>2. CASE ~(Balance < 1)
        <4>1. UNCHANGED <<mem, file>> /\ pc'[r] \in {"sign", "send"}
          BY <2>5, <2>g, <3>2 DEF CheckBalance
        <4>2. RunOK(r)'
          BY <2>0, <2>b, <2>c, <3>0, <4>1 DEF RunOK, Still
        <4> QED
          BY <2>f, <3>0, <4>1, <4>2
      <3> QED
        BY <3>1, <3>2
    <2>6. ASSUME Answer(r) PROVE Part
      <3>0. UNCHANGED confirmed /\ pc[r] = "wait" /\ pc'[r] \in {"receipt", "ended"}
        BY <2>6, <2>g DEF Answer, process
      <3>1. mem' = [mem EXCEPT ![r] = mem[r]] /\ file' \in {file, mem[r]}
        BY <2>6, <2>e DEF Answer, Save
      <3>2. mem'[r] = mem[r] /\ Wrote(mem[r])
        BY <2>0, <3>1 DEF IInv, TypeOK
      <3>3. RunOK(r)'
        BY <2>0, <2>b, <3>0, <3>2 DEF RunOK, Still, Paying
      <3> QED
        BY <3>0, <3>2, <3>3
    <2>7. ASSUME Receipt(r) PROVE Part
      <3> DEFINE n == [mem[r] EXCEPT !.status = "completed", !.auth = NoAuth]
      <3>1. n.source = mem[r].source /\ n.next = mem[r].next /\ n.start = mem[r].start
        BY <2>0 DEF States
      <3>a. mem[r].source # 0 /\ fundedAt # 0 /\ older \in Nat
        BY <2>0, <2>7 DEF Receipt, RunOK, Paying, StateOK, Funded, IInv, TypeOK
      <3>b. Paid
        <4>1. PICK b \in Transfers : TRUE
          BY <2>7 DEF Receipt
        <4>2. CASE b = older /\ older # 0
          BY <2>0, <3>a, <4>1, <4>2 DEF Paid
        <4>3. CASE \E a \in Settled : b = auth[a].block
          BY <3>a, <4>1, <4>3 DEF Paid, IInv, AuthInv, AuthOK, Settled
        <4> QED
          BY <4>1, <4>2, <4>3 DEF Transfers
      <3>2. StateOK(n)
        BY <2>0, <3>1, <3>b DEF StateOK
      <3>3. Save(r, n) /\ pc'[r] = "ended" /\ UNCHANGED confirmed
        BY <2>7, <2>g DEF Receipt, process
      <3> HIDE DEF n
      <3>4. Wrote(n)
        BY <3>2, <3>3 DEF Save
      <3> QED
        BY <2>i, <3>3, <3>4
    <2>8. Part
      BY <1>3, <2>1, <2>2, <2>3, <2>4, <2>5, <2>6, <2>7 DEF Deciding
    <2>9. PICK s : Wrote(s)
      BY <2>8
    <2> QED
      BY <2>a, <2>b, <2>d, <2>8, <2>9, SavedKeeps
  <1>4. ASSUME NEW r \in Runs, Sign(r) PROVE Goal
    <2>0. /\ mem[r] \in States /\ StateOK(mem[r]) /\ RunOK(r) /\ confirmed[r] \in Nat
          /\ height \in Nat /\ fundedAt \in Nat /\ height >= FirstBlock
          /\ pc[r] = "sign" /\ UNCHANGED <<height, fundedAt, older, confirmed>>
          /\ \A b \in Auths : auth[b].until \in Nat /\ auth[b].block \in Nat /\ AuthOK(b)
      BY <1>4 DEF IInv, TypeOK, StateInv, RunInv, AuthInv, Sign, chain, process
    <2>1. Funded /\ mem[r].source = fundedAt
      BY <2>0 DEF RunOK, StateOK, Paying
    <2>2. PICK a \in Auths \ Signed :
             /\ auth' = [auth EXCEPT ![a] = [state |-> "signed",
                                 until |-> height + Lifetime, block |-> 0]]
             /\ Save(r, [mem[r] EXCEPT !.auth = a, !.status = "authorized"])
      BY <1>4 DEF Sign
    <2>3. /\ auth'[a] = [state |-> "signed", until |-> height + Lifetime, block |-> 0]
          /\ \A b \in Auths \ {a} : auth'[b] = auth[b]
          /\ auth[a].state = "none"
      BY <2>2 DEF IInv, TypeOK, Signed
    <2>4. Settled' = Settled /\ Paid' = Paid
      <3>1. Settled' = Settled /\ \A b \in Settled : auth'[b] = auth[b]
        BY <2>2, <2>3 DEF Settled
      <3> QED
        BY <2>0, <3>1 DEF Paid, Transfers
    <2>5. AuthInv'
      BY <2>0, <2>1, <2>3 DEF AuthInv, AuthOK, Funded
    <2>6. StateInv'
      <3>0. PICK n : n = [mem[r] EXCEPT !.auth = a, !.status = "authorized"]
        OBVIOUS
      <3>1. n.source = mem[r].source /\ n.next = mem[r].next /\ n.start = mem[r].start
            /\ n.status = "authorized"
        BY <2>0, <3>0 DEF States
      <3>2. StateOK(n)'
        BY <2>0, <3>1 DEF StateOK, Funded
      <3>3. file' = n /\ mem' = [mem EXCEPT ![r] = n]
        BY <2>2, <3>0 DEF Save
      <3>4. mem'[r] = n /\ \A q \in Runs \ {r} : mem'[q] = mem[q]
        BY <3>3 DEF IInv, TypeOK
      <3>5. ASSUME NEW q \in Runs \ {r} PROVE StateOK(mem[q])'
        BY <2>0, <2>4, <3>4 DEF StateOK, Funded, IInv, StateInv
      <3>6. StateOK(mem[r])' /\ StateOK(file)'
        BY <3>2, <3>3, <3>4 DEF StateOK, Funded
      <3> QED
        BY <3>5, <3>6 DEF StateInv
    <2>7. RunInv'
      <3>1. /\ pc'[r] = "send" /\ \A q \in Runs \ {r} : pc'[q] = pc[q] /\ mem'[q] = mem[q]
        BY <1>4, <2>2 DEF Sign, Goto, Save, IInv, TypeOK
      <3>2. mem'[r].source = mem[r].source
        BY <2>0, <2>2 DEF Save, States, IInv, TypeOK
      <3>3. RunOK(r)'
        BY <2>0, <3>1, <3>2 DEF RunOK, Paying
      <3>4. ASSUME NEW q \in Runs \ {r} PROVE RunOK(q)'
        <4>1. \A b \in Settled : auth'[b] = auth[b]
          BY <2>3 DEF Settled
        <4> QED
          BY <2>0, <2>4, <3>1, <4>1 DEF RunOK, IInv, RunInv
      <3> QED
        BY <3>3, <3>4 DEF RunInv
    <2> QED
      BY <2>5, <2>6, <2>7
  <1>5. ASSUME NEW r \in Runs, Send(r) PROVE Goal
    <2>1. /\ UNCHANGED <<height, fundedAt, older, file, mem, confirmed>>
          /\ \A q \in Runs : \/ pc'[q] = pc[q]
                             \/ q = r /\ pc'[q] = "wait" /\ pc[q] = "send"
      BY <1>5 DEF Send, Goto, chain, process, IInv, TypeOK
    <2>2. \A a \in Auths :
            /\ auth'[a].until = auth[a].until /\ auth'[a].block = auth[a].block
            /\ \/ auth'[a].state = auth[a].state
               \/ auth[a].state = "signed" /\ auth'[a].state = "sent"
      BY <1>5 DEF Send, IInv, TypeOK
    <2>3. Settled' = Settled /\ Paid' = Paid
      <3>1. Settled' = Settled /\ \A b \in Settled : auth'[b].block = auth[b].block
        BY <2>2 DEF Settled
      <3> QED
        BY <2>1, <3>1 DEF Paid, Transfers
    <2>4. AuthInv'
      BY <2>1, <2>2 DEF IInv, AuthInv, AuthOK, Funded
    <2>6. StateInv'
      BY <2>1, <2>3 DEF IInv, StateInv, StateOK, Funded
    <2>7. RunInv'
      <3>1. \A a \in Settled : auth'[a].block = auth[a].block
        BY <2>2 DEF Settled
      <3> QED
        BY <2>1, <2>3, <3>1 DEF IInv, RunInv, RunOK, Paying
    <2> QED
      BY <2>4, <2>6, <2>7
  <1>6. ASSUME Mine PROVE Goal
    <2>1. /\ height' = height + 1 /\ UNCHANGED <<older, file, pc, mem, confirmed>>
          /\ \/ fundedAt' = fundedAt
             \/ fundedAt = 0 /\ fundedAt' = height + 1
          /\ height \in Nat /\ fundedAt \in Nat
      BY <1>6 DEF Mine, process, IInv, TypeOK
    <2>2. PICK S \in SUBSET {a \in Auths : auth[a].state = "sent"
                                           /\ auth[a].until > height + 1} :
             auth' = [a \in Auths |-> IF a \in S
                        THEN [auth[a] EXCEPT !.state = "settled", !.block = height + 1]
                        ELSE auth[a]]
      BY <1>6 DEF Mine
    <2>3. \A a \in Auths : auth[a].until \in Nat /\ auth[a].block \in Nat
                           /\ auth[a] \in [state : {"none", "signed", "sent", "settled"},
                                           until : Nat, block : Nat]
      BY DEF IInv, TypeOK
    <2>4. \A a \in Auths :
            /\ auth'[a].until = auth[a].until
            /\ (auth'[a].state = "none") = (auth[a].state = "none")
            /\ \/ auth'[a] = auth[a]
               \/ auth[a].state = "sent" /\ auth[a].until > height + 1
                  /\ auth'[a].state = "settled" /\ auth'[a].block = height + 1
      BY <2>2, <2>3
    <2>5. Paid => Paid'
      <3>1. Transfers \subseteq Transfers'
        <4>1. \A a \in Settled : a \in Settled' /\ auth'[a] = auth[a]
          BY <2>4 DEF Settled
        <4> QED
          BY <2>1, <4>1 DEF Transfers
      <3> QED
        BY <2>1, <3>1 DEF Paid
    <2>6. Funded => Funded' /\ fundedAt' = fundedAt
      BY <2>1, ChainFacts DEF Funded
    <2>7. AuthInv'
      <3> SUFFICES ASSUME NEW a \in Auths PROVE AuthOK(a)'
        BY DEF AuthInv
      <3>1. AuthOK(a)
        BY DEF IInv, AuthInv
      <3>2. Funded => fundedAt <= height + 1
        BY <2>1, ChainFacts DEF Funded
      <3> QED
        BY <2>1, <2>3, <2>4, <2>6, <3>1, <3>2 DEF AuthOK
    <2>9. StateInv'
      <3>1. ASSUME NEW s \in States, StateOK(s) PROVE StateOK(s)'
        <4>1. s.source \in Nat /\ s.next \in Nat /\ s.start \in Nat
          BY DEF States
        <4> QED
          BY <2>1, <2>5, <2>6, <3>1, <4>1 DEF StateOK
      <3>2. StateOK(file)'
        <4>1. PICK s \in States : s = file
          BY DEF IInv, TypeOK
        <4>2. StateOK(s)
          BY <4>1 DEF IInv, StateInv, StateOK, Funded
        <4> QED
          BY <2>1, <3>1, <4>1, <4>2 DEF StateOK, Funded
      <3>3. ASSUME NEW r \in Runs PROVE StateOK(mem[r])'
        <4>1. PICK s \in States : s = mem[r]
          BY DEF IInv, TypeOK
        <4>2. StateOK(s)
          BY <4>1 DEF IInv, StateInv, StateOK, Funded
        <4> QED
          BY <2>1, <3>1, <4>1, <4>2 DEF StateOK, Funded
      <3> QED
        BY <3>2, <3>3 DEF StateInv
    <2>10. RunInv'
      <3> SUFFICES ASSUME NEW r \in Runs PROVE RunOK(r)'
        BY DEF RunInv
      <3>1. RunOK(r) /\ confirmed[r] \in Nat /\ confirmed[r] <= height
        BY <2>1, ChainFacts DEF IInv, RunInv, RunOK, TypeOK
      <3>2. confirmed'[r] <= height' - Confirmations + 1
        BY <2>1, <3>1, ChainFacts DEF RunOK
      <3>3. ASSUME NEW a \in Settled', a \notin Settled
            PROVE  auth'[a].block \notin mem[r].source .. confirmed[r]
        <4>1. auth'[a].block = height + 1
          BY <2>4, <3>3 DEF Settled
        <4> QED
          BY <2>1, <3>1, <4>1
      <3>4. \A a \in Settled : auth'[a] = auth[a]
        BY <2>4 DEF Settled
      <3> QED
        BY <2>1, <3>1, <3>2, <3>3, <3>4 DEF RunOK
    <2> QED
      BY <2>7, <2>9, <2>10
  <1>7. ASSUME UNCHANGED vars PROVE Goal
    BY <1>7 DEF vars, IInv, StateInv, StateOK, RunInv, RunOK, AuthInv, AuthOK,
                Funded, Settled, Paid, Transfers
  <1>8. Goal
    BY <1>1, <1>2, <1>3, <1>4, <1>5, <1>6, <1>7 DEF Next, Executing
  <1> QED
    BY <1>0, <1>8 DEF IInv
-----------------------------------------------------------------------------
(* Why a second payment needs an overlap or an early renewal.  As long as    *)
(* neither has happened, the run at work has the state file in its memory,   *)
(* and every authorization but the one in the file is dead.                  *)

\* Neither a payment nor ever to become one.
Dead(a) == auth[a].state # "settled" /\ auth[a].until <= height + 1
AtWork(r) == pc[r] \in Checking \cup Paying

NoteOK(s) ==
    /\ s.start = 0 => s.auth = NoAuth
    /\ s.auth # NoAuth => s.auth \in Signed
NoteInv == NoteOK(file) /\ \A r \in Runs : NoteOK(mem[r])

\* A run signs with a state that is under way, and renews what is due.
WorkOK(r) ==
    /\ AtWork(r) /\ pc[r] # "load" => mem[r].status # "completed"
    /\ AtWork(r) /\ pc[r] \notin {"load", "survey"} => mem[r].start # 0
    /\ pc[r] = "sign" /\ mem[r].auth # NoAuth => auth[mem[r].auth].until <= height + Margin
WorkInv == \A r \in Runs : WorkOK(r)

Alone ==
    /\ \A q, r \in Runs : AtWork(q) /\ AtWork(r) => q = r
    /\ \A r \in Runs : AtWork(r) /\ pc[r] # "load" => mem[r] = file

OneLive ==
    /\ \A a, b \in Signed : a # b => Dead(a) \/ Dead(b)
    /\ file.status # "completed" => \A a \in Signed : a # file.auth => Dead(a)

OnceInv ==
    /\ NoteInv /\ WorkInv
    /\ ~overlapped => Alone
    /\ ~overlapped /\ ~renewed => OneLive

LEMMA OnceInit == Init => OnceInv
  <1> SUFFICES ASSUME Init PROVE OnceInv
    OBVIOUS
  <1>1. Signed = {} /\ \A r \in Runs : ~AtWork(r)
    BY DEF Init, Signed, Unsigned, AtWork, Checking, Paying
  <1>2. NoteInv
    BY DEF Init, NoteInv, NoteOK, NoState
  <1>3. WorkInv /\ Alone
    BY <1>1 DEF Init, WorkInv, WorkOK, Alone
  <1> QED
    BY <1>1, <1>2, <1>3 DEF OnceInv, OneLive

\* Locks, failures and crashes.
LEMMA OnceIdle ==
  ASSUME IInv, OnceInv, UNCHANGED <<height, auth, file, mem, renewed>>,
         \/ UNCHANGED overlapped /\ \A q \in Runs : AtWork(q)' => pc'[q] = pc[q]
         \/ \E r \in Runs :
               /\ pc'[r] = "load" /\ \A q \in Runs \ {r} : pc'[q] = pc[q]
               /\ overlapped' = (overlapped \/ \E q \in Runs \ {r} : AtWork(q))
  PROVE  OnceInv'
  <1> USE DEF OnceInv
  <1>1. Signed' = Signed /\ \A a : Dead(a)' = Dead(a)
    BY DEF Signed, Dead
  <1>2. \A q \in Runs : AtWork(q)' => pc'[q] \in {pc[q], "load"}
    OBVIOUS
  <1>3. NoteInv'
    BY <1>1 DEF NoteInv, NoteOK
  <1>4. WorkInv'
    BY <1>2 DEF WorkInv, WorkOK, AtWork, Checking, Paying
  <1>5. ~overlapped' => Alone'
    <2>1. CASE UNCHANGED overlapped /\ \A q \in Runs : AtWork(q)' => pc'[q] = pc[q]
      BY <2>1 DEF Alone, AtWork
    <2>2. ASSUME NEW r \in Runs, pc'[r] = "load", \A q \in Runs \ {r} : pc'[q] = pc[q],
                 ~overlapped /\ \A q \in Runs \ {r} : ~AtWork(q)
          PROVE  Alone'
      BY <2>2 DEF Alone, AtWork
    <2> QED
      BY <2>1, <2>2
  <1>6. ~overlapped' => ~overlapped
    OBVIOUS
  <1>7. OneLive' = OneLive
    BY <1>1 DEF OneLive
  <1> QED
    BY <1>3, <1>4, <1>5, <1>6, <1>7

\* What a run that decides, or takes an answer, does to its copy and the file.
Written(r, s) ==
    /\ mem' = [mem EXCEPT ![r] = s]
    /\ IF pc[r] = "load" THEN s = file /\ file' = file
       ELSE file' = s \/ (s = mem[r] /\ file' = file)
    /\ NoteOK(s)
    /\ pc[r] # "load" => s.status = "completed" \/ s.auth = mem[r].auth

LEMMA OnceWritten ==
  ASSUME IInv, OnceInv, NEW r \in Runs, NEW s, AtWork(r), Written(r, s),
         UNCHANGED <<height, auth, overlapped, renewed>>,
         \A q \in Runs \ {r} : pc'[q] = pc[q], pc'[r] # "load",
         WorkOK(r)'
  PROVE  OnceInv'
  <1> USE DEF OnceInv
  <1>1. Signed' = Signed /\ \A a : Dead(a)' = Dead(a)
    BY DEF Signed, Dead
  <1>2. mem'[r] = s /\ \A q \in Runs \ {r} : mem'[q] = mem[q]
    BY DEF Written, IInv, TypeOK
  <1>3. NoteInv'
    BY <1>1, <1>2 DEF NoteInv, NoteOK, Written
  <1>4. WorkInv'
    BY <1>2 DEF WorkInv, WorkOK, AtWork
  <1>5. ASSUME ~overlapped PROVE Alone'
    <2>1. \A q \in Runs \ {r} : ~AtWork(q) /\ ~AtWork(q)'
      BY <1>5 DEF Alone, AtWork
    <2>2. AtWork(r)' => mem'[r] = file'
      BY <1>2, <1>5 DEF Alone, Written
    <2> QED
      BY <2>1, <2>2 DEF Alone
  <1>6. ASSUME ~overlapped, ~renewed PROVE OneLive'
    <2>1. OneLive /\ Alone
      BY <1>6
    <2>2. \A a, b \in Signed' : a # b => Dead(a)' \/ Dead(b)'
      BY <1>1, <2>1 DEF OneLive
    <2>3. ASSUME file'.status # "completed", NEW a \in Signed, a # file'.auth PROVE Dead(a)
      <3>1. CASE file' = file
        BY <2>1, <2>3, <3>1 DEF OneLive
      <3>2. CASE file' # file
        <4>1. file' = s /\ pc[r] # "load" /\ s.auth = mem[r].auth
          BY <2>3, <3>2 DEF Written
        <4>2. mem[r] = file /\ mem[r].status # "completed"
          BY <2>1, <4>1 DEF Alone, WorkInv, WorkOK
        <4> QED
          BY <2>1, <2>3, <4>1, <4>2 DEF OneLive
      <3> QED
        BY <3>1, <3>2
    <2> QED
      BY <1>1, <2>2, <2>3 DEF OneLive
  <1> QED
    BY <1>3, <1>4, <1>5, <1>6

LEMMA OnceDecides ==
  ASSUME IInv, OnceInv, NEW r \in Runs, Deciding(r) \/ Answer(r) \/ Receipt(r)
  PROVE  OnceInv'
  <1> USE DEF OnceInv
  <1>0. /\ mem[r] \in States /\ file \in States /\ NoteOK(mem[r]) /\ NoteOK(file)
        /\ WorkOK(r) /\ height \in Nat /\ height >= FirstBlock
    BY DEF IInv, TypeOK, NoteInv, WorkInv
  <1>a. \A q \in Runs \ {r} : pc'[q] = pc[q]
    BY DEF Deciding, Load, Survey, Scan, Outgoing, CheckBalance, Answer,
           Receipt, Goto, IInv, TypeOK
  <1>b. UNCHANGED <<height, auth, overlapped, renewed>>
    BY DEF Deciding, Load, Survey, Scan, Outgoing, CheckBalance, Answer,
           Receipt, chain, history
  <1>c. AtWork(r)
    BY DEF AtWork, Checking, Paying, Deciding, Load, Survey, Scan, Outgoing, CheckBalance,
           Answer, Receipt
  <1>d. UNCHANGED mem => mem' = [mem EXCEPT ![r] = mem[r]]
    BY DEF IInv, TypeOK
  <1>e. ASSUME NEW stage, Goto(r, stage) PROVE pc'[r] = stage
    BY <1>e DEF Goto, IInv, TypeOK
  <1>f. ASSUME NEW s, Written(r, s) PROVE mem'[r] = s
    BY <1>f DEF Written, IInv, TypeOK
  <1> DEFINE Part == /\ \E s : Written(r, s)
                     /\ pc'[r] # "load" /\ WorkOK(r)'
  <1>g. ASSUME UNCHANGED <<mem, file>>, pc[r] # "load" PROVE Written(r, mem[r])
    BY <1>0, <1>d, <1>g DEF Written
  <1>h. ASSUME pc'[r] \in {"finish", "ended"} PROVE WorkOK(r)'
    BY <1>h DEF WorkOK, AtWork, Checking, Paying
  <1>i. ASSUME NEW s, Save(r, s), pc[r] # "load", NoteOK(s),
               s.status = "completed" \/ s.auth = mem[r].auth
        PROVE  Written(r, s)
    BY <1>i DEF Written, Save
  <1>1. ASSUME Load(r) PROVE Part
    <2>1. Written(r, file)
      BY <1>0, <1>1 DEF Load, Written
    <2>2. pc'[r] = IF file.status = "completed" THEN "finish" ELSE "survey"
      BY <1>1, <1>e DEF Load
    <2>3. WorkOK(r)'
      BY <1>f, <1>h, <2>1, <2>2 DEF WorkOK
    <2> QED
      BY <2>1, <2>2, <2>3
  <1>2. ASSUME Survey(r) PROVE Part
    <2> DEFINE n == [NoState EXCEPT !.status = "waiting", !.start = height - Lookback,
                                    !.next = height - Lookback]
    <2>0. pc[r] = "survey" /\ pc'[r] = "scan" /\ mem[r].status # "completed"
      BY <1>2, <1>0, <1>c, <1>e DEF Survey, WorkOK
    <2>1. CASE mem[r].start = 0
      <3>1. n.auth = NoAuth /\ n.status = "waiting" /\ n.start = height - Lookback
        BY DEF NoState
      <3>2. n.start # 0
        BY <1>0, <3>1, ChainFacts
      <3>3. Save(r, n)
        BY <1>2, <2>1 DEF Survey
      <3> HIDE DEF n
      <3>4. mem[r].auth = NoAuth /\ NoteOK(n)
        BY <1>0, <2>1, <3>1, <3>2 DEF NoteOK
      <3>5. Written(r, n)
        BY <1>i, <2>0, <3>1, <3>3, <3>4
      <3>6. WorkOK(r)'
        BY <1>f, <2>0, <3>1, <3>2, <3>5 DEF WorkOK
      <3> QED
        BY <2>0, <3>5, <3>6
    <2>2. CASE mem[r].start # 0
      <3>1. Written(r, mem[r])
        BY <1>2, <1>g, <2>0, <2>2 DEF Survey
      <3>2. WorkOK(r)'
        BY <1>f, <2>0, <2>2, <3>1 DEF WorkOK
      <3> QED
        BY <2>0, <3>1, <3>2
    <2> QED
      BY <2>1, <2>2
  <1>3. ASSUME Scan(r) PROVE Part
    <2>0. pc[r] = "scan" /\ mem[r].status # "completed" /\ mem[r].start # 0
      BY <1>0, <1>3, <1>c DEF Scan, WorkOK
    <2>1. CASE mem[r].source # 0
      <3>1. Written(r, mem[r]) /\ pc'[r] = "outgoing"
        BY <1>3, <1>e, <1>g, <2>0, <2>1 DEF Scan
      <3>2. WorkOK(r)'
        BY <1>f, <2>0, <3>1 DEF WorkOK
      <3> QED
        BY <3>1, <3>2
    <2>2. CASE mem[r].source = 0 /\ fundedAt # 0 /\ fundedAt \in mem[r].next .. confirmed[r]
      <3> DEFINE n == [mem[r] EXCEPT !.source = fundedAt, !.status = "funding_confirmed"]
      <3>1. n.auth = mem[r].auth /\ n.status = "funding_confirmed" /\ n.start = mem[r].start
        BY <1>0 DEF States
      <3>2. Save(r, n) /\ pc'[r] = "outgoing"
        BY <1>3, <1>e, <2>2 DEF Scan
      <3> HIDE DEF n
      <3>3. Written(r, n)
        BY <1>0, <1>i, <2>0, <3>1, <3>2 DEF NoteOK
      <3>4. WorkOK(r)'
        BY <1>f, <2>0, <3>1, <3>2, <3>3 DEF WorkOK
      <3> QED
        BY <3>2, <3>3, <3>4
    <2>3. CASE mem[r].source = 0 /\ ~(fundedAt # 0 /\ fundedAt \in mem[r].next .. confirmed[r])
      <3> DEFINE n == [mem[r] EXCEPT !.next = confirmed[r] + 1]
      <3>1. n.auth = mem[r].auth /\ n.start = mem[r].start
        BY <1>0 DEF States
      <3>2. Save(r, n) /\ pc'[r] = "finish"
        BY <1>3, <1>e, <2>3 DEF Scan
      <3> HIDE DEF n
      <3>3. Written(r, n)
        BY <1>0, <1>i, <2>0, <3>1, <3>2 DEF NoteOK
      <3> QED
        BY <1>h, <3>2, <3>3
    <2> QED
      BY <2>1, <2>2, <2>3
  <1>4. ASSUME Outgoing(r) \/ Receipt(r) PROVE Part
    <2>0. pc[r] \in {"outgoing", "receipt"} /\ mem[r].status # "completed" /\ mem[r].start # 0
      BY <1>0, <1>4, <1>c DEF Outgoing, Receipt, WorkOK
    <2> DEFINE n == [mem[r] EXCEPT !.status = "completed", !.auth = NoAuth]
    <2>1. CASE Save(r, n) /\ pc'[r] \in {"finish", "ended"}
      <3>1. n.auth = NoAuth /\ n.status = "completed"
        BY <1>0 DEF States
      <3> HIDE DEF n
      <3>2. Written(r, n)
        BY <1>i, <2>0, <2>1, <3>1 DEF NoteOK
      <3> QED
        BY <1>h, <2>1, <3>2
    <2>2. CASE UNCHANGED <<mem, file>> /\ pc'[r] = "balance"
      <3>1. Written(r, mem[r])
        BY <1>g, <2>0, <2>2
      <3>2. WorkOK(r)'
        BY <1>f, <2>0, <2>2, <3>1 DEF WorkOK
      <3> QED
        BY <2>2, <3>1, <3>2
    <2> QED
      BY <1>4, <1>e, <2>1, <2>2 DEF Outgoing, Receipt
  <1>5. ASSUME CheckBalance(r) PROVE Part
    <2>0. pc[r] = "balance" /\ mem[r].status # "completed" /\ mem[r].start # 0
      BY <1>0, <1>5, <1>c DEF CheckBalance, WorkOK
    <2>1. CASE Balance < 1
      <3> DEFINE n == [mem[r] EXCEPT !.status = "funding_spent_or_missing"]
      <3>1. n.auth = mem[r].auth /\ n.start = mem[r].start
        BY <1>0 DEF States
      <3>2. Save(r, n) /\ pc'[r] = "finish"
        BY <1>5, <1>e, <2>1 DEF CheckBalance
      <3> HIDE DEF n
      <3>3. Written(r, n)
        BY <1>0, <1>i, <2>0, <3>1, <3>2 DEF NoteOK
      <3> QED
        BY <1>h, <3>2, <3>3
    <2>2. CASE ~(Balance < 1)
      <3>1. Written(r, mem[r])
        BY <1>5, <1>g, <2>0, <2>2 DEF CheckBalance
      <3>2. /\ pc'[r] \in {"sign", "send"}
            /\ pc'[r] = "sign" => \/ mem[r].auth = NoAuth
                                  \/ auth[mem[r].auth].until <= height + Margin
        BY <1>5, <1>e, <2>2 DEF CheckBalance
      <3>3. WorkOK(r)'
        BY <1>b, <1>f, <2>0, <3>1, <3>2 DEF WorkOK
      <3> QED
        BY <3>1, <3>2, <3>3
    <2> QED
      BY <2>1, <2>2
  <1>6. ASSUME Answer(r) PROVE Part
    <2>0. pc[r] = "wait" /\ mem[r].status # "completed" /\ mem[r].start # 0
          /\ pc'[r] \in {"receipt", "ended"}
      BY <1>0, <1>6, <1>c, <1>e DEF Answer, WorkOK
    <2>1. Written(r, mem[r])
      BY <1>0, <1>6, <1>g, <1>i, <2>0 DEF Answer
    <2>2. WorkOK(r)'
      BY <1>f, <2>0, <2>1 DEF WorkOK
    <2> QED
      BY <2>0, <2>1, <2>2
  <1>7. Part
    BY <1>1, <1>2, <1>3, <1>4, <1>5, <1>6 DEF Deciding
  <1> QED
    BY <1>7, <1>a, <1>b, <1>c, OnceWritten

\* The new authorization is the only live one: the one it replaces was searched
\* for up to its end.
LEMMA OnceSigns ==
  ASSUME IInv, OnceInv, NEW r \in Runs, Sign(r)
  PROVE  OnceInv'
  <1> USE DEF OnceInv
  <1>0. /\ mem[r] \in States /\ StateOK(mem[r]) /\ RunOK(r) /\ confirmed[r] \in Nat
        /\ height \in Nat /\ fundedAt \in Nat /\ pc[r] = "sign"
        /\ UNCHANGED <<height, overlapped>>
        /\ \A b \in Auths : auth[b].until \in Nat /\ auth[b].block \in Nat /\ AuthOK(b)
        /\ NoteOK(mem[r]) /\ WorkOK(r) /\ AtWork(r)
    BY DEF IInv, TypeOK, StateInv, RunInv, AuthInv, Sign, chain, process, NoteInv,
           WorkInv, AtWork, Paying
  <1>1. mem[r].source = fundedAt /\ mem[r].status # "completed" /\ mem[r].start # 0
    BY <1>0 DEF RunOK, StateOK, Paying, WorkOK
  <1>2. PICK a \in Auths \ Signed :
           /\ auth' = [auth EXCEPT ![a] = [state |-> "signed",
                               until |-> height + Lifetime, block |-> 0]]
           /\ Save(r, [mem[r] EXCEPT !.auth = a, !.status = "authorized"])
    BY DEF Sign
  <1>3. /\ auth'[a].state = "signed" /\ \A b \in Auths \ {a} : auth'[b] = auth[b]
        /\ a # NoAuth
    BY <1>2, AuthAssumption DEF IInv, TypeOK
  <1>4. Signed' = Signed \cup {a} /\ \A b \in Signed : b # a /\ Dead(b)' = Dead(b)
    BY <1>0, <1>2, <1>3 DEF Signed, Dead
  <1>5. PICK n : n = [mem[r] EXCEPT !.auth = a, !.status = "authorized"]
    OBVIOUS
  <1>6. n.auth = a /\ n.status = "authorized" /\ n.start = mem[r].start
    BY <1>0, <1>5 DEF States
  <1>7. /\ file' = n /\ mem'[r] = n /\ \A q \in Runs \ {r} : mem'[q] = mem[q]
        /\ pc'[r] = "send" /\ \A q \in Runs \ {r} : pc'[q] = pc[q]
    BY <1>2, <1>5 DEF Save, Sign, Goto, IInv, TypeOK
  <1>8. NoteInv'
    <2>1. NoteOK(n)'
      BY <1>1, <1>4, <1>6 DEF NoteOK
    <2>2. ASSUME NEW q \in Runs \ {r} PROVE NoteOK(mem[q])'
      BY <1>4, <1>7 DEF NoteInv, NoteOK
    <2>3. NoteOK(file)' /\ NoteOK(mem[r])'
      BY <1>7, <2>1 DEF NoteOK
    <2> QED
      BY <2>2, <2>3 DEF NoteInv
  <1>9. WorkInv'
    <2>1. WorkOK(r)'
      BY <1>1, <1>6, <1>7 DEF WorkOK
    <2>2. ASSUME NEW q \in Runs \ {r} PROVE WorkOK(q)'
      <3>1. WorkOK(q) /\ NoteOK(mem[q])
        BY DEF WorkInv, NoteInv
      <3>2. ASSUME mem[q].auth # NoAuth PROVE auth'[mem[q].auth] = auth[mem[q].auth]
        BY <1>3, <1>4, <3>1, <3>2 DEF NoteOK, Signed
      <3> QED
        BY <1>0, <1>7, <3>1, <3>2 DEF WorkOK, AtWork
    <2> QED
      BY <2>1, <2>2 DEF WorkInv
  <1>10. ASSUME ~overlapped PROVE Alone'
    BY <1>0, <1>7, <1>10 DEF Alone, AtWork
  <1>11. ASSUME ~overlapped, ~renewed' PROVE OneLive'
    <2>1. ~renewed /\ ~RenewsEarly(r)
      BY <1>11 DEF Sign
    <2>2. mem[r] = file /\ OneLive
      BY <1>0, <1>11, <2>1 DEF Alone
    <2>3. ASSUME NEW b \in Signed PROVE Dead(b)
      <3>1. CASE b # mem[r].auth
        BY <1>1, <2>2, <2>3, <3>1 DEF OneLive
      <3>2. CASE b = mem[r].auth
        <4>1. b \in Auths /\ b # NoAuth
          BY <2>3, AuthAssumption DEF Signed
        <4>2. auth[b].until <= confirmed[r] + 1
          <5>1. auth[b].until <= height + Margin
            BY <1>0, <3>2, <4>1 DEF WorkOK
          <5>2. ~(auth[b].until > confirmed[r] + 1)
            BY <2>1, <3>2, <4>1, <5>1 DEF RenewsEarly
          <5> QED
            BY <1>0, <4>1, <5>2
        <4>3. auth[b].until <= height + 1
          BY <1>0, <4>1, <4>2, ChainFacts DEF RunOK
        <4>4. auth[b].state # "settled"
          <5> SUFFICES ASSUME auth[b].state = "settled" PROVE FALSE
            OBVIOUS
          <5>1. b \in Settled
            BY <4>1 DEF Settled
          <5>2. auth[b].block \in mem[r].source .. confirmed[r]
            BY <1>0, <1>1, <4>1, <4>2 DEF AuthOK
          <5> QED
            BY <1>0, <5>1, <5>2 DEF RunOK
        <4> QED
          BY <4>3, <4>4 DEF Dead
      <3> QED
        BY <3>1, <3>2
    <2> QED
      BY <1>4, <1>6, <1>7, <2>3 DEF OneLive
  <1>12. renewed \in BOOLEAN /\ (~renewed' => ~renewed) /\ (~overlapped' => ~overlapped)
    BY <1>0 DEF Sign, IInv, TypeOK
  <1> QED
    BY <1>0, <1>8, <1>9, <1>10, <1>11, <1>12

LEMMA OnceStep == IInv /\ OnceInv /\ [Next]_vars => OnceInv'
  <1> SUFFICES ASSUME IInv, OnceInv, [Next]_vars PROVE OnceInv'
    OBVIOUS
  <1>1. ASSUME NEW r \in Runs, TryLock(r) \/ Reopen(r) PROVE OnceInv'
    <2>1. UNCHANGED <<height, auth, file, mem, renewed>>
      BY <1>1 DEF TryLock, Reopen, chain
    <2>2. CASE TakeLock(r)
      <3>1. pc'[r] = "load" /\ \A q \in Runs \ {r} : pc'[q] = pc[q]
        BY <2>2 DEF TakeLock, Goto, IInv, TypeOK
      <3> QED
        BY <2>1, <2>2, <3>1, OnceIdle DEF TakeLock, AtWork
    <2>3. CASE ~TakeLock(r)
      <3>1. UNCHANGED overlapped /\ \A q \in Runs : pc'[q] \in {pc[q], "ended", "break"}
        BY <1>1, <2>3 DEF TryLock, Reopen, Goto, IInv, TypeOK
      <3>2. \A q \in Runs : AtWork(q)' => pc'[q] = pc[q]
        BY <3>1 DEF AtWork, Checking, Paying
      <3> QED
        BY <2>1, <3>1, <3>2, OnceIdle
    <2> QED
      BY <2>2, <2>3
  <1>2. ASSUME NEW r \in Runs, BreakLock(r) \/ Release(r) \/ Throw(r) \/ Crash(r)
        PROVE  OnceInv'
    <2>1. UNCHANGED <<height, auth, file, mem, renewed, overlapped>>
      BY <1>2 DEF BreakLock, Release, Throw, Crash, chain, history
    <2>2. \A q \in Runs : pc'[q] \in {pc[q], "ended", "reopen", "finish", "dead"}
      BY <1>2 DEF BreakLock, Release, Throw, Crash, Goto, IInv, TypeOK
    <2>3. \A q \in Runs : AtWork(q)' => pc'[q] = pc[q]
      BY <2>2 DEF AtWork, Checking, Paying
    <2> QED
      BY <2>1, <2>3, OnceIdle
  <1>3. ASSUME LockAges \/ UNCHANGED vars PROVE OnceInv'
    <2>1. UNCHANGED <<height, auth, file, mem, pc, renewed, overlapped>>
      BY <1>3 DEF LockAges, vars, chain, history
    <2> QED
      BY <2>1, OnceIdle
  <1>4. ASSUME NEW r \in Runs, Send(r) PROVE OnceInv'
    <2> USE DEF OnceInv
    <2>1. /\ UNCHANGED <<height, file, mem, renewed, overlapped>>
          /\ pc[r] = "send" /\ pc'[r] = "wait" /\ \A q \in Runs \ {r} : pc'[q] = pc[q]
      BY <1>4 DEF Send, Goto, chain, history, IInv, TypeOK
    <2>2. \A a \in Auths :
            /\ auth'[a].until = auth[a].until
            /\ \/ auth'[a].state = auth[a].state
               \/ auth[a].state = "signed" /\ auth'[a].state = "sent"
      BY <1>4 DEF Send, IInv, TypeOK
    <2>3. Signed' = Signed /\ \A a \in Signed : a \in Auths /\ Dead(a)' = Dead(a)
      BY <2>1, <2>2 DEF Signed, Dead
    <2>4. NoteInv'
      BY <2>1, <2>3 DEF NoteInv, NoteOK
    <2>5. WorkInv'
      <3> SUFFICES ASSUME NEW q \in Runs PROVE WorkOK(q)'
        BY DEF WorkInv
      <3>1. WorkOK(q) /\ NoteOK(mem[q])
        BY DEF WorkInv, NoteInv
      <3>2. ASSUME mem[q].auth # NoAuth PROVE auth'[mem[q].auth].until = auth[mem[q].auth].until
        BY <2>2, <2>3, <3>1, <3>2 DEF NoteOK
      <3> QED
        BY <2>1, <3>1, <3>2 DEF WorkOK, AtWork, Paying
    <2>6. ~overlapped => Alone'
      BY <2>1 DEF Alone, AtWork, Paying
    <2>7. ~overlapped /\ ~renewed => OneLive'
      BY <2>1, <2>3 DEF OneLive
    <2> QED
      BY <2>1, <2>4, <2>5, <2>6, <2>7
  <1>5. ASSUME Mine PROVE OnceInv'
    <2> USE DEF OnceInv
    <2>1. height' = height + 1 /\ height \in Nat
          /\ UNCHANGED <<file, mem, pc, renewed, overlapped>>
      BY <1>5 DEF Mine, process, history, IInv, TypeOK
    <2>2. PICK S \in SUBSET {a \in Auths : auth[a].state = "sent"
                                           /\ auth[a].until > height + 1} :
             auth' = [a \in Auths |-> IF a \in S
                        THEN [auth[a] EXCEPT !.state = "settled", !.block = height + 1]
                        ELSE auth[a]]
      BY <1>5 DEF Mine
    <2>3. \A a \in Auths : auth[a].until \in Nat
                           /\ auth[a] \in [state : {"none", "signed", "sent", "settled"},
                                           until : Nat, block : Nat]
      BY DEF IInv, TypeOK
    <2>4. \A a \in Auths :
            /\ auth'[a].until = auth[a].until
            /\ (auth'[a].state = "none") = (auth[a].state = "none")
            /\ \/ auth'[a] = auth[a]
               \/ auth[a].state = "sent" /\ auth[a].until > height + 1
      BY <2>2, <2>3
    <2>5. Signed' = Signed
      BY <2>4 DEF Signed
    <2>6. ASSUME NEW a \in Signed, Dead(a) PROVE Dead(a)'
      <3>1. a \in Auths
        BY DEF Signed
      <3> QED
        BY <2>1, <2>3, <2>4, <2>6, <3>1 DEF Dead
    <2>7. NoteInv'
      BY <2>1, <2>5 DEF NoteInv, NoteOK
    <2>8. WorkInv'
      <3> SUFFICES ASSUME NEW q \in Runs PROVE WorkOK(q)'
        BY DEF WorkInv
      <3>1. WorkOK(q) /\ NoteOK(mem[q])
        BY DEF WorkInv, NoteInv
      <3>2. ASSUME pc[q] = "sign", mem[q].auth # NoAuth
            PROVE  auth'[mem[q].auth].until <= height' + Margin
        <4>1. mem[q].auth \in Auths /\ auth[mem[q].auth].until <= height + Margin
          BY <3>1, <3>2 DEF NoteOK, Signed, WorkOK
        <4> QED
          BY <2>1, <2>3, <2>4, <4>1, ChainFacts
      <3> QED
        BY <2>1, <3>1, <3>2 DEF WorkOK, AtWork
    <2>9. ~overlapped => Alone'
      BY <2>1 DEF Alone, AtWork
    <2>10. ~overlapped /\ ~renewed => OneLive'
      BY <2>1, <2>5, <2>6 DEF OneLive
    <2> QED
      BY <2>1, <2>7, <2>8, <2>9, <2>10
  <1> QED
    BY <1>1, <1>2, <1>3, <1>4, <1>5, OnceDecides, OnceSigns
    DEF Next, Acquiring, Executing

-----------------------------------------------------------------------------
LEMMA Invariance == Spec => []IInv
  BY InitOK, InvStep, PTL DEF Spec

LEMMA OnceInvariance == Spec => []OnceInv
  BY Invariance, OnceInit, OnceStep, PTL DEF Spec

\* What the script, its files and the chain hold have their types: no block
\* number ever falls below zero, whatever is scanned.
THEOREM TypeCorrect == Spec => []TypeOK
  <1>1. IInv => TypeOK
    BY DEF IInv
  <1> QED
    BY <1>1, Invariance, PTL

\* A second payment needs two runs at work at the same time or an authorization
\* that was renewed early, whatever else fails.
THEOREM PaidTwiceExplainedAlways == Spec => []PaidTwiceExplained
  <1>1. OnceInv => PaidTwiceExplained
    BY DEF OnceInv, OneLive, Dead, PaidTwiceExplained, PaidOnce, Settled, Signed
  <1> QED
    BY <1>1, OnceInvariance, PTL

\* No authorization exists before the funding is confirmed.
THEOREM FundedBeforeSignedAlways == Spec => []FundedBeforeSigned
  <1>1. IInv => FundedBeforeSigned
    BY DEF IInv, AuthInv, AuthOK, Funded, FundedBeforeSigned, Signed
  <1> QED
    BY <1>1, Invariance, PTL

\* The state file says completed only with a payment on the chain.
THEOREM CompletedIsPaidAlways == Spec => []CompletedIsPaid
  <1>1. IInv => CompletedIsPaid
    BY DEF IInv, StateInv, StateOK, Paid, CompletedIsPaid
  <1> QED
    BY <1>1, Invariance, PTL

\* The scan never passes a funding transfer by.
THEOREM NoSkippedFundingAlways == Spec => []NoSkippedFunding
  <1>1. IInv => NoSkippedFunding
    BY DEF IInv, StateInv, StateOK, NoSkippedFunding
  <1> QED
    BY <1>1, Invariance, PTL
=============================================================================
