# A verification of the x402 readiness service

TLA+ models of this repository: the part that handles money and work that was
paid for (an order is stored, its payment is settled, a proof of the settlement
survives until the database has it, a worker reviews the order, a webhook tells
the buyer), the reviews and inspections themselves with the fetches they make,
the market feeds, the L402 scan, and the script that pays by itself. TLC checks
the models on small instances; TLAPS proves most of their safety properties for
every value of the constants.

    cd tla
    tlc -config MCReviewQueue.cfg MCReviewQueue      # any .cfg below with its module
    tlapm ReviewQueueProofs.tla                      # any *Proofs.tla

`PROJECT.json` lists components, runs, the source lines of every definition,
hazards, mutants and theorems.

## 1. The system

| part | state it keeps | operations | interacts with |
|---|---|---|---|
| HTTP API, paid order routes (`src/index.js`) | none of its own between requests; everything is in PostgreSQL | payment middleware, `buildAndStoreServiceOrder`, hooks `onAfterSettle` / `onSettleFailure` | facilitator (external), order store, journal |
| Order store (`src/order-store.js`) | tables `paid_service_orders`, `review_jobs`, `review_results`, `delivery_attempts`, heartbeats, telemetry | one transaction per exported function | API, worker, scripts |
| Settlement journal and reconcilers (`src/settlement-reconciler.js`, `scripts/reconcile-settlements.js`) | a directory of JSON files on the API host | `journalSettlement`, `acknowledgeSettlement`, `reconcileEntries` on a timer and from a script | hooks, order store |
| Review worker (`src/review/worker.js`) | lease of a job, in the table | sweep, claim, heartbeat, review, complete / fail, deliver | order store, inspectors, agent |
| Webhook delivery (`src/review/delivery.js`) | rows of `delivery_attempts` | claim, sign and post, record, recover | worker, buyer's receiver |
| Order results API (`src/routes/order-results.js`) | rate buckets in memory | token check, JSON and Markdown results | order store |
| Safe fetch (`src/review/target-policy.js`) | none | URL policy, redirects, deadlines, size limits | inspectors, delivery |
| Review agent (`src/review/agent-runner.js`, `result-schema.js`) | the usage of one attempt | rules or model calls, one repair, limits, budget | worker |
| Inspectors (`endpoint-inspector.js`, `repository-inspector.js`) | none | fetch and summarise a target | worker |
| Preflight (`src/preflight/*`) | none | inspect and audit an x402 endpoint, parse challenges, verdict | API, MCP |
| MCP server (`src/mcp/server.js`) | none | JSON-RPC dispatch of three tools, one of them paid | API |
| Facilitator initialisation and market caches (`src/index.js`) | a cached promise; caches with a time to live | `initializeResourceServer`, the market feeds | facilitator, public APIs |
| L402 backend (`src/l402`, `deploy/l402`) | rate windows in memory | scan a repository for opportunities | reverse proxy |
| Conditional payment client (`scripts/conditional-x402-payment.js`) | a lock file and a state file | take a lock, scan the chain, sign, pay, wait for the receipt | the chain, an x402 endpoint |
| Reports, probes, pages, deployment | none of interest | read and print | - |

What is hard in it, and where a test hardly reaches (`hazards` in PROJECT.json
gives each line and the properties about it):

- **interleaving**: several worker processes on one table; a callback, a timer
  and an operator's script on one directory; concurrent requests that carry the
  same payment header;
- **fencing**: a lease that lapses under a worker that is still alive, a
  delivery row with no owner at all;
- **crash**: between a settlement and its journal entry, between `link` and
  `unlink`, between claim and completion, between a post and its record;
- **lost replies**: a commit whose acknowledgement does not arrive makes the
  caller take the failure path with the work already done;
- **partial failure**: journal and database may each fail, the insert may have
  committed when the route answers 503;
- **ordering**: settlement and settlement failure of one order in either order;
- **stale state**: an orphan of a review that timed out, a cache that expires
  by the clock of whoever began to fill it, a state file read before another run
  rewrote it;
- **redirects**: what a header, a payload or a deadline is worth one hop later;
- **liveness**: a queued job is answered, a journal drains, an event ends, an
  inspection and a review end although their target may hang.

What makes each part correct: a paid order is answered once, with one result and
one event, and the answer never changes (queue); a proof of settlement exists
somewhere until the database has it (journal); a delivery recorded as delivered
was accepted, and every event ends (webhooks); nobody is charged for an order
that is not stored, and nothing is reviewed that was not paid (intake); a report
points into the evidence its attempt collected and keeps its budget (review); no
fetch carries a secret away, and no verdict contradicts what was found
(preflight); a feed is whole and no older than it says (feeds); the scan
recommends nothing that is contested (scan); the script pays once, for a funding
that is confirmed (payment script).

## 2. Modules

| module | models | abstract state |
|---|---|---|
| `ReviewService` | the promise: an accepted order gets one final answer | `accepted`, `answer` |
| `ReviewQueue` | order, job and result tables, worker processes | a row per order, `pc`/`held`/`turn` per process |
| `SettlementService` | the promise: what is kept of a payment is kept until it is recorded | `proof`, `job` |
| `Settlement` | callbacks, journal directory, both reconcilers, database outage | `disk` maps file names to contents, `pc` per callback and reconciler |
| `Delivery` | delivery rows and the processes that send them | a row per delivery, `pc`/`held` per process |
| `Intake` | paid requests, storage before settlement, the two hooks | a row per payment header, `pc`/`pay`/`route` per request |
| `ReviewRun` | what a worker does with one claimed job: inspectors, agent, budget, time limit | per attempt its `stage`, `evidence`, `cost`, `review` |
| `SafeFetch` | one fetch, hop by hop, with its deadline and its body | `at`, `url`, `init`, `hop`, `clock`; history `sent` |
| `Preflight` | an inspection or audit, extends `SafeFetch` | `phase`, `probe`, `ready`, `target`, `report` |
| `MarketFeeds` | the gate of the facilitator, `MARKET_CACHE` and its readers | `cache` by key; `draft` and `reply` per request |
| `RepoScan` | guard, rate limit and opportunity scan of the L402 backend | window and count; what is open at GitHub and what was read |
| `ConditionalPayment` | runs of the payment script, the chain | lock and state file; `pc` and memory per run; authorizations |
| `MC*` | finite instances for TLC | |
| `*Proofs` | inductive invariants and theorems | |

How they fit together is checked and proved too, as refinements:

- `ReviewQueue` implements `ReviewService` (`ServiceSafety`, `ServiceKept`):
  *accepted = the job has been queued, answer = the stored result*.
- `Settlement` implements `SettlementService` (`ServiceSafety`). A proof is *none*
  until its payment settles, *recorded* once the row has the hash, *kept* while an
  entry under the name of its order is readable, *held* while a callback or a
  reconciler is still going to publish or record it, *lost* otherwise; so "lost"
  is reached from "held" only, and what is kept is never lost.
- `ReviewRun` is the inside of the step `Review` of `ReviewQueue`: each of its
  steps is one of the queue for one order and one worker, or invisible to it
  (`QueueSteps`). The worker's place is read off the attempt it waits for, so an
  attempt that ends is `Review`, and `Store`, `GiveUp` and `GiveUpLate` are the
  queue's closing transactions. Leases and rivals are the queue's subject.
- `Intake` implements `ReviewQueue` without workers (`ApiOfQueue`): requests,
  hooks and crashes do nothing to orders and jobs but the transactions of `Api`.
- `Settlement`'s steps on orders and jobs are the queue's too
  (`Settlement!QueueSteps`), with one worker per order, the one that claims it.
- `Preflight` composes with `SafeFetch`: the fetch of its main probe runs step by
  step beside the CORS probe.

So the three modules that write `paid_service_orders` and `review_jobs` agree on
every transaction, and what is shown of `ReviewQueue` for an arbitrary `Api`
covers the API that the other two detail. What one module leaves open it gives in
its most general form (`Intake.MarkOrderSettled` fires at any time and
repeatedly, `ReviewQueue.Api` settles and fails orders at any time,
`Settlement.WorkerTakes` claims at any time), so what is shown of one part does
not depend on a schedule of another. `Delivery` takes up the event that closing a
job enqueues.

### How the state and the actions correspond to the code

**ReviewQueue.** Every exported function of the store is one transaction or one
statement in PostgreSQL, so it is one action. `pc[w]` is where `runReviewWorker`
and `processJob` are between two of them; `held` is the `job` variable, `turn`
the loop index. `available_at` and `lease_expires_at` are only ever compared with
`NOW()`, so a row keeps *whether* each has passed. The review (inspection,
agent, timeout) is one step that ends in one of the five outcomes the catch
block tells apart. A worker's id ends in a random suffix, so a restarted process
is another worker. The interval's heartbeat is an action that may run at any
time while the process holds a job. Claiming order is not modelled: the query
takes the oldest row *not locked by another transaction*, and since
`FOR UPDATE` without `OF` locks the order's row as well, which every repeated
settlement updates, any claimable row may be skipped.

**Settlement.** Each file operation of `writeEntry`, `journalSettlement`,
`acknowledgeSettlement` and `reconcileEntries` is one action. Files are named
`<<o, n>>`: `n = 0` is the entry of order `o`, `n > 0` the temporary file of
writer `n`. Temporary files carry names that `isJournalFile` accepts, so the
reconcilers list them, read them and may apply and remove them: this is in the
model, because callbacks race with it. The temporary file of the rewrite of a
temporary file has a name `isJournalFile` rejects; no one ever reads it, so it is
not on the modelled disk. Merged into one action are the `unlink` of the
temporary name with the `chmod` that follows it (`Clean`), and the `chmod` after
a `rename` with the `rename` (`RivalRemoves` is the case in which another
process removes the entry in between). Each writer has one temporary name per
order: a leftover of a dead writer is replaced by its next one, where the code
makes a new random name. The API's timer and its callbacks die together
(`CrashApi`); the script is a process of its own that runs once. The timer
samples its clock when a run starts; `BackoffEnds` lets an entry become due at
any time, which is more general. One transaction hash per order is assumed: an
order is made from one payment header, whose authorization can be used once.

**Delivery.** `claimNextDelivery`, `markDeliveryDelivered`,
`markDeliveryFailed`, `requeueStaleDeliveries` and `enqueueDelivery` are one
action each; the post is a step with the outcomes `sendWebhook` can end in. A
post is over in seconds because `safeFetch` has a deadline, except when the
receiver answers a status other than 2xx and lets the body trickle:
`readResponseText` is called without one (`Hang`). `TenMinutesPass` therefore
needs the sender dead or hanging.

**Intake.** A request is at the middleware's verification, in
`buildAndStoreServiceOrder`, at the settlement, in one of the hooks, or
answered. The order id is a digest of the payment header and of the product, so
the row is indexed by the payment. The routes are quick review, triage (the two
service routes and the remediation route, which differ in nothing the hooks look
at) and the MCP tool, whose JSON-RPC envelope hides the receipt from
`storedServiceOrderReceipt`; a response without a body is of the same kind. The
facilitator and the payment middleware are external: they verify, settle once
per authorization, decline, or lose a reply. The order store is taken to be
configured. The three tries of the hooks are one step that succeeds or fails.

**ReviewRun.** Each attempt at the job has its own evidence, usage and result,
since `withTimeout` only stops waiting: the promise of an attempt that ran out
of time goes on as an orphan, and `current` is the attempt the worker waits for.
Every fetch is one step, and none of them has to end. Of a file its size is
kept, of a probe the facts the rules look at, of a finding its severity and the
place it points to. What a model answers is arbitrary; `normalizeModelResult`
accepts only findings that are grounded (`Answered`). The time limit (`Expire`)
and the transaction that answers it (`GiveUpLate`) are two steps, between which
the attempt goes on. `ReviewQueue` has the lease; here a failure requeues the job
for later (`waiting`) while attempts are left.

**SafeFetch and Preflight.** A URL is its origin; an origin is https or not, and
barred or not (`Barred` stands for every test of `validateUrlShape` and the host
lists). `Lookup` covers `resolvePublicAddress`, whose answer is arbitrary, and
the look at the time left that follows it. `Asked` lists what the four callers
pass. A `Tick` is possible only while something is awaited, and a timer that is
due fires before the clock goes on. In `Preflight` a finding is a check that did
not pass together with the issue it adds; texts, evidence and the exact headers
are abstracted to the observations the checks read. The probes of the
four discovery documents are one step with any outcome, because only which of
them are usable enters the report.

**MarketFeeds.** Every upstream read is one step. A value keeps the tick of its
oldest read and its parts by name, so that what is missing or too old can be
seen. The settling of the initialisation and the resumption of everyone who
waits on its promise is one step (`Resume`): they run in one batch of
microtasks, before any other request is looked at. A request for candles may ask
for five pairs; they are read one after another without shared state, and one is
modelled.

**RepoScan.** `Call` is the middleware that counts, with the validation behind
it; the rows are read by two requests in any order while `Change` opens and
closes issues and pull requests. A page holds `PageSize` rows of what is open,
any of them, since the order of updates is not modelled. `steady` is history: the
pull requests open since the call was admitted.

**ConditionalPayment.** One tick of the chain is one block, and a deadline is a
block number. Each run has its own copy of the state it read (`mem`), which
`Save` writes over the file whatever it has become. `Release` is enabled from
the moment the payment begins, because the `return` without `await` lets the
`finally` block run then. The endpoint may answer anything; `Mine` settles any
authorization that was sent and has not expired.

## 3. Runs

| run | instance | shows |
|---|---|---|
| `queue` | 2 orders (one with a callback), 3 processes, 2 attempts, 1 fault | one answer per order, no leaked lease, paid before reviewed, attempts within the budget, closed once, by the holder; refinement of `ReviewService`, its liveness included |
| `settlement` | 1 order; around the timer one callback and 2 faults, or a second callback or the script and 1 fault; 2 tries, 1 file per run | proofs kept, durable until recorded, refinement of `SettlementService`, the journal drains but for entries that torn files hide |
| `delivery` | 2 deliveries, 2 processes, 2 attempts, 1 fault, 2 hangs | delivered means accepted, one sender in calm, attempts within the budget, every event ends for good |
| `intake` | 3 requests, 2 payments, 3 routes | stored before charged before queued, one service and one receipt per payment, an undisturbed buyer is served, recorded for ever; refinement of the `Api` of `ReviewQueue` |
| `review` | 2 attempts, a repository of 2 files, an endpoint and a refused target, rules or a model with 4 possible answers | reports grounded, ready only with evidence, requests and cost bounded, a job closes although targets hang; steps of `ReviewQueue` |
| `preflight` | 4 origins (one plain, one barred), 2 redirects, a deadline of one tick, 26 kinds of target, 4 policies; the other three callers of the fetch | no secret away from home, every hop allowed, payload with its method, verdict, policy and audit consistent, an inspection ends |
| `feeds` | 2 clients, 4 ticks, 3 markets in a pool of 2, 3 days in chunks of 2, 2 details | answers fresh and whole |
| `scan` | quota 2 in windows of 2, 3 issues and 3 pull requests in pages of 2, 2 changes | the quota over any span, a recommendation that is not contested |
| `trigger` | 2 runs, 2 authorizations, 7 blocks, 1 crash or stale lock, an older transfer or none | a second payment only where runs overlapped or an authorization was renewed early, funded before signed, completed only on a transfer, no funding skipped |

Three more runs (`intake_mcp`, `trigger_once`, `preflight_optional`) each refute
a sentence of the repository (section 6).

**Why the bounds are enough.** A hazard of the queue needs an old owner, a new
owner and a bystander that sweeps: three processes, and one fault to part them.
Two orders let a process hold one job while another is swept, and let one order
have a webhook and the other none. Two attempts tell "attempts left" from
"exhausted". In the journal a callback races with the timer and with a second
callback or the script, each of which has a temporary name of its own; an action
constraint (`LightStep`) keeps one behaviour to a callback and two faults, or to
two of these guests and one fault. It cuts off only steps under no fairness
(`Settle`, a script's `List`, faults), each of which may never come, so
liveness means what it says. Larger crowds are covered by the theorems on safety.
Runs look at one name (100 in the code): more may be listed, so that the torn
file of a callback that died hides the leftover entry of the next one for ever.
`JournalDrains` states this exception, and without it TLC refutes the property.
Deliveries need a stale sender and a successor, which also recovers the row; two
hangs put both past the ten minutes. Three requests over two payments give two
with the same header and one beside them. A review needs an orphan and its
successor, hence two attempts; file sizes 1 to 3 against limits 2 and 3 reach
"too large" and "total exceeded"; answers of a model have none, grounded,
ungrounded and too many findings; a request costs as much as the budget or more,
so that the first answer, the repair or both together may break it. Two redirects return to the first origin after
leaving it; a deadline of one tick lets each hop be early or late. Two clients
and four ticks with lives of two let one fill the cache while the other reads
it, an entry expire during a read, and a midnight pass; the list of products
lives for one tick, so that a snapshot made of it can outlive both. Two windows and two
changes meet each boundary of the quota and change both lists between reads. The
chain needs a block for the funding, one for its confirmation, one in which an
authorization settles unseen and one after its expiry; two runs and two
authorizations are what it takes to pay twice.

Symmetry is used in `intake`, `feeds` and `trigger`, where no action or property
names an element, and only for invariants and step properties. The bounds are
constants of the modules and appear in guards: faults (`Fault`, `Crash`,
`LockAges`), hangs (`Hang`), clocks (`LastTick`, `LastSecond`, `MaxClock`), blocks
(`LastBlock`), changes at GitHub (`MaxChanges`); nothing else is bounded
(`attempts \in Nat` in the queue). Deadlock is not checked in the runs whose
system comes to an end (a finite set of requests, one job, one inspection, a
clock that stops). Every module states a type invariant, which is proved rather
than run (that of `SafeFetch` as a part of `Preflight`'s).

**Fairness**, and why the code gives it:

- a live worker's event loop goes on (`WF(Loop(w))`): the review ends by
  `withTimeout`, every query has a result or an error, a hanging connection ends
  at last; a row is not locked at every single poll (`SF(Claim(w))`);
- time passes: leases lapse, backoffs end, ten minutes pass (`WF(Clock)`);
- a live API runs its callbacks and its interval, and an outage ends
  (`WF(Callback)`, `WF(Reconcile(Timer))`, `WF(DbRecovers)`);
- faults are finite, and systemd (`Restart=always`) starts a fresh process for
  one that died: in the live runs there are more processes than faults. An error
  thrown out of the catch block (`NeedsInputRejected`) also ends a process; it
  needs a lost lease, hence a fault, so `queue` has three processes;
- in `review` only the worker that waits is fair (`WF(Worker)`), whose timer
  fires, and the backoff (`WF(BackoffEnds)`);
  the attempt itself, GitHub, the target and the model owe nothing;
- in `preflight` timers fire, the resolver answers at last and the inspector goes
  on; the target owes nothing;
- nothing is assumed of buyers, of the facilitator, or of the operator's script.

**Mutants.** Every property of a passing run has a mutated definition next to the
one it mutates (comment "Mutant of ..."): a WHERE clause without its fence, a
comparison off by one, an insert outside its transaction, an error that is not
awaited, a check of the first hop only. With the mutant in place TLC finds the
property violated in the same run. No specification uses them.

## 4. Properties

Each is stated in its module, with a comment. The ones that took most care:

- `OneAnswer` relates job, result and events; with `ClosedOnce` it says that no
  late worker, sweep, settlement or retry changes what the buyer has been told.
  `ServiceKept` is `ReviewService` with its liveness; `ServiceSafety` is its
  safety part, for the proof.
- `NoFaultNoRival` and `OneSender`: until something breaks there are never two
  processes at one job or one delivery. After a fault there may be; the fence
  (jobs) or the receiver's idempotency key (webhooks) must cope.
- `AttemptBudget` and `TriesBounded` give the true bound on attempts, which is
  not `max_attempts`: each extra one is owed to a fault.
- `ProofKept` names every place the proof of a settlement can be, and the two
  ways in which it is nowhere: the callback died, or logged its "critical
  settlement recovery gap". `DurableUntilRecorded` is the same for a step, and
  speaks of temporary files as well; `ServiceSafety` says it of the published
  entry without a file, a callback or a fault in sight, and has the job queued
  with the record, once (which `QueuedOnce`, proved only, says directly).
- `JournalDrains` speaks of each file that no callback can take back: a complete
  temporary file whose link fails is removed by its own callback, and the proof
  may then die with it. It excepts the files that `maxEntries` torn ones hide:
  nothing removes a torn file, and a run looks no further.
- `SoleBuyerServed` is what a buyer who sent one request may count on; one who
  repeats it may get a token the database does not know.
- `ReportGrounded` and `SpendingBounded` hold with orphans at work beside the
  attempt that is waited for. `SpendingBounded` says which attempts over the
  budget end the job and which are tried again: those whose repair failed, because
  `runCompatibleModel` throws before the budget is looked at.
- `PolicyKept` speaks of every option a resource publishes, of which the code
  judges the first: it holds because options that differ contradict each other,
  and only where amounts are text (a JSON number is dropped from the comparison).
- `FreshAnswers` gives the true age of an answer: the list of products inside a
  cached snapshot was cached itself, so it may be `ListTTL + PriceTTL` old.
- `QuotaKept` gives the true quota of a fixed window: twice the limit in a span of
  one window.
- `SoundPick` needs that the open pull requests fitted into one page of 50.
- `PaidTwiceExplained` is what remains of "one-shot": the two ways to pay twice are
  an overlap of two runs and an authorization renewed while it could still settle,
  or had settled, where the search did not look; TLC refutes the property without
  either of them. In every other history the script pays once, and three mutants
  show what that takes: the search for a transfer, storing before sending, and
  using a stored authorization again.
- `CompletedIsPaid` states what the receipt proves: a transfer of the exact amount,
  but not that it came after the funding (section 6).
- `WholeAnswers`: no outage is cached as the absence of a release or a package; an
  unreadable package is (section 6).

## 5. Proofs

All theorems are for any number of orders, processes, callbacks, requests,
attempts, hops, runs, markets, blocks and faults, from the assumptions named in
the modules (sentinels differ from the elements of their sets; limits are natural
numbers; file names are distinct). Every component has an inductive invariant, a
lemma for `Init`, one lemma per action or part for the step, and theorems that
follow by `PTL`. Every invariant, step property and refinement that a run checks
has its theorem (of `ServiceKept` the safety half), except for liveness.

- **ReviewQueueProofs.** The safety properties are not inductive alone. Added
  are `LoopOK` (a process in a closing stage holds an order and vice versa),
  `BudgetLeft` (a job that may still be claimed has `attempts < MaxAttempts +
  faults`, which is what the claim uses up) and `Quiet` (without faults no lease
  is expired and no process is dead). `CloseCases` splits every step into "final
  jobs are left alone" and "process w closes its own job", from which
  `OneAnswer`, `ClosedOnce` and the step of the refinement follow. `QueueImplementsService` is the safety part of the refinement.
- **SettlementProofs.** `IInv` says for each stage of a callback (`CallbackSafe`)
  and of a reconciler (`ReconSafe`) what is on disk or in the database, that the
  published entry is never torn (`MainWhole`), and that a temporary file whose
  owner still writes it cannot be in the hand of a reconciler about to remove it
  (`EarlyUnseen`). `MainSafe(o)`, "the entry is readable or the order recorded",
  is stable under every step; so is `recorded`. `ProofKeptAlways` and
  `DurableAlways` follow. `TablesLemma` says what any step does to the tables;
  with `JobFollows` it gives `QueuedOnceAlways` and
  `SettlementStepsAreQueueSteps`. For the refinement, `SettledFirst` says that
  nothing of an order is on disk, in memory or recorded before its payment; one
  lemma per group of actors says what its step does to the files (`FileStep`) and
  to who holds a proof (`CallbackEffects`, `ReconEffects`, `WorldEffects`,
  `CrashEffects`), `StageStep` that no proof goes back a stage, and `OneOrderStep`
  that but for a crash a step moves the proof of one order, so that it is one step
  of `SettlementService`.
- **DeliveryProofs.** `CalmSending` (before the first fault or hang a sending row
  is not stale) is what `OneSender` needs; `TriesLeft` is the budget of a pending
  row.
- **IntakeProofs.** `RowWhole` (a row has all of status, product, token and job,
  or none), `Behind` (a request past its arrival has a payment), `ProofsSpent`
  (a proof is of a payment made), `Undisturbed` (the state of a sole buyer at each
  stage). `TablesLemma` says what any step does to orders and jobs, from which
  `IntakeImplementsApi` follows.
- **PreflightProofs.** What holds of the requests already sent is kept because of
  what holds of the hop in progress: `Path`, `Checked`, `Carried`, `Payload`. The
  theorems on the report are about `Findings`, `Decision` and `Score` for any
  target and policy: `SeverityGrows` and `ScoreFacts` compare the audit with the
  inspection, `FullPoints` says when a score is full,
  `ScoreBounded` that no set of findings takes it out of 0..100, which the type
  invariant needs.
- **ReviewRunProofs.** `RowInv` ties the row to the attempt waited for, `KindInv`
  the evidence to the kind of target, `CallsInv` the requests made to the stage,
  `ReadyInv` a finished review to its evidence and budget; `RulesInv` adds what
  reviews by rules are, `SpendInv` that an accepted answer is grounded already, so
  that only the budget can still end it (`PrefixGrounded`). `GraveVerdict` shows that, as the rules find nothing of
  low severity, "ready" and a full score are the same. `AttemptQueueStep` and
  `WorkerQueueStep` match each step with the queue's.
- **ReadersProofs.** Of the feeds, `SoundCache` bounds the age of every cached
  value by the time left to it, `SoundDrafts` that of every value being read; each
  write to the cache, in any order, keeps both. `PartsInv` says how much of a value
  its reader has at each stage: what is read, held by a worker of the pool or
  waiting is everything (`Pooled`), the days up to the cursor (`Chunked`), the
  details asked for (`Detailed`). Of the scan, `Counted` ties the window's counter
  to the calls admitted in it, so that a span meets two windows at most;
  `SteadySeen` says that the page read has every pull request that stayed open,
  unless there were too many, and `TopOfRanking` what the first of the sorted
  issues is.
- **ConditionalPaymentProofs.** `StateOK` holds of the file and of the copy in
  each run's memory, because any copy may be written back; `RunOK` says that a
  run about to sign has seen no payment up to `confirmed`. For payments,
  `OneLive` says that, until two runs overlap or an authorization is renewed early,
  every authorization but the one in the state file is `Dead`: not settled, and too
  old to settle. `Alone` gives what keeps it so, one run at work whose copy of the
  state is the file's; `NoteInv` and `WorkInv` say what a state may hold at each
  stage.

Only model-checked: liveness (`ServiceKept`, `JournalDrains`, `EveryEventEnds`,
`InspectionEnds`, `JobCloses`), which needs fairness and ENABLED; and the three
refutations of section 6, which are counterexamples.

## 6. Where the code and the repository's own words differ

Each of these is a run with `"expect": "violation"` and a finding in PROJECT.json
that quotes the sentence.

| run | what happens |
|---|---|
| `intake_mcp` | a remediation bought through the MCP tool is settled and neither journaled nor recorded |
| `trigger_once` | without any fault the payment script pays twice: its lock goes while the payment is under way |
| `preflight_optional` | an inspection without `max_price_usd` is refused by the second validation, because the first one wrote `null` |

More are in the models without a run of their own:

- a `TargetAccessError` marked retryable (429, 5xx, timeout, DNS) still closes the
  job as `needs_input`, where `AUTOMATED_REVIEW_PLAN.md:217` has it retried
  (`ReviewRun.GiveUp`);
- the API may die between the facilitator's confirmation and the journal entry,
  and the proof is nowhere, against line 707 (`ProofKept` states the exception);
- a sender whose post hung puts a delivered row back to pending: the UPDATE of
  `markDeliveryFailed` goes by `delivery_id` alone, against line 639;
- a declined settlement cancels the job; a repeated request with the same header
  is charged and its job stays cancelled, against line 631;
- a repeated request is charged and answered with a token the database does not
  know, against line 705;
- a job whose last attempt ends in a crash is requeued and claimed beyond
  `max_attempts`, where line 218 has it failed: `AttemptBudget` gives the bound
  that holds;
- an HTTP 500 whose body has one of five words (the outcome `worded`) is taken for
  a policy error and not retried, where line 639 retries it;
- the schema of a report has the decision UNKNOWN, which no report reaches: what is
  not detected is blocked first (`VerdictFollowsFindings`);
- the payment script accepts the receipt of any transaction the endpoint names, as
  long as it has the exact transfer: its block is not compared with the funding's,
  so that an older transfer would complete a run (`CompletedIsPaid` states the
  exception);
- a `package.json` that GitHub has, but that cannot be decoded or parsed, is
  reported and cached as missing (`MarketFeeds.Absent`, `src/index.js:3861`);
- an attempt at a review whose two answers are unusable is tried again although it
  has broken the budget (`SpendingBounded` states it);
- a webhook that is redirected with 301, 302 or 303 becomes a GET without a body,
  which a receiver may answer 2xx (`PayloadFollowsMethod` allows it).

## 7. Not modelled, and the plan

Done: the order was queue, settlement, delivery, intake, because a paid order
passes through all four; then the reviews and inspections inside them; then the
parts beside that path.

Next, in this order:

1. An abstract specification of deliveries that `Delivery` implements: what the
   receiver has accepted against what the row says, a stale sender included.
2. One promise over the whole path of a paid order, composed of `ReviewService`,
   `SettlementService` and the refinements of section 2: a payment that settles and
   whose proof is not lost is answered.
3. The rate buckets of `order-results.js`: a client's count within a window
   against the limit, and what eviction from a full table does to it.

Left out for good: the text of reports, pages, discovery documents
(`preflight/discovery.js` is constants and string building) and telemetry
(observations with no reader in the control flow); the weather and quote feeds,
which pass one upstream answer on and cache nothing; the JSON-RPC framing of the
MCP server; shell scripts and units; and what PostgreSQL, the file system, the
facilitator, GitHub and the chain do inside.
