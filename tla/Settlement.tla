----------------------------- MODULE Settlement -----------------------------
(***************************************************************************)
(* From a settled payment to a queued job: the onAfterSettle callback of   *)
(* the API (src/index.js), the journal of settlement proofs on the API     *)
(* host's disk and its reconcilers (src/settlement-reconciler.js): the     *)
(* API's timer and the operator's scripts/reconcile-settlements.js.        *)
(*                                                                         *)
(* A callback is one HANDLER.  Each file operation and each transaction is *)
(* one action, so that callbacks and reconcilers interleave between them   *)
(* and the API may die between them.  An order has one payment             *)
(* authorization, hence one transaction hash.                              *)
(***************************************************************************)
EXTENDS Integers, FiniteSets

CONSTANTS
    Orders,      \* orders stored before settlement, in the order of their digests
    Handlers,    \* onAfterSettle callbacks
    Timer,       \* the reconciler of the API's interval
    Scripts,     \* reconcilers run by the operator, each process once
    Tries,       \* length of delays in retryOrderStoreMutation (3)
    MaxEntries,  \* maxEntries: files one run looks at (100)
    MaxFaults,   \* bound: crashes, outages, disk errors, lost replies
    NoOrder, NoFile

Recons == {Timer} \cup Scripts
Actors == Handlers \cup Recons

ASSUME NamesAssumption ==
    /\ Orders \subseteq Nat /\ NoOrder \notin Orders
    /\ Actors \subseteq Nat \ {0}
    /\ Timer \notin Scripts /\ Recons \cap Handlers = {}
ASSUME LimitsAssumption ==
    Tries \in Nat \ {0} /\ MaxEntries \in Nat \ {0} /\ MaxFaults \in Nat

\* <<o, 0>> is the journal file of o; <<o, n>> the temporary file n wrote for
\* it.  A leftover temporary file is replaced by the next of the same writer.
Files == Orders \X ({0} \cup Actors)
Main(o) == <<o, 0>>

ASSUME FilesAssumption == NoFile \notin Files

VARIABLES
    settled,    \* orders whose payment is on the chain
    recorded,   \* orders whose row carries settlement_tx_hash
    job,        \* review_jobs.status; "taken" once a worker has claimed it
    disk,       \* the journal directory
    db,         \* whether PostgreSQL answers
    pc,         \* where each callback and each reconciler is
    order,      \* the order of each callback
    journaled,  \* the callbacks whose journaled flag is set
    tries,      \* failed calls of retryOrderStoreMutation, per callback
    todo,       \* files the run of a reconciler has still to look at
    file,       \* the file it is looking at
    faults      \* faults spent

tables == <<recorded, job>>
callbacks == <<order, journaled, tries>>
runs == <<todo, file>>
vars == <<settled, tables, disk, db, pc, callbacks, runs, faults>>

\* "torn" is a file writeEntry has not finished; the others are complete
\* entries, whose nextAttemptAt has passed or has not.
Entries == {"now", "later"}
Readable(f) == disk[f] \in Entries

Ended == {"done", "gap", "lost"}
HandlerStages ==
    {"idle", "look", "write", "fill", "link", "clean", "reread",
     "persist", "ack", "unlink"} \cup Ended
ReconStages ==
    {"idle", "scan", "apply", "remove", "rewrite", "refill", "rename", "done"}

TypeOK ==
    /\ settled \subseteq Orders /\ recorded \subseteq Orders
    /\ job \in [Orders -> {"awaiting_settlement", "queued", "taken"}]
    /\ disk \in [Files -> Entries \cup {"none", "torn"}]
    /\ db \in {"up", "down"}
    /\ pc \in [Actors -> HandlerStages \cup ReconStages]
    /\ order \in [Handlers -> Orders \cup {NoOrder}]
    /\ journaled \subseteq Handlers
    /\ tries \in [Handlers -> 0..Tries]
    /\ todo \in [Recons -> SUBSET Files]
    /\ file \in [Recons -> Files \cup {NoFile}]
    /\ faults \in 0..MaxFaults

Init ==
    /\ settled = {} /\ recorded = {}
    /\ job = [o \in Orders |-> "awaiting_settlement"]
    /\ disk = [f \in Files |-> "none"]
    /\ db = "up"
    /\ pc = [a \in Actors |-> "idle"]
    /\ order = [h \in Handlers |-> NoOrder]
    /\ journaled = {}
    /\ tries = [h \in Handlers |-> 0]
    /\ todo = [r \in Recons |-> {}]
    /\ file = [r \in Recons |-> NoFile]
    /\ faults = 0

Fault ==
    /\ faults < MaxFaults
    /\ faults' = faults + 1

Go(a, from, to) == pc[a] = from /\ pc' = [pc EXCEPT ![a] = to]
Store(f, content) == disk' = [disk EXCEPT ![f] = content]
Own(h) == Main(order[h])
Tmp(h) == <<order[h], h>>

\* Mutant of MarkOrderSettled: AND status = 'awaiting_settlement' is missing.
MarkOrderSettledRequeues(o) ==
    /\ recorded' = recorded \cup {o}
    /\ job' = [job EXCEPT ![o] = "queued"]

\* markOrderSettled: the hash, and the job out of awaiting_settlement.
MarkOrderSettled(o) ==
    /\ recorded' = recorded \cup {o}
    /\ job' = IF job[o] = "awaiting_settlement" THEN [job EXCEPT ![o] = "queued"] ELSE job

-----------------------------------------------------------------------------
(* The callback: journalSettlement. *)

\* The facilitator confirms the transfer and the middleware calls
\* onAfterSettle; two requests with the same authorization give two callbacks.
Settle(h, o) ==
    /\ Go(h, "idle", "look")
    /\ settled' = settled \cup {o}
    /\ order' = [order EXCEPT ![h] = o]
    /\ UNCHANGED <<tables, disk, db, journaled, tries, runs, faults>>

\* journalSettlement reads the file: an entry of this transaction is enough.
Look(h) ==
    /\ \/ /\ Go(h, "look", "persist")
          /\ Readable(Own(h))
          /\ journaled' = journaled \cup {h}
       \/ Go(h, "look", "write") /\ ~Readable(Own(h)) /\ UNCHANGED journaled
    /\ UNCHANGED <<settled, tables, disk, db, order, tries, runs, faults>>

\* writeEntry opens the temporary file, ...
Write(h) ==
    /\ Go(h, "write", "fill")
    /\ Store(Tmp(h), "torn")
    /\ UNCHANGED <<settled, tables, db, callbacks, runs, faults>>

\* ... fills and syncs it, ...
Fill(h) ==
    /\ Go(h, "fill", "link")
    /\ Store(Tmp(h), "now")
    /\ UNCHANGED <<settled, tables, db, callbacks, runs, faults>>

\* ... links it to the journal's name, which fails when that name exists, or
\* when a reconciler has meanwhile reconciled and removed the temporary file;
\* either failure removes the temporary file, ...
Link(h) ==
    /\ \/ /\ Go(h, "link", "clean")
          /\ Readable(Tmp(h)) /\ disk[Own(h)] = "none"
          /\ Store(Own(h), disk[Tmp(h)])
       \/ /\ Go(h, "link", "reread")
          /\ Readable(Tmp(h)) /\ disk[Own(h)] # "none"
          /\ Store(Tmp(h), "none")
       \/ Go(h, "link", "persist") /\ ~Readable(Tmp(h)) /\ UNCHANGED disk
    /\ UNCHANGED <<settled, tables, db, callbacks, runs, faults>>

\* ... unlinks the temporary name and sets the mode of the entry, an error
\* when a reconciler has removed the one or the other.
Clean(h) ==
    /\ Go(h, "clean", "persist")
    /\ Store(Tmp(h), "none")
    /\ journaled' = IF Readable(Tmp(h)) /\ Readable(Own(h))
                    THEN journaled \cup {h} ELSE journaled
    /\ UNCHANGED <<settled, tables, db, order, tries, runs, faults>>

\* After EEXIST the other callback's entry is read; it may be gone by now.
Reread(h) ==
    /\ Go(h, "reread", "persist")
    /\ journaled' = IF Readable(Own(h)) THEN journaled \cup {h} ELSE journaled
    /\ UNCHANGED <<settled, tables, disk, db, order, tries, runs, faults>>

\* A file operation of journalSettlement fails; the error is logged and the
\* callback goes on.  A failed write leaves the torn file behind, a failed
\* link removes it, a failure after the link leaves the entry in place.
JournalError(h) ==
    /\ \/ \E stage \in {"look", "write", "fill", "reread"} :
             Go(h, stage, "persist") /\ UNCHANGED disk
       \/ Go(h, "link", "persist") /\ Store(Tmp(h), "none")
       \/ Go(h, "clean", "persist") /\ (Store(Tmp(h), "none") \/ UNCHANGED disk)
    /\ Fault
    /\ UNCHANGED <<settled, tables, db, callbacks, runs>>

-----------------------------------------------------------------------------
(* The callback: retryOrderStoreMutation and acknowledgeSettlement. *)

Persist(h) ==
    /\ db = "up"
    /\ Go(h, "persist", IF h \in journaled THEN "ack" ELSE "done")
    /\ MarkOrderSettled(order[h])
    /\ UNCHANGED <<settled, disk, db, callbacks, runs, faults>>

LastTry(h) == tries[h] + 1 >= Tries

\* Mutant of GiveUp: the entry is acknowledged whether stored or not.
GiveUpAcknowledges(h) == IF h \in journaled THEN "ack" ELSE "gap"

\* stored is false: the entry is all there is, or "critical settlement
\* recovery gap" is logged.
GiveUp(h) == IF h \in journaled THEN "done" ELSE "gap"

\* One call fails, the database being down, or its reply is lost after the
\* commit.
PersistError(h) ==
    /\ Go(h, "persist", IF LastTry(h) THEN GiveUp(h) ELSE "persist")
    /\ tries' = [tries EXCEPT ![h] = @ + 1]
    /\ \/ db = "down" /\ UNCHANGED <<tables, faults>>
       \/ db = "up" /\ Fault /\ MarkOrderSettled(order[h])
    /\ UNCHANGED <<settled, disk, db, order, journaled, runs>>

\* acknowledgeSettlement reads the entry, which a reconciler may have removed,
Acknowledge(h) ==
    /\ Go(h, "ack", IF Readable(Own(h)) THEN "unlink" ELSE "done")
    /\ UNCHANGED <<settled, tables, disk, db, callbacks, runs, faults>>

\* and unlinks it; the callback logs an error and ends all the same.
Unlink(h) ==
    /\ Go(h, "unlink", "done")
    /\ \/ Store(Own(h), "none") /\ UNCHANGED faults
       \/ Fault /\ UNCHANGED disk
    /\ UNCHANGED <<settled, tables, db, callbacks, runs>>

Callback(h) ==
    \/ Look(h) \/ Write(h) \/ Fill(h) \/ Link(h) \/ Clean(h) \/ Reread(h)
    \/ Persist(h) \/ PersistError(h) \/ Acknowledge(h) \/ Unlink(h)

-----------------------------------------------------------------------------
(* The reconcilers. *)

\* The order in which journalFiles sorts the names.
Before(f, g) == f[1] < g[1] \/ (f[1] = g[1] /\ f[2] < g[2])

Listed == {f \in Files : disk[f] # "none"}

\* reconcileEntries lists the directory, temporary files included, and keeps
\* the first maxEntries names.
List(r) ==
    /\ Go(r, "idle", "scan")
    /\ todo' = [todo EXCEPT ![r] =
                  {f \in Listed : Cardinality({g \in Listed : Before(g, f)}) < MaxEntries}]
    /\ UNCHANGED <<settled, tables, disk, db, callbacks, file, faults>>

\* Mutant of Due: the comparison with the clock is inverted.
DueInverted(r, f) == disk[f] = "later" \/ (r \in Scripts /\ Readable(f))

\* What one run applies: the timer honours nextAttemptAt, the script forces.
Due(r, f) == disk[f] = "now" \/ (r \in Scripts /\ Readable(f))

\* The next file is read; one that is gone, torn or deferred is passed over.
Scan(r) ==
    \E f \in todo[r] :
        /\ \A g \in todo[r] : ~Before(g, f)
        /\ todo' = [todo EXCEPT ![r] = @ \ {f}]
        /\ \/ Due(r, f) /\ Go(r, "scan", "apply") /\ file' = [file EXCEPT ![r] = f]
           \/ ~Due(r, f) /\ Go(r, "scan", "scan") /\ UNCHANGED file
        /\ UNCHANGED <<settled, tables, disk, db, callbacks, faults>>

\* The interval runs again, the script's process exits.
Rest(r) == IF r = Timer THEN "idle" ELSE "done"

Finish(r) ==
    /\ todo[r] = {}
    /\ Go(r, "scan", Rest(r))
    /\ UNCHANGED <<settled, tables, disk, db, callbacks, runs, faults>>

Apply(r) ==
    /\ db = "up"
    /\ Go(r, "apply", "remove")
    /\ MarkOrderSettled(file[r][1])
    /\ UNCHANGED <<settled, disk, db, callbacks, runs, faults>>

\* markOrderSettled throws, before or after its commit.
ApplyError(r) ==
    /\ Go(r, "apply", "rewrite")
    /\ \/ db = "down" /\ UNCHANGED <<tables, faults>>
       \/ db = "up" /\ Fault /\ MarkOrderSettled(file[r][1])
    /\ UNCHANGED <<settled, disk, db, callbacks, runs>>

NextFile(r, from) ==
    /\ Go(r, from, "scan")
    /\ file' = [file EXCEPT ![r] = NoFile]
    /\ UNCHANGED todo

\* The run's promise rejects: the rest of the files waits for the next run.
Abort(r, from) ==
    /\ Go(r, from, Rest(r))
    /\ file' = [file EXCEPT ![r] = NoFile]
    /\ todo' = [todo EXCEPT ![r] = {}]

\* unlink: ENOENT is ignored, another error counts as a failed attempt.
Remove(r) ==
    /\ \/ NextFile(r, "remove") /\ Store(file[r], "none") /\ UNCHANGED faults
       \/ Go(r, "remove", "rewrite") /\ Fault /\ UNCHANGED <<disk, runs>>
    /\ UNCHANGED <<settled, tables, db, callbacks>>

\* The temporary file of a rewrite.  That of a temporary file has a name that
\* isJournalFile rejects, so no reconciler ever sees it: it is not on disk.
Scratch(r) == <<file[r][1], r>>
Visible(r) == file[r] = Main(file[r][1])
StoreScratch(r, content) == IF Visible(r) THEN Store(Scratch(r), content) ELSE UNCHANGED disk

\* writeEntry replaces the entry by one that is due later, even if a callback
\* or the other reconciler has removed it meanwhile.
Rewrite(r) ==
    /\ Go(r, "rewrite", "refill")
    /\ StoreScratch(r, "torn")
    /\ UNCHANGED <<settled, tables, db, callbacks, runs, faults>>

Refill(r) ==
    /\ Go(r, "refill", "rename")
    /\ StoreScratch(r, "later")
    /\ UNCHANGED <<settled, tables, db, callbacks, runs, faults>>

Replace(r) ==
    /\ Visible(r) => Readable(Scratch(r))
    /\ disk' = [f \in Files |->
                  IF f = file[r] THEN "later"
                  ELSE IF Visible(r) /\ f = Scratch(r) THEN "none" ELSE disk[f]]

\* Another process is about to unlink the entry that r rewrites.
RivalRemoves(r) ==
    \/ \E s \in Recons : pc[s] = "remove" /\ file[s] = file[r]
    \/ \E h \in Handlers : pc[h] = "unlink" /\ Own(h) = file[r]

\* rename fails when the other reconciler has applied and removed the
\* temporary file, the chmod after it when the entry is removed in between:
\* either error leaves reconcileEntries.
Rename(r) ==
    /\ \/ NextFile(r, "rename") /\ Replace(r)
       \/ Abort(r, "rename") /\ Replace(r) /\ RivalRemoves(r)
       \/ /\ Abort(r, "rename")
          /\ Visible(r) /\ ~Readable(Scratch(r))
          /\ UNCHANGED disk
    /\ UNCHANGED <<settled, tables, db, callbacks, faults>>

\* A file operation of writeEntry fails: a failed write leaves the torn file,
\* a failed rename removes it, a failure after the rename changes nothing more.
RewriteError(r) ==
    /\ \/ Abort(r, "rewrite") /\ UNCHANGED disk
       \/ Abort(r, "refill") /\ UNCHANGED disk
       \/ Abort(r, "rename") /\ (StoreScratch(r, "none") \/ Replace(r))
    /\ Fault
    /\ UNCHANGED <<settled, tables, db, callbacks>>

Reconcile(r) ==
    \/ List(r) \/ Scan(r) \/ Finish(r) \/ Apply(r) \/ ApplyError(r)
    \/ Remove(r) \/ Rewrite(r) \/ Refill(r) \/ Rename(r)

-----------------------------------------------------------------------------
(* The world around. *)

\* The retry delay of an entry passes.
BackoffEnds(f) ==
    /\ disk[f] = "later"
    /\ Store(f, "now")
    /\ UNCHANGED <<settled, tables, db, pc, callbacks, runs, faults>>

Outage ==
    /\ db = "up"
    /\ Fault
    /\ db' = "down"
    /\ UNCHANGED <<settled, tables, disk, pc, callbacks, runs>>

DbRecovers ==
    /\ db = "down"
    /\ db' = "up"
    /\ UNCHANGED <<settled, tables, disk, pc, callbacks, runs, faults>>

\* The proof of the payment is in the memory of this callback only, as far as
\* this callback knows.
InMemory(h) ==
    \/ pc[h] \in {"look", "write", "fill"}
    \/ pc[h] = "persist" /\ h \notin journaled

\* The API process dies and systemd starts another: every callback ends where
\* it is, the timer's run starts afresh, the files stay.
CrashApi ==
    /\ Fault
    /\ pc' = [a \in Actors |->
                IF a \in Handlers
                THEN IF pc[a] \in Ended \cup {"idle"} THEN pc[a]
                     ELSE IF InMemory(a) THEN "lost" ELSE "done"
                ELSE IF a = Timer THEN "idle" ELSE pc[a]]
    /\ todo' = [todo EXCEPT ![Timer] = {}]
    /\ file' = [file EXCEPT ![Timer] = NoFile]
    /\ UNCHANGED <<settled, tables, disk, db, callbacks>>

ScriptKilled(r) ==
    /\ pc[r] \notin {"idle", "done"}
    /\ Abort(r, pc[r])
    /\ Fault
    /\ UNCHANGED <<settled, tables, disk, db, callbacks>>

\* A worker claims the job (see ReviewQueue); its later statuses are one here.
WorkerTakes(o) ==
    /\ job[o] = "queued"
    /\ job' = [job EXCEPT ![o] = "taken"]
    /\ UNCHANGED <<settled, recorded, disk, db, pc, callbacks, runs, faults>>

Next ==
    \/ \E h \in Handlers, o \in Orders : Settle(h, o)
    \/ \E h \in Handlers : Callback(h) \/ JournalError(h)
    \/ \E r \in Recons : Reconcile(r) \/ RewriteError(r)
    \/ \E f \in Files : BackoffEnds(f)
    \/ \E o \in Orders : WorkerTakes(o)
    \/ \E r \in Scripts : ScriptKilled(r)
    \/ Outage \/ DbRecovers \/ CrashApi

Spec == Init /\ [][Next]_vars

\* A live API runs its callbacks and its interval, an outage ends, time
\* passes.  The script runs when the operator likes, and faults are finite.
FairSpec ==
    /\ Spec
    /\ \A h \in Handlers : WF_vars(Callback(h))
    /\ WF_vars(Reconcile(Timer))
    /\ \A f \in Files : WF_vars(BackoffEnds(f))
    /\ WF_vars(DbRecovers)

-----------------------------------------------------------------------------
(* Properties. *)

OnDisk(o) == \E f \in Files : f[1] = o /\ Readable(f)

\* The proof of a settled payment is in the database, in a complete file of
\* the journal, or in the memory of a callback that has not yet published it,
\* unless such a callback died or found both disk and database failing.
ProofKept ==
    \A o \in settled :
        \/ o \in recorded
        \/ OnDisk(o)
        \/ \E h \in Handlers : order[h] = o /\ (InMemory(h) \/ pc[h] \in {"gap", "lost"})

\* "Borra la entrada solo despues de confirmar la escritura": once a proof is
\* on the disk, and whatever callbacks, reconcilers and crashes do, it stays
\* there until the database has it; only the callback whose own link fails
\* takes its unpublished file back, and still holds the proof then.
DurableStep ==
    \A o \in Orders : OnDisk(o) =>
        \/ o \in recorded'
        \/ OnDisk(o)'
        \/ \E h \in Handlers : order[h] = o /\ pc[h] = "link" /\ pc'[h] = "persist"
DurableUntilRecorded == [][DurableStep]_vars

\* A job a worker has taken is never queued again by a repeated, late or
\* reconciled record of the same settlement, and no job is queued before it.
QueuedOnceStep ==
    \A o \in Orders :
        /\ job[o] = "taken" => job'[o] = "taken"
        /\ job'[o] # "awaiting_settlement" <=> o \in recorded'
QueuedOnce == [][QueuedOnceStep]_vars

\* A complete file that no callback can take back: the temporary file of a
\* callback that is still to link it is removed when its link fails.
PublishedFile(f) == Readable(f) /\ ~ \E h \in Handlers : pc[h] = "link" /\ f = Tmp(h)
Published(o) == \E f \in Files : f[1] = o /\ PublishedFile(f)

\* MaxEntries torn files come before f: no run gets as far as f.
Hidden(f) == MaxEntries <= Cardinality({g \in Files : Before(g, f) /\ disk[g] = "torn"})

\* Every file that is published in the journal is eventually recorded and
\* removed, whatever finite number of faults came before, unless from some time
\* on torn files hide it: nothing removes the torn file of a callback or a
\* reconciler that died, and the first maxEntries names are all a run looks at.
JournalDrains ==
    \A f \in Files :
        \/ PublishedFile(f) ~> (f[1] \in recorded /\ ~Readable(f))
        \/ <>[]Hidden(f)

-----------------------------------------------------------------------------
(* The service that the journal and the tables provide together. *)

\* Someone still knows of the payment of o: a callback that has not ended, or
\* a reconciler that works on a file of o, even one that has been removed.
Silent == {"idle", "ack", "unlink"} \cup Ended
Working == {"apply", "remove", "rewrite", "refill", "rename"}
Holds(h, o) == order[h] = o /\ pc[h] \notin Silent
Works(r, o) == pc[r] \in Working /\ file[r][1] = o
Held(o) == (\E h \in Handlers : Holds(h, o)) \/ (\E r \in Recons : Works(r, o))

Proof(o) ==
    IF o \notin settled THEN "none"
    ELSE IF o \in recorded THEN "recorded"
    ELSE IF Published(o) THEN "kept"
    ELSE IF Held(o) THEN "held" ELSE "lost"

Service == INSTANCE SettlementService WITH proof <- [o \in Orders |-> Proof(o)]

\* Whatever the files, crashes and rivals are up to, a payment's proof goes
\* through the stages of SettlementService: none is recorded that was not
\* settled, none that is published is ever lost, and the job is queued with
\* the record, once.
ServiceSafety == Service!Spec

\* Settlement beside ReviewQueue, of which it has the rows that its orders have
\* and one worker per order, the one that claims it: callbacks, reconcilers and
\* faults change these rows only as ReviewQueue's own steps do.
Taken(o) == job[o] = "taken"
Queue == INSTANCE ReviewQueue
    WITH Workers <- Orders, Callbacks <- {},
         MaxAttempts <- 1, Concurrency <- 1, MaxFaults <- 0,
         NoWorker <- NoOrder, NoResult <- "none",
         order <- [o \in Orders |-> IF o \in recorded THEN "paid_intake_received"
                                    ELSE "payment_verified"],
         job <- [o \in Orders |->
                    [status |-> IF Taken(o) THEN "processing" ELSE job[o],
                     attempts |-> IF Taken(o) THEN 1 ELSE 0, available |-> "now",
                     owner |-> IF Taken(o) THEN o ELSE NoOrder,
                     lease |-> IF Taken(o) THEN "live" ELSE "none"]],
         result <- [o \in Orders |-> "none"], events <- {}, faults <- 0,
         pc <- [o \in Orders |-> IF Taken(o) THEN "review" ELSE "claim"],
         held <- [o \in Orders |-> IF Taken(o) THEN o ELSE NoOrder],
         turn <- [o \in Orders |-> IF Taken(o) THEN 1 ELSE 0]
QueueSteps == [][Queue!Next]_(Queue!vars)

=============================================================================
