-------------------------- MODULE SettlementProofs --------------------------
(***************************************************************************)
(* Proofs about Settlement for any number of orders, callbacks, scripts,   *)
(* retries and faults.  IInv is the inductive invariant behind ProofKept   *)
(* and DurableUntilRecorded: what every stage of a callback or reconciler  *)
(* may rely on, although the others add and remove files at any time.      *)
(***************************************************************************)
EXTENDS Settlement, TLAPS

\* The journal file of o is complete, or no longer needed.
MainSafe(o) == o \in recorded \/ Readable(Main(o))

\* A callback has an order from its first step on, and a settled order has
\* had a callback.
CallbacksOwnOrders ==
    /\ \A h \in Handlers :
          pc[h] \in HandlerStages /\ (pc[h] # "idle" => order[h] \in settled)
    /\ \A o \in settled : \E h \in Handlers : order[h] = o /\ pc[h] # "idle"

\* What each stage of a callback knows of the journal.
CallbackSafe(h) ==
    /\ pc[h] \in {"idle", "look", "write", "fill", "link", "clean", "reread"} => h \notin journaled
    /\ pc[h] = "link" => order[h] \in recorded \/ Readable(Tmp(h))
    /\ pc[h] \in {"clean", "reread"} => MainSafe(order[h])
    /\ pc[h] = "persist" /\ h \in journaled => MainSafe(order[h])
    /\ pc[h] \in {"ack", "unlink"} => order[h] \in recorded
    /\ pc[h] = "done" => MainSafe(order[h]) \/ Readable(Tmp(h))
CallbacksSafe == \A h \in Handlers : CallbackSafe(h)

\* A reconciler that works on a file knows it, removes only what is recorded
\* and rewrites no journal file that could be missing.
ReconSafe(r) ==
    /\ pc[r] \in ReconStages
    /\ pc[r] \in {"apply", "remove", "rewrite", "refill", "rename"} =>
          /\ file[r] \in Files
          /\ file[r] = Main(file[r][1]) => MainSafe(file[r][1])
    /\ pc[r] = "remove" => file[r][1] \in recorded
ReconsSafe == \A r \in Recons : ReconSafe(r)

\* A journal file is never torn: it appears by link or rename.
MainWhole == \A o \in Orders : disk[Main(o)] # "torn"

\* Nothing is found or kept of a callback that has not filled its file.
Early == {"idle", "look", "write", "fill"}
Unseen(h, o) ==
    pc[h] \in Early => ~Readable(<<o, h>>) /\ \A r \in Recons : file[r] # <<o, h>>
EarlyUnseen == \A h \in Handlers, o \in Orders : Unseen(h, o)

\* A callback that has not given up or succeeded has a try left.
TriesLeft ==
    \A h \in Handlers : pc[h] \notin {"ack", "unlink"} \cup Ended => tries[h] < Tries

\* A job waits for settlement until the settlement is recorded.
JobFollows == \A o \in Orders : job[o] # "awaiting_settlement" <=> o \in recorded

IInv ==
    /\ TypeOK /\ JobFollows /\ TriesLeft /\ CallbacksOwnOrders /\ CallbacksSafe
    /\ ReconsSafe /\ MainWhole /\ EarlyUnseen


LEMMA InitIInv == Init => IInv
  <1> SUFFICES ASSUME Init PROVE IInv
    OBVIOUS
  <1> USE NamesAssumption, LimitsAssumption, FilesAssumption
  <1>1. TypeOK
    BY DEF Init, TypeOK, Entries, HandlerStages, ReconStages, Actors, Recons
  <1>2. CallbacksOwnOrders /\ CallbacksSafe /\ ReconsSafe
    BY DEF Init, CallbacksOwnOrders, CallbacksSafe, CallbackSafe, ReconsSafe, ReconSafe,
       HandlerStages, ReconStages, Actors
  <1>3. MainWhole /\ TriesLeft /\ JobFollows
    BY DEF Init, MainWhole, Main, Files, TriesLeft, JobFollows
  <1>4. EarlyUnseen
    BY FilesAssumption DEF Init, EarlyUnseen, Unseen, Readable, Entries, Files, Actors
  <1> QED
    BY <1>1, <1>2, <1>3, <1>4 DEF IInv

-----------------------------------------------------------------------------
(* Names of files. *)

LEMMA FileNames ==
  /\ \A o \in Orders : Main(o) \in Files /\ Main(o)[1] = o
  /\ \A o \in Orders, a \in Actors :
        <<o, a>> \in Files /\ <<o, a>>[1] = o /\ \A p \in Orders : <<o, a>> # Main(p)
  /\ \A o, p \in Orders, a, b \in Actors : <<o, a>> = <<p, b>> => o = p /\ a = b
  /\ \A f \in Files : f[1] \in Orders
  BY NamesAssumption DEF Files, Main, Actors

\* The temporary file of a callback is no file of another callback.
LEMMA Apart ==
  ASSUME NEW g \in Handlers, NEW h \in Handlers, g # h, NEW o \in Orders, NEW p \in Orders
  PROVE  <<p, g>> # <<o, h>> /\ <<p, g>> # Main(o)
  BY FileNames DEF Actors

\* The files a callback or a reconciler touches are files of the model.
LEMMA Touched ==
  ASSUME IInv
  PROVE  /\ \A h \in Handlers : pc[h] # "idle" =>
               /\ order[h] \in Orders /\ Own(h) \in Files /\ Tmp(h) \in Files
               /\ disk[Tmp(h)] \in Entries \cup {"none", "torn"}
         /\ \A r \in Recons :
               pc[r] \in {"apply", "remove", "rewrite", "refill", "rename"} =>
                  file[r][1] \in Orders /\ Scratch(r) \in Files
  BY NamesAssumption, FileNames
     DEF IInv, TypeOK, CallbacksOwnOrders, ReconsSafe, ReconSafe, Own, Tmp, Scratch, Actors, Recons

\* Faults stay within their bound.
LEMMA FaultType == TypeOK /\ (Fault \/ UNCHANGED faults) => faults' \in 0..MaxFaults
  BY LimitsAssumption DEF TypeOK, Fault

\* A callback is out of tries at the last delay: it leaves "persist".
LEMMA TriesType ==
  ASSUME IInv, NEW h \in Handlers, PersistError(h)
  PROVE  tries' \in [Handlers -> 0..Tries]
  BY LimitsAssumption DEF IInv, TypeOK, TriesLeft, PersistError, Go, Ended

\* Marking an order settled keeps the types of the tables.
LEMMA MarkTypes ==
  ASSUME TypeOK, NEW o \in Orders, MarkOrderSettled(o)
  PROVE  /\ recorded' \subseteq Orders
         /\ job' \in [Orders -> {"awaiting_settlement", "queued", "taken"}]
  BY DEF TypeOK, MarkOrderSettled

-----------------------------------------------------------------------------
(* Types. *)

LEMMA TypeStep == IInv /\ Next => TypeOK'
  <1> SUFFICES ASSUME IInv, Next
      PROVE  TypeOK'
    OBVIOUS
  <1> USE NamesAssumption
  <1> USE DEF IInv, TypeOK, ReconsSafe, ReconSafe, CallbacksOwnOrders, Entries, HandlerStages, ReconStages, Ended, Actors, Recons,
              Go, Store, tables, callbacks, runs
  <1>1. ASSUME NEW h \in Handlers, NEW o \in Orders, Settle(h, o) PROVE TypeOK'
    BY <1>1 DEF Settle
  <1>2. ASSUME NEW h \in Handlers, Look(h) PROVE TypeOK'
    BY <1>2 DEF Look, Own
  <1>3. ASSUME NEW h \in Handlers, Write(h) PROVE TypeOK'
    BY <1>3 DEF Write, Tmp
  <1>4. ASSUME NEW h \in Handlers, Fill(h) PROVE TypeOK'
    BY <1>4 DEF Fill, Tmp
  <1>5. ASSUME NEW h \in Handlers, Link(h) PROVE TypeOK'
    BY <1>5, Touched DEF Link
  <1>6. ASSUME NEW h \in Handlers, Clean(h) PROVE TypeOK'
    BY <1>6, Touched DEF Clean
  <1>7. ASSUME NEW h \in Handlers, Reread(h) PROVE TypeOK'
    BY <1>7 DEF Reread, Own
  <1>8. ASSUME NEW h \in Handlers, Persist(h) PROVE TypeOK'
    BY <1>8, Touched, MarkTypes DEF Persist
  <1>9. ASSUME NEW h \in Handlers, PersistError(h) PROVE TypeOK'
    BY <1>9, Touched, MarkTypes, FaultType, TriesType DEF PersistError, LastTry, GiveUp
  <1>10. ASSUME NEW h \in Handlers, Acknowledge(h) PROVE TypeOK'
    BY <1>10 DEF Acknowledge, Own
  <1>11. ASSUME NEW h \in Handlers, Unlink(h) PROVE TypeOK'
    BY <1>11, FaultType, Touched DEF Unlink
  <1>12. ASSUME NEW h \in Handlers, JournalError(h) PROVE TypeOK'
    BY <1>12, Touched, FaultType DEF JournalError
  <1>13. ASSUME NEW r \in Recons, List(r) PROVE TypeOK'
    BY <1>13 DEF List, Listed
  <1>14. ASSUME NEW r \in Recons, Scan(r) PROVE TypeOK'
    BY <1>14 DEF Scan, Due
  <1>15. ASSUME NEW r \in Recons, Finish(r) PROVE TypeOK'
    BY <1>15 DEF Finish, Rest
  <1>16. ASSUME NEW r \in Recons, Apply(r) PROVE TypeOK'
    <2>1. pc[r] = "apply" /\ MarkOrderSettled(file[r][1])
      BY <1>16 DEF Apply
    <2>2. recorded' \subseteq Orders /\ job' \in [Orders -> {"awaiting_settlement", "queued", "taken"}]
      <3>1. file[r][1] \in Orders
        BY <2>1, Touched
      <3> QED
        BY <2>1, <3>1, MarkTypes
    <2> QED
      BY <1>16, <2>2 DEF Apply
  <1>17. ASSUME NEW r \in Recons, ApplyError(r) PROVE TypeOK'
    <2>1. pc[r] = "apply"
      BY <1>17 DEF ApplyError
    <2>2. recorded' \subseteq Orders /\ job' \in [Orders -> {"awaiting_settlement", "queued", "taken"}]
      <3>1. file[r][1] \in Orders
        BY <2>1, Touched
      <3>2. CASE MarkOrderSettled(file[r][1])
        BY <3>1, <3>2, MarkTypes
      <3>3. CASE UNCHANGED tables
        BY <3>3
      <3> QED
        BY <1>17, <3>2, <3>3 DEF ApplyError
    <2>3. faults' \in 0..MaxFaults
      BY <1>17, FaultType DEF ApplyError
    <2> QED
      BY <1>17, <2>2, <2>3 DEF ApplyError
  <1>18. ASSUME NEW r \in Recons, Remove(r) PROVE TypeOK'
    BY <1>18, FaultType DEF Remove, NextFile
  <1>19. ASSUME NEW r \in Recons, Rewrite(r) PROVE TypeOK'
    BY <1>19, Touched DEF Rewrite, StoreScratch
  <1>20. ASSUME NEW r \in Recons, Refill(r) PROVE TypeOK'
    BY <1>20, Touched DEF Refill, StoreScratch
  <1>21. ASSUME NEW r \in Recons, Rename(r) PROVE TypeOK'
    BY <1>21 DEF Rename, Replace, NextFile, Abort, Rest, Scratch, Visible
  <1>22. ASSUME NEW r \in Recons, RewriteError(r) PROVE TypeOK'
    BY <1>22, FaultType, Touched DEF RewriteError, Replace, Abort, Rest, StoreScratch
  <1>23. ASSUME NEW f \in Files, BackoffEnds(f) PROVE TypeOK'
    BY <1>23 DEF BackoffEnds
  <1>24. ASSUME NEW o \in Orders, WorkerTakes(o) PROVE TypeOK'
    BY <1>24 DEF WorkerTakes
  <1>25. ASSUME NEW r \in Scripts, ScriptKilled(r) PROVE TypeOK'
    BY <1>25, FaultType DEF ScriptKilled, Abort, Rest
  <1>26. ASSUME Outage PROVE TypeOK'
    BY <1>26, FaultType DEF Outage
  <1>27. ASSUME DbRecovers PROVE TypeOK'
    BY <1>27 DEF DbRecovers
  <1>28. ASSUME CrashApi PROVE TypeOK'
    BY <1>28, FaultType DEF CrashApi, InMemory
  <1> QED
    BY <1>1, <1>2, <1>3, <1>4, <1>5, <1>6, <1>7, <1>8, <1>9, <1>10, <1>11, <1>12, <1>13, <1>14, <1>15, <1>16, <1>17, <1>18, <1>19, <1>20, <1>21, <1>22, <1>23, <1>24, <1>25, <1>26, <1>27, <1>28
       DEF Next, Callback, Reconcile

LEMMA OwnStep == IInv /\ Next => CallbacksOwnOrders'
  <1> SUFFICES ASSUME IInv, Next
      PROVE  CallbacksOwnOrders'
    OBVIOUS
  <1> USE NamesAssumption
  <1> USE DEF IInv, TypeOK, CallbacksOwnOrders, HandlerStages, Ended, Actors, Recons,
              Go, Store, Fault, tables, callbacks, runs
  <1>1. ASSUME NEW h \in Handlers, NEW o \in Orders, Settle(h, o) PROVE CallbacksOwnOrders'
    BY <1>1 DEF Settle
  <1>2. ASSUME NEW h \in Handlers, Look(h) PROVE CallbacksOwnOrders'
    BY <1>2 DEF Look, Own
  <1>3. ASSUME NEW h \in Handlers, Write(h) PROVE CallbacksOwnOrders'
    BY <1>3 DEF Write, Tmp
  <1>4. ASSUME NEW h \in Handlers, Fill(h) PROVE CallbacksOwnOrders'
    BY <1>4 DEF Fill, Tmp
  <1>5. ASSUME NEW h \in Handlers, Link(h) PROVE CallbacksOwnOrders'
    BY <1>5 DEF Link, Own, Tmp
  <1>6. ASSUME NEW h \in Handlers, Clean(h) PROVE CallbacksOwnOrders'
    BY <1>6 DEF Clean, Own, Tmp
  <1>7. ASSUME NEW h \in Handlers, Reread(h) PROVE CallbacksOwnOrders'
    BY <1>7 DEF Reread, Own
  <1>8. ASSUME NEW h \in Handlers, Persist(h) PROVE CallbacksOwnOrders'
    BY <1>8 DEF Persist, MarkOrderSettled
  <1>9. ASSUME NEW h \in Handlers, PersistError(h) PROVE CallbacksOwnOrders'
    BY <1>9 DEF PersistError, LastTry, GiveUp, MarkOrderSettled
  <1>10. ASSUME NEW h \in Handlers, Acknowledge(h) PROVE CallbacksOwnOrders'
    BY <1>10 DEF Acknowledge, Own
  <1>11. ASSUME NEW h \in Handlers, Unlink(h) PROVE CallbacksOwnOrders'
    BY <1>11 DEF Unlink, Own
  <1>12. ASSUME NEW h \in Handlers, JournalError(h) PROVE CallbacksOwnOrders'
    BY <1>12 DEF JournalError, Tmp
  <1>13. ASSUME NEW r \in Recons, List(r) PROVE CallbacksOwnOrders'
    BY <1>13 DEF List, Listed
  <1>14. ASSUME NEW r \in Recons, Scan(r) PROVE CallbacksOwnOrders'
    BY <1>14 DEF Scan, Due
  <1>15. ASSUME NEW r \in Recons, Finish(r) PROVE CallbacksOwnOrders'
    BY <1>15 DEF Finish, Rest
  <1>16. ASSUME NEW r \in Recons, Apply(r) PROVE CallbacksOwnOrders'
    BY <1>16 DEF Apply, MarkOrderSettled
  <1>17. ASSUME NEW r \in Recons, ApplyError(r) PROVE CallbacksOwnOrders'
    BY <1>17 DEF ApplyError, MarkOrderSettled
  <1>18. ASSUME NEW r \in Recons, Remove(r) PROVE CallbacksOwnOrders'
    BY <1>18 DEF Remove, NextFile
  <1>19. ASSUME NEW r \in Recons, Rewrite(r) PROVE CallbacksOwnOrders'
    BY <1>19 DEF Rewrite, StoreScratch, Scratch, Visible
  <1>20. ASSUME NEW r \in Recons, Refill(r) PROVE CallbacksOwnOrders'
    BY <1>20 DEF Refill, StoreScratch, Scratch, Visible
  <1>21. ASSUME NEW r \in Recons, Rename(r) PROVE CallbacksOwnOrders'
    BY <1>21 DEF Rename, Replace, NextFile, Abort, Rest, Scratch, Visible
  <1>22. ASSUME NEW r \in Recons, RewriteError(r) PROVE CallbacksOwnOrders'
    BY <1>22 DEF RewriteError, Replace, Abort, Rest, StoreScratch, Scratch, Visible
  <1>23. ASSUME NEW f \in Files, BackoffEnds(f) PROVE CallbacksOwnOrders'
    BY <1>23 DEF BackoffEnds
  <1>24. ASSUME NEW o \in Orders, WorkerTakes(o) PROVE CallbacksOwnOrders'
    BY <1>24 DEF WorkerTakes
  <1>25. ASSUME NEW r \in Scripts, ScriptKilled(r) PROVE CallbacksOwnOrders'
    BY <1>25 DEF ScriptKilled, Abort, Rest
  <1>26. ASSUME Outage PROVE CallbacksOwnOrders'
    BY <1>26 DEF Outage
  <1>27. ASSUME DbRecovers PROVE CallbacksOwnOrders'
    BY <1>27 DEF DbRecovers
  <1>28. ASSUME CrashApi PROVE CallbacksOwnOrders'
    BY <1>28 DEF CrashApi, InMemory
  <1> QED
    BY <1>1, <1>2, <1>3, <1>4, <1>5, <1>6, <1>7, <1>8, <1>9, <1>10, <1>11, <1>12, <1>13, <1>14, <1>15, <1>16, <1>17, <1>18, <1>19, <1>20, <1>21, <1>22, <1>23, <1>24, <1>25, <1>26, <1>27, <1>28
       DEF Next, Callback, Reconcile

LEMMA MainStep == IInv /\ Next => MainWhole' /\ \A p \in Orders : MainSafe(p) => MainSafe(p)'
  <1> SUFFICES ASSUME IInv, Next
      PROVE  MainWhole' /\ \A p \in Orders : MainSafe(p) => MainSafe(p)'
    OBVIOUS
  <1> USE NamesAssumption, FileNames
  <1> USE DEF IInv, TypeOK, CallbacksOwnOrders, CallbacksSafe, CallbackSafe, ReconsSafe, ReconSafe, MainWhole, MainSafe,
              Readable, Entries, Actors, Recons, Go, Store, Fault, tables, callbacks, runs
  <1>1. ASSUME NEW h \in Handlers, NEW o \in Orders, Settle(h, o) PROVE MainWhole' /\ \A p \in Orders : MainSafe(p) => MainSafe(p)'
    BY <1>1 DEF Settle
  <1>2. ASSUME NEW h \in Handlers, Look(h) PROVE MainWhole' /\ \A p \in Orders : MainSafe(p) => MainSafe(p)'
    BY <1>2 DEF Look, Own
  <1>3. ASSUME NEW h \in Handlers, Write(h) PROVE MainWhole' /\ \A p \in Orders : MainSafe(p) => MainSafe(p)'
    BY <1>3 DEF Write, Tmp
  <1>4. ASSUME NEW h \in Handlers, Fill(h) PROVE MainWhole' /\ \A p \in Orders : MainSafe(p) => MainSafe(p)'
    BY <1>4 DEF Fill, Tmp
  <1>5. ASSUME NEW h \in Handlers, Link(h) PROVE MainWhole' /\ \A p \in Orders : MainSafe(p) => MainSafe(p)'
    BY <1>5 DEF Link, Own, Tmp
  <1>6. ASSUME NEW h \in Handlers, Clean(h) PROVE MainWhole' /\ \A p \in Orders : MainSafe(p) => MainSafe(p)'
    BY <1>6 DEF Clean, Own, Tmp
  <1>7. ASSUME NEW h \in Handlers, Reread(h) PROVE MainWhole' /\ \A p \in Orders : MainSafe(p) => MainSafe(p)'
    BY <1>7 DEF Reread, Own
  <1>8. ASSUME NEW h \in Handlers, Persist(h) PROVE MainWhole' /\ \A p \in Orders : MainSafe(p) => MainSafe(p)'
    BY <1>8 DEF Persist, MarkOrderSettled
  <1>9. ASSUME NEW h \in Handlers, PersistError(h) PROVE MainWhole' /\ \A p \in Orders : MainSafe(p) => MainSafe(p)'
    BY <1>9 DEF PersistError, LastTry, GiveUp, MarkOrderSettled
  <1>10. ASSUME NEW h \in Handlers, Acknowledge(h) PROVE MainWhole' /\ \A p \in Orders : MainSafe(p) => MainSafe(p)'
    BY <1>10 DEF Acknowledge, Own
  <1>11. ASSUME NEW h \in Handlers, Unlink(h) PROVE MainWhole' /\ \A p \in Orders : MainSafe(p) => MainSafe(p)'
    <2>1. order[h] \in recorded /\ order[h] \in Orders /\ Own(h) = Main(order[h])
      BY <1>11, Touched DEF Unlink, Own
    <2>2. CASE Store(Own(h), "none")
      <3>1. \A p \in Orders : Main(p) = Own(h) => p \in recorded
        BY <2>1 DEF Main
      <3>2. \A p \in Orders : disk'[Main(p)] = IF Main(p) = Own(h) THEN "none" ELSE disk[Main(p)]
        BY <2>2
      <3>3. recorded' = recorded
        BY <1>11 DEF Unlink
      <3> QED
        BY <3>1, <3>2, <3>3
    <2>3. CASE UNCHANGED disk
      BY <1>11, <2>3 DEF Unlink
    <2> QED
      BY <1>11, <2>2, <2>3 DEF Unlink
  <1>12. ASSUME NEW h \in Handlers, JournalError(h) PROVE MainWhole' /\ \A p \in Orders : MainSafe(p) => MainSafe(p)'
    BY <1>12 DEF JournalError, Tmp
  <1>13. ASSUME NEW r \in Recons, List(r) PROVE MainWhole' /\ \A p \in Orders : MainSafe(p) => MainSafe(p)'
    BY <1>13 DEF List, Listed
  <1>14. ASSUME NEW r \in Recons, Scan(r) PROVE MainWhole' /\ \A p \in Orders : MainSafe(p) => MainSafe(p)'
    BY <1>14 DEF Scan, Due
  <1>15. ASSUME NEW r \in Recons, Finish(r) PROVE MainWhole' /\ \A p \in Orders : MainSafe(p) => MainSafe(p)'
    BY <1>15 DEF Finish, Rest
  <1>16. ASSUME NEW r \in Recons, Apply(r) PROVE MainWhole' /\ \A p \in Orders : MainSafe(p) => MainSafe(p)'
    BY <1>16 DEF Apply, MarkOrderSettled
  <1>17. ASSUME NEW r \in Recons, ApplyError(r) PROVE MainWhole' /\ \A p \in Orders : MainSafe(p) => MainSafe(p)'
    BY <1>17 DEF ApplyError, MarkOrderSettled
  <1>18. ASSUME NEW r \in Recons, Remove(r) PROVE MainWhole' /\ \A p \in Orders : MainSafe(p) => MainSafe(p)'
    BY <1>18 DEF Remove, NextFile
  <1>19. ASSUME NEW r \in Recons, Rewrite(r) PROVE MainWhole' /\ \A p \in Orders : MainSafe(p) => MainSafe(p)'
    BY <1>19 DEF Rewrite, StoreScratch, Scratch, Visible
  <1>20. ASSUME NEW r \in Recons, Refill(r) PROVE MainWhole' /\ \A p \in Orders : MainSafe(p) => MainSafe(p)'
    BY <1>20 DEF Refill, StoreScratch, Scratch, Visible
  <1>21. ASSUME NEW r \in Recons, Rename(r) PROVE MainWhole' /\ \A p \in Orders : MainSafe(p) => MainSafe(p)'
    BY <1>21 DEF Rename, Replace, NextFile, Abort, Rest, Scratch, Visible
  <1>22. ASSUME NEW r \in Recons, RewriteError(r) PROVE MainWhole' /\ \A p \in Orders : MainSafe(p) => MainSafe(p)'
    BY <1>22 DEF RewriteError, Replace, Abort, Rest, StoreScratch, Scratch, Visible
  <1>23. ASSUME NEW f \in Files, BackoffEnds(f) PROVE MainWhole' /\ \A p \in Orders : MainSafe(p) => MainSafe(p)'
    BY <1>23 DEF BackoffEnds
  <1>24. ASSUME NEW o \in Orders, WorkerTakes(o) PROVE MainWhole' /\ \A p \in Orders : MainSafe(p) => MainSafe(p)'
    BY <1>24 DEF WorkerTakes
  <1>25. ASSUME NEW r \in Scripts, ScriptKilled(r) PROVE MainWhole' /\ \A p \in Orders : MainSafe(p) => MainSafe(p)'
    BY <1>25 DEF ScriptKilled, Abort, Rest
  <1>26. ASSUME Outage PROVE MainWhole' /\ \A p \in Orders : MainSafe(p) => MainSafe(p)'
    BY <1>26 DEF Outage
  <1>27. ASSUME DbRecovers PROVE MainWhole' /\ \A p \in Orders : MainSafe(p) => MainSafe(p)'
    BY <1>27 DEF DbRecovers
  <1>28. ASSUME CrashApi PROVE MainWhole' /\ \A p \in Orders : MainSafe(p) => MainSafe(p)'
    BY <1>28 DEF CrashApi, InMemory
  <1> QED
    BY <1>1, <1>2, <1>3, <1>4, <1>5, <1>6, <1>7, <1>8, <1>9, <1>10, <1>11, <1>12, <1>13, <1>14, <1>15, <1>16, <1>17, <1>18, <1>19, <1>20, <1>21, <1>22, <1>23, <1>24, <1>25, <1>26, <1>27, <1>28
       DEF Next, Callback, Reconcile

LEMMA TriesStep == IInv /\ Next => TriesLeft'
  <1> SUFFICES ASSUME IInv, Next
      PROVE  TriesLeft'
    OBVIOUS
  <1> USE NamesAssumption, LimitsAssumption
  <1> USE DEF IInv, TypeOK, TriesLeft, Ended, HandlerStages, Actors, Recons,
              Go, tables, callbacks, runs
  <1>1. ASSUME NEW h \in Handlers, NEW o \in Orders, Settle(h, o) PROVE TriesLeft'
    BY <1>1 DEF Settle
  <1>2. ASSUME NEW h \in Handlers, Look(h) PROVE TriesLeft'
    BY <1>2 DEF Look, Own
  <1>3. ASSUME NEW h \in Handlers, Write(h) PROVE TriesLeft'
    BY <1>3 DEF Write, Tmp
  <1>4. ASSUME NEW h \in Handlers, Fill(h) PROVE TriesLeft'
    BY <1>4 DEF Fill, Tmp
  <1>5. ASSUME NEW h \in Handlers, Link(h) PROVE TriesLeft'
    BY <1>5 DEF Link, Own, Tmp
  <1>6. ASSUME NEW h \in Handlers, Clean(h) PROVE TriesLeft'
    BY <1>6 DEF Clean, Own, Tmp
  <1>7. ASSUME NEW h \in Handlers, Reread(h) PROVE TriesLeft'
    BY <1>7 DEF Reread, Own
  <1>8. ASSUME NEW h \in Handlers, Persist(h) PROVE TriesLeft'
    BY <1>8 DEF Persist, MarkOrderSettled
  <1>9. ASSUME NEW h \in Handlers, PersistError(h) PROVE TriesLeft'
    BY <1>9 DEF PersistError, LastTry, GiveUp
  <1>10. ASSUME NEW h \in Handlers, Acknowledge(h) PROVE TriesLeft'
    BY <1>10 DEF Acknowledge, Own
  <1>11. ASSUME NEW h \in Handlers, Unlink(h) PROVE TriesLeft'
    BY <1>11 DEF Unlink, Own
  <1>12. ASSUME NEW h \in Handlers, JournalError(h) PROVE TriesLeft'
    BY <1>12 DEF JournalError, Tmp
  <1>13. ASSUME NEW r \in Recons, List(r) PROVE TriesLeft'
    BY <1>13 DEF List, Listed
  <1>14. ASSUME NEW r \in Recons, Scan(r) PROVE TriesLeft'
    BY <1>14 DEF Scan, Due
  <1>15. ASSUME NEW r \in Recons, Finish(r) PROVE TriesLeft'
    BY <1>15 DEF Finish, Rest
  <1>16. ASSUME NEW r \in Recons, Apply(r) PROVE TriesLeft'
    BY <1>16 DEF Apply, MarkOrderSettled
  <1>17. ASSUME NEW r \in Recons, ApplyError(r) PROVE TriesLeft'
    BY <1>17 DEF ApplyError, MarkOrderSettled
  <1>18. ASSUME NEW r \in Recons, Remove(r) PROVE TriesLeft'
    BY <1>18 DEF Remove, NextFile
  <1>19. ASSUME NEW r \in Recons, Rewrite(r) PROVE TriesLeft'
    BY <1>19 DEF Rewrite, StoreScratch, Scratch, Visible
  <1>20. ASSUME NEW r \in Recons, Refill(r) PROVE TriesLeft'
    BY <1>20 DEF Refill, StoreScratch, Scratch, Visible
  <1>21. ASSUME NEW r \in Recons, Rename(r) PROVE TriesLeft'
    BY <1>21 DEF Rename, Replace, NextFile, Abort, Rest, Scratch, Visible
  <1>22. ASSUME NEW r \in Recons, RewriteError(r) PROVE TriesLeft'
    BY <1>22 DEF RewriteError, Replace, Abort, Rest, StoreScratch, Scratch, Visible
  <1>23. ASSUME NEW f \in Files, BackoffEnds(f) PROVE TriesLeft'
    BY <1>23 DEF BackoffEnds
  <1>24. ASSUME NEW o \in Orders, WorkerTakes(o) PROVE TriesLeft'
    BY <1>24 DEF WorkerTakes
  <1>25. ASSUME NEW r \in Scripts, ScriptKilled(r) PROVE TriesLeft'
    BY <1>25 DEF ScriptKilled, Abort, Rest
  <1>26. ASSUME Outage PROVE TriesLeft'
    BY <1>26 DEF Outage
  <1>27. ASSUME DbRecovers PROVE TriesLeft'
    BY <1>27 DEF DbRecovers
  <1>28. ASSUME CrashApi PROVE TriesLeft'
    BY <1>28 DEF CrashApi, InMemory
  <1> QED
    BY <1>1, <1>2, <1>3, <1>4, <1>5, <1>6, <1>7, <1>8, <1>9, <1>10, <1>11, <1>12, <1>13, <1>14, <1>15, <1>16, <1>17, <1>18, <1>19, <1>20, <1>21, <1>22, <1>23, <1>24, <1>25, <1>26, <1>27, <1>28
       DEF Next, Callback, Reconcile

-----------------------------------------------------------------------------
(* The tables. *)

LEMMA OwnedOrder ==
  ASSUME IInv, NEW h \in Handlers, pc[h] = "persist"
  PROVE  order[h] \in Orders
  BY DEF IInv, CallbacksOwnOrders, TypeOK

LEMMA AppliedOrder ==
  ASSUME IInv, NEW r \in Recons, pc[r] = "apply"
  PROVE  file[r][1] \in Orders
  BY FileNames DEF IInv, ReconsSafe, ReconSafe

\* What any step does to the tables.
TablesStep ==
    \/ UNCHANGED tables
    \/ \E o \in Orders : MarkOrderSettled(o)
    \/ \E o \in Orders : WorkerTakes(o)

LEMMA TablesLemma == IInv /\ Next => TablesStep
  <1> SUFFICES ASSUME IInv, Next PROVE TablesStep
    OBVIOUS
  <1> USE DEF TablesStep
  <1>1. ASSUME NEW h \in Handlers, NEW o \in Orders, Settle(h, o) PROVE TablesStep
    BY <1>1 DEF Settle, tables
  <1>2. ASSUME NEW h \in Handlers, Look(h) PROVE TablesStep
    BY <1>2 DEF Look, tables
  <1>3. ASSUME NEW h \in Handlers, Write(h) PROVE TablesStep
    BY <1>3 DEF Write, tables
  <1>4. ASSUME NEW h \in Handlers, Fill(h) PROVE TablesStep
    BY <1>4 DEF Fill, tables
  <1>5. ASSUME NEW h \in Handlers, Link(h) PROVE TablesStep
    BY <1>5 DEF Link, tables
  <1>6. ASSUME NEW h \in Handlers, Clean(h) PROVE TablesStep
    BY <1>6 DEF Clean, tables
  <1>7. ASSUME NEW h \in Handlers, Reread(h) PROVE TablesStep
    BY <1>7 DEF Reread, tables
  <1>8. ASSUME NEW h \in Handlers, Persist(h) PROVE TablesStep
    BY <1>8, OwnedOrder DEF Persist, Go
  <1>9. ASSUME NEW h \in Handlers, PersistError(h) PROVE TablesStep
    BY <1>9, OwnedOrder DEF PersistError, Go
  <1>10. ASSUME NEW h \in Handlers, Acknowledge(h) PROVE TablesStep
    BY <1>10 DEF Acknowledge, tables
  <1>11. ASSUME NEW h \in Handlers, Unlink(h) PROVE TablesStep
    BY <1>11 DEF Unlink, tables
  <1>12. ASSUME NEW h \in Handlers, JournalError(h) PROVE TablesStep
    BY <1>12 DEF JournalError, tables
  <1>13. ASSUME NEW r \in Recons, List(r) PROVE TablesStep
    BY <1>13 DEF List, tables
  <1>14. ASSUME NEW r \in Recons, Scan(r) PROVE TablesStep
    BY <1>14 DEF Scan, tables
  <1>15. ASSUME NEW r \in Recons, Finish(r) PROVE TablesStep
    BY <1>15 DEF Finish, tables
  <1>16. ASSUME NEW r \in Recons, Apply(r) PROVE TablesStep
    BY <1>16, AppliedOrder DEF Apply, Go
  <1>17. ASSUME NEW r \in Recons, ApplyError(r) PROVE TablesStep
    BY <1>17, AppliedOrder DEF ApplyError, Go
  <1>18. ASSUME NEW r \in Recons, Remove(r) PROVE TablesStep
    BY <1>18 DEF Remove, tables
  <1>19. ASSUME NEW r \in Recons, Rewrite(r) PROVE TablesStep
    BY <1>19 DEF Rewrite, tables
  <1>20. ASSUME NEW r \in Recons, Refill(r) PROVE TablesStep
    BY <1>20 DEF Refill, tables
  <1>21. ASSUME NEW r \in Recons, Rename(r) PROVE TablesStep
    BY <1>21 DEF Rename, Replace, tables
  <1>22. ASSUME NEW r \in Recons, RewriteError(r) PROVE TablesStep
    BY <1>22 DEF RewriteError, Replace, tables
  <1>23. ASSUME NEW f \in Files, BackoffEnds(f) PROVE TablesStep
    BY <1>23 DEF BackoffEnds, tables
  <1>24. ASSUME NEW o \in Orders, WorkerTakes(o) PROVE TablesStep
    BY <1>24 DEF WorkerTakes
  <1>25. ASSUME NEW r \in Scripts, ScriptKilled(r) PROVE TablesStep
    BY <1>25 DEF ScriptKilled, tables
  <1>26. ASSUME Outage PROVE TablesStep
    BY <1>26 DEF Outage, tables
  <1>27. ASSUME DbRecovers PROVE TablesStep
    BY <1>27 DEF DbRecovers, tables
  <1>28. ASSUME CrashApi PROVE TablesStep
    BY <1>28 DEF CrashApi, tables
  <1> QED
    BY <1>1, <1>2, <1>3, <1>4, <1>5, <1>6, <1>7, <1>8, <1>9, <1>10, <1>11, <1>12, <1>13, <1>14, <1>15, <1>16, <1>17, <1>18, <1>19, <1>20, <1>21, <1>22, <1>23, <1>24, <1>25, <1>26, <1>27, <1>28
       DEF Next, Callback, Reconcile

\* A recorded settlement stays recorded.
LEMMA RecordedStep == IInv /\ Next => recorded \subseteq recorded'
  BY TablesLemma DEF TablesStep, MarkOrderSettled, WorkerTakes, tables

\* The job leaves awaiting_settlement with the record of the settlement.
LEMMA QueuedStep == IInv /\ Next => JobFollows' /\ QueuedOnceStep
  <1> SUFFICES ASSUME IInv, Next PROVE JobFollows' /\ QueuedOnceStep
    OBVIOUS
  <1> USE DEF IInv, JobFollows, QueuedOnceStep, TypeOK
  <1>1. CASE UNCHANGED tables
    BY <1>1 DEF tables
  <1>2. ASSUME NEW o \in Orders, MarkOrderSettled(o) PROVE JobFollows' /\ QueuedOnceStep
    BY <1>2 DEF MarkOrderSettled
  <1>3. ASSUME NEW o \in Orders, WorkerTakes(o) PROVE JobFollows' /\ QueuedOnceStep
    BY <1>3 DEF WorkerTakes
  <1> QED
    BY <1>1, <1>2, <1>3, TablesLemma DEF TablesStep

\* What a step of one callback leaves alone.
CallbackFootprint(h) ==
    /\ UNCHANGED runs
    /\ \A a \in Actors : a # h => pc'[a] = pc[a]
    /\ \A g \in Handlers : g # h =>
          order'[g] = order[g] /\ (g \in journaled' <=> g \in journaled)
    /\ pc[h] # "idle" => order'[h] = order[h]
    /\ \A f \in Files : disk'[f] # disk[f] => pc[h] # "idle" /\ f \in {Tmp(h), Own(h)}

LEMMA CallbackFrame ==
  ASSUME IInv, NEW h \in Handlers,
         (\E o \in Orders : Settle(h, o)) \/ Callback(h) \/ JournalError(h)
  PROVE  CallbackFootprint(h)
  <1> USE NamesAssumption
  <1> USE DEF CallbackFootprint, IInv, TypeOK, Actors, Recons, Go, Store, tables, callbacks, runs
  <1>1. ASSUME NEW o \in Orders, Settle(h, o) PROVE CallbackFootprint(h)
    BY <1>1 DEF Settle
  <1>2. ASSUME Look(h) PROVE CallbackFootprint(h)
    BY <1>2 DEF Look
  <1>3. ASSUME Write(h) PROVE CallbackFootprint(h)
    BY <1>3 DEF Write
  <1>4. ASSUME Fill(h) PROVE CallbackFootprint(h)
    BY <1>4 DEF Fill
  <1>5. ASSUME Link(h) PROVE CallbackFootprint(h)
    BY <1>5 DEF Link
  <1>6. ASSUME Clean(h) PROVE CallbackFootprint(h)
    BY <1>6 DEF Clean
  <1>7. ASSUME Reread(h) PROVE CallbackFootprint(h)
    BY <1>7 DEF Reread
  <1>8. ASSUME Persist(h) PROVE CallbackFootprint(h)
    BY <1>8 DEF Persist
  <1>9. ASSUME PersistError(h) PROVE CallbackFootprint(h)
    BY <1>9 DEF PersistError
  <1>10. ASSUME Acknowledge(h) PROVE CallbackFootprint(h)
    BY <1>10 DEF Acknowledge
  <1>11. ASSUME Unlink(h) PROVE CallbackFootprint(h)
    BY <1>11 DEF Unlink
  <1>12. ASSUME JournalError(h) PROVE CallbackFootprint(h)
    BY <1>12 DEF JournalError
  <1> HIDE DEF CallbackFootprint, IInv, TypeOK, Actors, Recons, Go, Store, tables, callbacks, runs
  <1> QED
    BY <1>1, <1>2, <1>3, <1>4, <1>5, <1>6, <1>7, <1>8, <1>9, <1>10, <1>11, <1>12 DEF Callback

\* What a step of one reconciler leaves alone.
ReconFootprint(r) ==
    /\ UNCHANGED callbacks
    /\ \A a \in Actors : a # r => pc'[a] = pc[a]
    /\ \A q \in Recons : q # r => file'[q] = file[q]
    /\ file'[r] # file[r] => file'[r] = NoFile \/ (file'[r] \in Files /\ Readable(file'[r]))
    /\ \A f \in Files : disk'[f] # disk[f] => file[r] \in Files /\ f \in {file[r], Scratch(r)}

LEMMA ReconFrame ==
  ASSUME IInv, NEW r \in Recons,
         Reconcile(r) \/ RewriteError(r) \/ (r \in Scripts /\ ScriptKilled(r))
  PROVE  ReconFootprint(r)
  <1> USE NamesAssumption
  <1> USE DEF ReconFootprint, IInv, TypeOK, ReconsSafe, ReconSafe, Actors, Recons, Go, Store, tables, callbacks, runs, NextFile, Abort
  <1>1. ASSUME List(r) PROVE ReconFootprint(r)
    BY <1>1 DEF List
  <1>2. ASSUME Scan(r) PROVE ReconFootprint(r)
    BY <1>2 DEF Scan, Due, Readable, Entries
  <1>3. ASSUME Finish(r) PROVE ReconFootprint(r)
    BY <1>3 DEF Finish
  <1>4. ASSUME Apply(r) PROVE ReconFootprint(r)
    BY <1>4 DEF Apply
  <1>5. ASSUME ApplyError(r) PROVE ReconFootprint(r)
    BY <1>5 DEF ApplyError
  <1>6. ASSUME Remove(r) PROVE ReconFootprint(r)
    BY <1>6 DEF Remove
  <1>7. ASSUME Rewrite(r) PROVE ReconFootprint(r)
    BY <1>7, Touched DEF Rewrite, StoreScratch
  <1>8. ASSUME Refill(r) PROVE ReconFootprint(r)
    BY <1>8, Touched DEF Refill, StoreScratch
  <1>9. ASSUME Rename(r) PROVE ReconFootprint(r)
    BY <1>9, Touched DEF Rename, Replace
  <1>10. ASSUME RewriteError(r) PROVE ReconFootprint(r)
    BY <1>10, Touched DEF RewriteError, Replace, StoreScratch
  <1>11. ASSUME ScriptKilled(r) PROVE ReconFootprint(r)
    BY <1>11 DEF ScriptKilled
  <1> HIDE DEF ReconFootprint, IInv, TypeOK, ReconsSafe, ReconSafe, Actors, Recons, Go, Store, tables, callbacks, runs, NextFile, Abort
  <1> QED
    BY <1>1, <1>2, <1>3, <1>4, <1>5, <1>6, <1>7, <1>8, <1>9, <1>10, <1>11 DEF Reconcile

\* The three kinds of steps.
CallbackActs(h) == (\E o \in Orders : Settle(h, o)) \/ Callback(h) \/ JournalError(h)
ReconActs(r) == Reconcile(r) \/ RewriteError(r) \/ (r \in Scripts /\ ScriptKilled(r))
WorldActs ==
    \/ \E f \in Files : BackoffEnds(f)
    \/ \E o \in Orders : WorkerTakes(o)
    \/ Outage \/ DbRecovers

LEMMA NextCases ==
  ASSUME Next
  PROVE  (\E h \in Handlers : CallbackActs(h)) \/ (\E r \in Recons : ReconActs(r)) \/ WorldActs \/ CrashApi
  BY DEF Next, CallbackActs, ReconActs, WorldActs, Recons

LEMMA Footprints ==
  ASSUME IInv
  PROVE  /\ \A h \in Handlers : CallbackActs(h) => CallbackFootprint(h)
         /\ \A r \in Recons : ReconActs(r) => ReconFootprint(r)
  BY CallbackFrame, ReconFrame DEF CallbackActs, ReconActs

\* Time, workers and outages move no process, and no file but to make it due.
LEMMA WorldFootprint ==
  ASSUME IInv, WorldActs
  PROVE  /\ UNCHANGED <<pc, file, order, journaled>>
         /\ \A f \in Files : disk'[f] # disk[f] => Readable(f) /\ Readable(f)'
  BY DEF IInv, TypeOK, WorldActs, BackoffEnds, WorkerTakes, Outage, DbRecovers, Store,
         Readable, Entries, callbacks, runs

\* A crash leaves the disk alone; a process keeps its place or ends.
LEMMA CrashFootprint ==
  ASSUME IInv, CrashApi
  PROVE  /\ UNCHANGED <<disk, recorded, order, journaled>>
         /\ \A h \in Handlers :
               \/ pc'[h] = pc[h]
               \/ pc'[h] = "lost"
               \/ pc'[h] = "done" /\ pc[h] \notin {"idle", "gap", "lost"} /\ ~InMemory(h)
         /\ \A r \in Recons :
               \/ pc'[r] = pc[r] /\ file'[r] = file[r]
               \/ pc'[r] = "idle" /\ file'[r] = NoFile
  <1> USE NamesAssumption
  <1>1. UNCHANGED <<disk, recorded, order, journaled>>
    BY DEF CrashApi, callbacks, tables
  <1>2. \A h \in Handlers :
               \/ pc'[h] = pc[h]
               \/ pc'[h] = "lost"
               \/ pc'[h] = "done" /\ pc[h] \notin {"idle", "gap", "lost"} /\ ~InMemory(h)
    BY DEF CrashApi, Ended, Actors
  <1>3. \A r \in Recons :
               \/ pc'[r] = pc[r] /\ file'[r] = file[r]
               \/ pc'[r] = "idle" /\ file'[r] = NoFile
    BY DEF CrashApi, Actors, IInv, TypeOK
  <1> QED
    BY <1>1, <1>2, <1>3

-----------------------------------------------------------------------------
(* The conjuncts of the invariant that only some actors disturb. *)

LEMMA EarlyStep == IInv /\ Next => EarlyUnseen'
  <1> SUFFICES ASSUME IInv, Next, NEW g \in Handlers, NEW p \in Orders, pc'[g] \in Early
               PROVE  ~Readable(<<p, g>>)' /\ \A r \in Recons : file'[r] # <<p, g>>
    BY DEF EarlyUnseen, Unseen
  <1> DEFINE f0 == <<p, g>>
  <1> USE NamesAssumption
  <1>1. f0 \in Files /\ f0 # NoFile /\ g \in Actors
    BY FileNames, FilesAssumption DEF Actors
  <1>2. ASSUME pc[g] \in Early
        PROVE  ~Readable(f0) /\ disk[f0] \notin Entries /\ \A r \in Recons : file[r] # f0
    BY <1>2 DEF IInv, EarlyUnseen, Unseen, Readable
  <1>3. ASSUME NEW h \in Handlers, CallbackActs(h), h # g
        PROVE  ~Readable(f0)' /\ \A r \in Recons : file'[r] # f0
    <2>1. pc'[g] = pc[g] /\ UNCHANGED runs
      BY <1>1, <1>3, Footprints DEF CallbackFootprint
    <2>2. disk'[f0] = disk[f0]
      <3>1. pc[h] # "idle" => f0 # Tmp(h) /\ f0 # Own(h)
        <4>1. ASSUME pc[h] # "idle" PROVE order[h] \in Orders /\ h \in Actors
          BY <4>1, Touched DEF Actors
        <4>2. h # g
          BY <1>3
        <4> QED
          BY <4>1, <4>2, Apart DEF Tmp, Own
      <3> QED
        BY <3>1, <1>1, <1>3, Footprints DEF CallbackFootprint
    <2> QED
      BY <2>1, <2>2, <1>2 DEF Readable, runs
  <1>4. ASSUME CallbackActs(g)
        PROVE  ~Readable(f0)' /\ \A r \in Recons : file'[r] # f0
    <2>1. UNCHANGED runs
      BY <1>4, Footprints DEF CallbackFootprint
    <2>2. pc[g] \in Early /\ disk'[f0] \in {disk[f0], "torn"}
      <3> USE <1>1 DEF CallbackActs, Callback, Early, Go, IInv, TypeOK
      <3>1. CASE \E o \in Orders : Settle(g, o)
        BY <3>1 DEF Settle
      <3>2. CASE Callback(g)
        BY <1>4, <3>2 DEF Look, Write, Fill, Link, Clean, Reread, Persist, PersistError,
              Acknowledge, Unlink, GiveUp, Store
      <3>3. CASE JournalError(g)
        BY <1>4, <3>3 DEF JournalError
      <3> QED
        BY <1>4, <3>1, <3>2, <3>3
    <2> QED
      BY <2>1, <2>2, <1>2 DEF Readable, Entries, runs
  <1>5. ASSUME NEW r \in Recons, ReconActs(r)
        PROVE  ~Readable(f0)' /\ \A q \in Recons : file'[q] # f0
    <2>1. pc'[g] = pc[g] /\ r \in Actors
      BY <1>1, <1>5, Footprints DEF ReconFootprint, Actors
    <2>2. disk'[f0] = disk[f0]
      <3>1. file[r] \in Files => f0 # Scratch(r)
        BY <2>1, FileNames DEF Scratch, Actors
      <3> QED
        BY <1>1, <1>2, <1>5, <2>1, <3>1, Footprints DEF ReconFootprint
    <2>3. \A q \in Recons : file'[q] # f0
      <3>1. \A q \in Recons : q # r => file'[q] = file[q]
        BY <1>5, Footprints DEF ReconFootprint
      <3>2. file'[r] # file[r] => file'[r] = NoFile \/ Readable(file'[r])
        BY <1>5, Footprints DEF ReconFootprint
      <3> QED
        BY <1>1, <1>2, <2>1, <3>1, <3>2
    <2> QED
      BY <1>2, <2>1, <2>2, <2>3 DEF Readable
  <1>6. ASSUME WorldActs
        PROVE  ~Readable(f0)' /\ \A q \in Recons : file'[q] # f0
    BY <1>1, <1>2, <1>6, WorldFootprint DEF Readable
  <1>7. ASSUME CrashApi
        PROVE  ~Readable(f0)' /\ \A q \in Recons : file'[q] # f0
    <2>1. pc'[g] = pc[g]
      BY <1>7, CrashFootprint DEF Early
    <2> QED
      BY <1>1, <1>2, <1>7, <2>1, CrashFootprint DEF Readable
  <1> QED
    BY <1>3, <1>4, <1>5, <1>6, <1>7, NextCases

\* A reconciler that does not move keeps what it knows.
LEMMA ReconKept ==
  ASSUME IInv, Next, NEW q \in Recons, pc'[q] = pc[q], file'[q] = file[q]
  PROVE  ReconSafe(q)'
  <1>1. ReconSafe(q)
    BY DEF IInv, ReconsSafe
  <1>2. file[q] \in Files => file[q][1] \in Orders
    BY FileNames
  <1>3. recorded \subseteq recorded' /\ \A p \in Orders : MainSafe(p) => MainSafe(p)'
    BY RecordedStep, MainStep
  <1> QED
    BY <1>1, <1>2, <1>3 DEF ReconSafe, Main

LEMMA ReconStep == IInv /\ Next => ReconsSafe'
  <1> SUFFICES ASSUME IInv, Next, NEW q \in Recons PROVE ReconSafe(q)'
    BY DEF ReconsSafe
  <1> USE NamesAssumption
  <1>1. ASSUME NEW h \in Handlers, CallbackActs(h) PROVE ReconSafe(q)'
    <2>1. pc'[q] = pc[q] /\ file'[q] = file[q]
      BY <1>1, Footprints DEF CallbackFootprint, Actors, runs
    <2> QED
      BY <2>1, ReconKept
  <1>2. ASSUME NEW r \in Recons, ReconActs(r), r # q PROVE ReconSafe(q)'
    <2>1. pc'[q] = pc[q] /\ file'[q] = file[q]
      BY <1>2, Footprints DEF ReconFootprint, Actors
    <2> QED
      BY <2>1, ReconKept
  <1>3. WorldActs => ReconSafe(q)'
    BY WorldFootprint, ReconKept
  <1>4. CrashApi => ReconSafe(q)'
    <2>1. ASSUME pc'[q] = "idle" PROVE ReconSafe(q)'
      BY <2>1 DEF ReconSafe, ReconStages
    <2> QED
      BY <2>1, CrashFootprint, ReconKept
  <1>5. ASSUME ReconActs(q) PROVE ReconSafe(q)'
    <2>1. ReconSafe(q) /\ pc'[q] \in ReconStages
      BY <1>5, TypeStep DEF IInv, ReconsSafe, ReconActs, Reconcile, List, Scan, Finish, Apply,
            ApplyError, Remove, Rewrite, Refill, Rename, Replace, RewriteError, ScriptKilled,
            NextFile, Abort, Rest, Go, ReconStages, TypeOK, Actors
    <2>2. recorded \subseteq recorded' /\ \A p \in Orders : MainSafe(p) => MainSafe(p)'
      BY RecordedStep, MainStep
    <2>3. \A f \in Files : f[1] \in Orders
      BY FileNames
    <2>4. CASE pc'[q] \in {"idle", "scan", "done"}
      BY <2>1, <2>4 DEF ReconSafe
    <2>5. CASE Scan(q) /\ pc'[q] = "apply"
      <3>1. PICK f \in todo[q] : (Due(q, f) /\ file'[q] = f) \/ pc'[q] = "scan"
        <4>1. q \in DOMAIN pc /\ q \in DOMAIN file
          BY DEF IInv, TypeOK, Actors
        <4> QED
          BY <2>5, <4>1 DEF Scan, Go
      <3>2. f \in Files /\ Due(q, f) /\ file'[q] = f
        BY <2>5, <3>1 DEF IInv, TypeOK
      <3>3. Readable(f) /\ UNCHANGED <<disk, recorded>>
        BY <2>5, <3>2 DEF Scan, Due, Readable, Entries, tables
      <3> QED
        BY <2>5, <3>2, <3>3 DEF ReconSafe, MainSafe, Readable, ReconStages
    <2>6. CASE Apply(q)
      <3>1. file'[q] = file[q] /\ pc[q] = "apply" /\ pc'[q] = "remove" /\ file[q][1] \in recorded'
        BY <2>6 DEF Apply, Go, runs, IInv, TypeOK, Actors, MarkOrderSettled
      <3> QED
        BY <2>1, <2>2, <2>3, <3>1 DEF ReconSafe, MainSafe, ReconStages
    <2>7. CASE (ApplyError(q) \/ Remove(q) \/ Rewrite(q) \/ Refill(q)) /\ pc'[q] # "scan"
      <3>1. /\ file'[q] = file[q] /\ pc'[q] \in {"rewrite", "refill", "rename"}
            /\ pc[q] \in {"apply", "remove", "rewrite", "refill"}
        BY <2>7 DEF ApplyError, Remove, Rewrite, Refill, NextFile, Go, runs, IInv, TypeOK, Actors
      <3> QED
        BY <2>1, <2>2, <2>3, <3>1 DEF ReconSafe, ReconStages
    <2>8. \/ pc'[q] \in {"idle", "scan", "done"}
          \/ Scan(q) /\ pc'[q] = "apply"
          \/ Apply(q)
          \/ (ApplyError(q) \/ Remove(q) \/ Rewrite(q) \/ Refill(q)) /\ pc'[q] # "scan"
      BY <1>5 DEF ReconActs, Reconcile, List, Scan, Finish, Rename, Replace, RewriteError, ScriptKilled,
            NextFile, Abort, Rest, Go, IInv, TypeOK, Actors
    <2> QED
      BY <2>4, <2>5, <2>6, <2>7, <2>8
  <1> QED
    BY <1>1, <1>2, <1>3, <1>4, <1>5, NextCases

\* The temporary file of a callback that is about to link it, or that died
\* there, is only taken away by others once its settlement is recorded.
LEMMA TmpStep ==
  ASSUME IInv, Next, NEW g \in Handlers, pc[g] # "idle", ~CallbackActs(g),
         order[g] \in recorded \/ Readable(Tmp(g))
  PROVE  (order[g] \in recorded \/ Readable(Tmp(g)))'
  <1> USE NamesAssumption
  <1>1. order[g] \in Orders /\ Tmp(g) \in Files /\ g \in Actors /\ recorded \subseteq recorded'
    BY Touched, RecordedStep DEF Actors
  <1> SUFFICES ASSUME Readable(Tmp(g)), order[g] \notin recorded'
               PROVE  order'[g] = order[g] /\ disk'[Tmp(g)] \in Entries
    <2>1. CASE order[g] \in recorded' /\ order'[g] = order[g]
      BY <2>1
    <2>2. order'[g] = order[g]
      BY NextCases, Footprints, WorldFootprint, CrashFootprint
         DEF CallbackFootprint, ReconFootprint, callbacks
    <2> QED
      BY <1>1, <2>1, <2>2 DEF Tmp, Readable
  <1>2. disk[Tmp(g)] \in Entries
    BY DEF Readable
  <1>3. ASSUME NEW h \in Handlers, CallbackActs(h)
        PROVE  order'[g] = order[g] /\ disk'[Tmp(g)] \in Entries
    <2>1. h # g
      BY <1>3
    <2>2. ASSUME pc[h] # "idle" PROVE Tmp(g) # Tmp(h) /\ Tmp(g) # Own(h)
      <3>1. order[h] \in Orders
        BY <2>2, Touched
      <3> QED
        <4>1. <<order[g], g>> # <<order[h], h>>
          BY <2>1
        <4>2. <<order[g], g>> # Main(order[h])
          BY <1>1 DEF Main
        <4> QED
          BY <4>1, <4>2 DEF Tmp, Own
    <2> QED
      BY <1>1, <1>2, <1>3, <2>1, <2>2, Footprints DEF CallbackFootprint
  <1>4. ASSUME NEW r \in Recons, ReconActs(r)
        PROVE  order'[g] = order[g] /\ disk'[Tmp(g)] \in Entries
    <2>1. order' = order
      BY <1>4, Footprints DEF ReconFootprint, callbacks
    <2>2. ASSUME file[r] # Tmp(g) PROVE disk'[Tmp(g)] = disk[Tmp(g)]
      <3>1. file[r] \in Files => Scratch(r) # Tmp(g)
        BY FileNames DEF Scratch, Tmp
      <3> QED
        BY <1>1, <1>4, <2>2, <3>1, Footprints DEF ReconFootprint
    <2>3. ASSUME file[r] = Tmp(g) PROVE disk'[Tmp(g)] \in Entries
      <3>1. Tmp(g)[1] = order[g] /\ ~Visible(r) /\ Scratch(r) # Tmp(g)
        <4>1. <<order[g], g>>[1] = order[g] /\ <<order[g], g>> # Main(order[g])
          BY <1>1 DEF Main
        <4> QED
          BY <2>3, <4>1, <1>1 DEF Visible, Scratch, Tmp
      <3>2. ~(pc[r] = "remove")
        BY <1>1, <2>3, <3>1 DEF IInv, ReconsSafe, ReconSafe
      <3>3. disk' = disk \/ disk' = [f \in Files |-> IF f = file[r] THEN "later" ELSE disk[f]]
        BY <1>4, <3>1, <3>2
           DEF ReconActs, Reconcile, List, Scan, Finish, Apply, ApplyError, Remove, Rewrite,
               Refill, Rename, Replace, RewriteError, ScriptKilled, NextFile, StoreScratch, Go
      <3> QED
        BY <1>1, <1>2, <2>3, <3>3 DEF Entries
    <2> QED
      BY <1>2, <2>1, <2>2, <2>3
  <1>5. WorldActs => order'[g] = order[g] /\ disk'[Tmp(g)] \in Entries
    BY <1>1, <1>2, WorldFootprint DEF IInv, TypeOK, WorldActs, BackoffEnds, WorkerTakes, Outage,
       DbRecovers, Store, Entries, callbacks, runs
  <1>6. CrashApi => order'[g] = order[g] /\ disk'[Tmp(g)] \in Entries
    BY <1>2, CrashFootprint
  <1> QED
    BY <1>3, <1>4, <1>5, <1>6, NextCases

LEMMA CallbackStep == IInv /\ Next => CallbacksSafe'
  <1> SUFFICES ASSUME IInv, Next, NEW g \in Handlers PROVE CallbackSafe(g)'
    BY DEF CallbacksSafe
  <1> USE NamesAssumption
  <1>1. CallbackSafe(g) /\ g \in Actors /\ (pc[g] # "idle" => order[g] \in Orders)
    BY Touched DEF IInv, CallbacksSafe, Actors
  <1>2. /\ recorded \subseteq recorded'
        /\ \A p \in Orders : p \in recorded \/ Readable(Main(p)) =>
                               p \in recorded' \/ disk'[Main(p)] \in Entries
    BY RecordedStep, MainStep DEF MainSafe, Readable
  <1>3. ASSUME ~CallbackActs(g), pc'[g] = pc[g], order'[g] = order[g],
               g \in journaled' <=> g \in journaled
        PROVE  CallbackSafe(g)'
    <2>1. ASSUME pc[g] # "idle", MainSafe(order[g]) PROVE MainSafe(order[g])'
      BY <1>1, <1>2, <1>3, <2>1 DEF MainSafe, Readable
    <2>2. CASE pc[g] \in {"link", "done"}
      <3>1. order[g] \in recorded \/ Readable(Tmp(g)) => (order[g] \in recorded \/ Readable(Tmp(g)))'
        BY <1>3, <2>2, TmpStep
      <3>2. order[g] \in recorded => MainSafe(order[g])
        BY DEF MainSafe
      <3> QED
        BY <1>1, <1>2, <1>3, <2>1, <2>2, <3>1, <3>2 DEF CallbackSafe, MainSafe
    <2>3. CASE pc[g] \notin {"link", "done"}
      BY <1>1, <1>2, <1>3, <2>1, <2>3 DEF CallbackSafe
    <2> QED
      BY <2>2, <2>3
  <1>4. ASSUME NEW h \in Handlers, CallbackActs(h), ~CallbackActs(g) PROVE CallbackSafe(g)'
    BY <1>1, <1>3, <1>4, Footprints DEF CallbackFootprint
  <1>5. ASSUME NEW r \in Recons, ReconActs(r), ~CallbackActs(g) PROVE CallbackSafe(g)'
    <2>1. r # g
      OBVIOUS
    <2> QED
      BY <1>1, <1>3, <1>5, <2>1, Footprints DEF ReconFootprint, callbacks
  <1>6. WorldActs /\ ~CallbackActs(g) => CallbackSafe(g)'
    BY <1>3, WorldFootprint
  <1>7. CrashApi /\ ~CallbackActs(g) => CallbackSafe(g)'
    <2> SUFFICES ASSUME CrashApi, ~CallbackActs(g) PROVE CallbackSafe(g)'
      OBVIOUS
    <2>1. CASE pc'[g] = pc[g]
      BY <1>3, <2>1, CrashFootprint
    <2>2. CASE pc'[g] = "lost"
      BY <2>2 DEF CallbackSafe
    <2>3. CASE pc'[g] = "done" /\ pc[g] \notin {"idle", "gap", "lost"} /\ ~InMemory(g)
      <3>1. MainSafe(order[g]) \/ Readable(Tmp(g))
        BY <1>1, <2>3 DEF CallbackSafe, MainSafe, InMemory, IInv, CallbacksOwnOrders, HandlerStages, Ended
      <3> QED
        BY <2>3, <3>1, CrashFootprint DEF CallbackSafe, MainSafe, Readable, Tmp
    <2> QED
      BY <2>1, <2>2, <2>3, CrashFootprint
  <1>8. ASSUME CallbackActs(g) PROVE CallbackSafe(g)'
    <2>1. ASSUME NEW o \in Orders, Settle(g, o) PROVE CallbackSafe(g)'
      BY <1>1, <2>1 DEF Settle, Go, CallbackSafe, IInv, TypeOK
    <2> SUFFICES ASSUME Callback(g) \/ JournalError(g) PROVE CallbackSafe(g)'
      BY <1>8, <2>1 DEF CallbackActs
    <2>2. pc[g] # "idle" /\ order' = order
      BY DEF Callback, JournalError, Look, Write, Fill, Link, Clean, Reread, Persist, PersistError,
         Acknowledge, Unlink, Go, callbacks
    <2>3. order[g] \in Orders /\ Own(g) = Main(order[g]) /\ Own(g) \in Files /\ Tmp(g) \in Files
      BY <2>2, Touched DEF Own
    <2>4. MainSafe(order[g]) => MainSafe(order[g])'
      BY <1>2, <2>2, <2>3 DEF MainSafe, Readable
    <2>5. order[g] \in recorded => order'[g] \in recorded'
      BY <1>2, <2>2
    <2> USE <1>1 DEF Go, IInv, TypeOK
    <2>6. CASE Look(g)
      BY <2>2, <2>3, <2>4, <2>6 DEF Look, MainSafe, CallbackSafe
    <2>7. CASE Write(g)
      BY <2>7 DEF Write, CallbackSafe, callbacks
    <2>8. CASE Fill(g)
      <3>1. pc[g] = "fill" /\ pc'[g] = "link" /\ disk'[Tmp(g)] = "now" /\ journaled' = journaled
        BY <2>2, <2>3, <2>8 DEF Fill, Store, callbacks
      <3> QED
        BY <2>2, <3>1 DEF CallbackSafe, Readable, Entries, Tmp
    <2>9. CASE Link(g)
      <3>1. pc[g] = "link" /\ journaled' = journaled /\ g \notin journaled
        BY <2>9 DEF Link, CallbackSafe, callbacks
      <3>2. CASE pc'[g] = "clean"
        <4>1. disk'[Main(order[g])] \in Entries
          BY <2>3, <2>9, <3>1, <3>2 DEF Link, Store, Readable
        <4> QED
          BY <2>2, <3>1, <3>2, <4>1 DEF CallbackSafe, MainSafe, Readable
      <3>3. CASE pc'[g] = "reread"
        <4>1. disk[Main(order[g])] \notin {"none", "torn"}
          BY <2>3, <2>9, <3>1, <3>3 DEF Link, MainWhole
        <4>2. MainSafe(order[g])
          BY <2>3, <4>1 DEF MainSafe, Readable
        <4> QED
          BY <2>4, <3>1, <3>3, <4>2 DEF CallbackSafe
      <3>4. CASE pc'[g] = "persist"
        BY <3>1, <3>4 DEF CallbackSafe
      <3> QED
        BY <2>9, <3>1, <3>2, <3>3, <3>4 DEF Link
    <2>10. CASE Clean(g)
      <3>1. pc[g] = "clean" /\ pc'[g] = "persist" /\ MainSafe(order[g])
        BY <2>10 DEF Clean, CallbackSafe
      <3> QED
        BY <2>4, <3>1 DEF CallbackSafe
    <2>11. CASE Reread(g)
      <3>1. pc[g] = "reread" /\ pc'[g] = "persist" /\ MainSafe(order[g])
        BY <2>11 DEF Reread, CallbackSafe
      <3> QED
        BY <2>4, <3>1 DEF CallbackSafe
    <2>12. CASE Persist(g)
      <3>1. pc[g] = "persist" /\ order[g] \in recorded' /\ pc'[g] \in {"ack", "done"}
        BY <2>12 DEF Persist, MarkOrderSettled
      <3> QED
        BY <2>2, <3>1 DEF CallbackSafe, MainSafe
    <2>13. CASE PersistError(g)
      <3>1. /\ pc[g] = "persist" /\ journaled' = journaled
            /\ \/ pc'[g] \in {"persist", "gap"}
               \/ pc'[g] = "done" /\ g \in journaled
        BY <2>13 DEF PersistError, GiveUp
      <3> QED
        BY <2>4, <3>1 DEF CallbackSafe
    <2>14. CASE Acknowledge(g) \/ Unlink(g)
      <3>1. order[g] \in recorded /\ pc'[g] \in {"unlink", "done"}
        BY <2>14 DEF Acknowledge, Unlink, CallbackSafe
      <3> QED
        BY <2>2, <2>5, <3>1 DEF CallbackSafe, MainSafe
    <2>15. CASE JournalError(g)
      <3>1. pc'[g] = "persist" /\ g \notin journaled'
        BY <2>15 DEF JournalError, CallbackSafe, callbacks
      <3> QED
        BY <3>1 DEF CallbackSafe
    <2> QED
      BY <2>6, <2>7, <2>8, <2>9, <2>10, <2>11, <2>12, <2>13, <2>14, <2>15 DEF Callback
  <1> QED
    BY <1>4, <1>5, <1>6, <1>7, <1>8, NextCases

-----------------------------------------------------------------------------
(* A proof on the disk stays there. *)

\* A complete file stays until its settlement is recorded or the entry of its
\* order is complete, but for that of a callback whose own link fails.
LEMMA FileStep ==
  ASSUME IInv, Next, NEW f \in Files, Readable(f), ~MainSafe(f[1]), ~MainSafe(f[1])'
  PROVE  \/ Readable(f)'
         \/ \E h \in Handlers : f = Tmp(h) /\ pc[h] = "link" /\ pc'[h] = "persist"
  <1> DEFINE p == f[1]
             Goal == \/ Readable(f)'
                     \/ \E h \in Handlers : f = Tmp(h) /\ pc[h] = "link" /\ pc'[h] = "persist"
  <1> USE NamesAssumption
  <1>0. /\ disk \in [Files -> Entries \cup {"none", "torn"}]
        /\ pc \in [Actors -> HandlerStages \cup ReconStages]
    BY DEF IInv, TypeOK
  <1>1. /\ disk[f] \in Entries /\ p \in Orders /\ p \notin recorded
        /\ ~Readable(Main(p)) /\ ~Readable(Main(p))' /\ f # Main(p)
    BY FileNames DEF Readable, MainSafe
  <1>2. disk'[f] \in Entries => Goal
    BY DEF Readable
  <1>3. ASSUME NEW h \in Handlers, CallbackActs(h), disk'[f] # disk[f] PROVE Goal
    <2>1. pc[h] # "idle" /\ f \in {Tmp(h), Own(h)} /\ order[h] \in Orders
      BY <1>3, Footprints, Touched DEF CallbackFootprint
    <2>2. order[h] = p /\ h \in Actors
      BY <2>1, FileNames DEF Tmp, Own, Actors
    <2>3. f = Tmp(h)
      BY <1>1, <2>1, <2>2 DEF Own
    <2>4. CallbackSafe(h) /\ Unseen(h, p)
      BY <1>1 DEF IInv, CallbacksSafe, EarlyUnseen
    <2>5. pc[h] \in {"link", "clean"}
      <3>1. f # Own(h)
        BY <1>1, <2>2 DEF Own
      <3>2. pc[h] \notin Early
        BY <2>2, <2>3, <2>4 DEF Unseen, Tmp
      <3>3. CASE Callback(h)
        BY <1>0, <1>3, <3>1, <3>2, <3>3
           DEF Callback, Look, Write, Fill, Link, Clean, Reread, Persist, PersistError,
               Acknowledge, Unlink, Go, Early, Store
      <3>4. CASE JournalError(h)
        BY <1>3, <3>2, <3>4 DEF JournalError, Go, Early
      <3> QED
        BY <1>3, <2>1, <3>3, <3>4 DEF CallbackActs, Settle, Go
    <2>6. pc[h] = "link"
      BY <2>2, <2>4, <2>5 DEF CallbackSafe
    <2>7. ASSUME pc'[h] # "persist" PROVE FALSE
      <3>1. Link(h)
        BY <1>0, <1>3, <2>2, <2>6, <2>7
           DEF CallbackActs, Settle, Callback, Look, Write, Fill, Clean, Reread, Persist,
               PersistError, Acknowledge, Unlink, JournalError, Go
      <3>2. disk[Own(h)] # "none"
        BY <1>0, <1>1, <1>3, <2>2, <3>1 DEF Link, Store, Own
      <3>3. disk[Main(p)] \in Entries \cup {"none", "torn"} /\ disk[Main(p)] # "torn"
        BY <1>0, <1>1, FileNames DEF IInv, MainWhole
      <3> QED
        BY <1>1, <2>2, <3>2, <3>3 DEF Own, Readable
    <2> QED
      BY <2>3, <2>6, <2>7
  <1>4. ASSUME NEW r \in Recons, ReconActs(r), disk'[f] # disk[f] PROVE Goal
    <2>1. file[r] \in Files /\ f \in {file[r], Scratch(r)} /\ ReconSafe(r)
      BY <1>4, Footprints DEF ReconFootprint, IInv, ReconsSafe
    <2>2. file[r][1] = p
      BY <2>1, FileNames DEF Scratch, Actors
    <2>3. ~Remove(r)
      <3>1. ASSUME Remove(r) PROVE pc[r] = "remove"
        BY <3>1 DEF Remove, Go, NextFile
      <3> QED
        BY <1>1, <2>1, <2>2, <3>1 DEF ReconSafe
    <2>4. ~(Visible(r) /\ pc[r] \in {"rewrite", "refill", "rename"})
      BY <2>1, <2>2 DEF ReconSafe, Visible
    <2>5. Replace(r) /\ ~Visible(r)
      BY <1>4, <2>3, <2>4
         DEF ReconActs, Reconcile, List, Scan, Finish, Apply, ApplyError, Rewrite, Refill,
             Rename, RewriteError, ScriptKilled, StoreScratch, Go, NextFile, Abort
    <2>6. disk'[f] \in {disk[f], "later"}
      BY <2>5 DEF Replace
    <2> QED
      BY <1>1, <1>2, <2>6 DEF Entries
  <1>5. WorldActs => Goal
    BY <1>1, <1>2, WorldFootprint DEF Readable
  <1>6. CrashApi => Goal
    BY <1>1, <1>2, CrashFootprint
  <1> QED
    BY <1>1, <1>2, <1>3, <1>4, <1>5, <1>6, NextCases

LEMMA DurableLemma == IInv /\ Next => DurableStep
  <1> SUFFICES ASSUME IInv, Next, NEW p \in Orders, NEW f \in Files, f[1] = p, Readable(f)
               PROVE  \/ p \in recorded'
                      \/ OnDisk(p)'
                      \/ \E h \in Handlers : order[h] = p /\ pc[h] = "link" /\ pc'[h] = "persist"
    BY DEF DurableStep, OnDisk
  <1>1. MainSafe(p)' => p \in recorded' \/ OnDisk(p)'
    BY FileNames DEF MainSafe, OnDisk
  <1>2. CASE MainSafe(p)
    BY <1>1, <1>2, MainStep
  <1>3. CASE ~MainSafe(p) /\ ~MainSafe(p)'
    <2>1. ASSUME NEW h \in Handlers, f = Tmp(h) PROVE order[h] = p
      BY <2>1 DEF Tmp
    <2>2. Readable(f)' => OnDisk(p)'
      BY DEF OnDisk
    <2> QED
      BY <1>3, <2>1, <2>2, FileStep
  <1> QED
    BY <1>1, <1>2, <1>3

-----------------------------------------------------------------------------
(* Who holds a proof. *)

\* A callback that has the proof is one that may write files or the tables.
CallbackEffect(h) ==
    /\ \/ pc[h] = "idle" /\ UNCHANGED <<tables, disk>>
          /\ pc'[h] = "look" /\ order'[h] \in Orders /\ settled' = settled \cup {order'[h]}
       \/ pc[h] # "idle" /\ UNCHANGED settled
    /\ UNCHANGED tables \/ (pc[h] = "persist" /\ MarkOrderSettled(order[h]))
    /\ pc[h] \in Silent \ {"idle"} =>
          pc'[h] \in Silent /\ \A f \in Files : Readable(f)' => Readable(f)
    /\ pc'[h] = "link" => pc[h] = "fill"

LEMMA CallbackEffects ==
  ASSUME IInv, NEW h \in Handlers, CallbackActs(h)
  PROVE  CallbackEffect(h)
  <1> USE NamesAssumption
  <1> USE DEF CallbackEffect, IInv, TypeOK, Actors, Silent, Ended, Go, tables, callbacks
  <1>1. ASSUME NEW o \in Orders, Settle(h, o) PROVE CallbackEffect(h)
    BY <1>1 DEF Settle
  <1>2. ASSUME Look(h) PROVE CallbackEffect(h)
    BY <1>2 DEF Look
  <1>3. ASSUME Write(h) PROVE CallbackEffect(h)
    BY <1>3 DEF Write
  <1>4. ASSUME Fill(h) PROVE CallbackEffect(h)
    BY <1>4 DEF Fill
  <1>5. ASSUME Link(h) PROVE CallbackEffect(h)
    BY <1>5 DEF Link
  <1>6. ASSUME Clean(h) PROVE CallbackEffect(h)
    BY <1>6 DEF Clean
  <1>7. ASSUME Reread(h) PROVE CallbackEffect(h)
    BY <1>7 DEF Reread
  <1>8. ASSUME Persist(h) PROVE CallbackEffect(h)
    BY <1>8 DEF Persist
  <1>9. ASSUME PersistError(h) PROVE CallbackEffect(h)
    BY <1>9 DEF PersistError, GiveUp
  <1>10. ASSUME Acknowledge(h) PROVE CallbackEffect(h)
    BY <1>10 DEF Acknowledge, Readable
  <1>11. ASSUME Unlink(h) PROVE CallbackEffect(h)
    BY <1>11 DEF Unlink, Store, Readable, Entries
  <1>12. ASSUME JournalError(h) PROVE CallbackEffect(h)
    BY <1>12 DEF JournalError
  <1> HIDE DEF CallbackEffect, IInv, TypeOK, Actors, Silent, Ended, Go, tables, callbacks
  <1> QED
    BY <1>1, <1>2, <1>3, <1>4, <1>5, <1>6, <1>7, <1>8, <1>9, <1>10, <1>11, <1>12
       DEF CallbackActs, Callback

\* A reconciler writes for the order of its file only, and takes up only a
\* file that is there.
ReconEffect(r) ==
    /\ UNCHANGED settled
    /\ UNCHANGED tables \/ (pc[r] = "apply" /\ MarkOrderSettled(file[r][1]))
    /\ pc[r] \in Working \/ UNCHANGED disk
    /\ \/ pc'[r] \notin Working
       \/ pc[r] \in Working /\ file'[r] = file[r]
       \/ file'[r] \in Files /\ Readable(file'[r]) /\ UNCHANGED disk

LEMMA ReconEffects ==
  ASSUME IInv, NEW r \in Recons, ReconActs(r)
  PROVE  ReconEffect(r)
  <1> USE NamesAssumption
  <1> USE DEF ReconEffect, IInv, TypeOK, Actors, Recons, Working, Go, tables, runs, NextFile, Abort, Rest
  <1>1. ASSUME List(r) PROVE ReconEffect(r)
    BY <1>1 DEF List
  <1>2. ASSUME Scan(r) PROVE ReconEffect(r)
    BY <1>2 DEF Scan, Due, Readable, Entries
  <1>3. ASSUME Finish(r) PROVE ReconEffect(r)
    BY <1>3 DEF Finish
  <1>4. ASSUME Apply(r) PROVE ReconEffect(r)
    BY <1>4 DEF Apply
  <1>5. ASSUME ApplyError(r) PROVE ReconEffect(r)
    BY <1>5 DEF ApplyError
  <1>6. ASSUME Remove(r) PROVE ReconEffect(r)
    BY <1>6 DEF Remove
  <1>7. ASSUME Rewrite(r) PROVE ReconEffect(r)
    BY <1>7 DEF Rewrite
  <1>8. ASSUME Refill(r) PROVE ReconEffect(r)
    BY <1>8 DEF Refill
  <1>9. ASSUME Rename(r) PROVE ReconEffect(r)
    BY <1>9 DEF Rename
  <1>10. ASSUME RewriteError(r) PROVE ReconEffect(r)
    BY <1>10 DEF RewriteError
  <1>11. ASSUME r \in Scripts /\ ScriptKilled(r) PROVE ReconEffect(r)
    BY <1>11 DEF ScriptKilled
  <1> HIDE DEF ReconEffect, IInv, TypeOK, Actors, Recons, Working, Go, tables, runs, NextFile, Abort, Rest
  <1> QED
    BY <1>1, <1>2, <1>3, <1>4, <1>5, <1>6, <1>7, <1>8, <1>9, <1>10, <1>11 DEF ReconActs, Reconcile

\* Time and workers know nothing of payments, and a crash writes nothing.
LEMMA WorldEffects ==
  ASSUME WorldActs
  PROVE  UNCHANGED <<settled, recorded>> /\ (UNCHANGED job \/ \E o \in Orders : WorkerTakes(o))
  BY DEF WorldActs, BackoffEnds, WorkerTakes, Outage, DbRecovers, tables

LEMMA CrashEffects ==
  ASSUME IInv, CrashApi
  PROVE  /\ UNCHANGED <<settled, tables>>
         /\ \A h \in Handlers : pc'[h] = pc[h] \/ pc'[h] \in Silent
  BY NamesAssumption DEF CrashApi, IInv, TypeOK, Actors, Silent, Ended

-----------------------------------------------------------------------------
(* Nothing is known of a payment that has not settled. *)

SettledFirst ==
    /\ recorded \subseteq settled
    /\ \A f \in Files : disk[f] # "none" => f[1] \in settled
    /\ \A r \in Recons : pc[r] \in Working => file[r][1] \in settled

LEMMA SettledStep == IInv /\ SettledFirst /\ Next => SettledFirst' /\ settled \subseteq settled'
  <1> SUFFICES ASSUME IInv, SettledFirst, Next PROVE SettledFirst' /\ settled \subseteq settled'
    OBVIOUS
  <1> USE NamesAssumption
  <1>1. ASSUME NEW h \in Handlers, CallbackActs(h) PROVE SettledFirst' /\ settled \subseteq settled'
    <2>1. CallbackEffect(h) /\ CallbackFootprint(h)
      BY <1>1, CallbackEffects, Footprints
    <2>2. pc[h] # "idle" => order[h] \in settled
      BY DEF IInv, CallbacksOwnOrders
    <2>3. settled \subseteq settled'
      BY <2>1 DEF CallbackEffect
    <2>4. (recorded \subseteq settled)'
      BY <2>1, <2>2, <2>3 DEF SettledFirst, CallbackEffect, MarkOrderSettled, tables
    <2>5. ASSUME NEW f \in Files, disk'[f] # "none" PROVE f[1] \in settled'
      <3>1. CASE disk'[f] = disk[f]
        BY <2>3, <2>5, <3>1 DEF SettledFirst
      <3>2. CASE disk'[f] # disk[f]
        BY <2>1, <2>2, <2>3, <3>2 DEF CallbackFootprint, Tmp, Own, Main
      <3> QED
        BY <3>1, <3>2
    <2>6. ASSUME NEW r \in Recons, pc'[r] \in Working PROVE file'[r][1] \in settled'
      BY <2>1, <2>3, <2>6 DEF CallbackFootprint, SettledFirst, runs, Actors
    <2> QED
      BY <2>3, <2>4, <2>5, <2>6 DEF SettledFirst
  <1>2. ASSUME NEW r \in Recons, ReconActs(r) PROVE SettledFirst' /\ settled \subseteq settled'
    <2>1. ReconEffect(r) /\ ReconFootprint(r) /\ UNCHANGED settled
      BY <1>2, ReconEffects, Footprints DEF ReconEffect
    <2>2. (recorded \subseteq settled)'
      BY <2>1 DEF SettledFirst, ReconEffect, MarkOrderSettled, tables, Working
    <2>3. ASSUME NEW f \in Files, disk'[f] # "none" PROVE f[1] \in settled'
      <3>1. CASE disk'[f] = disk[f]
        BY <2>1, <2>3, <3>1 DEF SettledFirst
      <3>2. CASE disk'[f] # disk[f]
        <4>1. pc[r] \in Working /\ f \in {file[r], Scratch(r)}
          BY <2>1, <3>2 DEF ReconEffect, ReconFootprint
        <4>2. f[1] = file[r][1]
          BY <4>1 DEF Scratch
        <4> QED
          BY <2>1, <4>1, <4>2 DEF SettledFirst
      <3> QED
        BY <3>1, <3>2
    <2>4. ASSUME NEW q \in Recons, pc'[q] \in Working PROVE file'[q][1] \in settled'
      <3>1. CASE q # r
        BY <2>1, <2>4, <3>1 DEF ReconFootprint, SettledFirst, Actors
      <3>2. CASE q = r
        BY <2>1, <2>4, <3>2 DEF ReconEffect, SettledFirst, Readable, Entries
      <3> QED
        BY <3>1, <3>2
    <2> QED
      BY <2>1, <2>2, <2>3, <2>4 DEF SettledFirst
  <1>3. WorldActs => SettledFirst' /\ settled \subseteq settled'
    <2> SUFFICES ASSUME WorldActs PROVE SettledFirst' /\ settled \subseteq settled'
      OBVIOUS
    <2>1. UNCHANGED <<settled, recorded, pc, file>>
      BY WorldEffects, WorldFootprint
    <2>2. \A f \in Files : disk'[f] # "none" => disk[f] # "none"
      BY WorldFootprint DEF Readable, Entries
    <2> QED
      BY <2>1, <2>2 DEF SettledFirst
  <1>4. CrashApi => SettledFirst' /\ settled \subseteq settled'
    BY CrashEffects, CrashFootprint DEF SettledFirst, tables, Working
  <1> QED
    BY <1>1, <1>2, <1>3, <1>4, NextCases

LEMMA Inductive == IInv /\ [Next]_vars => IInv'
  <1> SUFFICES ASSUME IInv, [Next]_vars PROVE IInv'
    OBVIOUS
  <1>1. CASE Next
    BY <1>1, TypeStep, QueuedStep, OwnStep, MainStep, TriesStep, EarlyStep, ReconStep, CallbackStep DEF IInv
  <1>2. CASE UNCHANGED vars
    BY <1>2 DEF vars, tables, callbacks, runs, IInv, TypeOK, JobFollows, TriesLeft, CallbacksOwnOrders,
         CallbacksSafe, CallbackSafe, ReconsSafe, ReconSafe, MainWhole, EarlyUnseen, Unseen,
         MainSafe, Readable, Tmp
  <1> QED
    BY <1>1, <1>2

-----------------------------------------------------------------------------
(* The stages of a proof. *)

\* What Proof looks at once the tables are known.
Known(p) == Published(p) \/ Held(p)

LEMMA HeldSettled ==
  ASSUME IInv, SettledFirst, NEW p \in Orders, p \in recorded \/ Known(p)
  PROVE  p \in settled
  BY DEF SettledFirst, Known, Published, PublishedFile, Held, Holds, Works, Working, IInv, CallbacksOwnOrders,
         Readable, Entries, Silent

\* An entry is no callback's temporary file.
LEMMA EntryName ==
  ASSUME NEW p \in Orders, NEW h \in Handlers, NEW x
  PROVE  Main(p) # <<x, h>>
  BY NamesAssumption DEF Main, Actors

\* A callback reaches the link from the filling of its file only.
LEMMA LinkStep ==
  ASSUME IInv, Next, NEW h \in Handlers, pc'[h] = "link"
  PROVE  order'[h] = order[h] /\ (pc[h] = "link" \/ ~Readable(Tmp(h)))
  <1>1. pc[h] = "fill" => ~Readable(Tmp(h))
    BY Touched DEF IInv, EarlyUnseen, Unseen, Early, Tmp
  <1>2. ASSUME CallbackActs(h) PROVE order'[h] = order[h] /\ pc[h] = "fill"
    BY <1>2, CallbackEffects, Footprints DEF CallbackEffect, CallbackFootprint
  <1>3. ASSUME NEW g \in Handlers, CallbackActs(g), g # h PROVE order'[h] = order[h] /\ pc[h] = "link"
    BY <1>3, Footprints DEF CallbackFootprint, Actors
  <1>4. ASSUME NEW r \in Recons, ReconActs(r) PROVE order'[h] = order[h] /\ pc[h] = "link"
    BY <1>4, NamesAssumption, Footprints DEF ReconFootprint, callbacks, Actors
  <1>5. WorldActs \/ CrashApi => order'[h] = order[h] /\ pc[h] = "link"
    BY WorldFootprint, CrashFootprint
  <1> QED
    BY <1>1, <1>2, <1>3, <1>4, <1>5, NextCases

\* What is published stays published until it is recorded.
LEMMA PublishedStep ==
  ASSUME IInv, Next, NEW p \in Orders, Published(p)
  PROVE  (p \in recorded \/ Published(p))'
  <1>1. CASE MainSafe(p) \/ MainSafe(p)'
    <2>1. MainSafe(p)'
      BY <1>1, MainStep
    <2>2. \A h \in Handlers : Main(p) # Tmp(h)'
      BY EntryName DEF Tmp
    <2> QED
      BY <2>1, <2>2, FileNames DEF MainSafe, Published, PublishedFile
  <1>2. CASE ~MainSafe(p) /\ ~MainSafe(p)'
    <2>1. PICK f \in Files : /\ f[1] = p /\ Readable(f)
                             /\ ~ \E h \in Handlers : pc[h] = "link" /\ f = Tmp(h)
      BY DEF Published, PublishedFile
    <2>2. Readable(f)'
      BY <1>2, <2>1, FileStep
    <2>3. ASSUME NEW h \in Handlers, pc'[h] = "link", f = Tmp(h)' PROVE FALSE
      BY <2>1, <2>3, LinkStep DEF Tmp
    <2> QED
      BY <2>1, <2>2, <2>3 DEF Published, PublishedFile
  <1> QED
    BY <1>1, <1>2

\* Only someone who holds the proof records the order.
LEMMA RecordStep ==
  ASSUME IInv, Next, NEW p \in Orders, p \in recorded', p \notin recorded
  PROVE  Held(p) /\ MarkOrderSettled(p) /\ settled' = settled
  <1>1. ASSUME NEW h \in Handlers, CallbackActs(h)
        PROVE  pc[h] = "persist" /\ order[h] = p /\ MarkOrderSettled(p) /\ settled' = settled
    BY <1>1, CallbackEffects DEF CallbackEffect, MarkOrderSettled, tables
  <1>2. ASSUME NEW r \in Recons, ReconActs(r)
        PROVE  pc[r] = "apply" /\ file[r][1] = p /\ MarkOrderSettled(p) /\ settled' = settled
    BY <1>2, ReconEffects DEF ReconEffect, MarkOrderSettled, tables
  <1>3. ~WorldActs /\ ~CrashApi
    BY WorldEffects, CrashEffects DEF tables
  <1> QED
    BY <1>1, <1>2, <1>3, NextCases DEF Held, Holds, Silent, Works, Working, Ended

\* Only someone who holds the proof publishes it.
LEMMA PublishStep ==
  ASSUME IInv, Next, NEW p \in Orders, Published(p)'
  PROVE  Known(p)
  <1>1. PICK f \in Files : f[1] = p /\ Readable(f)'
    BY DEF Published, PublishedFile
  <1>2. CASE Readable(f)
    <2>1. ASSUME NEW h \in Handlers, pc[h] = "link", f = Tmp(h) PROVE Held(p)
      BY <1>1, <2>1 DEF Tmp, Held, Holds, Silent, Ended
    <2> QED
      BY <1>1, <1>2, <2>1 DEF Known, Published, PublishedFile
  <1>3. CASE ~Readable(f)
    <2>1. disk'[f] # disk[f]
      BY <1>1, <1>3 DEF Readable
    <2>2. ASSUME NEW h \in Handlers, CallbackActs(h) PROVE Holds(h, p)
      <3>1. pc[h] # "idle" /\ f \in {Tmp(h), Own(h)}
        BY <2>1, <2>2, Footprints DEF CallbackFootprint
      <3>2. order[h] = p
        BY <1>1, <3>1 DEF Tmp, Own, Main
      <3>3. pc[h] \notin Silent
        BY <1>1, <1>3, <2>2, <3>1, CallbackEffects DEF CallbackEffect
      <3> QED
        BY <3>2, <3>3 DEF Holds, Silent
    <2>3. ASSUME NEW r \in Recons, ReconActs(r) PROVE Works(r, p)
      <3>1. f \in {file[r], Scratch(r)} /\ pc[r] \in Working
        BY <2>1, <2>3, Footprints, ReconEffects DEF ReconFootprint, ReconEffect
      <3> QED
        BY <1>1, <3>1 DEF Scratch, Works, Working
    <2>4. ~WorldActs /\ ~CrashApi
      BY <1>3, <2>1, WorldFootprint, CrashFootprint
    <2> QED
      BY <2>2, <2>3, <2>4, NextCases DEF Known, Held
  <1> QED
    BY <1>2, <1>3

\* A proof that is held anew belongs to a payment that settles, or is there.
LEMMA HoldStep ==
  ASSUME IInv, Next, NEW p \in Orders, Held(p)'
  PROVE  Known(p) \/ (p \in settled' /\ UNCHANGED tables)
  <1>1. ASSUME NEW f \in Files, Readable(f), f[1] = p PROVE Known(p)
    <2>1. ASSUME NEW h \in Handlers, pc[h] = "link", f = Tmp(h) PROVE Held(p)
      BY <1>1, <2>1 DEF Tmp, Held, Holds, Silent, Ended
    <2> QED
      BY <1>1, <2>1 DEF Known, Published, PublishedFile
  <1>2. ASSUME NEW h \in Handlers, Holds(h, p)'
        PROVE  Known(p) \/ (p \in settled' /\ UNCHANGED tables)
    <2>1. order'[h] = p /\ pc'[h] \notin Silent
      BY <1>2 DEF Holds, Silent
    <2>2. CASE pc'[h] = pc[h] /\ order'[h] = order[h]
      BY <1>2, <2>2 DEF Holds, Silent, Known, Held
    <2>3. ASSUME CallbackActs(h) PROVE Known(p) \/ (p \in settled' /\ UNCHANGED tables)
      <3>1. CallbackEffect(h) /\ (pc[h] # "idle" => order'[h] = order[h])
        BY <2>3, CallbackEffects, Footprints DEF CallbackFootprint
      <3>2. CASE pc[h] = "idle"
        BY <2>1, <3>1, <3>2 DEF CallbackEffect
      <3>3. CASE pc[h] # "idle"
        <4>1. pc[h] \notin Silent /\ order[h] = p
          BY <2>1, <3>1, <3>3 DEF CallbackEffect
        <4> QED
          BY <4>1 DEF Known, Held, Holds, Silent
      <3> QED
        BY <3>2, <3>3
    <2>4. \/ CallbackActs(h)
          \/ pc'[h] = pc[h] /\ order'[h] = order[h]
      <3>1. ASSUME NEW g \in Handlers, CallbackActs(g), g # h PROVE pc'[h] = pc[h] /\ order'[h] = order[h]
        BY <3>1, Footprints DEF CallbackFootprint, Actors
      <3>2. ASSUME NEW r \in Recons, ReconActs(r) PROVE pc'[h] = pc[h] /\ order'[h] = order[h]
        BY <3>2, NamesAssumption, Footprints DEF ReconFootprint, callbacks, Actors
      <3>3. WorldActs \/ CrashApi => pc'[h] = pc[h] /\ order'[h] = order[h]
        BY <2>1, WorldFootprint, CrashFootprint, CrashEffects
      <3> QED
        BY <3>1, <3>2, <3>3, NextCases
    <2> QED
      BY <2>2, <2>3, <2>4
  <1>3. ASSUME NEW r \in Recons, Works(r, p)' PROVE Known(p)
    <2>1. pc'[r] \in Working /\ file'[r][1] = p
      BY <1>3 DEF Works, Working
    <2>2. CASE pc[r] \in Working /\ file'[r] = file[r]
      BY <2>1, <2>2 DEF Works, Working, Known, Held
    <2>3. ASSUME ReconActs(r) PROVE Known(p)
      BY <1>1, <2>1, <2>2, <2>3, ReconEffects DEF ReconEffect, Readable
    <2>4. \/ ReconActs(r)
          \/ pc[r] \in Working /\ file'[r] = file[r]
      <3>1. ASSUME NEW h \in Handlers, CallbackActs(h) PROVE pc'[r] = pc[r] /\ file'[r] = file[r]
        BY <3>1, NamesAssumption, Footprints DEF CallbackFootprint, runs, Actors
      <3>2. ASSUME NEW q \in Recons, ReconActs(q), q # r PROVE pc'[r] = pc[r] /\ file'[r] = file[r]
        BY <3>2, Footprints DEF ReconFootprint, Actors
      <3>3. WorldActs \/ CrashApi => pc'[r] = pc[r] /\ file'[r] = file[r]
        BY <2>1, WorldFootprint, CrashFootprint DEF Working
      <3> QED
        BY <2>1, <3>1, <3>2, <3>3, NextCases
    <2> QED
      BY <2>2, <2>3, <2>4
  <1> QED
    BY <1>2, <1>3 DEF Held

Stages == {"none", "held", "kept", "recorded", "lost"}

\* What a step can do to the proof of one order.
LEMMA StageStep ==
  ASSUME IInv, SettledFirst, Next, NEW p \in Orders
  PROVE  /\ Proof(p) \in Stages /\ Proof(p)' \in Stages
         /\ Proof(p) = "recorded" => Proof(p)' = "recorded"
         /\ Proof(p) = "kept" => Proof(p)' \in {"kept", "recorded"}
         /\ Proof(p) = "held" => Proof(p)' # "none"
         /\ Proof(p) \in {"none", "lost"} => Proof(p)' \in {Proof(p), "held"}
  <1>1. settled \subseteq settled' /\ recorded \subseteq recorded' /\ recorded' \subseteq settled'
    BY SettledStep, RecordedStep DEF SettledFirst
  <1>2. Proof(p) \in Stages /\ Proof(p)' \in Stages
    BY DEF Proof, Stages
  <1>3. Proof(p) = "recorded" => Proof(p)' = "recorded"
    BY <1>1 DEF Proof
  <1>4. Proof(p) = "kept" => Proof(p)' \in {"kept", "recorded"}
    BY <1>1, PublishedStep DEF Proof
  <1>5. Proof(p) = "held" => Proof(p)' # "none"
    BY <1>1 DEF Proof
  <1>6. ASSUME Proof(p) \in {"none", "lost"} PROVE Proof(p)' \in {Proof(p), "held"}
    <2>1. p \notin recorded /\ ~Known(p)
      BY <1>6, HeldSettled DEF Proof, Known
    <2>2. p \notin recorded' /\ ~Published(p)'
      BY <2>1, RecordStep, PublishStep DEF Known
    <2>3. CASE p \in settled
      BY <1>1, <1>6, <2>2, <2>3 DEF Proof
    <2>4. CASE p \notin settled /\ p \in settled'
      <3>1. ASSUME NEW h \in Handlers, CallbackActs(h) PROVE Holds(h, p)'
        BY <2>4, <3>1, CallbackEffects DEF CallbackEffect, Holds, Silent, Ended
      <3>2. ASSUME NEW r \in Recons, ReconActs(r) PROVE FALSE
        BY <2>4, <3>2, ReconEffects DEF ReconEffect
      <3>3. Held(p)'
        BY <2>4, <3>1, <3>2, WorldEffects, CrashEffects, NextCases DEF Held
      <3> QED
        BY <2>2, <2>4, <3>3 DEF Proof
    <2>5. CASE p \notin settled'
      BY <1>1, <2>5 DEF Proof
    <2> QED
      BY <2>3, <2>4, <2>5
  <1> QED
    BY <1>2, <1>3, <1>4, <1>5, <1>6

\* Proof depends on the tables, on what is published and on what is known.
LEMMA SameStage ==
  ASSUME NEW p \in Orders, p \in settled' <=> p \in settled, p \in recorded' <=> p \in recorded,
         p \notin recorded => (Published(p)' <=> Published(p)) /\ (Known(p)' <=> Known(p))
  PROVE  Proof(p)' = Proof(p)
  BY DEF Proof, Known

\* A callback works for its own order, a reconciler for that of its file.
LEMMA CallbackAlone ==
  ASSUME IInv, NEW h \in Handlers, CallbackActs(h), NEW p \in Orders, p # order'[h]
  PROVE  Proof(p)' = Proof(p)
  <1>1. CallbackEffect(h) /\ CallbackFootprint(h) /\ (pc[h] # "idle" => order[h] # p)
    BY CallbackEffects, Footprints DEF CallbackFootprint
  <1>2. (p \in settled' <=> p \in settled) /\ (p \in recorded' <=> p \in recorded)
    BY <1>1 DEF CallbackEffect, MarkOrderSettled, tables
  <1>3. \A f \in Files : f[1] = p => disk'[f] = disk[f]
    BY <1>1 DEF CallbackFootprint, Tmp, Own, Main
  <1>4. \A g \in Handlers, f \in Files : f[1] = p =>
           ((pc'[g] = "link" /\ f = Tmp(g)') <=> (pc[g] = "link" /\ f = Tmp(g)))
    BY <1>1 DEF CallbackFootprint, Tmp, Actors
  <1>5. Published(p)' <=> Published(p)
    BY <1>3, <1>4 DEF Published, PublishedFile, Readable
  <1>6. \A g \in Handlers : Holds(g, p)' <=> Holds(g, p)
    BY <1>1 DEF CallbackFootprint, Holds, Silent, Actors
  <1>7. \A r \in Recons : Works(r, p)' <=> Works(r, p)
    BY <1>1, NamesAssumption DEF CallbackFootprint, Works, Working, Actors, runs
  <1> QED
    BY <1>2, <1>5, <1>6, <1>7, SameStage DEF Known, Held

LEMMA ReconAlone ==
  ASSUME IInv, NEW r \in Recons, ReconActs(r), NEW p \in Orders, ~Works(r, p)
  PROVE  Proof(p)' = Proof(p)
  <1>1. ReconEffect(r) /\ ReconFootprint(r) /\ (pc[r] \in Working => file[r][1] # p)
    BY ReconEffects, Footprints DEF Works, Working
  <1>2. (p \in settled' <=> p \in settled) /\ (p \in recorded' <=> p \in recorded)
    BY <1>1 DEF ReconEffect, MarkOrderSettled, tables, Working
  <1>3. \A f \in Files : f[1] = p => disk'[f] = disk[f]
    BY <1>1 DEF ReconEffect, ReconFootprint, Scratch
  <1>4. \A g \in Handlers : pc'[g] = pc[g] /\ order'[g] = order[g]
    BY <1>1, NamesAssumption DEF ReconFootprint, callbacks, Actors
  <1>5. Published(p)' <=> Published(p)
    BY <1>3, <1>4 DEF Published, PublishedFile, Readable, Tmp
  <1>6. \A g \in Handlers : Holds(g, p)' <=> Holds(g, p)
    BY <1>4 DEF Holds, Silent
  <1>7. \A q \in Recons : q # r => (Works(q, p)' <=> Works(q, p))
    BY <1>1 DEF ReconFootprint, Works, Working, Actors
  <1>8. Works(r, p)' => Known(p)
    <2>1. ASSUME NEW f \in Files, Readable(f), f[1] = p PROVE Known(p)
      <3>1. ASSUME NEW h \in Handlers, pc[h] = "link", f = Tmp(h) PROVE Held(p)
        BY <2>1, <3>1 DEF Tmp, Held, Holds, Silent, Ended
      <3> QED
        BY <2>1, <3>1 DEF Known, Published, PublishedFile
    <2> QED
      BY <1>1, <2>1 DEF ReconEffect, Works, Working
  <1>9. Known(p)' <=> Known(p)
    BY <1>5, <1>6, <1>7, <1>8 DEF Known, Held
  <1> QED
    BY <1>2, <1>5, <1>9, SameStage

LEMMA WorldAlone ==
  ASSUME IInv, WorldActs, NEW p \in Orders
  PROVE  Proof(p)' = Proof(p)
  <1>1. UNCHANGED <<pc, file, order, settled, recorded>>
    BY WorldFootprint, WorldEffects
  <1>2. \A f \in Files : Readable(f)' <=> Readable(f)
    BY WorldFootprint DEF Readable
  <1>3. Published(p)' <=> Published(p)
    BY <1>1, <1>2 DEF Published, PublishedFile, Tmp
  <1>4. Held(p)' <=> Held(p)
    BY <1>1 DEF Held, Holds, Silent, Works, Working
  <1> QED
    BY <1>1, <1>3, <1>4, SameStage DEF Known

\* A crash can only end those who hold a proof.
LEMMA CrashStage ==
  ASSUME IInv, SettledFirst, Next, CrashApi, NEW p \in Orders
  PROVE  Proof(p)' = Proof(p) \/ (Proof(p) = "held" /\ Proof(p)' \in {"kept", "lost"})
  <1>1. UNCHANGED <<settled, recorded>>
    BY CrashEffects DEF tables
  <1>2. Held(p)' => Held(p)
    <2>1. \A h \in Handlers : Holds(h, p)' => Holds(h, p)
      BY CrashEffects, CrashFootprint DEF Holds, Silent
    <2>2. \A r \in Recons : Works(r, p)' => Works(r, p)
      BY CrashFootprint DEF Works, Working
    <2> QED
      BY <2>1, <2>2 DEF Held
  <1>3. Published(p)' => Known(p)
    BY PublishStep
  <1>4. Published(p) => p \in recorded \/ Published(p)'
    BY <1>1, PublishedStep
  <1> QED
    BY <1>1, <1>2, <1>3, <1>4 DEF Proof, Known

-----------------------------------------------------------------------------
(* Every step is a step of the service. *)

LEMMA OneOrderStep ==
  ASSUME IInv, SettledFirst, Next, NEW o \in Orders,
         \A p \in Orders \ {o} : Proof(p)' = Proof(p), UNCHANGED tables \/ MarkOrderSettled(o)
  PROVE  Service!Next \/ UNCHANGED Service!vars
  <1> DEFINE proof == [p \in Orders |-> Proof(p)]
  <1>1. /\ IInv' /\ SettledFirst' /\ job \in [Orders -> {"awaiting_settlement", "queued", "taken"}]
        /\ JobFollows
    BY Inductive, SettledStep DEF IInv, TypeOK
  <1>2. o \in recorded' => Proof(o)' = "recorded"
    BY <1>1 DEF Proof, SettledFirst
  <1>3. proof' = [proof EXCEPT ![o] = Proof(o)']
    OBVIOUS
  <1>4. CASE Proof(o)' = Proof(o)
    <2>1. proof' = proof
      BY <1>4
    <2>2. MarkOrderSettled(o) => o \in recorded /\ job[o] # "awaiting_settlement"
      BY <1>1, <1>2, <1>4 DEF MarkOrderSettled, Proof, JobFollows
    <2>3. job' = job
      BY <2>2 DEF MarkOrderSettled, tables
    <2> QED
      BY <2>1, <2>3 DEF Service!vars
  <1>5. CASE Proof(o)' # Proof(o) /\ Proof(o)' = "recorded"
    <2>1. o \in recorded' /\ o \notin recorded
      BY <1>1, <1>5 DEF Proof, SettledFirst
    <2>2. Held(o) /\ MarkOrderSettled(o) /\ job[o] = "awaiting_settlement"
      BY <1>1, <2>1, RecordStep DEF JobFollows
    <2>3. Proof(o) \in {"held", "kept"}
      BY <2>1, <2>2, HeldSettled DEF Proof, Known
    <2>4. job' = [job EXCEPT ![o] = "queued"]
      BY <2>2 DEF MarkOrderSettled
    <2> QED
      BY <1>3, <1>5, <2>2, <2>3, <2>4 DEF Service!Next, Service!Record
  <1>6. CASE Proof(o)' # Proof(o) /\ Proof(o)' # "recorded"
    <2>1. job' = job
      BY <1>2, <1>6 DEF MarkOrderSettled, tables
    <2>2. \/ Proof(o) \in {"none", "lost"} /\ Proof(o)' = "held"
          \/ Proof(o) = "held" /\ Proof(o)' \in {"kept", "lost"}
      BY <1>6, StageStep DEF Stages
    <2>3. CASE Proof(o) \in {"none", "lost"} /\ Proof(o)' = "held"
      BY <1>3, <2>1, <2>3 DEF Service!Next, Service!Settle
    <2>4. CASE Proof(o) = "held" /\ Proof(o)' = "kept"
      BY <1>3, <2>1, <2>4 DEF Service!Next, Service!Keep
    <2>5. CASE Proof(o) = "held" /\ Proof(o)' = "lost"
      <3>1. {o} \in SUBSET {p \in Orders : proof[p] = "held"} /\ {} \in SUBSET Orders
        BY <2>5
      <3>2. proof' = [p \in Orders |-> IF p \notin {o} THEN proof[p]
                                       ELSE IF p \in {} THEN "kept" ELSE "lost"]
        BY <2>5
      <3> QED
        BY <2>1, <3>1, <3>2 DEF Service!Next, Service!Crash
    <2> QED
      BY <2>2, <2>3, <2>4, <2>5
  <1> QED
    BY <1>4, <1>5, <1>6

LEMMA ServiceStep == IInv /\ SettledFirst /\ Next => Service!Next \/ UNCHANGED Service!vars
  <1> SUFFICES ASSUME IInv, SettledFirst, Next PROVE Service!Next \/ UNCHANGED Service!vars
    OBVIOUS
  <1> DEFINE proof == [p \in Orders |-> Proof(p)]
  <1>1. ASSUME NEW h \in Handlers, CallbackActs(h) PROVE Service!Next \/ UNCHANGED Service!vars
    <2>1. order'[h] \in Orders
      <3>1. pc[h] # "idle" => order[h] \in Orders
        BY Touched
      <3> QED
        BY <1>1, <3>1, CallbackEffects, Footprints DEF CallbackEffect, CallbackFootprint
    <2>2. UNCHANGED tables \/ MarkOrderSettled(order'[h])
      BY <1>1, CallbackEffects, Footprints DEF CallbackEffect, CallbackFootprint
    <2> QED
      BY <1>1, <2>1, <2>2, CallbackAlone, OneOrderStep
  <1>2. ASSUME NEW r \in Recons, ReconActs(r) PROVE Service!Next \/ UNCHANGED Service!vars
    <2>1. CASE pc[r] \in Working
      <3>1. file[r][1] \in Orders
        BY <2>1, Touched DEF Working
      <3>2. UNCHANGED tables \/ MarkOrderSettled(file[r][1])
        BY <1>2, ReconEffects DEF ReconEffect
      <3>3. \A p \in Orders \ {file[r][1]} : Proof(p)' = Proof(p)
        BY <1>2, ReconAlone DEF Works, Working
      <3> QED
        BY <3>1, <3>2, <3>3, OneOrderStep
    <2>2. CASE pc[r] \notin Working
      <3>1. \A p \in Orders : Proof(p)' = Proof(p)
        BY <1>2, <2>2, ReconAlone DEF Works, Working
      <3>2. UNCHANGED tables
        BY <1>2, <2>2, ReconEffects DEF ReconEffect, Working
      <3> QED
        BY <3>1, <3>2 DEF Service!vars, tables
    <2> QED
      BY <2>1, <2>2
  <1>3. ASSUME WorldActs PROVE Service!Next \/ UNCHANGED Service!vars
    <2>1. proof' = proof
      BY <1>3, WorldAlone
    <2>2. ASSUME NEW o \in Orders, WorkerTakes(o) PROVE Service!Next
      BY <2>1, <2>2 DEF WorkerTakes, Service!Next, Service!Take
    <2> QED
      BY <1>3, <2>1, <2>2, WorldEffects DEF Service!vars
  <1>4. ASSUME CrashApi PROVE Service!Next
    <2> DEFINE ended == {p \in Orders : proof[p] = "held" /\ proof'[p] # "held"}
               written == {p \in Orders : proof'[p] = "kept"}
    <2>1. job' = job
      BY <1>4, CrashEffects DEF tables
    <2>2. \A p \in Orders : proof'[p] = IF p \notin ended THEN proof[p]
                                        ELSE IF p \in written THEN "kept" ELSE "lost"
      BY <1>4, CrashStage
    <2>3. ended \in SUBSET {p \in Orders : proof[p] = "held"} /\ written \in SUBSET Orders
      OBVIOUS
    <2> HIDE DEF ended, written
    <2>4. proof' = [p \in Orders |-> IF p \notin ended THEN proof[p]
                                     ELSE IF p \in written THEN "kept" ELSE "lost"]
      BY <2>2
    <2> QED
      BY <2>1, <2>3, <2>4 DEF Service!Next, Service!Crash
  <1> QED
    BY <1>1, <1>2, <1>3, <1>4, NextCases

LEMMA ServiceInit == Init => SettledFirst /\ Service!Init
  <1> SUFFICES ASSUME Init PROVE SettledFirst /\ Service!Init
    OBVIOUS
  <1>1. SettledFirst
    BY NamesAssumption DEF Init, SettledFirst, Working, Actors
  <1>2. [p \in Orders |-> Proof(p)] = [p \in Orders |-> "none"]
    BY DEF Init, Proof
  <1> QED
    BY <1>1, <1>2 DEF Init, Service!Init

-----------------------------------------------------------------------------
(* The theorems. *)

LEMMA ProofKeptLemma == IInv => ProofKept
  <1> SUFFICES ASSUME IInv, NEW o \in settled
               PROVE  \/ o \in recorded
                      \/ OnDisk(o)
                      \/ \E h \in Handlers : order[h] = o /\ (InMemory(h) \/ pc[h] \in {"gap", "lost"})
    BY DEF ProofKept
  <1>1. PICK h \in Handlers : order[h] = o /\ pc[h] # "idle"
    BY DEF IInv, CallbacksOwnOrders
  <1>2. CallbackSafe(h) /\ pc[h] \in HandlerStages /\ o \in Orders
    BY DEF IInv, CallbacksSafe, CallbacksOwnOrders, TypeOK
  <1>3. /\ Main(o) \in Files /\ Main(o)[1] = o
        /\ Tmp(h) \in Files /\ Tmp(h)[1] = o
    BY <1>1, <1>2, FileNames DEF Tmp, Actors
  <1>4. MainSafe(o) \/ Readable(Tmp(h)) => o \in recorded \/ OnDisk(o)
    BY <1>3 DEF MainSafe, OnDisk
  <1>5. MainSafe(o) \/ Readable(Tmp(h)) \/ InMemory(h) \/ pc[h] \in {"gap", "lost"}
    BY <1>1, <1>2 DEF CallbackSafe, InMemory, HandlerStages, Ended, MainSafe
  <1> QED
    BY <1>1, <1>4, <1>5

\* Every reachable state satisfies the inductive invariant.
THEOREM Invariance == Spec => []IInv
  BY InitIInv, Inductive, PTL DEF Spec

\* The journal, the tables and the processes keep their types.
THEOREM TypeCorrect == Spec => []TypeOK
  <1>1. IInv => TypeOK
    BY DEF IInv
  <1> QED
    BY <1>1, Invariance, PTL

\* The proof of a settled payment is in the database, in the journal or in the
\* memory of a live callback, but for callbacks that died or found disk and
\* database failing: handleStoredServiceOrderSettlement of src/index.js.
THEOREM ProofKeptAlways == Spec => []ProofKept
  BY ProofKeptLemma, Invariance, PTL

\* No callback, reconciler or crash takes an unrecorded proof off the disk:
\* acknowledgeSettlement and reconcileEntries of src/settlement-reconciler.js.
THEOREM DurableAlways == Spec => DurableUntilRecorded
  <1>1. IInv /\ [Next]_vars => [DurableStep]_vars
    BY DurableLemma
  <1> QED
    BY <1>1, InitIInv, Inductive, PTL DEF Spec, DurableUntilRecorded

\* A job that a worker has taken is never queued again, however often, late or
\* concurrently its settlement is recorded: markOrderSettled of
\* src/order-store.js.
THEOREM QueuedOnceAlways == Spec => QueuedOnce
  <1>1. IInv /\ [Next]_vars => [QueuedOnceStep]_vars
    BY QueuedStep
  <1> QED
    BY <1>1, InitIInv, Inductive, PTL DEF Spec, QueuedOnce

\* Nothing is recorded, written to the journal or worked on for an order whose
\* payment has not settled: onAfterSettle is the only source of proofs.
THEOREM NoProofWithoutPayment == Spec => []SettledFirst
  <1>1. IInv /\ SettledFirst /\ [Next]_vars => SettledFirst'
    BY SettledStep DEF vars, tables, runs, SettledFirst
  <1> QED
    BY <1>1, Invariance, ServiceInit, PTL DEF Spec

\* The callback, the journal and its reconcilers implement SettlementService:
\* a published proof is never lost, only a held one is recorded or published,
\* and the job is queued once, with the record.
THEOREM SettlementImplementsService == Spec => ServiceSafety
  <1>1. IInv /\ SettledFirst /\ [Next]_vars => [Service!Next]_(Service!vars)
    <2> SUFFICES ASSUME IInv, SettledFirst, [Next]_vars
                 PROVE  Service!Next \/ UNCHANGED Service!vars
      OBVIOUS
    <2>1. CASE Next
      BY <2>1, ServiceStep
    <2>2. CASE UNCHANGED vars
      BY <2>2 DEF vars, tables, callbacks, runs, Service!vars, Proof, Published, PublishedFile, Held, Holds, Silent,
           Works, Working, Readable, Tmp
    <2> QED
      BY <2>1, <2>2
  <1> QED
    BY <1>1, Invariance, NoProofWithoutPayment, ServiceInit, PTL
       DEF Spec, ServiceSafety, Service!Spec

-----------------------------------------------------------------------------
(* Settlement beside ReviewQueue. *)

LEMMA QueueRecord ==
  ASSUME TypeOK, JobFollows, NEW o \in Orders, MarkOrderSettled(o)
  PROVE  Queue!Next
  <1> DEFINE Order(p) == IF p \in recorded THEN "paid_intake_received" ELSE "payment_verified"
             orders == [p \in Orders |-> Order(p)]
             Row(p) == [status |-> IF Taken(p) THEN "processing" ELSE job[p],
                        attempts |-> IF Taken(p) THEN 1 ELSE 0, available |-> "now",
                        owner |-> IF Taken(p) THEN p ELSE NoOrder,
                        lease |-> IF Taken(p) THEN "live" ELSE "none"]
             rows == [p \in Orders |-> Row(p)]
  <1> USE DEF TypeOK, MarkOrderSettled
  <1>1. orders' = [orders EXCEPT ![o] = "paid_intake_received"]
    OBVIOUS
  <1>2. \A p \in Orders : Taken(p)' = Taken(p)
    BY DEF Taken
  <1>3. rows' = IF rows[o].status = "awaiting_settlement"
                THEN [rows EXCEPT ![o] = Queue!Row("queued", rows[o].attempts, "now")]
                ELSE rows
    <2>1. CASE job[o] = "awaiting_settlement"
      <3>1. ~Taken(o) /\ job' = [job EXCEPT ![o] = "queued"]
        BY <2>1 DEF Taken
      <3> QED
        BY <1>2, <2>1, <3>1 DEF Queue!Row
    <2>2. CASE job[o] # "awaiting_settlement"
      <3>1. job' = job /\ rows[o].status # "awaiting_settlement"
        BY <2>2
      <3> QED
        BY <1>2, <3>1
    <2> QED
      BY <2>1, <2>2
  <1>4. Queue!MarkOrderSettled(o)
    BY <1>1, <1>2, <1>3 DEF Queue!MarkOrderSettled
  <1> QED
    BY <1>4 DEF Queue!Next, Queue!Api

LEMMA QueueTakes ==
  ASSUME TypeOK, JobFollows, NEW o \in Orders, WorkerTakes(o)
  PROVE  Queue!Next
  <1> USE DEF TypeOK, WorkerTakes
  <1>1. ~Taken(o) /\ Taken(o)' /\ \A p \in Orders \ {o} : Taken(p)' = Taken(p) /\ job'[p] = job[p]
    BY DEF Taken
  <1>2. o \in recorded /\ recorded' = recorded /\ job[o] = "queued"
    BY DEF JobFollows
  <1>3. Queue!Claimable(o)
    BY <1>1, <1>2 DEF Queue!Claimable
  <1> DEFINE Row(p) == [status |-> IF Taken(p) THEN "processing" ELSE job[p],
                        attempts |-> IF Taken(p) THEN 1 ELSE 0, available |-> "now",
                        owner |-> IF Taken(p) THEN p ELSE NoOrder,
                        lease |-> IF Taken(p) THEN "live" ELSE "none"]
             rows == [p \in Orders |-> Row(p)]
             at == [p \in Orders |-> IF Taken(p) THEN "review" ELSE "claim"]
             holds == [p \in Orders |-> IF Taken(p) THEN p ELSE NoOrder]
             turns == [p \in Orders |-> IF Taken(p) THEN 1 ELSE 0]
  <1>4. rows' = [rows EXCEPT ![o] =
                   [status |-> "processing", attempts |-> rows[o].attempts + 1,
                    available |-> rows[o].available, owner |-> o, lease |-> "live"]]
    <2>1. Row(o)' = [status |-> "processing", attempts |-> Row(o).attempts + 1,
                     available |-> Row(o).available, owner |-> o, lease |-> "live"]
      BY <1>1
    <2>2. \A p \in Orders \ {o} : Row(p)' = Row(p)
      BY <1>1
    <2> HIDE DEF Row
    <2> QED
      BY <2>1, <2>2
  <1>5. /\ at[o] = "claim" /\ at' = [at EXCEPT ![o] = "review"]
        /\ holds' = [holds EXCEPT ![o] = o] /\ turns' = [turns EXCEPT ![o] = turns[o] + 1]
    <2>1. at[o] = "claim" /\ at' = [at EXCEPT ![o] = "review"]
      BY <1>1
    <2>2. holds' = [holds EXCEPT ![o] = o]
      BY <1>1
    <2>3. turns[o] = 0
      BY <1>1
    <2>4. turns' = [turns EXCEPT ![o] = 1]
      <3>1. \A p \in Orders : turns'[p] = IF p = o THEN 1 ELSE turns[p]
        BY <1>1
      <3> QED
        BY <3>1
    <2> HIDE DEF at, holds, turns
    <2> QED
      BY <2>1, <2>2, <2>3, <2>4
  <1>6. Queue!ClaimNextReviewJob(o, o)
    BY <1>2, <1>3, <1>4, <1>5 DEF Queue!ClaimNextReviewJob
  <1> QED
    BY <1>6 DEF Queue!Next, Queue!Loop, Queue!Claim

\* What callbacks, reconcilers, the worker and faults do to orders and jobs is
\* what ReviewQueue has its Api and its workers do.
THEOREM SettlementStepsAreQueueSteps == Spec => QueueSteps
  <1>1. IInv /\ [Next]_vars => [Queue!Next]_(Queue!vars)
    <2> SUFFICES ASSUME IInv, [Next]_vars PROVE [Queue!Next]_(Queue!vars)
      OBVIOUS
    <2>1. CASE UNCHANGED tables
      BY <2>1 DEF Queue!vars, Taken, tables
    <2>2. ASSUME NEW o \in Orders, MarkOrderSettled(o) \/ WorkerTakes(o) PROVE Queue!Next
      BY <2>2, QueueRecord, QueueTakes DEF IInv
    <2> QED
      BY <2>1, <2>2, TablesLemma DEF TablesStep, vars
  <1> QED
    BY <1>1, InitIInv, Inductive, PTL DEF Spec, QueueSteps

=============================================================================
