-------------------------- MODULE ReviewRunProofs --------------------------
(***************************************************************************)
(* Theorems about ReviewRun, for any files, findings, costs and number of  *)
(* attempts.  An attempt that is ready has passed every limit, and nothing *)
(* touches it any more, although orphans go on; the row is closed only     *)
(* with the attempt that was claimed last.                                 *)
(***************************************************************************)
EXTENDS ReviewRun, FiniteSetTheorems, TLAPS

Findings == FindingsOf(Paths \cup {Url, Nowhere, Elsewhere})
Before == {"target", "github", "files", "probes", "agent"}

\* The row and the attempt that is waited for.
RowInv ==
    /\ job \in {"queued", "waiting", "processing"} => stored = 0
    /\ job = "processing" <=> current # 0
    /\ current # 0 => current = attempts
    /\ late => current # 0
    /\ job = "completed" => stored = attempts /\ stored # 0 /\ stage[stored] = "ready"
    /\ \A a \in Attempts : stage[a] = "off" <=> a > attempts

\* A kind of target has its own stages and its own evidence.
KindInv ==
    \A a \in Attempts :
        /\ stage[a] \in {"github", "files"} => kind = "repository"
        /\ stage[a] = "probes" => kind = "endpoint"
        /\ kind = "repository" => evidence[a] \subseteq Paths
        /\ stage[a] \in {"off", "target", "github"} => next[a] = 1
        /\ stage[a] = "probes" => next[a] \in 1..3
        /\ next[a] \in Nat \ {0}

\* Requests of each attempt, by the stage it has reached.
CallsInv ==
    \A a \in Attempts :
        /\ stage[a] \in {"off"} \cup Before => calls[a] = 0
        /\ stage[a] = "repair" => calls[a] = 1
        /\ calls[a] <= 2

\* What a review has passed when it is ready.
ReadyInv ==
    \A a \in Attempts :
        /\ stage[a] = "ready" => /\ cost[a] <= Budget
                                 /\ Len(review[a].findings) <= MaxFindings
                                 /\ Grounded(a, review[a].findings)
        /\ error[a] = "final" => stage[a] = "thrown" /\ cost[a] > Budget
        /\ stage[a] = "thrown" => error[a] # "none"

RunInv == TypeOK /\ RowInv /\ KindInv /\ CallsInv /\ ReadyInv

LEMMA ManyType ==
  ASSUME NEW n \in Nat, NEW fs, DOMAIN fs = 1..n, NEW severity
  PROVE  Many(fs, severity) \in Nat
  <1>1. IsFiniteSet(1..n)
    BY FS_Interval
  <1>2. IsFiniteSet({i \in DOMAIN fs : fs[i].severity = severity})
    BY <1>1, FS_Subset
  <1> QED
    BY <1>2, FS_CardinalityType DEF Many

LEMMA ScoreType ==
  ASSUME NEW fs \in Findings
  PROVE  Score(fs) \in 0..100
  <1>1. DOMAIN fs = 1..Len(fs) /\ Len(fs) \in Nat
    BY DEF Findings, FindingsOf
  <1>2. Many(fs, "high") \in Nat /\ Many(fs, "medium") \in Nat /\ Many(fs, "low") \in Nat
    BY <1>1, ManyType
  <1>3. \A h, m, l \in Nat : LET s == 100 - 22 * h - 10 * m - 3 * l
                              IN  (IF s < 0 THEN 0 ELSE s) \in 0..100
    OBVIOUS
  <1> DEFINE h == Many(fs, "high")
             m == Many(fs, "medium")
             l == Many(fs, "low")
  <1>4. Score(fs) = LET s == 100 - 22 * h - 10 * m - 3 * l IN IF s < 0 THEN 0 ELSE s
    BY DEF Score
  <1> HIDE DEF h, m, l
  <1>5. h \in Nat /\ m \in Nat /\ l \in Nat
    BY <1>2 DEF h, m, l
  <1> QED
    BY <1>3, <1>4, <1>5

LEMMA TruncatedFacts ==
  ASSUME NEW fs \in Findings
  PROVE  Truncated(fs) \in Findings /\ Len(Truncated(fs)) <= MaxFindings
  <1> DEFINE n == IF Len(fs) < MaxFindings THEN Len(fs) ELSE MaxFindings
             Kind == [severity : Severities, place : Paths \cup {Url, Nowhere, Elsewhere}]
  <1>1. fs \in Seq(Kind) /\ n \in 0..Len(fs) /\ n <= MaxFindings
    BY LimitAssumption DEF Findings, FindingsOf
  <1> HIDE DEF Kind, n
  <1>2. /\ SubSeq(fs, 1, n) \in Seq(Kind) /\ Len(SubSeq(fs, 1, n)) = n
        /\ \A i \in 1..n : SubSeq(fs, 1, n)[i] = fs[i]
    BY <1>1
  <1> QED
    BY <1>1, <1>2 DEF Truncated, Findings, FindingsOf, Kind, n

LEMMA InitRunInv == Init => RunInv
  <1> SUFFICES ASSUME Init PROVE RunInv
    OBVIOUS
  <1> USE DEF Init
  <1>1. TypeOK
    <2>1. NoReview \in Reviews
      BY DEF NoReview, Reviews, FindingsOf
    <2>2. late \in BOOLEAN
      OBVIOUS
    <2> QED
      BY <2>1, <2>2, LimitAssumption DEF TypeOK, Attempts, Stages, Closed
  <1>2. RowInv
    BY LimitAssumption DEF RowInv, Attempts
  <1>3. KindInv /\ CallsInv /\ ReadyInv
    BY DEF KindInv, CallsInv, ReadyInv, Before
  <1> QED
    BY <1>1, <1>2, <1>3 DEF RunInv

LEMMA RuleFindingsType ==
  ASSUME TypeOK, KindInv, NEW a \in Attempts, NEW fs \in RuleFindings(a)
  PROVE  fs \in Findings
  <1>1. ASSUME NEW c, NEW severity \in Severities,
               NEW place \in Paths \cup {Url, Nowhere, Elsewhere}
        PROVE  Note(c, severity, place) \in Findings
    <2> DEFINE Kind == [severity : Severities, place : Paths \cup {Url, Nowhere, Elsewhere}]
               f == [severity |-> severity, place |-> place]
    <2>1. f \in Kind
      OBVIOUS
    <2> HIDE DEF Kind, f
    <2>2. <<f>> \in Seq(Kind) /\ <<>> \in Seq(Kind)
      BY <2>1
    <2> QED
      BY <2>2 DEF Note, Findings, FindingsOf, Kind, f
  <1>2. \A f, g \in Findings : f \o g \in Findings
    BY DEF Findings, FindingsOf
  <1>3. CASE kind = "repository"
    <2>1. ASSUME NEW missing, NEW p1 \in Paths \cup {Nowhere},
                 NEW p2 \in Paths \cup {Nowhere}
          PROVE  Complain(missing, p1, p2) \in Findings
      BY <1>1, <1>2 DEF Severities, Complain
    <2>2. evidence[a] \subseteq Paths
      BY <1>3 DEF KindInv
    <2>3. fs \in RepositoryFindings(a)
      BY <1>3 DEF RuleFindings
    <2>4. PICK missing \in Lacks(a), p1 \in FirstPaths(a), p2 \in FirstPaths(a) :
            fs = Complain(missing, p1, p2)
      BY <2>3 DEF RepositoryFindings
    <2>5. {p1, p2} \subseteq Paths \cup {Nowhere}
      BY <2>2, <2>4 DEF FirstPaths
    <2> QED
      BY <2>1, <2>4, <2>5
  <1>4. CASE kind # "repository"
    BY <1>1, <1>2, <1>4 DEF RuleFindings, EndpointFindings, Severities
  <1> QED
    BY <1>3, <1>4

\* The attempt that moves; the others keep their stage, review, costs and error.
Alone(a) ==
    /\ \A b \in Attempts \ {a} :
        /\ stage'[b] = stage[b] /\ evidence'[b] = evidence[b] /\ cost'[b] = cost[b]
        /\ calls'[b] = calls[b] /\ review'[b] = review[b] /\ error'[b] = error[b]
        /\ next'[b] = next[b]
    /\ UNCHANGED <<setting, row>>

LEMMA WorkInv ==
  ASSUME RunInv, TypeOK', NEW a \in Attempts, Alone(a),
         stage[a] \in Before \cup {"repair", "limits"}, stage'[a] # "off",
         stage'[a] \in {"github", "files"} => kind = "repository",
         stage'[a] = "probes" => kind = "endpoint",
         kind = "repository" => evidence'[a] \subseteq Paths,
         stage'[a] # "target" /\ next'[a] \in Nat \ {0},
         stage'[a] = "github" => next'[a] = 1,
         stage'[a] = "probes" => next'[a] \in 1..3,
         stage'[a] \in Before => calls'[a] = 0,
         stage'[a] = "repair" => calls'[a] = 1,
         calls'[a] <= 2,
         stage'[a] = "ready" => /\ cost'[a] <= Budget
                                /\ Len(review'[a].findings) <= MaxFindings
                                /\ Grounded(a, review[a].findings)',
         error'[a] = "final" => stage'[a] = "thrown" /\ cost'[a] > Budget,
         stage'[a] = "thrown" => error'[a] # "none"
  PROVE  RunInv'
  <1> USE DEF RunInv, Alone, setting, row
  <1>1. RowInv'
    <2>0. attempts \in Nat /\ Attempts \subseteq Nat
      BY LimitAssumption DEF TypeOK, Attempts
    <2>1. a <= attempts
      BY <2>0 DEF RowInv, Before
    <2>2. current' = current /\ attempts' = attempts /\ stored' = stored /\ job' = job
      OBVIOUS
    <2>3. \A b \in Attempts : stage'[b] = "off" <=> b > attempts
      BY <2>0, <2>1 DEF RowInv
    <2>4. job = "completed" => stored # a
      BY DEF RowInv, Before
    <2>5. job = "completed" => stored \in Attempts /\ stage'[stored] = "ready"
      BY <2>4, LimitAssumption DEF RowInv, Attempts, TypeOK
    <2> QED
      BY <2>2, <2>3, <2>5 DEF RowInv
  <1>2. KindInv'
    BY DEF KindInv
  <1>3. CallsInv'
    BY DEF CallsInv, Before
  <1>4. ReadyInv'
    BY DEF ReadyInv, Grounded, Known
  <1> QED
    BY <1>1, <1>2, <1>3, <1>4

LEMMA InspectInv ==
  ASSUME RunInv, NEW a \in Attempts, Inspect(a)
  PROVE  RunInv'
  <1> USE LimitAssumption
  <1> USE DEF RunInv, Goto, Throw
  <1>0. /\ stage[a] # "off" /\ stage[a] \in Before /\ calls[a] = 0 /\ error[a] # "final"
        /\ UNCHANGED <<setting, row, cost, calls, review>>
        /\ \A b \in Attempts \ {a} : /\ stage'[b] = stage[b] /\ evidence'[b] = evidence[b]
                                      /\ error'[b] = error[b] /\ next'[b] = next[b]
    <2>1. stage[a] \in Before /\ UNCHANGED <<setting, row, cost, calls, review>>
      BY DEF Inspect, Normalize, ReadTree, ReadFile, FilesRead, Probe, Before
    <2>2. calls[a] = 0 /\ error[a] # "final"
      BY <2>1 DEF CallsInv, ReadyInv, Before
    <2>3. \A b \in Attempts \ {a} : /\ stage'[b] = stage[b] /\ evidence'[b] = evidence[b]
                                     /\ error'[b] = error[b] /\ next'[b] = next[b]
      BY DEF Inspect, Normalize, ReadTree, ReadFile, FilesRead, Probe, TypeOK
    <2> QED
      BY <2>1, <2>2, <2>3 DEF Before
  <1>1. Alone(a)
    BY <1>0 DEF Alone
  <1> DEFINE Moved ==
        /\ stage'[a] \in (Before \ {"target"}) \cup {"thrown"}
        /\ error'[a] # "final"
        /\ stage'[a] = "thrown" => error'[a] # "none"
        /\ next'[a] \in Nat \ {0}
        /\ stage'[a] = "github" => next'[a] = 1
        /\ stage'[a] = "probes" => next'[a] \in 1..3
        /\ stage'[a] \in {"github", "files"} => kind = "repository"
        /\ stage'[a] = "probes" => kind = "endpoint"
        /\ kind = "repository" => evidence'[a] \subseteq Paths
  <1>2. Moved /\ TypeOK'
    <2> USE DEF Before, Stages
    <2>1. CASE Normalize(a)
      <3>1. stage[a] = "target" /\ next[a] = 1 /\ UNCHANGED <<next, evidence, bytes>>
        BY <2>1 DEF Normalize, KindInv
      <3>2. \/ kind = "repository" /\ Goto(a, "github") /\ UNCHANGED error
            \/ kind = "endpoint" /\ Goto(a, "probes") /\ UNCHANGED error
            \/ Throw(a, "target")
        BY <2>1 DEF Normalize, TypeOK
      <3> QED
        BY <1>0, <3>1, <3>2 DEF TypeOK, KindInv, setting, row
    <2>2. CASE ReadTree(a)
      BY <1>0, <2>2 DEF ReadTree, TypeOK, KindInv, setting, row
    <2>3. CASE ReadFile(a)
      <3>0. stage[a] = "files" /\ kind = "repository" /\ next[a] \in Nat \ {0}
            /\ evidence[a] \subseteq Paths
        BY <2>3 DEF ReadFile, KindInv
      <3>1. Files[next[a]] \in Paths
        BY <2>3, <3>0, PlaceAssumption DEF ReadFile
      <3>2. CASE Throw(a, "retry") /\ UNCHANGED <<next, bytes, evidence>>
        BY <1>0, <3>0, <3>2 DEF TypeOK, KindInv, setting, row
      <3>3. CASE /\ next' = [next EXCEPT ![a] = @ + 1]
                 /\ UNCHANGED <<stage, error>>
                 /\ \/ \E size \in Sizes :
                         /\ bytes' = [bytes EXCEPT ![a] = @ + size]
                         /\ evidence' = [evidence EXCEPT ![a] = @ \cup {Files[next[a]]}]
                    \/ UNCHANGED <<bytes, evidence>>
        <4>1. next' \in [Attempts -> Nat] /\ next'[a] \in Nat \ {0}
          BY <3>0, <3>3 DEF TypeOK
        <4>2. bytes' \in [Attempts -> Nat]
          BY <3>3 DEF TypeOK
        <4>3. /\ evidence' \in [Attempts -> SUBSET (Paths \cup Probes)]
              /\ evidence'[a] \subseteq Paths
          BY <3>0, <3>1, <3>3 DEF TypeOK
        <4> QED
          BY <1>0, <3>0, <3>3, <4>1, <4>2, <4>3 DEF TypeOK, setting, row
      <3> QED
        BY <2>3, <3>2, <3>3 DEF ReadFile
    <2>4. CASE FilesRead(a)
      BY <1>0, <2>4 DEF FilesRead, TypeOK, KindInv, setting, row
    <2>5. CASE Probe(a)
      <3>1. stage[a] = "probes" /\ kind = "endpoint" /\ next[a] \in 1..3
        BY <2>5 DEF Probe, KindInv
      <3>2. ProbeAnswers(next[a]) \subseteq SUBSET Probes
        BY <3>1 DEF ProbeAnswers, Probes
      <3>3. CASE Throw(a, "retry") /\ UNCHANGED <<next, evidence, bytes>>
        BY <1>0, <3>1, <3>3 DEF TypeOK, KindInv, setting, row
      <3>4. CASE /\ \E answer \in ProbeAnswers(next[a]) :
                       evidence' = [evidence EXCEPT ![a] = @ \cup answer]
                 /\ next' = [next EXCEPT ![a] = @ + 1]
                 /\ IF next[a] = 3 THEN Goto(a, "agent") ELSE UNCHANGED stage
                 /\ UNCHANGED <<error, bytes>>
        <4>1. evidence' \in [Attempts -> SUBSET (Paths \cup Probes)]
          BY <3>2, <3>4 DEF TypeOK
        <4>2. /\ next' \in [Attempts -> Nat] /\ next'[a] = next[a] + 1
              /\ stage' \in [Attempts -> Stages]
              /\ stage'[a] = IF next[a] = 3 THEN "agent" ELSE "probes"
          BY <3>1, <3>4 DEF TypeOK
        <4> QED
          BY <1>0, <3>1, <3>4, <4>1, <4>2 DEF TypeOK, setting, row
      <3> QED
        BY <2>5, <3>3, <3>4 DEF Probe
    <2> QED
      BY <2>1, <2>2, <2>3, <2>4, <2>5 DEF Inspect
  <1> QED
    BY <1>0, <1>1, <1>2, WorkInv DEF Before

LEMMA AgentInv ==
  ASSUME RunInv, NEW a \in Attempts, Agent(a)
  PROVE  RunInv'
  <1> USE LimitAssumption
  <1> USE DEF RunInv, Goto, Throw
  <1>0. /\ stage[a] \in {"agent", "repair", "limits"} /\ error[a] # "final"
        /\ UNCHANGED <<setting, row, next, evidence, bytes>>
        /\ \A b \in Attempts \ {a} : /\ stage'[b] = stage[b] /\ cost'[b] = cost[b]
                                      /\ calls'[b] = calls[b] /\ review'[b] = review[b]
                                      /\ error'[b] = error[b]
        /\ review[a] \in Reviews
        /\ stage[a] = "agent" => calls[a] = 0
        /\ stage[a] = "repair" => calls[a] = 1
        /\ calls[a] \in Nat /\ calls[a] <= 2
        /\ \A c \in Costs : cost[a] + c \in Nat
    <2>1. stage[a] \in {"agent", "repair", "limits"}
      BY DEF Agent, ReviewByRules, AskModel, Repair, Limit
    <2>2. UNCHANGED <<setting, row, next, evidence, bytes>>
      BY DEF Agent, ReviewByRules, AskModel, Repair, Limit
    <2>3. \A b \in Attempts \ {a} : /\ stage'[b] = stage[b] /\ cost'[b] = cost[b]
                                     /\ calls'[b] = calls[b] /\ review'[b] = review[b]
                                     /\ error'[b] = error[b]
      BY DEF Agent, ReviewByRules, AskModel, Repair, Limit, Request, Charge, Answered, TypeOK
    <2>4. error[a] # "final"
      BY <2>1 DEF ReadyInv
    <2>5. \A c \in Costs : cost[a] + c \in Nat
      BY DEF TypeOK
    <2> QED
      BY <2>1, <2>2, <2>3, <2>4, <2>5 DEF CallsInv, TypeOK, Before
  <1>1. Alone(a)
    BY <1>0 DEF Alone
  <1> DEFINE Passed ==
        /\ cost[a] <= Budget
        /\ Len(review'[a].findings) <= MaxFindings
        /\ Grounded(a, review[a].findings)'
      Moved ==
        /\ stage'[a] \in {"repair", "limits", "ready", "thrown"}
        /\ stage'[a] = "repair" => calls'[a] = 1
        /\ calls'[a] <= 2
        /\ stage'[a] = "ready" => cost'[a] = cost[a] /\ Passed
        /\ error'[a] = "final" => stage'[a] = "thrown" /\ cost'[a] > Budget
        /\ stage'[a] = "thrown" => error'[a] # "none"
  <1>2. Moved /\ TypeOK'
    <2> USE DEF Stages
    <2>1. CASE ReviewByRules(a)
      <3>1. PICK fs \in RuleFindings(a) :
               review' = [review EXCEPT ![a] = [findings |-> Truncated(fs),
                                       verdict |-> Verdict(fs), score |-> Score(fs)]]
        BY <2>1 DEF ReviewByRules
      <3>2. Truncated(fs) \in Findings /\ Score(fs) \in 0..100
        BY RuleFindingsType, TruncatedFacts, ScoreType
      <3>3. [findings |-> Truncated(fs), verdict |-> Verdict(fs), score |-> Score(fs)]
               \in Reviews
        BY <3>2 DEF Reviews, Verdict, Findings
      <3>4. review' \in [Attempts -> Reviews]
        BY <3>1, <3>3 DEF TypeOK
      <3> QED
        BY <1>0, <2>1, <3>4 DEF ReviewByRules, TypeOK, setting, row
    <2>2. ASSUME Answered(a)
          PROVE  review' \in [Attempts -> Reviews]
      <3>1. PICK fs \in ModelFindings, verdict \in {"ready", "needs_changes"} :
               review' = [review EXCEPT ![a] = [findings |-> fs, verdict |-> verdict,
                                                score |-> 50]]
        BY <2>2 DEF Answered
      <3>2. fs \in Findings
        BY PlaceAssumption DEF Findings
      <3>3. [findings |-> fs, verdict |-> verdict, score |-> 50] \in Reviews
        BY <3>2 DEF Reviews, Findings
      <3> QED
        BY <3>1, <3>3 DEF TypeOK
    <2>3. Charge(a) => cost' \in [Attempts -> Nat]
      BY <1>0 DEF Charge, TypeOK
    <2>4. CASE AskModel(a)
      <3>1. calls' \in [Attempts -> Nat] /\ calls'[a] = 1 /\ cost' \in [Attempts -> Nat]
        BY <1>0, <2>3, <2>4 DEF AskModel, Request, TypeOK
      <3>2. review' \in [Attempts -> Reviews]
        BY <2>2, <2>4 DEF AskModel, TypeOK
      <3>3. /\ stage' \in [Attempts -> Stages] /\ stage'[a] \in {"repair", "limits", "thrown"}
            /\ error' \in [Attempts -> {"none", "target", "retry", "final"}]
            /\ error'[a] # "final"
            /\ stage'[a] = "thrown" => error'[a] # "none"
        BY <1>0, <2>4 DEF AskModel, Answered, TypeOK
      <3> QED
        BY <1>0, <3>1, <3>2, <3>3 DEF TypeOK, setting, row
    <2>5. CASE Repair(a)
      <3>1. calls' \in [Attempts -> Nat] /\ calls'[a] = 2 /\ cost' \in [Attempts -> Nat]
        BY <1>0, <2>3, <2>5 DEF Repair, Request, TypeOK
      <3>2. review' \in [Attempts -> Reviews]
        BY <2>2, <2>5 DEF Repair, TypeOK
      <3>3. /\ stage' \in [Attempts -> Stages] /\ stage'[a] \in {"limits", "thrown"}
            /\ error' \in [Attempts -> {"none", "target", "retry", "final"}]
            /\ error'[a] # "final"
            /\ stage'[a] = "thrown" => error'[a] # "none"
        BY <1>0, <2>5 DEF Repair, Answered, TypeOK
      <3> QED
        BY <1>0, <3>1, <3>2, <3>3 DEF TypeOK, setting, row
    <2>6. CASE Limit(a)
      <3> DEFINE t == Truncated(review[a].findings)
      <3>0. t \in Findings /\ Len(t) <= MaxFindings
        BY <1>0, TruncatedFacts DEF Reviews, Findings
      <3>1. CASE Throw(a, "retry") /\ UNCHANGED review
        BY <1>0, <2>6, <3>1 DEF Limit, TypeOK, setting, row
      <3>2. CASE cost[a] > Budget /\ Throw(a, "final") /\ UNCHANGED review
        BY <1>0, <2>6, <3>2 DEF Limit, TypeOK, setting, row
      <3>3. CASE /\ Grounded(a, t) /\ ~(cost[a] > Budget)
                 /\ review' = [review EXCEPT ![a].findings = Truncated(@)]
                 /\ Goto(a, "ready") /\ UNCHANGED error
        <4> HIDE DEF t
        <4>1. review' = [review EXCEPT ![a] = [review[a] EXCEPT !.findings = t]]
          BY <3>3 DEF TypeOK, t
        <4>2. /\ [review[a] EXCEPT !.findings = t] \in Reviews
              /\ [review[a] EXCEPT !.findings = t].findings = t
          BY <1>0, <3>0 DEF Reviews, Findings
        <4>3. review' \in [Attempts -> Reviews] /\ review'[a].findings = t
          BY <4>1, <4>2 DEF TypeOK
        <4>4. Grounded(a, review[a].findings)'
          BY <1>0, <3>3, <4>3 DEF Grounded, Known, setting
        <4>5. cost[a] <= Budget
          BY <3>3 DEF TypeOK
        <4> QED
          BY <1>0, <2>6, <3>0, <3>3, <4>3, <4>4, <4>5 DEF Limit, TypeOK, setting, row
      <3> QED
        BY <2>6, <3>1, <3>2, <3>3 DEF Limit
    <2> QED
      BY <2>1, <2>4, <2>5, <2>6 DEF Agent
  <1>3. next'[a] \in Nat \ {0} /\ (kind = "repository" => evidence'[a] \subseteq Paths)
    BY <1>0 DEF KindInv
  <1> QED
    BY <1>0, <1>1, <1>2, <1>3, WorkInv DEF Before

\* The steps of the worker on the row, and of time.
LEMMA WorkerInv ==
  ASSUME RunInv, Worker \/ BackoffEnds
  PROVE  RunInv'
  <1> USE LimitAssumption
  <1> USE DEF RunInv, work, setting, Close
  <1>1. ASSUME Claim PROVE RunInv'
    <2> DEFINE a == attempts + 1
    <2>1. /\ a \in Attempts /\ a \in Nat /\ a \in 0..MaxAttempts /\ attempts \in Nat /\ Attempts \subseteq Nat
          /\ stage[a] = "off" /\ current = 0 /\ stored = 0
      BY <1>1 DEF Claim, TypeOK, Attempts, RowInv
    <2>2. /\ stage' \in [Attempts -> Stages] /\ stage'[a] = "target"
          /\ \A b \in Attempts \ {a} : stage'[b] = stage[b]
          /\ job' = "processing" /\ attempts' = a /\ current' = a
          /\ UNCHANGED <<work, late, stored>>
      BY <1>1, <2>1 DEF Claim, Goto, TypeOK, Stages
    <2> HIDE DEF a
    <2>3. TypeOK'
      BY <2>1, <2>2 DEF TypeOK
    <2>4. RowInv'
      <3>0. \A b \in Attempts : stage[b] = "off" <=> b > attempts
        BY DEF RowInv
      <3>1. \A b \in Attempts : stage'[b] = "off" <=> b > a
        BY <2>1, <2>2, <3>0 DEF a
      <3>2. a # 0
        BY <2>1 DEF a
      <3>3. /\ job' \in {"queued", "waiting", "processing"} => stored' = 0
            /\ job' = "processing" <=> current' # 0
            /\ current' # 0 => current' = attempts'
            /\ job' # "completed"
            /\ \A b \in Attempts : stage'[b] = "off" <=> b > attempts'
        BY <2>1, <2>2, <3>1, <3>2
      <3>4. late' => current' # 0
        BY <2>2, <3>2
      <3> QED
        BY <3>3, <3>4 DEF RowInv
    <2>5. KindInv' /\ CallsInv' /\ ReadyInv'
      BY <2>1, <2>2 DEF KindInv, CallsInv, ReadyInv, Before, Grounded, Known
    <2> QED
      BY <2>3, <2>4, <2>5
  <1>2. ASSUME NEW status \in {"waiting"} \cup Closed, current # 0, Close(status),
               IF status = "completed" THEN stage[current] = "ready" /\ stored' = current
                                       ELSE stored' = stored
        PROVE  RunInv'
    <2>0. /\ late' \in BOOLEAN /\ current' \in 0..MaxAttempts
          /\ stored' \in 0..MaxAttempts
          /\ job' \in {"queued", "waiting", "processing"} \cup Closed
      <3>1. late' \in BOOLEAN
        BY <1>2
      <3>2. /\ current' \in 0..MaxAttempts /\ stored' \in 0..MaxAttempts
            /\ job' \in {"queued", "waiting", "processing"} \cup Closed
        BY <1>2 DEF TypeOK
      <3> QED
        BY <3>1, <3>2
    <2>1. TypeOK'
      BY <1>2, <2>0 DEF TypeOK
    <2>2. RowInv'
      BY <1>2 DEF RowInv, Closed
    <2>3. KindInv' /\ CallsInv' /\ ReadyInv'
      BY <1>2 DEF KindInv, CallsInv, ReadyInv, Grounded, Known
    <2> QED
      BY <2>1, <2>2, <2>3
  <1>3. ASSUME Store PROVE RunInv'
    BY <1>2, <1>3 DEF Store, Closed
  <1>4. ASSUME current # 0, Retry, UNCHANGED stored PROVE RunInv'
    BY <1>2, <1>4 DEF Retry, Closed
  <1>5. ASSUME GiveUp PROVE RunInv'
    <2>1. current \in Attempts /\ error[current] \in {"target", "retry", "final"}
      BY <1>5 DEF GiveUp, TypeOK, Attempts, ReadyInv
    <2>2. CASE Close("needs_input") \/ Close("failed")
      BY <1>2, <1>5, <2>2 DEF GiveUp, Closed
    <2>3. CASE Retry
      BY <1>4, <1>5, <2>3 DEF GiveUp
    <2> QED
      BY <1>5, <2>1, <2>2, <2>3 DEF GiveUp
  <1>6. ASSUME GiveUpLate PROVE RunInv'
    BY <1>4, <1>6 DEF GiveUpLate
  <1>7. ASSUME Expire \/ BackoffEnds PROVE RunInv'
    <2>1. /\ UNCHANGED <<work, attempts, current, stage, stored>>
          /\ \/ job' = job /\ late' = TRUE /\ current # 0
             \/ job = "waiting" /\ job' = "queued" /\ late' = late
      BY <1>7 DEF Expire, BackoffEnds
    <2>2. TypeOK'
      BY <2>1 DEF TypeOK
    <2>3. RowInv'
      BY <2>1 DEF RowInv, Closed
    <2>4. KindInv' /\ CallsInv' /\ ReadyInv'
      BY <2>1 DEF KindInv, CallsInv, ReadyInv, Grounded, Known
    <2> QED
      BY <2>2, <2>3, <2>4
  <1> QED
    BY <1>1, <1>3, <1>5, <1>6, <1>7 DEF Worker

LEMMA RunInvariance == Spec => []RunInv
  <1>1. RunInv /\ [Next]_vars => RunInv'
    <2> SUFFICES ASSUME RunInv, [Next]_vars PROVE RunInv'
      OBVIOUS
    <2>1. CASE Next
      BY <2>1, InspectInv, AgentInv, WorkerInv DEF Next
    <2>2. CASE UNCHANGED vars
      BY <2>2 DEF vars, RunInv, TypeOK, RowInv, KindInv, CallsInv, ReadyInv, Before, Grounded, Known
    <2> QED
      BY <2>1, <2>2
  <1> QED
    BY InitRunInv, <1>1, PTL DEF Spec

\* Rows, attempts, evidence and results keep their types.
THEOREM TypeCorrect == Spec => []TypeOK
  <1>1. RunInv => TypeOK
    BY DEF RunInv
  <1> QED
    BY <1>1, RunInvariance, PTL

\* What closes a job is the review of the last attempt, and its findings point
\* into the evidence of that attempt, whatever the model said and orphans do.
THEOREM ReportGroundedAlways == Spec => []ReportGrounded
  <1>1. RunInv => ReportGrounded
    <2> SUFFICES ASSUME RunInv, job = "completed" PROVE ReportGrounded
      BY DEF ReportGrounded
    <2>1. stored \in Attempts /\ stored = attempts /\ stage[stored] = "ready"
      BY LimitAssumption DEF RunInv, RowInv, TypeOK, Attempts
    <2>2. /\ Len(review[stored].findings) <= MaxFindings
          /\ \A i \in DOMAIN review[stored].findings :
                review[stored].findings[i].place \in Known(stored)
      BY <2>1 DEF RunInv, ReadyInv, Grounded
    <2>3. Known(stored) \subseteq evidence[stored] \cup {Url, Nowhere}
      BY DEF Known
    <2> QED
      BY <2>1, <2>2, <2>3 DEF ReportGrounded
  <1> QED
    BY <1>1, RunInvariance, PTL

-----------------------------------------------------------------------------
(* Reviews by the rules. *)

Grave(fs) == \A i \in DOMAIN fs : fs[i].severity \in {"high", "medium"}

LEMMA NoteFacts ==
  ASSUME NEW x, NEW S, NEW severity \in {"high", "medium"},
         NEW place \in Paths \cup {Url, Nowhere, Elsewhere}
  PROVE  /\ Note(x \in S, severity, place) \in Findings
         /\ Note(x \notin S, severity, place) \in Findings
         /\ Grave(Note(x \in S, severity, place))
         /\ Grave(Note(x \notin S, severity, place))
         /\ Len(Note(x \in S, severity, place)) = 0 => x \notin S
         /\ Len(Note(x \notin S, severity, place)) = 0 => x \in S
  <1> DEFINE Kind == [severity : Severities, place : Paths \cup {Url, Nowhere, Elsewhere}]
             f == [severity |-> severity, place |-> place]
  <1>1. f \in Kind /\ f.severity = severity
    BY DEF Severities
  <1> HIDE DEF Kind, f
  <1>2. /\ <<f>> \in Seq(Kind) /\ <<>> \in Seq(Kind)
        /\ Len(<<f>>) = 1 /\ DOMAIN <<f>> = {1} /\ <<f>>[1] = f /\ DOMAIN <<>> = {}
    BY <1>1
  <1>3. /\ Note(x \in S, severity, place) = IF x \in S THEN <<f>> ELSE <<>>
        /\ Note(x \notin S, severity, place) = IF x \in S THEN <<>> ELSE <<f>>
    BY DEF Note, f
  <1>4. Grave(<<f>>) /\ Grave(<<>>)
    BY <1>1, <1>2 DEF Grave
  <1>5. <<f>> \in Findings /\ <<>> \in Findings
    BY <1>2 DEF Findings, FindingsOf, Kind
  <1>6. CASE x \in S
    BY <1>2, <1>3, <1>4, <1>5, <1>6
  <1>7. CASE x \notin S
    BY <1>2, <1>3, <1>4, <1>5, <1>7
  <1> QED
    BY <1>6, <1>7

LEMMA JoinFacts ==
  ASSUME NEW f \in Findings, NEW g \in Findings, Grave(f), Grave(g)
  PROVE  f \o g \in Findings /\ Grave(f \o g) /\ (Len(f \o g) = 0 => Len(f) = 0 /\ Len(g) = 0)
  <1> DEFINE Kind == [severity : Severities, place : Paths \cup {Url, Nowhere, Elsewhere}]
  <1>1. f \in Seq(Kind) /\ g \in Seq(Kind)
    BY DEF Findings, FindingsOf
  <1> HIDE DEF Kind
  <1>2. /\ f \o g \in Seq(Kind) /\ Len(f \o g) = Len(f) + Len(g)
        /\ \A i \in 1..(Len(f) + Len(g)) :
              (f \o g)[i] = IF i <= Len(f) THEN f[i] ELSE g[i - Len(f)]
        /\ Len(f) \in Nat /\ Len(g) \in Nat
        /\ DOMAIN f = 1..Len(f) /\ DOMAIN g = 1..Len(g)
        /\ DOMAIN (f \o g) = 1..(Len(f) + Len(g))
    BY <1>1
  <1>3. Grave(f \o g)
    <2> SUFFICES ASSUME NEW i \in 1..(Len(f) + Len(g))
                 PROVE  (f \o g)[i].severity \in {"high", "medium"}
      BY <1>2 DEF Grave
    <2>1. CASE i <= Len(f)
      BY <1>2, <2>1 DEF Grave
    <2>2. CASE ~(i <= Len(f))
      <3>1. i - Len(f) \in 1..Len(g)
        BY <1>2, <2>2
      <3> QED
        BY <1>2, <2>2, <3>1 DEF Grave
    <2> QED
      BY <2>1, <2>2
  <1> QED
    BY <1>2, <1>3 DEF Findings, FindingsOf, Kind

\* Grave findings are the same as a lost point and as a verdict to change.
LEMMA GraveVerdict ==
  ASSUME NEW fs \in Findings, Grave(fs)
  PROVE  /\ (Verdict(fs) = "ready") = (Score(fs) = 100)
         /\ Verdict(fs) = "ready" => Len(fs) = 0
  <1> DEFINE With(s) == {i \in DOMAIN fs : fs[i].severity = s}
             h == Cardinality(With("high"))
             m == Cardinality(With("medium"))
             l == Cardinality(With("low"))
  <1>1. DOMAIN fs = 1..Len(fs) /\ Len(fs) \in Nat
    BY DEF Findings, FindingsOf
  <1>2. IsFiniteSet(1..Len(fs))
    BY <1>1, FS_Interval
  <1>3. \A s : IsFiniteSet(With(s))
    BY <1>1, <1>2, FS_Subset
  <1>4. \A s : Cardinality(With(s)) \in Nat /\ (Cardinality(With(s)) = 0 <=> With(s) = {})
    BY <1>3, FS_CardinalityType, FS_EmptySet
  <1>5. Score(fs) = LET s == 100 - 22 * h - 10 * m - 3 * l IN IF s < 0 THEN 0 ELSE s
    BY DEF Score, Many
  <1>6. With("low") = {}
    BY DEF Grave
  <1>7. (Verdict(fs) = "ready") <=> With("high") = {} /\ With("medium") = {}
    BY DEF Verdict
  <1>8. With("high") = {} /\ With("medium") = {} => DOMAIN fs = {}
    BY DEF Grave
  <1>9. h \in Nat /\ m \in Nat /\ l = 0
    BY <1>4, <1>6
  <1>10. h = 0 /\ m = 0 <=> With("high") = {} /\ With("medium") = {}
    BY <1>4
  <1> HIDE DEF With, h, m, l
  <1>11. Score(fs) = 100 <=> h = 0 /\ m = 0
    BY <1>5, <1>9
  <1>12. DOMAIN fs = {} => Len(fs) = 0
    BY <1>1
  <1> QED
    BY <1>7, <1>8, <1>10, <1>11, <1>12

Evident(a) ==
    IF kind = "repository" THEN evidence[a] # {}
    ELSE {"challenge", "options"} \subseteq evidence[a]

LEMMA RuleVerdict ==
  ASSUME TypeOK, KindInv, NEW a \in Attempts, NEW fs \in RuleFindings(a)
  PROVE  /\ (Verdict(fs) = "ready") = (Score(fs) = 100)
         /\ Verdict(fs) = "ready" => Evident(a)
  <1>1. fs \in Findings /\ Grave(fs) /\ (Len(fs) = 0 => Evident(a))
    <2>1. CASE kind = "repository"
      <3>1. fs \in RepositoryFindings(a) /\ evidence[a] \subseteq Paths
        BY <2>1 DEF RuleFindings, KindInv
      <3>2. PICK missing \in Lacks(a), p1 \in FirstPaths(a), p2 \in FirstPaths(a) :
                  fs = Complain(missing, p1, p2)
        BY <3>1 DEF RepositoryFindings
      <3>3. {p1, p2} \subseteq Paths \cup {Url, Nowhere, Elsewhere}
        BY <3>1, <3>2 DEF FirstPaths
      <3> DEFINE n1 == Note("x402" \in missing, "medium", p1)
                 n2 == Note("payment" \in missing, "medium", p2)
      <3>4. /\ n1 \in Findings /\ Grave(n1) /\ (Len(n1) = 0 => "x402" \notin missing)
            /\ n2 \in Findings /\ Grave(n2)
        BY <3>3, NoteFacts
      <3>5. fs = n1 \o n2
        BY <3>2 DEF Complain
      <3> HIDE DEF n1, n2
      <3>6. fs \in Findings /\ Grave(fs) /\ (Len(fs) = 0 => "x402" \notin missing)
        BY <3>4, <3>5, JoinFacts
      <3>7. "x402" \notin missing => evidence[a] # {}
        BY <3>2 DEF Lacks, Marks
      <3> QED
        BY <2>1, <3>6, <3>7 DEF Evident
    <2>2. CASE kind # "repository"
      <3> DEFINE n1 == Note("challenge" \notin evidence[a], "high", Url)
                 n2 == Note("options" \notin evidence[a], "medium", Url)
                 n3 == Note("error" \in evidence[a], "high", Url)
      <3>1. /\ n1 \in Findings /\ Grave(n1) /\ (Len(n1) = 0 => "challenge" \in evidence[a])
            /\ n2 \in Findings /\ Grave(n2) /\ (Len(n2) = 0 => "options" \in evidence[a])
            /\ n3 \in Findings /\ Grave(n3)
        BY NoteFacts
      <3>2. fs = (n1 \o n2) \o n3
        BY <2>2 DEF RuleFindings, EndpointFindings
      <3> HIDE DEF n1, n2, n3
      <3>3. /\ n1 \o n2 \in Findings /\ Grave(n1 \o n2)
            /\ Len(n1 \o n2) = 0 => Len(n1) = 0 /\ Len(n2) = 0
        BY <3>1, JoinFacts
      <3>4. /\ fs \in Findings /\ Grave(fs)
            /\ Len(fs) = 0 => Len(n1 \o n2) = 0
        BY <3>1, <3>2, <3>3, JoinFacts
      <3> QED
        BY <2>2, <3>1, <3>3, <3>4 DEF Evident
    <2> QED
      BY <2>1, <2>2
  <1> QED
    BY <1>1, GraveVerdict

RulesInv ==
    provider = "deterministic" =>
        \A a \in Attempts :
            /\ stage[a] # "repair"
            /\ stage[a] \in {"limits", "ready"} =>
                /\ (review[a].verdict = "ready") = (review[a].score = 100)
                /\ review[a].verdict = "ready" => Evident(a)

LEMMA SettingFixed == RunInv /\ [Next]_vars => UNCHANGED setting
  <1> SUFFICES ASSUME RunInv, [Next]_vars PROVE UNCHANGED setting
    OBVIOUS
  <1> USE DEF setting, row, work, Close
  <1>1. ASSUME NEW a \in Attempts, Inspect(a) PROVE UNCHANGED setting
    BY <1>1 DEF Inspect, Normalize, ReadTree, ReadFile, FilesRead, Probe
  <1>2. ASSUME NEW a \in Attempts, Agent(a) PROVE UNCHANGED setting
    BY <1>2 DEF Agent, ReviewByRules, AskModel, Repair, Limit
  <1>3. ASSUME Claim PROVE UNCHANGED setting
    BY <1>3 DEF Claim
  <1>4. ASSUME Store PROVE UNCHANGED setting
    BY <1>4 DEF Store
  <1>5. ASSUME GiveUp PROVE UNCHANGED setting
    <2>1. error[current] \in {"target", "retry", "final"}
      BY <1>5 DEF GiveUp, RunInv, TypeOK, Attempts, ReadyInv
    <2> QED
      BY <1>5, <2>1 DEF GiveUp, Retry
  <1>6. ASSUME Expire \/ BackoffEnds \/ GiveUpLate PROVE UNCHANGED setting
    BY <1>6 DEF Expire, BackoffEnds, GiveUpLate, Retry
  <1>7. CASE UNCHANGED vars
    BY <1>7 DEF vars
  <1> QED
    BY <1>1, <1>2, <1>3, <1>4, <1>5, <1>6, <1>7 DEF Next, Worker

LEMMA RulesStep == RunInv /\ RulesInv /\ [Next]_vars => RulesInv'
  <1> SUFFICES ASSUME RunInv, RulesInv, [Next]_vars, provider = "deterministic"
               PROVE  RulesInv'
    BY SettingFixed DEF RulesInv, setting
  <1> USE DEF RunInv, RulesInv, Goto, Throw
  <1>1. ASSUME NEW a \in Attempts, Inspect(a) PROVE RulesInv'
    <2> DEFINE Small == /\ UNCHANGED <<setting, review>>
                        /\ stage'[a] \notin {"repair", "limits", "ready"}
                        /\ \A b \in Attempts \ {a} : /\ stage'[b] = stage[b]
                                                      /\ evidence'[b] = evidence[b]
    <2> USE DEF TypeOK
    <2>2. ASSUME Normalize(a) PROVE Small
      BY <2>2 DEF Normalize
    <2>3. ASSUME ReadTree(a) PROVE Small
      BY <2>3 DEF ReadTree
    <2>4. ASSUME ReadFile(a) PROVE Small
      BY <2>4 DEF ReadFile
    <2>5. ASSUME FilesRead(a) PROVE Small
      BY <2>5 DEF FilesRead
    <2>6. ASSUME Probe(a) PROVE Small
      BY <2>6 DEF Probe
    <2>1. Small
      BY <1>1, <2>2, <2>3, <2>4, <2>5, <2>6 DEF Inspect
    <2> QED
      BY <2>1 DEF Evident, setting
  <1>2. ASSUME NEW a \in Attempts, ReviewByRules(a) PROVE RulesInv'
    <2>1. PICK fs \in RuleFindings(a) :
               review' = [review EXCEPT ![a] = [findings |-> Truncated(fs),
                                       verdict |-> Verdict(fs), score |-> Score(fs)]]
      BY <1>2 DEF ReviewByRules
    <2>2. /\ (Verdict(fs) = "ready") = (Score(fs) = 100)
          /\ Verdict(fs) = "ready" => Evident(a)
      BY RuleVerdict
    <2>3. /\ review'[a].verdict = Verdict(fs) /\ review'[a].score = Score(fs)
          /\ stage'[a] = "limits" /\ UNCHANGED <<setting, evidence>>
          /\ \A b \in Attempts \ {a} : stage'[b] = stage[b] /\ review'[b] = review[b]
      BY <1>2, <2>1 DEF ReviewByRules, TypeOK
    <2> QED
      BY <2>2, <2>3 DEF Evident, setting
  <1>3. ASSUME NEW a \in Attempts, Limit(a) PROVE RulesInv'
    <2>1. /\ review'[a].verdict = review[a].verdict /\ review'[a].score = review[a].score
          /\ \A b \in Attempts \ {a} : review'[b] = review[b]
      <3>1. CASE UNCHANGED review
        BY <3>1
      <3>2. CASE review' = [review EXCEPT ![a].findings = Truncated(@)]
        <4> DEFINE t == Truncated(review[a].findings)
        <4>1. review' = [review EXCEPT ![a] = [review[a] EXCEPT !.findings = t]]
          BY <3>2 DEF TypeOK
        <4>2. review[a] \in Reviews
          BY DEF TypeOK
        <4> HIDE DEF t
        <4>3. /\ [review[a] EXCEPT !.findings = t].verdict = review[a].verdict
              /\ [review[a] EXCEPT !.findings = t].score = review[a].score
          BY <4>2 DEF Reviews
        <4> QED
          BY <4>1, <4>3 DEF TypeOK
      <3> QED
        BY <1>3, <3>1, <3>2 DEF Limit
    <2>2. /\ stage[a] = "limits" /\ stage'[a] \in {"ready", "thrown"}
          /\ UNCHANGED <<setting, evidence>>
          /\ \A b \in Attempts \ {a} : stage'[b] = stage[b]
      BY <1>3 DEF Limit, TypeOK
    <2> QED
      BY <2>1, <2>2 DEF Evident, setting
  <1>4. ASSUME NEW a \in Attempts, AskModel(a) \/ Repair(a) PROVE FALSE
    BY <1>4 DEF AskModel, Repair
  <1>5. CASE Worker \/ BackoffEnds
    <2> DEFINE Small == /\ UNCHANGED <<setting, evidence, review>>
                        /\ \A a \in Attempts : stage'[a] \in {stage[a], "target"}
    <2>1. ASSUME Claim PROVE Small
      BY <2>1 DEF Claim, work, setting, TypeOK
    <2>2. ASSUME Store PROVE Small
      BY <2>2 DEF Store, Close, work, setting
    <2>3. ASSUME GiveUp PROVE Small
      <3>1. error[current] \in {"target", "retry", "final"}
        BY <2>3 DEF GiveUp, TypeOK, Attempts, ReadyInv
      <3>2. \E status : Close(status)
        BY <2>3, <3>1 DEF GiveUp, Retry
      <3> QED
        BY <3>2 DEF Close, work, setting
    <2>4. ASSUME Expire \/ BackoffEnds \/ GiveUpLate PROVE Small
      BY <2>4 DEF Expire, BackoffEnds, GiveUpLate, Retry, Close, work, setting
    <2>5. Small
      BY <1>5, <2>1, <2>2, <2>3, <2>4 DEF Worker
    <2> QED
      BY <2>5 DEF Evident, setting
  <1>6. CASE UNCHANGED vars
    BY <1>6 DEF vars, Evident
  <1> QED
    BY <1>1, <1>2, <1>3, <1>4, <1>5, <1>6 DEF Next, Agent

\* Reviews by the rules find nothing ready without evidence, and ready is the
\* same as a full score.
THEOREM ReadyNeedsEvidenceAlways == Spec => []ReadyNeedsEvidence
  <1>1. Init => RulesInv
    BY DEF Init, RulesInv
  <1>2. RunInv /\ RulesInv => ReadyNeedsEvidence
    <2> SUFFICES ASSUME RunInv, RulesInv, job = "completed", provider = "deterministic"
                 PROVE  ReadyNeedsEvidence
      BY DEF ReadyNeedsEvidence
    <2>1. stored \in Attempts /\ stage[stored] = "ready"
      BY LimitAssumption DEF RunInv, RowInv, TypeOK, Attempts
    <2> QED
      BY <2>1 DEF RulesInv, Evident, ReadyNeedsEvidence
  <1> QED
    BY <1>1, <1>2, RulesStep, RunInvariance, PTL DEF Spec

-----------------------------------------------------------------------------
(* What a review costs. *)

\* An attempt that has had no answer it could use has no review, and one that
\* has is grounded already; so the budget alone can still end it.
SpendOf(a) ==
    /\ provider = "deterministic" => cost[a] = 0
    /\ stage[a] \in {"off"} \cup Before => cost[a] = 0 /\ review[a] = NoReview
    /\ stage[a] = "repair" => review[a] = NoReview /\ provider # "deterministic"
    /\ stage[a] = "limits" /\ provider # "deterministic" =>
        review[a] # NoReview /\ Grounded(a, review[a].findings)
    /\ stage[a] = "thrown" /\ cost[a] > Budget =>
        IF review[a] = NoReview THEN error[a] = "retry" /\ calls[a] = 2
        ELSE error[a] = "final"
SpendInv == \A a \in Attempts : SpendOf(a)

LEMMA PrefixGrounded ==
  ASSUME NEW a, NEW fs \in Findings, Grounded(a, fs)
  PROVE  Grounded(a, Truncated(fs))
  <1> DEFINE n == IF Len(fs) < MaxFindings THEN Len(fs) ELSE MaxFindings
             Kind == [severity : Severities, place : Paths \cup {Url, Nowhere, Elsewhere}]
  <1>1. fs \in Seq(Kind) /\ n \in 0..Len(fs)
    BY LimitAssumption DEF Findings, FindingsOf
  <1> HIDE DEF Kind, n
  <1>2. /\ DOMAIN SubSeq(fs, 1, n) = 1..n /\ DOMAIN fs = 1..Len(fs) /\ 1..n \subseteq 1..Len(fs)
        /\ \A i \in 1..n : SubSeq(fs, 1, n)[i] = fs[i]
    BY <1>1
  <1> QED
    BY <1>2 DEF Grounded, Truncated, n

\* Attempts other than the one that moves keep what they have spent.
LEMMA SpendFrame ==
  ASSUME SpendInv, UNCHANGED setting, NEW a \in Attempts, SpendOf(a)',
         \A b \in Attempts \ {a} :
            /\ stage'[b] = stage[b] /\ evidence'[b] = evidence[b] /\ cost'[b] = cost[b]
            /\ calls'[b] = calls[b] /\ review'[b] = review[b] /\ error'[b] = error[b]
  PROVE  SpendInv'
  <1> SUFFICES ASSUME NEW b \in Attempts \ {a} PROVE SpendOf(b)'
    BY DEF SpendInv
  <1>1. SpendOf(b)
    BY DEF SpendInv
  <1> QED
    BY <1>1 DEF SpendOf, Grounded, Known, setting

LEMMA SpendStep == RunInv /\ SpendInv /\ [Next]_vars => SpendInv'
  <1> SUFFICES ASSUME RunInv, SpendInv, [Next]_vars PROVE SpendInv'
    OBVIOUS
  <1>0. UNCHANGED setting
    BY SettingFixed
  <1> USE DEF RunInv, Goto, Throw
  <1>1. ASSUME NEW a \in Attempts, Inspect(a) PROVE SpendInv'
    <2> DEFINE Small == /\ UNCHANGED <<cost, calls, review>>
                        /\ stage[a] \in Before /\ stage'[a] \in Before \cup {"thrown"}
                        /\ \A b \in Attempts \ {a} : /\ stage'[b] = stage[b]
                                                      /\ evidence'[b] = evidence[b]
                                                      /\ error'[b] = error[b]
    <2> USE DEF TypeOK, Before
    <2>2. ASSUME Normalize(a) PROVE Small
      BY <2>2 DEF Normalize
    <2>3. ASSUME ReadTree(a) PROVE Small
      BY <2>3 DEF ReadTree
    <2>4. ASSUME ReadFile(a) PROVE Small
      BY <2>4 DEF ReadFile
    <2>5. ASSUME FilesRead(a) PROVE Small
      BY <2>5 DEF FilesRead
    <2>6. ASSUME Probe(a) PROVE Small
      BY <2>6 DEF Probe
    <2>1. Small
      BY <1>1, <2>2, <2>3, <2>4, <2>5, <2>6 DEF Inspect
    <2>7. cost[a] = 0 /\ review[a] = NoReview /\ ~(0 > Budget)
      BY <2>1, LimitAssumption DEF SpendInv, SpendOf
    <2>8. SpendOf(a)'
      BY <1>0, <2>1, <2>7 DEF SpendOf
    <2> QED
      BY <1>0, <2>1, <2>8, SpendFrame
  <1>2. ASSUME NEW a \in Attempts, Agent(a) PROVE SpendInv'
    <2>0. /\ UNCHANGED evidence
          /\ \A b \in Attempts \ {a} : /\ stage'[b] = stage[b] /\ cost'[b] = cost[b]
                                        /\ calls'[b] = calls[b] /\ review'[b] = review[b]
                                        /\ error'[b] = error[b]
      BY <1>2 DEF Agent, ReviewByRules, AskModel, Repair, Limit, Request, Charge, Answered, TypeOK
    <2>1. SpendOf(a) /\ cost[a] \in Nat /\ Budget \in Nat
      BY LimitAssumption DEF SpendInv, TypeOK
    <2>2. ASSUME Answered(a)
          PROVE  /\ review'[a] # NoReview /\ stage'[a] = "limits"
                 /\ Grounded(a, review[a].findings)'
      <3>1. PICK fs \in ModelFindings, verdict \in {"ready", "needs_changes"} :
               /\ Grounded(a, fs) /\ Goto(a, "limits")
               /\ review' = [review EXCEPT ![a] = [findings |-> fs, verdict |-> verdict,
                                                   score |-> 50]]
        BY <2>2 DEF Answered
      <3>2. review'[a] = [findings |-> fs, verdict |-> verdict, score |-> 50]
        BY <3>1 DEF TypeOK
      <3>3. review'[a].score = 50 /\ review'[a].findings = fs /\ NoReview.score = 0
        BY <3>2 DEF NoReview
      <3> QED
        BY <1>0, <2>0, <3>1, <3>3 DEF Grounded, Known, setting, TypeOK
    <2>3. CASE ReviewByRules(a)
      <3>1. provider = "deterministic" /\ cost'[a] = 0 /\ stage'[a] = "limits"
        BY <2>1, <2>3 DEF ReviewByRules, SpendOf, TypeOK
      <3> QED
        BY <1>0, <2>0, <3>1, SpendFrame DEF SpendOf, Before, setting
    <2>4. CASE AskModel(a)
      <3>1. /\ provider = "model" /\ stage[a] = "agent" /\ cost[a] = 0 /\ review[a] = NoReview
        BY <2>1, <2>4 DEF AskModel, SpendOf, Before
      <3>2. \/ Answered(a)
            \/ stage'[a] = "repair" /\ review'[a] = NoReview
            \/ stage'[a] = "thrown" /\ cost'[a] = 0
        BY <2>4, <3>1 DEF AskModel, TypeOK
      <3>3. ~(0 > Budget)
        BY <2>1
      <3>4. SpendOf(a)'
        BY <1>0, <2>2, <3>1, <3>2, <3>3 DEF SpendOf, Before, setting
      <3> QED
        BY <1>0, <2>0, <3>4, SpendFrame
    <2>5. CASE Repair(a)
      <3>1. /\ stage[a] = "repair" /\ review[a] = NoReview /\ calls[a] = 1
        BY <2>1, <2>5 DEF Repair, SpendOf, CallsInv
      <3>2. provider # "deterministic"
        BY <2>1, <3>1 DEF SpendOf
      <3>3. calls'[a] = 2
        BY <2>5, <3>1 DEF Repair, Request, TypeOK
      <3>4. \/ Answered(a)
            \/ stage'[a] = "thrown" /\ error'[a] = "retry" /\ review'[a] = NoReview
        BY <2>5, <3>1 DEF Repair, TypeOK
      <3>5. SpendOf(a)'
        BY <1>0, <2>2, <3>2, <3>3, <3>4 DEF SpendOf, Before, setting
      <3> QED
        BY <1>0, <2>0, <3>5, SpendFrame
    <2>6. CASE Limit(a)
      <3>1. stage[a] = "limits" /\ cost'[a] = cost[a]
        BY <2>6 DEF Limit
      <3>2. cost[a] > Budget => /\ provider # "deterministic" /\ review[a] # NoReview
                                /\ Grounded(a, review[a].findings)
        BY <2>1, <3>1 DEF SpendOf
      <3>3. review[a].findings \in Findings
        BY DEF TypeOK, Reviews, Findings
      <3>4. cost[a] > Budget => Grounded(a, Truncated(review[a].findings))
        BY <3>2, <3>3, PrefixGrounded
      <3>5. cost[a] > Budget => /\ stage'[a] = "thrown" /\ error'[a] = "final"
                                /\ review'[a] = review[a]
        BY <2>6, <3>4 DEF Limit, TypeOK
      <3>6. stage'[a] \in {"thrown", "ready"}
        BY <2>6 DEF Limit, TypeOK
      <3>7. provider = "deterministic" => cost[a] = 0
        BY <2>1 DEF SpendOf
      <3>8. SpendOf(a)'
        BY <1>0, <3>1, <3>2, <3>5, <3>6, <3>7 DEF SpendOf, Before, setting
      <3> QED
        BY <1>0, <2>0, <3>8, SpendFrame
    <2> QED
      BY <1>2, <2>3, <2>4, <2>5, <2>6 DEF Agent
  <1>3. CASE Worker \/ BackoffEnds
    <2> DEFINE Small == /\ UNCHANGED <<evidence, cost, calls, review, error>>
                        /\ \A a \in Attempts : \/ stage'[a] = stage[a]
                                               \/ stage[a] = "off" /\ stage'[a] = "target"
    <2>1. ASSUME Claim PROVE Small
      <3>1. \A a \in Attempts : a = attempts + 1 => stage[a] = "off"
        BY LimitAssumption DEF RowInv, TypeOK, Attempts
      <3> QED
        BY <2>1, <3>1 DEF Claim, work, TypeOK
    <2>2. ASSUME Store PROVE Small
      BY <2>2 DEF Store, Close, work
    <2>3. ASSUME GiveUp PROVE Small
      <3>1. error[current] \in {"target", "retry", "final"}
        BY <2>3 DEF GiveUp, TypeOK, Attempts, ReadyInv
      <3>2. \E status : Close(status)
        BY <2>3, <3>1 DEF GiveUp, Retry
      <3> QED
        BY <3>2 DEF Close, work
    <2>4. ASSUME Expire \/ BackoffEnds \/ GiveUpLate PROVE Small
      BY <2>4 DEF Expire, BackoffEnds, GiveUpLate, Retry, Close, work
    <2>5. Small
      BY <1>3, <2>1, <2>2, <2>3, <2>4 DEF Worker
    <2> SUFFICES ASSUME NEW a \in Attempts PROVE SpendOf(a)'
      BY DEF SpendInv
    <2>6. SpendOf(a)
      BY DEF SpendInv
    <2> QED
      BY <1>0, <2>5, <2>6 DEF SpendOf, Before, Grounded, Known, setting
  <1>4. CASE UNCHANGED vars
    BY <1>4 DEF vars, SpendInv, SpendOf, Grounded, Known
  <1> QED
    BY <1>1, <1>2, <1>3, <1>4 DEF Next

\* Two requests for each attempt at most, no review over the budget is ready,
\* and the budget ends for good every attempt that it refuses.
THEOREM SpendingBoundedAlways == Spec => []SpendingBounded
  <1>1. RunInv /\ SpendInv => SpendingBounded
    <2> SUFFICES ASSUME RunInv, SpendInv, NEW a \in Attempts
                 PROVE  /\ calls[a] <= IF a <= attempts THEN 2 ELSE 0
                        /\ stage[a] = "ready" => cost[a] <= Budget
                        /\ error[a] = "final" => cost[a] > Budget
                        /\ stage[a] = "thrown" /\ cost[a] > Budget =>
                            IF review[a] = NoReview THEN error[a] = "retry" /\ calls[a] = 2
                            ELSE error[a] = "final"
      BY DEF SpendingBounded
    <2>1. calls[a] <= IF a <= attempts THEN 2 ELSE 0
      <3>1. a \in Nat /\ attempts \in Nat /\ calls[a] \in Nat
        BY LimitAssumption DEF RunInv, TypeOK, Attempts
      <3>2. a > attempts => calls[a] = 0
        BY DEF RunInv, RowInv, CallsInv
      <3>3. calls[a] <= 2
        BY DEF RunInv, CallsInv
      <3> QED
        BY <3>1, <3>2, <3>3
    <2>2. /\ stage[a] = "ready" => cost[a] <= Budget
          /\ error[a] = "final" => cost[a] > Budget
      BY DEF RunInv, ReadyInv
    <2> QED
      BY <2>1, <2>2 DEF SpendInv, SpendOf
  <1>2. Init => SpendInv
    BY DEF Init, SpendInv, SpendOf
  <1> QED
    BY <1>1, <1>2, SpendStep, RunInvariance, PTL DEF Spec

-----------------------------------------------------------------------------
(* ReviewRun inside ReviewQueue. *)

\* An attempt that moves touches nothing of the others and nothing of the row.
LEMMA AttemptAlone ==
  ASSUME TypeOK, NEW a \in Attempts, Inspect(a) \/ Agent(a)
  PROVE  /\ stage[a] \notin {"ready", "thrown"}
         /\ UNCHANGED row
         /\ \A b \in Attempts \ {a} : stage'[b] = stage[b] /\ error'[b] = error[b]
  <1> USE DEF Goto, Throw, TypeOK
  <1>1. CASE Inspect(a)
    BY <1>1 DEF Inspect, Normalize, ReadTree, ReadFile, FilesRead, Probe
  <1>2. CASE Agent(a)
    <2>1. CASE ReviewByRules(a)
      BY <2>1 DEF ReviewByRules
    <2>2. CASE AskModel(a)
      BY <2>2 DEF AskModel, Answered
    <2>3. CASE Repair(a)
      BY <2>3 DEF Repair, Answered
    <2>4. CASE Limit(a)
      BY <2>4 DEF Limit
    <2> QED
      BY <1>2, <2>1, <2>2, <2>3, <2>4 DEF Agent
  <1> QED
    BY <1>1, <1>2

\* Where the worker of ReviewQueue is after the end of a review.
Ends == {"complete", "blocked", "failRetry", "failFinal"}

LEMMA WorkerAtFacts ==
  ASSUME RunInv
  PROVE  /\ WorkerAt \in {"claim", "review"} \cup Ends
         /\ WorkerAt = "claim" <=> current = 0
         /\ current # 0 => current \in Attempts
  <1>1. current # 0 => current \in Attempts
    BY LimitAssumption DEF RunInv, TypeOK, Attempts
  <1>2. ASSUME current # 0, stage[current] = "thrown"
        PROVE  error[current] \in {"target", "retry", "final"}
    BY <1>1, <1>2 DEF RunInv, TypeOK, ReadyInv
  <1> QED
    BY <1>1, <1>2 DEF WorkerAt, Ends

\* A step of the attempt waited for is invisible to the queue, until the review
\* ends: that is the one step Review of the worker.
LEMMA AttemptQueueStep ==
  ASSUME RunInv, RunInv', NEW a \in Attempts, Inspect(a) \/ Agent(a)
  PROVE  [Queue!Next]_(Queue!vars)
  <1>1. /\ stage[a] \notin {"ready", "thrown"}
        /\ UNCHANGED <<job, attempts, current, late>>
        /\ \A b \in Attempts \ {a} : stage'[b] = stage[b] /\ error'[b] = error[b]
    BY AttemptAlone DEF RunInv, row
  <1>2. current # 0 => current \in Attempts
    BY WorkerAtFacts
  <1>3. WorkerAt' = WorkerAt \/ (WorkerAt = "review" /\ WorkerAt' \in Ends)
    <2>1. CASE current = 0 \/ late \/ current # a
      BY <1>1, <1>2, <2>1 DEF WorkerAt
    <2>2. CASE current = a /\ current # 0 /\ ~late
      <3>1. WorkerAt = "review"
        BY <1>1, <2>2 DEF WorkerAt
      <3>2. WorkerAt' \in {"review"} \cup Ends
        <4>1. ASSUME stage'[a] = "thrown" PROVE error'[a] \in {"target", "retry", "final"}
          BY <4>1 DEF RunInv, TypeOK, ReadyInv
        <4> QED
          BY <1>1, <2>2, <4>1 DEF WorkerAt, Ends
      <3> QED
        BY <3>1, <3>2
    <2> QED
      BY <2>1, <2>2
  <1>4. UNCHANGED <<JobRow, attempts, current, job>>
    BY <1>1 DEF JobRow
  <1>5. CASE WorkerAt' = WorkerAt
    BY <1>4, <1>5 DEF Queue!vars
  <1>6. CASE WorkerAt = "review" /\ WorkerAt' \in Ends
    <2>1. Queue!Review("worker")
      BY <1>4, <1>6 DEF Queue!Review, Queue!Outcomes, Queue!Blocked, Queue!tables, Ends
    <2> QED
      BY <2>1 DEF Queue!Next, Queue!Loop
  <1> QED
    BY <1>3, <1>5, <1>6

\* The steps of the row are the transactions of the queue.
LEMMA WorkerQueueStep ==
  ASSUME RunInv, RunInv', Worker \/ BackoffEnds
  PROVE  [Queue!Next]_(Queue!vars)
  <1> DEFINE o == "order"
             w == "worker"
  <1>0. /\ attempts \in Nat /\ MaxAttempts \in Nat /\ attempts <= MaxAttempts
        /\ job = "processing" <=> current # 0
        /\ current # 0 => current = attempts /\ current \in Attempts
    BY LimitAssumption DEF RunInv, RowInv, TypeOK, Attempts
  <1>10. attempts < MaxAttempts + 1
    BY <1>0
  <1>1. CASE Claim
    <2>1. /\ job = "queued" /\ current = 0 /\ job' = "processing"
          /\ attempts' = attempts + 1 /\ current' = attempts + 1 /\ current' # 0
          /\ late' = FALSE /\ stage'[current'] = "target"
      <3>1. job = "queued" /\ job' = "processing" /\ attempts' = attempts + 1
            /\ current' = attempts + 1 /\ Goto(attempts + 1, "target") /\ late' = late
        BY <1>1 DEF Claim
      <3>2. current = 0 /\ ~late
        BY <1>0, <3>1 DEF RunInv, RowInv
      <3>3. attempts + 1 \in Attempts
        BY <1>0, <1>1 DEF Claim, Attempts
      <3> QED
        BY <1>0, <3>1, <3>2, <3>3 DEF Goto, RunInv, TypeOK
    <2>2. WorkerAt = "claim" /\ WorkerAt' = "review"
      BY <2>1 DEF WorkerAt
    <2>3. Queue!ClaimNextReviewJob(w, o)
      BY <2>1, <2>2 DEF Queue!ClaimNextReviewJob, Queue!Claimable, JobRow, Closed
    <2> QED
      BY <2>3 DEF Queue!Next, Queue!Loop, Queue!Claim
  <1>2. CASE BackoffEnds
    <2>1. /\ job = "waiting" /\ job' = "queued"
          /\ UNCHANGED <<attempts, current, late, stage, error>>
      BY <1>2 DEF BackoffEnds, work
    <2>2. WorkerAt' = WorkerAt
      BY <2>1 DEF WorkerAt
    <2>3. Queue!BackoffEnds(o)
      BY <2>1, <2>2 DEF Queue!BackoffEnds, JobRow, Closed
    <2> QED
      BY <2>3 DEF Queue!Next, Queue!Clock
  <1>3. CASE Expire
    <2>1. /\ WorkerAt = "review" /\ WorkerAt' = "failRetry"
          /\ UNCHANGED <<attempts, current, job, JobRow>>
      BY <1>3 DEF Expire, WorkerAt, JobRow
    <2>2. Queue!Review(w)
      BY <2>1 DEF Queue!Review, Queue!Outcomes, Queue!Blocked, Queue!tables
    <2> QED
      BY <2>2 DEF Queue!Next, Queue!Loop
  <1>4. ASSUME NEW status \in Closed \cup {"waiting"}, Close(status), current # 0
        PROVE  /\ job' = status /\ current' = 0 /\ attempts' = attempts
               /\ WorkerAt' = "claim" /\ job = "processing"
               /\ JobRow = [status |-> "processing", attempts |-> attempts,
                            available |-> "now", owner |-> w, lease |-> "live"]
    BY <1>0, <1>4 DEF Close, WorkerAt, JobRow
  <1>5. ASSUME NEW status \in Closed, Close(status), current # 0,
               \/ WorkerAt = "complete" /\ status = "completed"
               \/ WorkerAt = "blocked" /\ status = "needs_input"
               \/ WorkerAt = "failRetry" /\ status = "failed" /\ ~(attempts < MaxAttempts)
               \/ WorkerAt = "failFinal" /\ status = "failed"
        PROVE  Queue!Close(w)
    <2>1. /\ job' = status /\ current' = 0 /\ attempts' = attempts
          /\ WorkerAt' = "claim" /\ job = "processing"
          /\ JobRow = [status |-> "processing", attempts |-> attempts,
                       available |-> "now", owner |-> w, lease |-> "live"]
      BY <1>4, <1>5
    <2>2. JobRow' = [status |-> status, attempts |-> attempts, available |-> "now",
                     owner |-> "nobody", lease |-> "none"]
      BY <1>5, <2>1 DEF JobRow, Closed
    <2>3. Queue!HoldsLease(w) /\ Queue!CloseJob(w, status) /\ Queue!NextTurn(w)
      <3>1. Queue!HoldsLease(w)
        BY <1>5, <2>1 DEF Queue!HoldsLease
      <3>2. Queue!CloseJob(w, status)
        BY <1>5, <2>1, <2>2 DEF Queue!CloseJob, Queue!Row, Queue!EventFor, Closed
      <3>3. Queue!NextTurn(w)
        BY <1>10, <2>1 DEF Queue!NextTurn
      <3> QED
        BY <3>1, <3>2, <3>3
    <2>4. WorkerAt = "failRetry" => ~Queue!RetryLeft(o)
      BY <1>5, <2>1 DEF Queue!RetryLeft
    <2> QED
      BY <1>5, <2>1, <2>3, <2>4
         DEF Queue!Close, Queue!Complete, Queue!CompleteNeedsInput, Queue!Fail, Queue!Blocked
  <1>6. ASSUME Retry, current # 0, WorkerAt = "failRetry" PROVE Queue!Close(w)
    <2>1. CASE ~(attempts < MaxAttempts)
      BY <1>5, <1>6, <2>1 DEF Retry, Closed
    <2>2. CASE attempts < MaxAttempts
      <3>1. /\ job' = "waiting" /\ current' = 0 /\ attempts' = attempts
            /\ WorkerAt' = "claim" /\ job = "processing"
            /\ JobRow = [status |-> "processing", attempts |-> attempts,
                         available |-> "now", owner |-> w, lease |-> "live"]
        BY <1>4, <1>6, <2>2 DEF Retry
      <3>2. JobRow' = [status |-> "queued", attempts |-> attempts, available |-> "later",
                       owner |-> "nobody", lease |-> "none"]
        BY <3>1 DEF JobRow
      <3>3. Queue!HoldsLease(w) /\ Queue!NextTurn(w) /\ Queue!RetryLeft(o)
        <4>1. Queue!HoldsLease(w) /\ Queue!RetryLeft(o)
          BY <1>6, <2>2, <3>1 DEF Queue!HoldsLease, Queue!RetryLeft
        <4>2. Queue!NextTurn(w)
          BY <1>10, <3>1 DEF Queue!NextTurn
        <4> QED
          BY <4>1, <4>2
      <3>4. Queue!Fail(w)
        BY <1>6, <3>1, <3>2, <3>3 DEF Queue!Fail, Queue!Row, Closed
      <3> QED
        BY <3>4 DEF Queue!Close
    <2> QED
      BY <2>1, <2>2
  <1>7. CASE Store
    <2>1. WorkerAt = "complete"
      BY <1>7 DEF Store, WorkerAt
    <2>2. Queue!Close(w)
      BY <1>5, <1>7, <2>1 DEF Store, Closed
    <2> QED
      BY <2>2 DEF Queue!Next, Queue!Loop
  <1>8. CASE GiveUp
    <2>1. error[current] \in {"target", "retry", "final"}
      BY <1>0, <1>8 DEF GiveUp, RunInv, TypeOK, ReadyInv
    <2>2. \/ WorkerAt = "blocked" /\ Close("needs_input")
          \/ WorkerAt = "failRetry" /\ Retry
          \/ WorkerAt = "failFinal" /\ Close("failed")
      <3>1. /\ error[current] = "target" => WorkerAt = "blocked"
            /\ error[current] = "retry" => WorkerAt = "failRetry"
            /\ error[current] = "final" => WorkerAt = "failFinal"
        BY <1>8 DEF GiveUp, WorkerAt
      <3>2. /\ error[current] = "target" => Close("needs_input")
            /\ error[current] = "retry" => Retry
            /\ error[current] = "final" => Close("failed")
        BY <1>8, <2>1 DEF GiveUp
      <3> QED
        BY <2>1, <3>1, <3>2
    <2>3. Queue!Close(w)
      BY <1>5, <1>6, <1>8, <2>2 DEF GiveUp, Closed
    <2> QED
      BY <2>3 DEF Queue!Next, Queue!Loop
  <1>9. CASE GiveUpLate
    <2>1. Queue!Close(w)
      BY <1>6, <1>9 DEF GiveUpLate, WorkerAt
    <2> QED
      BY <2>1 DEF Queue!Next, Queue!Loop
  <1> QED
    BY <1>1, <1>2, <1>3, <1>7, <1>8, <1>9 DEF Worker

\* Every step of a review is one of ReviewQueue for the order and its worker,
\* or leaves what ReviewQueue sees unchanged.
THEOREM RunStepsAreQueueSteps == Spec => QueueSteps
  <1>1. RunInv /\ RunInv' /\ [Next]_vars => [Queue!Next]_(Queue!vars)
    <2> SUFFICES ASSUME RunInv, RunInv', [Next]_vars PROVE [Queue!Next]_(Queue!vars)
      OBVIOUS
    <2>1. CASE UNCHANGED vars
      BY <2>1 DEF vars, Queue!vars, WorkerAt, JobRow
    <2> QED
      BY <2>1, AttemptQueueStep, WorkerQueueStep DEF Next
  <1> QED
    BY <1>1, RunInvariance, PTL DEF Spec, QueueSteps

=============================================================================
