--------------------------- MODULE AnalysisProofs ---------------------------
EXTENDS Analysis, FoldProofs, FiniteSetTheorems, SequenceTheorems, TLAPS

-----------------------------------------------------------------------------
(* Eval runs. *)

ExampleRows == [trace : SourceTraces, want : Wants]
ResultRows ==
  [run : Nat, example : 1 .. MaxExamples, trace : SourceTraces \union {None},
   status : {"succeeded", "failed", "skipped"}, scores : Seq(Verdicts),
   asserted : {"passed", "failed", None}]
EvalSummaries == {Summary(rows) : rows \in SUBSET ResultRows}
EvalRows ==
  [status : {"running", "completed"}, version : Nat \union {None}, summary : EvalSummaries]
RevertEvents ==
  [stage : {"propose_fix", "verify", "close"}, traces : SUBSET SourceTraces, target : Nat,
   commit : Nat \union {None}]

RunJobs ==
  [at : {"list", "resolve", "judge", "record"}, run : Nat, judges : Panels,
   runner : Runners, todo : SUBSET ((1 .. MaxExamples) \X ExampleRows),
   done : SUBSET ResultRows, trace : SourceTraces \union {None},
   row : ResultRows \union {None}]
EvalJobs ==
  {job \in RunJobs : /\ job.at \in {"judge", "record"} => job.todo # {}
                     /\ job.at = "record" => job.row \in ResultRows}
RevertJobs ==
  [at : {"revert"}, run : Nat, target : Nat] \union [at : {"reverted"}, run : Nat, commit : Nat]

EvalTyped ==
  /\ dataset \in Seq(ExampleRows \union {None}) /\ Len(dataset) <= MaxExamples
  /\ evals \in Seq(EvalRows)
  /\ results \subseteq ResultRows
  /\ prompts \in Seq({"x", "y"}) /\ {prod, owner} \subseteq Nat \union {None}
  /\ DOMAIN reverts \subseteq Nat /\ reverts \in [DOMAIN reverts -> RevertEvents]
  /\ evaluators \in [Evaluators -> EvalJobs \union RevertJobs \union {None}]

(* An approved revert goes to the version of the run before, which is there; and the
   tag has its text while it belongs to an event. *)
Restoring ==
  /\ \A r \in DOMAIN evals : evals[r].version \in DOMAIN prompts \union {None}
  /\ \A r \in DOMAIN reverts : /\ r \in DOMAIN evals /\ r - 1 \in DOMAIN evals
                              /\ reverts[r].target = evals[r - 1].version
                              /\ reverts[r].target \in DOMAIN prompts
  /\ \A w \in Evaluators : evaluators[w] # None =>
       /\ evaluators[w].at \in {"revert", "reverted"} => evaluators[w].run \in DOMAIN reverts
       /\ evaluators[w].at = "revert" =>
            evaluators[w].target = reverts[evaluators[w].run].target
  /\ owner # None => /\ owner \in DOMAIN reverts /\ prod \in DOMAIN prompts
                     /\ prompts[prod] = prompts[reverts[owner].target]

(* The fields of a job. *)
LEMMA JobFields ==
  ASSUME NEW job \in EvalJobs \union RevertJobs
  PROVE  /\ job.run \in Nat
         /\ job.at \in {"list", "resolve", "judge", "record"} => job \in EvalJobs
         /\ job.at = "revert" => job \in [at : {"revert"}, run : Nat, target : Nat]
         /\ job.at = "reverted" => job \in [at : {"reverted"}, run : Nat, commit : Nat]
         /\ job.at \in {"list", "resolve", "judge", "record", "revert", "reverted"}
BY DEF EvalJobs, RunJobs, RevertJobs

(* The example a run has come to is one of those it has left. *)
LEMMA NextIsLeft ==
  ASSUME NEW job \in EvalJobs, job.todo # {}
  PROVE  NextExample(job) \in job.todo
<1> DEFINE numbers == {x[1] : x \in job.todo}
<1>1. job.todo \subseteq (1 .. MaxExamples) \X ExampleRows /\ MaxExamples \in Nat
  BY EvalAssumption DEF EvalJobs, RunJobs
<1>2. numbers \subseteq 1 .. MaxExamples /\ numbers # {}
  <2>1. ASSUME NEW x \in job.todo PROVE x[1] \in 1 .. MaxExamples
    BY <1>1
  <2> QED
    BY <2>1, Zenon
<1>3. PICK m \in numbers : \A k \in numbers : k <= m
  BY <1>1, <1>2, Largest
<1>4. PICK x \in job.todo : x[1] = m
  BY Zenon
<1>5. \A y \in job.todo : y[1] <= x[1]
  BY <1>3, <1>4
<1> QED
  BY <1>5, Zenon DEF NextExample

(* A result without scores. *)
LEMMA NoScores == <<>> \in Seq(Verdicts)
OBVIOUS

(* A job that goes on to record a result. *)
LEMMA RecordingTyped ==
  ASSUME NEW job \in EvalJobs, job.todo # {},
         NEW status \in {"succeeded", "failed", "skipped"}, NEW u \in SourceTraces \union {None},
         NEW scores \in Seq(Verdicts),
         NEW asserted \in {"passed", "failed", None}
  PROVE  LET next == Recording(job, status, u, scores, asserted) IN
           /\ next \in EvalJobs
           /\ next.at = "record" /\ next.run = job.run /\ next.todo = job.todo
           /\ next.done = job.done
           /\ next.row \in ResultRows /\ next.row.run = job.run
           /\ next.row.example = NextExample(job)[1]
<1>1. NextExample(job)[1] \in 1 .. MaxExamples
  BY NextIsLeft DEF EvalJobs, RunJobs
<1> DEFINE row == [run |-> job.run, example |-> NextExample(job)[1], trace |-> u,
                   status |-> status, scores |-> scores, asserted |-> asserted]
<1>2. row \in ResultRows /\ row.run = job.run /\ row.example = NextExample(job)[1]
  BY <1>1 DEF ResultRows, EvalJobs, RunJobs
<1> HIDE DEF row
<1>3. [job EXCEPT !.at = "record", !.row = row] \in EvalJobs
  BY <1>2 DEF EvalJobs, RunJobs
<1> QED
  BY <1>2, <1>3 DEF Recording, row, EvalJobs, RunJobs

(* A job that goes on to judge a trace. *)
LEMMA ExamineTyped ==
  ASSUME NEW job \in EvalJobs, job.todo # {}, NEW u \in SourceTraces
  PROVE  /\ Examine(job, u) \in EvalJobs
         /\ Examine(job, u).at = "judge" /\ Examine(job, u).run = job.run
         /\ Examine(job, u).todo = job.todo /\ Examine(job, u).done = job.done
BY DEF Examine, EvalJobs, RunJobs

(* A request that changes its own job, and nothing else that has a type. *)
Onward(w, next) ==
  /\ Moves(w, next)
  /\ UNCHANGED <<dataset, evals, promptRegistry>>

LEMMA OnwardTyped ==
  ASSUME EvalTyped, NEW w \in Evaluators, NEW next \in EvalJobs \union RevertJobs \union {None},
         Onward(w, next), results' \subseteq ResultRows
  PROVE  EvalTyped'
BY DEF EvalTyped, Onward, Moves, promptRegistry

(* A row or an event of which a field is written. *)
LEMMA Rewritten ==
  /\ \A row \in EvalRows, summary \in EvalSummaries :
       [row EXCEPT !.status = "completed", !.summary = summary] \in EvalRows
  /\ \A event \in RevertEvents, stage \in {"propose_fix", "verify", "close"} :
       [event EXCEPT !.stage = stage] \in RevertEvents
  /\ \A event \in RevertEvents, commit \in Nat :
       [event EXCEPT !.stage = "verify", !.commit = commit] \in RevertEvents
<1>1. ASSUME NEW row \in EvalRows, NEW summary \in EvalSummaries
      PROVE  [row EXCEPT !.status = "completed", !.summary = summary] \in EvalRows
  BY DEF EvalRows
<1>2. ASSUME NEW event \in RevertEvents, NEW stage \in {"propose_fix", "verify", "close"}
      PROVE  [event EXCEPT !.stage = stage] \in RevertEvents
  BY DEF RevertEvents
<1>3. ASSUME NEW event \in RevertEvents, NEW commit \in Nat
      PROVE  [event EXCEPT !.stage = "verify", !.commit = commit] \in RevertEvents
  BY DEF RevertEvents
<1> QED
  BY <1>1, <1>2, <1>3

LEMMA EvalStaysTyped ==
  ASSUME EvalTyped, Restoring, [EvalNext]_evalVars
  PROVE  EvalTyped'
<1>1. ASSUME NEW t \in SourceTraces, NEW s \in Spans, StoreSpan(t, s) PROVE EvalTyped'
  BY <1>1 DEF StoreSpan, EvalTyped, evalTables, promptRegistry
<1>2. ASSUME NEW t \in SourceTraces, NEW want \in Wants, AddToDataset(t, want) PROVE EvalTyped'
  <2>1. [trace |-> t, want |-> want] \in ExampleRows
    BY DEF ExampleRows
  <2>2. dataset' \in Seq(ExampleRows \union {None}) /\ Len(dataset') <= MaxExamples
    BY <1>2, <2>1, EvalAssumption DEF AddToDataset, EvalTyped
  <2> QED
    BY <1>2, <2>2 DEF AddToDataset, EvalTyped, evalTables, promptRegistry
<1>3. ASSUME NEW t \in SourceTraces, DeleteTrace(t) PROVE EvalTyped'
  <2>1. /\ Len(dataset) \in Nat /\ DOMAIN dataset = 1 .. Len(dataset)
        /\ dataset' \in [1 .. Len(dataset) -> ExampleRows \union {None}]
    BY <1>3 DEF DeleteTrace, EvalTyped
  <2>2. dataset' \in Seq(ExampleRows \union {None}) /\ Len(dataset') = Len(dataset)
    BY <2>1, SeqDef
  <2> QED
    BY <1>3, <2>2 DEF DeleteTrace, EvalTyped, promptRegistry
<1>4. ASSUME NEW text \in {"x", "y"}, NEW tagged \in BOOLEAN, CommitPromptText(text, tagged)
      PROVE  EvalTyped'
  <2>1. prompts' \in Seq({"x", "y"}) /\ {prod', owner'} \subseteq Nat \union {None}
    BY <1>4 DEF CommitPromptText, EvalTyped
  <2> QED
    BY <1>4, <2>1 DEF CommitPromptText, EvalTyped, evalTables
<1>5. ASSUME NEW w \in Evaluators, NEW panel \in Panels, NEW runner \in Runners,
             NEW version \in DOMAIN prompts \union {None}, StartEval(w, panel, runner, version)
      PROVE  EvalTyped'
  <2>1. [status |-> "running", version |-> version, summary |-> NoSummary] \in EvalRows
    BY DEF EvalRows, EvalSummaries, NoSummary, EvalTyped
  <2>2. evals' \in Seq(EvalRows) /\ Len(evals') \in Nat
    BY <1>5, <2>1 DEF StartEval, EvalTyped
  <2> DEFINE job == [at |-> "list", run |-> Len(evals'), judges |-> panel, runner |-> runner,
                     todo |-> {}, done |-> {}, trace |-> None, row |-> None]
  <2>3. job \in EvalJobs
    BY <2>2 DEF EvalJobs, RunJobs
  <2> QED
    BY <1>5, <2>2, <2>3 DEF StartEval, EvalTyped, Moves, promptRegistry
<1>6. ASSUME NEW w \in Evaluators, EvalStep(w) PROVE EvalTyped'
  <2> DEFINE job == evaluators[w]
  <2>1. evaluators[w] # None => evaluators[w] \in EvalJobs \union RevertJobs
    BY DEF EvalTyped
  <2>2. ASSUME evaluators[w] # None, evaluators[w].at \in {"list", "resolve", "judge", "record"}
        PROVE  job \in EvalJobs
    BY <2>1, <2>2, JobFields
  <2>3. CASE ListExamples(w)
    <3>1. {<<e, dataset[e]>> : e \in {x \in DOMAIN dataset : dataset[x] # None}}
            \subseteq (1 .. MaxExamples) \X ExampleRows
      BY EvalAssumption DEF EvalTyped
    <3>2. [job EXCEPT !.at = "resolve",
             !.todo = {<<e, dataset[e]>> : e \in {x \in DOMAIN dataset : dataset[x] # None}}]
            \in EvalJobs
      BY <2>2, <2>3, <3>1 DEF ListExamples, EvaluatorAt, EvalJobs, RunJobs
    <3> QED
      BY <2>3, <3>2, OnwardTyped DEF ListExamples, Onward, evalTables, EvalTyped
  <2>4. CASE ResolveInProcess(w)
    <3>1. job \in EvalJobs /\ job.todo # {}
      BY <2>2, <2>4 DEF ResolveInProcess, Resolving, EvaluatorAt
    <3>2. NextExample(job)[2].trace \in SourceTraces
      BY <3>1, NextIsLeft DEF EvalJobs, RunJobs, ExampleRows
    <3> QED
      BY <2>4, <3>1, <3>2, ExamineTyped, OnwardTyped
         DEF ResolveInProcess, Onward, evalTables, EvalTyped
  <2>4a. CASE RunnerUnknown(w)
    <3>1. job \in EvalJobs /\ job.todo # {}
      BY <2>2, <2>4a DEF RunnerUnknown, Resolving, EvaluatorAt
    <3>2. NextExample(job)[2].trace \in SourceTraces
      BY <3>1, NextIsLeft DEF EvalJobs, RunJobs, ExampleRows
    <3>3. Recording(job, "skipped", NextExample(job)[2].trace, <<>>, None) \in EvalJobs
      BY <3>1, <3>2, RecordingTyped, NoScores
    <3> QED
      BY <2>4a, <3>3, OnwardTyped DEF RunnerUnknown, Onward, evalTables, EvalTyped
  <2>5. CASE RunnerFails(w)
    <3>1. job \in EvalJobs /\ job.todo # {}
      BY <2>2, <2>5 DEF RunnerFails, Resolving, EvaluatorAt
    <3>2. Recording(job, "failed", None, <<>>, None) \in EvalJobs
      BY <3>1, RecordingTyped, NoScores
    <3> QED
      BY <2>5, <3>2, OnwardTyped DEF RunnerFails, Onward, evalTables, EvalTyped
  <2>6. ASSUME NEW u \in SourceTraces, RunnerNames(w, u) PROVE EvalTyped'
    <3>1. job \in EvalJobs /\ job.todo # {}
      BY <2>2, <2>6 DEF RunnerNames, Resolving, EvaluatorAt
    <3> QED
      BY <2>6, <3>1, ExamineTyped, OnwardTyped
         DEF RunnerNames, Onward, evalTables, EvalTyped
  <2>7. ASSUME NEW u \in SourceTraces, NEW output \in SUBSET Spans, NEW complete \in BOOLEAN,
               IngestOutput(w, u, output, complete)
        PROVE  EvalTyped'
    <3>1. job \in EvalJobs /\ job.todo # {}
      BY <2>2, <2>7 DEF IngestOutput, Resolving, EvaluatorAt
    <3>2. Recording(job, "failed", u, <<>>, None) \in EvalJobs /\ Examine(job, u) \in EvalJobs
      BY <3>1, RecordingTyped, NoScores, ExamineTyped
    <3> QED
      BY <2>7, <3>2, OnwardTyped DEF IngestOutput, Onward, evalTables, EvalTyped
  <2>8. ASSUME NEW scores \in Seq(Verdicts), JudgeExample(w, scores) PROVE EvalTyped'
    <3>1. job \in EvalJobs /\ job.todo # {} /\ job.trace \in SourceTraces \union {None}
      BY <2>2, <2>8 DEF JudgeExample, EvaluatorAt, EvalJobs, RunJobs
    <3> DEFINE asserted == AssertionStatus(SpansOf(job.trace), NextExample(job)[2].want)
    <3>2. asserted \in {"passed", "failed", None}
      BY DEF AssertionStatus
    <3>3. ResultStatus(asserted, scores) \in {"succeeded", "failed", "skipped"}
      BY DEF ResultStatus
    <3> HIDE DEF asserted
    <3>4. /\ Recording(job, "failed", job.trace, <<>>, None) \in EvalJobs
          /\ Recording(job, ResultStatus(asserted, scores), job.trace, scores, asserted) \in EvalJobs
      BY <3>1, <3>2, <3>3, RecordingTyped, NoScores
    <3>5. \E next \in EvalJobs : Moves(w, next)
      BY <2>8, <3>4 DEF JudgeExample, asserted
    <3> QED
      BY <2>8, <3>5, OnwardTyped DEF JudgeExample, Onward, evalTables, EvalTyped
  <2>9. CASE RecordResult(w)
    <3>1. job \in EvalJobs /\ job.row \in ResultRows
      BY <2>2, <2>9 DEF RecordResult, EvaluatorAt, EvalJobs
    <3>2. [job EXCEPT !.at = "resolve", !.todo = TodoAfter(job), !.done = @ \union {job.row},
                      !.trace = None, !.row = None] \in EvalJobs
      BY <3>1 DEF EvalJobs, RunJobs, TodoAfter
    <3>3. results' \subseteq ResultRows
      BY <2>9, <3>1 DEF RecordResult, EvalTyped
    <3> QED
      BY <2>9, <3>2, <3>3, OnwardTyped DEF RecordResult, Onward
  <2>10. CASE CompleteEval(w)
    <3>1. job \in EvalJobs
      BY <2>2, <2>10 DEF CompleteEval, EvaluatorAt
    <3>2. Summary(job.done) \in EvalSummaries
      BY <3>1 DEF EvalJobs, RunJobs, EvalSummaries
    <3>3. evals' \in Seq(EvalRows)
      <4> HIDE DEF job
      <4> DEFINE summary == Summary(job.done)
                 row == [evals[job.run] EXCEPT !.status = "completed", !.summary = summary]
      <4>1. evals' = [evals EXCEPT ![job.run] = row]
        BY <2>10 DEF CompleteEval, job
      <4>2. ASSUME job.run \in DOMAIN evals PROVE row \in EvalRows
        <5>1. evals[job.run] \in EvalRows
          BY <4>2 DEF EvalTyped
        <5>2. summary \in EvalSummaries
          BY <3>2 DEF job
        <5> HIDE DEF summary
        <5> QED
          BY <5>1, <5>2, Rewritten
      <4> HIDE DEF row
      <4>3. CASE job.run \in DOMAIN evals
        BY <4>1, <4>2, <4>3, ExceptSeq DEF EvalTyped
      <4>4. CASE job.run \notin DOMAIN evals
        <5>1. evals' = evals
          BY <4>1, <4>4 DEF EvalTyped
        <5> QED
          BY <5>1 DEF EvalTyped
      <4> QED
        BY <4>3, <4>4
    <3> QED
      BY <2>10, <3>3 DEF CompleteEval, EvalTyped, Moves, promptRegistry
  <2> QED
    BY <1>6, <2>3, <2>4, <2>4a, <2>5, <2>6, <2>7, <2>8, <2>9, <2>10 DEF EvalStep
<1>7. ASSUME NEW w \in Evaluators, EvalStops(w) PROVE EvalTyped'
  BY <1>7, OnwardTyped DEF EvalStops, Onward, evalTables, EvalTyped
<1>8. ASSUME NEW w \in Evaluators, NEW r \in DOMAIN reverts, StartRevert(w, r) PROVE EvalTyped'
  <2>1. [at |-> "revert", run |-> r, target |-> reverts[r].target] \in RevertJobs
    BY DEF RevertJobs, EvalTyped, RevertEvents
  <2> QED
    BY <1>8, <2>1, OnwardTyped DEF StartRevert, Onward, evalTables, EvalTyped
<1>9. ASSUME NEW w \in Evaluators, CommitRevert(w) PROVE EvalTyped'
  <2>1. evaluators[w] \in [at : {"revert"}, run : Nat, target : Nat]
    BY <1>9, JobFields DEF CommitRevert, EvaluatorAt, EvalTyped
  <2>2. prompts' \in Seq({"x", "y"}) /\ prod' \in Nat /\ owner' \in Nat
    <3>1. evaluators[w].target \in DOMAIN prompts
      BY <1>9 DEF CommitRevert, EvaluatorAt, Restoring
    <3>2. RevertedText(evaluators[w].target) \in {"x", "y"}
      BY <3>1 DEF RevertedText, EvalTyped
    <3> QED
      BY <1>9, <2>1, <3>2 DEF CommitRevert, EvalTyped
  <2>3. [at |-> "reverted", run |-> evaluators[w].run, commit |-> prod'] \in RevertJobs
    BY <2>1, <2>2 DEF RevertJobs
  <2> QED
    BY <1>9, <2>2, <2>3 DEF CommitRevert, EvalTyped, Moves, evalTables
<1>10. ASSUME NEW w \in Evaluators, MarkReverted(w) PROVE EvalTyped'
  <2>1. evaluators[w] \in [at : {"reverted"}, run : Nat, commit : Nat]
    BY <1>10, JobFields DEF MarkReverted, EvaluatorAt, EvalTyped
  <2> DEFINE event == [reverts[evaluators[w].run] EXCEPT !.stage = "verify",
                                                         !.commit = evaluators[w].commit]
  <2>2. evaluators[w].run \in DOMAIN reverts /\ event \in RevertEvents
    BY <1>10, <2>1, Rewritten DEF MarkReverted, EvaluatorAt, EvalTyped, Restoring
  <2>3. reverts' = [reverts EXCEPT ![evaluators[w].run] = event]
    BY <1>10 DEF MarkReverted
  <2> HIDE DEF event
  <2>4. DOMAIN reverts' = DOMAIN reverts /\ reverts' \in [DOMAIN reverts -> RevertEvents]
    BY <2>2, <2>3 DEF EvalTyped
  <2> QED
    BY <1>10, <2>4 DEF MarkReverted, EvalTyped, Moves, evalTables
<1>11. CASE PollEvals
  <2> DEFINE r == Len(evals)
  <2>1. /\ r \in Nat /\ r - 1 \in DOMAIN evals /\ evals[r - 1].version \in Nat
        /\ FailingTraces(r) \subseteq SourceTraces
    <3>1. Regressed /\ r \in Nat /\ r \in DOMAIN evals /\ r - 1 \in DOMAIN evals
      BY <1>11 DEF PollEvals, Regressed, EvalTyped
    <3>2. evals[r - 1].version \in Nat
      <4>1. evals[r - 1].version # None
        BY <3>1 DEF Regressed
      <4>2. evals[r - 1] \in EvalRows
        BY <3>1 DEF EvalTyped
      <4> QED
        BY <4>1, <4>2 DEF EvalRows
    <3>3. FailingTraces(r) \subseteq SourceTraces
      BY DEF FailingTraces, RowsOf, EvalTyped, ResultRows
    <3> QED
      BY <3>1, <3>2, <3>3
  <2> DEFINE known == r \in DOMAIN reverts
             closed == known /\ reverts[r].stage = "close"
             event == [stage |-> IF known /\ ~closed THEN reverts[r].stage ELSE "propose_fix",
                       traces |-> FailingTraces(r), target |-> evals[r - 1].version,
                       commit |-> IF known THEN reverts[r].commit ELSE None]
  <2>2. event \in RevertEvents
    BY <2>1 DEF EvalTyped, RevertEvents
  <2>3. reverts' = [k \in DOMAIN reverts \union {r} |-> IF k # r THEN reverts[k] ELSE event]
    BY <1>11 DEF PollEvals
  <2>4. DOMAIN reverts' \subseteq Nat /\ reverts' \in [DOMAIN reverts' -> RevertEvents]
    <3> HIDE DEF event, r
    <3> QED
      BY <2>1, <2>2, <2>3 DEF EvalTyped
  <2> QED
    BY <1>11, <2>4 DEF PollEvals, EvalTyped, evalTables
<1>12. ASSUME NEW r \in DOMAIN reverts, VerifyRevert(r) \/ IgnoreRevert(r) PROVE EvalTyped'
  <2>1. PICK stage \in {"propose_fix", "verify", "close"} :
               reverts' = [reverts EXCEPT ![r].stage = stage]
    BY <1>12 DEF VerifyRevert, IgnoreRevert
  <2>2. DOMAIN reverts' = DOMAIN reverts /\ reverts' \in [DOMAIN reverts -> RevertEvents]
    BY <2>1, Rewritten DEF EvalTyped
  <2> QED
    BY <1>12, <2>2 DEF VerifyRevert, IgnoreRevert, EvalTyped, evalTables
<1>13. CASE UNCHANGED evalVars
  BY <1>13 DEF evalVars, EvalTyped
<1> QED
  BY <1>1, <1>2, <1>3, <1>4, <1>5, <1>6, <1>7, <1>8, <1>9, <1>10, <1>11, <1>12, <1>13
     DEF EvalNext

(* A request that goes on, and changes no version and no event, keeps them. *)
LEMMA RestoringKept ==
  ASSUME EvalTyped, Restoring, NEW w \in Evaluators, NEW next, Moves(w, next),
         UNCHANGED promptRegistry, DOMAIN evals' = DOMAIN evals,
         \A r \in DOMAIN evals : evals'[r].version = evals[r].version,
         next # None => next.at \notin {"revert", "reverted"}
  PROVE  Restoring'
<1>1. \A v \in Evaluators : evaluators'[v] = IF v = w THEN next ELSE evaluators[v]
  BY DEF Moves, EvalTyped
<1>2. \A v \in Evaluators : evaluators'[v] # None =>
        /\ evaluators'[v].at \in {"revert", "reverted"} => evaluators'[v].run \in DOMAIN reverts
        /\ evaluators'[v].at = "revert" =>
             evaluators'[v].target = reverts[evaluators'[v].run].target
  BY <1>1 DEF Restoring
<1>3. \A r \in DOMAIN reverts : r - 1 \in DOMAIN evals /\ evals'[r - 1].version = evals[r - 1].version
  BY DEF Restoring
<1> QED
  BY <1>2, <1>3 DEF Restoring, promptRegistry

(* A prompt that gets another version keeps the others. *)
LEMMA VersionsStay ==
  ASSUME EvalTyped, NEW text \in {"x", "y"}, prompts' = Append(prompts, text)
  PROVE  /\ DOMAIN prompts' = DOMAIN prompts \union {Len(prompts')}
         /\ prompts'[Len(prompts')] = text /\ Len(prompts') \notin DOMAIN prompts
         /\ \A n \in DOMAIN prompts : prompts'[n] = prompts[n]
BY DEF EvalTyped

LEMMA EvalRestores ==
  ASSUME EvalTyped, EvalTyped', Restoring, [EvalNext]_evalVars
  PROVE  Restoring'
<1>1. ASSUME NEW t \in SourceTraces,
             \/ \E s \in Spans : StoreSpan(t, s)
             \/ \E want \in Wants : AddToDataset(t, want)
             \/ DeleteTrace(t)
      PROVE  Restoring'
  BY <1>1 DEF StoreSpan, AddToDataset, DeleteTrace, Restoring, evalTables, promptRegistry
<1>2. ASSUME NEW text \in {"x", "y"}, NEW tagged \in BOOLEAN, CommitPromptText(text, tagged)
      PROVE  Restoring'
  <2>1. /\ prompts' = Append(prompts, text) /\ UNCHANGED <<evals, reverts, evaluators>>
        /\ owner' = None \/ (owner' = owner /\ prod' = prod)
    BY <1>2 DEF CommitPromptText, evalTables
  <2> QED
    BY <2>1, VersionsStay DEF Restoring
<1>3. ASSUME NEW w \in Evaluators, NEW panel, NEW runner,
             NEW version \in DOMAIN prompts \union {None}, StartEval(w, panel, runner, version)
      PROVE  Restoring'
  <2>1. /\ evals' = Append(evals, [status |-> "running", version |-> version, summary |-> NoSummary])
        /\ UNCHANGED promptRegistry
    BY <1>3 DEF StartEval
  <2>2. /\ \A r \in DOMAIN evals : r \in DOMAIN evals' /\ evals'[r] = evals[r]
        /\ \A r \in DOMAIN evals' : r \in DOMAIN evals \/ evals'[r].version = version
    BY <2>1 DEF EvalTyped
  <2>3. \A v \in Evaluators : evaluators'[v] = evaluators[v] \/ evaluators'[v].at = "list"
    BY <1>3 DEF StartEval, Moves, EvalTyped
  <2>4. \A r \in DOMAIN evals' : evals'[r].version \in DOMAIN prompts \union {None}
    BY <2>2 DEF Restoring
  <2>5. \A r \in DOMAIN reverts : /\ r \in DOMAIN evals' /\ r - 1 \in DOMAIN evals'
                                  /\ evals'[r - 1] = evals[r - 1]
    BY <2>2 DEF Restoring
  <2>6. \A v \in Evaluators : evaluators'[v] # None =>
          /\ evaluators'[v].at \in {"revert", "reverted"} => evaluators'[v].run \in DOMAIN reverts
          /\ evaluators'[v].at = "revert" =>
               evaluators'[v].target = reverts[evaluators'[v].run].target
    BY <2>3 DEF Restoring
  <2> QED
    BY <2>1, <2>4, <2>5, <2>6 DEF Restoring, promptRegistry
<1>4. ASSUME NEW w \in Evaluators, EvalStep(w) PROVE Restoring'
  <2> DEFINE job == evaluators[w]
  <2>1. ASSUME evaluators[w] # None, evaluators[w].at \in {"list", "resolve", "judge", "record"}
        PROVE  job \in RunJobs
    BY <2>1, JobFields DEF EvalTyped, EvalJobs
  <2>2. CASE CompleteEval(w)
    <3>1. /\ DOMAIN evals' = DOMAIN evals /\ Moves(w, None) /\ UNCHANGED promptRegistry
      BY <2>2 DEF CompleteEval, EvalTyped
    <3>2. ASSUME NEW r \in DOMAIN evals PROVE evals'[r].version = evals[r].version
      <4>1. evals[r] \in EvalRows
        BY DEF EvalTyped
      <4> QED
        BY <2>2, <4>1 DEF CompleteEval, EvalTyped, EvalRows
    <3> QED
      BY <3>1, <3>2, RestoringKept
  <2>3. ASSUME NEW next, Moves(w, next), next.at \in {"resolve", "judge", "record"},
               UNCHANGED <<evals, promptRegistry>>
        PROVE  Restoring'
    BY <2>3, RestoringKept
  <2>4. CASE ListExamples(w)
    <3>1. \E next : Moves(w, next) /\ next.at = "resolve"
      <4>1. job \in RunJobs
        BY <2>1, <2>4 DEF ListExamples, EvaluatorAt
      <4>2. \A todo : [job EXCEPT !.at = "resolve", !.todo = todo].at = "resolve"
        BY <4>1 DEF RunJobs
      <4> QED
        BY <2>4, <4>2 DEF ListExamples
    <3> QED
      BY <2>3, <2>4, <3>1 DEF ListExamples, evalTables
  <2>5. CASE RecordResult(w)
    <3>1. \E next : Moves(w, next) /\ next.at = "resolve"
      <4>1. job \in RunJobs
        BY <2>1, <2>5 DEF RecordResult, EvaluatorAt
      <4>2. \A todo, done : [job EXCEPT !.at = "resolve", !.todo = todo, !.done = done,
                                       !.trace = None, !.row = None].at = "resolve"
        BY <4>1 DEF RunJobs
      <4> QED
        BY <2>5, <4>2 DEF RecordResult
    <3> QED
      BY <2>3, <2>5, <3>1 DEF RecordResult
  <2>6. ASSUME NEW u, Moves(w, Examine(job, u)), evaluators[w] # None,
               evaluators[w].at = "resolve", UNCHANGED <<evals, promptRegistry>>
        PROVE  Restoring'
    <3>1. Examine(job, u).at = "judge"
      BY <2>1, <2>6 DEF Examine, RunJobs
    <3> QED
      BY <2>3, <2>6, <3>1
  <2>7. ASSUME NEW status, NEW u, NEW scores, NEW asserted,
               Moves(w, Recording(job, status, u, scores, asserted)), evaluators[w] # None,
               evaluators[w].at \in {"resolve", "judge"}, UNCHANGED <<evals, promptRegistry>>
        PROVE  Restoring'
    <3>1. Recording(job, status, u, scores, asserted).at = "record"
      BY <2>1, <2>7 DEF Recording, RunJobs
    <3> QED
      BY <2>3, <2>7, <3>1
  <2>8. CASE ResolveInProcess(w) \/ \E u \in SourceTraces : RunnerNames(w, u)
    BY <2>6, <2>8 DEF ResolveInProcess, RunnerNames, Resolving, EvaluatorAt, evalTables
  <2>9. CASE RunnerFails(w) \/ RunnerUnknown(w)
    BY <2>7, <2>9 DEF RunnerFails, RunnerUnknown, Resolving, EvaluatorAt, evalTables
  <2>10. ASSUME NEW u, NEW output, NEW complete, IngestOutput(w, u, output, complete)
         PROVE  Restoring'
    BY <2>6, <2>7, <2>10 DEF IngestOutput, Resolving, EvaluatorAt, evalTables
  <2>11. ASSUME NEW scores, JudgeExample(w, scores) PROVE Restoring'
    BY <2>7, <2>11 DEF JudgeExample, EvaluatorAt, evalTables
  <2> QED
    BY <1>4, <2>2, <2>4, <2>5, <2>8, <2>9, <2>10, <2>11 DEF EvalStep
<1>5. ASSUME NEW w \in Evaluators, EvalStops(w) PROVE Restoring'
  BY <1>5, RestoringKept DEF EvalStops, evalTables
<1>6. ASSUME NEW w \in Evaluators, NEW r \in DOMAIN reverts, StartRevert(w, r) PROVE Restoring'
  <2>1. \A v \in Evaluators : evaluators'[v] = IF v = w
          THEN [at |-> "revert", run |-> r, target |-> reverts[r].target] ELSE evaluators[v]
    BY <1>6 DEF StartRevert, Moves, EvalTyped
  <2>2. \A v \in Evaluators : evaluators'[v] # None =>
          /\ evaluators'[v].at \in {"revert", "reverted"} => evaluators'[v].run \in DOMAIN reverts
          /\ evaluators'[v].at = "revert" =>
               evaluators'[v].target = reverts[evaluators'[v].run].target
    BY <2>1 DEF Restoring
  <2> QED
    BY <1>6, <2>2 DEF StartRevert, Restoring, evalTables, promptRegistry
<1>7. ASSUME NEW w \in Evaluators, CommitRevert(w) PROVE Restoring'
  <2> DEFINE job == evaluators[w]
  <2>1. /\ job.run \in DOMAIN reverts /\ job.target = reverts[job.run].target
        /\ job.target \in DOMAIN prompts /\ job.run \in Nat
    BY <1>7 DEF CommitRevert, EvaluatorAt, Restoring, EvalTyped
  <2>2. /\ prompts' = Append(prompts, prompts[job.target]) /\ prod' = Len(prompts')
        /\ owner' = job.run /\ UNCHANGED <<evals, reverts>>
    BY <1>7 DEF CommitRevert, RevertedText, evalTables
  <2>3. prompts[job.target] \in {"x", "y"}
    BY <2>1 DEF EvalTyped
  <2>4. \A v \in Evaluators : evaluators'[v] = IF v = w
          THEN [at |-> "reverted", run |-> job.run, commit |-> prod'] ELSE evaluators[v]
    BY <1>7 DEF CommitRevert, Moves, EvalTyped
  <2>5. \A v \in Evaluators : evaluators'[v] # None =>
          /\ evaluators'[v].at \in {"revert", "reverted"} => evaluators'[v].run \in DOMAIN reverts
          /\ evaluators'[v].at = "revert" =>
               evaluators'[v].target = reverts[evaluators'[v].run].target
    BY <2>1, <2>4 DEF Restoring
  <2>6. /\ prod' \in DOMAIN prompts' /\ prompts'[prod'] = prompts[job.target]
        /\ \A n \in DOMAIN prompts : n \in DOMAIN prompts' /\ prompts'[n] = prompts[n]
    BY <2>2, <2>3, VersionsStay
  <2>7. owner' \in DOMAIN reverts' /\ prompts'[prod'] = prompts'[reverts'[owner'].target]
    BY <2>1, <2>2, <2>6
  <2> QED
    BY <2>2, <2>5, <2>6, <2>7 DEF Restoring
<1>8. ASSUME NEW w \in Evaluators, MarkReverted(w) PROVE Restoring'
  <2>1. DOMAIN reverts' = DOMAIN reverts
    BY <1>8 DEF MarkReverted, EvalTyped
  <2>2. ASSUME NEW r \in DOMAIN reverts PROVE reverts'[r].target = reverts[r].target
    <3>1. reverts[r] \in RevertEvents
      BY DEF EvalTyped
    <3> QED
      BY <1>8, <3>1 DEF MarkReverted, EvalTyped, RevertEvents
  <2>3. \A v \in Evaluators : evaluators'[v] = IF v = w THEN None ELSE evaluators[v]
    BY <1>8 DEF MarkReverted, Moves, EvalTyped
  <2>4. \A v \in Evaluators : evaluators'[v] # None =>
          /\ evaluators'[v].at \in {"revert", "reverted"} => evaluators'[v].run \in DOMAIN reverts'
          /\ evaluators'[v].at = "revert" =>
               evaluators'[v].target = reverts'[evaluators'[v].run].target
    BY <2>1, <2>2, <2>3 DEF Restoring
  <2> QED
    BY <1>8, <2>1, <2>2, <2>4 DEF MarkReverted, Restoring, evalTables
<1>9. CASE PollEvals
  <2> DEFINE r == Len(evals)
  <2>1. /\ r \in Nat /\ r \in DOMAIN evals /\ r - 1 \in DOMAIN evals
        /\ evals[r - 1].version # None
    BY <1>9 DEF PollEvals, Regressed, EvalTyped
  <2>2. /\ DOMAIN reverts' = DOMAIN reverts \union {r}
        /\ reverts'[r].target = evals[r - 1].version
        /\ \A k \in DOMAIN reverts \ {r} : reverts'[k] = reverts[k]
        /\ UNCHANGED <<evals, prompts, prod, evaluators, owner>>
    BY <1>9 DEF PollEvals, evalTables
  <2>3. \A k \in DOMAIN reverts : reverts'[k].target = reverts[k].target
    BY <2>2 DEF Restoring
  <2>4. reverts'[r].target \in DOMAIN prompts
    BY <2>1, <2>2 DEF Restoring
  <2>5. \A v \in Evaluators : evaluators'[v] # None =>
          /\ evaluators'[v].at \in {"revert", "reverted"} => evaluators'[v].run \in DOMAIN reverts'
          /\ evaluators'[v].at = "revert" =>
               evaluators'[v].target = reverts'[evaluators'[v].run].target
    BY <2>2, <2>3 DEF Restoring
  <2> QED
    BY <2>1, <2>2, <2>3, <2>4, <2>5 DEF Restoring
<1>10. ASSUME NEW r \in DOMAIN reverts, VerifyRevert(r) \/ IgnoreRevert(r) PROVE Restoring'
  <2>1. DOMAIN reverts' = DOMAIN reverts
    BY <1>10 DEF VerifyRevert, IgnoreRevert, EvalTyped
  <2>2. ASSUME NEW k \in DOMAIN reverts PROVE reverts'[k].target = reverts[k].target
    <3>1. reverts[k] \in RevertEvents
      BY DEF EvalTyped
    <3>2. \E stage : reverts' = [reverts EXCEPT ![r].stage = stage]
      BY <1>10 DEF VerifyRevert, IgnoreRevert
    <3>3. ASSUME NEW stage PROVE [reverts[k] EXCEPT !.stage = stage].target = reverts[k].target
      BY <3>1 DEF RevertEvents
    <3>4. reverts'[k] = reverts[k] \/ \E stage : reverts'[k] = [reverts[k] EXCEPT !.stage = stage]
      BY <3>2
    <3> QED
      BY <3>3, <3>4
  <2> QED
    BY <1>10, <2>1, <2>2 DEF VerifyRevert, IgnoreRevert, Restoring, evalTables
<1>11. CASE UNCHANGED evalVars
  BY <1>11 DEF evalVars, Restoring
<1> QED
  BY <1>1, <1>2, <1>3, <1>4, <1>5, <1>6, <1>7, <1>8, <1>9, <1>10, <1>11 DEF EvalNext

(* Every job, row, example and event is of its type, and a revert goes to a version that
   is there. *)
THEOREM EvalTyping == EvalSpec => [](EvalTyped /\ Restoring)
<1>1. EvalInit => EvalTyped /\ Restoring
  BY EvalAssumption DEF EvalInit, EvalTyped, Restoring
<1>2. EvalTyped /\ Restoring /\ [EvalNext]_evalVars => EvalTyped' /\ Restoring'
  BY EvalStaysTyped, EvalRestores
<1> QED
  BY <1>1, <1>2, PTL DEF EvalSpec

(* While nobody moves the tag after an approved revert, it names the text of the run
   before, however approvals of several events were interleaved, stopped and repeated. *)
THEOREM Reverting == EvalSpec => []RevertRestores
<1>1. EvalTyped /\ Restoring => RevertRestores
  BY EvalAssumption DEF EvalTyped, Restoring, RevertRestores
<1> QED
  BY <1>1, EvalTyping, PTL

-----------------------------------------------------------------------------
(* What runs, and comparisons of runs, report. *)

OnePerExample(rows) == \A x, y \in rows : x.example = y.example => x = y

Runs(w) == evaluators[w] # None /\ evaluators[w].at \in {"list", "resolve", "judge", "record"}

(* What a run keeps in memory has every row it has stored, and nothing else unless a
   deletion has taken one; and nothing about an example that it has left. *)
RunSound(job) ==
  /\ job.run \in DOMAIN evals /\ evals[job.run].status = "running"
  /\ RowsOf(job.run) \subseteq job.done
  /\ job.run \notin touched => job.done \subseteq RowsOf(job.run)
  /\ \A d \in job.done : d.run = job.run /\ \A x \in job.todo : d.example # x[1]
  /\ OnePerExample(job.done)
  /\ \A x, y \in job.todo : x[1] = y[1] => x = y
  /\ job.at = "list" => job.todo = {} /\ job.done = {}
  /\ job.at = "record" => job.row.run = job.run /\ job.row.example = NextExample(job)[1]

Reported ==
  /\ IsFiniteSet(results)
  /\ \A x \in results : x.run \in DOMAIN evals
  /\ \A r \in DOMAIN evals : OnePerExample(RowsOf(r))
  /\ \A w \in Evaluators : Runs(w) => RunSound(evaluators[w])
  /\ \A v, w \in Evaluators : Runs(v) /\ Runs(w) /\ v # w => evaluators[v].run # evaluators[w].run
  /\ \A r \in DOMAIN evals \ touched :
       evals[r].status = "completed" => evals[r].summary = Summary(RowsOf(r))

(* Scores of different examples, or judges, are no more than the scores that answer to
   them. *)
OnePerJudge(P) == \A x, y \in P : x[1].example = y[1].example /\ x[2] = y[2] => x = y

LEMMA Answered ==
  ASSUME NEW P, NEW Q, IsFiniteSet(P), IsFiniteSet(Q), OnePerJudge(P),
         \A x \in P : \E y \in Q : y[1].example = x[1].example /\ y[2] = x[2]
  PROVE  Cardinality(P) <= Cardinality(Q)
<1> DEFINE answer == [x \in P |-> CHOOSE y \in Q : y[1].example = x[1].example /\ y[2] = x[2]]
<1>1. \A x \in P : /\ answer[x] \in Q /\ answer[x][1].example = x[1].example
                   /\ answer[x][2] = x[2]
  OBVIOUS
<1> HIDE DEF answer
<1>2. answer \in [P -> Q]
  BY <1>1 DEF answer
<1>3. answer \in Injection(P, Q)
  <2>1. ASSUME NEW x \in P, NEW y \in P, answer[x] = answer[y] PROVE x = y
    <3>1. x[1].example = y[1].example /\ x[2] = y[2]
      BY <1>1, <2>1
    <3> QED
      BY <3>1 DEF OnePerJudge
  <2> QED
    BY <1>2, <2>1 DEF Injection, IsInjective
<1> QED
  BY <1>3, FS_Injection

(* The scores of finitely many rows are finitely many. *)
LEMMA ScoresFinite ==
  ASSUME NEW rows \in SUBSET ResultRows, IsFiniteSet(rows)
  PROVE  IsFiniteSet(Scores(rows))
<1> DEFINE of == [r \in rows |-> {r} \X DOMAIN r.scores]
           parts == {{r} \X DOMAIN r.scores : r \in rows}
<1>1. of \in Surjection(rows, parts)
  BY DEF Surjection
<1>2. IsFiniteSet(parts)
  BY <1>1, FS_Surjection
<1>3. ASSUME NEW r \in rows PROVE IsFiniteSet({r} \X DOMAIN r.scores)
  <2>1. r.scores \in Seq(Verdicts)
    BY DEF ResultRows
  <2>2. PICK n \in Nat : DOMAIN r.scores = 1 .. n
    BY <2>1
  <2>3. IsFiniteSet(1 .. n)
    BY FS_Interval
  <2>4. IsFiniteSet(DOMAIN r.scores) /\ IsFiniteSet({r})
    BY <2>2, <2>3, FS_Singleton
  <2> QED
    BY <2>4, FS_Product
<1>4. \A part \in parts : IsFiniteSet(part)
  BY <1>3
<1> HIDE DEF of, parts
<1>5. IsFiniteSet(UNION parts)
  BY <1>2, <1>4, FS_UNION
<1> QED
  BY <1>5 DEF Scores, parts

(* A pass rate does not fall when there are no fewer passes and no more other verdicts. *)
LEMMA RateKept ==
  ASSUME NEW p \in Nat, NEW n \in Nat, NEW q \in Nat, NEW m \in Nat, p <= q, m <= n
  PROVE  q * (p + n) >= p * (q + m)
<1>1. q * n >= p * n /\ p * n >= p * m
  <2>1. PICK a \in Nat : q = p + a
    BY SMT
  <2>2. PICK b \in Nat : n = m + b
    BY SMT
  <2>3. q * n = p * n + a * n /\ p * n = p * m + p * b
    BY <2>1, <2>2
  <2>4. a * n \in Nat /\ p * b \in Nat
    OBVIOUS
  <2> QED
    BY <2>3, <2>4
<1>2. q * (p + n) = p * q + q * n /\ p * (q + m) = p * q + p * m
  OBVIOUS
<1> QED
  BY <1>1, <1>2

(* The verdict on an example is that of its one row. *)
LEMMA VerdictOfRow ==
  ASSUME EvalTyped, Reported, NEW r \in DOMAIN evals
  PROVE  /\ \A x \in RowsOf(r) : VerdictOn(r, x.example) = FirstVerdict(x)
         /\ \A e : VerdictOn(r, e) # None => \E x \in RowsOf(r) : x.example = e
<1>1. ASSUME NEW x \in RowsOf(r) PROVE VerdictOn(r, x.example) = FirstVerdict(x)
  <2> DEFINE rows == {y \in RowsOf(r) : y.example = x.example}
  <2>1. rows = {x}
    BY DEF Reported, OnePerExample
  <2>2. VerdictOn(r, x.example) = IF rows = {} THEN None ELSE FirstVerdict(CHOOSE y \in rows : TRUE)
    BY DEF VerdictOn
  <2> HIDE DEF rows
  <2>3. (CHOOSE y \in rows : TRUE) = x
    BY <2>1
  <2> QED
    BY <2>1, <2>2, <2>3
<1>2. ASSUME NEW e, VerdictOn(r, e) # None PROVE \E x \in RowsOf(r) : x.example = e
  BY <1>2 DEF VerdictOn
<1> QED
  BY <1>1, <1>2

(* Passes, and other verdicts, of the rows of a run. *)
Others(rows) == {x \in Scores(rows) : x[1].scores[x[2]] # "pass"}

LEMMA ScoresOfRun ==
  ASSUME EvalTyped, Reported, NEW r \in DOMAIN evals
  PROVE  LET rows == RowsOf(r) IN
           /\ IsFiniteSet(Passing(rows)) /\ IsFiniteSet(Others(rows))
           /\ Cardinality(Passing(rows)) \in Nat /\ Cardinality(Others(rows)) \in Nat
           /\ Cardinality(Scores(rows)) = Cardinality(Passing(rows)) + Cardinality(Others(rows))
           /\ OnePerJudge(Scores(rows))
<1> DEFINE rows == RowsOf(r)
<1>1. rows \in SUBSET ResultRows /\ IsFiniteSet(rows) /\ OnePerExample(rows)
  <2>1. rows \subseteq results
    BY DEF RowsOf
  <2> QED
    BY <2>1, FS_Subset DEF EvalTyped, Reported
<1>2. IsFiniteSet(Scores(rows))
  BY <1>1, ScoresFinite
<1>3. \A x \in Scores(rows) : x[1] \in rows /\ x[2] \in DOMAIN x[1].scores /\ x = <<x[1], x[2]>>
  BY DEF Scores
<1>4. OnePerJudge(Scores(rows))
  BY <1>1, <1>3 DEF OnePerJudge, OnePerExample
<1> HIDE DEF rows
<1>5. /\ Passing(rows) \subseteq Scores(rows)
      /\ Others(rows) = Scores(rows) \ Passing(rows)
  BY DEF Passing, Others
<1>6. /\ IsFiniteSet(Passing(rows)) /\ IsFiniteSet(Others(rows))
  BY <1>2, <1>5, FS_Subset
<1>7. Scores(rows) = Passing(rows) \union Others(rows) /\ Passing(rows) \intersect Others(rows) = {}
  BY <1>5
<1>8. Cardinality(Scores(rows)) = Cardinality(Passing(rows)) + Cardinality(Others(rows))
  <2>1. /\ Cardinality(Passing(rows) \union Others(rows)) =
             Cardinality(Passing(rows)) + Cardinality(Others(rows))
               - Cardinality(Passing(rows) \intersect Others(rows))
        /\ Cardinality(Passing(rows)) \in Nat /\ Cardinality(Others(rows)) \in Nat
    BY <1>6, FS_Union, FS_CardinalityType
  <2>2. Cardinality(Passing(rows) \intersect Others(rows)) = 0
    BY <1>7, FS_EmptySet
  <2>3. Cardinality(Scores(rows)) = Cardinality(Passing(rows) \union Others(rows))
    BY <1>7
  <2> QED
    BY <2>1, <2>2, <2>3
<1> QED
  BY <1>4, <1>6, <1>8, FS_CardinalityType DEF rows

(* A score is what its judge has said. *)
LEMMA SaidByScore ==
  ASSUME NEW r, NEW e, NEW i, NEW v
  PROVE  v \in SaidOf(r, e, i) <=>
           \E x \in Scores(RowsOf(r)) : x[1].example = e /\ x[2] = i /\ x[1].scores[i] = v
<1>1. ASSUME NEW x \in RowsOf(r), i \in DOMAIN x.scores PROVE <<x, i>> \in Scores(RowsOf(r))
  BY <1>1 DEF Scores
<1>2. ASSUME NEW x \in Scores(RowsOf(r)) PROVE x[1] \in RowsOf(r) /\ x[2] \in DOMAIN x[1].scores
  BY DEF Scores
<1>3. ASSUME v \in SaidOf(r, e, i)
      PROVE  \E x \in Scores(RowsOf(r)) : x[1].example = e /\ x[2] = i /\ x[1].scores[i] = v
  <2>1. PICK y \in RowsOf(r) : y.example = e /\ i \in DOMAIN y.scores /\ v = y.scores[i]
    BY <1>3 DEF SaidOf
  <2>2. <<y, i>> \in Scores(RowsOf(r)) /\ <<y, i>>[1] = y /\ <<y, i>>[2] = i
    BY <1>1, <2>1
  <2> QED
    BY <2>1, <2>2
<1>4. ASSUME NEW x \in Scores(RowsOf(r)), x[1].example = e, x[2] = i, x[1].scores[i] = v
      PROVE  v \in SaidOf(r, e, i)
  BY <1>2, <1>4 DEF SaidOf
<1> QED
  BY <1>3, <1>4

(* When a pass rate is lower, some judge's verdict has worsened. *)
LEMMA LowerIsWorse ==
  ASSUME EvalTyped, Reported, NEW b \in DOMAIN evals, NEW c \in DOMAIN evals,
         evals[b].summary = Summary(RowsOf(b)), evals[c].summary = Summary(RowsOf(c)),
         Lower(evals[c].summary, evals[b].summary)
  PROVE  \E x \in RowsOf(b) \union RowsOf(c) : \E i \in DOMAIN x.scores :
           Worsened(SaidOf(b, x.example, i), SaidOf(c, x.example, i))
<1> SUFFICES ASSUME \A x \in RowsOf(b) \union RowsOf(c) : \A i \in DOMAIN x.scores :
                      ~Worsened(SaidOf(b, x.example, i), SaidOf(c, x.example, i))
             PROVE  FALSE
  OBVIOUS
<1>1. ASSUME NEW r \in {b, c}, NEW x \in Scores(RowsOf(r))
      PROVE  /\ x[1].scores[x[2]] \in SaidOf(r, x[1].example, x[2])
             /\ ~Worsened(SaidOf(b, x[1].example, x[2]), SaidOf(c, x[1].example, x[2]))
  <2>1. x[1] \in RowsOf(b) \union RowsOf(c) /\ x[2] \in DOMAIN x[1].scores
    BY DEF Scores
  <2> QED
    BY <2>1, SaidByScore
<1>2. ASSUME NEW x \in Passing(RowsOf(b))
      PROVE  \E y \in Passing(RowsOf(c)) : y[1].example = x[1].example /\ y[2] = x[2]
  <2>1. x \in Scores(RowsOf(b)) /\ x[1].scores[x[2]] = "pass"
    BY DEF Passing
  <2>2. "pass" \in SaidOf(c, x[1].example, x[2])
    BY <1>1, <2>1 DEF Worsened
  <2>3. PICK y \in Scores(RowsOf(c)) :
               y[1].example = x[1].example /\ y[2] = x[2] /\ y[1].scores[x[2]] = "pass"
    BY <2>2, SaidByScore
  <2> QED
    BY <2>3 DEF Passing
<1>3. ASSUME NEW y \in Others(RowsOf(c))
      PROVE  \E x \in Others(RowsOf(b)) : x[1].example = y[1].example /\ x[2] = y[2]
  <2>1. y \in Scores(RowsOf(c)) /\ y[1].scores[y[2]] # "pass"
    BY DEF Others
  <2>2. PICK v \in SaidOf(b, y[1].example, y[2]) : v # "pass"
    BY <1>1, <2>1 DEF Worsened
  <2>3. PICK x \in Scores(RowsOf(b)) :
               x[1].example = y[1].example /\ x[2] = y[2] /\ x[1].scores[y[2]] = v
    BY <2>2, SaidByScore
  <2> QED
    BY <2>2, <2>3 DEF Others
<1> DEFINE p == Cardinality(Passing(RowsOf(b)))  n == Cardinality(Others(RowsOf(b)))
           q == Cardinality(Passing(RowsOf(c)))  m == Cardinality(Others(RowsOf(c)))
<1>4. /\ OnePerJudge(Passing(RowsOf(b))) /\ OnePerJudge(Others(RowsOf(c)))
  BY ScoresOfRun DEF OnePerJudge, Passing, Others
<1>5. p \in Nat /\ n \in Nat /\ q \in Nat /\ m \in Nat /\ p <= q /\ m <= n
  BY <1>2, <1>3, <1>4, ScoresOfRun, Answered
<1>6. /\ evals[b].summary.passes = p /\ evals[b].summary.verdicts = p + n
      /\ evals[c].summary.passes = q /\ evals[c].summary.verdicts = q + m
  BY ScoresOfRun DEF Summary
<1> HIDE DEF p, q, n, m
<1>7. q * (IF p + n = 0 THEN 1 ELSE p + n) < p * (IF q + m = 0 THEN 1 ELSE q + m)
  BY <1>6 DEF Lower, Of
<1>8. q * (p + n) >= p * (q + m)
  BY <1>5, RateKept
<1>9. CASE p = 0
  <2>1. p * (IF q + m = 0 THEN 1 ELSE q + m) = 0
    BY <1>5, <1>9
  <2>2. q * (IF p + n = 0 THEN 1 ELSE p + n) \in Nat
    BY <1>5
  <2> QED
    BY <1>7, <2>1, <2>2
<1>10. CASE p # 0
  <2>1. p + n # 0 /\ q + m # 0
    BY <1>5, <1>10
  <2>2. q * (p + n) \in Nat /\ p * (q + m) \in Nat
    BY <1>5
  <2> QED
    BY <1>7, <1>8, <2>1, <2>2
<1> QED
  BY <1>9, <1>10

(* A comparison of runs of one judge shows it. *)
LEMMA WorseIsShown ==
  ASSUME EvalTyped, Reported, NEW b \in DOMAIN evals, NEW c \in DOMAIN evals,
         OneJudge(b), OneJudge(c), NEW z \in RowsOf(b) \union RowsOf(c), NEW i \in DOMAIN z.scores,
         Worsened(SaidOf(b, z.example, i), SaidOf(c, z.example, i))
  PROVE  Shows(b, c)
<1> DEFINE e == z.example
<1>1. \A r \in {b, c} : \A x \in RowsOf(r) :
        /\ x.example \in 1 .. MaxExamples /\ Len(x.scores) \in {0, 1}
        /\ DOMAIN x.scores = 1 .. Len(x.scores)
        /\ \A k \in DOMAIN x.scores : x.scores[k] \in {"pass", "fail", "unsure", "unknown"}
        /\ x.scores = <<>> <=> Len(x.scores) = 0
  <2>1. ASSUME NEW r \in {b, c}, NEW x \in RowsOf(r)
        PROVE  /\ x.example \in 1 .. MaxExamples /\ Len(x.scores) \in {0, 1}
               /\ DOMAIN x.scores = 1 .. Len(x.scores)
               /\ \A k \in DOMAIN x.scores : x.scores[k] \in {"pass", "fail", "unsure", "unknown"}
               /\ x.scores = <<>> <=> Len(x.scores) = 0
    <3>1. x.example \in 1 .. MaxExamples /\ x.scores \in Seq(Verdicts)
      BY DEF RowsOf, EvalTyped, ResultRows
    <3>2. Len(x.scores) <= 1
      BY <2>1 DEF OneJudge
    <3>3. Verdicts \subseteq {"pass", "fail", "unsure", "unknown"}
      BY EvalAssumption DEF Verdicts
    <3>4. PICK scores : scores = x.scores
      OBVIOUS
    <3>5. /\ Len(scores) \in Nat /\ DOMAIN scores = 1 .. Len(scores)
          /\ \A k \in DOMAIN scores : scores[k] \in Verdicts
          /\ scores = <<>> <=> Len(scores) = 0
      BY <3>1, <3>4
    <3>6. Len(scores) \in {0, 1}
      <4>1. PICK n : n = Len(scores)
        OBVIOUS
      <4>2. n \in Nat /\ n <= 1
        BY ONLY <3>2, <3>4, <3>5, <4>1
      <4> QED
        BY ONLY <4>1, <4>2
    <3>7. \A k \in DOMAIN scores : scores[k] \in {"pass", "fail", "unsure", "unknown"}
      BY <3>3, <3>5
    <3> QED
      BY <3>1, <3>4, <3>5, <3>6, <3>7, Zenon
  <2> QED
    BY <2>1
<1>2. e \in 1 .. MaxExamples /\ i = 1
  BY <1>1
<1>3. ASSUME NEW r \in {b, c}, NEW v \in SaidOf(r, e, 1)
      PROVE  /\ v # "unknown" => VerdictOn(r, e) = v
             /\ v = "unknown" => VerdictOn(r, e) = None
             /\ v \in {"pass", "fail", "unsure", "unknown"}
  <2>1. PICK x \in RowsOf(r) : x.example = e /\ 1 \in DOMAIN x.scores /\ v = x.scores[1]
    BY DEF SaidOf
  <2>2. VerdictOn(r, e) = FirstVerdict(x) /\ x.scores # <<>>
    BY <1>1, <2>1, VerdictOfRow
  <2> QED
    BY <1>1, <2>1, <2>2 DEF FirstVerdict
<1>4. ASSUME NEW r \in {b, c}, VerdictOn(r, e) # None PROVE VerdictOn(r, e) \in SaidOf(r, e, 1)
  <2>1. PICK x \in RowsOf(r) : x.example = e
    BY <1>4, VerdictOfRow
  <2>2. VerdictOn(r, e) = x.scores[1] /\ x.scores # <<>>
    BY <1>4, <2>1, VerdictOfRow DEF FirstVerdict
  <2>3. 1 \in DOMAIN x.scores
    BY <1>1, <2>2
  <2> QED
    BY <2>1, <2>2, <2>3 DEF SaidOf
<1>5. None \notin {"pass", "fail", "unsure", "unknown"}
  BY EvalAssumption
<1>6. ASSUME VerdictOn(c, e) = "fail", VerdictOn(b, e) # "fail" PROVE Shows(b, c)
  BY <1>2, <1>6 DEF Shows, NewFailures
<1>7. CASE "pass" \in SaidOf(b, e, 1) /\ "pass" \notin SaidOf(c, e, 1)
  <2>1. VerdictOn(b, e) = "pass"
    BY <1>3, <1>7
  <2>2. VerdictOn(c, e) # "pass"
    BY <1>4, <1>5, <1>7
  <2> QED
    BY <1>2, <1>6, <2>1, <2>2 DEF Shows
<1>8. ASSUME NEW v \in SaidOf(c, e, 1), v # "pass", SaidOf(b, e, 1) \subseteq {"pass"}
      PROVE  Shows(b, c)
  <2>1. CASE v = "fail"
    <3>1. VerdictOn(c, e) = "fail"
      BY <1>3, <2>1
    <3>2. VerdictOn(b, e) # "fail"
      BY <1>4, <1>5, <1>8
    <3> QED
      BY <1>6, <3>1, <3>2
  <2>2. CASE v # "fail"
    <3>1. VerdictOn(c, e) \notin {"pass", "fail"}
      BY <1>3, <1>5, <1>8, <2>2
    <3>2. ASSUME NEW x \in RowsOf(b), x.example = e, x.scores # <<>> PROVE VerdictOn(b, e) = "pass"
      <4>1. 1 \in DOMAIN x.scores
        BY <1>1, <3>2
      <4>2. x.scores[1] \in SaidOf(b, e, 1)
        BY <3>2, <4>1 DEF SaidOf
      <4> QED
        BY <1>3, <1>8, <4>2
    <3> QED
      BY <1>2, <3>1, <3>2 DEF Shows
  <2> QED
    BY <2>1, <2>2
<1> QED
  BY <1>2, <1>7, <1>8 DEF Worsened

(* A request that goes on, and touches no row, keeps the rows sound when its job is. *)
LEMMA ReportedKept ==
  ASSUME EvalTyped, Reported, NEW w \in Evaluators, NEW next, Moves(w, next), UNCHANGED evalTables,
         next # None /\ next.at \in {"list", "resolve", "judge", "record"} =>
           Runs(w) /\ next.run = evaluators[w].run /\ RunSound(next)
  PROVE  Reported'
<1>1. \A v \in Evaluators : evaluators'[v] = IF v = w THEN next ELSE evaluators[v]
  BY DEF Moves, EvalTyped
<1>2. UNCHANGED <<evals, results, touched>> /\ \A r : RowsOf(r)' = RowsOf(r)
  BY DEF evalTables, RowsOf
<1>3. ASSUME NEW v \in Evaluators, Runs(v)'
      PROVE  /\ Runs(v) /\ evaluators'[v].run = evaluators[v].run
             /\ RunSound(evaluators[v])'
  <2>1. CASE v = w
    <3>1. evaluators'[v] = next /\ Runs(w) /\ next.run = evaluators[w].run /\ RunSound(next)
      BY <1>1, <1>3, <2>1 DEF Runs
    <3> QED
      BY <1>2, <2>1, <3>1 DEF RunSound
  <2>2. CASE v # w
    <3>1. evaluators'[v] = evaluators[v] /\ Runs(v) /\ RunSound(evaluators[v])
      BY <1>1, <1>3, <2>2 DEF Runs, Reported
    <3> QED
      BY <1>2, <3>1 DEF RunSound
  <2> QED
    BY <2>1, <2>2
<1> QED
  BY <1>2, <1>3 DEF Reported

(* A deletion takes rows, and marks the runs it takes them from. *)
LEMMA DeletionReported ==
  ASSUME EvalTyped, Reported, NEW t \in SourceTraces, DeleteTrace(t)
  PROVE  Reported'
<1>1. /\ results' \subseteq results /\ touched' = touched \union {r.run : r \in results \ results'}
      /\ UNCHANGED <<evals, evaluators>>
  BY DEF DeleteTrace
<1>2. \A r : RowsOf(r)' \subseteq RowsOf(r)
  BY <1>1 DEF RowsOf
<1>3. \A r : r \notin touched' => r \notin touched /\ RowsOf(r)' = RowsOf(r)
  BY <1>1 DEF RowsOf
<1>4. ASSUME NEW w \in Evaluators, Runs(w) PROVE RunSound(evaluators[w])'
  <2>1. RunSound(evaluators[w])
    BY <1>4 DEF Reported
  <2> QED
    BY <1>1, <1>2, <1>3, <2>1 DEF RunSound
<1>5. IsFiniteSet(results')
  BY <1>1, FS_Subset DEF Reported
<1>6. \A r \in DOMAIN evals' : OnePerExample(RowsOf(r)')
  BY <1>1, <1>2 DEF Reported, OnePerExample
<1>7. \A r \in DOMAIN evals' \ touched' :
        evals'[r].status = "completed" => evals'[r].summary = Summary(RowsOf(r)')
  BY <1>1, <1>3 DEF Reported
<1>8. \A w \in Evaluators : Runs(w)' => Runs(w) /\ evaluators'[w] = evaluators[w]
  BY <1>1 DEF Runs
<1> QED
  BY <1>1, <1>4, <1>5, <1>6, <1>7, <1>8 DEF Reported

(* A run that starts has no rows. *)
LEMMA StartReported ==
  ASSUME EvalTyped, Reported, NEW w \in Evaluators, NEW panel, NEW runner, NEW version,
         StartEval(w, panel, runner, version)
  PROVE  Reported'
<1>0. PICK r : r = Len(evals) + 1
  OBVIOUS
<1> DEFINE job == [at |-> "list", run |-> r, judges |-> panel, runner |-> runner,
                   todo |-> {}, done |-> {}, trace |-> None, row |-> None]
<1>1. /\ r \notin DOMAIN evals /\ DOMAIN evals' = DOMAIN evals \union {r}
      /\ evals'[r].status = "running" /\ \A k \in DOMAIN evals : evals'[k] = evals[k]
      /\ Len(evals') = r
  BY <1>0 DEF StartEval, EvalTyped
<1>2. UNCHANGED <<results, touched>> /\ \A k : RowsOf(k)' = RowsOf(k)
  BY DEF StartEval, RowsOf
<1>3. \A v \in Evaluators : evaluators'[v] = IF v = w THEN job ELSE evaluators[v]
  BY <1>1 DEF StartEval, Moves, EvalTyped
<1>4. RowsOf(r) = {}
  BY <1>1 DEF Reported, RowsOf
<1>5. RunSound(job)'
  BY <1>1, <1>2, <1>4 DEF RunSound, OnePerExample
<1>6. ASSUME NEW v \in Evaluators, v # w, Runs(v)'
      PROVE  Runs(v) /\ evaluators'[v] = evaluators[v] /\ RunSound(evaluators[v])'
             /\ evaluators[v].run # r
  <2>1. Runs(v) /\ evaluators'[v] = evaluators[v] /\ RunSound(evaluators[v])
    BY <1>3, <1>6 DEF Runs, Reported
  <2> QED
    BY <1>1, <1>2, <2>1 DEF RunSound
<1>7. \A v \in Evaluators : Runs(v)' => RunSound(evaluators[v])'
  <2>1. RunSound(evaluators[w])'
    BY <1>3, <1>5 DEF RunSound
  <2> QED
    BY <1>6, <2>1
<1>8. \A u, v \in Evaluators : Runs(u)' /\ Runs(v)' /\ u # v =>
        evaluators'[u].run # evaluators'[v].run
  BY <1>3, <1>6 DEF Reported
<1>9. \A k \in DOMAIN evals' : OnePerExample(RowsOf(k)')
  BY <1>1, <1>2, <1>4 DEF Reported, OnePerExample
<1>10. \A k \in DOMAIN evals' \ touched' :
         evals'[k].status = "completed" => evals'[k].summary = Summary(RowsOf(k)')
  BY <1>1, <1>2 DEF Reported
<1> QED
  BY <1>1, <1>2, <1>7, <1>8, <1>9, <1>10 DEF Reported

(* A result is stored and kept in memory, or kept in memory by a run that is marked. *)
LEMMA RecordReported ==
  ASSUME EvalTyped, Reported, NEW w \in Evaluators, RecordResult(w)
  PROVE  Reported'
<1>1. Runs(w) /\ evaluators[w].at = "record" /\ RunSound(evaluators[w])
      /\ evaluators[w] \in EvalJobs
  BY JobFields DEF RecordResult, EvaluatorAt, Runs, Reported, EvalTyped
<1> DEFINE job == evaluators[w]
           rest == [job EXCEPT !.at = "resolve", !.todo = TodoAfter(job),
                               !.done = @ \union {job.row}, !.trace = None, !.row = None]
<1>2. /\ job.todo # {} /\ job.row \in ResultRows
      /\ job.row.run = job.run /\ job.row.example = NextExample(job)[1]
      /\ NextExample(job) \in job.todo
  BY <1>1, NextIsLeft DEF EvalJobs, RunSound
<1>3. /\ results' = results \union {job.row} /\ touched \subseteq touched'
      /\ UNCHANGED evals
  BY DEF RecordResult
<1>3a. PICK next : next = rest
  OBVIOUS
<1>4. \A v \in Evaluators : evaluators'[v] = IF v = w THEN next ELSE evaluators[v]
  BY <1>3a DEF RecordResult, Moves, EvalTyped
<1>5. /\ next.at = "resolve" /\ next.run = job.run /\ next.todo = job.todo \ {NextExample(job)}
      /\ next.done = job.done \union {job.row}
  BY <1>1, <1>3a DEF EvalJobs, RunJobs, TodoAfter
<1>6. \A r : RowsOf(r)' = IF r = job.run THEN RowsOf(r) \union {job.row} ELSE RowsOf(r)
  BY <1>2, <1>3 DEF RowsOf
<1>7. \A d \in job.done : d.example # job.row.example
  BY <1>1, <1>2 DEF RunSound
<1>8. OnePerExample(next.done)
  BY <1>1, <1>5, <1>7 DEF RunSound, OnePerExample
<1>9. \A d \in next.done : d.run = next.run /\ \A x \in next.todo : d.example # x[1]
  <2>1. ASSUME NEW d \in job.done PROVE d.run = next.run /\ \A x \in next.todo : d.example # x[1]
    BY <1>1, <1>5 DEF RunSound
  <2>2. \A x \in next.todo : job.row.example # x[1]
    BY <1>1, <1>2, <1>5 DEF RunSound
  <2> QED
    BY <1>2, <1>5, <2>1, <2>2
<1>10. RunSound(next)'
  BY <1>1, <1>3, <1>5, <1>6, <1>8, <1>9 DEF RunSound
<1>11. ASSUME NEW v \in Evaluators, v # w, Runs(v)'
       PROVE  Runs(v) /\ evaluators'[v] = evaluators[v] /\ RunSound(evaluators[v])'
              /\ evaluators[v].run # job.run
  <2>1. Runs(v) /\ evaluators'[v] = evaluators[v] /\ RunSound(evaluators[v])
        /\ evaluators[v].run # job.run
    BY <1>1, <1>4, <1>11 DEF Runs, Reported
  <2> QED
    BY <1>3, <1>6, <2>1 DEF RunSound
<1>12. \A v \in Evaluators : Runs(v)' => RunSound(evaluators[v])'
  <2>1. RunSound(evaluators[w])'
    BY <1>4, <1>10 DEF RunSound
  <2> QED
    BY <1>11, <2>1
<1>13. \A u, v \in Evaluators : Runs(u)' /\ Runs(v)' /\ u # v =>
         evaluators'[u].run # evaluators'[v].run
  BY <1>4, <1>5, <1>11 DEF Reported
<1>14. \A r \in DOMAIN evals' : OnePerExample(RowsOf(r)')
  <2>1. ASSUME NEW r \in DOMAIN evals PROVE OnePerExample(RowsOf(r)')
    <3>1. CASE r = job.run
      <4>1. RowsOf(r)' \subseteq next.done
        BY <1>1, <1>5, <1>6, <3>1 DEF RunSound
      <4> QED
        BY <1>8, <4>1 DEF OnePerExample
    <3> QED
      BY <1>6, <3>1 DEF Reported
  <2> QED
    BY <1>3, <2>1
<1>15. \A r \in DOMAIN evals' \ touched' :
         evals'[r].status = "completed" => evals'[r].summary = Summary(RowsOf(r)')
  BY <1>1, <1>3, <1>6 DEF Reported, RunSound
<1>16. IsFiniteSet(results') /\ \A x \in results' : x.run \in DOMAIN evals'
  BY <1>1, <1>2, <1>3, FS_AddElement DEF Reported, RunSound
<1> QED
  BY <1>12, <1>13, <1>14, <1>15, <1>16 DEF Reported

(* The summary of a run that completes is that of its rows. *)
LEMMA CompleteReported ==
  ASSUME EvalTyped, Reported, NEW w \in Evaluators, CompleteEval(w)
  PROVE  Reported'
<1> DEFINE job == evaluators[w]
<1>1. Runs(w) /\ RunSound(job)
  BY DEF CompleteEval, EvaluatorAt, Runs, Reported
<1>2. job.run \in DOMAIN evals /\ evals[job.run] \in EvalRows
  BY <1>1 DEF RunSound, EvalTyped
<1>3. /\ DOMAIN evals' = DOMAIN evals /\ evals'[job.run].summary = Summary(job.done)
      /\ \A r \in DOMAIN evals : r # job.run => evals'[r] = evals[r]
      /\ UNCHANGED <<results, touched>>
  <2> DEFINE row == [evals[job.run] EXCEPT !.status = "completed", !.summary = Summary(job.done)]
  <2>1. evals' = [evals EXCEPT ![job.run] = row]
    BY DEF CompleteEval
  <2>2. row.summary = Summary(job.done)
    BY <1>2 DEF EvalRows
  <2> HIDE DEF row
  <2>3. DOMAIN evals' = DOMAIN evals /\ evals'[job.run] = row
        /\ \A r \in DOMAIN evals : r # job.run => evals'[r] = evals[r]
    BY <1>2, <2>1 DEF EvalTyped
  <2> QED
    BY <2>2, <2>3 DEF CompleteEval
<1>4. \A r : RowsOf(r)' = RowsOf(r)
  BY <1>3 DEF RowsOf
<1>5. \A v \in Evaluators : evaluators'[v] = IF v = w THEN None ELSE evaluators[v]
  BY DEF CompleteEval, Moves, EvalTyped
<1>6. ASSUME NEW v \in Evaluators, Runs(v)'
      PROVE  Runs(v) /\ evaluators'[v] = evaluators[v] /\ RunSound(evaluators[v])'
  <2>1. Runs(v) /\ evaluators'[v] = evaluators[v] /\ RunSound(evaluators[v]) /\ v # w
    BY <1>5, <1>6 DEF Runs, Reported
  <2>2. evaluators[v].run # job.run
    BY <1>1, <2>1 DEF Reported
  <2> QED
    BY <1>3, <1>4, <2>1, <2>2 DEF RunSound
<1>7. job.run \notin touched => job.done = RowsOf(job.run)
  BY <1>1 DEF RunSound
<1>8. \A r \in DOMAIN evals' \ touched' :
        evals'[r].status = "completed" => evals'[r].summary = Summary(RowsOf(r)')
  BY <1>3, <1>4, <1>7 DEF Reported
<1>9. \A r \in DOMAIN evals' : OnePerExample(RowsOf(r)')
  BY <1>3, <1>4 DEF Reported
<1>10. \A u, v \in Evaluators : Runs(u)' /\ Runs(v)' /\ u # v =>
         evaluators'[u].run # evaluators'[v].run
  BY <1>6 DEF Reported
<1> QED
  BY <1>3, <1>6, <1>8, <1>9, <1>10 DEF Reported

(* The steps of a run between its first and its last. *)
LEMMA StepReported ==
  ASSUME EvalTyped, Reported, NEW w \in Evaluators, EvalStep(w)
  PROVE  Reported'
<1> DEFINE job == evaluators[w]
<1>1. ASSUME evaluators[w] # None, evaluators[w].at \in {"list", "resolve", "judge", "record"}
      PROVE  job \in EvalJobs /\ Runs(w) /\ RunSound(job)
  BY <1>1, JobFields DEF EvalTyped, Runs, Reported
<1>2. ASSUME NEW u \in SourceTraces, Moves(w, Examine(job, u)), evaluators[w] # None,
             evaluators[w].at = "resolve", job.todo # {}, UNCHANGED evalTables
      PROVE  Reported'
  <2>1. /\ Examine(job, u).at = "judge" /\ Examine(job, u).run = job.run
        /\ Examine(job, u).todo = job.todo /\ Examine(job, u).done = job.done
    BY <1>1, <1>2, ExamineTyped
  <2>2. RunSound(Examine(job, u))
    BY <1>1, <1>2, <2>1 DEF RunSound
  <2> QED
    BY <1>1, <1>2, <2>1, <2>2, ReportedKept
<1>3. ASSUME NEW status \in {"succeeded", "failed", "skipped"}, NEW u \in SourceTraces \union {None},
             NEW scores \in Seq(Verdicts),
             NEW asserted \in {"passed", "failed", None},
             Moves(w, Recording(job, status, u, scores, asserted)), evaluators[w] # None,
             evaluators[w].at \in {"resolve", "judge"}, job.todo # {}, UNCHANGED evalTables
      PROVE  Reported'
  <2> DEFINE rest == Recording(job, status, u, scores, asserted)
  <2>1. /\ rest.at = "record" /\ rest.run = job.run /\ rest.todo = job.todo
        /\ rest.done = job.done
        /\ rest.row.run = job.run /\ rest.row.example = NextExample(job)[1]
    BY <1>1, <1>3, RecordingTyped
  <2> HIDE DEF rest
  <2>2. NextExample(rest) = NextExample(job)
    BY <2>1 DEF NextExample
  <2>3. RunSound(rest)
    BY <1>1, <1>3, <2>1, <2>2 DEF RunSound
  <2> QED
    BY <1>1, <1>3, <2>1, <2>3, ReportedKept DEF rest
<1>4. CASE ListExamples(w)
  <2>1. job \in EvalJobs /\ Runs(w) /\ RunSound(job) /\ job.at = "list"
    BY <1>1, <1>4 DEF ListExamples, EvaluatorAt
  <2> DEFINE listed == {<<e, dataset[e]>> : e \in {x \in DOMAIN dataset : dataset[x] # None}}
             rest == [job EXCEPT !.at = "resolve", !.todo = listed]
  <2>2. \A x, y \in listed : x[1] = y[1] => x = y
    OBVIOUS
  <2> HIDE DEF listed
  <2>3. rest.at = "resolve" /\ rest.run = job.run /\ rest.todo = listed /\ rest.done = {}
    BY <2>1 DEF EvalJobs, RunJobs, RunSound
  <2>4. Moves(w, rest)
    BY <1>4 DEF ListExamples, listed
  <2> HIDE DEF rest
  <2>5. RunSound(rest)
    BY <2>1, <2>2, <2>3 DEF RunSound
  <2> QED
    BY <1>4, <2>1, <2>3, <2>4, <2>5, ReportedKept DEF ListExamples
<1>5. CASE ResolveInProcess(w)
  <2>1. job \in EvalJobs /\ job.todo # {}
    BY <1>1, <1>5 DEF ResolveInProcess, Resolving, EvaluatorAt
  <2>2. NextExample(job)[2].trace \in SourceTraces
    BY <2>1, NextIsLeft DEF EvalJobs, RunJobs, ExampleRows
  <2> QED
    BY <1>2, <1>5, <2>2 DEF ResolveInProcess, Resolving, EvaluatorAt
<1>6. CASE RunnerFails(w) \/ RunnerUnknown(w)
  <2>1. CASE RunnerFails(w)
    BY <1>3, <2>1, NoScores DEF RunnerFails, Resolving, EvaluatorAt
  <2>2. CASE RunnerUnknown(w)
    <3>1. job \in EvalJobs /\ job.todo # {}
      BY <1>1, <2>2 DEF RunnerUnknown, Resolving, EvaluatorAt
    <3>2. NextExample(job)[2].trace \in SourceTraces
      BY <3>1, NextIsLeft DEF EvalJobs, RunJobs, ExampleRows
    <3> QED
      BY <1>3, <2>2, <3>2, NoScores DEF RunnerUnknown, Resolving, EvaluatorAt
  <2> QED
    BY <1>6, <2>1, <2>2
<1>7. ASSUME NEW u \in SourceTraces, RunnerNames(w, u) PROVE Reported'
  BY <1>2, <1>7 DEF RunnerNames, Resolving, EvaluatorAt
<1>8. ASSUME NEW u \in SourceTraces, NEW output, NEW complete, IngestOutput(w, u, output, complete)
      PROVE  Reported'
  BY <1>2, <1>3, <1>8, NoScores DEF IngestOutput, Resolving, EvaluatorAt
<1>9. ASSUME NEW scores \in Seq(Verdicts), JudgeExample(w, scores) PROVE Reported'
  <2>1. job \in EvalJobs /\ job.todo # {} /\ job.trace \in SourceTraces \union {None}
    BY <1>1, <1>9 DEF JudgeExample, EvaluatorAt, EvalJobs, RunJobs
  <2> DEFINE asserted == AssertionStatus(SpansOf(job.trace), NextExample(job)[2].want)
  <2>2. asserted \in {"passed", "failed", None}
    BY DEF AssertionStatus
  <2>3. ResultStatus(asserted, scores) \in {"succeeded", "failed", "skipped"}
    BY DEF ResultStatus
  <2>4. \/ Moves(w, Recording(job, "failed", job.trace, <<>>, None))
        \/ Moves(w, Recording(job, ResultStatus(asserted, scores), job.trace, scores, asserted))
    BY <1>9 DEF JudgeExample
  <2> HIDE DEF asserted
  <2> QED
    BY <1>3, <1>9, <2>1, <2>2, <2>3, <2>4, NoScores DEF JudgeExample, EvaluatorAt
<1> QED
  BY <1>4, <1>5, <1>6, <1>7, <1>8, <1>9, RecordReported, CompleteReported DEF EvalStep

LEMMA EvalReports ==
  ASSUME EvalTyped, Reported, [EvalNext]_evalVars
  PROVE  Reported'
<1>1. ASSUME UNCHANGED <<evalTables, evaluators>> PROVE Reported'
  <2>1. UNCHANGED <<evals, results, touched, evaluators>>
    BY <1>1 DEF evalTables
  <2> QED
    BY <2>1 DEF Reported, Runs, RunSound, RowsOf, OnePerExample
<1>2. ASSUME NEW t \in SourceTraces,
             \/ \E s \in Spans : StoreSpan(t, s)
             \/ \E want \in Wants : AddToDataset(t, want)
      PROVE  Reported'
  BY <1>1, <1>2 DEF StoreSpan, AddToDataset
<1>3. ASSUME NEW text, NEW tagged, CommitPromptText(text, tagged) PROVE Reported'
  BY <1>1, <1>3 DEF CommitPromptText
<1>4. ASSUME NEW r, VerifyRevert(r) \/ IgnoreRevert(r) PROVE Reported'
  BY <1>1, <1>4 DEF VerifyRevert, IgnoreRevert
<1>5. CASE PollEvals \/ UNCHANGED evalVars
  BY <1>1, <1>5 DEF PollEvals, evalVars, evalTables
<1>6. ASSUME NEW w \in Evaluators, EvalStops(w) \/ MarkReverted(w) PROVE Reported'
  BY <1>6, ReportedKept DEF EvalStops, MarkReverted
<1>7. ASSUME NEW w \in Evaluators, NEW r, StartRevert(w, r) PROVE Reported'
  <2> DEFINE rest == [at |-> "revert", run |-> r, target |-> reverts[r].target]
  <2>1. Moves(w, rest) /\ rest.at = "revert" /\ UNCHANGED evalTables
    BY <1>7 DEF StartRevert
  <2> HIDE DEF rest
  <2> QED
    BY <2>1, ReportedKept
<1>8. ASSUME NEW w \in Evaluators, CommitRevert(w) PROVE Reported'
  <2>1. PICK rest : Moves(w, rest) /\ rest.at = "reverted" /\ UNCHANGED evalTables
    BY <1>8 DEF CommitRevert
  <2> QED
    BY <2>1, ReportedKept
<1> QED
  BY <1>2, <1>3, <1>4, <1>5, <1>6, <1>7, <1>8, DeletionReported, StartReported, StepReported
     DEF EvalNext

(* Rows are stored once per example, and jobs keep what they have stored. *)
LEMMA RowsReported == EvalSpec => []Reported
<1>1. EvalInit => Reported
  BY FS_EmptySet DEF EvalInit, Reported, Runs
<1>2. EvalTyped /\ Reported /\ [EvalNext]_evalVars => Reported'
  BY EvalReports
<1> QED
  BY <1>1, <1>2, EvalTyping, PTL DEF EvalSpec

(* The summary of a run is what its stored rows say, and a comparison in which the rate
   falls shows why, however spans, deletions and other runs came between. *)
THEOREM Reports == EvalSpec => []ReportsExplained
<1>1. EvalTyped /\ Reported => ReportsExplained
  <2> SUFFICES ASSUME EvalTyped, Reported PROVE ReportsExplained
    OBVIOUS
  <2>1. \A r \in DOMAIN evals \ touched :
          evals[r].status = "completed" => evals[r].summary = Summary(RowsOf(r))
    BY DEF Reported
  <2>2. SummaryIsTheRows
    <3>1. ASSUME NEW rows
          PROVE  /\ UNION {{<<x, i>> : i \in {k \in DOMAIN x.scores : x.scores[k] = "pass"}} : x \in rows}
                      = Passing(rows)
                 /\ UNION {{<<x, i>> : i \in {k \in DOMAIN x.scores : TRUE}} : x \in rows} = Scores(rows)
      BY DEF Passing, Scores
    <3> QED
      BY <2>1, <3>1 DEF SummaryIsTheRows, Summary
  <2>3. RegressionExplained
    BY <2>1, LowerIsWorse, WorseIsShown DEF RegressionExplained
  <2> QED
    BY <2>2, <2>3 DEF ReportsExplained
<1> QED
  BY <1>1, EvalTyping, RowsReported, PTL

-----------------------------------------------------------------------------
(* The numbers of a summary, the examples of the rows, and the tag. *)

\* A summary with no more passes than verdicts.
SummarySound(summary) ==
  summary.passes <= summary.verdicts

EvalRanges ==
  /\ Len(prompts) <= MaxPrompts /\ prod \in DOMAIN prompts \union {None}
  /\ \A r \in DOMAIN evals : SummarySound(evals[r].summary)
  /\ \A x \in results : x.example \in DOMAIN dataset
  /\ \A w \in Evaluators : Runs(w) => \A x \in evaluators[w].todo : x[1] \in DOMAIN dataset

(* Of finitely many rows, the scores that pass are among the scores. *)
LEMMA SummaryOfRows ==
  ASSUME NEW rows \in SUBSET ResultRows, IsFiniteSet(rows)
  PROVE  SummarySound(Summary(rows))
<1>1. Passing(rows) \subseteq Scores(rows) /\ IsFiniteSet(Scores(rows))
  BY ScoresFinite DEF Passing
<1>2. Cardinality(Passing(rows)) <= Cardinality(Scores(rows))
  BY <1>1, FS_Subset
<1> QED
  BY <1>2 DEF SummarySound, Summary

(* Rows about different examples are no more than the examples. *)
LEMMA RowsFinite ==
  ASSUME NEW rows \in SUBSET ResultRows, OnePerExample(rows)
  PROVE  IsFiniteSet(rows)
<1> DEFINE about == [x \in rows |-> x.example]
<1>1. about \in [rows -> 1 .. MaxExamples] /\ \A x \in rows : about[x] = x.example
  BY DEF ResultRows
<1> HIDE DEF about
<1>2. about \in Injection(rows, 1 .. MaxExamples)
  BY <1>1 DEF Injection, IsInjective, OnePerExample
<1>3. IsFiniteSet(1 .. MaxExamples)
  BY EvalAssumption, FS_Interval
<1> QED
  BY <1>2, <1>3, FS_Injection

(* A job of a request, of which the examples that are left are among those there are. *)
LEMMA RangesGoOn ==
  ASSUME EvalTyped, EvalRanges, NEW w \in Evaluators, NEW next, Moves(w, next),
         UNCHANGED <<dataset, prompts, prod>>,
         \A r \in DOMAIN evals' : SummarySound(evals'[r].summary),
         \A x \in results' : x.example \in DOMAIN dataset,
         next # None /\ next.at \in {"list", "resolve", "judge", "record"} =>
           \A x \in next.todo : x[1] \in DOMAIN dataset
  PROVE  EvalRanges'
<1>1. \A v \in Evaluators : evaluators'[v] = IF v = w THEN next ELSE evaluators[v]
  BY DEF Moves, EvalTyped
<1>2. ASSUME NEW v \in Evaluators, Runs(v)'
      PROVE  \A x \in evaluators'[v].todo : x[1] \in DOMAIN dataset
  BY <1>1, <1>2 DEF Runs, EvalRanges
<1> QED
  BY <1>2 DEF EvalRanges

LEMMA RangesStep ==
  ASSUME EvalTyped, Restoring, Reported, EvalRanges, [EvalNext]_evalVars
  PROVE  EvalRanges'
<1>1. ASSUME UNCHANGED <<dataset, evals, results, prompts, prod, evaluators>>
      PROVE  EvalRanges'
  BY <1>1 DEF EvalRanges, Runs
<1>2. CASE \/ \E t \in SourceTraces, s \in Spans : StoreSpan(t, s)
           \/ PollEvals
           \/ \E r \in DOMAIN reverts : VerifyRevert(r) \/ IgnoreRevert(r)
           \/ UNCHANGED evalVars
  BY <1>1, <1>2 DEF StoreSpan, PollEvals, VerifyRevert, IgnoreRevert, evalVars, evalTables,
                    promptRegistry
<1>3. ASSUME NEW t \in SourceTraces, NEW want \in Wants, AddToDataset(t, want)
      PROVE  EvalRanges'
  <2>1. /\ UNCHANGED <<evals, results, prompts, prod, evaluators>>
        /\ DOMAIN dataset \subseteq DOMAIN dataset'
    BY <1>3 DEF AddToDataset, EvalTyped, evalTables, promptRegistry
  <2> QED
    BY <2>1 DEF EvalRanges, Runs
<1>4. ASSUME NEW t \in SourceTraces, DeleteTrace(t)
      PROVE  EvalRanges'
  <2>1. /\ UNCHANGED <<evals, prompts, prod, evaluators>> /\ results' \subseteq results
        /\ DOMAIN dataset' = DOMAIN dataset
    BY <1>4 DEF DeleteTrace, promptRegistry
  <2> QED
    BY <2>1 DEF EvalRanges, Runs
<1>5. ASSUME NEW text \in {"x", "y"}, NEW tagged \in BOOLEAN, CommitPromptText(text, tagged)
      PROVE  EvalRanges'
  <2>1. UNCHANGED <<dataset, evals, results, evaluators>>
    BY <1>5 DEF CommitPromptText, evalTables
  <2>2. Len(prompts') <= MaxPrompts /\ prod' \in DOMAIN prompts' \union {None}
    BY <1>5, EvalAssumption DEF CommitPromptText, EvalTyped, EvalRanges
  <2> QED
    BY <2>1, <2>2 DEF EvalRanges, Runs
<1>6. ASSUME NEW w \in Evaluators, NEW panel \in Panels, NEW runner \in Runners,
             NEW version \in DOMAIN prompts \union {None}, StartEval(w, panel, runner, version)
      PROVE  EvalRanges'
  <2>1. UNCHANGED <<dataset, results, prompts, prod>>
    BY <1>6 DEF StartEval, promptRegistry
  <2>2. PICK row : row.summary = NoSummary /\ evals' = Append(evals, row)
    BY <1>6 DEF StartEval
  <2>3. SummarySound(row.summary)
    BY <2>2, SummaryOfRows, FS_EmptySet DEF NoSummary
  <2>4. \A r \in DOMAIN evals' : SummarySound(evals'[r].summary)
    <3>1. \A r \in DOMAIN evals' : (r \in DOMAIN evals /\ evals'[r] = evals[r]) \/ evals'[r] = row
      BY <2>2 DEF EvalTyped
    <3> QED
      BY <2>3, <3>1 DEF EvalRanges
  <2>5. PICK job : Moves(w, job) /\ job.todo = {}
    BY <1>6 DEF StartEval
  <2> QED
    BY <2>1, <2>4, <2>5, RangesGoOn DEF EvalRanges
<1>7. ASSUME NEW w \in Evaluators, EvalStep(w)
      PROVE  EvalRanges'
  <2>1. PICK job : job = evaluators[w]
    OBVIOUS
  <2>2. /\ UNCHANGED <<dataset, prompts, prod>> /\ Runs(w) /\ RunSound(job) /\ job \in EvalJobs
        /\ \A x \in job.todo : x[1] \in DOMAIN dataset
    <3>1. UNCHANGED <<dataset, prompts, prod>> /\ Runs(w)
      BY <1>7 DEF EvalStep, ListExamples, ResolveInProcess, RunnerUnknown, RunnerFails, RunnerNames,
                  IngestOutput, JudgeExample, RecordResult, CompleteEval, Resolving, EvaluatorAt,
                  Runs, promptRegistry
    <3> QED
      BY <2>1, <3>1, JobFields DEF Runs, Reported, EvalTyped, EvalRanges
  <2>3. CASE \E next : /\ Moves(w, next) /\ UNCHANGED <<evals, results>>
                       /\ next = None \/ \A x \in next.todo : x[1] \in DOMAIN dataset
    BY <2>2, <2>3, RangesGoOn DEF EvalRanges
  <2>4. CASE ListExamples(w)
    <3>1. PICK listed, next :
            /\ listed = {<<e, dataset[e]>> : e \in {x \in DOMAIN dataset : dataset[x] # None}}
            /\ next = [job EXCEPT !.at = "resolve", !.todo = listed] /\ Moves(w, next)
      BY <2>1, <2>4 DEF ListExamples
    <3>2. next.todo = listed
      BY <2>2, <3>1 DEF EvalJobs, RunJobs
    <3>3. \A x \in next.todo : x[1] \in DOMAIN dataset
      BY <3>1, <3>2
    <3> QED
      BY <2>3, <2>4, <3>1, <3>3 DEF ListExamples, evalTables
  <2>5. CASE \/ ResolveInProcess(w) \/ RunnerFails(w) \/ RunnerUnknown(w)
             \/ \E u \in SourceTraces : RunnerNames(w, u)
             \/ \E u \in SourceTraces, output \in SUBSET Spans,
                  complete \in BOOLEAN : IngestOutput(w, u, output, complete)
             \/ \E scores : JudgeExample(w, scores)
    <3>1. /\ UNCHANGED <<evals, results>>
          /\ \E next : /\ Moves(w, next)
                        /\ \/ \E u : next = Examine(job, u)
                           \/ \E status, u, scores, asserted :
                                next = Recording(job, status, u, scores, asserted)
      BY <2>1, <2>5 DEF ResolveInProcess, RunnerFails, RunnerUnknown, RunnerNames, IngestOutput, JudgeExample,
                        evalTables
    <3>2. PICK next : Moves(w, next) /\ next.todo = job.todo
      BY <2>2, <3>1 DEF Examine, Recording, EvalJobs, RunJobs
    <3> QED
      BY <2>2, <2>3, <3>1, <3>2
  <2>6. CASE RecordResult(w)
    <3>1. /\ job.row.example = NextExample(job)[1] /\ NextExample(job) \in job.todo
          /\ results' = results \union {job.row} /\ UNCHANGED evals
      BY <2>1, <2>2, <2>6, NextIsLeft DEF RecordResult, EvaluatorAt, EvalJobs, RunSound
    <3>2. PICK next : Moves(w, next) /\ next.todo \subseteq job.todo
      <4>1. PICK next : /\ Moves(w, next)
                        /\ next = [job EXCEPT !.at = "resolve", !.todo = TodoAfter(job),
                                    !.done = @ \union {job.row}, !.trace = None, !.row = None]
        BY <2>1, <2>6 DEF RecordResult
      <4>2. next.todo = TodoAfter(job)
        BY <2>2, <4>1 DEF EvalJobs, RunJobs
      <4> QED
        BY <4>1, <4>2 DEF TodoAfter
    <3> QED
      BY <2>2, <3>1, <3>2, RangesGoOn DEF EvalRanges
  <2>7. CASE CompleteEval(w)
    <3>1. /\ UNCHANGED results /\ Moves(w, None)
          /\ evals' = [evals EXCEPT ![job.run].status = "completed",
                                    ![job.run].summary = Summary(job.done)]
      BY <2>1, <2>7 DEF CompleteEval
    <3>2. SummarySound(Summary(job.done))
      BY <2>2, RowsFinite, SummaryOfRows DEF RunSound, EvalJobs, RunJobs
    <3>3. \A r \in DOMAIN evals' : r \in DOMAIN evals
                                   /\ evals'[r].summary \in {evals[r].summary, Summary(job.done)}
      <4>1. job.run \in DOMAIN evals /\ evals[job.run] \in EvalRows
        BY <2>2 DEF RunSound, EvalTyped
      <4>2. PICK summary : summary = Summary(job.done)
        OBVIOUS
      <4>3. PICK row : /\ row = [evals[job.run] EXCEPT !.status = "completed", !.summary = summary]
                       /\ evals' = [evals EXCEPT ![job.run] = row]
        BY <3>1, <4>2
      <4>4. row.summary = summary
        BY <4>1, <4>3 DEF EvalRows
      <4> QED
        BY <4>2, <4>3, <4>4 DEF EvalTyped
    <3>4. \A r \in DOMAIN evals' : SummarySound(evals'[r].summary)
      BY <3>2, <3>3 DEF EvalRanges
    <3> QED
      BY <2>2, <3>1, <3>4, RangesGoOn DEF EvalRanges
  <2> QED
    BY <1>7, <2>4, <2>5, <2>6, <2>7 DEF EvalStep
<1>8. ASSUME NEW w \in Evaluators, EvalStops(w) \/ MarkReverted(w)
      PROVE  EvalRanges'
  BY <1>8, RangesGoOn DEF EvalStops, MarkReverted, EvalRanges, evalTables, promptRegistry
<1>9. ASSUME NEW w \in Evaluators, NEW r \in DOMAIN reverts, StartRevert(w, r)
      PROVE  EvalRanges'
  <2>1. PICK next : /\ Moves(w, next) /\ next.at = "revert"
                    /\ UNCHANGED <<dataset, prompts, prod, evals, results>>
    BY <1>9 DEF StartRevert, evalTables, promptRegistry
  <2> QED
    BY <2>1, RangesGoOn DEF EvalRanges
<1>10. ASSUME NEW w \in Evaluators, CommitRevert(w)
       PROVE  EvalRanges'
  <2>1. PICK next : /\ Moves(w, next) /\ next.at = "reverted"
                    /\ UNCHANGED <<dataset, evals, results>>
    BY <1>10 DEF CommitRevert, evalTables
  <2>2. Len(prompts') <= MaxPrompts /\ prod' \in DOMAIN prompts'
    BY <1>10, EvalAssumption DEF CommitRevert, EvalTyped, EvalRanges
  <2>3. \A v \in Evaluators : evaluators'[v] = IF v = w THEN next ELSE evaluators[v]
    BY <2>1 DEF Moves, EvalTyped
  <2>4. \A v \in Evaluators : Runs(v)' => Runs(v) /\ evaluators'[v] = evaluators[v]
    BY <2>1, <2>3 DEF Runs
  <2> QED
    BY <2>1, <2>2, <2>4 DEF EvalRanges
<1> QED
  BY <1>2, <1>3, <1>4, <1>5, <1>6, <1>7, <1>8, <1>9, <1>10 DEF EvalNext

\* A trace has spans, or no row.
TracesTyped == stored \in [SourceTraces -> (SUBSET Spans) \union {None}]

LEMMA TracesStayTyped == TracesTyped /\ [EvalNext]_evalVars => TracesTyped'
<1> SUFFICES ASSUME TracesTyped, [EvalNext]_evalVars
             PROVE  TracesTyped'
  OBVIOUS
<1>1. ASSUME NEW t \in SourceTraces, NEW records \in SUBSET Spans, stored' = SpansUpserted(t, records)
      PROVE  TracesTyped'
  BY <1>1 DEF SpansUpserted, SpansOf, TracesTyped
<1>2. CASE UNCHANGED stored
  BY <1>2 DEF TracesTyped
<1>3. ASSUME NEW t \in SourceTraces, NEW s \in Spans, StoreSpan(t, s)
      PROVE  TracesTyped'
  BY <1>1, <1>3 DEF StoreSpan
<1>4. ASSUME NEW t \in SourceTraces, DeleteTrace(t)
      PROVE  TracesTyped'
  BY <1>4 DEF DeleteTrace, TracesTyped
<1>5. ASSUME NEW w \in Evaluators, EvalStep(w)
      PROVE  TracesTyped'
  <2>1. CASE \E u \in SourceTraces, output \in SUBSET Spans, complete \in BOOLEAN :
               IngestOutput(w, u, output, complete)
    BY <1>1, <2>1 DEF IngestOutput
  <2>2. CASE ~ \E u \in SourceTraces, output \in SUBSET Spans, complete \in BOOLEAN :
                 IngestOutput(w, u, output, complete)
    BY <1>2, <1>5, <2>2
    DEF EvalStep, ListExamples, ResolveInProcess, RunnerUnknown, RunnerFails, RunnerNames,
        JudgeExample, RecordResult, CompleteEval
  <2> QED
    BY <2>1, <2>2
<1>6. CASE UNCHANGED evalVars
  BY <1>2, <1>6 DEF evalVars
<1> QED
  BY <1>2, <1>3, <1>4, <1>5, <1>6
  DEF EvalNext, AddToDataset, CommitPromptText, StartEval, EvalStops, StartRevert, CommitRevert,
      MarkReverted, PollEvals, VerifyRevert, IgnoreRevert

LEMMA TracesAlways == EvalSpec => []TracesTyped
<1>1. EvalInit => TracesTyped
  BY DEF EvalInit, TracesTyped
<1> QED
  BY <1>1, TracesStayTyped, PTL DEF EvalSpec

(* Whatever deletions, late spans and approvals come between, a result belongs to a run
   and an example that there are, the numbers of a summary go together, and the tag names
   a version that is there. *)
THEOREM EvalTables == EvalSpec => []EvalTypeOK
<1>1. EvalInit => EvalRanges
  BY EvalAssumption DEF EvalInit, EvalRanges, Runs
<1>2. EvalTyped /\ Restoring /\ Reported /\ EvalRanges /\ [EvalNext]_evalVars => EvalRanges'
  BY RangesStep
<1>3. EvalTyped /\ Reported /\ TracesTyped /\ EvalRanges => EvalTypeOK
  <2>1. SUFFICES ASSUME EvalTyped, Reported, TracesTyped, EvalRanges
                 PROVE  EvalTypeOK
    OBVIOUS
  <2>2. \A r \in DOMAIN evals : evals[r].status \in {"running", "completed"}
    <3>1. ASSUME NEW r \in DOMAIN evals PROVE evals[r].status \in {"running", "completed"}
      <4>1. evals[r] \in EvalRows
        BY <2>1 DEF EvalTyped
      <4> QED
        BY <4>1 DEF EvalRows
    <3> QED
      BY <3>1
  <2>3. \A x \in results : x.status \in {"succeeded", "failed", "skipped"}
    BY <2>1 DEF EvalTyped, ResultRows
  <2>4. \A r \in DOMAIN reverts : reverts[r].stage \in {"propose_fix", "verify", "close"}
    BY <2>1 DEF EvalTyped, RevertEvents
  <2> QED
    BY <2>1, <2>2, <2>3, <2>4
    DEF EvalTypeOK, EvalRanges, Reported, TracesTyped, SpansOf, SummarySound
<1> QED
  BY <1>1, <1>2, <1>3, EvalTyping, RowsReported, TracesAlways, PTL DEF EvalSpec

-----------------------------------------------------------------------------
(* Investigations. *)

(* A table of which the rows are numbered, whatever they are. *)
Numbered(s) == \E S : s \in Seq(S)

LEMMA NoRows == Numbered(<<>>) /\ DOMAIN <<>> = {}
<1>1. <<>> \in Seq({})
  OBVIOUS
<1> QED
  BY <1>1 DEF Numbered

LEMMA NumberedRows ==
  ASSUME NEW s, Numbered(s)
  PROVE  /\ Len(s) \in Nat /\ DOMAIN s = 1 .. Len(s)
         /\ \A x : /\ Numbered(Append(s, x)) /\ Len(Append(s, x)) = Len(s) + 1
                   /\ DOMAIN Append(s, x) = 1 .. (Len(s) + 1)
                   /\ \A k \in DOMAIN s : Append(s, x)[k] = s[k]
                   /\ Append(s, x)[Len(s) + 1] = x
<1>1. PICK S : s \in Seq(S)
  BY DEF Numbered
<1>2. ASSUME NEW x
      PROVE  /\ Numbered(Append(s, x)) /\ Len(Append(s, x)) = Len(s) + 1
             /\ DOMAIN Append(s, x) = 1 .. (Len(s) + 1)
             /\ \A k \in DOMAIN s : Append(s, x)[k] = s[k]
             /\ Append(s, x)[Len(s) + 1] = x
  <2>1. s \in Seq(S \union {x}) /\ x \in S \union {x}
    BY <1>1, SeqMonotonic
  <2>2. Append(s, x) \in Seq(S \union {x})
    BY <2>1, AppendProperties
  <2>3. Numbered(Append(s, x))
    BY <2>2 DEF Numbered
  <2> QED
    BY <2>1, <2>3, AppendProperties
<1> QED
  BY <1>1, <1>2

LEMMA NumberedAnew ==
  ASSUME NEW s, Numbered(s), NEW t, NEW T, t \in [DOMAIN s -> T]
  PROVE  Numbered(t) /\ Len(t) = Len(s) /\ DOMAIN t = DOMAIN s
<1>1. Len(s) \in Nat /\ DOMAIN s = 1 .. Len(s)
  BY NumberedRows
<1>2. t \in [1 .. Len(s) -> T]
  BY <1>1
<1>3. t \in Seq(T)
  BY <1>1, <1>2, SeqDef
<1> QED
  BY <1>1, <1>2, <1>3 DEF Numbered

CaseFields == {"at", "kind", "issue", "seed", "found", "entities", "run", "report", "about",
               "first", "links", "spans", "result"}

(* The entities of a report, and the traces it names for each. *)
EntityMap(m) ==
  /\ DOMAIN m \subseteq Accounts \union {Redacted}
  /\ \A e \in DOMAIN m : m[e] \subseteq CaseTraces

(* The accounts that who may see a level may see. *)
Visible(level) == {a \in Accounts : Level[a] <= level}

IsLink(l) == DOMAIN l = {"issue", "target", "relation", "traces"}

IsJob(job) ==
  /\ DOMAIN job = CaseFields
  /\ Numbered(job.links) /\ \A n \in DOMAIN job.links : IsLink(job.links[n])
  /\ job.at \in {"search", "build", "run", "report"} => job.links = <<>>
  /\ job.at \in {"search", "build"} => job.found \subseteq CaseTraces
  /\ job.at \in {"run", "report"} => \A e \in DOMAIN job.entities : job.entities[e] # {}
  /\ job.at \in {"run", "report", "first", "upsert"} => EntityMap(job.entities)
  /\ job.at = "upsert" => job.first.traces \subseteq CaseTraces
  /\ job.at = "pack" => /\ job.about \in 0 .. 2
                        /\ \A t \in DOMAIN job.entities : job.entities[t] \subseteq Visible(job.about)

IsReport(r) ==
  /\ DOMAIN r = {"issue", "representative", "entities", "count"}
  /\ EntityMap(r.entities)
  /\ r.count = Cardinality({e \in DOMAIN r.entities : r.entities[e] # {}})

IsEntity(row) ==
  /\ DOMAIN row = {"issue", "entity", "status", "traces"}
  /\ row.traces \subseteq CaseTraces

IsPack(p) ==
  /\ DOMAIN p = {"level", "sources", "accounts", "cites"}
  /\ p.level \in 0 .. 2 /\ p.accounts \subseteq Visible(p.level)

(* The tables, and what the requests in flight have in memory. *)
CaseRows ==
  /\ DOMAIN cases = CaseTraces
  /\ \A t \in CaseTraces : cases[t] \in (SUBSET Accounts) \union {None, Gone}
  /\ Numbered(reports) /\ \A r \in DOMAIN reports : IsReport(reports[r])
  /\ Numbered(affected) /\ \A k \in DOMAIN affected : IsEntity(affected[k])
  /\ Numbered(packs) /\ \A p \in DOMAIN packs : IsPack(packs[p])
  /\ \A l \in issueLinks : IsLink(l)
  /\ DOMAIN agents = Investigators
  /\ \A w \in Investigators : agents[w] # None => IsJob(agents[w])

(* A request that takes a step, and no other does. *)
LEMMA GoingOn ==
  ASSUME CaseRows, NEW w \in Investigators, NEW job, GoesOn(w, job)
  PROVE  /\ DOMAIN agents' = Investigators /\ agents'[w] = job
         /\ \A v \in Investigators \ {w} : agents'[v] = agents[v]
  BY DEF CaseRows, GoesOn

(* A job that begins. *)
LEMMA JobBegins ==
  ASSUME NEW at, NEW kind, NEW issue, NEW seed
  PROVE  LET job == Job(at, kind, issue, seed) IN
           /\ DOMAIN job = CaseFields /\ job.at = at /\ job.issue = issue /\ job.seed = seed
           /\ job.links = <<>> /\ job.found = {} /\ job.about = None
           /\ DOMAIN job.entities = {}
           /\ Numbered(job.links) /\ DOMAIN job.links = {}
BY NoRows DEF Job, CaseFields

(* The rows written in one go, in some order. *)
LEMMA ListedOnce ==
  ASSUME NEW S, IsFiniteSet(S)
  PROVE  /\ Numbered(SetToSeq(S)) /\ Len(SetToSeq(S)) \in Nat
         /\ DOMAIN SetToSeq(S) = 1 .. Len(SetToSeq(S))
         /\ \A n \in DOMAIN SetToSeq(S) : SetToSeq(S)[n] \in S
         /\ \A x \in S : \E n \in DOMAIN SetToSeq(S) : SetToSeq(S)[n] = x
<1> DEFINE n == Cardinality(S)
<1>1. n \in Nat /\ ExistsBijection(1 .. n, S)
  BY FS_CardinalityType
<1>2. PICK f \in [1 .. n -> S] : IsInjective(f)
  BY <1>1 DEF ExistsBijection, Bijection, Injection
<1>3. SetToSeq(S) \in [1 .. n -> S] /\ IsInjective(SetToSeq(S))
  BY <1>2 DEF SetToSeq
<1>4. SetToSeq(S) \in Injection(1 .. n, S)
  BY <1>3 DEF Injection
<1>5. Cardinality(1 .. n) = n
  BY <1>1, FS_Interval
<1>6. SetToSeq(S) \in Surjection(1 .. n, S)
  BY <1>4, <1>5, FS_Injection
<1>7. \A x \in S : \E k \in 1 .. n : SetToSeq(S)[k] = x
  BY <1>6 DEF Surjection
<1>8. SetToSeq(S) \in Seq(S)
  BY <1>1, <1>3, SeqDef
<1>9. Len(SetToSeq(S)) \in Nat /\ DOMAIN SetToSeq(S) = 1 .. Len(SetToSeq(S))
  BY <1>8, LenProperties
<1> QED
  BY <1>3, <1>7, <1>8, <1>9 DEF Numbered

LEMMA LinksListed ==
  ASSUME NEW S, IsFiniteSet(S), \A l \in S : IsLink(l)
  PROVE  /\ Numbered(SetToSeq(S))
         /\ \A n \in DOMAIN SetToSeq(S) : SetToSeq(S)[n] \in S /\ IsLink(SetToSeq(S)[n])
BY ListedOnce

LEMMA PayloadLinks ==
  ASSUME NEW issue, NEW sources \in SUBSET Payloads
  PROVE  LET S == {ToLink(issue, p, "screenshot_payload", {}) : p \in sources} IN
           /\ IsFiniteSet(S)
           /\ \A l \in S : IsLink(l) /\ l.relation = "screenshot_payload"
<1> DEFINE S == {ToLink(issue, p, "screenshot_payload", {}) : p \in sources}
           g == [p \in sources |-> ToLink(issue, p, "screenshot_payload", {})]
<1>1. IsFiniteSet(sources)
  BY CaseAssumption, FS_Subset
<1>2. g \in Surjection(sources, S)
  BY DEF Surjection
<1>3. IsFiniteSet(S)
  BY <1>1, <1>2, FS_Surjection
<1> QED
  BY <1>3 DEF IsLink, ToLink

LEMMA EntitiesFound ==
  ASSUME CaseRows, NEW found \in SUBSET CaseTraces
  PROVE  /\ EntityMap(EntitiesIn(found))
         /\ \A e \in DOMAIN EntitiesIn(found) : EntitiesIn(found)[e] # {}
<1>1. \A t \in found : AccountsOf(t) \subseteq Accounts
  BY DEF AccountsOf, CaseRows
<1>2. DOMAIN EntitiesIn(found) = {EntityOf(a) : a \in UNION {AccountsOf(t) : t \in found}}
  BY DEF EntitiesIn
<1>3. ASSUME NEW e \in DOMAIN EntitiesIn(found)
      PROVE  /\ e \in Accounts \union {Redacted}
             /\ EntitiesIn(found)[e] \subseteq CaseTraces /\ EntitiesIn(found)[e] # {}
  <2>1. PICK t \in found : \E a \in AccountsOf(t) : e = EntityOf(a)
    BY <1>2, <1>3
  <2>2. EntitiesIn(found)[e] = {u \in found : e \in {EntityOf(a) : a \in AccountsOf(u)}}
    BY <1>2, <1>3, Zenon DEF EntitiesIn
  <2>3. t \in EntitiesIn(found)[e]
    BY <2>1, <2>2
  <2> QED
    BY <1>1, <2>1, <2>2, <2>3 DEF EntityOf
<1> QED
  BY <1>3 DEF EntityMap

(* The links a request adds after those it has. *)
LEMMA LinksAppended ==
  ASSUME NEW s, Numbered(s), \A n \in DOMAIN s : IsLink(s[n]), NEW x, IsLink(x), NEW y, IsLink(y)
  PROVE  LET both == s \o <<x, y>> IN
           /\ Numbered(both)
           /\ \A n \in DOMAIN both :
                /\ IsLink(both[n])
                /\ both[n] = x \/ both[n] = y \/ \E m \in DOMAIN s : both[n] = s[m]
<1>1. PICK S : s \in Seq(S)
  BY DEF Numbered
<1>2. s \in Seq(S \union {x, y}) /\ <<x, y>> \in Seq(S \union {x, y})
  BY <1>1, SeqMonotonic
<1>3. s \o <<x, y>> \in Seq(S \union {x, y})
  BY <1>2
<1>4. \A n \in DOMAIN (s \o <<x, y>>) :
        \/ (s \o <<x, y>>)[n] = x \/ (s \o <<x, y>>)[n] = y
        \/ \E m \in DOMAIN s : (s \o <<x, y>>)[n] = s[m]
  BY <1>2
<1> QED
  BY <1>3, <1>4 DEF Numbered

LEMMA LinksLeft ==
  ASSUME NEW s, Numbered(s), s # <<>>
  PROVE  /\ Numbered(Tail(s)) /\ 1 \in DOMAIN s /\ Head(s) = s[1]
         /\ \A n \in DOMAIN Tail(s) : \E m \in DOMAIN s : Tail(s)[n] = s[m]
<1>1. PICK S : s \in Seq(S)
  BY DEF Numbered
<1>2. Tail(s) \in Seq(S) /\ 1 \in DOMAIN s /\ Head(s) = s[1]
      /\ \A n \in DOMAIN Tail(s) : n + 1 \in DOMAIN s /\ Tail(s)[n] = s[n + 1]
  BY <1>1
<1> QED
  BY <1>2 DEF Numbered

LEMMA OneLink ==
  ASSUME NEW x
  PROVE  Numbered(<<x>>) /\ \A n \in DOMAIN <<x>> : <<x>>[n] = x
<1>1. <<x>> \in Seq({x}) /\ DOMAIN <<x>> = {1} /\ <<x>>[1] = x
  OBVIOUS
<1> QED
  BY <1>1 DEF Numbered

(* A request's own turn: its job is of its type, or it is done. *)
Turn(w) == \E job : GoesOn(w, job) /\ (job = None \/ IsJob(job))

(* The first of some rows is one of them. *)
LEMMA FirstOfRows ==
  ASSUME NEW S \in SUBSET Nat
  PROVE  /\ S = {} => FirstOf(S) = None
         /\ S # {} => FirstOf(S) \in S /\ FirstOf(S) # None
<1>1. ASSUME S # {} PROVE \E m \in S : \A j \in S : m <= j
  BY <1>1, Smallest
<1> QED
  BY <1>1, CaseAssumption DEF FirstOf

(* The requests' turns, as far as they are about jobs. *)
LEMMA StartsTurn ==
  ASSUME CaseRows, NEW w \in Investigators, NEW seed \in Rows \union {None}
  PROVE  /\ \A sources \in SUBSET Payloads : ReportScreenshot(w, sources) => Turn(w)
         /\ \A issue \in DOMAIN issues \union {None} : StartWorkflow(w, issue, seed) => Turn(w)
         /\ StartChat(w, seed) => Turn(w)
         /\ \A k \in DOMAIN affected, kind \in {"review", "notify"} : ReadEntity(w, k, kind) => Turn(w)
         /\ \A sources \in SUBSET CaseTraces, level \in 0 .. 2 :
              StartPack(w, sources, level) => Turn(w)
<1>1. ASSUME NEW sources \in SUBSET Payloads, ReportScreenshot(w, sources) PROVE Turn(w)
  <2> DEFINE S == {ToLink(Len(issues'), p, "screenshot_payload", {}) : p \in sources}
             job == Job("link", "screenshot", Len(issues'), None)
  <2>1. Numbered(SetToSeq(S)) /\ \A n \in DOMAIN SetToSeq(S) : IsLink(SetToSeq(S)[n])
    BY PayloadLinks, LinksListed
  <2>2. DOMAIN job = CaseFields /\ job.at = "link"
    BY JobBegins
  <2>3. GoesOn(w, [job EXCEPT !.links = SetToSeq(S)])
    BY <1>1 DEF ReportScreenshot
  <2> HIDE DEF job, S
  <2>4. IsJob([job EXCEPT !.links = SetToSeq(S)])
    BY <2>1, <2>2 DEF IsJob, CaseFields
  <2> QED
    BY <2>3, <2>4 DEF Turn
<1>2. ASSUME NEW at, NEW kind, NEW issue, NEW s, at \in {"search", "review", "notify"}
      PROVE  IsJob(Job(at, kind, issue, s))
  BY <1>2, JobBegins DEF IsJob
<1>3. ASSUME NEW issue, StartWorkflow(w, issue, seed) PROVE Turn(w)
  BY <1>2, <1>3 DEF StartWorkflow, Turn
<1>4. ASSUME StartChat(w, seed) PROVE Turn(w)
  BY <1>2, <1>4 DEF StartChat, Turn
<1>5. ASSUME NEW k, NEW kind \in {"review", "notify"}, ReadEntity(w, k, kind) PROVE Turn(w)
  <2> DEFINE job == Job(kind, kind, affected[k].issue, None)
  <2>1. IsJob(job) /\ job.at = kind
    BY <1>2, JobBegins
  <2>2. GoesOn(w, [job EXCEPT !.found = affected[k].traces, !.about = <<"entity", k>>])
    BY <1>5 DEF ReadEntity
  <2> HIDE DEF job
  <2>3. IsJob([job EXCEPT !.found = affected[k].traces, !.about = <<"entity", k>>])
    BY <2>1 DEF IsJob, CaseFields
  <2> QED
    BY <2>2, <2>3 DEF Turn
<1>6. ASSUME NEW sources, NEW level \in 0 .. 2, StartPack(w, sources, level) PROVE Turn(w)
  <2> DEFINE job == Job("pack", "pack", None, None)
  <2>1. /\ DOMAIN job = CaseFields /\ job.at = "pack"
        /\ Numbered(job.links) /\ DOMAIN job.links = {} /\ DOMAIN job.entities = {}
    BY JobBegins, NoRows DEF Job
  <2>2. GoesOn(w, [job EXCEPT !.found = sources, !.about = level])
    BY <1>6 DEF StartPack
  <2> HIDE DEF job
  <2>3. IsJob([job EXCEPT !.found = sources, !.about = level])
    BY <1>6, <2>1 DEF IsJob, CaseFields
  <2> QED
    BY <2>2, <2>3 DEF Turn
<1> QED
  BY <1>1, <1>3, <1>4, <1>5, <1>6

\* A job for a pack, with one more of its sources read.
ReadsOn(job, next, t) ==
  /\ job # None /\ IsJob(job) /\ job.at = "pack" /\ t \in job.found
  /\ DOMAIN next = CaseFields
  /\ next.at = "pack" /\ next.kind = job.kind /\ next.issue = job.issue
  /\ next.found = job.found /\ next.run = job.run /\ next.about = job.about
  /\ next.links = job.links /\ next.result = job.result
  /\ next.spans = job.spans \union SpansIn({t})
  /\ DOMAIN next.entities = DOMAIN job.entities \union {t}
  /\ next.entities[t] \subseteq Visible(job.about)
  /\ \A u \in DOMAIN job.entities \ {t} : next.entities[u] = job.entities[u]

(* The next source of a pack is read. *)
LEMMA SourceRead ==
  ASSUME CaseRows, NEW w \in Investigators, NEW t \in CaseTraces, ReadSource(w, t)
  PROVE  \E next : GoesOn(w, next) /\ ReadsOn(agents[w], next, t)
<1>1. PICK job : job = agents[w]
  OBVIOUS
<1>2. job # None /\ IsJob(job) /\ job.at = "pack" /\ t \in job.found
  BY <1>1 DEF ReadSource, WorksAt, CaseRows
<1>3. PICK shown, entities, spans :
        /\ shown = {a \in AccountsOf(t) : Shown(a, job.about)}
        /\ entities = [u \in DOMAIN job.entities \union {t} |-> IF u = t THEN shown ELSE job.entities[u]]
        /\ spans = job.spans \union SpansIn({t})
  OBVIOUS
<1>4. PICK next : next = [job EXCEPT !.spans = spans, !.entities = entities]
  OBVIOUS
<1>5. GoesOn(w, next)
  BY <1>1, <1>3, <1>4 DEF ReadSource
<1>6. shown \subseteq Visible(job.about)
  <2>1. AccountsOf(t) \subseteq Accounts
    BY DEF AccountsOf, CaseRows
  <2> QED
    BY <1>3, <2>1 DEF Shown, Visible
<1>7. /\ DOMAIN entities = DOMAIN job.entities \union {t} /\ entities[t] = shown
      /\ \A u \in DOMAIN job.entities \ {t} : entities[u] = job.entities[u]
  BY <1>3
<1>8. /\ DOMAIN next = CaseFields
      /\ next.at = "pack" /\ next.kind = job.kind /\ next.issue = job.issue
      /\ next.found = job.found /\ next.run = job.run /\ next.about = job.about
      /\ next.links = job.links /\ next.result = job.result
      /\ next.spans = spans /\ next.entities = entities
  BY <1>2, <1>4 DEF IsJob, CaseFields
<1>9. ReadsOn(job, next, t)
  BY <1>2, <1>3, <1>6, <1>7, <1>8 DEF ReadsOn
<1> QED
  BY <1>1, <1>5, <1>9

LEMMA SourceTurn ==
  ASSUME CaseRows, NEW w \in Investigators, NEW t \in CaseTraces, ReadSource(w, t)
  PROVE  Turn(w)
<1>1. PICK job, next : job = agents[w] /\ GoesOn(w, next) /\ ReadsOn(job, next, t)
  BY SourceRead
<1>2. \A u \in DOMAIN next.entities : next.entities[u] \subseteq Visible(next.about)
  BY <1>1 DEF IsJob, ReadsOn
<1>3. IsJob(next)
  BY <1>1, <1>2 DEF IsJob, ReadsOn
<1> QED
  BY <1>1, <1>3 DEF Turn

LEMMA InquiryTurn ==
  ASSUME CaseRows, NEW w \in Investigators,
         \/ \E found \in SUBSET CaseTraces : SearchCohort(w, found)
         \/ BuildReport(w) \/ InsertRun(w) \/ PersistReport(w)
         \/ \E e \in Accounts \union {Redacted} : ReadFirstEntity(w, e)
  PROVE  Turn(w)
<1> DEFINE job == agents[w]
<1>1. agents[w] # None => IsJob(job)
  BY DEF CaseRows
<1>2. ASSUME NEW found \in SUBSET CaseTraces, SearchCohort(w, found) PROVE Turn(w)
  <2>1. job.at = "search" /\ IsJob(job)
    BY <1>1, <1>2 DEF SearchCohort, WorksAt
  <2>2. found \union (Rows \intersect {job.seed}) \subseteq CaseTraces
    BY DEF Rows
  <2>3. IsJob([job EXCEPT !.at = "build", !.found = found \union (Rows \intersect {job.seed})])
    BY <2>1, <2>2 DEF IsJob, CaseFields
  <2> QED
    BY <1>2, <2>3 DEF SearchCohort, Turn
<1>3. CASE BuildReport(w)
  <2>1. job.at = "build" /\ IsJob(job)
    BY <1>1, <1>3 DEF BuildReport, WorksAt
  <2>2. /\ EntityMap(EntitiesIn(job.found))
        /\ \A e \in DOMAIN EntitiesIn(job.found) : EntitiesIn(job.found)[e] # {}
    BY <2>1, EntitiesFound DEF IsJob
  <2>3. PICK result : GoesOn(w, [job EXCEPT !.at = "run", !.entities = EntitiesIn(job.found),
                                            !.result = result])
    BY <1>3 DEF BuildReport
  <2>4. IsJob([job EXCEPT !.at = "run", !.entities = EntitiesIn(job.found), !.result = result])
    BY <2>1, <2>2 DEF IsJob, CaseFields
  <2> QED
    BY <2>3, <2>4 DEF Turn
<1>4. CASE InsertRun(w)
  <2>1. job.at = "run" /\ IsJob(job)
    BY <1>1, <1>4 DEF InsertRun, WorksAt
  <2>2. IsJob([job EXCEPT !.at = "report", !.run = Len(inquiries')])
    BY <2>1 DEF IsJob, CaseFields
  <2> QED
    BY <1>4, <2>2 DEF InsertRun, Turn
<1>5. CASE PersistReport(w)
  <2>1. job.at = "report" /\ IsJob(job)
    BY <1>1, <1>5 DEF PersistReport, WorksAt
  <2>2. PICK at \in {"link", "own links", "first"} :
          GoesOn(w, [job EXCEPT !.report = Len(reports'), !.at = at])
    BY <1>5 DEF PersistReport
  <2>3. IsJob([job EXCEPT !.report = Len(reports'), !.at = at])
    BY <2>1 DEF IsJob, CaseFields
  <2> QED
    BY <2>2, <2>3 DEF Turn
<1>6. ASSUME NEW e \in Accounts \union {Redacted}, ReadFirstEntity(w, e) PROVE Turn(w)
  <2>1. job.at = "first" /\ IsJob(job)
    BY <1>1, <1>6 DEF ReadFirstEntity, WorksAt
  <2>2. PICK first : /\ GoesOn(w, [job EXCEPT !.at = "upsert", !.first = first])
                     /\ first.traces \subseteq CaseTraces
    <3> DEFINE k == FirstOf(RowsFor(job.issue, e))
               first == [key |-> <<job.issue, e>>, row |-> k,
                         traces |-> IF k = None THEN {} ELSE affected[k].traces]
    <3>1. k # None => k \in DOMAIN affected
      BY FirstOfRows, NumberedRows DEF CaseRows, RowsFor
    <3>2. first.traces \subseteq CaseTraces
      BY <3>1 DEF CaseRows, IsEntity
    <3> QED
      BY <1>6, <3>2 DEF ReadFirstEntity
  <2>3. IsJob([job EXCEPT !.at = "upsert", !.first = first])
    BY <2>1, <2>2 DEF IsJob, CaseFields
  <2> QED
    BY <2>2, <2>3 DEF Turn
<1> QED
  BY <1>2, <1>3, <1>4, <1>5, <1>6

LEMMA LinksTurn ==
  ASSUME CaseRows, NEW w \in Investigators,
         OwnLinks(w) \/ AddLink(w) \/ FinishLinks(w) \/ ReadEvidence(w)
  PROVE  Turn(w)
<1> DEFINE job == agents[w]
<1>1. agents[w] # None => IsJob(job)
  BY DEF CaseRows
<1>2. CASE OwnLinks(w)
  <2> DEFINE x == ToLink(job.issue, <<"run", job.run>>, "investigated_by", job.result.cites)
             y == ToLink(job.issue, <<"report", job.report>>, "scoped_by", job.result.cites)
  <2>1. job.at = "own links" /\ IsJob(job)
    BY <1>1, <1>2 DEF OwnLinks, WorksAt
  <2>2. IsLink(x) /\ IsLink(y)
    BY DEF IsLink, ToLink
  <2>3. GoesOn(w, [job EXCEPT !.at = "link", !.links = job.links \o <<x, y>>])
    BY <1>2 DEF OwnLinks
  <2> HIDE DEF x, y
  <2>4. Numbered(job.links \o <<x, y>>)
        /\ \A n \in DOMAIN (job.links \o <<x, y>>) : IsLink((job.links \o <<x, y>>)[n])
    BY <2>1, <2>2, LinksAppended DEF IsJob
  <2> DEFINE both == job.links \o <<x, y>>
  <2> HIDE DEF both
  <2>5. IsJob([job EXCEPT !.at = "link", !.links = both])
    <3>1. Numbered(both) /\ \A n \in DOMAIN both : IsLink(both[n])
      BY <2>4 DEF both
    <3> QED
      BY <2>1, <3>1 DEF IsJob, CaseFields
  <2> QED
    BY <2>3, <2>5 DEF Turn, both
<1>3. CASE AddLink(w)
  <2>1. job.at = "link" /\ IsJob(job) /\ job.links # <<>>
    BY <1>1, <1>3 DEF AddLink, WorksAt
  <2>2. Numbered(Tail(job.links)) /\ \A n \in DOMAIN Tail(job.links) : IsLink(Tail(job.links)[n])
    BY <2>1, LinksLeft DEF IsJob
  <2>3. IsJob([job EXCEPT !.links = Tail(job.links)])
    BY <2>1, <2>2 DEF IsJob, CaseFields
  <2> QED
    BY <1>3, <2>3 DEF AddLink, Turn
<1>4. CASE FinishLinks(w)
  <2>1. job.at = "link" /\ IsJob(job)
    BY <1>1, <1>4 DEF FinishLinks, WorksAt
  <2>2. IsJob([job EXCEPT !.at = "evidence"])
    BY <2>1 DEF IsJob, CaseFields
  <2> QED
    BY <1>4, <2>2 DEF FinishLinks, Turn
<1>5. CASE ReadEvidence(w)
  <2>1. job.at = "evidence" /\ IsJob(job)
    BY <1>1, <1>5 DEF ReadEvidence, WorksAt
  <2>2. IsJob([job EXCEPT !.at = "answer", !.spans = SpansIn(job.result.cites)])
    BY <2>1 DEF IsJob, CaseFields
  <2> QED
    BY <1>5, <2>2 DEF ReadEvidence, Turn
<1> QED
  BY <1>2, <1>3, <1>4, <1>5

LEMMA EndsTurn ==
  ASSUME CaseRows, NEW w \in Investigators,
         \/ \E answer \in Answers : AnswerInvestigation(w, answer)
         \/ AddCaseTask(w) \/ ListTasks(w) \/ ReviewEntity(w) \/ NotifyEntity(w)
         \/ \E summary, disabled : WritePack(w, summary, disabled)
         \/ InvestigatorStops(w)
  PROVE  Turn(w)
<1> DEFINE job == agents[w]
<1>1. agents[w] # None => IsJob(job)
  BY DEF CaseRows
<1>2. ASSUME NEW answer, AnswerInvestigation(w, answer) PROVE Turn(w)
  <2>1. job.at = "answer" /\ IsJob(job)
    BY <1>1, <1>2 DEF AnswerInvestigation, WorksAt
  <2>2. PICK result : GoesOn(w, [job EXCEPT !.at = "tasks", !.result = result])
    BY <1>2 DEF AnswerInvestigation
  <2>3. IsJob([job EXCEPT !.at = "tasks", !.result = result])
    BY <2>1 DEF IsJob, CaseFields
  <2> QED
    BY <2>2, <2>3 DEF Turn
<1>3. CASE AddCaseTask(w)
  <2>1. job.at = "tasks" /\ IsJob(job)
    BY <1>1, <1>3 DEF AddCaseTask, WorksAt
  <2>2. PICK result : GoesOn(w, [job EXCEPT !.result = result])
    BY <1>3 DEF AddCaseTask
  <2>3. IsJob([job EXCEPT !.result = result])
    BY <2>1 DEF IsJob, CaseFields
  <2> QED
    BY <2>2, <2>3 DEF Turn
<1>4. CASE ListTasks(w) \/ ReviewEntity(w) \/ NotifyEntity(w) \/ InvestigatorStops(w)
  BY <1>4 DEF ListTasks, ReviewEntity, NotifyEntity, InvestigatorStops, Turn
<1>5. ASSUME NEW summary, NEW disabled, WritePack(w, summary, disabled) PROVE Turn(w)
  BY <1>5 DEF WritePack, Turn
<1> QED
  BY <1>2, <1>3, <1>4, <1>5

LEMMA RemedyTurn ==
  ASSUME CaseRows, NEW w \in Investigators, NEW k \in DOMAIN affected,
         NEW status, NEW remediated \in BOOLEAN, UpdateEntity(w, k, status, remediated)
  PROVE  agents' = agents \/ Turn(w)
<1>1. CASE ~remediated
  BY <1>1 DEF UpdateEntity
<1>2. CASE remediated
  <2> DEFINE x == ToLink(affected[k].issue, <<"remedy", k>>, "remediated_by", affected[k].traces)
             job == Job("link", "remedy", affected[k].issue, None)
  <2>1. IsLink(x)
    BY DEF IsLink, ToLink
  <2>2. GoesOn(w, [job EXCEPT !.links = <<x>>])
    BY <1>2 DEF UpdateEntity
  <2>3. DOMAIN job = CaseFields /\ job.at = "link"
    BY JobBegins
  <2> HIDE DEF x, job
  <2>4. Numbered(<<x>>) /\ \A n \in DOMAIN <<x>> : IsLink(<<x>>[n])
    BY <2>1, OneLink
  <2>5. IsJob([job EXCEPT !.links = <<x>>])
    BY <2>3, <2>4 DEF IsJob, CaseFields
  <2> QED
    BY <2>2, <2>5 DEF Turn
<1> QED
  BY <1>1, <1>2

(* What an upsert takes for the row of an entity, and for the traces of that row. *)
RowOf(job, e) ==
  IF <<job.issue, e>> = job.first.key THEN job.first.row ELSE FirstOf(RowsFor(job.issue, e))
OldOf(job, e) ==
  IF <<job.issue, e>> = job.first.key THEN job.first.traces ELSE affected[RowOf(job, e)].traces
KnownTo(job) == {e \in DOMAIN job.entities : RowOf(job, e) # None}
NewRow(job, e) ==
  [issue |-> job.issue, entity |-> e, status |-> "needs_review", traces |-> job.entities[e]]

LEMMA OldTyped ==
  ASSUME CaseRows, NEW w \in Investigators, WorksAt(w, "upsert"), NEW e \in KnownTo(agents[w])
  PROVE  OldOf(agents[w], e) \subseteq CaseTraces
<1> DEFINE job == agents[w]
<1>1. IsJob(job) /\ job.at = "upsert"
  BY DEF CaseRows, WorksAt
<1>2. CASE <<job.issue, e>> = job.first.key
  BY <1>1, <1>2 DEF OldOf, IsJob
<1>3. CASE <<job.issue, e>> # job.first.key
  <2>1. RowsFor(job.issue, e) \in SUBSET Nat
    BY NumberedRows DEF RowsFor, CaseRows
  <2>2. RowOf(job, e) \in DOMAIN affected
    BY <1>3, <2>1, FirstOfRows DEF RowOf, KnownTo, RowsFor
  <2> QED
    BY <1>3, <2>2 DEF OldOf, CaseRows, IsEntity
<1> QED
  BY <1>2, <1>3

(* What an upsert does to the rows that are there, and which it adds. *)
Upserted(job) ==
  /\ Numbered(affected') /\ DOMAIN affected \subseteq DOMAIN affected'
  /\ \A k \in DOMAIN affected :
       \/ affected'[k] = affected[k] /\ \A e \in KnownTo(job) : RowOf(job, e) # k
       \/ \E e \in KnownTo(job) :
            /\ RowOf(job, e) = k
            /\ affected'[k] = [affected[k] EXCEPT !.traces = OldOf(job, e) \union job.entities[e]]
  /\ \A k \in DOMAIN affected' \ DOMAIN affected :
       \E e \in DOMAIN job.entities \ KnownTo(job) : affected'[k] = NewRow(job, e)
  /\ \A e \in DOMAIN job.entities \ KnownTo(job) :
       \E k \in DOMAIN affected' \ DOMAIN affected : affected'[k] = NewRow(job, e)

LEMMA UpsertRows ==
  ASSUME CaseRows, NEW w \in Investigators, UpsertEntities(w), NEW job, job = agents[w]
  PROVE  Upserted(job)
<1> DEFINE known == KnownTo(job)
           S == DOMAIN job.entities \ known
           new == SetToSeq(S)
           at(k) == {e \in known : RowOf(job, e) = k}
           kept == [k \in DOMAIN affected |-> IF at(k) = {} THEN affected[k]
                      ELSE LET e == CHOOSE x \in at(k) : TRUE
                           IN [affected[k] EXCEPT !.traces = OldOf(job, e) \union job.entities[e]]]
           added == [n \in DOMAIN new |-> NewRow(job, new[n])]
<1>1. affected' = kept \o added
  BY DEF UpsertEntities, Merged, RowOf, OldOf, KnownTo, NewRow
<1>2. IsJob(job) /\ job.at = "upsert"
  BY DEF CaseRows, UpsertEntities, WorksAt
<1>3. IsFiniteSet(S)
  <2>1. IsFiniteSet(Accounts \union {Redacted})
    BY CaseAssumption, FS_AddElement
  <2>2. S \subseteq Accounts \union {Redacted}
    BY <1>2 DEF IsJob, EntityMap
  <2> QED
    BY <2>1, <2>2, FS_Subset
<1>4. /\ Numbered(new) /\ Len(new) \in Nat /\ DOMAIN new = 1 .. Len(new)
      /\ \A n \in DOMAIN new : new[n] \in S
      /\ \A e \in S : \E n \in DOMAIN new : new[n] = e
  BY <1>3, ListedOnce
<1> HIDE DEF new, S, known
<1>5. Len(affected) \in Nat /\ DOMAIN affected = 1 .. Len(affected)
  BY NumberedRows DEF CaseRows
<1> DEFINE T == {kept[k] : k \in DOMAIN affected} \union {added[n] : n \in DOMAIN new}
<1>6. /\ kept \in [1 .. Len(affected) -> T] /\ added \in [1 .. Len(new) -> T]
      /\ \A n \in DOMAIN new : added[n] = NewRow(job, new[n])
  BY <1>4, <1>5
<1>7. \A k \in DOMAIN affected :
        \/ at(k) = {} /\ kept[k] = affected[k]
        \/ \E e \in at(k) :
             kept[k] = [affected[k] EXCEPT !.traces = OldOf(job, e) \union job.entities[e]]
  OBVIOUS
<1> HIDE DEF kept, added, T
<1>8. /\ kept \in Seq(T) /\ Len(kept) = Len(affected)
      /\ added \in Seq(T) /\ Len(added) = Len(new)
  BY <1>4, <1>5, <1>6, SeqDef
<1>9a. /\ affected' \in Seq(T) /\ Len(affected') = Len(kept) + Len(added)
       /\ \A k \in 1 .. (Len(kept) + Len(added)) :
            affected'[k] = IF k <= Len(kept) THEN kept[k] ELSE added[k - Len(kept)]
  <2>1. kept \in Seq(T) /\ added \in Seq(T)
    BY <1>8
  <2> QED
    BY <1>1, <2>1, ConcatProperties, Zenon
<1>9b. DOMAIN affected' = 1 .. (Len(affected) + Len(new))
  BY <1>8, <1>9a, LenProperties
<1>9. /\ affected' \in Seq(T) /\ DOMAIN affected' = 1 .. (Len(affected) + Len(new))
      /\ \A k \in DOMAIN affected : affected'[k] = kept[k]
      /\ \A k \in DOMAIN affected' \ DOMAIN affected :
           k - Len(affected) \in DOMAIN new /\ affected'[k] = added[k - Len(affected)]
      /\ \A n \in DOMAIN new : /\ Len(affected) + n \in DOMAIN affected' \ DOMAIN affected
                               /\ affected'[Len(affected) + n] = added[n]
  BY <1>4, <1>5, <1>8, <1>9a, <1>9b
<1>10. Numbered(affected') /\ DOMAIN affected \subseteq DOMAIN affected'
  BY <1>5, <1>9 DEF Numbered
<1>11. ASSUME NEW k \in DOMAIN affected
       PROVE  \/ affected'[k] = affected[k] /\ \A e \in known : RowOf(job, e) # k
              \/ \E e \in known : /\ RowOf(job, e) = k
                                 /\ affected'[k] = [affected[k] EXCEPT
                                      !.traces = OldOf(job, e) \union job.entities[e]]
  <2>1. CASE at(k) = {} /\ kept[k] = affected[k]
    BY <1>9, <2>1
  <2>2. ASSUME NEW e \in at(k),
               kept[k] = [affected[k] EXCEPT !.traces = OldOf(job, e) \union job.entities[e]]
        PROVE  e \in known /\ RowOf(job, e) = k /\ affected'[k] = kept[k]
    BY <1>9, <2>2
  <2> QED
    BY <1>7, <2>1, <2>2, Zenon
<1>12. ASSUME NEW k \in DOMAIN affected' \ DOMAIN affected
       PROVE  \E e \in S : affected'[k] = NewRow(job, e)
  BY <1>4, <1>6, <1>9
<1>13. ASSUME NEW e \in S
       PROVE  \E k \in DOMAIN affected' \ DOMAIN affected : affected'[k] = NewRow(job, e)
  <2>1. PICK n \in DOMAIN new : new[n] = e
    BY <1>4
  <2> QED
    BY <1>6, <1>9, <2>1
<1> QED
  BY <1>10, <1>11, <1>12, <1>13 DEF Upserted, known, S

LEMMA UpsertTurn ==
  ASSUME CaseRows, NEW w \in Investigators, UpsertEntities(w)
  PROVE  \E links :
           /\ Numbered(links)
           /\ \A n \in DOMAIN links : /\ IsLink(links[n]) /\ links[n].relation = "affected_entity"
                                    /\ links[n].issue = agents[w].issue
           /\ GoesOn(w, [agents[w] EXCEPT !.at = "own links", !.first = None, !.links = links])
           /\ IsJob([agents[w] EXCEPT !.at = "own links", !.first = None, !.links = links])
<1> DEFINE job == agents[w]
           S == DOMAIN job.entities \ KnownTo(job)
           new == SetToSeq(S)
           links == [n \in DOMAIN new |-> ToLink(job.issue, <<"entity", Len(affected) + n>>,
                                                 "affected_entity", job.entities[new[n]])]
<1>1. GoesOn(w, [job EXCEPT !.at = "own links", !.first = None, !.links = links])
  BY DEF UpsertEntities, RowOf, KnownTo
<1>2. IsJob(job) /\ job.at = "upsert"
  BY DEF CaseRows, UpsertEntities, WorksAt
<1>3. IsFiniteSet(S)
  <2>1. IsFiniteSet(Accounts \union {Redacted})
    BY CaseAssumption, FS_AddElement
  <2>2. S \subseteq Accounts \union {Redacted}
    BY <1>2 DEF IsJob, EntityMap
  <2> QED
    BY <2>1, <2>2, FS_Subset
<1>4. Numbered(new)
  BY <1>3, ListedOnce
<1> HIDE DEF new
<1>5. links \in [DOMAIN new -> {links[n] : n \in DOMAIN new}]
  OBVIOUS
<1>6. Numbered(links) /\ DOMAIN links = DOMAIN new
  BY <1>4, <1>5, NumberedAnew
<1>7. \A n \in DOMAIN links : /\ IsLink(links[n]) /\ links[n].relation = "affected_entity"
                             /\ links[n].issue = job.issue
  BY DEF IsLink, ToLink
<1> HIDE DEF links
<1>8. IsJob([job EXCEPT !.at = "own links", !.first = None, !.links = links])
  BY <1>2, <1>6, <1>7 DEF IsJob, CaseFields
<1> QED
  BY <1>1, <1>6, <1>7, <1>8

(* Whatever a deletion scrubs stays what it is. *)
LEMMA SpansFound == \A ids : SpansIn(ids) \subseteq CaseSpans(ids)
<1>. SUFFICES ASSUME NEW ids, NEW x \in SpansIn(ids)
              PROVE  \E t \in ids : x = <<t>>
  BY Zenon DEF CaseSpans
<1>1. PICK t \in ids \ Dead : x = <<t>>
  BY Zenon DEF SpansIn
<1>. QED
  BY <1>1

(* What is taken out of ids: the trace, and its span if it has it still. *)
LEMMA ScrubTakes ==
  ASSUME NEW t \in CaseTraces, NEW ids
  PROVE  /\ Scrub(ids, t) \subseteq ids /\ t \notin Scrub(ids, t)
         /\ ids \ {t, <<t>>} \subseteq Scrub(ids, t)
         /\ ids \subseteq CaseTraces => Scrub(ids, t) = ids \ {t}
<1>1. \A x \in SpansIn({t}) : x = <<t>>
  <2>1. \A x \in SpansIn({t}) : \E u \in {t} : x = <<u>>
    BY SpansFound DEF CaseSpans
  <2> QED
    BY <2>1
<1>2. PICK spans : spans = SpansIn({t}) /\ Scrub(ids, t) = ids \ ({t} \union spans)
  BY DEF Scrub
<1>3. \A u \in CaseTraces : u # <<t>>
  BY CaseAssumption
<1> QED
  BY <1>1, <1>2, <1>3

LEMMA ScrubbedRows ==
  ASSUME NEW t \in CaseTraces
  PROVE  /\ \A r : IsReport(r) =>
              /\ IsReport(ScrubReport(r, t)) /\ ScrubReport(r, t).issue = r.issue
              /\ DOMAIN ScrubReport(r, t).entities = DOMAIN r.entities
              /\ \A e \in DOMAIN r.entities :
                   ScrubReport(r, t).entities[e] = r.entities[e] \ {t}
              /\ \/ ScrubReport(r, t) = r
                 \/ ScrubReport(r, t).count = CountAfter(r, ScrubReport(r, t).entities)
         /\ \A row : IsEntity(row) =>
              /\ IsEntity(ScrubEntity(row, t))
              /\ ScrubEntity(row, t).issue = row.issue /\ ScrubEntity(row, t).entity = row.entity
              /\ ScrubEntity(row, t).traces \subseteq row.traces
              /\ row.traces \ {t, <<t>>} \subseteq ScrubEntity(row, t).traces
              /\ t \notin ScrubEntity(row, t).traces
         /\ \A p : IsPack(p) =>
              /\ IsPack(ScrubPack(p, t)) /\ ScrubPack(p, t).level = p.level
              /\ ScrubPack(p, t).accounts \subseteq p.accounts
<1>1. ASSUME NEW r, IsReport(r)
      PROVE  /\ IsReport(ScrubReport(r, t)) /\ ScrubReport(r, t).issue = r.issue
             /\ DOMAIN ScrubReport(r, t).entities = DOMAIN r.entities
             /\ \A e \in DOMAIN r.entities :
                  ScrubReport(r, t).entities[e] = r.entities[e] \ {t}
             /\ \/ ScrubReport(r, t) = r
                \/ ScrubReport(r, t).count = CountAfter(r, ScrubReport(r, t).entities)
  <2> DEFINE entities == [e \in DOMAIN r.entities |-> Scrub(r.entities[e], t)]
  <2>1. EntityMap(entities) /\ DOMAIN entities = DOMAIN r.entities
        /\ \A e \in DOMAIN r.entities : entities[e] = r.entities[e] \ {t}
    <3>1. \A e \in DOMAIN r.entities : Scrub(r.entities[e], t) = r.entities[e] \ {t}
      BY <1>1, ScrubTakes DEF IsReport, EntityMap
    <3> QED
      BY <1>1, <3>1 DEF IsReport, EntityMap
  <2>2. ScrubReport(r, t) = IF t \notin r.representative /\ entities = r.entities THEN r
                            ELSE [r EXCEPT !.representative = Scrub(r.representative, t),
                                           !.entities = entities, !.count = CountAfter(r, entities)]
    BY DEF ScrubReport
  <2>3. CountAfter(r, entities) = Cardinality({e \in DOMAIN entities : entities[e] # {}})
    BY DEF CountAfter
  <2> HIDE DEF entities
  <2> DEFINE count == CountAfter(r, entities)
             rest == [r EXCEPT !.representative = Scrub(r.representative, t),
                               !.entities = entities, !.count = count]
  <2> HIDE DEF count
  <2>4. /\ DOMAIN rest = DOMAIN r /\ rest.issue = r.issue
        /\ rest.entities = entities /\ rest.count = count
    BY <1>1 DEF IsReport
  <2>5. CASE ScrubReport(r, t) = r /\ entities = r.entities
    BY <1>1, <2>1, <2>5
  <2>6. CASE ScrubReport(r, t) = rest
    BY <1>1, <2>1, <2>3, <2>4, <2>6 DEF IsReport, count
  <2> QED
    BY <2>2, <2>5, <2>6 DEF count
<1>2. ASSUME NEW row, IsEntity(row)
      PROVE  /\ IsEntity(ScrubEntity(row, t))
             /\ ScrubEntity(row, t).issue = row.issue /\ ScrubEntity(row, t).entity = row.entity
             /\ ScrubEntity(row, t).traces \subseteq row.traces
             /\ row.traces \ {t, <<t>>} \subseteq ScrubEntity(row, t).traces
             /\ t \notin ScrubEntity(row, t).traces
  <2>1. PICK left : left = Scrub(row.traces, t)
    OBVIOUS
  <2>2. left \subseteq row.traces /\ t \notin left /\ row.traces \ {t, <<t>>} \subseteq left
    BY <2>1, ScrubTakes
  <2> QED
    BY <1>2, <2>1, <2>2 DEF ScrubEntity, IsEntity
<1>3. ASSUME NEW p, IsPack(p)
      PROVE  /\ IsPack(ScrubPack(p, t)) /\ ScrubPack(p, t).level = p.level
             /\ ScrubPack(p, t).accounts \subseteq p.accounts
  BY <1>3 DEF ScrubPack, IsPack
<1> QED
  BY <1>1, <1>2, <1>3

LEMMA Deletion ==
  ASSUME CaseRows, NEW t \in CaseTraces, DeleteCase(t)
  PROVE  /\ Numbered(reports') /\ DOMAIN reports' = DOMAIN reports
         /\ \A r \in DOMAIN reports : reports'[r] = ScrubReport(reports[r], t)
         /\ Numbered(affected') /\ DOMAIN affected' = DOMAIN affected
         /\ \A k \in DOMAIN affected : affected'[k] = ScrubEntity(affected[k], t)
         /\ Numbered(packs') /\ DOMAIN packs' = DOMAIN packs
         /\ \A p \in DOMAIN packs : packs'[p] = ScrubPack(packs[p], t)
         /\ \A l \in issueLinks' : IsLink(l) /\ \E k \in issueLinks :
              /\ l.issue = k.issue /\ l.relation = k.relation /\ l.target = k.target
         /\ cases' = [cases EXCEPT ![t] = Gone] /\ agents' = agents /\ overlapped' = overlapped
<1>1. /\ reports' = [r \in DOMAIN reports |-> ScrubReport(reports[r], t)]
      /\ affected' = [k \in DOMAIN affected |-> ScrubEntity(affected[k], t)]
      /\ packs' = [p \in DOMAIN packs |-> ScrubPack(packs[p], t)]
      /\ cases' = [cases EXCEPT ![t] = Gone] /\ agents' = agents /\ overlapped' = overlapped
  BY DEF DeleteCase, Each
<1>2. /\ reports' \in [DOMAIN reports -> {ScrubReport(reports[r], t) : r \in DOMAIN reports}]
      /\ affected' \in [DOMAIN affected -> {ScrubEntity(affected[k], t) : k \in DOMAIN affected}]
      /\ packs' \in [DOMAIN packs -> {ScrubPack(packs[p], t) : p \in DOMAIN packs}]
  BY <1>1
<1>3. /\ Numbered(reports') /\ Numbered(affected') /\ Numbered(packs')
  BY <1>2, NumberedAnew DEF CaseRows
<1>4. ASSUME NEW l \in issueLinks'
      PROVE  IsLink(l) /\ \E k \in issueLinks :
               l.issue = k.issue /\ l.relation = k.relation /\ l.target = k.target
  <2>1. PICK k \in issueLinks : l = [k EXCEPT !.traces = Scrub(k.traces, t)]
    BY <1>4, Zenon DEF DeleteCase
  <2>2. IsLink(k)
    BY DEF CaseRows
  <2> QED
    BY <2>1, <2>2 DEF IsLink
<1> QED
  BY <1>1, <1>3, <1>4

(* A step that a request takes for itself, and the tables it leaves alone. *)
LEMMA TurnTyped ==
  ASSUME CaseRows, NEW w \in Investigators, agents' = agents \/ Turn(w),
         Numbered(reports') /\ \A r \in DOMAIN reports' : IsReport(reports'[r]),
         Numbered(affected') /\ \A k \in DOMAIN affected' : IsEntity(affected'[k]),
         Numbered(packs') /\ \A p \in DOMAIN packs' : IsPack(packs'[p]),
         \A l \in issueLinks' : IsLink(l), cases' = cases
  PROVE  CaseRows'
<1>1. CASE agents' = agents
  BY <1>1 DEF CaseRows
<1>2. CASE Turn(w)
  <2>1. PICK job : GoesOn(w, job) /\ (job = None \/ IsJob(job))
    BY <1>2 DEF Turn
  <2>2. /\ DOMAIN agents' = Investigators /\ agents'[w] = job
        /\ \A v \in Investigators \ {w} : agents'[v] = agents[v]
    BY <2>1, GoingOn
  <2> QED
    BY <2>1, <2>2 DEF CaseRows
<1> QED
  BY <1>1, <1>2

CaseTables == <<reports, affected, packs, issueLinks, cases>>

LEMMA TurnAlone ==
  ASSUME CaseRows, NEW w \in Investigators, agents' = agents \/ Turn(w), UNCHANGED CaseTables
  PROVE  CaseRows'
<1>1. UNCHANGED reports /\ UNCHANGED affected /\ UNCHANGED packs /\ UNCHANGED issueLinks
      /\ UNCHANGED cases
  BY DEF CaseTables
<1> QED
  BY <1>1, TurnTyped DEF CaseRows

LEMMA CaseRowsStep ==
  ASSUME CaseRows, [CaseNext]_caseVars
  PROVE  CaseRows'
<1>1. CASE UNCHANGED caseVars
  BY <1>1 DEF caseVars, CaseRows
<1>2. ASSUME NEW t \in CaseTraces, NEW accounts \in SUBSET Accounts, ArriveTrace(t, accounts)
      PROVE  CaseRows'
  <2>1. cases' = [cases EXCEPT ![t] = accounts]
    BY <1>2 DEF ArriveTrace
  <2>2. DOMAIN cases' = CaseTraces
        /\ \A u \in CaseTraces : cases'[u] \in (SUBSET Accounts) \union {None, Gone}
    BY <2>1 DEF CaseRows
  <2>3. UNCHANGED <<reports, affected, packs, issueLinks, agents>>
    BY <1>2 DEF ArriveTrace, findings, remedies
  <2> QED
    BY <2>2, <2>3 DEF CaseRows
<1>3. ASSUME NEW t \in CaseTraces, DeleteCase(t) PROVE CaseRows'
  <2>1. \A r \in DOMAIN reports : IsReport(ScrubReport(reports[r], t))
    BY ScrubbedRows DEF CaseRows
  <2>2. \A k \in DOMAIN affected : IsEntity(ScrubEntity(affected[k], t))
    BY ScrubbedRows DEF CaseRows
  <2>3. \A p \in DOMAIN packs : IsPack(ScrubPack(packs[p], t))
    BY ScrubbedRows DEF CaseRows
  <2>4. DOMAIN cases' = CaseTraces
        /\ \A u \in CaseTraces : cases'[u] \in (SUBSET Accounts) \union {None, Gone}
    BY <1>3, Deletion DEF CaseRows
  <2> QED
    BY <1>3, <2>1, <2>2, <2>3, <2>4, Deletion DEF CaseRows
<1>4. ASSUME NEW i \in DOMAIN issues, NEW t \in CaseTraces, LinkTrace(i, t) PROVE CaseRows'
  <2>1. \A l \in issueLinks' : IsLink(l)
    BY <1>4 DEF LinkTrace, Linked, ToLink, IsLink, CaseRows
  <2>2. UNCHANGED <<reports, affected, packs, cases, agents>>
    BY <1>4 DEF LinkTrace, findings, remedies
  <2> QED
    BY <2>1, <2>2 DEF CaseRows
<1>5. ASSUME NEW seed, OpenIssue(seed) PROVE CaseRows'
  BY <1>5 DEF OpenIssue, findings, remedies, CaseRows
<1>6. ASSUME NEW w \in Investigators, NEW seed \in Rows \union {None},
             \/ \E sources \in SUBSET Payloads : ReportScreenshot(w, sources)
             \/ \E issue \in DOMAIN issues \union {None} : StartWorkflow(w, issue, seed)
             \/ StartChat(w, seed)
      PROVE  CaseRows'
  <2>1. UNCHANGED CaseTables
    BY <1>6 DEF ReportScreenshot, StartWorkflow, StartChat, CaseTables, findings, remedies
  <2> QED
    BY <1>6, <2>1, StartsTurn, TurnAlone
<1>7. ASSUME NEW w \in Investigators,
             \/ \E found \in SUBSET CaseTraces : SearchCohort(w, found)
             \/ BuildReport(w) \/ InsertRun(w)
             \/ \E e \in Accounts \union {Redacted} : ReadFirstEntity(w, e)
      PROVE  CaseRows'
  <2>1. UNCHANGED CaseTables
    BY <1>7 DEF SearchCohort, BuildReport, InsertRun, ReadFirstEntity, CaseTables, findings, remedies
  <2>2. Turn(w)
    BY <1>7, InquiryTurn
  <2> QED
    BY <2>1, <2>2, TurnAlone
<1>8. ASSUME NEW w \in Investigators, PersistReport(w) PROVE CaseRows'
  <2> DEFINE job == agents[w]
             r == [issue |-> job.issue, representative |-> job.found,
                   entities |-> job.entities, count |-> Cardinality(DOMAIN job.entities)]
  <2>1. IsJob(job) /\ job.at = "report"
    BY <1>8 DEF CaseRows, PersistReport, WorksAt
  <2>2. IsReport(r)
    <3>1. {e \in DOMAIN job.entities : job.entities[e] # {}} = DOMAIN job.entities
      BY <2>1 DEF IsJob
    <3> QED
      BY <2>1, <3>1 DEF IsReport, IsJob
  <2>3. reports' = Append(reports, r) /\ UNCHANGED <<affected, packs, issueLinks, cases>>
    BY <1>8 DEF PersistReport, remedies
  <2> HIDE DEF r
  <2>4. Numbered(reports') /\ \A k \in DOMAIN reports' : IsReport(reports'[k])
    BY <2>2, <2>3, NumberedRows DEF CaseRows
  <2>5. Turn(w)
    BY <1>8, InquiryTurn
  <2> QED
    BY <2>3, <2>4, <2>5, TurnTyped DEF CaseRows
<1>9. ASSUME NEW w \in Investigators, UpsertEntities(w) PROVE CaseRows'
  <2>0. PICK job : job = agents[w]
    OBVIOUS
  <2>1. IsJob(job) /\ job.at = "upsert" /\ WorksAt(w, "upsert") /\ Upserted(job)
    BY <1>9, <2>0, UpsertRows DEF CaseRows, UpsertEntities, WorksAt
  <2>2. ASSUME NEW k \in DOMAIN affected' PROVE IsEntity(affected'[k])
    <3>1. ASSUME NEW e \in KnownTo(job),
                 affected'[k] = [affected[k] EXCEPT !.traces = OldOf(job, e) \union job.entities[e]],
                 k \in DOMAIN affected
          PROVE  IsEntity(affected'[k])
      <4>1. OldOf(job, e) \subseteq CaseTraces /\ job.entities[e] \subseteq CaseTraces
        BY <2>0, <2>1, OldTyped DEF IsJob, EntityMap, KnownTo
      <4>2. IsEntity(affected[k])
        BY <3>1 DEF CaseRows
      <4> QED
        BY <3>1, <4>1, <4>2 DEF IsEntity
    <3>2. ASSUME NEW e \in DOMAIN job.entities, affected'[k] = NewRow(job, e)
          PROVE  IsEntity(affected'[k])
      BY <2>1, <3>2 DEF NewRow, IsEntity, IsJob, EntityMap
    <3>3. CASE k \in DOMAIN affected
      BY <2>1, <3>1, <3>3 DEF Upserted, CaseRows
    <3>4. CASE k \notin DOMAIN affected
      BY <2>1, <3>2, <3>4 DEF Upserted
    <3> QED
      BY <3>3, <3>4
  <2>3. Numbered(affected')
    BY <2>1 DEF Upserted
  <2>4. Turn(w)
    BY <1>9, UpsertTurn DEF Turn
  <2>5. UNCHANGED <<reports, packs, issueLinks, cases>>
    BY <1>9 DEF UpsertEntities, findings
  <2> QED
    BY <2>2, <2>3, <2>4, <2>5, TurnTyped DEF CaseRows
<1>10. ASSUME NEW w \in Investigators, AddLink(w) PROVE CaseRows'
  <2>1. IsJob(agents[w]) /\ agents[w].links # <<>>
    BY <1>10 DEF CaseRows, AddLink, WorksAt
  <2>2. IsLink(Head(agents[w].links))
    BY <2>1, LinksLeft DEF IsJob
  <2>3. \A l \in issueLinks' : IsLink(l)
    BY <1>10, <2>2 DEF AddLink, Linked, CaseRows
  <2>4. UNCHANGED <<reports, affected, packs, cases>>
    BY <1>10 DEF AddLink, findings, remedies
  <2>5. Turn(w)
    BY <1>10, LinksTurn
  <2> QED
    BY <2>3, <2>4, <2>5, TurnTyped DEF CaseRows
<1>11. ASSUME NEW w \in Investigators, OwnLinks(w) \/ FinishLinks(w) \/ ReadEvidence(w)
       PROVE  CaseRows'
  <2>1. UNCHANGED CaseTables
    BY <1>11 DEF OwnLinks, FinishLinks, ReadEvidence, CaseTables, findings, remedies
  <2>2. Turn(w)
    BY <1>11, LinksTurn
  <2> QED
    BY <2>1, <2>2, TurnAlone
<1>12. ASSUME NEW w \in Investigators,
              \/ \E answer \in Answers : AnswerInvestigation(w, answer)
              \/ AddCaseTask(w) \/ ListTasks(w) \/ ReviewEntity(w) \/ NotifyEntity(w)
              \/ InvestigatorStops(w)
       PROVE  CaseRows'
  <2>1. UNCHANGED CaseTables
    BY <1>12 DEF AnswerInvestigation, AddCaseTask, ListTasks, ReviewEntity, NotifyEntity,
                 InvestigatorStops, CaseTables, findings, remedies
  <2>2. Turn(w)
    BY <1>12, EndsTurn
  <2> QED
    BY <2>1, <2>2, TurnAlone
<1>13. ASSUME NEW w \in Investigators, NEW k \in DOMAIN affected, NEW status,
              NEW remediated \in BOOLEAN, UpdateEntity(w, k, status, remediated)
       PROVE  CaseRows'
  <2>1. affected' = [affected EXCEPT ![k] = [affected[k] EXCEPT !.status = status]]
    BY <1>13 DEF UpdateEntity
  <2>2. IsEntity([affected[k] EXCEPT !.status = status])
    BY DEF CaseRows, IsEntity
  <2> DEFINE row == [affected[k] EXCEPT !.status = status]
  <2> HIDE DEF row
  <2>3. /\ affected' \in [DOMAIN affected -> {affected[j] : j \in DOMAIN affected} \union {row}]
        /\ \A j \in DOMAIN affected : IsEntity(affected'[j])
    <3>1. affected' = [affected EXCEPT ![k] = row] /\ IsEntity(row)
      BY <2>1, <2>2 DEF row
    <3>2. affected \in [DOMAIN affected -> {affected[j] : j \in DOMAIN affected}]
      <4>1. PICK S : affected \in Seq(S)
        BY DEF CaseRows, Numbered
      <4> QED
        BY <4>1
    <3> QED
      BY <3>1, <3>2 DEF CaseRows
  <2>4. Numbered(affected') /\ DOMAIN affected' = DOMAIN affected
    BY <2>3, NumberedAnew DEF CaseRows
  <2>5. UNCHANGED <<reports, packs, issueLinks, cases>>
    BY <1>13 DEF UpdateEntity, findings
  <2>6. agents' = agents \/ Turn(w)
    BY <1>13, RemedyTurn
  <2> QED
    BY <2>3, <2>4, <2>5, <2>6, TurnTyped DEF CaseRows
<1>14. ASSUME NEW w \in Investigators, NEW k \in DOMAIN affected, NEW kind \in {"review", "notify"},
              ReadEntity(w, k, kind)
       PROVE  CaseRows'
  <2>1. UNCHANGED CaseTables
    BY <1>14 DEF ReadEntity, CaseTables, findings, remedies
  <2>2. Turn(w)
    BY <1>14, StartsTurn
  <2> QED
    BY <2>1, <2>2, TurnAlone
<1>15. ASSUME NEW w \in Investigators, NEW sources \in SUBSET CaseTraces, NEW level \in 0 .. 2,
              StartPack(w, sources, level)
       PROVE  CaseRows'
  <2>1. UNCHANGED CaseTables
    BY <1>15 DEF StartPack, CaseTables, findings, remedies
  <2>2. Turn(w)
    BY <1>15, StartsTurn
  <2> QED
    BY <2>1, <2>2, TurnAlone
<1>16. ASSUME NEW w \in Investigators, NEW summary, NEW disabled, WritePack(w, summary, disabled)
       PROVE  CaseRows'
  <2>1. PICK p : packs' = Append(packs, p) /\ IsPack(p)
    <3> DEFINE job == agents[w]
               ids == job.found \union job.spans
               p == [level |-> job.about, sources |-> job.found,
                     accounts |-> IF disabled THEN {} ELSE UNION Range(job.entities),
                     cites |-> IF SummaryValid(summary, ids) /\ ~disabled THEN summary ELSE ids]
    <3>1. IsJob(job) /\ job.at = "pack"
      BY <1>16 DEF CaseRows, WritePack, WorksAt
    <3>2. UNION Range(job.entities) \subseteq Visible(job.about)
      BY <3>1 DEF IsJob, Range
    <3>3. IsPack(p)
      BY <3>1, <3>2 DEF IsPack, IsJob
    <3> QED
      BY <1>16, <3>3 DEF WritePack
  <2>2. Numbered(packs') /\ \A k \in DOMAIN packs' : IsPack(packs'[k])
    BY <2>1, NumberedRows DEF CaseRows
  <2>3. UNCHANGED <<reports, affected, issueLinks, cases>>
    BY <1>16 DEF WritePack, findings, remedies
  <2>4. Turn(w)
    BY <1>16, EndsTurn
  <2> QED
    BY <2>2, <2>3, <2>4, TurnTyped DEF CaseRows
<1>17. ASSUME NEW w \in Investigators, NEW t \in CaseTraces, ReadSource(w, t) PROVE CaseRows'
  <2>1. UNCHANGED CaseTables
    BY <1>17 DEF ReadSource, CaseTables, findings, remedies
  <2> QED
    BY <1>17, <2>1, SourceTurn, TurnAlone
<1> QED
  BY <1>1, <1>2, <1>3, <1>4, <1>5, <1>6, <1>7, <1>8, <1>9, <1>10, <1>11, <1>12, <1>13, <1>14,
     <1>15, <1>16, <1>17 DEF CaseNext

THEOREM CaseTyping == CaseSpec => []CaseRows
<1>1. CaseInit => CaseRows
  BY NoRows DEF CaseInit, CaseRows
<1>2. CaseRows /\ [CaseNext]_caseVars => CaseRows'
  BY CaseRowsStep
<1> QED
  BY <1>1, <1>2, PTL DEF CaseSpec

(* For any accounts and levels: whoever may read a pack is shown no account above the
   level they read it at, whatever became of its traces since. *)
THEOREM Disclosure == CaseSpec => []PacksDisclose
<1>1. CaseRows => PacksDisclose
  <2> SUFFICES ASSUME CaseRows, NEW p \in DOMAIN packs, NEW level \in 0 .. 2,
                      NEW a \in Readable(packs[p], level)
               PROVE  Level[a] <= level
    BY DEF PacksDisclose
  <2>1. packs[p].level <= level /\ a \in Visible(packs[p].level) /\ packs[p].level \in 0 .. 2
    BY DEF Readable, CaseRows, IsPack
  <2> QED
    BY <2>1, CaseAssumption DEF Visible
<1> QED
  BY <1>1, CaseTyping, PTL

-----------------------------------------------------------------------------
(* Reports and remediation. *)

(* A report of the issue names the trace for the entity. *)
Named(issue, e, t) ==
  \E r \in DOMAIN reports : /\ reports[r].issue = issue /\ e \in DOMAIN reports[r].entities
                            /\ t \in reports[r].entities[e]

(* What RemediationTracked says of a report. *)
Tracked(r) ==
  \A e \in DOMAIN reports[r].entities : <<reports[r].issue, e>> \notin overlapped =>
    \A t \in reports[r].entities[e] \ Dead :
      \E k \in RowsFor(reports[r].issue, e) : t \in affected[k].traces

ScopedSound(l) ==
  l.relation = "scoped_by" => l.target[2] \in DOMAIN reports /\ Tracked(l.target[2])

(* The report a request has stored is what it has in memory, less what was deleted. *)
ReportKept(job) ==
  /\ job.report \in DOMAIN reports
  /\ reports[job.report].issue = job.issue
  /\ DOMAIN reports[job.report].entities = DOMAIN job.entities
  /\ \A e \in DOMAIN job.entities :
       /\ reports[job.report].entities[e] \subseteq job.entities[e]
       /\ job.entities[e] \ Dead \subseteq reports[job.report].entities[e]

(* The row an upsert has read is the first of its entity, and has no trace the request
   has not seen, unless another upsert of the entity came in between. *)
FirstSound(first) ==
  /\ first.key = <<first.key[1], first.key[2]>>
  /\ \A t \in first.traces \ Dead : Named(first.key[1], first.key[2], t)
  /\ first.row # None => /\ first.row \in DOMAIN affected
                         /\ first.key = <<affected[first.row].issue, affected[first.row].entity>>
  /\ first.key \notin overlapped =>
       /\ first.row = FirstOf(RowsFor(first.key[1], first.key[2]))
       /\ first.row # None => affected[first.row].traces \subseteq first.traces

JobSound(job) ==
  /\ job.at \in {"first", "upsert"} => ReportKept(job)
  /\ job.at = "upsert" => FirstSound(job.first)
  /\ job.at = "own links" => job.report \in DOMAIN reports /\ Tracked(job.report)
  /\ \A n \in DOMAIN job.links : ScopedSound(job.links[n])

RemediesSound ==
  /\ EntityTracesReported
  /\ \A l \in issueLinks : ScopedSound(l)
  /\ \A w \in Investigators : agents[w] # None => JobSound(agents[w])

(* How the tables may change without harm to what is already so: nothing of a report is
   lost but what was deleted, nor of a row unless another upsert of it got in between. *)
Later ==
  /\ Dead \subseteq Dead' /\ overlapped \subseteq overlapped'
  /\ DOMAIN reports \subseteq DOMAIN reports'
  /\ \A r \in DOMAIN reports :
       /\ reports'[r].issue = reports[r].issue
       /\ DOMAIN reports'[r].entities = DOMAIN reports[r].entities
       /\ \A e \in DOMAIN reports[r].entities :
            /\ reports'[r].entities[e] \subseteq reports[r].entities[e]
            /\ reports[r].entities[e] \ Dead' \subseteq reports'[r].entities[e]
  /\ DOMAIN affected \subseteq DOMAIN affected'
  /\ \A k \in DOMAIN affected :
       /\ affected'[k].issue = affected[k].issue /\ affected'[k].entity = affected[k].entity
       /\ <<affected[k].issue, affected[k].entity>> \notin overlapped' =>
            affected[k].traces \ Dead' \subseteq affected'[k].traces

(* No upsert has come between. *)
Untouched(key) ==
  key \notin overlapped' =>
    /\ RowsFor(key[1], key[2])' = RowsFor(key[1], key[2])
    /\ \A k \in RowsFor(key[1], key[2]) : affected'[k].traces \subseteq affected[k].traces

LEMMA TrackedStays ==
  ASSUME Later, NEW r \in DOMAIN reports, Tracked(r)
  PROVE  r \in DOMAIN reports' /\ Tracked(r)'
<1> SUFFICES ASSUME NEW e \in DOMAIN reports'[r].entities,
                    <<reports'[r].issue, e>> \notin overlapped',
                    NEW t \in reports'[r].entities[e] \ Dead'
             PROVE  \E k \in RowsFor(reports[r].issue, e)' : t \in affected'[k].traces
  BY DEF Later, Tracked, RowsFor
<1>1. /\ e \in DOMAIN reports[r].entities /\ <<reports[r].issue, e>> \notin overlapped
      /\ t \in reports[r].entities[e] \ Dead
  BY DEF Later
<1>2. PICK k \in RowsFor(reports[r].issue, e) : t \in affected[k].traces
  BY <1>1 DEF Tracked
<1>3. /\ k \in DOMAIN affected'
      /\ affected'[k].issue = reports[r].issue /\ affected'[k].entity = e
  BY <1>2 DEF Later, RowsFor
<1>4. t \in affected'[k].traces
  BY <1>2 DEF Later, RowsFor
<1> QED
  BY <1>3, <1>4 DEF RowsFor, Later

LEMMA NamedStays ==
  ASSUME Later, NEW issue, NEW e, NEW t, Named(issue, e, t), t \notin Dead'
  PROVE  Named(issue, e, t)'
BY DEF Later, Named

LEMMA JobStays ==
  ASSUME Later, NEW job, JobSound(job), job.at = "upsert" => Untouched(job.first.key)
  PROVE  JobSound(job)'
<1>1. ASSUME ReportKept(job) PROVE ReportKept(job)'
  BY <1>1 DEF ReportKept, Later
<1>2. ASSUME FirstSound(job.first), Untouched(job.first.key) PROVE FirstSound(job.first)'
  <2> DEFINE first == job.first
  <2>1. \A t \in first.traces \ Dead' : Named(first.key[1], first.key[2], t)'
    BY <1>2, NamedStays DEF FirstSound, Later
  <2>2. first.row # None =>
          /\ first.row \in DOMAIN affected'
          /\ first.key = <<affected'[first.row].issue, affected'[first.row].entity>>
    BY <1>2 DEF FirstSound, Later
  <2>3. ASSUME first.key \notin overlapped'
        PROVE  /\ first.row = FirstOf(RowsFor(first.key[1], first.key[2])')
               /\ first.row # None => affected'[first.row].traces \subseteq first.traces
    <3>1. first.key \notin overlapped
      BY <2>3 DEF Later
    <3>2. first.row = FirstOf(RowsFor(first.key[1], first.key[2])')
      BY <1>2, <2>3, <3>1 DEF FirstSound, Untouched
    <3>3. ASSUME first.row # None PROVE first.row \in RowsFor(first.key[1], first.key[2])
      <4>1. /\ first.row \in DOMAIN affected
            /\ first.key = <<affected[first.row].issue, affected[first.row].entity>>
        BY <1>2, <3>3 DEF FirstSound
      <4> QED
        BY <4>1 DEF RowsFor
    <3> QED
      BY <1>2, <2>3, <3>1, <3>2, <3>3 DEF FirstSound, Untouched
  <2> QED
    BY <1>2, <2>1, <2>2, <2>3 DEF FirstSound, FirstOf
<1>3. \A n \in DOMAIN job.links : ScopedSound(job.links[n])'
  BY TrackedStays DEF JobSound, ScopedSound
<1> QED
  BY <1>1, <1>2, <1>3, TrackedStays DEF JobSound

(* A step in which one request takes a turn. *)
LEMMA RemediesStay ==
  ASSUME CaseRows, RemediesSound, Later, EntityTracesReported', NEW w \in Investigators,
         \A v \in Investigators \ {w} : agents'[v] = agents[v],
         \A key : (\E v \in Investigators \ {w} : WorksAt(v, "upsert") /\ key = agents[v].first.key)
                   => Untouched(key),
         agents'[w] # None => JobSound(agents[w])',
         \A l \in issueLinks' : ScopedSound(l)'
  PROVE  RemediesSound'
<1>1. ASSUME NEW v \in Investigators \ {w}, agents'[v] # None PROVE JobSound(agents[v])'
  <2>1. PICK job : job = agents[v]
    OBVIOUS
  <2>2. JobSound(job) /\ (job.at = "upsert" => Untouched(job.first.key))
    BY <1>1, <2>1 DEF RemediesSound, WorksAt
  <2>3. JobSound(job)'
    BY <2>2, JobStays
  <2> QED
    BY <1>1, <2>1, <2>3
<1> QED
  BY <1>1 DEF RemediesSound

(* A step after which reports and rows are as they were, but for their status. *)
RowsKept ==
  /\ Dead \subseteq Dead' /\ UNCHANGED <<reports, overlapped>>
  /\ DOMAIN affected' = DOMAIN affected
  /\ \A k \in DOMAIN affected :
       /\ affected'[k].issue = affected[k].issue /\ affected'[k].entity = affected[k].entity
       /\ affected'[k].traces = affected[k].traces

LEMMA KeptIsLater ==
  ASSUME CaseRows, RemediesSound, RowsKept
  PROVE  Later /\ EntityTracesReported' /\ \A key : Untouched(key)
<1>1. /\ DOMAIN reports' = DOMAIN reports
      /\ \A r \in DOMAIN reports : reports'[r] = reports[r]
  BY DEF RowsKept
<1>2. Later
  BY <1>1 DEF RowsKept, Later
<1>3. EntityTracesReported'
  <2> SUFFICES ASSUME NEW k \in DOMAIN affected, NEW t \in affected[k].traces, t \notin Dead'
               PROVE  Named(affected[k].issue, affected[k].entity, t)'
    BY DEF EntityTracesReported, RowsKept, Named
  <2>1. t \notin Dead
    BY DEF RowsKept
  <2>2. Named(affected[k].issue, affected[k].entity, t)
    BY <2>1 DEF RemediesSound, EntityTracesReported, Named
  <2> QED
    BY <2>2, <1>1 DEF Named, RowsKept
<1>4. ASSUME NEW key PROVE Untouched(key)
  BY DEF RowsKept, Untouched, RowsFor
<1> QED
  BY <1>2, <1>3, <1>4

(* The link of a report is among those a request has, or in none it makes. *)
Calm(w, job) ==
  /\ job.at \notin {"first", "upsert", "own links"}
  /\ \A n \in DOMAIN job.links :
       \/ job.links[n].relation # "scoped_by"
       \/ agents[w] # None /\ \E m \in DOMAIN agents[w].links : job.links[n] = agents[w].links[m]
CalmTurn(w) == \E job : GoesOn(w, job) /\ (job = None \/ Calm(w, job))

LEMMA CalmStep ==
  ASSUME CaseRows, RemediesSound, RowsKept, NEW w \in Investigators,
         agents' = agents \/ CalmTurn(w),
         \A l \in issueLinks' : l \in issueLinks \/ ScopedSound(l)
  PROVE  RemediesSound'
<1>1. Later /\ EntityTracesReported' /\ \A key : Untouched(key)
  BY KeptIsLater
<1>2. ASSUME NEW l, ScopedSound(l) PROVE ScopedSound(l)'
  BY <1>1, <1>2, TrackedStays DEF ScopedSound
<1>3. \A l \in issueLinks' : ScopedSound(l)'
  <2>1. ASSUME NEW l \in issueLinks' PROVE ScopedSound(l)'
    <3>1. PICK k : k = l
      OBVIOUS
    <3>2. ScopedSound(k)
      BY <3>1 DEF RemediesSound
    <3> QED
      BY <1>2, <3>1, <3>2
  <2> QED
    BY <2>1
<1>4. CASE agents' = agents
  <2>1. ASSUME agents[w] # None PROVE JobSound(agents[w])'
    <3>1. PICK job : job = agents[w]
      OBVIOUS
    <3>2. JobSound(job)
      BY <2>1, <3>1 DEF RemediesSound
    <3>3. JobSound(job)'
      BY <1>1, <3>2, JobStays
    <3> QED
      BY <1>4, <3>1, <3>3
  <2> QED
    BY <1>1, <1>3, <1>4, <2>1, RemediesStay
<1>5. CASE CalmTurn(w)
  <2>1. PICK job : GoesOn(w, job) /\ (job = None \/ Calm(w, job))
    BY <1>5 DEF CalmTurn
  <2>2. /\ agents'[w] = job
        /\ \A v \in Investigators \ {w} : agents'[v] = agents[v]
    BY <2>1, GoingOn
  <2>3. ASSUME job # None PROVE JobSound(job)'
    <3>1. ASSUME NEW n \in DOMAIN job.links PROVE ScopedSound(job.links[n])'
      <4>1. ScopedSound(job.links[n])
        BY <2>1, <2>3 DEF RemediesSound, JobSound, ScopedSound, Calm
      <4> QED
        BY <1>2, <4>1
    <3> QED
      BY <2>1, <2>3, <3>1 DEF JobSound, Calm
  <2> QED
    BY <1>1, <1>3, <2>2, <2>3, RemediesStay
<1> QED
  BY <1>4, <1>5

LEMMA CalmStarts ==
  ASSUME CaseRows, NEW w \in Investigators, NEW seed
  PROVE  /\ \A sources \in SUBSET Payloads : ReportScreenshot(w, sources) => CalmTurn(w)
         /\ \A issue : StartWorkflow(w, issue, seed) => CalmTurn(w)
         /\ StartChat(w, seed) => CalmTurn(w)
         /\ \A k : \A kind \in {"review", "notify"} : ReadEntity(w, k, kind) => CalmTurn(w)
         /\ \A sources, level : StartPack(w, sources, level) => CalmTurn(w)
         /\ \A t \in CaseTraces : ReadSource(w, t) => CalmTurn(w)
<1>1. ASSUME NEW sources \in SUBSET Payloads, ReportScreenshot(w, sources) PROVE CalmTurn(w)
  <2> DEFINE S == {ToLink(Len(issues'), p, "screenshot_payload", {}) : p \in sources}
             job == Job("link", "screenshot", Len(issues'), None)
  <2>1. \A n \in DOMAIN SetToSeq(S) : SetToSeq(S)[n].relation = "screenshot_payload"
    BY PayloadLinks, LinksListed
  <2>2. DOMAIN job = CaseFields /\ job.at = "link"
    BY JobBegins
  <2>3. GoesOn(w, [job EXCEPT !.links = SetToSeq(S)])
    BY <1>1 DEF ReportScreenshot
  <2> HIDE DEF job, S
  <2>4. Calm(w, [job EXCEPT !.links = SetToSeq(S)])
    BY <2>1, <2>2 DEF Calm, CaseFields
  <2> QED
    BY <2>3, <2>4 DEF CalmTurn
<1>2. ASSUME NEW kind, NEW issue PROVE Calm(w, Job("search", kind, issue, seed))
  <2> DEFINE job == Job("search", kind, issue, seed)
  <2>1. job.at = "search" /\ DOMAIN job.links = {}
    BY JobBegins
  <2> HIDE DEF job
  <2>2. Calm(w, job)
    BY <2>1 DEF Calm
  <2> QED
    BY <2>2 DEF job
<1>3. \A issue : StartWorkflow(w, issue, seed) => CalmTurn(w)
  BY <1>2 DEF StartWorkflow, CalmTurn
<1>6. StartChat(w, seed) => CalmTurn(w)
  BY <1>2 DEF StartChat, CalmTurn
<1>4. ASSUME NEW k, NEW kind \in {"review", "notify"}, ReadEntity(w, k, kind) PROVE CalmTurn(w)
  <2> DEFINE job == Job(kind, kind, affected[k].issue, None)
  <2>1. DOMAIN job = CaseFields /\ job.at = kind /\ DOMAIN job.links = {}
    BY JobBegins
  <2>2. GoesOn(w, [job EXCEPT !.found = affected[k].traces, !.about = <<"entity", k>>])
    BY <1>4 DEF ReadEntity
  <2> HIDE DEF job
  <2>3. Calm(w, [job EXCEPT !.found = affected[k].traces, !.about = <<"entity", k>>])
    BY <2>1 DEF Calm, CaseFields
  <2> QED
    BY <2>2, <2>3 DEF CalmTurn
<1>5. ASSUME NEW sources, NEW level, StartPack(w, sources, level) PROVE CalmTurn(w)
  <2> DEFINE job == Job("pack", "pack", None, None)
  <2>1. DOMAIN job = CaseFields /\ job.at = "pack" /\ DOMAIN job.links = {}
    BY JobBegins
  <2>2. GoesOn(w, [job EXCEPT !.found = sources, !.about = level])
    BY <1>5 DEF StartPack
  <2> HIDE DEF job
  <2>3. Calm(w, [job EXCEPT !.found = sources, !.about = level])
    BY <2>1 DEF Calm, CaseFields
  <2> QED
    BY <2>2, <2>3 DEF CalmTurn
<1>7. ASSUME NEW t \in CaseTraces, ReadSource(w, t) PROVE CalmTurn(w)
  <2>1. PICK next : GoesOn(w, next) /\ ReadsOn(agents[w], next, t)
    BY <1>7, SourceRead
  <2>2. Calm(w, next)
    BY <2>1 DEF Calm, ReadsOn
  <2> QED
    BY <2>1, <2>2 DEF CalmTurn
<1> QED
  BY <1>1, <1>3, <1>4, <1>5, <1>6, <1>7

LEMMA CalmInquiry ==
  ASSUME CaseRows, NEW w \in Investigators,
         \/ \E found : SearchCohort(w, found)
         \/ BuildReport(w) \/ InsertRun(w) \/ FinishLinks(w) \/ ReadEvidence(w) \/ AddLink(w)
         \/ \E answer : AnswerInvestigation(w, answer)
         \/ AddCaseTask(w) \/ ListTasks(w) \/ ReviewEntity(w) \/ NotifyEntity(w)
         \/ \E summary, disabled : WritePack(w, summary, disabled)
         \/ InvestigatorStops(w)
  PROVE  CalmTurn(w)
<1> DEFINE job == agents[w]
<1>0. agents[w] # None => IsJob(job)
  BY DEF CaseRows
<1>1. ASSUME agents[w] # None PROVE DOMAIN job = CaseFields
  BY <1>0, <1>1 DEF IsJob
<1>2. ASSUME NEW found, SearchCohort(w, found) PROVE CalmTurn(w)
  <2>1. GoesOn(w, [job EXCEPT !.at = "build", !.found = found \union (Rows \intersect {job.seed})])
        /\ agents[w] # None
    BY <1>2 DEF SearchCohort, WorksAt
  <2>2. Calm(w, [job EXCEPT !.at = "build", !.found = found \union (Rows \intersect {job.seed})])
    BY <1>1, <2>1 DEF Calm, CaseFields
  <2> QED
    BY <2>1, <2>2 DEF CalmTurn
<1>3. CASE BuildReport(w)
  <2>1. PICK result : GoesOn(w, [job EXCEPT !.at = "run", !.entities = EntitiesIn(job.found),
                                            !.result = result])
    BY <1>3 DEF BuildReport
  <2>2. agents[w] # None
    BY <1>3 DEF BuildReport, WorksAt
  <2>3. Calm(w, [job EXCEPT !.at = "run", !.entities = EntitiesIn(job.found), !.result = result])
    BY <1>1, <2>2 DEF Calm, CaseFields
  <2> QED
    BY <2>1, <2>3 DEF CalmTurn
<1>4. CASE InsertRun(w)
  <2>1. agents[w] # None /\ GoesOn(w, [job EXCEPT !.at = "report", !.run = Len(inquiries')])
    BY <1>4 DEF InsertRun, WorksAt
  <2>2. Calm(w, [job EXCEPT !.at = "report", !.run = Len(inquiries')])
    BY <1>1, <2>1 DEF Calm, CaseFields
  <2> QED
    BY <2>1, <2>2 DEF CalmTurn
<1>5. CASE FinishLinks(w)
  <2>1. agents[w] # None /\ (GoesOn(w, None) \/ GoesOn(w, [job EXCEPT !.at = "evidence"]))
    BY <1>5 DEF FinishLinks, WorksAt
  <2>2. Calm(w, [job EXCEPT !.at = "evidence"])
    BY <1>1, <2>1 DEF Calm, CaseFields
  <2> QED
    BY <2>1, <2>2 DEF CalmTurn
<1>6. CASE ReadEvidence(w)
  <2>1. agents[w] # None
        /\ GoesOn(w, [job EXCEPT !.at = "answer", !.spans = SpansIn(job.result.cites)])
    BY <1>6 DEF ReadEvidence, WorksAt
  <2>2. Calm(w, [job EXCEPT !.at = "answer", !.spans = SpansIn(job.result.cites)])
    BY <1>1, <2>1 DEF Calm, CaseFields
  <2> QED
    BY <2>1, <2>2 DEF CalmTurn
<1>7. CASE AddLink(w)
  <2>1. /\ agents[w] # None /\ job.at = "link" /\ job.links # <<>>
        /\ GoesOn(w, [job EXCEPT !.links = Tail(job.links)])
    BY <1>7 DEF AddLink, WorksAt
  <2>2. \A n \in DOMAIN Tail(job.links) : \E m \in DOMAIN job.links : Tail(job.links)[n] = job.links[m]
    BY <1>0, <2>1, LinksLeft DEF IsJob
  <2>3. Calm(w, [job EXCEPT !.links = Tail(job.links)])
    BY <1>1, <2>1, <2>2 DEF Calm, CaseFields
  <2> QED
    BY <2>1, <2>3 DEF CalmTurn
<1>8. ASSUME NEW answer, AnswerInvestigation(w, answer) PROVE CalmTurn(w)
  <2>1. PICK result : GoesOn(w, [job EXCEPT !.at = "tasks", !.result = result])
    BY <1>8 DEF AnswerInvestigation
  <2>2. agents[w] # None
    BY <1>8 DEF AnswerInvestigation, WorksAt
  <2>3. Calm(w, [job EXCEPT !.at = "tasks", !.result = result])
    BY <1>1, <2>2 DEF Calm, CaseFields
  <2> QED
    BY <2>1, <2>3 DEF CalmTurn
<1>9. CASE AddCaseTask(w)
  <2>1. PICK result : GoesOn(w, [job EXCEPT !.result = result])
    BY <1>9 DEF AddCaseTask
  <2>2. agents[w] # None /\ job.at = "tasks"
    BY <1>9 DEF AddCaseTask, WorksAt
  <2>3. Calm(w, [job EXCEPT !.result = result])
    BY <1>1, <2>2 DEF Calm, CaseFields
  <2> QED
    BY <2>1, <2>3 DEF CalmTurn
<1>10. CASE GoesOn(w, None)
  BY <1>10 DEF CalmTurn
<1> QED
  BY <1>2, <1>3, <1>4, <1>5, <1>6, <1>7, <1>8, <1>9, <1>10
     DEF ListTasks, ReviewEntity, NotifyEntity, WritePack, InvestigatorStops

LEMMA CalmRemedy ==
  ASSUME CaseRows, NEW w \in Investigators, NEW k \in DOMAIN affected,
         NEW status, NEW remediated \in BOOLEAN, UpdateEntity(w, k, status, remediated)
  PROVE  agents' = agents \/ CalmTurn(w)
<1>1. CASE ~remediated
  BY <1>1 DEF UpdateEntity
<1>2. CASE remediated
  <2> DEFINE x == ToLink(affected[k].issue, <<"remedy", k>>, "remediated_by", affected[k].traces)
             job == Job("link", "remedy", affected[k].issue, None)
  <2>1. x.relation = "remediated_by"
    BY DEF ToLink
  <2>2. GoesOn(w, [job EXCEPT !.links = <<x>>])
    BY <1>2 DEF UpdateEntity
  <2>3. DOMAIN job = CaseFields /\ job.at = "link"
    BY JobBegins
  <2> HIDE DEF x, job
  <2>4. \A n \in DOMAIN <<x>> : <<x>>[n] = x
    BY OneLink
  <2>5. Calm(w, [job EXCEPT !.links = <<x>>])
    BY <2>1, <2>3, <2>4 DEF Calm, CaseFields
  <2> QED
    BY <2>2, <2>5 DEF CalmTurn
<1> QED
  BY <1>1, <1>2

LEMMA PersistSound ==
  ASSUME CaseRows, RemediesSound, NEW w \in Investigators, PersistReport(w)
  PROVE  RemediesSound'
<1> DEFINE job == agents[w]
           r == [issue |-> job.issue, representative |-> job.found,
                 entities |-> job.entities, count |-> Cardinality(DOMAIN job.entities)]
<1>0. PICK n : n = Len(reports) + 1
  OBVIOUS
<1>1. /\ agents[w] # None /\ IsJob(job) /\ job.at = "report" /\ JobSound(job)
      /\ DOMAIN job = CaseFields /\ job.links = <<>>
  BY DEF CaseRows, PersistReport, WorksAt, RemediesSound, IsJob
<1>2. /\ reports' = Append(reports, r)
      /\ UNCHANGED <<cases, affected, overlapped, issueLinks>>
      /\ GoesOn(w, [job EXCEPT !.report = Len(reports'),
                     !.at = IF job.issue = None THEN "link"
                            ELSE IF DOMAIN job.entities = {} THEN "own links" ELSE "first"])
  BY DEF PersistReport, remedies
<1>3. /\ r.issue = job.issue /\ r.entities = job.entities
  OBVIOUS
<1> HIDE DEF r
<1>4. /\ Len(reports') = n /\ n \in DOMAIN reports' /\ DOMAIN reports \subseteq DOMAIN reports'
      /\ \A k \in DOMAIN reports : reports'[k] = reports[k]
      /\ reports'[n] = r
  BY <1>0, <1>2, NumberedRows DEF CaseRows
<1>5. Dead' = Dead /\ \A key : Untouched(key)
  BY <1>2 DEF Dead, Untouched, RowsFor
<1>6. Later
  BY <1>2, <1>4, <1>5 DEF Later
<1>7. EntityTracesReported'
  <2> SUFFICES ASSUME NEW k \in DOMAIN affected, NEW t \in affected[k].traces, t \notin Dead'
               PROVE  Named(affected[k].issue, affected[k].entity, t)'
    BY <1>2 DEF EntityTracesReported, Named
  <2>1. Named(affected[k].issue, affected[k].entity, t)
    BY <1>5 DEF RemediesSound, EntityTracesReported, Named
  <2> QED
    BY <1>2, <1>4, <2>1 DEF Named
<1>8. PICK at \in {"link", "own links", "first"} :
        /\ agents'[w] = [job EXCEPT !.report = n, !.at = at]
        /\ at = "own links" => DOMAIN job.entities = {}
  BY <1>2, <1>4, GoingOn
<1>9. JobSound(agents[w])'
  <2>0. PICK next : next = [job EXCEPT !.report = n, !.at = at]
    OBVIOUS
  <2>1. /\ next.at = at /\ next.report = n /\ next.issue = job.issue
        /\ next.entities = job.entities /\ next.links = <<>>
    BY <1>1, <2>0 DEF CaseFields
  <2>2. agents'[w] = next
    BY <1>8, <2>0
  <2>3. next.at = "first" => ReportKept(agents[w])'
    BY <1>3, <1>4, <2>1, <2>2 DEF ReportKept
  <2>4. next.at = "own links" => Tracked(agents[w].report)'
    BY <1>3, <1>4, <1>8, <2>1, <2>2 DEF Tracked
  <2>5. DOMAIN next.links = {}
    BY <2>1, NoRows, Zenon
  <2>6. next.at \in {"link", "own links", "first"} /\ next.report \in DOMAIN reports'
    BY <1>4, <2>1
  <2> QED
    BY <2>2, <2>3, <2>4, <2>5, <2>6 DEF JobSound
<1>10. \A l \in issueLinks' : ScopedSound(l)'
  BY <1>2, <1>6, TrackedStays DEF RemediesSound, ScopedSound
<1>11. \A v \in Investigators \ {w} : agents'[v] = agents[v]
  BY <1>2, GoingOn
<1> QED
  BY <1>5, <1>6, <1>7, <1>9, <1>10, <1>11, RemediesStay

(* A turn after which reports and rows are as they were. *)
LEMMA OwnStep ==
  ASSUME CaseRows, RemediesSound, RowsKept, NEW w \in Investigators, NEW job, GoesOn(w, job),
         JobSound(job)', issueLinks' = issueLinks
  PROVE  RemediesSound'
<1>1. Later /\ EntityTracesReported' /\ \A key : Untouched(key)
  BY KeptIsLater
<1>2. \A l \in issueLinks' : ScopedSound(l)'
  BY <1>1, TrackedStays DEF RemediesSound, ScopedSound
<1>3. agents'[w] = job /\ \A v \in Investigators \ {w} : agents'[v] = agents[v]
  BY GoingOn
<1> QED
  BY <1>1, <1>2, <1>3, RemediesStay

LEMMA FirstReadSound ==
  ASSUME CaseRows, RemediesSound, NEW w \in Investigators, NEW e \in Accounts \union {Redacted},
         ReadFirstEntity(w, e)
  PROVE  RemediesSound'
<1> DEFINE job == agents[w]
           k == FirstOf(RowsFor(job.issue, e))
           first == [key |-> <<job.issue, e>>, row |-> k,
                     traces |-> IF k = None THEN {} ELSE affected[k].traces]
<1>0. PICK next : next = [job EXCEPT !.at = "upsert", !.first = first]
  OBVIOUS
<1>1. /\ agents[w] # None /\ IsJob(job) /\ job.at = "first" /\ JobSound(job)
      /\ DOMAIN job = CaseFields /\ e \in DOMAIN job.entities
  BY DEF CaseRows, ReadFirstEntity, WorksAt, RemediesSound, IsJob
<1>2. GoesOn(w, next) /\ UNCHANGED <<cases, reports, affected, overlapped, issueLinks>>
  BY <1>0 DEF ReadFirstEntity, findings, remedies
<1>3. RowsKept
  BY <1>2 DEF RowsKept, Dead
<1>4. k # None => k \in DOMAIN affected /\ affected[k].issue = job.issue /\ affected[k].entity = e
  <2>1. RowsFor(job.issue, e) \in SUBSET Nat
    BY NumberedRows DEF RowsFor, CaseRows
  <2> QED
    BY <2>1, FirstOfRows DEF RowsFor
<1>5. FirstSound(first)
  <2>1. first.key[1] = job.issue /\ first.key[2] = e /\ first.key = <<job.issue, e>>
        /\ first.row = k
    OBVIOUS
  <2>2. \A t \in first.traces \ Dead : Named(job.issue, e, t)
    BY <1>4 DEF RemediesSound, EntityTracesReported, Named
  <2>3. first.row # None => affected[first.row].traces \subseteq first.traces
    OBVIOUS
  <2> HIDE DEF first
  <2> QED
    BY <1>4, <2>1, <2>2, <2>3 DEF FirstSound
<1> HIDE DEF first
<1>6. /\ next.at = "upsert" /\ next.first = first /\ next.issue = job.issue
      /\ next.report = job.report /\ next.entities = job.entities /\ next.links = job.links
  BY <1>0, <1>1 DEF CaseFields
<1>7. JobSound(next)
  BY <1>1, <1>5, <1>6 DEF JobSound, ReportKept
<1>8. JobSound(next)'
  BY <1>3, <1>7, KeptIsLater, JobStays
<1> QED
  BY <1>2, <1>3, <1>8, OwnStep

LEMMA OwnLinksSound ==
  ASSUME CaseRows, RemediesSound, NEW w \in Investigators, OwnLinks(w)
  PROVE  RemediesSound'
<1> DEFINE job == agents[w]
           x == ToLink(job.issue, <<"run", job.run>>, "investigated_by", job.result.cites)
           y == ToLink(job.issue, <<"report", job.report>>, "scoped_by", job.result.cites)
           both == job.links \o <<x, y>>
<1>0. PICK next : next = [job EXCEPT !.at = "link", !.links = both]
  OBVIOUS
<1>1. /\ agents[w] # None /\ IsJob(job) /\ job.at = "own links" /\ JobSound(job)
      /\ DOMAIN job = CaseFields
  BY DEF CaseRows, OwnLinks, WorksAt, RemediesSound, IsJob
<1>2. GoesOn(w, next) /\ UNCHANGED <<cases, reports, affected, overlapped, issueLinks>>
  BY <1>0 DEF OwnLinks, findings, remedies
<1>3. RowsKept
  BY <1>2 DEF RowsKept, Dead
<1>4. IsLink(x) /\ IsLink(y) /\ x.relation = "investigated_by" /\ y.target[2] = job.report
  BY DEF IsLink, ToLink
<1> HIDE DEF x, y
<1>5. \A n \in DOMAIN both : \/ both[n] = x \/ both[n] = y
                             \/ \E m \in DOMAIN job.links : both[n] = job.links[m]
  <2>1. Numbered(job.links) /\ \A n \in DOMAIN job.links : IsLink(job.links[n])
    BY <1>1 DEF IsJob
  <2> QED
    BY <1>4, <2>1, LinksAppended
<1> HIDE DEF both
<1>6. next.at = "link" /\ next.links = both
  BY <1>0, <1>1 DEF CaseFields
<1>7. \A n \in DOMAIN both : ScopedSound(both[n])
  BY <1>1, <1>4, <1>5 DEF JobSound, ScopedSound
<1>8. JobSound(next)
  BY <1>6, <1>7 DEF JobSound
<1>9. JobSound(next)'
  BY <1>3, <1>6, <1>8, KeptIsLater, JobStays
<1> QED
  BY <1>2, <1>3, <1>9, OwnStep

LEMMA DeletionSound ==
  ASSUME CaseRows, RemediesSound, NEW t \in CaseTraces, DeleteCase(t)
  PROVE  RemediesSound'
<1>1. /\ DOMAIN reports' = DOMAIN reports /\ DOMAIN affected' = DOMAIN affected
      /\ \A r \in DOMAIN reports : reports'[r] = ScrubReport(reports[r], t)
      /\ \A k \in DOMAIN affected : affected'[k] = ScrubEntity(affected[k], t)
      /\ agents' = agents /\ overlapped' = overlapped /\ cases' = [cases EXCEPT ![t] = Gone]
      /\ \A l \in issueLinks' : \E k \in issueLinks : l.relation = k.relation /\ l.target = k.target
  BY Deletion
<1>2. Dead' = Dead \union {t}
  BY <1>1 DEF Dead, CaseRows
<1>3. \A u \in CaseTraces : u \notin Dead' => u # t /\ u # <<t>>
  BY <1>2, CaseAssumption
<1>4. ASSUME NEW r \in DOMAIN reports
      PROVE  /\ reports'[r].issue = reports[r].issue
             /\ DOMAIN reports'[r].entities = DOMAIN reports[r].entities
             /\ \A e \in DOMAIN reports[r].entities :
                  /\ reports'[r].entities[e] \subseteq reports[r].entities[e]
                  /\ reports[r].entities[e] \ Dead' \subseteq reports'[r].entities[e]
  <2>1. IsReport(reports[r]) /\ EntityMap(reports[r].entities)
    BY DEF CaseRows, IsReport
  <2>2. /\ reports'[r].issue = reports[r].issue
        /\ DOMAIN reports'[r].entities = DOMAIN reports[r].entities
        /\ \A e \in DOMAIN reports[r].entities :
             reports'[r].entities[e] = reports[r].entities[e] \ {t}
    BY <1>1, <2>1, ScrubbedRows
  <2> QED
    BY <1>3, <2>1, <2>2 DEF EntityMap
<1>5. ASSUME NEW k \in DOMAIN affected
      PROVE  /\ affected'[k].issue = affected[k].issue /\ affected'[k].entity = affected[k].entity
             /\ affected'[k].traces \subseteq affected[k].traces
             /\ affected[k].traces \ Dead' \subseteq affected'[k].traces
  <2>1. IsEntity(affected[k]) /\ affected[k].traces \subseteq CaseTraces
    BY DEF CaseRows, IsEntity
  <2>2. /\ affected'[k].issue = affected[k].issue /\ affected'[k].entity = affected[k].entity
        /\ affected'[k].traces \subseteq affected[k].traces
        /\ affected[k].traces \ {t, <<t>>} \subseteq affected'[k].traces
    BY <1>1, <2>1, ScrubbedRows
  <2> QED
    BY <1>3, <2>1, <2>2
<1>6. Later
  BY <1>1, <1>2, <1>4, <1>5 DEF Later
<1>7. \A key : Untouched(key)
  BY <1>1, <1>5 DEF Untouched, RowsFor
<1>8. EntityTracesReported'
  <2> SUFFICES ASSUME NEW k \in DOMAIN affected, NEW u \in affected'[k].traces, u \notin Dead'
               PROVE  Named(affected[k].issue, affected[k].entity, u)'
    BY <1>1 DEF EntityTracesReported, Named
  <2>1. u \in affected[k].traces \ Dead
    BY <1>2, <1>5
  <2>2. Named(affected[k].issue, affected[k].entity, u)
    BY <2>1 DEF RemediesSound, EntityTracesReported, Named
  <2>3. PICK issue, e : issue = affected[k].issue /\ e = affected[k].entity
    OBVIOUS
  <2>4. Named(issue, e, u)'
    BY <1>6, <2>2, <2>3, NamedStays
  <2> QED
    BY <1>5, <2>3, <2>4 DEF Named
<1>9. \A l \in issueLinks' : ScopedSound(l)'
  <2>1. \A l : ScopedSound(l) => ScopedSound(l)'
    BY <1>6, TrackedStays DEF ScopedSound
  <2>2. ASSUME NEW l \in issueLinks' PROVE ScopedSound(l)'
    <3>1. PICK k, x : k \in issueLinks /\ x = l /\ x.relation = k.relation /\ x.target = k.target
      BY <1>1, <2>2
    <3>2. ScopedSound(x)
      BY <3>1 DEF RemediesSound, ScopedSound
    <3> QED
      BY <2>1, <3>1, <3>2
  <2> QED
    BY <2>2
<1>10. ASSUME NEW w \in Investigators, agents'[w] # None PROVE JobSound(agents[w])'
  <2>1. PICK job : job = agents[w]
    OBVIOUS
  <2>2. JobSound(job)
    BY <1>1, <1>10, <2>1 DEF RemediesSound
  <2>3. JobSound(job)'
    BY <1>6, <1>7, <2>2, JobStays
  <2> QED
    BY <1>1, <2>1, <2>3
<1> QED
  BY <1>8, <1>9, <1>10 DEF RemediesSound

(* What an upsert knows of a row: it is of the entity, what it has of its traces is
   reported, and is all of them unless another upsert came between. *)
LEMMA KnownRow ==
  ASSUME CaseRows, RemediesSound, NEW w \in Investigators, WorksAt(w, "upsert"),
         NEW e \in KnownTo(agents[w])
  PROVE  LET job == agents[w]
             k == RowOf(job, e)
         IN /\ k \in DOMAIN affected /\ affected[k].issue = job.issue /\ affected[k].entity = e
            /\ \A t \in OldOf(job, e) \ Dead : Named(job.issue, e, t)
            /\ <<job.issue, e>> \notin overlapped => affected[k].traces \subseteq OldOf(job, e)
<1> DEFINE job == agents[w]
           k == RowOf(job, e)
<1>1. FirstSound(job.first) /\ k # None
  BY DEF WorksAt, RemediesSound, JobSound, KnownTo
<1>2. CASE <<job.issue, e>> = job.first.key
  <2>1. k = job.first.row /\ OldOf(job, e) = job.first.traces
    BY <1>2 DEF RowOf, OldOf
  <2>2. job.first.key[1] = job.issue /\ job.first.key[2] = e
    BY <1>2
  <2>3. k \in DOMAIN affected /\ <<job.issue, e>> = <<affected[k].issue, affected[k].entity>>
    BY <1>1, <1>2, <2>1 DEF FirstSound
  <2>4. affected[k].issue = job.issue /\ affected[k].entity = e
    BY <2>3
  <2>5. \A t \in OldOf(job, e) \ Dead : Named(job.issue, e, t)
    BY <1>1, <2>1, <2>2 DEF FirstSound
  <2>6. <<job.issue, e>> \notin overlapped => affected[k].traces \subseteq OldOf(job, e)
    BY <1>1, <1>2, <2>1 DEF FirstSound
  <2> QED
    BY <2>3, <2>4, <2>5, <2>6
<1>3. CASE <<job.issue, e>> # job.first.key
  <2>1. RowsFor(job.issue, e) \in SUBSET Nat
    BY NumberedRows DEF RowsFor, CaseRows
  <2>2. k \in RowsFor(job.issue, e) /\ OldOf(job, e) = affected[k].traces
    BY <1>1, <1>3, <2>1, FirstOfRows DEF RowOf, OldOf
  <2>3. k \in DOMAIN affected /\ affected[k].issue = job.issue /\ affected[k].entity = e
    BY <2>2 DEF RowsFor
  <2> HIDE DEF k
  <2>4. \A t \in OldOf(job, e) \ Dead : Named(job.issue, e, t)
    BY <2>2, <2>3 DEF RemediesSound, EntityTracesReported, Named
  <2> QED
    BY <2>2, <2>3, <2>4 DEF k
<1> QED
  BY <1>2, <1>3

LEMMA UpsertSound ==
  ASSUME CaseRows, RemediesSound, NEW w \in Investigators, UpsertEntities(w)
  PROVE  RemediesSound'
<1>0. PICK job : job = agents[w]
  OBVIOUS
<1>1. /\ agents[w] # None /\ IsJob(job) /\ job.at = "upsert" /\ JobSound(job)
      /\ DOMAIN job = CaseFields /\ WorksAt(w, "upsert")
  BY <1>0 DEF CaseRows, UpsertEntities, WorksAt, RemediesSound, IsJob
<1>2. ReportKept(job)
  BY <1>1 DEF JobSound
<1>3. /\ UNCHANGED <<cases, reports, issueLinks>>
      /\ overlapped' = overlapped \union
           {k \in {agents[v].first.key : v \in {x \in Investigators \ {w} : WorksAt(x, "upsert")}} :
              k[1] = job.issue /\ k[2] \in DOMAIN job.entities}
  BY <1>0 DEF UpsertEntities, findings
<1>4. PICK known, new : known = KnownTo(job) /\ new = DOMAIN job.entities \ known
  OBVIOUS
<1>5. ASSUME NEW e \in known
      PROVE  /\ e \in DOMAIN job.entities
             /\ RowOf(job, e) \in DOMAIN affected
             /\ affected[RowOf(job, e)].issue = job.issue /\ affected[RowOf(job, e)].entity = e
             /\ \A t \in OldOf(job, e) \ Dead : Named(job.issue, e, t)
             /\ <<job.issue, e>> \notin overlapped => affected[RowOf(job, e)].traces \subseteq OldOf(job, e)
  BY <1>0, <1>1, <1>4, KnownRow DEF KnownTo
<1>6. /\ DOMAIN affected \subseteq DOMAIN affected'
      /\ \A k \in DOMAIN affected :
           \/ affected'[k] = affected[k] /\ \A e \in known : RowOf(job, e) # k
           \/ \E e \in known : /\ RowOf(job, e) = k
                               /\ affected'[k] = [affected[k] EXCEPT
                                                    !.traces = OldOf(job, e) \union job.entities[e]]
      /\ \A k \in DOMAIN affected' \ DOMAIN affected : \E e \in new : affected'[k] = NewRow(job, e)
      /\ \A e \in new : \E k \in DOMAIN affected' \ DOMAIN affected : affected'[k] = NewRow(job, e)
  <2>1. Upserted(job)
    BY <1>0, UpsertRows
  <2> QED
    BY <1>4, <2>1 DEF Upserted
<1>7. ASSUME NEW k \in DOMAIN affected
      PROVE  /\ affected'[k].issue = affected[k].issue /\ affected'[k].entity = affected[k].entity
             /\ \/ affected'[k].traces = affected[k].traces /\ \A e \in known : RowOf(job, e) # k
                \/ /\ affected[k].issue = job.issue /\ affected[k].entity \in known
                   /\ RowOf(job, affected[k].entity) = k
                   /\ affected'[k].traces = OldOf(job, affected[k].entity)
                                            \union job.entities[affected[k].entity]
  <2>1. DOMAIN affected[k] = {"issue", "entity", "status", "traces"}
    BY DEF CaseRows, IsEntity
  <2>2. CASE affected'[k] = affected[k] /\ \A e \in known : RowOf(job, e) # k
    BY <2>2
  <2>3. ASSUME NEW e \in known, RowOf(job, e) = k,
               affected'[k] = [affected[k] EXCEPT !.traces = OldOf(job, e) \union job.entities[e]]
        PROVE  /\ affected'[k].issue = affected[k].issue /\ affected'[k].entity = affected[k].entity
               /\ affected[k].issue = job.issue /\ affected[k].entity = e
               /\ affected'[k].traces = OldOf(job, e) \union job.entities[e]
    BY <1>5, <2>1, <2>3
  <2> QED
    BY <1>6, <2>2, <2>3
<1>8. ASSUME NEW k \in DOMAIN affected' \ DOMAIN affected
      PROVE  /\ affected'[k].issue = job.issue /\ affected'[k].entity \in new
             /\ affected'[k].traces = job.entities[affected'[k].entity]
  BY <1>6 DEF NewRow
<1>9. ASSUME NEW e \in DOMAIN job.entities
      PROVE  \E k \in DOMAIN affected' : /\ affected'[k].issue = job.issue
                                         /\ affected'[k].entity = e
                                         /\ job.entities[e] \subseteq affected'[k].traces
  <2>1. CASE e \in known
    <3>1. PICK k : k = RowOf(job, e)
      OBVIOUS
    <3>2. k \in DOMAIN affected /\ affected[k].issue = job.issue /\ affected[k].entity = e
      BY <1>5, <2>1, <3>1
    <3>3. affected'[k].traces = OldOf(job, e) \union job.entities[e]
      BY <1>7, <2>1, <3>1, <3>2
    <3> QED
      BY <1>6, <1>7, <3>2, <3>3
  <2>2. CASE e \in new
    BY <1>6, <2>2 DEF NewRow
  <2> QED
    BY <1>4, <2>1, <2>2
<1>10. Dead' = Dead
  BY <1>3 DEF Dead
<1>11. Later
  <2>1. ASSUME NEW k \in DOMAIN affected,
               <<affected[k].issue, affected[k].entity>> \notin overlapped'
        PROVE  affected[k].traces \subseteq affected'[k].traces
    <3>1. <<affected[k].issue, affected[k].entity>> \notin overlapped
      BY <1>3, <2>1
    <3> QED
      BY <1>5, <1>7, <3>1
  <2> QED
    BY <1>3, <1>6, <1>7, <1>10, <2>1 DEF Later
<1>12. ASSUME NEW e \in DOMAIN job.entities, NEW t \in job.entities[e] \ Dead
       PROVE  Named(job.issue, e, t)
  BY <1>2, <1>12 DEF ReportKept, Named
<1>13. EntityTracesReported'
  <2>1. \A issue, e, t : Named(issue, e, t) => Named(issue, e, t)'
    BY <1>3 DEF Named
  <2>2. ASSUME NEW k \in DOMAIN affected', NEW t \in affected'[k].traces, t \notin Dead
        PROVE  Named(affected[k].issue, affected[k].entity, t)'
    <3>1. PICK issue, e : issue = affected'[k].issue /\ e = affected'[k].entity
      OBVIOUS
    <3>2. Named(issue, e, t)
      <4>1. CASE k \in DOMAIN affected /\ affected'[k].traces = affected[k].traces
        BY <1>7, <2>2, <3>1, <4>1 DEF RemediesSound, EntityTracesReported, Named
      <4>2. CASE k \in DOMAIN affected /\ affected'[k].traces # affected[k].traces
        BY <1>5, <1>7, <1>12, <2>2, <3>1, <4>2
      <4>3. CASE k \notin DOMAIN affected
        BY <1>4, <1>8, <1>12, <2>2, <3>1, <4>3
      <4> QED
        BY <4>1, <4>2, <4>3
    <3> QED
      BY <2>1, <3>1, <3>2
  <2> QED
    BY <1>10, <2>2 DEF EntityTracesReported, Named
<1>14. ASSUME NEW v \in Investigators \ {w}, WorksAt(v, "upsert"), NEW key, key = agents[v].first.key
       PROVE  Untouched(key)
  <2> SUFFICES ASSUME key \notin overlapped'
               PROVE  /\ RowsFor(key[1], key[2])' = RowsFor(key[1], key[2])
                      /\ \A k \in RowsFor(key[1], key[2]) : affected'[k].traces \subseteq affected[k].traces
    BY DEF Untouched
  <2>1. ~(key[1] = job.issue /\ key[2] \in DOMAIN job.entities)
    BY <1>3, <1>14
  <2>2. ASSUME NEW k \in DOMAIN affected, affected[k].issue = key[1], affected[k].entity = key[2]
        PROVE  affected'[k].traces = affected[k].traces
    BY <1>4, <1>5, <1>7, <2>1, <2>2
  <2>3. ASSUME NEW k \in DOMAIN affected' \ DOMAIN affected
        PROVE  ~(affected'[k].issue = key[1] /\ affected'[k].entity = key[2])
    BY <1>4, <1>8, <2>1
  <2>4. RowsFor(key[1], key[2])' = RowsFor(key[1], key[2])
    BY <1>6, <1>7, <2>3 DEF RowsFor
  <2> QED
    BY <2>2, <2>4 DEF RowsFor
<1>15. PICK next : /\ agents'[w] = next /\ next.at = "own links" /\ next.report = job.report
                   /\ \A n \in DOMAIN next.links : next.links[n].relation = "affected_entity"
  <2>1. PICK links :
          /\ \A n \in DOMAIN links : links[n].relation = "affected_entity"
          /\ GoesOn(w, [job EXCEPT !.at = "own links", !.first = None, !.links = links])
    BY <1>0, UpsertTurn
  <2>2. PICK next : next = [job EXCEPT !.at = "own links", !.first = None, !.links = links]
    OBVIOUS
  <2>3. next.at = "own links" /\ next.report = job.report /\ next.links = links
    BY <1>1, <2>2 DEF CaseFields
  <2>4. agents'[w] = next
    BY <2>1, <2>2, GoingOn
  <2> QED
    BY <2>1, <2>3, <2>4
<1>16. Tracked(job.report)'
  <2> DEFINE r == job.report
  <2> SUFFICES ASSUME NEW e \in DOMAIN reports[r].entities, NEW t \in reports[r].entities[e]
               PROVE  \E k \in RowsFor(reports[r].issue, e)' : t \in affected'[k].traces
    BY <1>3 DEF Tracked, RowsFor
  <2>1. /\ e \in DOMAIN job.entities /\ t \in job.entities[e] /\ reports[r].issue = job.issue
    BY <1>2 DEF ReportKept
  <2> QED
    BY <1>3, <1>9, <2>1 DEF RowsFor
<1>17. JobSound(agents[w])'
  <2>1. job.report \in DOMAIN reports'
    BY <1>2, <1>3 DEF ReportKept
  <2>2. Tracked(agents[w].report)'
    BY <1>15, <1>16 DEF Tracked
  <2> QED
    BY <1>15, <2>1, <2>2 DEF JobSound, ScopedSound
<1>18. \A l \in issueLinks' : ScopedSound(l)'
  BY <1>3, <1>11, TrackedStays DEF RemediesSound, ScopedSound
<1>19. \A v \in Investigators \ {w} : agents'[v] = agents[v]
  BY UpsertTurn, GoingOn
<1> QED
  BY <1>11, <1>13, <1>14, <1>17, <1>18, <1>19, RemediesStay

LEMMA IdleStep ==
  ASSUME CaseRows, RemediesSound, RowsKept, agents' = agents,
         \A l \in issueLinks' : l \in issueLinks \/ ScopedSound(l)
  PROVE  RemediesSound'
<1>1. Later /\ EntityTracesReported' /\ \A key : Untouched(key)
  BY KeptIsLater
<1>2. \A l : ScopedSound(l) => ScopedSound(l)'
  BY <1>1, TrackedStays DEF ScopedSound
<1>3. ASSUME NEW l \in issueLinks' PROVE ScopedSound(l)'
  <2>1. PICK k : k = l
    OBVIOUS
  <2>2. ScopedSound(k)
    BY <2>1 DEF RemediesSound
  <2> QED
    BY <1>2, <2>1, <2>2
<1>4. ASSUME NEW w \in Investigators, agents'[w] # None PROVE JobSound(agents[w])'
  <2>1. PICK job : job = agents[w]
    OBVIOUS
  <2>2. JobSound(job)
    BY <1>4, <2>1 DEF RemediesSound
  <2>3. JobSound(job)'
    BY <1>1, <2>2, JobStays
  <2> QED
    BY <2>1, <2>3
<1> QED
  BY <1>1, <1>3, <1>4 DEF RemediesSound

LEMMA RemediesStep ==
  ASSUME CaseRows, RemediesSound, [CaseNext]_caseVars
  PROVE  RemediesSound'
<1>1. CASE UNCHANGED caseVars
  <2>1. RowsKept
    BY <1>1 DEF caseVars, findings, remedies, RowsKept, Dead
  <2> QED
    BY <1>1, <2>1, IdleStep DEF caseVars
<1>2. ASSUME NEW t \in CaseTraces, NEW accounts \in SUBSET Accounts, ArriveTrace(t, accounts)
      PROVE  RemediesSound'
  <2>1. cases' = [cases EXCEPT ![t] = accounts] /\ cases[t] = None
        /\ UNCHANGED <<issueLinks, reports, affected, overlapped, agents>>
    BY <1>2 DEF ArriveTrace, findings, remedies
  <2>2. Dead \subseteq Dead'
    BY <2>1, CaseAssumption DEF Dead, CaseRows
  <2>3. RowsKept
    BY <2>1, <2>2 DEF RowsKept
  <2> QED
    BY <2>1, <2>3, IdleStep
<1>3. ASSUME NEW t \in CaseTraces, DeleteCase(t) PROVE RemediesSound'
  BY <1>3, DeletionSound
<1>4. ASSUME NEW t \in CaseTraces, NEW i \in DOMAIN issues, LinkTrace(i, t) PROVE RemediesSound'
  <2>1. /\ issueLinks' = Linked(ToLink(i, t, "related_to", {}))
        /\ UNCHANGED <<cases, reports, affected, overlapped, agents>>
    BY <1>4 DEF LinkTrace, findings, remedies
  <2>2. ScopedSound(ToLink(i, t, "related_to", {}))
    BY DEF ScopedSound, ToLink
  <2>3. \A l \in issueLinks' : l \in issueLinks \/ ScopedSound(l)
    BY <2>1, <2>2 DEF Linked
  <2>4. RowsKept
    BY <2>1 DEF RowsKept, Dead
  <2> QED
    BY <2>1, <2>3, <2>4, IdleStep
<1>5. ASSUME NEW seed, OpenIssue(seed) PROVE RemediesSound'
  <2>1. UNCHANGED <<cases, issueLinks, reports, affected, overlapped, agents>>
    BY <1>5 DEF OpenIssue, findings, remedies
  <2>2. RowsKept
    BY <2>1 DEF RowsKept, Dead
  <2> QED
    BY <2>1, <2>2, IdleStep
<1>6. ASSUME NEW w \in Investigators, CalmTurn(w),
             UNCHANGED <<cases, reports, affected, overlapped, issueLinks>>
      PROVE  RemediesSound'
  <2>1. RowsKept
    BY <1>6 DEF RowsKept, Dead
  <2> QED
    BY <1>6, <2>1, CalmStep
<1>7. ASSUME NEW w \in Investigators, NEW sources \in SUBSET Payloads, ReportScreenshot(w, sources)
      PROVE  RemediesSound'
  <2>1. CalmTurn(w)
    BY <1>7, CalmStarts
  <2> QED
    BY <1>6, <1>7, <2>1 DEF ReportScreenshot, findings, remedies
<1>8. ASSUME NEW w \in Investigators, NEW seed, NEW issue,
             StartWorkflow(w, issue, seed) \/ StartChat(w, seed)
      PROVE  RemediesSound'
  <2>1. CalmTurn(w)
    BY <1>8, CalmStarts
  <2> QED
    BY <1>6, <1>8, <2>1 DEF StartWorkflow, StartChat, findings, remedies
<1>9. ASSUME NEW w \in Investigators,
             \/ \E found \in SUBSET CaseTraces : SearchCohort(w, found)
             \/ BuildReport(w) \/ InsertRun(w) \/ FinishLinks(w) \/ ReadEvidence(w)
             \/ \E answer \in Answers : AnswerInvestigation(w, answer)
             \/ AddCaseTask(w) \/ ListTasks(w)
      PROVE  RemediesSound'
  <2>1. CalmTurn(w)
    BY <1>9, CalmInquiry, Zenon
  <2> QED
    BY <1>6, <1>9, <2>1 DEF SearchCohort, BuildReport, InsertRun, FinishLinks, ReadEvidence,
       AnswerInvestigation, AddCaseTask, ListTasks, findings, remedies
<1>10. ASSUME NEW w \in Investigators,
              \/ ReviewEntity(w) \/ NotifyEntity(w)
              \/ \E summary \in Summaries, disabled \in BOOLEAN : WritePack(w, summary, disabled)
              \/ InvestigatorStops(w)
       PROVE  RemediesSound'
  <2>1. CalmTurn(w)
    BY <1>10, CalmInquiry, Zenon
  <2> QED
    BY <1>6, <1>10, <2>1 DEF ReviewEntity, NotifyEntity, WritePack, InvestigatorStops,
       findings, remedies
<1>11. ASSUME NEW w \in Investigators, PersistReport(w) PROVE RemediesSound'
  BY <1>11, PersistSound
<1>12. ASSUME NEW w \in Investigators, NEW e \in Accounts \union {Redacted}, ReadFirstEntity(w, e)
       PROVE  RemediesSound'
  BY <1>12, FirstReadSound
<1>13. ASSUME NEW w \in Investigators, UpsertEntities(w) PROVE RemediesSound'
  BY <1>13, UpsertSound
<1>14. ASSUME NEW w \in Investigators, OwnLinks(w) PROVE RemediesSound'
  BY <1>14, OwnLinksSound
<1>15. ASSUME NEW w \in Investigators, AddLink(w) PROVE RemediesSound'
  <2> DEFINE job == agents[w]
  <2>1. /\ job # None /\ IsJob(job) /\ JobSound(job) /\ job.links # <<>>
        /\ issueLinks' = Linked(Head(job.links))
        /\ UNCHANGED <<cases, reports, affected, overlapped>>
    BY <1>15 DEF AddLink, WorksAt, CaseRows, RemediesSound, findings, remedies
  <2>2. ScopedSound(Head(job.links))
    <3>1. Numbered(job.links) /\ \A n \in DOMAIN job.links : IsLink(job.links[n])
      BY <2>1 DEF IsJob
    <3>2. \E n \in DOMAIN job.links : Head(job.links) = job.links[n]
      BY <2>1, <3>1, LinksLeft
    <3> QED
      BY <2>1, <3>2 DEF JobSound, ScopedSound
  <2>3. \A l \in issueLinks' : l \in issueLinks \/ ScopedSound(l)
    BY <2>1, <2>2 DEF Linked
  <2>4. CalmTurn(w) /\ RowsKept
    BY <1>15, <2>1, CalmInquiry DEF RowsKept, Dead
  <2> QED
    BY <2>3, <2>4, CalmStep
<1>16. ASSUME NEW w \in Investigators, NEW k \in DOMAIN affected, NEW status,
              NEW remediated \in BOOLEAN, UpdateEntity(w, k, status, remediated)
       PROVE  RemediesSound'
  <2>1. /\ affected' = [affected EXCEPT ![k] = [affected[k] EXCEPT !.status = status]]
        /\ UNCHANGED <<cases, reports, overlapped, issueLinks>>
    BY <1>16 DEF UpdateEntity, findings
  <2>2. DOMAIN affected[k] = {"issue", "entity", "status", "traces"}
    BY DEF CaseRows, IsEntity
  <2>3. RowsKept
    BY <2>1, <2>2 DEF RowsKept, Dead
  <2>4. agents' = agents \/ CalmTurn(w)
    BY <1>16, CalmRemedy
  <2> QED
    BY <2>1, <2>3, <2>4, CalmStep
<1>17. ASSUME NEW w \in Investigators, NEW k \in DOMAIN affected, NEW kind \in {"review", "notify"},
              ReadEntity(w, k, kind)
       PROVE  RemediesSound'
  <2>1. CalmTurn(w)
    BY <1>17, CalmStarts
  <2> QED
    BY <1>6, <1>17, <2>1 DEF ReadEntity, findings, remedies
<1>18. ASSUME NEW w \in Investigators, NEW sources, NEW level, StartPack(w, sources, level)
       PROVE  RemediesSound'
  <2>1. CalmTurn(w)
    <3>1. \A found, at : StartPack(w, found, at) => CalmTurn(w)
      BY CalmStarts
    <3> QED
      BY <1>18, <3>1
  <2> QED
    BY <1>6, <1>18, <2>1 DEF StartPack, findings, remedies
<1>20. ASSUME NEW w \in Investigators, NEW t \in CaseTraces, ReadSource(w, t) PROVE RemediesSound'
  <2>1. CalmTurn(w)
    BY <1>20, CalmStarts
  <2> QED
    BY <1>6, <1>20, <2>1 DEF ReadSource, findings, remedies
<1>19. CASE CaseNext
  BY <1>2, <1>3, <1>4, <1>5, <1>7, <1>8, <1>9, <1>10, <1>11, <1>12, <1>13, <1>14, <1>15, <1>16,
     <1>17, <1>18, <1>19, <1>20 DEF CaseNext
<1> QED
  BY <1>1, <1>19

(* Whatever investigations, remediations and deletions are under way at once: a trace that
   is there and that a row of remediation names is in a report of the issue, for the same
   entity; a trace that is there and that a linked report names is in a row of remediation,
   unless another upsert of the entity came between the read and the write of one; and a
   report counts the entities it names traces of. *)
THEOREM Remedies == CaseSpec => []RemediationAgrees
<1>1. CaseInit => RemediesSound
  BY NoRows DEF CaseInit, RemediesSound, EntityTracesReported
<1>2. CaseRows /\ RemediesSound /\ [CaseNext]_caseVars => RemediesSound'
  BY RemediesStep
<1>3. CaseRows /\ RemediesSound => RemediationAgrees
  <2> SUFFICES ASSUME CaseRows, RemediesSound PROVE RemediationAgrees
    OBVIOUS
  <2>1. EntityTracesReported
    BY DEF RemediesSound
  <2>2. RemediationTracked
    BY DEF RemediesSound, ScopedSound, Tracked, RemediationTracked
  <2>3. ReportsCount
    BY DEF CaseRows, IsReport, ReportsCount
  <2> QED
    BY <2>1, <2>2, <2>3 DEF RemediationAgrees
<1> QED
  BY <1>1, <1>2, <1>3, CaseTyping, PTL DEF CaseSpec

-----------------------------------------------------------------------------
(* What investigations and packs cite. *)

HypothesisFields == {"by", "traces", "spans"}

\* A hypothesis cites traces, and spans of traces, among these.
Stands(h, cites) ==
  DOMAIN h = HypothesisFields /\ h.traces \subseteq cites /\ h.spans \subseteq {<<t>> : t \in cites}

\* The same, but for spans of deleted traces.
StandsNow(h, cites) ==
  DOMAIN h = HypothesisFields /\ h.traces \subseteq cites /\ h.spans \ CaseSpans(Dead) \subseteq CaseSpans(cites)

\* One of a model cites some of each.
Whole(h) == h.by = "model" => h.traces # {} /\ h.spans # {}

AllStand(hypotheses, cites) ==
  Numbered(hypotheses) /\ \A k \in DOMAIN hypotheses : Stands(hypotheses[k], cites)

\* A result in the memory of a request, which no deletion reaches.
ResultSound(result) ==
  /\ DOMAIN result = {"cites", "hypotheses", "tasks"}
  /\ result.cites \subseteq CaseTraces /\ IsFiniteSet(result.tasks)
  /\ AllStand(result.hypotheses, result.cites)
  /\ \A k \in DOMAIN result.hypotheses : Whole(result.hypotheses[k])

\* One that is stored.
InquirySound(q) ==
  /\ DOMAIN q = {"seed", "cites", "hypotheses", "tasks"}
  /\ q.cites \subseteq CaseTraces
  /\ Numbered(q.hypotheses) /\ \A k \in DOMAIN q.hypotheses : StandsNow(q.hypotheses[k], q.cites)
  /\ Dead = {} => \A k \in DOMAIN q.hypotheses : Whole(q.hypotheses[k])

\* The ids that no deletion took.
Live(ids) == ids \ (Dead \union {<<t>> : t \in Dead})
Ids(h) == h.traces \union h.spans

\* Hypotheses that differ by what was deleted.
Agree(hs, others) ==
  DOMAIN hs = DOMAIN others /\ \A k \in DOMAIN hs : Live(Ids(hs[k])) = Live(Ids(others[k]))

\* The review tasks of a run.
Own(r) == {n \in DOMAIN caseTasks : caseTasks[n].about[1] = "run" /\ caseTasks[n].about[2] = r}

TaskSound(task) ==
  /\ DOMAIN task = {"about", "evidence"}
  /\ task.about[1] = "run" =>
       /\ task.about[2] \in DOMAIN inquiries
       /\ task.about[3] \in DOMAIN inquiries[task.about[2]].hypotheses
       /\ Live(task.evidence) = Live(Ids(inquiries[task.about[2]].hypotheses[task.about[3]]))

PackSound(p) ==
  /\ p.sources \subseteq CaseTraces
  /\ p.cites \ CaseSpans(Dead) \subseteq p.sources \union CaseSpans(p.sources)

Investigates == {"report", "first", "upsert", "own links", "evidence", "answer", "tasks"}

\* A request that has stored a run has its result in memory, and what it adds to that, the
\* stored run has not yet.
JobCites(job) ==
  /\ ResultSound(job.result)
  /\ job.run \in DOMAIN inquiries \union {None}
  /\ job.at \in Investigates => job.run # None
  /\ job.at = "link" /\ job.kind = "workflow" => job.run # None
  /\ job.at # "tasks" => job.result.tasks = {}
  /\ job.run # None => inquiries[job.run].tasks = {} /\ job.result.tasks = Own(job.run)
  /\ job.at = "tasks" => Agree(job.result.hypotheses, inquiries[job.run].hypotheses)
  /\ job.at = "answer" => job.spans \subseteq {<<t>> : t \in job.result.cites}
  /\ job.at = "pack" => job.found \subseteq CaseTraces /\ job.spans \subseteq {<<t>> : t \in job.found}
  /\ job.at = "review" => job.about[1] = "entity"

EvidenceTables ==
  /\ Numbered(inquiries) /\ Numbered(caseTasks)
  /\ \A r \in DOMAIN inquiries : InquirySound(inquiries[r]) /\ inquiries[r].tasks \in {{}, Own(r)}
  /\ \A n \in DOMAIN caseTasks : TaskSound(caseTasks[n])
  /\ \A p \in DOMAIN packs : PackSound(packs[p])

\* No two requests work on one run.
EvidenceJobs ==
  /\ \A w \in Investigators : agents[w] # None => JobCites(agents[w])
  /\ \A v, w \in Investigators :
       agents[v] # None /\ agents[w] # None /\ agents[v].run # None /\ agents[v].run = agents[w].run
       => v = w

EvidenceSound == EvidenceTables /\ EvidenceJobs

LEMMA DeadSpansStay ==
  ASSUME Dead \subseteq Dead'
  PROVE  CaseSpans(Dead) \subseteq CaseSpans(Dead')
BY DEF CaseSpans

LEMMA PackStays ==
  ASSUME Dead \subseteq Dead', NEW p, PackSound(p)
  PROVE  PackSound(p)'
<1>1. PICK spans, after : /\ spans = CaseSpans(p.sources) /\ after = CaseSpans(Dead')
                          /\ CaseSpans(Dead) \subseteq after
  BY DeadSpansStay
<1>2. p.cites \ after \subseteq p.sources \union spans
  BY <1>1 DEF PackSound
<1>3. CaseSpans(Dead)' = after /\ CaseSpans(p.sources)' = spans
  BY <1>1 DEF CaseSpans
<1>. QED
  BY <1>1, <1>2, <1>3 DEF PackSound

LEMMA PacksStay ==
  ASSUME Dead \subseteq Dead', \A p \in DOMAIN packs' : PackSound(packs'[p])
  PROVE  \A p \in DOMAIN packs' : PackSound(packs[p])'
<1>. SUFFICES ASSUME NEW p \in DOMAIN packs' PROVE PackSound(packs[p])'
  OBVIOUS
<1>1. PICK pack : pack = packs'[p]
  OBVIOUS
<1>2. PackSound(pack)'
  BY <1>1, PackStays
<1>. QED
  BY <1>1, <1>2 DEF PackSound

LEMMA LiveStays ==
  ASSUME Dead \subseteq Dead', NEW a, NEW b, Live(a) = Live(b)
  PROVE  Live(a)' = Live(b)'
<1>1. ASSUME NEW x PROVE x \in Live(a)' <=> x \in Live(b)'
  <2>1. x \in Live(a) <=> x \in Live(b)
    OBVIOUS
  <2>. QED
    BY <2>1 DEF Live
<1>. QED
  BY <1>1 DEF Live

LEMMA AgreeStay ==
  ASSUME Dead \subseteq Dead', NEW hs, NEW others, Agree(hs, others)
  PROVE  Agree(hs, others)'
<1>1. ASSUME NEW k \in DOMAIN hs PROVE Live(Ids(hs[k]))' = Live(Ids(others[k]))'
  <2>1. PICK a, b : a = Ids(hs[k]) /\ b = Ids(others[k])
    OBVIOUS
  <2>2. Live(a) = Live(b)
    BY <2>1 DEF Agree
  <2>3. Live(a)' = Live(b)'
    BY <2>2, LiveStays
  <2>. QED
    BY <2>1, <2>3 DEF Live
<1>. QED
  BY <1>1 DEF Agree, Ids

LEMMA InquiryStays ==
  ASSUME Dead \subseteq Dead', NEW q, InquirySound(q)
  PROVE  InquirySound(q)'
<1>1. ASSUME NEW h, NEW cites, StandsNow(h, cites) PROVE StandsNow(h, cites)'
  <2>1. PICK spans, after : /\ spans = CaseSpans(cites) /\ after = CaseSpans(Dead')
                            /\ CaseSpans(Dead) \subseteq after
    BY DeadSpansStay
  <2>2. h.spans \ after \subseteq spans
    BY <1>1, <2>1 DEF StandsNow
  <2>3. CaseSpans(Dead)' = after /\ CaseSpans(cites)' = spans
    BY <2>1 DEF CaseSpans
  <2>. QED
    BY <1>1, <2>1, <2>2, <2>3 DEF StandsNow
<1>2. PICK hs, cites : hs = q.hypotheses /\ cites = q.cites
  OBVIOUS
<1>3. \A k \in DOMAIN hs : StandsNow(hs[k], cites)'
  BY <1>1, <1>2 DEF InquirySound
<1>4. \A k \in DOMAIN q.hypotheses : StandsNow(q.hypotheses[k], q.cites)'
  BY <1>2, <1>3 DEF StandsNow
<1>. QED
  BY <1>4 DEF InquirySound

\* A result that is sound may be stored.
LEMMA ResultStored ==
  ASSUME NEW result, ResultSound(result), NEW q, DOMAIN q = {"seed", "cites", "hypotheses", "tasks"},
         q.cites = result.cites, q.hypotheses = result.hypotheses
  PROVE  InquirySound(q)
<1>1. ASSUME NEW h, NEW cites, Stands(h, cites) PROVE StandsNow(h, cites)
  BY <1>1 DEF Stands, StandsNow, CaseSpans
<1>. QED
  BY <1>1 DEF InquirySound, ResultSound, AllStand

LEMMA TaskStays ==
  ASSUME Dead \subseteq Dead', DOMAIN inquiries \subseteq DOMAIN inquiries',
         \A r \in DOMAIN inquiries : inquiries'[r].hypotheses = inquiries[r].hypotheses,
         NEW task, TaskSound(task)
  PROVE  TaskSound(task)'
<1>1. CASE task.about[1] = "run"
  <2>1. PICK hs, a, b : /\ hs = inquiries[task.about[2]].hypotheses
                        /\ a = task.evidence /\ b = Ids(hs[task.about[3]])
    OBVIOUS
  <2>2. Live(a) = Live(b) /\ hs = inquiries'[task.about[2]].hypotheses
    BY <1>1, <2>1 DEF TaskSound
  <2>3. Live(a)' = Live(b)'
    BY <2>2, LiveStays
  <2>4. task.about[2] \in DOMAIN inquiries' /\ task.about[3] \in DOMAIN hs
    BY <1>1, <2>1 DEF TaskSound
  <2>. QED
    BY <2>1, <2>2, <2>3, <2>4 DEF TaskSound, Live, Ids
<1>2. CASE task.about[1] # "run"
  BY <1>2 DEF TaskSound
<1>. QED
  BY <1>1, <1>2

LEMMA CitesStay ==
  ASSUME Dead \subseteq Dead', UNCHANGED <<inquiries, caseTasks>>, NEW job, JobCites(job)
  PROVE  JobCites(job)'
<1>1. job.at = "tasks" => Agree(job.result.hypotheses, inquiries[job.run].hypotheses)'
  <2>1. PICK a, b : a = job.result.hypotheses /\ b = inquiries[job.run].hypotheses
    OBVIOUS
  <2>2. job.at = "tasks" => Agree(a, b)
    BY <2>1 DEF JobCites
  <2>3. job.at = "tasks" => Agree(a, b)'
    BY <2>2, AgreeStay
  <2>. QED
    BY <2>1, <2>3 DEF Agree, Ids, Live
<1>. QED
  BY <1>1 DEF JobCites, Own

\* A request that writes no run, no task and no pack.
Steady(w, job) == JobCites(job) /\ (job.run # None => agents[w] # None /\ job.run = agents[w].run)

LEMMA Steadily ==
  ASSUME CaseRows, EvidenceSound, Dead \subseteq Dead', UNCHANGED <<inquiries, caseTasks>>,
         packs' = packs \/ \A p \in DOMAIN packs' : PackSound(packs'[p]),
         agents' = agents \/ \E w \in Investigators : \E job : GoesOn(w, job) /\ (job = None \/ Steady(w, job))
  PROVE  EvidenceSound'
<1>1. EvidenceTables'
  <2>1. ASSUME NEW r \in DOMAIN inquiries PROVE InquirySound(inquiries[r])'
    <3>1. PICK q : q = inquiries[r]
      OBVIOUS
    <3>2. InquirySound(q)'
      BY <3>1, InquiryStays DEF EvidenceSound, EvidenceTables
    <3>. QED
      BY <3>1, <3>2 DEF InquirySound
  <2>2. ASSUME NEW n \in DOMAIN caseTasks PROVE TaskSound(caseTasks[n])'
    <3>1. PICK task : task = caseTasks[n]
      OBVIOUS
    <3>2. TaskSound(task)'
      BY <3>1, TaskStays DEF EvidenceSound, EvidenceTables
    <3>. QED
      BY <3>1, <3>2 DEF TaskSound, Live, Ids
  <2>3. \A r : Own(r)' = Own(r)
    BY DEF Own
  <2>4. \A p \in DOMAIN packs' : PackSound(packs[p])'
    BY PacksStay DEF EvidenceSound, EvidenceTables
  <2>. QED
    BY <2>1, <2>2, <2>3, <2>4 DEF EvidenceSound, EvidenceTables
<1>2. ASSUME NEW v \in Investigators, agents[v] # None, agents'[v] = agents[v]
      PROVE  JobCites(agents[v])'
  <2>1. PICK job : job = agents[v]
    OBVIOUS
  <2>2. JobCites(job)'
    BY <1>2, <2>1, CitesStay DEF EvidenceSound, EvidenceJobs
  <2>3. job = agents'[v]
    BY <1>2, <2>1
  <2>. QED
    BY ONLY <2>2, <2>3 DEF JobCites, Agree, Own, Live, Ids, ResultSound, AllStand
<1>3. CASE agents' = agents
  BY <1>1, <1>2, <1>3 DEF EvidenceSound, EvidenceJobs
<1>4. ASSUME NEW w \in Investigators, NEW job, GoesOn(w, job), job = None \/ Steady(w, job)
      PROVE  EvidenceSound'
  <2>1. agents'[w] = job /\ \A v \in Investigators \ {w} : agents'[v] = agents[v]
    BY <1>4, GoingOn
  <2>2. ASSUME job # None PROVE JobCites(agents[w])'
    <3>1. JobCites(job)'
      BY <1>4, <2>2, CitesStay DEF Steady
    <3>. QED
      BY ONLY <2>1, <3>1 DEF JobCites, Agree, Own, Live, Ids, ResultSound, AllStand
  <2>3. \A v \in Investigators : agents'[v] # None => JobCites(agents[v])'
    BY <1>2, <2>1, <2>2
  <2>4. \A v, u \in Investigators :
          agents'[v] # None /\ agents'[u] # None /\ agents'[v].run # None /\ agents'[v].run = agents'[u].run
          => v = u
    BY <1>4, <2>1 DEF Steady, EvidenceSound, EvidenceJobs
  <2>. QED
    BY <1>1, <2>3, <2>4 DEF EvidenceSound, EvidenceJobs
<1>. QED
  BY <1>3, <1>4

\* What a request in flight has, whatever table it writes.
LEMMA OthersCite ==
  ASSUME EvidenceSound, NEW w \in Investigators, NEW r,
         Dead' = Dead, DOMAIN inquiries \subseteq DOMAIN inquiries',
         \A x \in DOMAIN inquiries : x # r => inquiries'[x] = inquiries[x] /\ Own(x)' = Own(x),
         \A v \in Investigators \ {w} : agents'[v] = agents[v] /\ (agents[v] # None => agents[v].run # r)
  PROVE  \A v \in Investigators \ {w} : agents'[v] # None => JobCites(agents[v])'
<1>. SUFFICES ASSUME NEW v \in Investigators \ {w}, agents'[v] # None
              PROVE  JobCites(agents[v])'
  OBVIOUS
<1>1. PICK job : job = agents[v]
  OBVIOUS
<1>2. JobCites(job) /\ job.run # r /\ job = agents'[v]
  BY <1>1 DEF EvidenceSound, EvidenceJobs
<1>3. job.run # None => inquiries'[job.run] = inquiries[job.run] /\ Own(job.run)' = Own(job.run)
  BY <1>2 DEF JobCites
<1>4. job.at = "tasks" => Agree(job.result.hypotheses, inquiries[job.run].hypotheses)'
  <2>1. PICK a, b : a = job.result.hypotheses /\ b = inquiries[job.run].hypotheses
    OBVIOUS
  <2>2. job.at = "tasks" => Agree(a, b) /\ b = inquiries'[job.run].hypotheses
    BY <1>2, <1>3, <2>1 DEF JobCites, Investigates
  <2>3. job.at = "tasks" => Agree(a, b)'
    BY <2>2, AgreeStay
  <2>. QED
    BY <2>1, <2>2, <2>3 DEF Agree, Ids, Live
<1>5. JobCites(job)'
  <2>1. job.run # None => inquiries'[job.run].tasks = {} /\ job.result.tasks = Own(job.run)'
    BY <1>2, <1>3 DEF JobCites
  <2>. QED
    BY <1>2, <1>4, <2>1 DEF JobCites
<1>. QED
  BY ONLY <1>2, <1>5 DEF JobCites, Agree, Own, Live, Ids, ResultSound, AllStand

\* The tables after the result of a run is written, by the request that works on it.
LEMMA WriteTables ==
  ASSUME EvidenceTables, NEW r \in DOMAIN inquiries, NEW result, ResultSound(result),
         inquiries' = [inquiries EXCEPT ![r] = Inquiry(@.seed, result)],
         UNCHANGED <<caseTasks, packs>>, Dead' = Dead,
         result.tasks \in {{}, Own(r)},
         Own(r) = {} \/ Agree(result.hypotheses, inquiries[r].hypotheses)
  PROVE  EvidenceTables'
<1>1. /\ DOMAIN inquiries' = DOMAIN inquiries /\ Numbered(inquiries)'
      /\ \A x \in DOMAIN inquiries :
           inquiries'[x] = IF x = r THEN Inquiry(inquiries[r].seed, result) ELSE inquiries[x]
  <2>1. \A x \in DOMAIN inquiries :
           inquiries'[x] = IF x = r THEN Inquiry(inquiries[r].seed, result) ELSE inquiries[x]
    OBVIOUS
  <2>2. DOMAIN inquiries' = DOMAIN inquiries
    OBVIOUS
  <2>3. PICK t, s : t = inquiries' /\ s = inquiries
    OBVIOUS
  <2>4. t \in [DOMAIN s -> {t[x] : x \in DOMAIN s}] /\ Numbered(s)
    BY <2>2, <2>3 DEF EvidenceTables
  <2>5. Numbered(t)
    BY <2>4, NumberedAnew
  <2>. QED
    BY <2>1, <2>2, <2>3, <2>5 DEF Numbered
<1>2. \A x : Own(x)' = Own(x)
  BY DEF Own
<1>3. ASSUME NEW x \in DOMAIN inquiries
      PROVE  InquirySound(inquiries[x])' /\ inquiries'[x].tasks \in {{}, Own(x)}
  <2>1. PICK q : q = inquiries'[x]
    OBVIOUS
  <2>2. CASE x = r
    <3>1. q = Inquiry(inquiries[r].seed, result)
      BY <1>1, <2>1, <2>2
    <3>2. /\ DOMAIN q = {"seed", "cites", "hypotheses", "tasks"}
          /\ q.cites = result.cites /\ q.hypotheses = result.hypotheses /\ q.tasks = result.tasks
      BY <3>1 DEF Inquiry
    <3>3. InquirySound(q)
      BY <3>2, ResultStored
    <3>4. InquirySound(q)'
      BY <3>3, InquiryStays
    <3>. QED
      BY <2>1, <2>2, <3>2, <3>4 DEF InquirySound
  <2>3. CASE x # r
    <3>1. InquirySound(q) /\ q.tasks \in {{}, Own(x)}
      BY <1>1, <2>1, <2>3 DEF EvidenceTables
    <3>2. InquirySound(q)'
      BY <3>1, InquiryStays
    <3>. QED
      BY <2>1, <3>1, <3>2 DEF InquirySound
  <2>. QED
    BY <2>2, <2>3
<1>4. ASSUME NEW n \in DOMAIN caseTasks
      PROVE  TaskSound(caseTasks[n])'
  <2>1. PICK task : task = caseTasks[n]
    OBVIOUS
  <2>2. TaskSound(task) /\ task = caseTasks'[n]
    BY <2>1 DEF EvidenceTables
  <2>3. TaskSound(task)'
    <3>1. CASE task.about[1] = "run" /\ task.about[2] = r
      <4>1. n \in Own(r)
        BY <2>1, <3>1 DEF Own
      <4>2. Agree(result.hypotheses, inquiries[r].hypotheses)
        BY <4>1
      <4>3. PICK k, h, g : k = task.about[3] /\ h = inquiries[r].hypotheses[k] /\ g = result.hypotheses[k]
        OBVIOUS
      <4>4. k \in DOMAIN result.hypotheses /\ Live(Ids(g)) = Live(Ids(h)) /\ Live(task.evidence) = Live(Ids(h))
        BY <2>2, <3>1, <4>2, <4>3 DEF TaskSound, Agree
      <4>5. Live(task.evidence) = Live(Ids(g))
        BY <4>4
      <4>6. inquiries'[r].hypotheses = result.hypotheses
        BY <1>1 DEF Inquiry
      <4>7. PICK a, b : a = task.evidence /\ b = Ids(g)
        OBVIOUS
      <4>8. Live(a)' = Live(b)'
        BY <4>5, <4>7, LiveStays
      <4>9. b = Ids(inquiries'[r].hypotheses[k])
        BY <4>3, <4>6, <4>7
      <4>. QED
        BY <1>1, <2>2, <3>1, <4>3, <4>4, <4>6, <4>7, <4>8, <4>9 DEF TaskSound, Live, Ids
    <3>2. CASE task.about[1] = "run" /\ task.about[2] # r
      <4>1. PICK a, b : a = task.evidence /\ b = Ids(inquiries[task.about[2]].hypotheses[task.about[3]])
        OBVIOUS
      <4>2. Live(a)' = Live(b)'
        BY <2>2, <3>2, <4>1, LiveStays DEF TaskSound
      <4>3. inquiries'[task.about[2]] = inquiries[task.about[2]]
        BY <1>1, <2>2, <3>2 DEF TaskSound
      <4>. QED
        BY <1>1, <2>2, <3>2, <4>1, <4>2, <4>3 DEF TaskSound, Live, Ids
    <3>3. CASE task.about[1] # "run"
      BY <2>2, <3>3 DEF TaskSound
    <3>. QED
      BY <3>1, <3>2, <3>3
  <2>. QED
    BY ONLY <2>2, <2>3 DEF TaskSound, Live, Ids
<1>5. \A p \in DOMAIN packs' : PackSound(packs[p])'
  BY PacksStay DEF EvidenceTables
<1>. QED
  BY <1>1, <1>2, <1>3, <1>4, <1>5 DEF EvidenceTables

LEMMA Writing ==
  ASSUME CaseRows, EvidenceSound, NEW w \in Investigators, agents[w] # None,
         NEW r \in DOMAIN inquiries, agents[w].run = r, NEW result, ResultSound(result),
         inquiries' = [inquiries EXCEPT ![r] = Inquiry(@.seed, result)],
         UNCHANGED <<caseTasks, packs>>, Dead' = Dead,
         result.tasks \in {{}, Own(r)},
         Own(r) = {} \/ Agree(result.hypotheses, inquiries[r].hypotheses),
         NEW next, GoesOn(w, next),
         next = None \/ /\ next.result = result /\ next.run = r
                        /\ next.at \in {"evidence", "tasks"} /\ result.tasks = {} /\ Own(r) = {}
  PROVE  EvidenceSound'
<1>1. EvidenceTables'
  BY WriteTables DEF EvidenceSound
<1>2. agents'[w] = next /\ \A v \in Investigators \ {w} : agents'[v] = agents[v]
  BY GoingOn
<1>3. /\ DOMAIN inquiries' = DOMAIN inquiries /\ r # None
      /\ \A x \in DOMAIN inquiries :
           inquiries'[x] = IF x = r THEN Inquiry(inquiries[r].seed, result) ELSE inquiries[x]
  <2>1. DOMAIN inquiries \subseteq Nat
    BY NumberedRows DEF EvidenceSound, EvidenceTables
  <2>. QED
    BY <2>1, CaseAssumption
<1>4. \A x : Own(x)' = Own(x)
  BY DEF Own
<1>5. \A v \in Investigators \ {w} : agents[v] # None => agents[v].run # r
  BY <1>3 DEF EvidenceSound, EvidenceJobs
<1>6. \A v \in Investigators \ {w} : agents'[v] # None => JobCites(agents[v])'
  BY <1>2, <1>3, <1>4, <1>5, OthersCite
<1>7. ASSUME next # None PROVE JobCites(agents[w])'
  <2>1. Agree(result.hypotheses, result.hypotheses)'
    BY DEF Agree
  <2>2. inquiries'[r].tasks = {} /\ inquiries'[r].hypotheses = result.hypotheses
    BY <1>3, <1>7 DEF Inquiry
  <2>3. JobCites(next)'
    BY <1>3, <1>4, <1>7, <2>1, <2>2 DEF JobCites, Investigates
  <2>. QED
    BY ONLY <1>2, <2>3 DEF JobCites, Agree, Own, Live, Ids, ResultSound, AllStand
<1>8. \A v, u \in Investigators :
        agents'[v] # None /\ agents'[u] # None /\ agents'[v].run # None /\ agents'[v].run = agents'[u].run
        => v = u
  BY <1>2 DEF EvidenceSound, EvidenceJobs
<1>. QED
  BY <1>1, <1>2, <1>6, <1>7, <1>8 DEF EvidenceSound, EvidenceJobs

LEMMA NothingSound == ResultSound(NoResult) /\ NoResult.tasks = {}
<1>1. IsFiniteSet({})
  BY FS_EmptySet
<1>. QED
  BY <1>1, NoRows DEF ResultSound, NoResult, AllStand

\* A request that begins.
LEMMA BeginsSteady ==
  ASSUME NEW w, NEW job, job.result = NoResult, job.run = None,
         job.at \in {"link", "search", "pack", "review", "notify"},
         job.at = "link" => job.kind # "workflow",
         job.at = "pack" => job.found \subseteq CaseTraces /\ job.spans \subseteq {<<t>> : t \in job.found},
         job.at = "review" => job.about[1] = "entity"
  PROVE  Steady(w, job)
BY NothingSound DEF Steady, JobCites, Investigates

\* A request that has stored its run.
Stored(job) == job.at \in Investigates \/ (job.at = "link" /\ job.kind = "workflow")

\* One that goes on, without a task.
LEMMA GoesOnSteady ==
  ASSUME NEW w, agents[w] # None, JobCites(agents[w]), agents[w].at # "tasks", NEW job,
         job.run = agents[w].run, ResultSound(job.result), job.result.tasks = {},
         Stored(job) => Stored(agents[w]), job.at \notin {"tasks", "pack", "review"},
         job.at = "answer" => job.spans \subseteq {<<t>> : t \in job.result.cites}
  PROVE  Steady(w, job)
<1>1. agents[w].result.tasks = {} /\ (agents[w].run # None =>
        inquiries[agents[w].run].tasks = {} /\ {} = Own(agents[w].run))
  BY DEF JobCites
<1>2. agents[w].run \in DOMAIN inquiries \union {None}
      /\ (Stored(job) => agents[w].run # None)
  BY DEF JobCites, Stored
<1>3. PICK r, result, at : r = agents[w].run /\ result = job.result /\ at = job.at
  OBVIOUS
<1>4. JobCites(job)
  BY <1>1, <1>2, <1>3 DEF JobCites, Stored
<1>. QED
  BY <1>4 DEF Steady

SteadyTurn(w) == \E job : GoesOn(w, job) /\ (job = None \/ Steady(w, job))

LEMMA SteadyStarts ==
  ASSUME NEW w \in Investigators
  PROVE  /\ \A sources : ReportScreenshot(w, sources) => SteadyTurn(w)
         /\ \A issue, seed : StartWorkflow(w, issue, seed) => SteadyTurn(w)
         /\ \A seed : StartChat(w, seed) => SteadyTurn(w)
         /\ \A k : \A kind \in {"review", "notify"} : ReadEntity(w, k, kind) => SteadyTurn(w)
         /\ \A sources \in SUBSET CaseTraces : \A level : StartPack(w, sources, level) => SteadyTurn(w)
<1>0. ASSUME NEW at, NEW kind, NEW issue, NEW seed
      PROVE  LET job == Job(at, kind, issue, seed) IN
               /\ DOMAIN job = CaseFields /\ job.at = at /\ job.kind = kind
               /\ job.result = NoResult /\ job.run = None
  BY DEF Job, CaseFields
<1>1. ASSUME NEW sources, ReportScreenshot(w, sources) PROVE SteadyTurn(w)
  <2>1. PICK job : job = Job("link", "screenshot", Len(issues'), None)
    OBVIOUS
  <2>2. PICK next : \E links : next = [job EXCEPT !.links = links] /\ GoesOn(w, next)
    BY <1>1, <2>1 DEF ReportScreenshot
  <2>3. /\ next.result = NoResult /\ next.run = None /\ next.at = "link" /\ next.kind = "screenshot"
    BY <1>0, <2>1, <2>2 DEF CaseFields
  <2>4. Steady(w, next)
    BY <2>3, BeginsSteady
  <2>. QED
    BY <2>2, <2>4 DEF SteadyTurn
<1>2. ASSUME NEW kind, NEW issue, NEW seed PROVE Steady(w, Job("search", kind, issue, seed))
  <2>1. PICK job : job = Job("search", kind, issue, seed)
    OBVIOUS
  <2>2. job.result = NoResult /\ job.run = None /\ job.at = "search"
    BY <1>0, <2>1
  <2>. QED
    BY <2>1, <2>2, BeginsSteady
<1>3. \A issue, seed : StartWorkflow(w, issue, seed) => SteadyTurn(w)
  BY <1>2 DEF StartWorkflow, SteadyTurn
<1>4. \A seed : StartChat(w, seed) => SteadyTurn(w)
  BY <1>2 DEF StartChat, SteadyTurn
<1>5. ASSUME NEW k, NEW kind \in {"review", "notify"}, ReadEntity(w, k, kind) PROVE SteadyTurn(w)
  <2>1. PICK job : job = Job(kind, kind, affected[k].issue, None)
    OBVIOUS
  <2>2. PICK next : /\ next = [job EXCEPT !.found = affected[k].traces, !.about = <<"entity", k>>]
                    /\ GoesOn(w, next)
    BY <1>5, <2>1 DEF ReadEntity
  <2>3. /\ next.result = NoResult /\ next.run = None /\ next.at = kind /\ next.about = <<"entity", k>>
    BY <1>0, <2>1, <2>2 DEF CaseFields
  <2>4. Steady(w, next)
    BY <2>3, BeginsSteady
  <2>. QED
    BY <2>2, <2>4 DEF SteadyTurn
<1>6. ASSUME NEW sources \in SUBSET CaseTraces, NEW level, StartPack(w, sources, level)
      PROVE  SteadyTurn(w)
  <2>1. PICK job : job = Job("pack", "pack", None, None)
    OBVIOUS
  <2>2. PICK next : next = [job EXCEPT !.found = sources, !.about = level] /\ GoesOn(w, next)
    BY <1>6, <2>1 DEF StartPack
  <2>3. /\ next.result = NoResult /\ next.run = None /\ next.at = "pack"
        /\ next.found = sources /\ next.spans = {}
    BY <2>1, <2>2 DEF Job
  <2>4. Steady(w, next)
    BY <2>3, BeginsSteady
  <2>. QED
    BY <2>2, <2>4 DEF SteadyTurn
<1>. QED
  BY <1>1, <1>3, <1>4, <1>5, <1>6

LEMMA SteadySource ==
  ASSUME CaseRows, EvidenceSound, NEW w \in Investigators, NEW t \in CaseTraces, ReadSource(w, t)
  PROVE  SteadyTurn(w)
<1>0. PICK job, next : job = agents[w] /\ GoesOn(w, next) /\ ReadsOn(job, next, t)
  BY SourceRead
<1>1. /\ job = agents[w] /\ job # None /\ job.at = "pack" /\ t \in job.found
      /\ GoesOn(w, next) /\ next.at = "pack" /\ next.found = job.found /\ next.run = job.run
      /\ next.result = job.result /\ next.spans = job.spans \union SpansIn({t})
  BY <1>0 DEF ReadsOn
<1>2. JobCites(job)
  BY <1>1 DEF EvidenceSound, EvidenceJobs
<1>3. next.spans \subseteq {<<u>> : u \in next.found}
  <2>1. \A x \in SpansIn({t}) : x \in {<<u>> : u \in {t}}
    BY SpansFound DEF CaseSpans
  <2>2. SpansIn({t}) \subseteq {<<u>> : u \in job.found}
    BY <1>1, <2>1
  <2>. QED
    BY <1>1, <1>2, <2>2 DEF JobCites
<1>4. JobCites(next)
  <2>1. /\ ResultSound(job.result) /\ job.run \in DOMAIN inquiries \union {None}
        /\ job.result.tasks = {} /\ job.found \subseteq CaseTraces
        /\ job.run # None => inquiries[job.run].tasks = {} /\ job.result.tasks = Own(job.run)
    BY <1>1, <1>2 DEF JobCites
  <2>2. PICK run, result, found, spans :
          run = next.run /\ result = next.result /\ found = next.found /\ spans = next.spans
    OBVIOUS
  <2>. QED
    BY <1>1, <1>3, <2>1, <2>2 DEF JobCites, Investigates
<1>. QED
  BY <1>1, <1>4 DEF Steady, SteadyTurn

LEMMA SteadyGoesOn ==
  ASSUME CaseRows, EvidenceSound, NEW w \in Investigators,
         \/ \E found \in SUBSET CaseTraces : SearchCohort(w, found)
         \/ BuildReport(w) \/ PersistReport(w) \/ UpsertEntities(w) \/ OwnLinks(w) \/ AddLink(w)
         \/ \E e : ReadFirstEntity(w, e)
         \/ FinishLinks(w) /\ agents[w].kind # "workflow"
         \/ ReadEvidence(w) \/ NotifyEntity(w) \/ InvestigatorStops(w)
  PROVE  SteadyTurn(w)
<1>0. PICK job : job = agents[w]
  OBVIOUS
<1>1. ASSUME job # None
      PROVE  /\ DOMAIN job = CaseFields /\ IsJob(job) /\ JobCites(job) /\ ResultSound(job.result)
             /\ job.at # "tasks" => job.result.tasks = {}
  BY <1>0, <1>1 DEF CaseRows, IsJob, EvidenceSound, EvidenceJobs, JobCites
<1>2. ASSUME NEW at \in {"build", "upsert", "own links", "link", "first"}, NEW next, job # None, job.at # "tasks",
             next.at = at, next.run = job.run, next.result = job.result, next.kind = job.kind,
             at # "build" => job.at \in Investigates \/ job.at = "link", GoesOn(w, next),
             at \notin {"build", "link"} => job.at \in Investigates
      PROVE  SteadyTurn(w)
  <2>1. Steady(w, next)
    BY <1>0, <1>1, <1>2, GoesOnSteady DEF Investigates, Stored
  <2>. QED
    BY <1>2, <2>1 DEF SteadyTurn
<1>3. ASSUME NEW found \in SUBSET CaseTraces, SearchCohort(w, found) PROVE SteadyTurn(w)
  <2>1. PICK next : /\ next = [job EXCEPT !.at = "build", !.found = found \union (Rows \intersect {job.seed})]
                    /\ GoesOn(w, next)
    BY <1>0, <1>3 DEF SearchCohort
  <2>2. job # None /\ job.at = "search"
    BY <1>0, <1>3 DEF SearchCohort, WorksAt
  <2>3. next.at = "build" /\ next.run = job.run /\ next.result = job.result /\ next.kind = job.kind
    BY <1>1, <2>1, <2>2 DEF CaseFields
  <2>. QED
    BY <1>2, <2>1, <2>2, <2>3
<1>4. CASE BuildReport(w)
  <2>1. job # None /\ job.at = "build" /\ job.found \subseteq CaseTraces
    BY <1>0, <1>1, <1>4 DEF BuildReport, WorksAt, IsJob
  <2>2. PICK h : h = IF job.found = {} THEN <<>> ELSE <<[by |-> "cohort", traces |-> {}, spans |-> {}]>>
    OBVIOUS
  <2>3. PICK result : result = [NoResult EXCEPT !.cites = job.found, !.hypotheses = h]
    OBVIOUS
  <2>4. PICK next : /\ next = [job EXCEPT !.at = "run", !.entities = EntitiesIn(job.found), !.result = result]
                    /\ GoesOn(w, next)
    BY <1>0, <1>4, <2>2, <2>3 DEF BuildReport
  <2>5. /\ DOMAIN result = {"cites", "hypotheses", "tasks"}
        /\ result.cites = job.found /\ result.hypotheses = h /\ result.tasks = {}
    BY <2>3 DEF NoResult
  <2>6. Numbered(h) /\ \A k \in DOMAIN h : Stands(h[k], job.found) /\ Whole(h[k])
    <3>1. PICK x : x = [by |-> "cohort", traces |-> {}, spans |-> {}]
      OBVIOUS
    <3>2. Stands(x, job.found) /\ Whole(x)
      BY <3>1 DEF Stands, Whole, HypothesisFields
    <3>3. Numbered(<<x>>) /\ \A k \in DOMAIN <<x>> : <<x>>[k] = x
      BY OneLink
    <3>4. CASE job.found = {}
      BY <2>2, <3>4, NoRows
    <3>5. CASE job.found # {}
      BY <2>2, <3>1, <3>2, <3>3, <3>5
    <3>. QED
      BY <3>4, <3>5
  <2>7. ResultSound(result)
    BY <2>1, <2>5, <2>6, FS_EmptySet DEF ResultSound, AllStand
  <2>8. next.at = "run" /\ next.run = job.run /\ next.result = result
    BY <1>1, <2>1, <2>4 DEF CaseFields
  <2>9. Steady(w, next)
    BY <1>0, <1>1, <2>1, <2>5, <2>7, <2>8, GoesOnSteady DEF Investigates, Stored
  <2>. QED
    BY <2>4, <2>9 DEF SteadyTurn
<1>5. CASE PersistReport(w)
  <2>0. PICK at : at = IF job.issue = None THEN "link"
                       ELSE IF DOMAIN job.entities = {} THEN "own links" ELSE "first"
    OBVIOUS
  <2>5. PICK report : report = Len(reports')
    OBVIOUS
  <2>6. GoesOn(w, [job EXCEPT !.report = report, !.at = at])
    BY <1>0, <1>5, <2>0, <2>5, Zenon DEF PersistReport
  <2>1. at \in {"link", "own links", "first"} /\ GoesOn(w, [job EXCEPT !.report = report, !.at = at])
    BY <2>0, <2>6
  <2>2. job # None /\ job.at = "report"
    BY <1>0, <1>5 DEF PersistReport, WorksAt
  <2>3. PICK next : next = [job EXCEPT !.report = report, !.at = at]
    OBVIOUS
  <2>4. next.at = at /\ next.run = job.run /\ next.result = job.result /\ next.kind = job.kind
    BY <1>1, <2>2, <2>3 DEF CaseFields
  <2>. QED
    BY <1>2, <2>1, <2>2, <2>3, <2>4 DEF Investigates
<1>6. ASSUME NEW e, ReadFirstEntity(w, e) PROVE SteadyTurn(w)
  <2>1. PICK first : GoesOn(w, [job EXCEPT !.at = "upsert", !.first = first])
    BY <1>0, <1>6 DEF ReadFirstEntity
  <2>2. job # None /\ job.at = "first"
    BY <1>0, <1>6 DEF ReadFirstEntity, WorksAt
  <2>3. PICK next : next = [job EXCEPT !.at = "upsert", !.first = first]
    OBVIOUS
  <2>4. next.at = "upsert" /\ next.run = job.run /\ next.result = job.result /\ next.kind = job.kind
    BY <1>1, <2>2, <2>3 DEF CaseFields
  <2>. QED
    BY <1>2, <2>1, <2>2, <2>3, <2>4 DEF Investigates
<1>7. CASE UpsertEntities(w)
  <2>1. PICK links : GoesOn(w, [job EXCEPT !.at = "own links", !.first = None, !.links = links])
    BY <1>0, <1>7 DEF UpsertEntities
  <2>2. job # None /\ job.at = "upsert"
    BY <1>0, <1>7 DEF UpsertEntities, WorksAt
  <2>3. PICK next : next = [job EXCEPT !.at = "own links", !.first = None, !.links = links]
    OBVIOUS
  <2>4. next.at = "own links" /\ next.run = job.run /\ next.result = job.result /\ next.kind = job.kind
    BY <1>1, <2>2, <2>3 DEF CaseFields
  <2>. QED
    BY <1>2, <2>1, <2>2, <2>3, <2>4 DEF Investigates
<1>8. CASE OwnLinks(w)
  <2>1. PICK links : GoesOn(w, [job EXCEPT !.at = "link", !.links = links])
    BY <1>0, <1>8 DEF OwnLinks
  <2>2. job # None /\ job.at = "own links"
    BY <1>0, <1>8 DEF OwnLinks, WorksAt
  <2>3. PICK next : next = [job EXCEPT !.at = "link", !.links = links]
    OBVIOUS
  <2>4. next.at = "link" /\ next.run = job.run /\ next.result = job.result /\ next.kind = job.kind
    BY <1>1, <2>2, <2>3 DEF CaseFields
  <2>. QED
    BY <1>2, <2>1, <2>2, <2>3, <2>4 DEF Investigates
<1>9. CASE AddLink(w)
  <2>1. GoesOn(w, [job EXCEPT !.links = Tail(job.links)])
    BY <1>0, <1>9 DEF AddLink
  <2>2. job # None /\ job.at = "link"
    BY <1>0, <1>9 DEF AddLink, WorksAt
  <2>3. PICK next : next = [job EXCEPT !.links = Tail(job.links)]
    OBVIOUS
  <2>4. next.at = "link" /\ next.run = job.run /\ next.result = job.result /\ next.kind = job.kind
    BY <1>1, <2>2, <2>3 DEF CaseFields
  <2>. QED
    BY <1>2, <2>1, <2>2, <2>3, <2>4 DEF Investigates
<1>10. CASE ReadEvidence(w)
  <2>1. GoesOn(w, [job EXCEPT !.at = "answer", !.spans = SpansIn(job.result.cites)])
    BY <1>0, <1>10 DEF ReadEvidence
  <2>2. job # None /\ job.at = "evidence"
    BY <1>0, <1>10 DEF ReadEvidence, WorksAt
  <2>3. PICK next : next = [job EXCEPT !.at = "answer", !.spans = SpansIn(job.result.cites)]
    OBVIOUS
  <2>4. /\ next.at = "answer" /\ next.run = job.run /\ next.result = job.result
        /\ next.spans = SpansIn(job.result.cites)
    BY <1>1, <2>2, <2>3 DEF CaseFields
  <2>5. next.spans \subseteq {<<t>> : t \in next.result.cites}
    <3>1. PICK cites : cites = job.result.cites
      OBVIOUS
    <3>2. SpansIn(cites) \subseteq {<<t>> : t \in cites}
      BY <1>1, <2>2, <3>1, SpansFound DEF ResultSound, CaseSpans
    <3>. QED
      BY <2>4, <3>1, <3>2
  <2>6. Steady(w, next)
    BY <1>0, <1>1, <2>2, <2>4, <2>5, GoesOnSteady DEF Investigates, Stored
  <2>. QED
    BY <2>1, <2>3, <2>6 DEF SteadyTurn
<1>11. CASE GoesOn(w, None)
  BY <1>11 DEF SteadyTurn
<1>12. FinishLinks(w) /\ agents[w].kind # "workflow" => GoesOn(w, None)
  BY DEF FinishLinks
<1>13. NotifyEntity(w) \/ InvestigatorStops(w) => GoesOn(w, None)
  BY DEF NotifyEntity, InvestigatorStops
<1>. QED
  BY <1>3, <1>4, <1>5, <1>6, <1>7, <1>8, <1>9, <1>10, <1>11, <1>12, <1>13

LEMMA BothJoined ==
  ASSUME NEW s, Numbered(s), NEW t, Numbered(t)
  PROVE  \E both : /\ both = s \o t /\ Numbered(both)
                    /\ \A n \in DOMAIN both : (\E k \in DOMAIN s : both[n] = s[k])
                                               \/ (\E k \in DOMAIN t : both[n] = t[k])
<1>1. PICK S, T : s \in Seq(S) /\ t \in Seq(T)
  BY DEF Numbered
<1>2. s \in Seq(S \union T) /\ t \in Seq(S \union T)
  BY <1>1, SeqMonotonic
<1>3. s \o t \in Seq(S \union T)
  BY <1>2, ConcatProperties
<1>4. ASSUME NEW n \in DOMAIN (s \o t)
      PROVE  (\E k \in DOMAIN s : (s \o t)[n] = s[k]) \/ (\E k \in DOMAIN t : (s \o t)[n] = t[k])
  <2>1. Len(s \o t) = Len(s) + Len(t) /\ Len(s) \in Nat /\ Len(t) \in Nat
    BY <1>2, ConcatProperties, LenProperties
  <2>2. n \in 1 .. (Len(s) + Len(t)) /\ DOMAIN s = 1 .. Len(s) /\ DOMAIN t = 1 .. Len(t)
    BY <1>2, <1>3, <2>1, LenProperties
  <2>3. CASE n <= Len(s)
    BY <1>2, <2>2, <2>3, ConcatProperties
  <2>4. CASE n > Len(s)
    <3>1. n - Len(s) \in DOMAIN t /\ (s \o t)[n] = t[n - Len(s)]
      BY <1>2, <2>1, <2>2, <2>4, ConcatProperties
    <3>. QED
      BY <3>1
  <2>. QED
    BY <2>2, <2>3, <2>4
<1>. QED
  BY <1>3, <1>4, Zenon DEF Numbered

\* What is kept of an answer stands on evidence the run has.
LEMMA GroundedSound ==
  ASSUME NEW answer \in Answers, NEW traces, NEW spans, spans \subseteq {<<t>> : t \in traces}
  PROVE  LET kept == Grounded(answer, traces, spans) IN
           /\ Numbered(kept)
           /\ \A k \in DOMAIN kept : Stands(kept[k], traces) /\ Whole(kept[k])
<1>. DEFINE size == Len(answer)
            known == [k \in DOMAIN answer |->
                        [answer[k] EXCEPT !.traces = @ \intersect traces, !.spans = @ \intersect spans]]
            kept == {k \in DOMAIN answer : CitesBoth(known[k])}
            at(n) == CHOOSE k \in kept : Cardinality({j \in kept : j <= k}) = n
            all == 1 .. Cardinality(kept)
            g == [n \in all |-> known[at(n)]]
<1>1. Numbered(answer) /\ \A k \in DOMAIN answer : DOMAIN answer[k] = HypothesisFields
  BY CaseAssumption DEF Numbered, HypothesisFields
<1>2. size \in Nat /\ DOMAIN answer = 1 .. size
  BY <1>1, NumberedRows
<1>3. ASSUME NEW k \in kept PROVE Stands(known[k], traces) /\ Whole(known[k])
  <2>1. PICK h, x : h = answer[k] /\ x = known[k]
    OBVIOUS
  <2>2. x = [h EXCEPT !.traces = h.traces \intersect traces, !.spans = h.spans \intersect spans]
        /\ DOMAIN h = HypothesisFields /\ CitesBoth(x)
    BY <1>1, <2>1
  <2>3. /\ DOMAIN x = HypothesisFields /\ x.by = h.by
        /\ x.traces = h.traces \intersect traces /\ x.spans = h.spans \intersect spans
    BY <2>2 DEF HypothesisFields
  <2>4. Stands(x, traces)
    BY <2>3 DEF Stands
  <2>5. Whole(x)
    BY <2>2 DEF CitesBoth, Whole
  <2>. QED
    BY <2>1, <2>4, <2>5
<1>4. /\ Cardinality(kept) \in Nat
      /\ \A n \in all : \E k \in kept : Cardinality({j \in kept : j <= k}) = n
  <2>1. PICK S : S = kept
    OBVIOUS
  <2>2. S \in SUBSET (1 .. size)
    BY <1>2, <2>1
  <2>3. /\ Cardinality(S) \in Nat
        /\ \A n \in 1 .. Cardinality(S) : \E k \in S : Cardinality({j \in S : j <= k}) = n
    BY ONLY <1>2, <2>2, Ranks
  <2>. QED
    BY <2>1, <2>3
<1>. HIDE DEF kept, known
<1>5. \A n \in all : at(n) \in kept
  BY <1>4
<1>. HIDE DEF at
<1>6. g \in [all -> {known[k] : k \in kept}]
  BY <1>5
<1>7. g \in Seq({known[k] : k \in kept})
  <2>1. PICK n, T, f : n = Cardinality(kept) /\ T = {known[k] : k \in kept} /\ f = g
    OBVIOUS
  <2>2. n \in Nat /\ f \in [1 .. n -> T]
    BY <1>4, <1>6, <2>1
  <2>3. f \in Seq(T)
    BY <2>2, SeqDef
  <2>. QED
    BY <2>1, <2>3
<1>8. \A n \in DOMAIN g : Stands(g[n], traces) /\ Whole(g[n])
  BY <1>3, <1>5
<1>9. Numbered(g)
  BY <1>7 DEF Numbered
<1>10. Grounded(answer, traces, spans) = g
  BY DEF Grounded, kept, known, at
<1>. QED
  BY <1>8, <1>9, <1>10

LEMMA WrittenLinks ==
  ASSUME CaseRows, EvidenceSound, NEW w \in Investigators, FinishLinks(w), agents[w].kind = "workflow"
  PROVE  EvidenceSound'
<1>1. PICK job : job = agents[w]
  OBVIOUS
<1>2. job # None /\ job.at = "link" /\ IsJob(job) /\ JobCites(job) /\ DOMAIN job = CaseFields
  BY <1>1 DEF FinishLinks, WorksAt, CaseRows, IsJob, EvidenceSound, EvidenceJobs
<1>3. PICK r : r = job.run
  OBVIOUS
<1>4. /\ r \in DOMAIN inquiries /\ job.result.tasks = {} /\ Own(r) = {} /\ ResultSound(job.result)
  BY <1>1, <1>2, <1>3 DEF JobCites
<1>5. PICK next : next = [job EXCEPT !.at = "evidence"]
  OBVIOUS
<1>6. /\ inquiries' = [inquiries EXCEPT ![r] = Inquiry(@.seed, job.result)]
      /\ GoesOn(w, next) /\ UNCHANGED <<cases, caseTasks, packs>>
  BY <1>1, <1>3, <1>5 DEF FinishLinks, WriteResult
<1>7. next.result = job.result /\ next.run = r /\ next.at = "evidence"
  BY <1>2, <1>3, <1>5 DEF CaseFields
<1>8. Dead' = Dead
  BY <1>6 DEF Dead
<1>9. PICK result : result = job.result
  OBVIOUS
<1>. QED
  BY <1>1, <1>2, <1>3, <1>4, <1>6, <1>7, <1>8, <1>9, Writing

LEMMA WrittenAnswer ==
  ASSUME CaseRows, EvidenceSound, NEW w \in Investigators, NEW answer \in Answers,
         AnswerInvestigation(w, answer)
  PROVE  EvidenceSound'
<1>1. PICK job : job = agents[w]
  OBVIOUS
<1>2. job # None /\ job.at = "answer" /\ IsJob(job) /\ JobCites(job) /\ DOMAIN job = CaseFields
  BY <1>1 DEF AnswerInvestigation, WorksAt, CaseRows, IsJob, EvidenceSound, EvidenceJobs
<1>3. PICK r, old : r = job.run /\ old = job.result
  OBVIOUS
<1>4. /\ r \in DOMAIN inquiries /\ old.tasks = {} /\ Own(r) = {} /\ ResultSound(old)
      /\ job.spans \subseteq {<<t>> : t \in old.cites}
  BY <1>1, <1>2, <1>3 DEF JobCites, Investigates
<1>5. PICK kept : kept = Grounded(answer, old.cites, job.spans)
  OBVIOUS
<1>6. PICK hs : hs = Assisted(old.hypotheses, kept)
  OBVIOUS
<1>7. PICK next : next = [job EXCEPT !.at = "tasks", !.result.hypotheses = hs]
  OBVIOUS
<1>8. WriteResult(next) /\ GoesOn(w, next) /\ UNCHANGED <<cases, caseTasks, packs>>
  BY <1>1, <1>3, <1>5, <1>6, <1>7 DEF AnswerInvestigation
<1>9. next.run = r /\ next.at = "tasks" /\ next.result = [old EXCEPT !.hypotheses = hs]
  BY <1>2, <1>3, <1>7 DEF CaseFields
<1>10. PICK result : result = next.result
  OBVIOUS
<1>11. /\ DOMAIN result = {"cites", "hypotheses", "tasks"}
       /\ result.cites = old.cites /\ result.hypotheses = hs /\ result.tasks = {}
  BY <1>4, <1>9, <1>10 DEF ResultSound
<1>12. Numbered(kept) /\ \A k \in DOMAIN kept : Stands(kept[k], old.cites) /\ Whole(kept[k])
  BY <1>4, <1>5, GroundedSound
<1>13. Numbered(hs) /\ \A k \in DOMAIN hs : Stands(hs[k], old.cites) /\ Whole(hs[k])
  <2>1. PICK before : before = old.hypotheses
    OBVIOUS
  <2>2. Numbered(before) /\ \A k \in DOMAIN before : Stands(before[k], old.cites) /\ Whole(before[k])
    BY <1>4, <2>1 DEF ResultSound, AllStand
  <2>3. CASE hs = kept
    BY <1>12, <2>3
  <2>4. CASE hs = before \o kept
    <3>1. PICK both :
            /\ both = before \o kept /\ Numbered(both)
            /\ \A n \in DOMAIN both : (\E k \in DOMAIN before : both[n] = before[k])
                                       \/ (\E k \in DOMAIN kept : both[n] = kept[k])
      <4>1. Numbered(before) /\ Numbered(kept)
        BY <1>12, <2>2
      <4>. QED
        BY ONLY <4>1, BothJoined
    <3>. QED
      BY <1>12, <2>2, <2>4, <3>1
  <2>. QED
    BY <1>6, <2>1, <2>3, <2>4 DEF Assisted
<1>14. ResultSound(result)
  BY <1>4, <1>11, <1>13, FS_EmptySet DEF ResultSound, AllStand
<1>15. inquiries' = [inquiries EXCEPT ![r] = Inquiry(@.seed, result)]
  BY <1>8, <1>9, <1>10 DEF WriteResult
<1>16. Dead' = Dead
  BY <1>8 DEF Dead
<1>17. agents[w] # None /\ agents[w].run = r /\ r \in DOMAIN inquiries
       /\ UNCHANGED <<caseTasks, packs>> /\ GoesOn(w, next)
  BY <1>1, <1>2, <1>3, <1>4, <1>8
<1>18. result.tasks \in {{}, Own(r)} /\ Own(r) = {}
  BY <1>4, <1>11
<1>19. /\ next.result = result /\ next.run = r
       /\ next.at \in {"evidence", "tasks"} /\ result.tasks = {} /\ Own(r) = {}
  BY <1>4, <1>9, <1>10, <1>11
<1>. QED
  BY ONLY <1>14, <1>15, <1>16, <1>17, <1>18, <1>19, Writing, CaseRows, EvidenceSound

LEMMA WrittenTasks ==
  ASSUME CaseRows, EvidenceSound, NEW w \in Investigators, ListTasks(w)
  PROVE  EvidenceSound'
<1>1. PICK job : job = agents[w]
  OBVIOUS
<1>2. job # None /\ job.at = "tasks" /\ JobCites(job)
  BY <1>1 DEF ListTasks, WorksAt, EvidenceSound, EvidenceJobs
<1>3. PICK r, result : r = job.run /\ result = job.result
  OBVIOUS
<1>4. /\ r \in DOMAIN inquiries /\ result.tasks = Own(r) /\ ResultSound(result)
      /\ Agree(result.hypotheses, inquiries[r].hypotheses)
  BY <1>2, <1>3 DEF JobCites, Investigates
<1>5. /\ inquiries' = [inquiries EXCEPT ![r] = Inquiry(@.seed, result)]
      /\ GoesOn(w, None) /\ UNCHANGED <<cases, caseTasks, packs>>
  BY <1>1, <1>3 DEF ListTasks, WriteResult
<1>6. Dead' = Dead
  BY <1>5 DEF Dead
<1>. QED
  BY <1>1, <1>2, <1>3, <1>4, <1>5, <1>6, Writing

LEMMA PackWritten ==
  ASSUME CaseRows, EvidenceSound, NEW w \in Investigators, NEW summary, NEW disabled,
         WritePack(w, summary, disabled)
  PROVE  EvidenceSound'
<1>1. PICK job : job = agents[w]
  OBVIOUS
<1>2. job # None /\ job.at = "pack" /\ JobCites(job)
  BY <1>1 DEF WritePack, WorksAt, EvidenceSound, EvidenceJobs
<1>3. PICK ids, accounts, cites :
        /\ ids = job.found \union job.spans
        /\ accounts = IF disabled THEN {} ELSE UNION Range(job.entities)
        /\ cites = IF SummaryValid(summary, ids) /\ ~disabled THEN summary ELSE ids
  OBVIOUS
<1>4. PICK p : p = [level |-> job.about, sources |-> job.found, accounts |-> accounts, cites |-> cites]
  OBVIOUS
<1>5. packs' = Append(packs, p) /\ GoesOn(w, None) /\ UNCHANGED <<cases, inquiries, caseTasks>>
  BY <1>1, <1>3, <1>4 DEF WritePack, findings
<1>6. PackSound(p)
  <2>1. p.sources = job.found /\ p.cites = cites /\ cites \subseteq ids
    BY <1>3, <1>4 DEF SummaryValid
  <2>. QED
    BY <1>2, <1>3, <2>1 DEF PackSound, JobCites, CaseSpans
<1>7. \A k \in DOMAIN packs' : PackSound(packs'[k])
  <2>1. Numbered(packs)
    BY DEF CaseRows
  <2>2. \A k \in DOMAIN packs' : (k \in DOMAIN packs /\ packs'[k] = packs[k]) \/ packs'[k] = p
    BY <1>5, <2>1, NumberedRows
  <2>. QED
    BY <1>6, <2>2 DEF EvidenceSound, EvidenceTables
<1>8. Dead \subseteq Dead'
  BY <1>5 DEF Dead
<1>. QED
  BY <1>5, <1>7, <1>8, Steadily

\* The tables after a review task is made.
LEMMA TaskAdded ==
  ASSUME EvidenceTables, Dead' = Dead, UNCHANGED <<inquiries, packs>>, NEW task, TaskSound(task),
         caseTasks' = Append(caseTasks, task),
         task.about[1] = "run" => inquiries[task.about[2]].tasks = {}
  PROVE  /\ EvidenceTables'
         /\ \A x : Own(x)' = IF task.about[1] = "run" /\ task.about[2] = x
                             THEN Own(x) \union {Len(caseTasks')} ELSE Own(x)
<1>1. PICK n : n = Len(caseTasks')
  OBVIOUS
<1>2. /\ Numbered(caseTasks)' /\ DOMAIN caseTasks' = DOMAIN caseTasks \union {n}
      /\ \A k \in DOMAIN caseTasks : caseTasks'[k] = caseTasks[k]
      /\ caseTasks'[n] = task
  <2>1. Numbered(caseTasks)
    BY DEF EvidenceTables
  <2>. QED
    BY <1>1, <2>1, NumberedRows
<1>3. \A x : Own(x)' = IF task.about[1] = "run" /\ task.about[2] = x THEN Own(x) \union {n} ELSE Own(x)
  <2>1. n \notin DOMAIN caseTasks
    <3>1. Numbered(caseTasks)
      BY DEF EvidenceTables
    <3>. QED
      BY <1>1, <3>1, NumberedRows
  <2>2. ASSUME NEW x, NEW k PROVE k \in Own(x)' <=> k \in Own(x) \/ (k = n /\ task.about[1] = "run" /\ task.about[2] = x)
    BY <1>2, <2>1 DEF Own
  <2>3. ASSUME NEW x, task.about[1] = "run", task.about[2] = x PROVE Own(x)' = Own(x) \union {n}
    BY <2>2, <2>3
  <2>4. ASSUME NEW x, ~(task.about[1] = "run" /\ task.about[2] = x) PROVE Own(x)' = Own(x)
    <3>1. \A k : k \in Own(x)' <=> k \in Own(x)
      BY <2>2, <2>4
    <3>. QED
      BY <3>1
  <2>. QED
    BY <2>3, <2>4
<1>4. ASSUME NEW r \in DOMAIN inquiries
      PROVE  InquirySound(inquiries[r])' /\ inquiries[r].tasks \in {{}, Own(r)'}
  <2>1. PICK q : q = inquiries[r]
    OBVIOUS
  <2>2. InquirySound(q)'
    BY <2>1, InquiryStays DEF EvidenceTables
  <2>3. InquirySound(inquiries[r])'
    BY <2>1, <2>2 DEF InquirySound
  <2>. QED
    BY <1>3, <2>3 DEF EvidenceTables
<1>5. ASSUME NEW k \in DOMAIN caseTasks' PROVE TaskSound(caseTasks[k])'
  <2>1. PICK other : other = caseTasks'[k]
    OBVIOUS
  <2>2. TaskSound(other)
    BY <1>2, <2>1 DEF EvidenceTables
  <2>3. TaskSound(other)'
    BY <2>2, TaskStays
  <2>. QED
    BY <2>1, <2>3 DEF TaskSound, Live, Ids
<1>6. EvidenceTables'
  <2>1. \A p \in DOMAIN packs' : PackSound(packs[p])'
    BY PacksStay DEF EvidenceTables
  <2>. QED
    BY <1>2, <1>4, <1>5, <2>1 DEF EvidenceTables
<1>. QED
  BY <1>1, <1>3, <1>6

LEMMA EntityReviewed ==
  ASSUME CaseRows, EvidenceSound, NEW w \in Investigators, ReviewEntity(w)
  PROVE  EvidenceSound'
<1>1. PICK job, task : job = agents[w] /\ task = [about |-> job.about, evidence |-> job.found]
  OBVIOUS
<1>2. job # None /\ job.at = "review" /\ JobCites(job)
  BY <1>1 DEF ReviewEntity, WorksAt, EvidenceSound, EvidenceJobs
<1>3. /\ caseTasks' = Append(caseTasks, task) /\ GoesOn(w, None)
      /\ UNCHANGED <<cases, inquiries, packs>>
  BY <1>1 DEF ReviewEntity, findings
<1>4. TaskSound(task) /\ task.about[1] # "run"
  BY <1>1, <1>2 DEF TaskSound, JobCites
<1>5. Dead' = Dead
  BY <1>3 DEF Dead
<1>6. EvidenceTables' /\ \A x : Own(x)' = Own(x)
  BY <1>3, <1>4, <1>5, TaskAdded DEF EvidenceSound
<1>7. agents'[w] = None /\ \A v \in Investigators \ {w} : agents'[v] = agents[v]
  BY <1>3, GoingOn
<1>8. \A v \in Investigators \ {w} : agents'[v] # None => JobCites(agents[v])'
  <2>1. PICK r : r \notin DOMAIN inquiries \union {None}
    <3>1. PICK r : r = Len(inquiries) + 1
      OBVIOUS
    <3>2. Len(inquiries) \in Nat /\ DOMAIN inquiries = 1 .. Len(inquiries)
      BY NumberedRows DEF EvidenceSound, EvidenceTables
    <3>. QED
      BY <3>1, <3>2, CaseAssumption
  <2>2. \A v \in Investigators : agents[v] # None => agents[v].run # r
    BY <2>1 DEF EvidenceSound, EvidenceJobs, JobCites
  <2>. QED
    BY <1>3, <1>5, <1>6, <1>7, <2>2, OthersCite
<1>. QED
  BY <1>6, <1>7, <1>8 DEF EvidenceSound, EvidenceJobs

LEMMA CaseTaskAdded ==
  ASSUME CaseRows, EvidenceSound, NEW w \in Investigators, AddCaseTask(w)
  PROVE  EvidenceSound'
<1>1. PICK job : job = agents[w]
  OBVIOUS
<1>2. job # None /\ job.at = "tasks" /\ JobCites(job) /\ DOMAIN job = CaseFields
  BY <1>1 DEF AddCaseTask, WorksAt, EvidenceSound, EvidenceJobs, CaseRows, IsJob
<1>3. PICK r, old, hs, n : /\ r = job.run /\ old = job.result /\ hs = old.hypotheses
                           /\ n = Cardinality(old.tasks) + 1
  OBVIOUS
<1>4. /\ r \in DOMAIN inquiries /\ r # None /\ ResultSound(old)
      /\ inquiries[r].tasks = {} /\ old.tasks = Own(r) /\ Agree(hs, inquiries[r].hypotheses)
  BY <1>2, <1>3 DEF JobCites, Investigates
<1>5. PICK m, task, next :
        /\ m = Len(caseTasks')
        /\ task = [about |-> <<"run", r, n>>, evidence |-> TaskEvidence(hs[n])]
        /\ next = [job EXCEPT !.result.tasks = old.tasks \union {m}]
  OBVIOUS
<1>6. /\ n <= Len(hs) /\ caseTasks' = Append(caseTasks, task) /\ GoesOn(w, next)
      /\ UNCHANGED <<cases, inquiries, packs>>
  BY <1>1, <1>3, <1>5 DEF AddCaseTask, findings
<1>7. n \in DOMAIN hs
  <2>1. Numbered(hs) /\ IsFiniteSet(old.tasks)
    BY <1>3, <1>4 DEF ResultSound, AllStand
  <2>2. Cardinality(old.tasks) \in Nat
    BY <2>1, FS_CardinalityType
  <2>. QED
    BY <1>3, <1>6, <2>1, <2>2, NumberedRows
<1>8. TaskSound(task) /\ task.about[1] = "run" /\ task.about[2] = r
  <2>1. PICK there : there = inquiries[r].hypotheses
    OBVIOUS
  <2>2. n \in DOMAIN there /\ Live(Ids(hs[n])) = Live(Ids(there[n]))
    BY <1>4, <1>7, <2>1 DEF Agree
  <2>3. /\ DOMAIN task = {"about", "evidence"}
        /\ task.about[1] = "run" /\ task.about[2] = r /\ task.about[3] = n
        /\ task.evidence = Ids(hs[n])
    BY <1>5 DEF TaskEvidence, Ids
  <2>. QED
    BY <1>4, <2>1, <2>2, <2>3 DEF TaskSound
<1>9. Dead' = Dead
  BY <1>6 DEF Dead
<1>10. EvidenceTables' /\ Own(r)' = Own(r) \union {m} /\ \A x : x # r => Own(x)' = Own(x)
  BY <1>4, <1>5, <1>6, <1>8, <1>9, TaskAdded DEF EvidenceSound
<1>11. agents'[w] = next /\ \A v \in Investigators \ {w} : agents'[v] = agents[v]
  BY <1>6, GoingOn
<1>12. \A v \in Investigators \ {w} : agents[v] # None => agents[v].run # r
  BY <1>1, <1>2, <1>3, <1>4 DEF EvidenceSound, EvidenceJobs
<1>13. \A v \in Investigators \ {w} : agents'[v] # None => JobCites(agents[v])'
  BY <1>6, <1>9, <1>10, <1>11, <1>12, OthersCite
<1>14. JobCites(agents[w])'
  <2>1. next.run = r /\ next.at = "tasks" /\ next.result = [old EXCEPT !.tasks = old.tasks \union {m}]
    BY <1>2, <1>3, <1>5 DEF CaseFields
  <2>2. PICK result : result = next.result
    OBVIOUS
  <2>3. /\ DOMAIN result = {"cites", "hypotheses", "tasks"}
        /\ result.cites = old.cites /\ result.hypotheses = hs /\ result.tasks = old.tasks \union {m}
    BY <1>3, <1>4, <2>1, <2>2 DEF ResultSound
  <2>4. IsFiniteSet(old.tasks \union {m})
    BY <1>4, FS_AddElement DEF ResultSound
  <2>5. ResultSound(result)
    BY <1>3, <1>4, <2>3, <2>4 DEF ResultSound
  <2>6. Agree(hs, inquiries[r].hypotheses)'
    <3>1. PICK there : there = inquiries[r].hypotheses
      OBVIOUS
    <3>2. Agree(hs, there)'
      BY <1>4, <1>9, <3>1, AgreeStay
    <3>. QED
      BY <1>6, <3>1, <3>2 DEF Agree, Ids, Live
  <2>7. JobCites(next)'
    <3>1. Own(r)' = result.tasks
      BY <1>4, <1>10, <2>3
    <3>2. inquiries' = inquiries /\ r \in DOMAIN inquiries' /\ inquiries'[r].tasks = {}
      BY <1>4, <1>6
    <3>. QED
      BY <1>4, <2>1, <2>2, <2>3, <2>5, <2>6, <3>1, <3>2 DEF JobCites
  <2>. QED
    BY ONLY <1>11, <2>7 DEF JobCites, Agree, Own, Live, Ids, ResultSound, AllStand
<1>15. \A v, u \in Investigators :
         agents'[v] # None /\ agents'[u] # None /\ agents'[v].run # None /\ agents'[v].run = agents'[u].run
         => v = u
  <2>1. next.run = r
    BY <1>2, <1>3, <1>5 DEF CaseFields
  <2>. QED
    BY <1>1, <1>2, <1>3, <1>11, <1>12, <2>1 DEF EvidenceSound, EvidenceJobs
<1>. QED
  BY <1>10, <1>11, <1>13, <1>14, <1>15 DEF EvidenceSound, EvidenceJobs

LEMMA RunInserted ==
  ASSUME CaseRows, EvidenceSound, NEW w \in Investigators, InsertRun(w)
  PROVE  EvidenceSound'
<1>1. PICK job : job = agents[w]
  OBVIOUS
<1>2. job # None /\ job.at = "run" /\ JobCites(job) /\ DOMAIN job = CaseFields
  BY <1>1 DEF InsertRun, WorksAt, EvidenceSound, EvidenceJobs, CaseRows, IsJob
<1>3. PICK n, result, q, next :
        /\ n = Len(inquiries) + 1 /\ result = job.result /\ q = Inquiry(job.seed, result)
        /\ next = [job EXCEPT !.at = "report", !.run = n]
  OBVIOUS
<1>4. Numbered(inquiries)
  BY DEF EvidenceSound, EvidenceTables
<1>5. /\ inquiries' = Append(inquiries, q) /\ UNCHANGED <<cases, caseTasks, packs>>
      /\ Len(inquiries') = n
  BY <1>1, <1>3, <1>4, NumberedRows DEF InsertRun
<1>6. /\ n \in Nat /\ n # None /\ n \notin DOMAIN inquiries
      /\ Numbered(inquiries)' /\ DOMAIN inquiries' = DOMAIN inquiries \union {n}
      /\ \A r \in DOMAIN inquiries : inquiries'[r] = inquiries[r]
      /\ inquiries'[n] = q
  BY <1>3, <1>4, <1>5, NumberedRows, CaseAssumption
<1>7. GoesOn(w, next)
  BY <1>1, <1>3, <1>5 DEF InsertRun
<1>8. Dead' = Dead
  BY <1>5 DEF Dead
<1>9. /\ DOMAIN q = {"seed", "cites", "hypotheses", "tasks"}
      /\ q.cites = result.cites /\ q.hypotheses = result.hypotheses /\ q.tasks = {}
      /\ ResultSound(result) /\ result.tasks = {}
  BY <1>2, <1>3 DEF Inquiry, JobCites
<1>10. InquirySound(q)
  BY <1>9, ResultStored
<1>11. \A x : Own(x)' = Own(x)
  BY <1>5 DEF Own
<1>12. Own(n) = {}
  BY <1>6 DEF Own, EvidenceSound, EvidenceTables, TaskSound
<1>13. ASSUME NEW r \in DOMAIN inquiries' PROVE InquirySound(inquiries[r])' /\ inquiries'[r].tasks \in {{}, Own(r)}
  <2>1. PICK other : other = inquiries'[r]
    OBVIOUS
  <2>2. InquirySound(other) /\ other.tasks \in {{}, Own(r)}
    BY <1>6, <1>9, <1>10, <2>1 DEF EvidenceSound, EvidenceTables
  <2>3. InquirySound(other)'
    BY <1>8, <2>2, InquiryStays
  <2>. QED
    BY <2>1, <2>2, <2>3 DEF InquirySound
<1>14. ASSUME NEW k \in DOMAIN caseTasks PROVE TaskSound(caseTasks[k])'
  <2>1. PICK task : task = caseTasks[k]
    OBVIOUS
  <2>2. TaskSound(task) /\ task = caseTasks'[k]
    BY <1>5, <2>1 DEF EvidenceSound, EvidenceTables
  <2>3. TaskSound(task)'
    BY <1>6, <1>8, <2>2, TaskStays
  <2>. QED
    BY ONLY <2>2, <2>3 DEF TaskSound, Live, Ids
<1>15. EvidenceTables'
  <2>1. \A p \in DOMAIN packs' : PackSound(packs[p])'
    BY <1>5, <1>8, PacksStay DEF EvidenceSound, EvidenceTables
  <2>. QED
    BY <1>5, <1>6, <1>11, <1>13, <1>14, <2>1 DEF EvidenceSound, EvidenceTables
<1>16. agents'[w] = next /\ \A v \in Investigators \ {w} : agents'[v] = agents[v]
  BY <1>7, GoingOn
<1>17. \A v \in Investigators \ {w} : agents[v] # None => agents[v].run # n
  BY <1>6 DEF EvidenceSound, EvidenceJobs, JobCites
<1>18. \A v \in Investigators \ {w} : agents'[v] # None => JobCites(agents[v])'
  BY <1>6, <1>8, <1>11, <1>16, <1>17, OthersCite
<1>19. next.at = "report" /\ next.run = n /\ next.result = result
  BY <1>2, <1>3 DEF CaseFields
<1>20. JobCites(agents[w])'
  <2>1. JobCites(next)'
    BY <1>6, <1>9, <1>11, <1>12, <1>19 DEF JobCites, Investigates
  <2>. QED
    BY ONLY <1>16, <2>1 DEF JobCites, Agree, Own, Live, Ids, ResultSound, AllStand
<1>21. \A v, u \in Investigators :
         agents'[v] # None /\ agents'[u] # None /\ agents'[v].run # None /\ agents'[v].run = agents'[u].run
         => v = u
  BY <1>16, <1>17, <1>19 DEF EvidenceSound, EvidenceJobs
<1>. QED
  BY <1>15, <1>16, <1>18, <1>20, <1>21 DEF EvidenceSound, EvidenceJobs

\* What a deletion leaves of ids, of a hypothesis and of an inquiry.
LEMMA Scrubbing ==
  ASSUME NEW t \in CaseTraces, Dead' = Dead \union {t}, NEW ids, NEW left, left = Scrub(ids, t)
  PROVE  Live(left)' = Live(ids)'
<1>1. left \subseteq ids /\ ids \ {t, <<t>>} \subseteq left
  BY ScrubTakes
<1>2. {t, <<t>>} \subseteq Dead' \union {<<u>> : u \in Dead'}
  OBVIOUS
<1>3. PICK gone : gone = Dead' \union {<<u>> : u \in Dead'}
  OBVIOUS
<1>4. left \ gone = ids \ gone
  BY <1>1, <1>2, <1>3
<1>. QED
  BY <1>3, <1>4 DEF Live

\* The spans that are left are of the traces that are left, but for those of deleted traces.
LEMMA SpansScrubbed ==
  ASSUME NEW t \in CaseTraces, Dead' = Dead \union {t}, NEW cites \in SUBSET CaseTraces, NEW spans,
         NEW gone, gone = CaseSpans(Dead'), NEW found, found = CaseSpans(cites),
         spans \ CaseSpans(Dead) \subseteq found
  PROVE  Scrub(spans, t) \ gone \subseteq CaseSpans(Scrub(cites, t))
<1>1. ASSUME NEW x \in Scrub(spans, t), x \notin gone PROVE x \in CaseSpans(Scrub(cites, t))
  <2>1. x \in spans /\ x \notin CaseSpans(Dead) /\ x # <<t>>
    <3>1. x \in spans
      BY ScrubTakes
    <3>2. CaseSpans(Dead) \subseteq gone
      BY DeadSpansStay
    <3>3. <<t>> \in gone
      BY DEF CaseSpans
    <3>. QED
      BY <1>1, <3>1, <3>2, <3>3
  <2>2. PICK u \in cites : x = <<u>>
    BY <2>1 DEF CaseSpans
  <2>3. u # t
    BY <2>1, <2>2
  <2>4. u \in Scrub(cites, t)
    BY <2>3, ScrubTakes
  <2>. QED
    BY <2>2, <2>4 DEF CaseSpans
<1>. QED
  BY <1>1

LEMMA HypothesisScrubbed ==
  ASSUME NEW t \in CaseTraces, Dead' = Dead \union {t},
         NEW cites \in SUBSET CaseTraces, NEW h, StandsNow(h, cites), NEW left, left = Scrub(cites, t),
         NEW g, g = [h EXCEPT !.traces = Scrub(h.traces, t), !.spans = Scrub(h.spans, t)]
  PROVE  StandsNow(g, left)' /\ Live(Ids(g))' = Live(Ids(h))'
<1>1. /\ DOMAIN g = HypothesisFields
      /\ g.traces = Scrub(h.traces, t) /\ g.spans = Scrub(h.spans, t)
  BY DEF StandsNow, HypothesisFields
<1>2. g.traces \subseteq left
  BY <1>1 DEF Scrub, StandsNow
<1>3. PICK gone, spans : gone = CaseSpans(Dead') /\ spans = CaseSpans(left) /\ g.spans \ gone \subseteq spans
  <2>1. PICK old, found, gone : old = h.spans /\ found = CaseSpans(cites) /\ gone = CaseSpans(Dead')
    OBVIOUS
  <2>2. old \ CaseSpans(Dead) \subseteq found
    BY <2>1 DEF StandsNow
  <2>3. Scrub(old, t) \ gone \subseteq CaseSpans(left)
    BY <2>1, <2>2, SpansScrubbed
  <2>. QED
    BY <1>1, <2>1, <2>3
<1>4. Ids(g) = Scrub(Ids(h), t)
  BY <1>1 DEF Ids, Scrub
<1>5. Live(Ids(g))' = Live(Ids(h))'
  <2>1. PICK a, b : a = Ids(g) /\ b = Ids(h)
    OBVIOUS
  <2>2. Live(a)' = Live(b)'
    BY <1>4, <2>1, Scrubbing
  <2>. QED
    BY <2>1, <2>2 DEF Live
<1>6. CaseSpans(Dead)' = gone /\ CaseSpans(left)' = spans
  BY <1>3 DEF CaseSpans
<1>. QED
  BY <1>1, <1>2, <1>3, <1>5, <1>6 DEF StandsNow

LEMMA InquiryScrubbed ==
  ASSUME NEW t \in CaseTraces, Dead' = Dead \union {t}, NEW q, InquirySound(q),
         NEW s, s = ScrubInquiry(q, t)
  PROVE  InquirySound(s)' /\ s.tasks = q.tasks /\ Agree(s.hypotheses, q.hypotheses)'
<1>1. PICK hs, cites : hs = q.hypotheses /\ cites = q.cites
  OBVIOUS
<1>2. /\ DOMAIN q = {"seed", "cites", "hypotheses", "tasks"} /\ cites \subseteq CaseTraces
      /\ Numbered(hs) /\ \A k \in DOMAIN hs : StandsNow(hs[k], cites)
  BY <1>1 DEF InquirySound
<1>3. PICK rest, left :
        /\ left = Scrub(cites, t)
        /\ rest = [k \in DOMAIN hs |->
                            [hs[k] EXCEPT !.traces = Scrub(hs[k].traces, t), !.spans = Scrub(hs[k].spans, t)]]
  OBVIOUS
<1>4. /\ DOMAIN s = {"seed", "cites", "hypotheses", "tasks"}
      /\ s.cites = left /\ s.hypotheses = rest /\ s.tasks = q.tasks
  <2>1. PICK seed : seed = IF q.seed = t THEN None ELSE q.seed
    OBVIOUS
  <2>2. s = [q EXCEPT !.seed = seed, !.cites = left, !.hypotheses = rest]
    <3>1. s = [q EXCEPT !.seed = IF q.seed = t THEN None ELSE q.seed, !.cites = Scrub(q.cites, t),
                        !.hypotheses = [k \in DOMAIN q.hypotheses |->
                           [q.hypotheses[k] EXCEPT !.traces = Scrub(q.hypotheses[k].traces, t),
                                                   !.spans = Scrub(q.hypotheses[k].spans, t)]]]
      BY DEF ScrubInquiry
    <3>. QED
      BY ONLY <1>1, <1>3, <2>1, <3>1
  <2>. QED
    BY <1>2, <2>2
<1>5. DOMAIN rest = DOMAIN hs /\ Numbered(rest)
  <2>1. rest \in [DOMAIN hs -> {rest[k] : k \in DOMAIN hs}]
    BY <1>3
  <2>. QED
    BY <1>2, <2>1, NumberedAnew
<1>6. ASSUME NEW k \in DOMAIN hs
      PROVE  StandsNow(rest[k], left)' /\ Live(Ids(rest[k]))' = Live(Ids(hs[k]))'
  <2>1. PICK h, g : h = hs[k] /\ g = rest[k]
    OBVIOUS
  <2>2. StandsNow(h, cites) /\ g = [h EXCEPT !.traces = Scrub(h.traces, t), !.spans = Scrub(h.spans, t)]
    BY <1>2, <1>3, <2>1
  <2>3. StandsNow(g, left)' /\ Live(Ids(g))' = Live(Ids(h))'
    BY <1>2, <1>3, <2>2, HypothesisScrubbed
  <2>. QED
    BY <2>1, <2>3 DEF Live, Ids, StandsNow
<1>7. Agree(rest, hs)'
  BY <1>5, <1>6 DEF Agree, Live, Ids
<1>8. InquirySound(s)'
  <2>1. left \subseteq CaseTraces
    BY <1>2, <1>3 DEF Scrub
  <2>2. \A k \in DOMAIN s.hypotheses : StandsNow(s.hypotheses[k], s.cites)'
    BY <1>4, <1>5, <1>6 DEF StandsNow
  <2>. QED
    BY <1>3, <1>4, <1>5, <2>1, <2>2 DEF InquirySound
<1>. QED
  BY <1>1, <1>4, <1>7, <1>8 DEF Agree, Live, Ids

LEMMA CaseDeleted ==
  ASSUME CaseRows, EvidenceSound, NEW t \in CaseTraces, DeleteCase(t)
  PROVE  EvidenceSound'
<1>1. /\ inquiries' = [r \in DOMAIN inquiries |-> ScrubInquiry(inquiries[r], t)]
      /\ packs' = [p \in DOMAIN packs |-> ScrubPack(packs[p], t)]
      /\ cases' = [cases EXCEPT ![t] = Gone] /\ agents' = agents
  BY DEF DeleteCase, Each
<1>2. /\ caseTasks' = [n \in DOMAIN caseTasks |->
                         [caseTasks[n] EXCEPT !.evidence = Scrub(caseTasks[n].evidence, t)]]
  BY DEF DeleteCase, Each
<1>3. Dead' = Dead \union {t}
  BY <1>1 DEF Dead, CaseRows
<1>4. Dead \subseteq Dead'
  BY <1>3
<1>5. /\ DOMAIN inquiries' = DOMAIN inquiries /\ Numbered(inquiries)'
      /\ DOMAIN caseTasks' = DOMAIN caseTasks /\ Numbered(caseTasks)'
      /\ DOMAIN packs' = DOMAIN packs
  <2>1. PICK i, j : i = inquiries' /\ j = caseTasks'
    OBVIOUS
  <2>2. DOMAIN i = DOMAIN inquiries /\ DOMAIN j = DOMAIN caseTasks
    BY <1>1, <1>2, <2>1
  <2>3. /\ i \in [DOMAIN inquiries -> {i[r] : r \in DOMAIN inquiries}]
        /\ j \in [DOMAIN caseTasks -> {j[n] : n \in DOMAIN caseTasks}]
    BY <1>1, <1>2, <2>1
  <2>4. Numbered(i) /\ Numbered(j)
    BY <2>3, NumberedAnew DEF EvidenceSound, EvidenceTables
  <2>. QED
    BY <1>1, <2>1, <2>2, <2>4 DEF Numbered
<1>6. ASSUME NEW r \in DOMAIN inquiries
      PROVE  /\ InquirySound(inquiries[r])' /\ inquiries'[r].tasks = inquiries[r].tasks
             /\ \A hs, gs : hs = inquiries[r].hypotheses /\ gs = inquiries'[r].hypotheses => Agree(gs, hs)'
  <2>1. PICK q, s : q = inquiries[r] /\ s = inquiries'[r]
    OBVIOUS
  <2>2. InquirySound(q) /\ s = ScrubInquiry(q, t)
    BY <1>1, <2>1 DEF EvidenceSound, EvidenceTables
  <2>3. InquirySound(s)' /\ s.tasks = q.tasks /\ Agree(s.hypotheses, q.hypotheses)'
    BY <1>3, <2>2, InquiryScrubbed
  <2>. QED
    BY <2>1, <2>3 DEF InquirySound, Agree, Live, Ids
<1>7. \A n \in DOMAIN caseTasks : TaskSound(caseTasks[n]) /\ DOMAIN caseTasks[n] = {"about", "evidence"}
  BY DEF EvidenceSound, EvidenceTables, TaskSound
<1>8. \A n \in DOMAIN caseTasks :
        /\ DOMAIN caseTasks'[n] = {"about", "evidence"} /\ caseTasks'[n].about = caseTasks[n].about
        /\ caseTasks'[n].evidence = Scrub(caseTasks[n].evidence, t)
  BY <1>2, <1>7
<1>9. \A r : Own(r)' = Own(r)
  BY <1>5, <1>8 DEF Own
<1>10. ASSUME NEW n \in DOMAIN caseTasks PROVE TaskSound(caseTasks[n])'
  <2>1. PICK task, after : task = caseTasks[n] /\ after = caseTasks'[n]
    OBVIOUS
  <2>2. /\ TaskSound(task) /\ DOMAIN after = {"about", "evidence"} /\ after.about = task.about
        /\ after.evidence = Scrub(task.evidence, t)
    BY <1>7, <1>8, <2>1
  <2>3. CASE task.about[1] = "run"
    <3>1. PICK r, k : r = task.about[2] /\ k = task.about[3]
      OBVIOUS
    <3>2. PICK hs, gs : hs = inquiries[r].hypotheses /\ gs = inquiries'[r].hypotheses
      OBVIOUS
    <3>3. r \in DOMAIN inquiries /\ k \in DOMAIN hs /\ Live(task.evidence) = Live(Ids(hs[k]))
      BY <2>2, <2>3, <3>1, <3>2 DEF TaskSound
    <3>4. Agree(gs, hs)'
      BY <1>6, <3>2, <3>3
    <3>5. PICK a, b, c : a = task.evidence /\ b = Ids(hs[k]) /\ c = Ids(gs[k])
      OBVIOUS
    <3>6. Live(a)' = Live(b)'
      BY <1>4, <3>3, <3>5, LiveStays
    <3>7. k \in DOMAIN gs /\ Live(b)' = Live(c)'
      BY <3>3, <3>4, <3>5 DEF Agree, Live, Ids
    <3>8. PICK left : left = Scrub(a, t) /\ Live(left)' = Live(a)'
      BY <1>3, Scrubbing
    <3>9. after.evidence = left /\ Live(left)' = Live(c)'
      BY <2>2, <3>5, <3>6, <3>7, <3>8
    <3>. QED
      BY <1>5, <2>1, <2>2, <3>1, <3>2, <3>3, <3>5, <3>7, <3>9 DEF TaskSound, Live, Ids
  <2>4. CASE task.about[1] # "run"
    BY <2>1, <2>2, <2>4 DEF TaskSound
  <2>. QED
    BY <2>3, <2>4
<1>11. ASSUME NEW p \in DOMAIN packs PROVE PackSound(packs[p])'
  <2>1. PICK old, new : old = packs[p] /\ new = ScrubPack(old, t)
    OBVIOUS
  <2>2. PackSound(old) /\ DOMAIN old = {"level", "sources", "accounts", "cites"} /\ packs'[p] = new
    BY <1>1, <2>1 DEF EvidenceSound, EvidenceTables, CaseRows, IsPack
  <2>3. CASE t \notin old.sources
    <3>1. new = old
      BY <2>1, <2>3 DEF ScrubPack
    <3>2. PackSound(new)'
      BY <1>4, <2>2, <3>1, PackStays
    <3>. QED
      BY <2>2, <3>2 DEF PackSound
  <2>4. CASE t \in old.sources
    <3>1. PICK sources : sources = Scrub(old.sources, t)
      OBVIOUS
    <3>2. new.sources = sources /\ new.cites \subseteq Scrub(old.cites, t)
      <4>1. PICK cites, accounts :
              /\ cites = IF old.sources = {t} THEN {} ELSE Scrub(old.cites, t)
              /\ accounts = IF old.sources = {t} THEN {} ELSE old.accounts
        OBVIOUS
      <4>2. new = [old EXCEPT !.sources = sources, !.cites = cites, !.accounts = accounts]
        BY <2>1, <2>4, <3>1, <4>1 DEF ScrubPack
      <4>. QED
        BY <2>2, <4>1, <4>2
    <3>3. PICK spans, ids : spans = old.cites \ old.sources /\ ids = old.sources
      OBVIOUS
    <3>4. PICK found, gone, rest :
            found = CaseSpans(ids) /\ gone = CaseSpans(Dead') /\ rest = CaseSpans(sources)
      OBVIOUS
    <3>5. ids \in SUBSET CaseTraces /\ spans \ CaseSpans(Dead) \subseteq found
      BY <2>2, <3>3, <3>4 DEF PackSound
    <3>6. Scrub(spans, t) \ gone \subseteq rest
      BY <1>3, <3>1, <3>3, <3>4, <3>5, SpansScrubbed
    <3>7. Scrub(old.cites, t) \subseteq sources \union Scrub(spans, t)
      BY <3>1, <3>3 DEF Scrub
    <3>8. sources \subseteq CaseTraces
      BY <3>1, <3>3, <3>5 DEF Scrub
    <3>9. new.cites \ gone \subseteq sources \union rest
      BY <3>2, <3>6, <3>7
    <3>10. CaseSpans(Dead)' = gone /\ \A x : x = sources => CaseSpans(x)' = rest
      BY <3>4 DEF CaseSpans
    <3>11. PackSound(new)'
      BY <3>2, <3>8, <3>9, <3>10 DEF PackSound
    <3>. QED
      BY <2>2, <3>11 DEF PackSound
  <2>. QED
    BY <2>3, <2>4
<1>12. EvidenceTables'
  <2>1. \A r \in DOMAIN inquiries : inquiries'[r].tasks \in {{}, Own(r)'}
    BY <1>6, <1>9 DEF EvidenceSound, EvidenceTables
  <2>. QED
    BY <1>5, <1>6, <1>9, <1>10, <1>11, <2>1 DEF EvidenceTables
<1>13. ASSUME NEW w \in Investigators, agents[w] # None PROVE JobCites(agents[w])'
  <2>1. PICK job, r, hs : job = agents[w] /\ r = job.run /\ hs = job.result.hypotheses
    OBVIOUS
  <2>2. JobCites(job) /\ job = agents'[w]
    BY <1>1, <1>13, <2>1 DEF EvidenceSound, EvidenceJobs
  <2>3. job.at = "tasks" => Agree(hs, inquiries[r].hypotheses)'
    <3>1. PICK there, rest : there = inquiries[r].hypotheses /\ rest = inquiries'[r].hypotheses
      OBVIOUS
    <3>2. job.at = "tasks" => r \in DOMAIN inquiries /\ Agree(hs, there)
      BY <2>1, <2>2, <3>1 DEF JobCites, Investigates
    <3>3. job.at = "tasks" => Agree(hs, there)'
      BY <1>4, <3>2, AgreeStay
    <3>4. job.at = "tasks" => Agree(rest, there)'
      BY <1>6, <3>1, <3>2
    <3>5. job.at = "tasks" => Agree(hs, rest)'
      BY <3>3, <3>4 DEF Agree
    <3>. QED
      BY <3>1, <3>5 DEF Agree, Live, Ids
  <2>4. r # None => inquiries'[r].tasks = {} /\ job.result.tasks = Own(r)'
    BY <1>6, <1>9, <2>1, <2>2 DEF JobCites
  <2>5. JobCites(job)'
    BY <1>5, <2>1, <2>2, <2>3, <2>4 DEF JobCites
  <2>. QED
    BY ONLY <2>2, <2>5 DEF JobCites, Agree, Own, Live, Ids, ResultSound, AllStand
<1>. QED
  BY <1>1, <1>12, <1>13 DEF EvidenceSound, EvidenceJobs

LEMMA EvidenceStep ==
  ASSUME CaseRows, EvidenceSound, [CaseNext]_caseVars
  PROVE  EvidenceSound'
<1>1. CASE UNCHANGED caseVars
  <2>1. UNCHANGED <<inquiries, caseTasks, packs, agents>> /\ Dead \subseteq Dead'
    BY <1>1 DEF caseVars, findings, remedies, Dead
  <2>. QED
    BY <2>1, Steadily
<1>2. ASSUME NEW t \in CaseTraces, NEW accounts \in SUBSET Accounts, ArriveTrace(t, accounts)
      PROVE  EvidenceSound'
  <2>1. /\ cases' = [cases EXCEPT ![t] = accounts] /\ cases[t] = None
        /\ UNCHANGED <<inquiries, caseTasks, packs, agents>>
    BY <1>2 DEF ArriveTrace, findings
  <2>2. Dead \subseteq Dead'
    BY <2>1, CaseAssumption DEF Dead, CaseRows
  <2>. QED
    BY <2>1, <2>2, Steadily
<1>3. ASSUME NEW t \in CaseTraces, DeleteCase(t) PROVE EvidenceSound'
  BY <1>3, CaseDeleted
<1>4. ASSUME NEW t, NEW i, NEW seed, LinkTrace(i, t) \/ OpenIssue(seed) PROVE EvidenceSound'
  <2>1. UNCHANGED <<inquiries, caseTasks, packs, agents>> /\ Dead \subseteq Dead'
    BY <1>4 DEF LinkTrace, OpenIssue, findings, Dead
  <2>. QED
    BY <2>1, Steadily
<1>5. ASSUME NEW w \in Investigators, SteadyTurn(w), UNCHANGED <<cases, inquiries, caseTasks, packs>>
      PROVE  EvidenceSound'
  <2>1. Dead \subseteq Dead'
    BY <1>5 DEF Dead
  <2>. QED
    BY <1>5, <2>1, Steadily DEF SteadyTurn
<1>6. ASSUME NEW w \in Investigators, NEW sources, ReportScreenshot(w, sources) PROVE EvidenceSound'
  BY <1>5, <1>6, SteadyStarts DEF ReportScreenshot, findings
<1>7. ASSUME NEW w \in Investigators, NEW issue, NEW seed, StartWorkflow(w, issue, seed) \/ StartChat(w, seed)
      PROVE  EvidenceSound'
  BY <1>5, <1>7, SteadyStarts DEF StartWorkflow, StartChat, findings
<1>8. ASSUME NEW w \in Investigators, NEW k, NEW kind \in {"review", "notify"}, ReadEntity(w, k, kind)
      PROVE  EvidenceSound'
  BY <1>5, <1>8, SteadyStarts DEF ReadEntity, findings
<1>9. ASSUME NEW w \in Investigators, NEW sources \in SUBSET CaseTraces, NEW level,
             StartPack(w, sources, level)
      PROVE  EvidenceSound'
  BY <1>5, <1>9, SteadyStarts DEF StartPack, findings
<1>20. ASSUME NEW w \in Investigators, NEW t \in CaseTraces, ReadSource(w, t) PROVE EvidenceSound'
  BY <1>5, <1>20, SteadySource DEF ReadSource, findings
<1>10. ASSUME NEW w \in Investigators,
              \/ \E found \in SUBSET CaseTraces : SearchCohort(w, found)
              \/ BuildReport(w) \/ PersistReport(w) \/ UpsertEntities(w) \/ OwnLinks(w) \/ AddLink(w)
              \/ \E e : ReadFirstEntity(w, e)
              \/ FinishLinks(w) /\ agents[w].kind # "workflow"
              \/ ReadEvidence(w) \/ NotifyEntity(w) \/ InvestigatorStops(w)
       PROVE  EvidenceSound'
  <2>1. SteadyTurn(w)
    BY ONLY <1>10, CaseRows, EvidenceSound, SteadyGoesOn
  <2>2. UNCHANGED <<cases, inquiries, caseTasks, packs>>
    BY <1>10 DEF SearchCohort, BuildReport, PersistReport, UpsertEntities, OwnLinks, AddLink,
       ReadFirstEntity, FinishLinks, ReadEvidence, NotifyEntity, InvestigatorStops, findings
  <2>. QED
    BY <1>5, <2>1, <2>2
<1>11. ASSUME NEW w \in Investigators, NEW k, NEW status, NEW remediated \in BOOLEAN,
              UpdateEntity(w, k, status, remediated)
       PROVE  EvidenceSound'
  <2>1. UNCHANGED <<cases, inquiries, caseTasks, packs>> /\ Dead \subseteq Dead'
    BY <1>11 DEF UpdateEntity, findings, Dead
  <2>2. CASE remediated
    <3>1. PICK job : job = Job("link", "remedy", affected[k].issue, None)
      OBVIOUS
    <3>2. PICK next : (\E links : next = [job EXCEPT !.links = links]) /\ GoesOn(w, next)
      BY <1>11, <2>2, <3>1 DEF UpdateEntity
    <3>3. next.result = NoResult /\ next.run = None /\ next.at = "link" /\ next.kind = "remedy"
      BY <3>1, <3>2 DEF Job
    <3>4. Steady(w, next)
      BY <3>3, BeginsSteady
    <3>. QED
      BY <1>5, <2>1, <3>2, <3>4 DEF SteadyTurn
  <2>3. CASE ~remediated
    BY <1>11, <2>1, <2>3, Steadily DEF UpdateEntity
  <2>. QED
    BY <2>2, <2>3
<1>12. ASSUME NEW w \in Investigators, InsertRun(w) PROVE EvidenceSound'
  BY <1>12, RunInserted
<1>13. ASSUME NEW w \in Investigators, FinishLinks(w) PROVE EvidenceSound'
  BY <1>10, <1>13, WrittenLinks
<1>14. ASSUME NEW w \in Investigators, NEW answer \in Answers, AnswerInvestigation(w, answer)
       PROVE  EvidenceSound'
  BY <1>14, WrittenAnswer
<1>15. ASSUME NEW w \in Investigators, AddCaseTask(w) PROVE EvidenceSound'
  BY <1>15, CaseTaskAdded
<1>16. ASSUME NEW w \in Investigators, ListTasks(w) PROVE EvidenceSound'
  BY <1>16, WrittenTasks
<1>17. ASSUME NEW w \in Investigators, ReviewEntity(w) PROVE EvidenceSound'
  BY <1>17, EntityReviewed
<1>18. ASSUME NEW w \in Investigators, NEW summary, NEW disabled, WritePack(w, summary, disabled)
       PROVE  EvidenceSound'
  BY <1>18, PackWritten
<1>19. CASE CaseNext
  BY <1>2, <1>3, <1>4, <1>6, <1>7, <1>8, <1>9, <1>10, <1>11, <1>12, <1>13, <1>14, <1>15, <1>16, <1>17,
     <1>18, <1>19, <1>20 DEF CaseNext
<1>. QED
  BY <1>1, <1>19

(* Runs, tasks and packs cite what they should, and so do the results under way. *)
LEMMA EvidenceAlways == CaseSpec => []EvidenceSound
<1>1. CaseInit => EvidenceSound
  <2>. SUFFICES ASSUME CaseInit PROVE EvidenceSound
    OBVIOUS
  <2>1. /\ inquiries = <<>> /\ caseTasks = <<>> /\ packs = <<>>
        /\ \A w \in Investigators : agents[w] = None
    BY DEF CaseInit
  <2>2. Numbered(inquiries) /\ Numbered(caseTasks)
        /\ DOMAIN inquiries = {} /\ DOMAIN caseTasks = {} /\ DOMAIN packs = {}
    BY <2>1, NoRows
  <2>. QED
    BY <2>1, <2>2 DEF EvidenceSound, EvidenceTables, EvidenceJobs
<1>2. CaseRows /\ EvidenceSound /\ [CaseNext]_caseVars => EvidenceSound'
  BY EvidenceStep
<1>. QED
  BY <1>1, <1>2, CaseTyping, PTL DEF CaseSpec

(* Whatever investigations, answers of a model and deletions are under way at once, a trace
   deleted twice among them: a hypothesis of a stored run cites traces of the run and spans
   of these or of deleted ones, and one of a model some of each unless a trace was deleted;
   a pack cites its sources, but for spans of deleted traces; a review task shows what its
   hypothesis cites, but for what was deleted; and a run lists all of its tasks or none. *)
THEOREM Evidence == CaseSpec => []EvidenceCited
<1>1. EvidenceSound => EvidenceCited
  <2>. SUFFICES ASSUME EvidenceSound PROVE EvidenceCited
    OBVIOUS
  <2>1. ModelTextCited
    BY DEF EvidenceSound, EvidenceTables, InquirySound, StandsNow, Whole, PackSound, ModelTextCited
  <2>2. TasksShowTheirHypothesis
    <3>1. \A r \in DOMAIN inquiries : inquiries[r].tasks \in {{}, Own(r)}
      BY DEF EvidenceSound, EvidenceTables
    <3>2. ASSUME NEW r \in DOMAIN inquiries, NEW n \in Own(r)
          PROVE  LET h == inquiries[r].hypotheses[caseTasks[n].about[3]]
                 IN Live(caseTasks[n].evidence) = Live(h.traces \union h.spans)
      BY DEF Own, EvidenceSound, EvidenceTables, TaskSound, Ids
    <3>. QED
      BY <3>1, <3>2 DEF TasksShowTheirHypothesis, Own, Live, CaseSpans
  <2>. QED
    BY <2>1, <2>2 DEF EvidenceCited
<1>. QED
  BY <1>1, EvidenceAlways, PTL

-----------------------------------------------------------------------------
(* The issues that rows, links and requests name. *)

Issues == DOMAIN issues

\* The entity of a row is an account as a report shows it.
EntityNamed(row) ==
  /\ row.issue \in Issues /\ row.entity \in Accounts \union {Redacted}
  /\ row.status \in {"needs_review", "contacted", "fixed", "deleted"}

\* A request has an issue once it writes about one.
JobNamed(job) ==
  /\ job.issue \in Issues \union {None}
  /\ job.at \in {"first", "upsert", "own links"} => job.issue \in Issues
  /\ \A n \in DOMAIN job.links : job.links[n].issue \in Issues

IssuesNamed ==
  /\ Numbered(issues)
  /\ \A k \in DOMAIN affected : EntityNamed(affected[k])
  /\ \A l \in issueLinks : l.issue \in Issues
  /\ \A w \in Investigators : agents[w] # None => JobNamed(agents[w])

(* No issue goes. *)
LEMMA IssuesStay ==
  ASSUME Issues \subseteq Issues'
  PROVE  /\ \A row : EntityNamed(row) => EntityNamed(row)'
         /\ \A job : JobNamed(job) => JobNamed(job)'
BY DEF EntityNamed, JobNamed

(* A request goes on with a job that names its issue. *)
LEMMA NamedGoesOn ==
  ASSUME CaseRows, IssuesNamed, Issues \subseteq Issues', Numbered(issues'),
         \A k \in DOMAIN affected' : EntityNamed(affected[k])',
         \A l \in issueLinks' : l.issue \in Issues',
         NEW w \in Investigators, NEW job, job = None \/ JobNamed(job)',
         GoesOn(w, job)
  PROVE  IssuesNamed'
<1>1. ASSUME NEW v \in Investigators, agents'[v] # None PROVE JobNamed(agents[v])'
  <2>1. PICK other : other = agents'[v]
    OBVIOUS
  <2>2. JobNamed(other)'
    <3>1. CASE v = w
      BY <1>1, <2>1, <3>1, GoingOn
    <3>2. CASE v # w
      <4>1. other = agents[v] /\ JobNamed(other)
        BY <1>1, <2>1, <3>2, GoingOn DEF IssuesNamed
      <4> QED
        BY <4>1, IssuesStay
    <3> QED
      BY <3>1, <3>2
  <2> QED
    BY <2>1, <2>2 DEF JobNamed
<1> QED
  BY <1>1 DEF IssuesNamed

(* The same when the tables stay. *)
LEMMA NamedAlone ==
  ASSUME CaseRows, IssuesNamed, Issues \subseteq Issues', Numbered(issues'),
         UNCHANGED <<affected, issueLinks>>,
         NEW w \in Investigators, NEW job, job = None \/ JobNamed(job)', GoesOn(w, job)
  PROVE  IssuesNamed'
<1>1. ASSUME NEW k \in DOMAIN affected' PROVE EntityNamed(affected[k])'
  <2>1. PICK row : row = affected[k] /\ EntityNamed(row)
    BY DEF IssuesNamed
  <2>2. EntityNamed(row)'
    BY <2>1, IssuesStay
  <2>3. affected'[k] = row
    BY <2>1
  <2> QED
    BY <2>2, <2>3 DEF EntityNamed
<1>2. \A l \in issueLinks' : l.issue \in Issues'
  BY DEF IssuesNamed
<1> QED
  BY <1>1, <1>2, NamedGoesOn

(* A job keeps its issue and its links, or takes up links about its issue. *)
LEMMA NamedOn ==
  ASSUME UNCHANGED issues, NEW job, IsJob(job), JobNamed(job), NEW next, DOMAIN next = CaseFields,
         next.issue = job.issue,
         next.at \in {"first", "upsert", "own links"} => job.issue \in Issues,
         \A n \in DOMAIN next.links : next.links[n].issue \in Issues
  PROVE  JobNamed(next)'
BY DEF JobNamed, Issues

(* An issue is appended. *)
LEMMA IssueCreated ==
  ASSUME IssuesNamed, NEW seed, CreateIssue(seed)
  PROVE  /\ Issues \subseteq Issues' /\ Numbered(issues')
         /\ Len(issues') \in Issues'
<1>1. issues' = Append(issues, seed) /\ Numbered(issues)
  BY DEF CreateIssue, IssuesNamed
<1> QED
  BY <1>1, NumberedRows DEF Issues

(* A source of a pack is read. *)
LEMMA NamedSource ==
  ASSUME CaseRows, IssuesNamed, NEW w \in Investigators, NEW t \in CaseTraces, ReadSource(w, t)
  PROVE  IssuesNamed'
<1>0. PICK job, next : job = agents[w] /\ GoesOn(w, next) /\ ReadsOn(job, next, t)
  BY SourceRead
<1>1. /\ job = agents[w] /\ job # None /\ IsJob(job) /\ GoesOn(w, next)
      /\ DOMAIN next = CaseFields /\ next.at = "pack" /\ next.issue = job.issue /\ next.links = job.links
  BY <1>0 DEF ReadsOn
<1>2. UNCHANGED <<issues, affected, issueLinks>> /\ JobNamed(job)
  BY <1>1 DEF ReadSource, remedies, IssuesNamed
<1>3. JobNamed(next)'
  BY <1>1, <1>2, NamedOn DEF JobNamed
<1> QED
  BY <1>1, <1>2, <1>3, NamedAlone DEF Issues, IssuesNamed

(* The requests that begin. *)
LEMMA NamedStarts ==
  ASSUME CaseRows, IssuesNamed, NEW w \in Investigators, NEW seed \in Rows \union {None},
         \/ \E sources \in SUBSET Payloads : ReportScreenshot(w, sources)
         \/ \E issue \in DOMAIN issues \union {None} : StartWorkflow(w, issue, seed)
         \/ StartChat(w, seed)
         \/ \E k \in DOMAIN affected, kind \in {"review", "notify"} : ReadEntity(w, k, kind)
         \/ \E sources \in SUBSET CaseTraces, level \in 0 .. 2 : StartPack(w, sources, level)
  PROVE  IssuesNamed'
<1>1. ASSUME NEW sources \in SUBSET Payloads, ReportScreenshot(w, sources) PROVE IssuesNamed'
  <2>1. PICK i : i = Len(issues')
    OBVIOUS
  <2>2. Issues \subseteq Issues' /\ Numbered(issues') /\ i \in Issues'
    BY <1>1, <2>1, IssueCreated DEF ReportScreenshot
  <2>3. PICK S, links, job :
          /\ S = {ToLink(i, p, "screenshot_payload", {}) : p \in sources}
          /\ links = SetToSeq(S)
          /\ job = [Job("link", "screenshot", i, None) EXCEPT !.links = links]
          /\ GoesOn(w, job)
    BY <1>1, <2>1 DEF ReportScreenshot
  <2>4. IsFiniteSet(S) /\ \A l \in S : l.issue = i
    <3>1. \A l \in S : l.issue = i
      BY <2>3 DEF ToLink
    <3> QED
      BY <2>3, <3>1, PayloadLinks
  <2>5. \A n \in DOMAIN links : links[n].issue = i
    BY <2>3, <2>4, ListedOnce
  <2>6. job.at = "link" /\ job.issue = i /\ job.links = links
    BY <2>3 DEF Job
  <2>7. JobNamed(job)'
    BY <2>2, <2>5, <2>6 DEF JobNamed
  <2> QED
    BY <1>1, <2>2, <2>3, <2>7, NamedAlone DEF ReportScreenshot, remedies
<1>2. ASSUME NEW at, NEW kind, NEW issue, NEW s, at \notin {"first", "upsert", "own links"},
             issue \in Issues' \union {None}
      PROVE  JobNamed(Job(at, kind, issue, s))'
  <2>1. PICK job : job = Job(at, kind, issue, s)
    OBVIOUS
  <2>2. job.at = at /\ job.issue = issue /\ DOMAIN job.links = {}
    BY <2>1, JobBegins
  <2>3. JobNamed(job)'
    BY <1>2, <2>2 DEF JobNamed
  <2> QED
    BY <2>1, <2>3
<1>3. ASSUME NEW issue \in DOMAIN issues \union {None}, StartWorkflow(w, issue, seed) PROVE IssuesNamed'
  <2>1. UNCHANGED <<issues, affected, issueLinks>> /\ GoesOn(w, Job("search", "workflow", issue, seed))
    BY <1>3 DEF StartWorkflow, remedies
  <2>2. JobNamed(Job("search", "workflow", issue, seed))'
    BY <1>2, <2>1 DEF Issues
  <2> QED
    BY <2>1, <2>2, NamedAlone DEF Issues, IssuesNamed
<1>4. CASE StartChat(w, seed)
  <2>1. PICK i : i = Len(issues')
    OBVIOUS
  <2>2. Issues \subseteq Issues' /\ Numbered(issues') /\ i \in Issues'
    BY <1>4, <2>1, IssueCreated DEF StartChat
  <2>3. UNCHANGED <<affected, issueLinks>> /\ GoesOn(w, Job("search", "chat", i, seed))
    BY <1>4, <2>1 DEF StartChat, remedies
  <2>4. JobNamed(Job("search", "chat", i, seed))'
    BY <1>2, <2>2
  <2> QED
    BY <2>2, <2>3, <2>4, NamedAlone
<1>5. ASSUME NEW k \in DOMAIN affected, NEW kind \in {"review", "notify"}, ReadEntity(w, k, kind)
      PROVE  IssuesNamed'
  <2>1. PICK i, job, traces, about :
          /\ i = affected[k].issue
          /\ job = [Job(kind, kind, i, None) EXCEPT !.found = traces, !.about = about]
          /\ GoesOn(w, job) /\ UNCHANGED <<issues, affected, issueLinks>>
    BY <1>5 DEF ReadEntity, remedies
  <2>2. i \in Issues
    BY <2>1 DEF IssuesNamed, EntityNamed
  <2>3. job.at = kind /\ job.issue = i /\ DOMAIN job.links = {}
    BY <2>1, JobBegins DEF CaseFields
  <2>4. JobNamed(job)'
    BY <2>1, <2>2, <2>3 DEF JobNamed, Issues
  <2> QED
    BY <2>1, <2>4, NamedAlone DEF Issues, IssuesNamed
<1>6. ASSUME NEW sources \in SUBSET CaseTraces, NEW level \in 0 .. 2, StartPack(w, sources, level)
      PROVE  IssuesNamed'
  <2>1. PICK job :
          /\ job = [Job("pack", "pack", None, None) EXCEPT !.found = sources, !.about = level]
          /\ GoesOn(w, job) /\ UNCHANGED <<issues, affected, issueLinks>>
    BY <1>6 DEF StartPack, remedies
  <2>2. job.at = "pack" /\ job.issue = None /\ DOMAIN job.links = {}
    BY <2>1, JobBegins DEF CaseFields
  <2>3. JobNamed(job)'
    BY <2>2 DEF JobNamed
  <2> QED
    BY <2>1, <2>3, NamedAlone DEF Issues, IssuesNamed
<1> QED
  BY <1>1, <1>3, <1>4, <1>5, <1>6

\* A job with the issue and the links of the one before it.
Carries(job, next) ==
  DOMAIN next = CaseFields /\ next.issue = job.issue /\ next.links = job.links

(* The steps in which a request keeps its issue and its links. *)
LEMMA NamedKept ==
  ASSUME CaseRows, IssuesNamed, NEW w \in Investigators,
         \/ \E found \in SUBSET CaseTraces : SearchCohort(w, found)
         \/ BuildReport(w) \/ InsertRun(w) \/ PersistReport(w)
         \/ \E e \in Accounts \union {Redacted} : ReadFirstEntity(w, e)
         \/ FinishLinks(w) \/ ReadEvidence(w)
         \/ \E answer \in Answers : AnswerInvestigation(w, answer)
         \/ AddCaseTask(w) \/ ListTasks(w) \/ ReviewEntity(w) \/ NotifyEntity(w)
         \/ \E summary \in Summaries, disabled \in BOOLEAN : WritePack(w, summary, disabled)
         \/ InvestigatorStops(w)
  PROVE  IssuesNamed'
<1>1. /\ UNCHANGED <<issues, affected, issueLinks>> /\ agents[w] # None
  BY DEF SearchCohort, BuildReport, InsertRun, PersistReport, ReadFirstEntity, FinishLinks,
         ReadEvidence, AnswerInvestigation, AddCaseTask, ListTasks, ReviewEntity, NotifyEntity,
         WritePack, InvestigatorStops, WorksAt, Waiting, remedies, findings
<1>2. PICK job : job = agents[w] /\ IsJob(job) /\ JobNamed(job)
  BY <1>1 DEF CaseRows, IssuesNamed
<1>3. ASSUME NEW next, GoesOn(w, next),
             \/ next = None
             \/ /\ Carries(job, next)
                /\ next.at \in {"first", "upsert", "own links"} => job.issue \in Issues
      PROVE  IssuesNamed'
  <2>1. next = None \/ JobNamed(next)'
    BY <1>1, <1>2, <1>3, NamedOn DEF JobNamed, Carries
  <2> QED
    BY <1>1, <1>3, <2>1, NamedAlone DEF Issues, IssuesNamed
<1>4. ASSUME NEW found \in SUBSET CaseTraces, SearchCohort(w, found) PROVE IssuesNamed'
  <2>1. PICK next, all : next = [job EXCEPT !.at = "build", !.found = all] /\ GoesOn(w, next)
    BY <1>2, <1>4 DEF SearchCohort
  <2>3. Carries(job, next) /\ next.at = "build"
    BY <1>2, <2>1 DEF Carries, IsJob, CaseFields
  <2> QED
    BY <1>3, <2>1, <2>3
<1>5. CASE BuildReport(w)
  <2>1. PICK next, entities, result :
          next = [job EXCEPT !.at = "run", !.entities = entities, !.result = result] /\ GoesOn(w, next)
    BY <1>2, <1>5 DEF BuildReport
  <2>3. Carries(job, next) /\ next.at = "run"
    BY <1>2, <2>1 DEF Carries, IsJob, CaseFields
  <2> QED
    BY <1>3, <2>1, <2>3
<1>6. CASE InsertRun(w)
  <2>1. PICK next, run : next = [job EXCEPT !.at = "report", !.run = run] /\ GoesOn(w, next)
    BY <1>2, <1>6 DEF InsertRun
  <2>3. Carries(job, next) /\ next.at = "report"
    BY <1>2, <2>1 DEF Carries, IsJob, CaseFields
  <2> QED
    BY <1>3, <2>1, <2>3
<1>7. CASE PersistReport(w)
  <2>1. PICK at, report, next :
          /\ at = IF job.issue = None THEN "link"
                  ELSE IF DOMAIN job.entities = {} THEN "own links" ELSE "first"
          /\ next = [job EXCEPT !.report = report, !.at = at] /\ GoesOn(w, next)
    BY <1>2, <1>7 DEF PersistReport
  <2>2. next.at = at /\ (at # "link" => job.issue \in Issues)
    BY <1>2, <2>1 DEF JobNamed, IsJob, CaseFields
  <2>3. Carries(job, next)
    BY <1>2, <2>1 DEF Carries, IsJob, CaseFields
  <2> QED
    BY <1>3, <2>1, <2>2, <2>3
<1>8. ASSUME NEW e \in Accounts \union {Redacted}, ReadFirstEntity(w, e) PROVE IssuesNamed'
  <2>1. PICK first, next : next = [job EXCEPT !.at = "upsert", !.first = first] /\ GoesOn(w, next)
    BY <1>2, <1>8 DEF ReadFirstEntity
  <2>2. job.issue \in Issues
    BY <1>2, <1>8 DEF ReadFirstEntity, WorksAt, JobNamed
  <2>3. Carries(job, next)
    BY <1>2, <2>1 DEF Carries, IsJob, CaseFields
  <2> QED
    BY <1>3, <2>1, <2>2, <2>3
<1>9. CASE FinishLinks(w)
  <2>1. CASE GoesOn(w, None)
    BY <1>3, <2>1
  <2>2. CASE ~ GoesOn(w, None)
    <3>1. PICK next : next = [job EXCEPT !.at = "evidence"] /\ GoesOn(w, next)
      BY <1>2, <1>9, <2>2 DEF FinishLinks
    <3>2. Carries(job, next) /\ next.at = "evidence"
      BY <1>2, <3>1 DEF Carries, IsJob, CaseFields
    <3> QED
      BY <1>3, <3>1, <3>2
  <2> QED
    BY <2>1, <2>2
<1>10. CASE ReadEvidence(w)
  <2>1. PICK spans, next : next = [job EXCEPT !.at = "answer", !.spans = spans] /\ GoesOn(w, next)
    BY <1>2, <1>10 DEF ReadEvidence
  <2>3. Carries(job, next) /\ next.at = "answer"
    BY <1>2, <2>1 DEF Carries, IsJob, CaseFields
  <2> QED
    BY <1>3, <2>1, <2>3
<1>11. ASSUME NEW answer \in Answers, AnswerInvestigation(w, answer) PROVE IssuesNamed'
  <2>1. PICK result, next : next = [job EXCEPT !.at = "tasks", !.result = result] /\ GoesOn(w, next)
    BY <1>2, <1>11 DEF AnswerInvestigation
  <2>3. Carries(job, next) /\ next.at = "tasks"
    BY <1>2, <2>1 DEF Carries, IsJob, CaseFields
  <2> QED
    BY <1>3, <2>1, <2>3
<1>12. CASE AddCaseTask(w)
  <2>1. PICK result, next : next = [job EXCEPT !.result = result] /\ GoesOn(w, next)
    BY <1>2, <1>12 DEF AddCaseTask
  <2>2. job.at = "tasks"
    BY <1>2, <1>12 DEF AddCaseTask, WorksAt
  <2>3. Carries(job, next) /\ next.at = "tasks"
    BY <1>2, <2>1, <2>2 DEF Carries, IsJob, CaseFields
  <2> QED
    BY <1>3, <2>1, <2>3
<1>13. CASE \/ ListTasks(w) \/ ReviewEntity(w) \/ NotifyEntity(w) \/ InvestigatorStops(w)
            \/ \E summary \in Summaries, disabled \in BOOLEAN : WritePack(w, summary, disabled)
  <2>1. GoesOn(w, None)
    BY <1>13 DEF ListTasks, ReviewEntity, NotifyEntity, InvestigatorStops, WritePack
  <2> QED
    BY <1>3, <2>1
<1> QED
  BY <1>4, <1>5, <1>6, <1>7, <1>8, <1>9, <1>10, <1>11, <1>12, <1>13
(* The steps about links. *)
LEMMA NamedLinks ==
  ASSUME CaseRows, IssuesNamed, NEW w \in Investigators, OwnLinks(w) \/ AddLink(w)
  PROVE  IssuesNamed'
<1>1. UNCHANGED <<issues, affected>> /\ agents[w] # None
  BY DEF OwnLinks, AddLink, WorksAt, remedies
<1>2. PICK job : job = agents[w] /\ IsJob(job) /\ JobNamed(job)
  BY <1>1 DEF CaseRows, IssuesNamed
<1>3. CASE OwnLinks(w)
  <2>1. PICK x, y, links, next :
          /\ x = ToLink(job.issue, <<"run", job.run>>, "investigated_by", job.result.cites)
          /\ y = ToLink(job.issue, <<"report", job.report>>, "scoped_by", job.result.cites)
          /\ links = job.links \o <<x, y>>
          /\ next = [job EXCEPT !.at = "link", !.links = links]
          /\ GoesOn(w, next) /\ UNCHANGED issueLinks
    BY <1>2, <1>3 DEF OwnLinks
  <2>2. x.issue = job.issue /\ y.issue = job.issue /\ job.issue \in Issues
    BY <1>2, <1>3, <2>1 DEF ToLink, OwnLinks, WorksAt, JobNamed
  <2>3. \A n \in DOMAIN links : links[n].issue \in Issues
    <3>1. PICK S : job.links \in Seq(S)
      BY <1>2 DEF IsJob, Numbered
    <3>2. \A n \in DOMAIN links :
            (n \in DOMAIN job.links /\ links[n] = job.links[n]) \/ links[n] \in {x, y}
      BY <2>1, <3>1
    <3> QED
      BY <1>2, <2>2, <3>2 DEF JobNamed
  <2>4. DOMAIN next = CaseFields /\ next.at = "link" /\ next.issue = job.issue /\ next.links = links
    BY <1>2, <2>1 DEF IsJob, CaseFields
  <2>5. JobNamed(next)'
    BY <1>1, <1>2, <2>3, <2>4, NamedOn
  <2> QED
    BY <1>1, <2>1, <2>5, NamedAlone DEF Issues, IssuesNamed
<1>4. CASE AddLink(w)
  <2>1. PICK links, next : /\ links = Tail(job.links) /\ next = [job EXCEPT !.links = links]
                           /\ GoesOn(w, next) /\ job.links # <<>> /\ job.at = "link"
    BY <1>2, <1>4 DEF AddLink, WorksAt
  <2>2. /\ 1 \in DOMAIN job.links /\ Head(job.links) = job.links[1]
        /\ \A n \in DOMAIN links : \E m \in DOMAIN job.links : links[n] = job.links[m]
    BY <1>2, <2>1, LinksLeft DEF IsJob
  <2>3. \A n \in DOMAIN links : links[n].issue \in Issues
    BY <1>2, <2>2 DEF JobNamed
  <2>4. DOMAIN next = CaseFields /\ next.at = "link" /\ next.issue = job.issue /\ next.links = links
    BY <1>2, <2>1 DEF IsJob, CaseFields
  <2>5. JobNamed(next)'
    BY <1>1, <1>2, <2>3, <2>4, NamedOn
  <2>6. \A l \in issueLinks' : l.issue \in Issues'
    <3>1. issueLinks' \subseteq issueLinks \union {Head(job.links)}
      BY <1>2, <1>4 DEF AddLink, Linked
    <3>2. Head(job.links).issue \in Issues
      BY <1>2, <2>2 DEF JobNamed
    <3> QED
      BY <1>1, <3>1, <3>2 DEF IssuesNamed, Issues
  <2>7. \A k \in DOMAIN affected' : EntityNamed(affected[k])'
    BY <1>1 DEF IssuesNamed, EntityNamed, Issues
  <2> QED
    BY <1>1, <2>1, <2>5, <2>6, <2>7, NamedGoesOn DEF Issues, IssuesNamed
<1> QED
  BY <1>3, <1>4

(* The upsert of entities gives new rows the issue and the entities of its report. *)
LEMMA NamedUpserted ==
  ASSUME CaseRows, IssuesNamed, NEW w \in Investigators, UpsertEntities(w)
  PROVE  IssuesNamed'
<1>1. UNCHANGED <<issues, issueLinks>> /\ agents[w] # None /\ agents[w].at = "upsert"
  BY DEF UpsertEntities, WorksAt
<1>2. PICK job : job = agents[w] /\ IsJob(job) /\ JobNamed(job)
  BY <1>1 DEF CaseRows, IssuesNamed
<1>3. job.issue \in Issues /\ DOMAIN job.entities \subseteq Accounts \union {Redacted}
  BY <1>1, <1>2 DEF JobNamed, IsJob, EntityMap
<1>4. Upserted(job)
  BY <1>2, UpsertRows
<1>5. ASSUME NEW k \in DOMAIN affected' PROVE EntityNamed(affected[k])'
  <2>1. PICK row : row = affected'[k]
    OBVIOUS
  <2>2. EntityNamed(row)
    <3>1. CASE k \in DOMAIN affected
      <4>1. IsEntity(affected[k]) /\ EntityNamed(affected[k])
        BY <3>1 DEF CaseRows, IssuesNamed
      <4>2. row = affected[k] \/ \E traces : row = [affected[k] EXCEPT !.traces = traces]
        BY <1>4, <2>1, <3>1 DEF Upserted
      <4> QED
        BY <4>1, <4>2 DEF EntityNamed, IsEntity
    <3>2. CASE k \notin DOMAIN affected
      <4>1. PICK e \in DOMAIN job.entities : row = NewRow(job, e)
        BY <1>4, <2>1, <3>2 DEF Upserted
      <4> QED
        BY <1>3, <4>1 DEF NewRow, EntityNamed
    <3> QED
      BY <3>1, <3>2
  <2> QED
    BY <1>1, <2>1, <2>2 DEF EntityNamed, Issues
<1>6. PICK links, next :
        /\ \A n \in DOMAIN links : links[n].issue = job.issue
        /\ next = [job EXCEPT !.at = "own links", !.first = None, !.links = links]
        /\ GoesOn(w, next)
  BY <1>2, UpsertTurn
<1>7. DOMAIN next = CaseFields /\ next.issue = job.issue /\ next.links = links
  BY <1>2, <1>6 DEF IsJob, CaseFields
<1>8. JobNamed(next)'
  BY <1>1, <1>2, <1>3, <1>6, <1>7, NamedOn
<1>9. \A l \in issueLinks' : l.issue \in Issues'
  BY <1>1 DEF IssuesNamed, Issues
<1> QED
  BY <1>1, <1>5, <1>6, <1>8, <1>9, NamedGoesOn DEF Issues, IssuesNamed

(* A deletion scrubs rows, and no row loses its issue. *)
LEMMA NamedDeleted ==
  ASSUME CaseRows, IssuesNamed, NEW t \in CaseTraces, DeleteCase(t)
  PROVE  IssuesNamed'
<1>1. DOMAIN issues' = DOMAIN issues /\ Numbered(issues')
  <2>1. issues' = [i \in DOMAIN issues |-> IF issues[i] = t THEN None ELSE issues[i]]
    BY DEF DeleteCase
  <2>2. issues' \in [DOMAIN issues -> {IF issues[i] = t THEN None ELSE issues[i] : i \in DOMAIN issues}]
    BY <2>1
  <2> QED
    BY <2>2, NumberedAnew DEF IssuesNamed
<1>2. ASSUME NEW k \in DOMAIN affected' PROVE EntityNamed(affected[k])'
  <2>1. PICK row, old : row = affected'[k] /\ old = affected[k] /\ row = ScrubEntity(old, t)
                        /\ EntityNamed(old) /\ IsEntity(old)
    BY Deletion DEF IssuesNamed, CaseRows
  <2>2. EntityNamed(row)
    BY <2>1 DEF ScrubEntity, EntityNamed, IsEntity
  <2> QED
    BY <1>1, <2>1, <2>2 DEF EntityNamed, Issues
<1>3. \A l \in issueLinks' : l.issue \in Issues'
  BY <1>1, Deletion DEF IssuesNamed, Issues
<1>4. \A w \in Investigators : agents'[w] # None => JobNamed(agents[w])'
  BY <1>1, Deletion DEF IssuesNamed, JobNamed, Issues
<1> QED
  BY <1>1, <1>2, <1>3, <1>4 DEF IssuesNamed

(* A remediation writes a status, and may go on to a link. *)
LEMMA NamedUpdated ==
  ASSUME CaseRows, IssuesNamed, NEW w \in Investigators, NEW k \in DOMAIN affected,
         NEW status \in {"contacted", "fixed"}, NEW remediated \in BOOLEAN,
         UpdateEntity(w, k, status, remediated)
  PROVE  IssuesNamed'
<1>1. UNCHANGED <<issues, issueLinks>>
  BY DEF UpdateEntity
<1>2. ASSUME NEW j \in DOMAIN affected' PROVE EntityNamed(affected[j])'
  <2>1. PICK row, old :
          /\ row = affected'[j] /\ old = affected[j] /\ EntityNamed(old) /\ IsEntity(old)
          /\ row = old \/ row = [old EXCEPT !.status = status]
    BY DEF UpdateEntity, IssuesNamed, CaseRows
  <2>2. EntityNamed(row)
    BY <2>1 DEF EntityNamed, IsEntity
  <2> QED
    BY <1>1, <2>1, <2>2 DEF EntityNamed, Issues
<1>3. \A l \in issueLinks' : l.issue \in Issues'
  BY <1>1 DEF IssuesNamed, Issues
<1>4. CASE ~remediated
  <2>1. agents' = agents
    BY <1>4 DEF UpdateEntity
  <2> QED
    BY <1>1, <1>2, <1>3, <2>1 DEF IssuesNamed, JobNamed, Issues
<1>5. CASE remediated
  <2>1. PICK i, links, job, x :
          /\ i = affected[k].issue /\ x = ToLink(i, <<"remedy", k>>, "remediated_by", affected[k].traces)
          /\ links = <<x>>
          /\ job = [Job("link", "remedy", i, None) EXCEPT !.links = links] /\ GoesOn(w, job)
    BY <1>5 DEF UpdateEntity
  <2>2. i \in Issues /\ x.issue = i
    BY <2>1 DEF IssuesNamed, EntityNamed, ToLink
  <2>3. job.at = "link" /\ job.issue = i /\ job.links = links
    BY <2>1, JobBegins DEF CaseFields
  <2>4. \A n \in DOMAIN links : links[n].issue = i
    BY <2>1, <2>2, OneLink
  <2>5. JobNamed(job)'
    BY <1>1, <2>2, <2>3, <2>4 DEF JobNamed, Issues
  <2> QED
    BY <1>1, <1>2, <1>3, <2>1, <2>5, NamedGoesOn DEF Issues, IssuesNamed
<1> QED
  BY <1>4, <1>5

LEMMA NamedStep ==
  ASSUME CaseRows, IssuesNamed, [CaseNext]_caseVars
  PROVE  IssuesNamed'
<1>1. CASE UNCHANGED caseVars
  BY <1>1 DEF caseVars, IssuesNamed, EntityNamed, JobNamed, Issues
<1>2. ASSUME NEW t \in CaseTraces, NEW accounts \in SUBSET Accounts, ArriveTrace(t, accounts)
      PROVE  IssuesNamed'
  <2>1. UNCHANGED <<issues, affected, issueLinks, agents>>
    BY <1>2 DEF ArriveTrace, remedies
  <2> QED
    BY <2>1 DEF IssuesNamed, EntityNamed, JobNamed, Issues
<1>3. ASSUME NEW t \in CaseTraces, NEW i \in DOMAIN issues, LinkTrace(i, t)
      PROVE  IssuesNamed'
  <2>1. UNCHANGED <<issues, affected, agents>>
    BY <1>3 DEF LinkTrace, remedies
  <2>2. \A l \in issueLinks' : l.issue \in Issues
    BY <1>3 DEF LinkTrace, Linked, ToLink, IssuesNamed, Issues
  <2> QED
    BY <2>1, <2>2 DEF IssuesNamed, EntityNamed, JobNamed, Issues
<1>4. ASSUME NEW seed, OpenIssue(seed)
      PROVE  IssuesNamed'
  <2>1. UNCHANGED <<affected, issueLinks, agents>> /\ Issues \subseteq Issues' /\ Numbered(issues')
    BY <1>4, IssueCreated DEF OpenIssue, remedies
  <2> QED
    BY <2>1 DEF IssuesNamed, EntityNamed, JobNamed
<1> QED
  BY <1>1, <1>2, <1>3, <1>4, NamedStarts, NamedSource, NamedKept, NamedLinks, NamedUpserted, NamedDeleted,
     NamedUpdated DEF CaseNext

(* Whatever is deleted and whoever writes at the same time, a row of remediation, a link and
   a run name issues, accounts, traces and tasks that there are. *)
THEOREM CasesTyped == CaseSpec => []CaseTypeOK
<1>1. CaseInit => IssuesNamed
  BY NoRows DEF CaseInit, IssuesNamed
<1>2. CaseRows /\ IssuesNamed /\ [CaseNext]_caseVars => IssuesNamed'
  BY NamedStep
<1>3. CaseRows /\ IssuesNamed /\ EvidenceSound => CaseTypeOK
  <2>1. SUFFICES ASSUME CaseRows, IssuesNamed, EvidenceSound
                 PROVE  CaseTypeOK
    OBVIOUS
  <2>2. ASSUME NEW r \in DOMAIN inquiries, NEW q, q = inquiries[r]
        PROVE  /\ q.cites \subseteq CaseTraces /\ q.tasks \subseteq DOMAIN caseTasks
               /\ \A k \in DOMAIN q.hypotheses : q.hypotheses[k].traces \subseteq CaseTraces
    <3>1. InquirySound(q) /\ q.tasks \in {{}, Own(r)}
      BY <2>1, <2>2 DEF EvidenceSound, EvidenceTables
    <3> QED
      BY <3>1 DEF InquirySound, StandsNow, Own
  <2>3. \A k \in DOMAIN affected : EntityNamed(affected[k]) /\ IsEntity(affected[k])
    BY <2>1 DEF IssuesNamed, CaseRows
  <2>4. \A p \in DOMAIN packs : PackSound(packs[p]) /\ IsPack(packs[p])
    BY <2>1 DEF CaseRows, EvidenceSound, EvidenceTables
  <2> QED
    BY <2>1, <2>2, <2>3, <2>4
    DEF CaseTypeOK, EntityNamed, IsEntity, PackSound, IsPack, IssuesNamed, Issues
<1> QED
  BY <1>1, <1>2, <1>3, CaseTyping, EvidenceAlways, PTL DEF CaseSpec

(* However evals and investigations interleave, the rows and what is under way of both
   are of their types. *)
THEOREM AnalysisTyped == EvalSpec /\ CaseSpec => []AnalysisTypeOK
<1>1. EvalTypeOK /\ CaseTypeOK => AnalysisTypeOK
  BY DEF AnalysisTypeOK
<1>. QED
  BY <1>1, EvalTables, CasesTyped, PTL
=============================================================================
