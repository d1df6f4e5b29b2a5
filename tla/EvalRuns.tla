------------------------------ MODULE EvalRuns ------------------------------
(***************************************************************************)
(* Offline evals of one dataset version: a run resolves, judges and        *)
(* records one example after the other while clients go on storing spans   *)
(* and deleting traces; runs are compared; and the Now feed proposes to    *)
(* revert the prompt when the pass rate of the last run is lower than that *)
(* of the one before.                                                      *)
(*                                                                         *)
(* A run has a panel of judges: rules, each of which fails a trace that    *)
(* has a span it matches, and rubrics, of which a model is asked.  A judge *)
(* of another type, or a rubric when no model is configured, gives no      *)
(* score, and is left out of the panel.  An approved revert commits a      *)
(* version and moves the tag in one transaction.  The feed derives and     *)
(* upserts its event in one step (its races are in NowEvents).             *)
(***************************************************************************)
EXTENDS Assertions, SequencesExt

CONSTANTS Evaluators,      \* request threads of the API
          SourceTraces, Spans,  \* traces, span records: the state of a span at one upsert
          Matched,         \* of each rule, the span records it matches
          Rubrics, RubricVerdicts,  \* and what a model may say; "unknown": invalid output
          Panels,          \* the judges of a run that give scores, in their order
          Wants,           \* assertions of an example; None: it has none
          Runners,         \* "in_process_function", "command", one of no known type
          MaxExamples, MaxEvals, MaxPrompts  \* bounds

ASSUME EvalAssumption ==
  /\ {MaxExamples, MaxEvals, MaxPrompts} \subseteq Nat
  /\ Matched \in [DOMAIN Matched -> SUBSET Spans]
  /\ Panels \subseteq Seq(DOMAIN Matched \union Rubrics)
  /\ RubricVerdicts \subseteq {"pass", "fail", "unsure", "unknown"}
  /\ Runners \subseteq {"in_process_function", "command", "unsupported"}
  /\ None \notin Nat \union {"pass", "fail", "unsure", "unknown"}

VARIABLES stored,     \* the spans of each trace; None: no row
          dataset,    \* the examples; None: deleted
          evals,      \* the rows of eval_runs
          results,    \* the rows of eval_results
          prompts,    \* the text of each version of the prompt
          prod,       \* the version with the tag "prod"
          reverts,    \* the Now event about each run
          evaluators, \* the requests in flight
          touched,    \* history: runs some of whose rows a deletion took, or missed
          owner       \* history: the run whose event moved the tag last; None: a user did

evalVars == <<stored, dataset, evals, results, prompts, prod, reverts, evaluators, touched, owner>>
promptRegistry == <<prompts, prod, reverts, owner>>
evalTables == <<evals, results, touched>>

EvalInit ==
  /\ stored = [t \in SourceTraces |-> None]
  /\ dataset = <<>> /\ evals = <<>> /\ results = {}
  /\ prompts = <<>> /\ prod = None /\ reverts = <<>>
  /\ evaluators = [w \in Evaluators |-> None]
  /\ touched = {} /\ owner = None

Free(w) == evaluators[w] = None
EvaluatorAt(w, step) == evaluators[w] # None /\ evaluators[w].at = step
Moves(w, job) == evaluators' = [evaluators EXCEPT ![w] = job]

-----------------------------------------------------------------------------
(* Clients: traces, examples, prompt versions. *)

SpansOf(t) == IF stored[t] = None THEN {} ELSE stored[t]

\* upsert_span: a span is one row, whatever trace it was stored with before.
SpansUpserted(u, records) ==
  LET kept(t) == {s \in SpansOf(t) : \A r \in records : s.id # r.id}
  IN [t \in SourceTraces |->
        IF t = u THEN kept(t) \union records ELSE IF stored[t] = None THEN None ELSE kept(t)]

StoreSpan(t, s) ==
  /\ s \notin SpansOf(t)
  /\ stored' = SpansUpserted(t, {s})
  /\ UNCHANGED <<dataset, evalTables, promptRegistry, evaluators>>

AddToDataset(t, want) ==
  /\ Len(dataset) < MaxExamples
  /\ stored[t] # None
  /\ dataset' = Append(dataset, [trace |-> t, want |-> want])
  /\ UNCHANGED <<stored, evalTables, promptRegistry, evaluators>>

ExamplesOf(t) == {e \in DOMAIN dataset : dataset[e] # None /\ dataset[e].trace = t}

\* tombstone_trace: the row of the trace stays, without its spans.
DeleteTrace(t) ==
  /\ stored[t] # None
  /\ stored' = [stored EXCEPT ![t] = {}]
  /\ dataset' = [e \in DOMAIN dataset |-> IF e \in ExamplesOf(t) THEN None ELSE dataset[e]]
  /\ results' = {r \in results : r.example \notin ExamplesOf(t)}
  /\ touched' = touched \union {r.run : r \in results \ results'}
  /\ UNCHANGED <<evals, promptRegistry, evaluators>>

CommitPromptText(text, tagged) ==
  /\ Len(prompts) < MaxPrompts
  /\ prompts' = Append(prompts, text)
  /\ prod' = IF tagged THEN Len(prompts') ELSE prod
  /\ owner' = IF tagged THEN None ELSE owner
  /\ UNCHANGED <<stored, dataset, evalTables, reverts, evaluators>>

-----------------------------------------------------------------------------
(* A run. *)

\* The scores of results: whose it is, and by which judge.
Scores(rows) == UNION {{r} \X DOMAIN r.scores : r \in rows}
Passing(rows) == {x \in Scores(rows) : x[1].scores[x[2]] = "pass"}

\* Fault: the examples that could not be judged are left out.
JudgedOnly(rows) ==
  [total |-> Cardinality({r \in rows : r.scores # <<>>}),
   passes |-> Cardinality(Passing(rows)),
   verdicts |-> Cardinality(Scores(rows))]

\* _summarize_results.
Summary(rows) ==
  [total |-> Cardinality(rows),
   passes |-> Cardinality(Passing(rows)),
   verdicts |-> Cardinality(Scores(rows))]

NoSummary == Summary({})

StartEval(w, panel, runner, version) ==
  /\ Free(w) /\ Len(evals) < MaxEvals
  /\ evals' = Append(evals, [status |-> "running", version |-> version, summary |-> NoSummary])
  /\ Moves(w, [at |-> "list", run |-> Len(evals'), judges |-> panel, runner |-> runner,
               todo |-> {}, done |-> {}, trace |-> None, row |-> None])
  /\ UNCHANGED <<stored, dataset, results, touched, promptRegistry>>

ListExamples(w) ==
  /\ EvaluatorAt(w, "list")
  /\ Moves(w, [evaluators[w] EXCEPT !.at = "resolve",
                 !.todo = {<<e, dataset[e]>> : e \in {x \in DOMAIN dataset : dataset[x] # None}}])
  /\ UNCHANGED <<stored, dataset, evalTables, promptRegistry>>

\* The example a run has come to, as it was listed: the newest of those left.
NextExample(job) == CHOOSE x \in job.todo : \A y \in job.todo : y[1] <= x[1]

\* To judge a trace for it, or to record what came of it.
Examine(job, u) == [job EXCEPT !.at = "judge", !.trace = u]
Recording(job, status, u, scores, asserted) ==
  [job EXCEPT !.at = "record",
              !.row = [run |-> job.run, example |-> NextExample(job)[1], trace |-> u, status |-> status,
                       scores |-> scores, asserted |-> asserted]]

Resolving(w, runner) ==
  EvaluatorAt(w, "resolve") /\ evaluators[w].todo # {} /\ evaluators[w].runner = runner

\* _resolve_offline_trace, with the runner that uses the source trace.
ResolveInProcess(w) ==
  /\ Resolving(w, "in_process_function")
  /\ Moves(w, Examine(evaluators[w], NextExample(evaluators[w])[2].trace))
  /\ UNCHANGED <<stored, dataset, evalTables, promptRegistry>>

RunnerUnknown(w) ==
  /\ Resolving(w, "unsupported")
  /\ LET job == evaluators[w]
     IN Moves(w, Recording(job, "skipped", NextExample(job)[2].trace, <<>>, None))
  /\ UNCHANGED <<stored, dataset, evalTables, promptRegistry>>

\* A command that times out, exits with an error or prints what is no JSON object; an
\* endpoint that does not answer.
RunnerFails(w) ==
  /\ Resolving(w, "command")
  /\ Moves(w, Recording(evaluators[w], "failed", None, <<>>, None))
  /\ UNCHANGED <<stored, dataset, evalTables, promptRegistry>>

\* Its output names a trace, which may not be there.
RunnerNames(w, u) ==
  /\ Resolving(w, "command")
  /\ Moves(w, Examine(evaluators[w], u))
  /\ UNCHANGED <<stored, dataset, evalTables, promptRegistry>>

\* Or holds one, and its spans, of which the first that is not an object ends the
\* ingestion.
Distinct(records) == \A r, s \in records : r.id = s.id => r = s

IngestOutput(w, u, output, complete) ==
  /\ Resolving(w, "command")
  /\ Distinct(output)
  /\ stored' = SpansUpserted(u, output)
  /\ Moves(w, IF complete THEN Examine(evaluators[w], u)
              ELSE Recording(evaluators[w], "failed", u, <<>>, None))
  /\ UNCHANGED <<dataset, evalTables, promptRegistry>>

RuleVerdict(rule, spans) == IF spans \intersect Matched[rule] = {} THEN "pass" ELSE "fail"

MaySay(judge, spans) ==
  IF judge \in DOMAIN Matched THEN {RuleVerdict(judge, spans)} ELSE RubricVerdicts

AssertionStatus(spans, want) ==
  IF want = None THEN None ELSE IF AssertionsFail(spans, want) THEN "failed" ELSE "passed"

\* Fault: the result has the status of its assertions.
StatusOfAssertions(asserted, scores) == asserted

ResultStatus(asserted, scores) ==
  CASE asserted = "failed" -> "failed"
    [] asserted # "failed" /\ (scores # <<>> \/ asserted # None) -> "succeeded"
    [] OTHER -> "skipped"

\* The trace, its spans, each judge of the run and the assertions of the example.
JudgeExample(w, scores) ==
  /\ EvaluatorAt(w, "judge")
  /\ LET job == evaluators[w]
         spans == SpansOf(job.trace)
         asserted == AssertionStatus(spans, NextExample(job)[2].want)
     IN \/ /\ stored[job.trace] = None /\ scores = <<>>
           /\ Moves(w, Recording(job, "failed", job.trace, <<>>, None))
        \/ /\ stored[job.trace] # None
           /\ Len(scores) = Len(job.judges)
           /\ \A i \in DOMAIN scores : scores[i] \in MaySay(job.judges[i], spans)
           /\ Moves(w, Recording(job, ResultStatus(asserted, scores), job.trace, scores, asserted))
  /\ UNCHANGED <<stored, dataset, evalTables, promptRegistry>>

TodoAfter(job) == job.todo \ {NextExample(job)}

RecordResult(w) ==
  /\ EvaluatorAt(w, "record")
  /\ LET job == evaluators[w] IN
       /\ results' = results \union {job.row}
       /\ touched' = IF dataset[job.row.example] = None THEN touched \union {job.run} ELSE touched
       /\ Moves(w, [job EXCEPT !.at = "resolve", !.todo = TodoAfter(job),
                    !.done = @ \union {job.row}, !.trace = None, !.row = None])
  /\ UNCHANGED <<stored, dataset, evals, promptRegistry>>

CompleteEval(w) ==
  /\ EvaluatorAt(w, "resolve") /\ evaluators[w].todo = {}
  /\ evals' = [evals EXCEPT ![evaluators[w].run].status = "completed",
                            ![evaluators[w].run].summary = Summary(evaluators[w].done)]
  /\ Moves(w, None)
  /\ UNCHANGED <<stored, dataset, results, touched, promptRegistry>>

\* Calls of models are disabled, a statement fails, or the process stops: the run
\* stays as it is.
EvalStops(w) ==
  /\ ~Free(w)
  /\ Moves(w, None)
  /\ UNCHANGED <<stored, dataset, evalTables, promptRegistry>>

-----------------------------------------------------------------------------
(* Comparison. *)

RowsOf(r) == {x \in results : x.run = r}

\* The first score counts, if it has a value.
FirstVerdict(row) ==
  IF row.scores = <<>> \/ row.scores[1] = "unknown" THEN None ELSE row.scores[1]

VerdictOn(r, e) ==
  LET rows == {x \in RowsOf(r) : x.example = e}
  IN IF rows = {} THEN None ELSE FirstVerdict(CHOOSE x \in rows : TRUE)

\* Fault: only what passed can fail anew.
PassedToFail(b, c) ==
  {e \in 1 .. MaxExamples : VerdictOn(b, e) = "pass" /\ VerdictOn(c, e) = "fail"}

NewFailures(b, c) == {e \in 1 .. MaxExamples : VerdictOn(b, e) # "fail" /\ VerdictOn(c, e) = "fail"}

\* _pass_rate is passes / Of; that of no scores is zero.
Of(summary) == IF summary.verdicts = 0 THEN 1 ELSE summary.verdicts

Lower(new, old) == new.passes * Of(old) < old.passes * Of(new)

\* Lower by 0.05 or more.
FallsEnough(new, old) ==
  20 * new.passes * Of(old) + Of(old) * Of(new) <= 20 * old.passes * Of(new)

-----------------------------------------------------------------------------
(* The feed. *)

FailingTraces(r) ==
  {x.trace : x \in {y \in RowsOf(r) :
     y.trace # None /\ (y.status = "failed" \/ \E i \in DOMAIN y.scores : y.scores[i] = "fail")}}

\* _eval_trend_interpretation of the two last runs, and the prompt of both.
Regressed ==
  /\ Len(evals) >= 2
  /\ LET new == evals[Len(evals)]
         old == evals[Len(evals) - 1]
     IN FallsEnough(new.summary, old.summary) /\ None \notin {new.version, old.version}

\* The upsert refreshes an event, and reopens a closed one that has new traces.
PollEvals ==
  /\ Regressed
  /\ LET r == Len(evals)
         found == FailingTraces(r)
         known == r \in DOMAIN reverts
         closed == known /\ reverts[r].stage = "close"
     IN /\ closed => ~(found \subseteq reverts[r].traces)
        /\ reverts' = [k \in DOMAIN reverts \union {r} |->
             IF k # r THEN reverts[k]
             ELSE [stage |-> IF known /\ ~closed THEN reverts[r].stage ELSE "propose_fix",
                   traces |-> found,
                   target |-> evals[r - 1].version,
                   commit |-> IF known THEN reverts[r].commit ELSE None]]
  /\ UNCHANGED <<stored, dataset, evalTables, prompts, prod, evaluators, owner>>

StartRevert(w, r) ==
  /\ Free(w)
  /\ reverts[r].stage = "propose_fix" \/ (reverts[r].stage = "verify" /\ reverts[r].commit = None)
  /\ Moves(w, [at |-> "revert", run |-> r, target |-> reverts[r].target])
  /\ UNCHANGED <<stored, dataset, evalTables, promptRegistry>>

\* Fault: the version that is there is copied.
CopyLatest(target) == prompts[Len(prompts)]

RevertedText(target) == prompts[target]

\* _apply_now_revert_prompt
CommitRevert(w) ==
  /\ EvaluatorAt(w, "revert")
  /\ Len(prompts) < MaxPrompts
  /\ prompts' = Append(prompts, RevertedText(evaluators[w].target))
  /\ prod' = Len(prompts')
  /\ owner' = evaluators[w].run
  /\ Moves(w, [at |-> "reverted", run |-> evaluators[w].run, commit |-> prod'])
  /\ UNCHANGED <<stored, dataset, evalTables, reverts>>

MarkReverted(w) ==
  /\ EvaluatorAt(w, "reverted")
  /\ reverts' = [reverts EXCEPT ![evaluators[w].run].stage = "verify",
                                ![evaluators[w].run].commit = evaluators[w].commit]
  /\ Moves(w, None)
  /\ UNCHANGED <<stored, dataset, evalTables, prompts, prod, owner>>

VerifyRevert(r) ==
  /\ reverts[r].stage # "close"
  /\ reverts' = [reverts EXCEPT ![r].stage =
                   IF reverts[r].commit # None /\ prod = reverts[r].commit THEN "close" ELSE "verify"]
  /\ UNCHANGED <<stored, dataset, evalTables, prompts, prod, evaluators, owner>>

IgnoreRevert(r) ==
  /\ reverts' = [reverts EXCEPT ![r].stage = "close"]
  /\ UNCHANGED <<stored, dataset, evalTables, prompts, prod, evaluators, owner>>

-----------------------------------------------------------------------------
Verdicts == RubricVerdicts \union {"pass", "fail"}

\* One step of a run.
EvalStep(w) ==
  \/ ListExamples(w) \/ ResolveInProcess(w) \/ RunnerUnknown(w) \/ RunnerFails(w)
  \/ \E u \in SourceTraces : RunnerNames(w, u)
  \/ \E u \in SourceTraces, output \in SUBSET Spans, complete \in BOOLEAN :
       IngestOutput(w, u, output, complete)
  \/ \E n \in {0} \union {Len(panel) : panel \in Panels} :
       \E scores \in [1 .. n -> Verdicts] : JudgeExample(w, scores)
  \/ RecordResult(w) \/ CompleteEval(w)

EvalNext ==
  \/ \E t \in SourceTraces :
       \/ \E s \in Spans : StoreSpan(t, s)
       \/ \E want \in Wants : AddToDataset(t, want)
       \/ DeleteTrace(t)
  \/ \E text \in {"x", "y"}, tagged \in BOOLEAN : CommitPromptText(text, tagged)
  \/ \E w \in Evaluators :
       \/ \E panel \in Panels, runner \in Runners,
            version \in DOMAIN prompts \union {None} : StartEval(w, panel, runner, version)
       \/ EvalStep(w) \/ EvalStops(w)
       \/ \E r \in DOMAIN reverts : StartRevert(w, r)
       \/ CommitRevert(w) \/ MarkReverted(w)
  \/ PollEvals
  \/ \E r \in DOMAIN reverts : VerifyRevert(r) \/ IgnoreRevert(r)

EvalSpec == EvalInit /\ [][EvalNext]_evalVars

-----------------------------------------------------------------------------
EvalTypeOK ==
  /\ \A t \in SourceTraces : SpansOf(t) \subseteq Spans
  /\ \A r \in DOMAIN evals : evals[r].status \in {"running", "completed"}
                             /\ evals[r].summary.passes <= evals[r].summary.verdicts
  /\ \A x \in results : x.run \in DOMAIN evals /\ x.example \in DOMAIN dataset
                        /\ x.status \in {"succeeded", "failed", "skipped"}
  /\ Len(prompts) <= MaxPrompts /\ prod \in DOMAIN prompts \union {None}
  /\ \A r \in DOMAIN reverts : reverts[r].stage \in {"propose_fix", "verify", "close"}

\* The summary that a run keeps in memory while it goes is what its stored rows say
\* when it has completed, as long as no deletion has taken one of them.
SummaryIsTheRows ==
  \A r \in DOMAIN evals \ touched :
    evals[r].status = "completed" =>
      LET rows == RowsOf(r)
          scored(Test(_)) == UNION {{<<x, i>> : i \in {k \in DOMAIN x.scores : Test(x.scores[k])}} :
                                      x \in rows}
      IN evals[r].summary = [total |-> Cardinality(rows),
                             passes |-> Cardinality(scored(LAMBDA v : v = "pass")),
                             verdicts |-> Cardinality(scored(LAMBDA v : TRUE))]

\* What the i-th judge of a run says of an example.
SaidOf(r, e, i) ==
  {x.scores[i] : x \in {y \in RowsOf(r) : y.example = e /\ i \in DOMAIN y.scores}}

\* A pass that is lost, or a verdict other than pass where there was none.
Worsened(old, new) ==
  \/ "pass" \in old /\ "pass" \notin new
  \/ new \ {"pass"} # {} /\ old \subseteq {"pass"}

OneJudge(r) == \A x \in RowsOf(r) : Len(x.scores) <= 1

\* What compare_eval_runs shows of a rate that has fallen: a new failure, or an example
\* whose verdict is neither pass nor fail, where it passed or had none.
Shows(b, c) ==
  \/ NewFailures(b, c) # {}
  \/ \E e \in 1 .. MaxExamples :
       /\ VerdictOn(c, e) \notin {"pass", "fail"}
       /\ \/ VerdictOn(b, e) = "pass"
          \/ ~\E x \in RowsOf(b) : x.example = e /\ x.scores # <<>>

\* compare_eval_runs takes the rates from the summaries and the failures from the
\* rows, and they agree: when the rate is lower, some judge's verdict on some example
\* has worsened; and the comparison shows it, if runs have one judge.
RegressionExplained ==
  \A b, c \in DOMAIN evals \ touched :
    /\ evals[b].status = "completed" /\ evals[c].status = "completed"
    /\ Lower(evals[c].summary, evals[b].summary)
    => /\ \E x \in RowsOf(b) \union RowsOf(c) : \E i \in DOMAIN x.scores :
            Worsened(SaidOf(b, x.example, i), SaidOf(c, x.example, i))
       /\ OneJudge(b) /\ OneJudge(c) => Shows(b, c)

\* What a run and a comparison of runs report is what the stored results say.
ReportsExplained == SummaryIsTheRows /\ RegressionExplained

\* While nobody moves the tag after an approved revert, however the approval was
\* interrupted, repeated or overtaken, "prod" has the text of the run before.
RevertRestores ==
  owner \in DOMAIN reverts => prompts[prod] = prompts[reverts[owner].target]

-----------------------------------------------------------------------------
(* What the documents say, and the code does not keep. *)

\* "The latest eval regressed relative to the prior run" (storage.py:4117): some
\* verdict of the run that is blamed is not a pass.
BlamedRunsRegressed ==
  \A r \in DOMAIN reverts \ touched :
    \E x \in RowsOf(r) : x.scores = <<>> \/ \E i \in DOMAIN x.scores : x.scores[i] # "pass"

\* A comparison shows what has failed, however many judges the runs have.
ComparisonShows ==
  \A b, c \in DOMAIN evals \ touched :
    /\ evals[b].status = "completed" /\ evals[c].status = "completed"
    /\ Lower(evals[c].summary, evals[b].summary)
    => Shows(b, c)
=============================================================================
