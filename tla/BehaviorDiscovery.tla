------------------------- MODULE BehaviorDiscovery ---------------------------
(***************************************************************************)
(* How a behavior is found and told from others: the labels of reviewers,  *)
(* backtests of detectors, behaviors that the Now feed promotes from       *)
(* labels, novelty runs that group unknown failures, with and without a    *)
(* model, and grounding checks of what an agent claimed; while traces are  *)
(* being deleted.                                                          *)
(*                                                                         *)
(* A request reads in one step; what it read may be stale when it writes.  *)
(* A trace has two spans, a failure signature, the spans a rule matches    *)
(* and the verdicts of its judge.  A candidate is named by the signatures  *)
(* it stands for; a claim by the numbers of the spans that repeat it.  Any *)
(* grouping that similarity may find, and any answer of a model, is        *)
(* allowed for; the limit on negative examples, rules about whole traces   *)
(* and the spans that a score cites are left out.                          *)
(***************************************************************************)
EXTENDS Values, Naturals, FiniteSets, SequencesExt, FiniteSetsExt

CONSTANTS Curators,       \* request threads of the API
          FailureTraces,  \* trace ids
          Signatures,     \* of failures, and names of behaviors
          BehaviorIds,
          DisplayName,    \* the name a promoted behavior gets
          Detectors,      \* of behaviors created by request
          Groupings,      \* what a model may answer: sequences of groups, of names of candidates
          Claims,         \* sets of span numbers
          Objections,     \* what a model may answer: sets of [claim, cites]
          SampleLimit,    \* sample_limit of a backtest
          MaxBacktests, MaxChecks, MaxNovelty, MaxStops  \* bounds

IsList(items) == Len(items) \in Nat /\ items = [k \in 1 .. Len(items) |-> items[k]]

ASSUME DiscoveryAssumption ==
  /\ {SampleLimit, MaxBacktests, MaxChecks, MaxNovelty, MaxStops} \subseteq Nat
  /\ IsFiniteSet(FailureTraces)
  /\ \A answer \in Groupings :
       IsList(answer) /\ \A k \in DOMAIN answer : IsList(answer[k])

\* A row of trace_metadata with its spans and scores.
FailureRow ==
  [status : {"ok", "error", "deleted"}, signature : Signatures \union {"none"}, spans : SUBSET {1, 2},
   hits : SUBSET {1, 2}, verdicts : SUBSET {"fail"}, labels : SUBSET BehaviorIds]

\* A row of review_tasks: what it is about, and the traces and spans that it cites.
ReviewRow ==
  [about : ({"behavior"} \X BehaviorIds) \union ({"check"} \X Nat)
           \union ({"novelty"} \X (Nat \X SUBSET (Signatures \union {"none"}))),
   evidence : SUBSET (FailureTraces \union (FailureTraces \X {1, 2}))]

\* What a request has in hand that has its review tasks to add.
Reviewing == [at : {"tasks"}, tasks : SUBSET ReviewRow]

ASSUME RowAssumption == None \notin FailureRow \union Reviewing

VARIABLES failures,   \* trace_metadata, with its spans and scores
          behaviors,  \* behaviors, by id
          matches,    \* behavior_matches
          proposals,  \* the traces that an event of the feed proposes a behavior for
          noveltyRuns,  \* novel_behavior_detection_runs
          checks,     \* grounding_checks; None: deleted with its trace
          curatorTasks,  \* review_tasks, by what they are about
          curators,   \* the requests in flight
          backtests, curatorStops,  \* count toward the bounds
          raced       \* history: traces changed between the read of a label and its write

discoveryVars == <<failures, behaviors, matches, proposals, noveltyRuns, checks, curatorTasks,
                   curators, backtests, curatorStops, raced>>
registry == <<behaviors, proposals>>
studies == <<noveltyRuns, checks>>
counters == <<backtests, curatorStops>>

DiscoveryInit ==
  /\ failures = [t \in FailureTraces |-> None]
  /\ behaviors = [b \in BehaviorIds |-> None]
  /\ matches = <<>> /\ proposals = [b \in BehaviorIds |-> {}]
  /\ noveltyRuns = <<>> /\ checks = <<>> /\ curatorTasks = {}
  /\ curators = [w \in Curators |-> None]
  /\ backtests = 0 /\ curatorStops = 0 /\ raced = {}

There == {t \in FailureTraces : failures[t] # None}
FreeCurator(w) == curators[w] = None
CuratorAt(w, step) == curators[w] # None /\ curators[w].at = step
Proceeds(w, job) == curators' = [curators EXCEPT ![w] = job]

-----------------------------------------------------------------------------
(* Traces. *)

Failure(status, signature, hits, verdicts) ==
  [status |-> status, signature |-> signature, spans |-> {1, 2}, hits |-> hits, verdicts |-> verdicts,
   labels |-> {}]

\* What is left of a deleted trace, and found by searches.
Deleted == [Failure("deleted", "none", {}, {}) EXCEPT !.spans = {}]

SpanIds(t, numbers) == {t} \X numbers

\* The rows at these positions of a table, or the items of a list.
RowsAt(rows, positions) ==
  LET kept == SetToSeq(positions) IN [n \in DOMAIN kept |-> rows[kept[n]]]

StoreFailure(t, status, signature, hits, verdicts) ==
  /\ failures[t] = None
  /\ failures' = [failures EXCEPT ![t] = Failure(status, signature, hits, verdicts)]
  /\ UNCHANGED <<registry, matches, studies, curatorTasks, curators, counters, raced>>

\* The rows of the trace go, and what reviews cite of it.
DeleteFailure(t) ==
  /\ t \in There
  /\ failures' = [failures EXCEPT ![t] = Deleted]
  /\ matches' = RowsAt(matches, {k \in DOMAIN matches : matches[k].trace # t})
  /\ checks' = [k \in DOMAIN checks |->
                  IF checks[k] # None /\ checks[k].trace = t THEN None ELSE checks[k]]
  /\ curatorTasks' = {[task EXCEPT !.evidence = @ \ ({t} \union SpanIds(t, {1, 2}))] : task \in curatorTasks}
  /\ raced' = raced \union {t}
  /\ UNCHANGED <<registry, noveltyRuns, curators, counters>>

-----------------------------------------------------------------------------
(* Labels, and the behaviors that the feed makes of them. *)

\* label_trace_behavior reads the trace,
ReadForLabel(w, t, b) ==
  /\ FreeCurator(w) /\ t \in There
  /\ Proceeds(w, [at |-> "label", trace |-> t, behavior |-> b, read |-> failures[t]])
  /\ UNCHANGED <<failures, registry, matches, studies, curatorTasks, counters, raced>>

\* Fault: a label takes the place of those there.
Relabelled(row, b) == [row EXCEPT !.labels = {b}]

Labelled(row, b) == [row EXCEPT !.labels = @ \union {b}]

Written(row, there) ==
  [row EXCEPT !.spans = there.spans, !.hits = there.hits, !.verdicts = there.verdicts]

\* writes it back whole; the spans and scores of a deleted trace do not return,
WriteLabel(w) ==
  /\ CuratorAt(w, "label")
  /\ LET job == curators[w]
     IN /\ failures' = [failures EXCEPT ![job.trace] = Written(Labelled(job.read, job.behavior), @)]
        /\ raced' = IF failures[job.trace] = job.read THEN raced ELSE raced \union {job.trace}
        /\ Proceeds(w, [job EXCEPT !.at = "confirm"])
  /\ UNCHANGED <<registry, matches, studies, curatorTasks, counters>>

\* Fault: the match there was stays.
KeepsConfirmed(m, t, b) == TRUE

OtherThanConfirmed(m, t, b) == <<m.trace, m.behavior, m.status>> # <<t, b, "confirmed">>

MatchOf(b, t, status, run, evidence) ==
  [behavior |-> b, trace |-> t, status |-> status, run |-> run, evidence |-> evidence]

\* and replaces its confirmed match.
ConfirmMatch(w, span) ==
  /\ CuratorAt(w, "confirm")
  /\ LET job == curators[w] IN
       matches' = Append(RowsAt(matches, {k \in DOMAIN matches :
                                            OtherThanConfirmed(matches[k], job.trace, job.behavior)}),
                         MatchOf(job.behavior, job.trace, "confirmed", 0, span))
  /\ Proceeds(w, None)
  /\ UNCHANGED <<failures, registry, studies, curatorTasks, counters, raced>>

ConfirmedTraces(b) ==
  {matches[k].trace : k \in {n \in DOMAIN matches : matches[n].behavior = b /\ matches[n].status = "confirmed"}}

CreateBehavior(b, name, detector, status) ==
  /\ behaviors[b] = None
  /\ behaviors' = [behaviors EXCEPT ![b] = [name |-> name, detector |-> detector, status |-> status]]

NewBehavior(b, name, detector, status) ==
  /\ CreateBehavior(b, name, detector, status)
  /\ UNCHANGED <<failures, proposals, matches, studies, curatorTasks, curators, counters, raced>>

\* _derive_behavior_now_events, for labels that name no behavior.
ProposeBehavior(b) ==
  /\ behaviors[b] = None /\ Cardinality(ConfirmedTraces(b)) >= 2
  /\ proposals' = [proposals EXCEPT ![b] = ConfirmedTraces(b)]
  /\ UNCHANGED <<failures, behaviors, matches, studies, curatorTasks, curators, counters, raced>>

\* _apply_now_add_behavior
Labels(ids) == [type |-> "manual_label", labels |-> ids]
PromoteBehavior(b) ==
  /\ proposals[b] # {}
  /\ CreateBehavior(b, DisplayName[b], Labels({DisplayName[b]}), "active")
  /\ UNCHANGED <<failures, proposals, matches, studies, curatorTasks, curators, counters, raced>>

-----------------------------------------------------------------------------
(* Review tasks are added one by one at the end of a request. *)

ReviewOf(kind, id, evidence) == [about |-> <<kind, id>>, evidence |-> evidence]
AddReviewTask(w) ==
  /\ CuratorAt(w, "tasks")
  /\ \E task \in curators[w].tasks :
       /\ curatorTasks' = curatorTasks \union {task}
       /\ Proceeds(w, IF curators[w].tasks = {task} THEN None
                      ELSE [curators[w] EXCEPT !.tasks = @ \ {task}])
  /\ UNCHANGED <<failures, registry, matches, studies, counters, raced>>

-----------------------------------------------------------------------------
(* Backtests. *)

\* evaluate_behavior_detector
DetectorMatches(detector, row) ==
  \/ detector.type = "rule" /\ (row.hits = {}) = detector.inverted
  \/ detector.type = "judge" /\ detector.verdict \in row.verdicts
  \/ detector.type = "manual_label" /\ detector.labels \intersect row.labels # {}

EvidenceOf(detector, t) ==
  IF detector.type = "rule" /\ ~detector.inverted THEN SpanIds(t, failures[t].hits) ELSE {}

\* A search may find any traces, deleted ones too.
ReadForBacktest(w, b, found) ==
  /\ FreeCurator(w) /\ behaviors[b] # None /\ backtests < MaxBacktests
  /\ found \subseteq There
  /\ backtests' = backtests + 1
  /\ LET detector == behaviors[b].detector IN
       Proceeds(w, [at |-> "replace", behavior |-> b, run |-> backtests',
                    positive |-> [t \in {u \in found : DetectorMatches(detector, failures[u])} |->
                                    EvidenceOf(detector, t)]])
  /\ UNCHANGED <<failures, registry, matches, studies, curatorTasks, curatorStops, raced>>

\* Fault: the matches of an earlier backtest of other traces stay.
OtherTraces(m, b, positive) == ~(m.behavior = b /\ m.status = "backtest_positive" /\ m.trace \in positive)

NotOfBacktests(m, b, positive) == ~(m.behavior = b /\ m.status = "backtest_positive")

\* replace_behavior_backtest_matches, with the first examples.
ReplaceMatches(w, sample) ==
  /\ CuratorAt(w, "replace")
  /\ LET job == curators[w] IN
       /\ sample \subseteq DOMAIN job.positive
       /\ Cardinality(sample) = Min({SampleLimit, Cardinality(DOMAIN job.positive)})
       /\ matches' = RowsAt(matches, {k \in DOMAIN matches : NotOfBacktests(matches[k], job.behavior, sample)})
                     \o SetToSeq({MatchOf(job.behavior, t, "backtest_positive", job.run, job.positive[t]) : t \in sample})
       /\ Proceeds(w, IF DOMAIN job.positive = {} THEN None
                      ELSE [at |-> "tasks", tasks |-> {ReviewOf("behavior", job.behavior,
                               sample \union UNION {job.positive[t] : t \in sample})}])
  /\ UNCHANGED <<failures, registry, studies, curatorTasks, counters, raced>>

-----------------------------------------------------------------------------
(* Novelty runs. *)

Unknown(t, known) ==
  failures[t].status \in {"error", "failed", "timeout"} /\ failures[t].signature \notin known

Negatives(signature, base) == {t \in base : failures[t].signature # signature}

\* detect_novel_behavior_candidates
Candidates(found, base, known) ==
  {LET positives == {t \in found : Unknown(t, known) /\ failures[t].signature = signature}
   IN [sources |-> {signature}, positives |-> positives, frequency |-> Cardinality(positives),
       negatives |-> Negatives(signature, base) \ positives]
   : signature \in {failures[t].signature : t \in {u \in found : Unknown(u, known)}}}

NegativesOfAll(group) ==
  (UNION {c.negatives : c \in Range(group)}) \ UNION {c.positives : c \in Range(group)}

\* _merge_similarity_group, of a sequence of candidates
MergeOf(group) ==
  [sources |-> UNION {c.sources : c \in Range(group)},
   positives |-> UNION {c.positives : c \in Range(group)},
   negatives |-> NegativesOfAll(group),
   frequency |-> FoldSeq(LAMBDA c, sum : sum + c.frequency, 0, group)]

\* Candidates join the one whose vector theirs is close to.
SimilarGroups(candidates, leader) ==
  {MergeOf(SetToSeq({c \in candidates : leader[c] = l})) : l \in Range(leader)}

\* Fault: a candidate may be in more than one group.
Known(name, used) == TRUE

Unused(name, used) == name \notin used

TakeGroup(named, taken, names) ==
  LET fresh == RowsAt(names, {k \in DOMAIN names : names[k] \in DOMAIN named /\ Unused(names[k], taken.used)})
  IN IF fresh = <<>> THEN taken
     ELSE [used |-> taken.used \union Range(fresh),
           groups |-> taken.groups \union {MergeOf([k \in DOMAIN fresh |-> named[fresh[k]]])}]

\* _model_grouping_success: what the model leaves out stays as it was.
ModelGroups(candidates, answer) ==
  LET named == [n \in {c.sources : c \in candidates} |-> CHOOSE c \in candidates : c.sources = n]
      taken == FoldLeft(LAMBDA acc, names : TakeGroup(named, acc, names), [used |-> {}, groups |-> {}], answer)
  IN taken.groups \union {c \in candidates : c.sources \notin taken.used}

ReadForNovelty(w, found, base) ==
  /\ FreeCurator(w) /\ Len(noveltyRuns) < MaxNovelty
  /\ found \subseteq There /\ base \subseteq There
  /\ LET known == {behaviors[b].name : b \in {c \in BehaviorIds : behaviors[c] # None /\ behaviors[c].status = "active"}}
     IN Proceeds(w, [at |-> "group", eligible |-> {t \in found : Unknown(t, known)},
                     candidates |-> Candidates(found, base, known)])
  /\ UNCHANGED <<failures, registry, matches, studies, curatorTasks, counters, raced>>

GroupSimilar(w, leader) ==
  /\ CuratorAt(w, "group") /\ curators[w].candidates # {}
  /\ DOMAIN leader = curators[w].candidates /\ \A c \in DOMAIN leader : leader[leader[c]] = leader[c]
  /\ Proceeds(w, [curators[w] EXCEPT !.at = "ask", !.candidates = SimilarGroups(@, leader)])
  /\ UNCHANGED <<failures, registry, matches, studies, curatorTasks, counters, raced>>

\* An answer that cannot be used ends the request: CuratorStops.
GroupByModel(w, answer) ==
  /\ CuratorAt(w, "group") \/ CuratorAt(w, "ask")
  /\ Proceeds(w, [curators[w] EXCEPT !.at = "persist", !.candidates = ModelGroups(@, answer)])
  /\ UNCHANGED <<failures, registry, matches, studies, curatorTasks, counters, raced>>

PersistNovelty(w) ==
  /\ \E step \in {"group", "ask", "persist"} : CuratorAt(w, step)
  /\ Len(noveltyRuns) < MaxNovelty
  /\ LET job == curators[w]
         run == Len(noveltyRuns) + 1
     IN /\ noveltyRuns' = Append(noveltyRuns, [eligible |-> job.eligible, candidates |-> job.candidates])
        /\ Proceeds(w, IF job.candidates = {} THEN None
                       ELSE [at |-> "tasks", tasks |-> {ReviewOf("novelty", <<run, c.sources>>, c.positives)
                                                        : c \in job.candidates}])
  /\ UNCHANGED <<failures, registry, matches, checks, curatorTasks, counters, raced>>

-----------------------------------------------------------------------------
(* Grounding checks. *)

ReadForGrounding(w, t, claims) ==
  /\ FreeCurator(w) /\ t \in There /\ Len(checks) < MaxChecks /\ claims \subseteq Claims
  /\ Proceeds(w, [at |-> "adjudicate", trace |-> t, claims |-> claims,
                  spans |-> failures[t].spans])
  /\ UNCHANGED <<failures, registry, matches, studies, curatorTasks, counters, raced>>

\* Fault: what the model cites is taken as it is.
AsCited(answer, claims, spans) == {o \in answer : o.claim \in claims /\ o.cites # {}}

\* _normalize_model_contradictions: known claims, with spans of the trace.
KnownObjections(answer, claims, spans) ==
  {o \in {[claim |-> o.claim, cites |-> o.cites \intersect spans] : o \in answer} :
     o.claim \in claims /\ o.cites # {}}

EvaluatedAs(claim, objections, spans) ==
  IF \E o \in objections : o.claim = claim THEN "contradicted"
  ELSE IF claim \intersect spans # {} THEN "supported" ELSE "missing_evidence"

CheckStatus(claims, objections, spans) ==
  IF objections # {} THEN "contradicted"
  ELSE IF \A claim \in claims : claim \intersect spans # {} THEN "supported" ELSE "needs_review"

\* Fault: what a model contradicts is not reviewed.
OnlyUnsupported(status) == status = "needs_review"

NeedsReview(status) == status \in {"needs_review", "contradicted"}

\* create_grounding_check, after the answer of a model that may have been asked
PersistCheck(w, answer) ==
  /\ CuratorAt(w, "adjudicate") /\ Len(checks) < MaxChecks
  /\ LET job == curators[w]
         objections == KnownObjections(answer, job.claims, job.spans)
         status == CheckStatus(job.claims, objections, job.spans)
         evidence == UNION {claim \intersect job.spans : claim \in job.claims}
     IN /\ checks' = Append(checks,
             [trace |-> job.trace, status |-> status, read |-> job.spans, evidence |-> evidence,
              claims |-> [claim \in job.claims |->
                            [status |-> EvaluatedAs(claim, objections, job.spans),
                             against |-> UNION {o.cites : o \in {p \in objections : p.claim = claim}}]]])
        /\ Proceeds(w, IF ~NeedsReview(status) THEN None
                       ELSE [at |-> "tasks", tasks |-> {ReviewOf("check", Len(checks) + 1,
                                                          {job.trace} \union SpanIds(job.trace, evidence))}])
  /\ UNCHANGED <<failures, registry, matches, noveltyRuns, curatorTasks, counters, raced>>

\* A request fails, or the process stops.
CuratorStops(w) ==
  /\ ~FreeCurator(w) /\ curatorStops < MaxStops
  /\ Proceeds(w, None) /\ curatorStops' = curatorStops + 1
  /\ UNCHANGED <<failures, registry, matches, studies, curatorTasks, backtests, raced>>

DiscoveryNext ==
  \/ \E t \in FailureTraces :
       \/ \E status \in {"ok", "error"}, signature \in Signatures, hits \in SUBSET {1, 2}, verdicts \in SUBSET {"fail"} :
            StoreFailure(t, status, signature, hits, verdicts)
       \/ DeleteFailure(t)
  \/ \E b \in BehaviorIds :
       \/ \E name \in Signatures, detector \in Detectors, status \in {"active", "archived"} :
            NewBehavior(b, name, detector, status)
       \/ ProposeBehavior(b) \/ PromoteBehavior(b)
  \/ \E w \in Curators :
       \/ \E t \in FailureTraces :
            \/ \E b \in BehaviorIds : ReadForLabel(w, t, b)
            \/ \E claims \in SUBSET Claims : ReadForGrounding(w, t, claims)
       \/ WriteLabel(w)
       \/ CuratorAt(w, "confirm") /\ \E evidence \in SUBSET SpanIds(curators[w].trace, {1}) : ConfirmMatch(w, evidence)
       \/ \E found \in SUBSET FailureTraces :
            \/ \E b \in BehaviorIds : ReadForBacktest(w, b, found)
            \/ ReplaceMatches(w, found)
            \/ \E base \in SUBSET FailureTraces : ReadForNovelty(w, found, base)
       \/ CuratorAt(w, "group") /\ \E leader \in [curators[w].candidates -> curators[w].candidates] : GroupSimilar(w, leader)
       \/ \E answer \in Groupings : GroupByModel(w, answer)
       \/ PersistNovelty(w)
       \/ \E answer \in Objections : PersistCheck(w, answer)
       \/ AddReviewTask(w) \/ CuratorStops(w)

DiscoverySpec == DiscoveryInit /\ [][DiscoveryNext]_discoveryVars

-----------------------------------------------------------------------------
(* Properties. *)

DiscoveryTypeOK ==
  /\ failures \in [FailureTraces -> FailureRow \union {None}]
  /\ \A t \in There : failures[t].hits \subseteq failures[t].spans
  /\ \A k \in DOMAIN matches : matches[k].status \in {"confirmed", "backtest_positive"} /\ matches[k].trace \in There
                              /\ matches[k].evidence \subseteq SpanIds(matches[k].trace, {1, 2})
  /\ \A task \in curatorTasks : task \in ReviewRow

\* However labels race, a trace has one confirmed match of a behavior at most.
OneConfirmedMatch ==
  \A j, k \in DOMAIN matches :
    (/\ matches[j].status = "confirmed" /\ matches[k].status = "confirmed"
     /\ matches[j].trace = matches[k].trace /\ matches[j].behavior = matches[k].behavior) => j = k

\* A confirmed match says what the labels of its trace say, unless a label or a deletion of
\* the trace came between the read and the write of a label.
LabelsMatch ==
  \A t \in FailureTraces \ raced, b \in BehaviorIds :
    t \in ConfirmedTraces(b) => b \in failures[t].labels

\* The backtest matches of a behavior are those of one backtest, and no more than a sample.
BacktestOfOneRun ==
  \A b \in BehaviorIds :
    LET positive == {k \in DOMAIN matches : matches[k].behavior = b /\ matches[k].status = "backtest_positive"}
    IN Cardinality({matches[k].run : k \in positive}) <= 1 /\ Cardinality(positive) <= SampleLimit

\* However similarity and a model group them, every unknown failure that a run read is in one
\* of its candidates, once, and is no negative example of it; a frequency may be too high
\* (a model may repeat a name in a group) but never too low.
CandidatesPartition ==
  \A k \in DOMAIN noveltyRuns :
    LET candidates == noveltyRuns[k].candidates IN
      /\ UNION {c.positives : c \in candidates} = noveltyRuns[k].eligible
      /\ \A c \in candidates : c.positives \intersect c.negatives = {} /\ c.frequency >= Cardinality(c.positives)
      /\ \A c, d \in candidates : c = d \/ c.positives \intersect d.positives = {}

\* Whatever the model answers, a claim is contradicted only by spans that were read, a check
\* is contradicted exactly when one of its claims is, and supported only when all are.
GroundingIsCited ==
  \A k \in DOMAIN checks : checks[k] = None \/
    LET check == checks[k]
        is(status) == {c \in DOMAIN check.claims : check.claims[c].status = status}
    IN /\ \A c \in is("contradicted") : check.claims[c].against # {} /\ check.claims[c].against \subseteq check.read
       /\ (check.status = "contradicted") = (is("contradicted") # {})
       /\ check.status = "supported" => is("supported") = DOMAIN check.claims

\* What a run or a check found is before a reviewer, or will be, unless its request stopped.
FindingsReviewed ==
  LET given == {task.about : task \in curatorTasks
                 \union UNION {curators[w].tasks : w \in {v \in Curators : CuratorAt(v, "tasks")}}}
  IN curatorStops = 0 =>
       /\ \A k \in DOMAIN checks : checks[k] = None \/ checks[k].status = "supported" \/ <<"check", k>> \in given
       /\ \A k \in DOMAIN noveltyRuns : \A c \in noveltyRuns[k].candidates : <<"novelty", <<k, c.sources>>>> \in given

\* Matches are of one label or of one backtest ...
MatchesOfOneSource == OneConfirmedMatch /\ LabelsMatch /\ BacktestOfOneRun

\* ... and what novelty runs and checks say is accounted for, to what they read and to
\* a reviewer.
FindingsAccounted == CandidatesPartition /\ GroundingIsCited /\ FindingsReviewed
=============================================================================
