---------------------------- MODULE JudgeLifecycle ---------------------------
(***************************************************************************)
(* One judge: its draft, its versions, the eval scores it gets, the review *)
(* tasks about it, its promotion, and the two Now events that the feed     *)
(* derives from all that: disable a judge whose outputs are invalid, raise *)
(* the threshold of one that people call wrong.                            *)
(*                                                                         *)
(* Each request is a sequence of reads and writes of one table each.  A    *)
(* threshold counts steps of 0.05; a version is committed in one step (its *)
(* own race is in VersionRegistry), an event written in one (NowEvents).   *)
(***************************************************************************)
EXTENDS Values, Naturals, FiniteSets, SequencesExt

CONSTANTS Agents,       \* request threads of the API
          Statuses,     \* what a task's status may be: any string
          Decisions,    \* what its decision may be: any string
          Cap,          \* the threshold that no proposal passes: 0.95
          MaxScores,    \* bound: eval scores of the judge
          MaxTasks,     \* bound: review tasks about it
          MaxCommits    \* bound: its versions

ASSUME JudgeAssumption ==
  /\ {Cap, MaxScores, MaxTasks, MaxCommits} \subseteq Nat
  /\ "open" \in Statuses /\ None \notin Statuses /\ "kept" \notin Decisions
  /\ None \notin Decisions \union Nat \union {"draft", "active", "disabled"}

VARIABLES judge,     \* the status of the row of judges
          commits,   \* the threshold of each version, None when it has none
          scores,    \* the statuses of its scores in eval results
          tasks,     \* the review tasks of type judge_output
          drift,     \* the feed proposes to disable the judge
          event,     \* the event that proposes a higher threshold
          agents,    \* the requests in flight
          given,     \* history: what was last decided of each task
          crossed,   \* history: tasks of which a write followed another write it had not read
          lenient,   \* history: a promotion was asked for with a policy of its own
          reviewed   \* history: a task was labelled accepted

judgeVars == <<judge, commits, scores, tasks, drift, event, agents, given, crossed,
               lenient, reviewed>>
evidence == <<commits, scores, tasks, given, crossed, reviewed>>
feed == <<drift, event>>

JudgeInit ==
  /\ judge = None /\ commits = <<>> /\ scores = <<>> /\ tasks = <<>>
  /\ drift = FALSE /\ event = None
  /\ agents = [a \in Agents |-> None]
  /\ given = <<>> /\ crossed = {} /\ lenient = FALSE /\ reviewed = FALSE

Idle(a) == agents[a] = None
AgentAt(a, step) == agents[a] # None /\ agents[a].at = step
Goes(a, q) == agents' = [agents EXCEPT ![a] = q]

\* Whoever promotes meanwhile reads what has changed: `quiet` is history.
Disturbing(a, q) ==
  agents' = [b \in Agents |->
               IF b = a THEN q
               ELSE IF agents[b] # None /\ agents[b].quiet
                    THEN [agents[b] EXCEPT !.quiet = FALSE] ELSE agents[b]]

Request(step, value) == [at |-> step, quiet |-> FALSE, value |-> value]

-----------------------------------------------------------------------------
(* The draft, its versions, its scores. *)

\* A row of review_tasks.
TaskRows == [status : Statuses, decision : Decisions \union {None}]
OpenTask == [status |-> "open", decision |-> None]

\* The label of a task is its decision, or else its status.
Label(task) == IF task.decision # None THEN task.decision ELSE task.status

\* The judge, its first version and its review task are three transactions.
CreateDraft(a, threshold) ==
  /\ judge = None /\ Idle(a)
  /\ judge' = "draft"
  /\ Goes(a, Request("version", threshold))
  /\ UNCHANGED <<evidence, feed, lenient>>

CommitFirst(a) ==
  /\ AgentAt(a, "version")
  /\ Len(commits) < MaxCommits
  /\ commits' = Append(commits, agents[a].value)
  /\ Disturbing(a, Request("review", None))
  /\ UNCHANGED <<judge, scores, tasks, given, crossed, reviewed, feed, lenient>>

AddTask(task) ==
  /\ Len(tasks) < MaxTasks
  /\ tasks' = Append(tasks, task)
  /\ given' = Append(given, task)
  /\ reviewed' = (reviewed \/ Label(task) = "accepted")

CreateDraftReview(a) ==
  /\ AgentAt(a, "review")
  /\ AddTask(OpenTask)
  /\ Disturbing(a, None)
  /\ UNCHANGED <<judge, commits, scores, crossed, feed, lenient>>

\* POST /api/review-tasks, about this judge: the request may hold a status and a
\* decision, which nothing validates.
CreateReview(a, task) ==
  /\ judge # None /\ Idle(a)
  /\ AddTask(task)
  /\ Disturbing(a, None)
  /\ UNCHANGED <<judge, commits, scores, crossed, feed, lenient>>

CommitVersion(a, threshold) ==
  /\ judge # None /\ Idle(a)
  /\ Len(commits) < MaxCommits
  /\ commits' = Append(commits, threshold)
  /\ Disturbing(a, None)
  /\ UNCHANGED <<judge, scores, tasks, given, crossed, reviewed, feed, lenient>>

\* An eval run stores a score; a deletion of its trace takes it away.
RecordScore(a, status) ==
  /\ judge # None /\ Idle(a)
  /\ Len(scores) < MaxScores
  /\ scores' = Append(scores, status)
  /\ Disturbing(a, None)
  /\ UNCHANGED <<judge, commits, tasks, given, crossed, reviewed, feed, lenient>>

ScrubScore(a, i) ==
  /\ Idle(a)
  /\ scores' = RemoveAt(scores, i)
  /\ Disturbing(a, None)
  /\ UNCHANGED <<judge, commits, tasks, given, crossed, reviewed, feed, lenient>>

-----------------------------------------------------------------------------
(* Reviews: PATCH /api/review-tasks/{id}.  A patch holds a status, a decision, *)
(* both or neither (then notes); a decision of null withdraws the decision.    *)

StartPatch(a, i, status, decision) ==
  /\ Idle(a)
  /\ Goes(a, [at |-> "patch", quiet |-> FALSE, value |-> None, task |-> i, read |-> tasks[i], crossed |-> FALSE,
              status |-> status, decision |-> decision])
  /\ UNCHANGED <<judge, evidence, feed, lenient>>

\* Fault: a patch without a status leaves the task open.
PatchedOpen(q) ==
  [status |-> IF q.status # None THEN q.status ELSE "open",
   decision |-> IF q.decision # "kept" THEN q.decision ELSE q.read.decision]

\* What the patch does not hold stays as it is in the row.
Overlaid(q, row) ==
  [status |-> IF q.status # None THEN q.status ELSE row.status,
   decision |-> IF q.decision # "kept" THEN q.decision ELSE row.decision]

\* update_review_task: the row is the one the request read.
Patched(q) == Overlaid(q, q.read)

WritePatch(a) ==
  /\ AgentAt(a, "patch")
  /\ LET q == agents[a]
         others == {b \in Agents \ {a} : AgentAt(b, "patch") /\ agents[b].task = q.task}
     IN /\ tasks' = [tasks EXCEPT ![q.task] = Patched(q)]
        /\ given' = [given EXCEPT ![q.task] = Overlaid(q, @)]
        /\ crossed' = IF q.crossed THEN crossed \union {q.task} ELSE crossed
        /\ reviewed' = (reviewed \/ Label(tasks'[q.task]) = "accepted")
        /\ agents' = [b \in Agents |->
             IF b = a \/ agents[b] = None THEN (IF b = a THEN None ELSE agents[b])
             ELSE IF b \in others THEN [agents[b] EXCEPT !.crossed = TRUE]
             ELSE [agents[b] EXCEPT !.quiet = FALSE]]
  /\ UNCHANGED <<judge, commits, scores, feed, lenient>>

-----------------------------------------------------------------------------
(* Promotion. *)

\* What a request may make of the policy.
Policies == [reviewed : BOOLEAN, closed : BOOLEAN]
Strict == [reviewed |-> TRUE, closed |-> TRUE]

Tally(seq, value) == Cardinality({i \in DOMAIN seq : seq[i] = value})

\* Fault: any label will do.
AnyLabel(list) == list # <<>>

Accepted(list) == \E i \in DOMAIN list : Label(list[i]) = "accepted"

\* Fault: invalid outputs are not counted.
ScoredAtAll(list) == Len(list) >= 1

\* min_score_count and max_invalid_output_rate are 1 and 0; without scores there
\* is no rate, which blocks too.
WellScored(list) == Len(list) >= 1 /\ Tally(list, "invalid_output") = 0

\* build_judge_calibration_report reads the scores ...
StartPromotion(a, policy) ==
  /\ judge # None /\ Idle(a)
  /\ Goes(a, [at |-> "labels", quiet |-> TRUE, value |-> None, policy |-> policy, clear |-> WellScored(scores)])
  /\ lenient' = (lenient \/ policy # Strict)
  /\ UNCHANGED <<judge, evidence, feed>>

\* ... and then the tasks ...
ReadLabels(a) ==
  /\ AgentAt(a, "labels")
  /\ LET q == agents[a] IN
       Goes(a, [q EXCEPT !.at = "open",
                         !.clear = @ /\ (q.policy.reviewed => Accepted(tasks))])
  /\ UNCHANGED <<judge, evidence, feed, lenient>>

\* ... which promote_judge reads again for the open ones.
ReadOpen(a) ==
  /\ AgentAt(a, "open")
  /\ LET q == agents[a]
         open == \E i \in DOMAIN tasks : tasks[i].status = "open"
     IN Goes(a, IF q.clear /\ (q.policy.closed => ~open)
                THEN [q EXCEPT !.at = "activate"] ELSE None)
  /\ UNCHANGED <<judge, evidence, feed, lenient>>

Activate(a) ==
  /\ AgentAt(a, "activate")
  /\ judge' = "active"
  /\ Goes(a, None)
  /\ UNCHANGED <<evidence, feed, lenient>>

-----------------------------------------------------------------------------
(* The feed. *)

\* min(0.95, current + 0.05)
Proposal(threshold) == IF threshold < Cap THEN threshold + 1 ELSE Cap

FalsePositives == {i \in DOMAIN tasks : tasks[i].decision = "false_positive"}

\* _derive_judge_now_events
PollDrift(a) ==
  /\ judge \notin {None, "disabled"} /\ Idle(a)
  /\ Tally(scores, "invalid_output") > 0
  /\ drift' = TRUE
  /\ UNCHANGED <<judge, evidence, event, agents, lenient>>

\* The current version of a judge that two reviews called wrong.
Raisable ==
  /\ judge \notin {None, "disabled"}
  /\ commits # <<>> /\ Last(commits) # None
  /\ Cardinality(FalsePositives) >= 2
  /\ Proposal(Last(commits)) > Last(commits)

\* _derive_threshold_now_events, and the upsert of the event: a closed one takes
\* up tasks it has not seen.
PollThreshold(a) ==
  /\ Idle(a)
  /\ Raisable
  /\ ~(event # None /\ event.stage = "close" /\ FalsePositives \subseteq event.tasks)
  /\ event' = [stage |-> IF event = None \/ event.stage = "close" THEN "propose_fix"
                         ELSE event.stage,
               approved |-> event # None /\ event.approved,
               version |-> IF event = None THEN None ELSE event.version,
               proposal |-> Proposal(Last(commits)), tasks |-> FalsePositives]
  /\ UNCHANGED <<judge, evidence, drift, agents, lenient>>

\* An approval of the drift event that was read before.
StartDisable(a) ==
  /\ drift /\ Idle(a)
  /\ Goes(a, Request("disable", None))
  /\ UNCHANGED <<judge, evidence, feed, lenient>>

\* _apply_now_disable_judge
DisableJudge(a) ==
  /\ AgentAt(a, "disable")
  /\ judge' = "disabled"
  /\ Disturbing(a, None)
  /\ UNCHANGED <<evidence, feed, lenient>>

\* An approved event that has left its first stage is not approved again.
StartRaise(a) ==
  /\ event # None /\ Idle(a)
  /\ event.stage # "close"
  /\ ~(event.stage # "propose_fix" /\ event.approved)
  /\ Goes(a, Request("raise", event.proposal))
  /\ UNCHANGED <<judge, evidence, feed, lenient>>

\* _apply_now_raise_threshold: the latest definition gets the proposed threshold.
CommitRaise(a) ==
  /\ AgentAt(a, "raise")
  /\ Len(commits) < MaxCommits
  /\ Last(commits) # None
  /\ commits' = Append(commits, agents[a].value)
  /\ Disturbing(a, Request("applied", Len(commits')))
  /\ UNCHANGED <<judge, scores, tasks, given, crossed, reviewed, feed, lenient>>

\* update_now_event_execution
MarkRaised(a) ==
  /\ AgentAt(a, "applied")
  /\ event' = [event EXCEPT !.stage = "verify", !.approved = TRUE, !.version = agents[a].value]
  /\ Goes(a, None)
  /\ UNCHANGED <<judge, evidence, drift, lenient>>

\* verify_now_event: the version of the last approval reaches what the event
\* proposes by now.
RaiseVisible ==
  \E n \in DOMAIN commits : /\ event.version \in {None, n}
                            /\ commits[n] # None /\ commits[n] >= event.proposal

VerifyRaise(a) ==
  /\ event # None /\ Idle(a)
  /\ event.stage # "close"
  /\ event' = [event EXCEPT !.stage = IF RaiseVisible THEN "close" ELSE "verify"]
  /\ UNCHANGED <<judge, evidence, drift, agents, lenient>>

\* A request ends with an error, or the process stops.
AgentStops(a) ==
  /\ ~Idle(a)
  /\ Goes(a, None)
  /\ UNCHANGED <<judge, evidence, feed, lenient>>

-----------------------------------------------------------------------------
JudgeNext ==
  \E a \in Agents :
    \/ \E threshold \in 0 .. Cap \union {None} :
         CreateDraft(a, threshold) \/ CommitVersion(a, threshold)
    \/ CommitFirst(a) \/ CreateDraftReview(a)
    \/ \E task \in TaskRows : CreateReview(a, task)
    \/ \E status \in {"succeeded", "invalid_output"} : RecordScore(a, status)
    \/ \E i \in DOMAIN scores : ScrubScore(a, i)
    \/ \E i \in DOMAIN tasks, status \in Statuses \union {None},
          decision \in Decisions \union {None, "kept"} : StartPatch(a, i, status, decision)
    \/ WritePatch(a)
    \/ \E policy \in Policies : StartPromotion(a, policy)
    \/ ReadLabels(a) \/ ReadOpen(a) \/ Activate(a)
    \/ PollDrift(a) \/ StartDisable(a) \/ DisableJudge(a)
    \/ PollThreshold(a) \/ StartRaise(a) \/ CommitRaise(a) \/ MarkRaised(a) \/ VerifyRaise(a)
    \/ AgentStops(a)

JudgeSpec == JudgeInit /\ [][JudgeNext]_judgeVars

-----------------------------------------------------------------------------
JudgeTypeOK ==
  /\ judge \in {None, "draft", "active", "disabled"}
  /\ \A n \in DOMAIN commits : commits[n] \in 0 .. Cap \union {None}
  /\ Len(commits) <= MaxCommits /\ Len(scores) <= MaxScores
  /\ Len(given) = Len(tasks) /\ Len(tasks) <= MaxTasks
  /\ event # None => event.stage \in {"propose_fix", "verify", "close"}
                     /\ event.proposal \in 1 .. Cap

\* What reviewers decide stays decided: a later patch with notes only, or with a
\* status only, does not undo it, unless it had read the task before the decision.
DecisionsStick ==
  \A i \in DOMAIN tasks \ crossed : tasks[i] = given[i]

\* However promotions race with reviews, deletions and disablings, no judge is
\* active that no task was labelled accepted for, by its decision or, without
\* one, by its status, unless a request asked for a policy of its own.
ActiveWasReviewed == judge = "active" /\ ~lenient => reviewed

\* A promotion that nothing disturbed while it read agrees with the state it
\* changes: no open task, one labelled accepted, scores and no invalid output
\* among them.
PromotedAsReported ==
  \A a \in Agents :
    AgentAt(a, "activate") /\ agents[a].quiet /\ agents[a].policy = Strict =>
      /\ Accepted(tasks)
      /\ \A i \in DOMAIN tasks : tasks[i].status # "open"
      /\ ToSet(scores) = {"succeeded"}

\* No judge becomes active that did not earn it when its promotion read the state.
PromotionsEarned == ActiveWasReviewed /\ PromotedAsReported

-----------------------------------------------------------------------------
(* What the documents say, and the code does not keep. *)

\* "approval commits a new judge version with the raised threshold"
\* (IMPLEMENTATION_PROGRESS.md:1545): the version an approval commits has a higher
\* threshold than the one it follows.
ApprovalsRaise ==
  [][\A a \in Agents : CommitRaise(a) => Last(commits') > Last(commits)]_judgeVars

\* "judges move from draft to active only after ... accepted-review gates pass"
\* (IMPLEMENTATION_PROGRESS.md:1435): a promotion that nothing disturbed finds a
\* task that was decided accepted.  A task whose status is accepted, and which
\* nobody decided, lets it pass too.
AcceptanceDecided ==
  \A a \in Agents :
    AgentAt(a, "activate") /\ agents[a].quiet /\ agents[a].policy = Strict =>
      \E i \in DOMAIN tasks : tasks[i].decision = "accepted"
=============================================================================
