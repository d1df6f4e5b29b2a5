---------------------------- MODULE AutomationRuns ---------------------------
(***************************************************************************)
(* One automation: requests that run it on a trace or by hand, its         *)
(* idempotency keys, conditions, cooldown, retries, compensation and dead  *)
(* letters.                                                                *)
(*                                                                         *)
(* POST /api/automations/{id}/run is a sequence of transactions: a lookup  *)
(* of the key, reads of the trace and of the last run, one or more per     *)
(* attempt of an action, the INSERT of the run and its audit entry.        *)
(*                                                                         *)
(* A route is committed in one step here: VersionRegistry has its steps;   *)
(* a reviewer decides in one: JudgeLifecycle has the race of two writes.   *)
(* Explicit ids of compensation targets are left out, and a dataset is     *)
(* taken to exist.                                                         *)
(***************************************************************************)
EXTENDS Conditions, FiniteSets, SequencesExt

CONSTANTS Definitions,  \* what POST /api/automations may say
          TargetRows,   \* and POST /api/notification-targets
          TriggerTraces, \* traces that may trigger it
          Keys,         \* idempotency keys that callers send
          RunThreads,   \* request threads of the API
          MaxRuns,      \* bound: requests
          MaxHours      \* bound: the clock

\* What may be planned: an action, and what compensates it.
Compensation == [type : STRING, attempts : 1 .. 5]
Action == [type : STRING, attempts : 1 .. 5, on_failure : {"continue", "compensate", "stop"},
           undo : Seq(Compensation)]

ASSUME AutomationAssumption ==
  /\ \A d \in Definitions : d.cooldown \in Nat /\ d.actions \in Seq(Action)
  /\ TargetRows \subseteq
       [status : {"active", "disabled"}, ref : BOOLEAN, type : {"webhook", "chat"}]
  /\ MaxRuns \in Nat /\ MaxHours \in Nat
  /\ None \notin Nat \union Definitions \union TriggerTraces \union Keys
  /\ None \notin {"skipped_conditions", "skipped_cooldown"}

VARIABLES time,
          automation,  \* the row of automations
          statuses,    \* the status of each stored trace
          target,      \* the row of notification_targets
          secret,      \* its secret can be read and decrypted
          external,    \* enable_external_notifications
          threads,     \* the requests in flight
          runs,        \* the rows of automation_runs
          audited,     \* the runs with an audit entry
          reviews,     \* the review tasks, with the request that created them
          routes,      \* routing overrides, by request
          examples,    \* dataset examples, by request
          posts,       \* POSTs the webhook received, by request
          begun        \* counts toward MaxRuns

automationVars == <<time, automation, statuses, target, secret, external, threads,
                    runs, audited, reviews, routes, examples, posts, begun>>

\* What a request does not touch.
world == <<time, automation, statuses, target, secret, external>>
effects == <<reviews, routes, examples, posts>>

AutomationInit ==
  /\ time = 0
  /\ automation = None
  /\ statuses = [t \in TriggerTraces |-> None]
  /\ target = None
  /\ secret = TRUE
  /\ external \in BOOLEAN
  /\ threads = [r \in RunThreads |-> None]
  /\ runs = <<>> /\ audited = {}
  /\ reviews = <<>> /\ routes = <<>> /\ examples = <<>> /\ posts = <<>>
  /\ begun = 0

ThreadAt(r, step) == threads[r] # None /\ threads[r].at = step
Step(r, q) == threads' = [threads EXCEPT ![r] = q]

\* _is_action_failure
Failures == {"failed", "unsupported", "dead_lettered"}

-----------------------------------------------------------------------------
(* Operators, reviewers, time. *)

CreateAutomation(definition) ==
  /\ automation = None
  /\ automation' = definition
  /\ UNCHANGED <<time, statuses, target, secret, external, threads, runs, audited,
                 effects, begun>>

\* An active target names a secret.
CreateTarget(row) ==
  /\ target = None
  /\ row.status = "active" => row.ref
  /\ target' = row
  /\ UNCHANGED <<time, automation, statuses, secret, external, threads, runs, audited,
                 effects, begun>>

\* The secret is disabled, or its key is lost.
LoseSecret ==
  /\ secret' = FALSE
  /\ UNCHANGED <<time, automation, statuses, target, external, threads, runs, audited,
                 effects, begun>>

StoreTrace(t, status) ==
  /\ statuses' = [statuses EXCEPT ![t] = status]
  /\ UNCHANGED <<time, automation, target, secret, external, threads, runs, audited,
                 effects, begun>>

\* A reviewer resolves a task.
DecideReview(i) ==
  /\ reviews[i].status = "open"
  /\ reviews' = [reviews EXCEPT ![i].status = "resolved", ![i].decision = "accepted"]
  /\ UNCHANGED <<world, threads, runs, audited, routes, examples, posts, begun>>

PassTime ==
  /\ time < MaxHours
  /\ time' = time + 1
  /\ UNCHANGED <<automation, statuses, target, secret, external, threads, runs,
                 audited, effects, begun>>

-----------------------------------------------------------------------------
(* A run up to its actions. *)

Recorded(key) == \E i \in DOMAIN runs : runs[i].key = key

\* A run without trace and key has none.
IdempotencyKey(key, t) ==
  IF key # None THEN key ELSE IF t # None THEN <<"automation", t>> ELSE None

\* A key that was recorded is answered with the recorded run.
BeginRun(r, t, given) ==
  LET key == IdempotencyKey(given, t) IN
    /\ threads[r] = None
    /\ automation # None
    /\ begun < MaxRuns
    /\ key = None \/ ~Recorded(key)
    /\ begun' = begun + 1
    /\ Step(r, [at |-> "begun", id |-> begun', trace |-> t, key |-> key, now |-> None,
                seen |-> None, status |-> None, results |-> <<>>, tried |-> 0,
                undo |-> <<>>, undone |-> <<>>])
    /\ posts' = Append(posts, 0)
    /\ UNCHANGED <<world, runs, audited, reviews, routes, examples>>

ContextOf(t) == [status |-> IF t = None THEN None ELSE statuses[t]]

ReadTriggerTrace(r) ==
  /\ ThreadAt(r, "begun")
  /\ LET q == threads[r] IN
       Step(r, [q EXCEPT !.at = "triggered", !.now = time,
                         !.status = IF Passes(automation.conditions, ContextOf(q.trace))
                                    THEN None ELSE "skipped_conditions"])
  /\ UNCHANGED <<world, effects, runs, audited, begun>>

CooldownKey(t) ==
  IF automation.cooldown = 0 THEN None
  ELSE IF automation.scope = "trace" THEN <<"trace", t>> ELSE <<"project">>

\* The runs that start a cooldown: skipped and dead-lettered ones do not.
Cooling(key) ==
  {i \in DOMAIN runs : runs[i].cooldown = key
                       /\ runs[i].status \in {"succeeded", "partial_failure"}}

\* Fault: the remaining time is rounded up.
ActiveAtItsEnd(key, now) ==
  key # None /\ \E i \in Cooling(key) : now < runs[i].now

\* evaluate_automation_cooldown of the latest such run.
CooldownActive(key, now) ==
  key # None /\ \E i \in Cooling(key) : now < runs[i].now + automation.cooldown

\* `seen` is history: the runs that were recorded when the cooldown was read.
ReadCooldown(r) ==
  /\ ThreadAt(r, "triggered")
  /\ LET q == threads[r]
         status == IF q.status = None /\ CooldownActive(CooldownKey(q.trace), q.now)
                   THEN "skipped_cooldown" ELSE q.status
     IN Step(r, [q EXCEPT !.status = status, !.seen = Len(runs),
                   !.at = IF status = None /\ automation.actions # <<>>
                          THEN "acting" ELSE "finished"])
  /\ UNCHANGED <<world, effects, runs, audited, begun>>

-----------------------------------------------------------------------------
(* Attempts of an action or of a compensation. *)

\* The action a request is at: [type, attempts, on_failure, undo], or, while it
\* compensates, [type, attempts, task].
Current(q) ==
  IF q.at = "acting" THEN automation.actions[Len(q.results) + 1] ELSE Head(q.undo)

\* Fault: the compensations of the failed action alone.
UndoOfLast(results) == Last(results).undo

\* _planned_compensation_actions: of every result, the last one first.
PlannedUndo(results) ==
  FlattenSeq(Reverse([i \in DOMAIN results |-> results[i].undo]))

\* What is left of the actions after a failure that halts the run.
Skipped(results) ==
  [i \in 1 .. Len(automation.actions) - Len(results) |->
     [status |-> "skipped", task |-> None, tries |-> 0, undo |-> <<>>]]

Halts(action) == action.on_failure # "continue"

\* The result of the action at hand joins the others.
Acted(q, result) ==
  LET results == Append(q.results, result)
      failed == result.status \in Failures
      halts == failed /\ Halts(Current(q))
      undo == IF halts /\ Current(q).on_failure = "compensate"
              THEN PlannedUndo(results) ELSE <<>>
      all == IF halts /\ undo = <<>> THEN results \o Skipped(results) ELSE results
  IN [q EXCEPT !.results = all, !.undo = undo, !.tried = 0,
        !.at = IF undo # <<>> THEN "compensating"
               ELSE IF Len(all) < Len(automation.actions) THEN "acting" ELSE "finished"]

\* Fault: a compensation that fails is compensated like an action.
CompensatedAgain(q, result) ==
  IF result.status \in Failures THEN [q EXCEPT !.tried = 0] 
  ELSE [q EXCEPT !.undone = Append(@, result), !.undo = Tail(@), !.tried = 0,
          !.at = IF Len(q.undo) = 1 THEN "finished" ELSE @]

\* A compensation is not compensated: the next one follows, whatever it did.
Compensated(q, result) ==
  LET rest == Tail(q.undo) IN
    [q EXCEPT !.undone = Append(@, result), !.undo = rest, !.tried = 0,
       !.results = IF rest = <<>> THEN @ \o Skipped(@) ELSE @,
       !.at = IF rest = <<>> THEN "finished" ELSE @]

\* Fault: the attempts are used up whatever they do.
TriesAnyway(q, status) == q.tried + 1 < Current(q).attempts

\* Fault: an attempt too many.
TriesOneMore(q, status) == status \in Failures /\ q.tried < Current(q).attempts

\* Another attempt follows.
TriesAgain(q, status) == status \in Failures /\ q.tried + 1 < Current(q).attempts

\* _execute_automation_action_with_retries, after an attempt.
Settle(r, status, task) ==
  LET q == threads[r]
      settled == IF status \in Failures THEN "dead_lettered" ELSE status
      undo == IF q.at = "compensating" THEN <<>>
              ELSE [i \in DOMAIN Current(q).undo |->
                      [type |-> Current(q).undo[i].type, task |-> task,
                       attempts |-> Current(q).undo[i].attempts]]
      result == [status |-> settled, task |-> task, tries |-> q.tried + 1, undo |-> undo]
  IN Step(r, IF TriesAgain(q, status) THEN [q EXCEPT !.tried = @ + 1]
             ELSE IF q.at = "acting" THEN Acted(q, result) ELSE Compensated(q, result))

Attempts(r, type) ==
  /\ threads[r] # None
  /\ threads[r].at \in {"acting", "compensating"}
  /\ Current(threads[r]).type = type
  /\ UNCHANGED <<world, runs, audited, begun>>

CreateTask(r) ==
  /\ Attempts(r, "create_review_task")
  /\ reviews' = Append(reviews, [status |-> "open", decision |-> None,
                                 run |-> threads[r].id, key |-> threads[r].key])
  /\ Settle(r, "succeeded", Len(reviews'))
  /\ UNCHANGED <<routes, examples, posts>>

RolledBack(task) ==
  [task EXCEPT !.status = "resolved", !.decision = "rolled_back_by_automation"]

\* The task of the result it compensates, if that has one.
RollbackTask(r) ==
  /\ Attempts(r, "rollback_review_task")
  /\ LET task == IF threads[r].at = "compensating" THEN Current(threads[r]).task ELSE None
     IN IF task = None
        THEN Settle(r, "skipped", None) /\ UNCHANGED reviews
        ELSE /\ reviews' = [reviews EXCEPT ![task] = RolledBack(@)]
             /\ Settle(r, "succeeded", task)
  /\ UNCHANGED <<routes, examples, posts>>

AddExample(r) ==
  /\ Attempts(r, "add_to_dataset")
  /\ LET t == threads[r].trace IN
       \/ t = None /\ Settle(r, "skipped", None) /\ UNCHANGED examples
       \/ /\ t # None /\ statuses[t] = None
          /\ Settle(r, "failed", None) /\ UNCHANGED examples
       \/ /\ t # None /\ statuses[t] # None
          /\ examples' = Append(examples, threads[r].id)
          /\ Settle(r, "succeeded", None)
  /\ UNCHANGED <<reviews, routes, posts>>

CommitRoute(r) ==
  /\ Attempts(r, "route_tool")
  /\ routes' = Append(routes, threads[r].id)
  /\ Settle(r, "succeeded", None)
  /\ UNCHANGED <<reviews, examples, posts>>

\* The status of a target stops no delivery.
Deliverable == target # None /\ external /\ target.ref

\* A notification for preview leaves an audit entry only.
Preview(r) ==
  /\ Attempts(r, "preview_notification")
  /\ Settle(r, IF target = None THEN "failed" ELSE "succeeded", None)
  /\ UNCHANGED effects

\* A live one that ends before the request to the webhook: refused, or left in
\* the outbox of an adapter.
Undelivered(r) ==
  /\ Attempts(r, "send_notification")
  /\ \/ ~Deliverable /\ Settle(r, "failed", None)
     \/ Deliverable /\ target.type # "webhook" /\ Settle(r, "succeeded", None)
     \/ Deliverable /\ target.type = "webhook" /\ ~secret /\ Settle(r, "failed", None)
  /\ UNCHANGED effects

\* The webhook accepts, refuses, or takes too long to answer: a POST that timed
\* out may have been received.
PostNotification(r) ==
  /\ Attempts(r, "send_notification")
  /\ Deliverable /\ target.type = "webhook" /\ secret
  /\ \E received \in BOOLEAN, status \in {"succeeded", "failed"} :
       /\ status = "succeeded" => received
       /\ posts' = IF received THEN [posts EXCEPT ![threads[r].id] = @ + 1] ELSE posts
       /\ Settle(r, status, None)
  /\ UNCHANGED <<reviews, routes, examples>>

Unsupported(r) ==
  /\ Attempts(r, "unknown")
  /\ Settle(r, "unsupported", None)
  /\ UNCHANGED effects

-----------------------------------------------------------------------------
(* The record of a run. *)

\* _automation_run_status
RunStatus(results) ==
  LET some(statusSet) == \E i \in DOMAIN results : results[i].status \in statusSet IN
    IF ~some(Failures) THEN "succeeded"
    ELSE IF some({"succeeded"}) THEN "partial_failure" ELSE "dead_lettered"

\* The unique index of (project, automation, key) refuses the INSERT.
Taken(key) == key # None /\ Recorded(key)

\* A refused INSERT fails the request, whose actions were executed.
RecordRun(r) ==
  /\ ThreadAt(r, "finished")
  /\ LET q == threads[r] IN
       IF Taken(q.key)
       THEN Step(r, None) /\ UNCHANGED runs
       ELSE /\ runs' = Append(runs,
                 [id |-> q.id, key |-> q.key, cooldown |-> CooldownKey(q.trace),
                  status |-> IF q.status # None THEN q.status ELSE RunStatus(q.results),
                  now |-> q.now, seen |-> q.seen, results |-> q.results,
                  undone |-> q.undone])
            /\ Step(r, [q EXCEPT !.at = "recorded"])
  /\ UNCHANGED <<world, effects, audited, begun>>

AuditRun(r) ==
  /\ ThreadAt(r, "recorded")
  /\ audited' = audited \union {threads[r].id}
  /\ Step(r, None)
  /\ UNCHANGED <<world, effects, runs, begun>>

\* The process stops, the database stays busy, or an INSERT of an action fails.
RunStops(r) ==
  /\ threads[r] # None
  /\ Step(r, None)
  /\ UNCHANGED <<world, effects, runs, audited, begun>>

-----------------------------------------------------------------------------
ContinueRun(r) ==
  \/ ReadTriggerTrace(r) \/ ReadCooldown(r)
  \/ CreateTask(r) \/ RollbackTask(r) \/ AddExample(r) \/ CommitRoute(r)
  \/ Preview(r) \/ Undelivered(r) \/ PostNotification(r) \/ Unsupported(r)
  \/ RecordRun(r) \/ AuditRun(r)

AutomationNext ==
  \/ \E d \in Definitions : CreateAutomation(d)
  \/ \E row \in TargetRows : CreateTarget(row)
  \/ LoseSecret
  \/ \E t \in TriggerTraces, status \in {"ok", "error", None} : StoreTrace(t, status)
  \/ \E i \in DOMAIN reviews : DecideReview(i)
  \/ PassTime
  \/ \E r \in RunThreads :
       \/ \E t \in TriggerTraces \union {None}, key \in Keys \union {None} : BeginRun(r, t, key)
       \/ ContinueRun(r)
       \/ RunStops(r)

AutomationSpec == AutomationInit /\ [][AutomationNext]_automationVars

-----------------------------------------------------------------------------
AutomationTypeOK ==
  /\ time \in 0 .. MaxHours
  /\ automation \in Definitions \union {None}
  /\ statuses \in [TriggerTraces -> {"ok", "error", None}]
  /\ target \in TargetRows \union {None}
  /\ {secret, external} \subseteq BOOLEAN
  /\ \A r \in RunThreads : threads[r] # None =>
       LET q == threads[r] IN
         /\ q.at \in {"begun", "triggered", "acting", "compensating", "finished", "recorded"}
         /\ q.at = "acting" => Len(q.results) < Len(automation.actions)
         /\ q.at = "compensating" <=> q.undo # <<>>
         /\ q.at \in {"acting", "compensating"} => q.tried < Current(q).attempts
         /\ q.at = "finished" /\ q.status = None =>
              Len(q.results) = Len(automation.actions)
  /\ audited \subseteq {runs[i].id : i \in DOMAIN runs}
  /\ Len(posts) = begun /\ begun <= MaxRuns

\* The runs that executed actions.
Executed == {i \in DOMAIN runs : runs[i].status \notin {"skipped_conditions", "skipped_cooldown"}}

\* The results, or compensations, that name a review task.
Naming(list, n) == {j \in DOMAIN list : list[j].task = n}

\* Of the requests that race for an idempotency key one is recorded, and that
\* record accounts for each review task its request created: one result names it,
\* or, when a compensation created it, no result and one compensation.
TasksAccounted ==
  /\ \A i, j \in DOMAIN runs : runs[i].key = runs[j].key /\ runs[i].key # None => i = j
  /\ \A i \in DOMAIN runs, n \in DOMAIN reviews : reviews[n].run = runs[i].id =>
       \/ Cardinality(Naming(runs[i].results, n)) = 1
       \/ /\ Naming(runs[i].results, n) = {}
          /\ Cardinality(Naming(runs[i].undone, n)) = 1

\* The action whose failure made a run compensate.
CompensatedAt(run) ==
  {j \in DOMAIN run.results : run.results[j].status = "dead_lettered"
                              /\ automation.actions[j].on_failure = "compensate"}

\* A recorded run that compensated rolled back each task it had created for which
\* a rollback is configured, although its own compensations may fail and be tried
\* again in between, and its failure stays in the record.
CompensationComplete ==
  \A i \in Executed : \A j \in CompensatedAt(runs[i]) :
    \A k \in 1 .. j :
      LET task == runs[i].results[k].task IN
        /\ task # None
        /\ \E u \in DOMAIN automation.actions[k].undo :
             automation.actions[k].undo[u].type = "rollback_review_task"
        => reviews[task].status = "resolved" /\ runs[i].status # "succeeded"

\* The POSTs that a planned action, the actions of a list, and those of an automation
\* with what compensates them are allowed.
PostsOf(plan) == IF plan.type = "send_notification" THEN plan.attempts ELSE 0
PostsOfAll(list) == MapThenSumSet(LAMBDA i : PostsOf(list[i]), DOMAIN list)
SendBudget(actions) ==
  PostsOfAll(actions) + MapThenSumSet(LAMBDA i : PostsOfAll(actions[i].undo), DOMAIN actions)

\* A webhook receives what a result calls delivered, and no request sends it more
\* POSTs than its attempts, whether answers are lost or compensations resend.
PostsWithinAttempts ==
  /\ automation # None => \A n \in DOMAIN posts : posts[n] <= SendBudget(automation.actions)
  /\ \A i \in Executed : \A j \in DOMAIN automation.actions :
       /\ automation.actions[j].type = "send_notification"
       /\ runs[i].results[j].status = "succeeded"
       /\ target.type = "webhook"
       => posts[runs[i].id] > 0

\* The record of a run and what it has done in the project and outside agree.
EffectsAccounted == TasksAccounted /\ PostsWithinAttempts

\* Two runs of one cooldown scope that acted are the cooldown apart, unless the
\* later one read the runs before the earlier was recorded.
CooldownSpaced ==
  \A i, j \in DOMAIN runs :
    /\ i <= runs[j].seen
    /\ runs[i].cooldown = runs[j].cooldown /\ runs[j].cooldown # None
    /\ {runs[i].status, runs[j].status} \subseteq {"succeeded", "partial_failure"}
    => runs[j].now >= runs[i].now + automation.cooldown

-----------------------------------------------------------------------------
(* What the documents say, and the code does not keep. *)

\* "idempotency-key replay protection" (IMPLEMENTATION_PROGRESS.md:579): a key is
\* acted on once, so the tasks created under it come from one request.
ActedOncePerKey ==
  \A m, n \in DOMAIN reviews :
    reviews[m].key = reviews[n].key /\ reviews[m].key # None
    => reviews[m].run = reviews[n].run
=============================================================================
