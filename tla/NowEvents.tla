----------------------------- MODULE NowEvents ------------------------------
(***************************************************************************)
(* One event of the Now feed: a cluster of traces that share a signature,  *)
(* the change the feed recommends for it, and the requests that move it    *)
(* through propose_fix, verify and close.                                  *)
(*                                                                         *)
(* Each request is a sequence of transactions of the store: a read of the  *)
(* event, then what it does with the copy, then a second read and a write. *)
(* GET /now/events derives the cluster from the stored traces and upserts  *)
(* it, the SELECT of the row outside the transaction of its INSERT or      *)
(* UPDATE.  Traces arrive and reviewers decide in between.                 *)
(*                                                                         *)
(* The listings of 250 and 1000 traces cover the project.                  *)
(***************************************************************************)
EXTENDS Naturals

CONSTANTS Traces,      \* traces with the signature of the cluster
          Handlers,    \* request threads of the API
          Kinds,       \* types of the recommendation
          MaxClock,    \* bound: the clock
          MaxFailures, \* bound: requests that stop between two transactions
          None         \* no row, no time, no request

ASSUME NowAssumption ==
  /\ Kinds \subseteq {"route_tool", "create_review_task"}
  /\ MaxClock \in Nat /\ MaxFailures \in Nat
  /\ None \notin Nat

Times == 0 .. MaxClock

VARIABLES clock,
          kind,      \* recommendation.type, which the signature determines
          traces,    \* started_at of the traces that match now
          event,     \* the row of now_events
          task,      \* the review task with the event's stable id
          routed,    \* the routing override is committed
          handlers,  \* the requests in flight
          failures   \* counts toward MaxFailures

vars == <<clock, kind, traces, event, task, routed, handlers, failures>>

Stages == {"propose_fix", "verify", "close"}

\* What the verification says: that it passed, that the event was closed for a
\* reason, or none of the two (watching, awaiting_reviews, reopened).
Verifications == {"pending", "passed", "closed_reason"}

\* `approved`: action_results has an approval.  `closed`: closed_at is set.
Event == [stage : Stages, sources : SUBSET Traces, approved : BOOLEAN,
          verification : Verifications, closed : BOOLEAN,
          applied : Times \union {None}, updated : Times]

\* The absence of a row is none of the rows.
ASSUME NoneIsNoRow == None \notin Event \union {"open", "resolved"}

Init ==
  /\ clock = 0
  /\ kind \in Kinds
  /\ traces = [t \in Traces |-> None]
  /\ event = None
  /\ task = None
  /\ routed = FALSE
  /\ handlers = [h \in Handlers |-> None]
  /\ failures = 0

Matching == {t \in Traces : traces[t] # None}

At(h, step) == handlers[h] # None /\ handlers[h].at = step
Goto(h, work) == handlers' = [handlers EXCEPT ![h] = work]

\* Fault: a closed event stays closed.
NoNews(existing, found) == {}

\* Traces of the derived event that the stored one does not have.
News(existing, found) == found \ existing.sources

\* Fault: the stages are swapped.
StageUnlessPassed(verification) == IF verification = "passed" THEN "verify" ELSE "close"

StageAfter(verification) == IF verification = "passed" THEN "close" ELSE "verify"

\* Fault: the task is thought to be there.
NeverMissing(row) == FALSE

\* _apply_now_review_task creates the task unless its stable id is there.
TaskMissing(row) == row = None

\* Fault: the verification is the stage.
ReopenedByStage(e) == [e EXCEPT !.stage = "propose_fix", !.verification = "propose_fix",
                                !.applied = None, !.closed = FALSE]

\* What the upsert resets when new traces join a closed event.
Reopened(e) == [e EXCEPT !.stage = "propose_fix", !.verification = "pending",
                         !.applied = None, !.closed = FALSE]

-----------------------------------------------------------------------------
(* Clients, reviewers, time. *)

Tick ==
  /\ clock < MaxClock
  /\ clock' = clock + 1
  /\ UNCHANGED <<kind, traces, event, task, routed, handlers, failures>>

Ingest(t, started) ==
  /\ traces[t] = None
  /\ started <= clock
  /\ traces' = [traces EXCEPT ![t] = started]
  /\ UNCHANGED <<clock, kind, event, task, routed, handlers, failures>>

\* The trace is ingested again with another signature, or deleted.
Leave(t) ==
  /\ traces[t] # None
  /\ traces' = [traces EXCEPT ![t] = None]
  /\ UNCHANGED <<clock, kind, event, task, routed, handlers, failures>>

\* update_review_task with a status.
Review(status) ==
  /\ task # None
  /\ task' = status
  /\ UNCHANGED <<clock, kind, traces, event, routed, handlers, failures>>

-----------------------------------------------------------------------------
(* GET /now/events *)

\* No matching trace, no derived event.
ListTraces(h) ==
  /\ handlers[h] = None
  /\ Matching # {}
  /\ Goto(h, [at |-> "listed", found |-> Matching, now |-> clock])
  /\ UNCHANGED <<clock, kind, traces, event, task, routed, failures>>

SelectExisting(h) ==
  /\ At(h, "listed")
  /\ Goto(h, [at |-> "selected", found |-> handlers[h].found,
              now |-> handlers[h].now, existing |-> IF event = None THEN None
                           ELSE [stage |-> event.stage, sources |-> event.sources]])
  /\ UNCHANGED <<clock, kind, traces, event, task, routed, failures>>

\* _upsert_now_event, from the SELECT on.  UNIQUE refuses a second INSERT.
UpsertEvent(h) ==
  /\ At(h, "selected")
  /\ LET q == handlers[h] IN
       \/ /\ q.existing = None
          /\ event' = IF event # None THEN event ELSE
               [stage |-> "propose_fix", sources |-> q.found, approved |-> FALSE,
                verification |-> "pending", closed |-> FALSE,
                applied |-> None, updated |-> q.now]
       \/ /\ q.existing # None /\ q.existing.stage = "close"
          /\ event' = IF News(q.existing, q.found) = {} THEN event
                      ELSE [Reopened(event) EXCEPT !.sources = q.found, !.updated = q.now]
       \/ /\ q.existing # None /\ q.existing.stage # "close"
          /\ event' = [event EXCEPT !.sources = q.found, !.updated = q.now]
  /\ Goto(h, None)
  /\ UNCHANGED <<clock, kind, traces, task, routed, failures>>

-----------------------------------------------------------------------------
(* POST /now/events/{id}/advance: approve *)

Approve(h) ==
  /\ handlers[h] = None
  /\ event # None
  /\ event.stage # "close"
  /\ event.stage = "propose_fix" \/ ~event.approved
  /\ Goto(h, [at |-> "approved"])
  /\ UNCHANGED <<clock, kind, traces, event, task, routed, failures>>

\* update_now_event_execution, called with these arguments.
Update(stage, verification, applied, closes) ==
  [at |-> "update", stage |-> stage, verification |-> verification,
   applied |-> applied, closes |-> closes]

Applied == Update("verify", "pending", clock, FALSE)

\* A route commits a version each time, and its automation once.
ApplyRoute(h) ==
  /\ At(h, "approved") /\ kind = "route_tool"
  /\ routed' = TRUE
  /\ Goto(h, Applied)
  /\ UNCHANGED <<clock, kind, traces, event, task, failures>>

LookUpTask(h) ==
  /\ At(h, "approved") /\ kind = "create_review_task"
  /\ Goto(h, IF TaskMissing(task)
             THEN [at |-> "insert_task"] ELSE Applied)
  /\ UNCHANGED <<clock, kind, traces, event, task, routed, failures>>

\* The primary key refuses a second INSERT, and the request fails.
InsertTask(h) ==
  /\ At(h, "insert_task")
  /\ \/ /\ task = None
        /\ task' = "open"
        /\ Goto(h, Applied)
     \/ /\ task # None
        /\ Goto(h, None)
        /\ UNCHANGED task
  /\ UNCHANGED <<clock, kind, traces, event, routed, failures>>

-----------------------------------------------------------------------------
(* verify, close and ignore *)

Verify(h) ==
  /\ handlers[h] = None
  /\ event # None
  /\ event.stage # "close"
  /\ Goto(h, [at |-> "verifying", sources |-> event.sources,
              after |-> IF event.applied # None THEN event.applied ELSE event.updated])
  /\ UNCHANGED <<clock, kind, traces, event, task, routed, failures>>

\* matching_now_trace_ids_after: those the event lists already do not count.
MatchingAfter(q) == {t \in Matching \ q.sources : traces[t] > q.after}

Passes(q) ==
  IF kind = "create_review_task" THEN task = "resolved" ELSE MatchingAfter(q) = {}

Judge(h) ==
  /\ At(h, "verifying")
  /\ LET verification == IF Passes(handlers[h]) THEN "passed" ELSE "pending"
         stage == StageAfter(verification)
     IN Goto(h, Update(stage, verification, None, stage = "close"))
  /\ UNCHANGED <<clock, kind, traces, event, task, routed, failures>>

\* close and ignore: from any stage.
Close(h) ==
  /\ handlers[h] = None
  /\ event # None
  /\ Goto(h, Update("close", "closed_reason", None, TRUE))
  /\ UNCHANGED <<clock, kind, traces, event, task, routed, failures>>

\* update_now_event_execution reads action_results ...
ReadResults(h) ==
  /\ At(h, "update")
  /\ Goto(h, [at |-> "write", update |-> handlers[h], approved |-> event.approved])
  /\ UNCHANGED <<clock, kind, traces, event, task, routed, failures>>

\* ... and writes the row, COALESCEing the times.  Approvals alone set applied_at.
WriteEvent(h) ==
  /\ At(h, "write")
  /\ LET q == handlers[h]
         u == q.update
     IN event' = [event EXCEPT
          !.stage = u.stage, !.verification = u.verification,
          !.approved = q.approved \/ u.applied # None,
          !.applied = IF u.applied # None THEN u.applied ELSE @,
          !.closed = u.closes \/ @, !.updated = clock]
  /\ Goto(h, None)
  /\ UNCHANGED <<clock, kind, traces, task, routed, failures>>

\* The process stops, or the database stays busy.
Abort(h) ==
  /\ handlers[h] # None
  /\ failures < MaxFailures
  /\ failures' = failures + 1
  /\ Goto(h, None)
  /\ UNCHANGED <<clock, kind, traces, event, task, routed>>

-----------------------------------------------------------------------------
Continue(h) ==
  \/ SelectExisting(h) \/ UpsertEvent(h)
  \/ ApplyRoute(h) \/ LookUpTask(h) \/ InsertTask(h)
  \/ Judge(h) \/ ReadResults(h) \/ WriteEvent(h)

Next ==
  \/ Tick
  \/ \E t \in Traces, s \in Times : Ingest(t, s)
  \/ \E t \in Traces : Leave(t)
  \/ \E status \in {"open", "resolved"} : Review(status)
  \/ \E h \in Handlers :
       \/ ListTraces(h) \/ Approve(h) \/ Verify(h) \/ Close(h)
       \/ Continue(h) \/ Abort(h)

Spec == Init /\ [][Next]_vars

\* A request runs to its end, and the feed that the page polls is served in the
\* end, however busy the handlers are.
FairSpec ==
  /\ Spec
  /\ \A h \in Handlers : WF_vars(Continue(h))
  /\ SF_vars(\E h \in Handlers : ListTraces(h))

-----------------------------------------------------------------------------
Patch == [at : {"update"}, stage : {"verify", "close"}, verification : Verifications,
          applied : Times \union {None}, closes : BOOLEAN]

Request ==
       [at : {"listed"}, found : SUBSET Traces, now : Times]
  \union
       [at : {"selected"}, found : SUBSET Traces, now : Times,
        existing : [stage : Stages, sources : SUBSET Traces] \union {None}]
  \union
       [at : {"approved", "insert_task"}]
  \union
       [at : {"verifying"}, sources : SUBSET Traces, after : Times]
  \union
       Patch
  \union
       [at : {"write"}, update : Patch, approved : BOOLEAN]

TypeOK ==
  /\ clock \in Times
  /\ kind \in Kinds
  /\ traces \in [Traces -> Times \union {None}]
  /\ event \in Event \union {None}
  /\ task \in {None, "open", "resolved"}
  /\ routed \in BOOLEAN
  /\ handlers \in [Handlers -> Request \union {None}]
  /\ failures \in 0 .. MaxFailures

\* The executor of the recommendation did its work.
ActionDone == IF kind = "route_tool" THEN routed ELSE task # None

\* An event that says it was applied was: whatever stopped, failed or was
\* written back late, applied_at follows the executor's work.
AppliedIsDone ==
  event # None /\ event.applied # None => ActionDone

\* A closed event says when and why: it was closed by hand, or a verification
\* passed, which takes a review task when reviews were asked for.  The write of
\* one request may follow another's in any order.
ClosedForCause ==
  event # None /\ event.stage = "close" =>
    /\ event.closed
    /\ event.verification # "pending"
    /\ event.verification = "passed" /\ kind = "create_review_task" => task # None

\* A trace with the signature of the cluster gets onto the event in the end,
\* the event being closed or not, unless it loses the signature first.
Surfaces ==
  \A t \in Traces :
    (t \in Matching) ~> (t \notin Matching \/ (event # None /\ t \in event.sources))

-----------------------------------------------------------------------------
(* What the documents say of the feed, and the code does not keep. *)

\* "route/tool clusters close when no newer matching trace has appeared since
\* apply" (IMPLEMENTATION_PROGRESS.md:1488): no trace of an event that a
\* verification closed started after the change was applied.
ClosedQuietly ==
  /\ event # None /\ kind = "route_tool"
  /\ event.stage = "close" /\ event.verification = "passed" /\ event.applied # None
  => \A t \in event.sources \intersect Matching : traces[t] <= event.applied
=============================================================================
