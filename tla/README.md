# OpenABM: specifications, model checks and proofs

OpenABM collects traces of AI agents and works on them: a Python SDK exports
spans and traces to a FastAPI service, the service keeps everything in one
SQLite store, and a worker evaluates, clusters, judges, automates and deletes.
This directory holds TLA+ modules of the parts of that program in which
several actors change the same state, the TLC configurations that check them
and the TLAPS proofs about them. Paths below are relative to the repository
root; `storage.py` and `main.py` are those of
`src/apps/api/src/openabm_api/`.

To run: `tlc -config X.cfg M` for a row of the table of runs,
`tlapm MProofs.tla` for a module of proofs.

## 1. Inventory

### Components, their state and their operations

| component | state | operations |
|---|---|---|
| trace store (`storage.py`, migrations 0001-0003) | `trace_metadata`, `trace_spans`, `trace_search_fts`, `ingest_diagnostics`, `payload_objects`, `behavior_matches`, `scores`, `trace_dimensions`, `code_contexts`, `dataset_examples`, `eval_results`, review and link rows that cite ids | ingest of a trace, a span, an event, a payload; labels; scores, dimensions and other derived rows; dataset examples; eval results; citations; the tombstone |
| retention worker (`openabm_worker/retention.py`, `main.py`; `storage.py` 794-860, 6875-6970) | `retention_policies`, `worker_heartbeats`, the locals of a run | create a policy; the loop; list policies; list candidates; tombstone; heartbeat |
| SDK exporter and batch endpoint (`exporters.py`, `tracing.py`, `ingest_policy.py`, `main.py` 742-888) | `_spans`, `_traces`, `dropped_items`; the server's rows | `export`, the drop when full, `flush`; backpressure, an answer for each item |
| Now events (`storage.py` 3201-4665, migration 0020) | `now_events`, the review tasks and policies their actions create | sync, approve, execute, verify, close, reopen |
| automations (`main.py` 3292-3388 and 5396-5900, `automations.py`, `conditions.py`) | `automations`, `automation_runs`, notification targets, what the actions create | evaluate conditions, cooldown, actions with retries, compensation, replay of a key |
| version registries (`storage.py` 4849, 6027-6320, 6402-6700) | judge, prompt and agent-config versions; tags and their events | commit, tag, move a tag, roll back |
| review tasks and judge promotion (`storage.py` 5723, 6972-7077) | `review_tasks`, labels and scores of a judge, its status | create, decide, calibrate, promote, disable |
| authentication (`auth.py`, `storage.py` 1432-2194) | keys, service accounts, users, memberships, sessions, invites, deliveries | bootstrap, create, revoke, authenticate, invite, deliver |
| secrets (`secret_management.py`, `storage.py` 2328-2409) | `secret_refs`, their versions and access log | create, rotate, decrypt |
| evaluations (`offline_eval.py`, `eval_assertions.py`, `storage.py` 5207-5342) | datasets, `eval_runs`, `eval_results` | run a dataset, record a result, summarize, compare, blame a prompt |
| ingest and sampling policy (`ingest_policy.py` 86-260, `tracing.py` 463-540) | the exports of a span, in buffers and under way | sample a trace, cap and sample events and payloads, in the SDK and again in the endpoint; baggage |
| issues, investigations and impact (`investigation*.py`, `storage.py` 7430-8780) | issues, links, runs, impact reports, affected entities, review tasks | investigate, report, link, remediate, merge, scrub after a deletion |
| behaviors, novelty, similarity (`behaviors.py`, `novelty.py`) | behaviors, matches, novelty runs and candidates | label, promote, backtest, group unknown failures |
| judges, grounding, model runtime, code sandbox (`grounding.py`, ...) | grounding checks; rows derived from a trace | check claims, ask a model or a sandboxed process |
| context packs, classification (`context_packs.py`, `classification.py`) | `agent_context_packs` | build a pack, show it at a level, scrub it |
| metrics, reconstruction, prompts, documentation search | none, or counters | pure functions of stored rows |
| MCP server, CLI, web application | none of their own | each call is one call of the API or of the store |
| synthetic pilot, benchmarks, migrations | harnesses; the schema | |

### How they interact

* The SDK exports from the threads of the application and posts batches over
  HTTP. A post may time out while the server carries it out.
* FastAPI runs the `def` handlers in a pool of threads; the worker is one
  more process on the same SQLite file. Every `with self.connect()` block of
  the store is a transaction of its own (`storage.py` 1207). Most operations
  are several of them: they read a row, leave the transaction, and write what
  they made of the copy in another. Python's `sqlite3` begins the transaction
  at the first INSERT, UPDATE or DELETE, so even the SELECTs at the top of a
  write block are not in it.
* The worker polls the store. Apart from the rows it writes, its only output
  is its heartbeat, which an operator reads.

### What is hard, and what makes each part correct

| component | hard behaviour | what correctness means |
|---|---|---|
| trace store | two requests interleave transaction by transaction; a row read before a deletion is written back after it; ids are read before the transaction that uses them | the search index agrees with the rows; a deletion leaves nothing older than itself; a row about a trace has its trace |
| retention | a failure half way through a policy; a crash between listing and deleting; a listing with a limit; ingests and deletions in between | an `ok` heartbeat is honest; only expired traces are deleted; every expired trace is deleted in the end |
| exporter | unlocked lists shared by threads; a full buffer; a retry of what may have been stored; an answer that arrives after the buffer changed | the bound holds; no item disappears without a record; the buffer is emptied in the end |
| Now events | double approval; a verification that concludes on a closed or reopened event; sync against everything else | a closed event has a closing time and a reason; one action, one effect |
| automations | two runs with one key; a failure in the compensation; a webhook that times out after it was told | what a recorded run says it did is what was done, no more and no less; a failed run rolls back what it created; runs of a scope are a cooldown apart |
| version registries, secrets | two commits read one highest version; two moves of one tag; a read of a secret that stops half way | versions can be told from each other; a tag's history is a chain; a secret's row is its newest version, and no read goes unlogged |
| review tasks and judges | decisions over one task from stale copies; a promotion against reviews, scores and deletions | a decision stays; a judge becomes active on what reviewers and scores say |
| authentication | a bootstrap after a revocation; a key used while it is revoked; a mail whose request stops | what is revoked stays so; a delivery says what became of the mail |
| evaluations | spans that are stored, replaced and moved, and deletions, in the middle of a run; several judges; runs that overlap | summaries and comparisons are those of the stored results; a lower rate has a verdict that worsened; a revert restores what it says |
| sampling | two samplings one after the other; requests that arrive late; processes that share a trace | what is left and what is counted add up; failures are kept in full; a span does not go back to an earlier export |
| investigations | a dozen transactions with a model's answer in between, against deletions, merges and each other | reports and remediation agree; what is told cites evidence that the run had; a reader sees no account above his level |
| behaviors, grounding | labels, backtests and novelty runs of two reviewers and of the feed; answers of a model taken as they come | a match is of one label or one backtest; each unknown failure is in one candidate; a contradiction cites what was read |

`PROJECT.json` lists each of these hazards with its line and the properties
that cover it, or why none does yet.

## 2. The modules

| module | models | how |
|---|---|---|
| `TraceStore` | the trace store | one action per transaction; a request between two transactions is a record in `requests` |
| `Retention` | the worker's loop, one project | one action per call of the worker to the store |
| `Delivery` | what an exporter promises of an item | abstract: an item has a fate, and fates move along `Moves` |
| `SdkExport` | `HttpExporter` and `ingest_batch` | one action per step of a thread between two accesses to the shared lists, and per answer of the server; implements `Delivery` |
| `SpanFidelity` | what a span keeps on its way into the store | one action per export, request and answer; sampling as operators over sequences of events |
| `NowEvents` | the life of one Now event | one action per transaction; a request between two transactions is a record in `handlers` |
| `AutomationRuns`, `Conditions` | one automation and the requests that run it | one action per attempt of an action, and per transaction around them; the condition grammar as operators |
| `VersionRegistry` | one prompt, agent config, judge or secret | a commit is its SELECTs, then its write with what follows |
| `Identity` | the development key, API keys, accounts, users, invites, sessions | authentication is a SELECT and an UPDATE; each endpoint its transactions |
| `JudgeLifecycle` | one judge, its reviews, its promotion, its two Now events | one action per read or write of a table |
| `EvalRuns`, `Assertions` | the eval runs of one dataset and the revert they may cause | a run advances by one read or write; the assertions of an example as operators |
| `Investigations` | issues, runs, reports, remediation, links, packs | one action per transaction; an investigation is a dozen of them |
| `BehaviorDiscovery` | labels, promotions, backtests, novelty, grounding | a request reads in one step and writes one transaction at a time |
| `Values` | `None` | shared by those that are checked together |
| `Governance`, `Triage`, `Analysis` | | the parts that share no state and are checked together, with the type invariant of all of them |
| `TraceStoreProofs`, `RetentionProofs`, `SdkExportProofs`, `NowEventsProofs`, `GovernanceProofs`, `TriageProofs`, `AnalysisProofs`, `FoldProofs` | | the theorems of section 5; `SdkExportProofs` is about `SdkExport` and `SpanFidelity`, `GovernanceProofs` about `Identity`, `VersionRegistry`, `JudgeLifecycle` and `Governance`, `TriageProofs` about `AutomationRuns`, `BehaviorDiscovery` and `Triage`, `AnalysisProofs` about `EvalRuns`, `Investigations` and `Analysis`; `FoldProofs` has the lemmas about finite sets and sums that the others share |
| `MCTraceStore`, `MCRetention`, `MCSdkExport`, `MCNowEvents` | | instances of one module |
| `MCAutomation`, `MCDiscovery`, `MCEvals`, `MCFidelity`, `MCIdentity`, `MCInvestigations`, `MCJudges` | | instances, and for each question the bound on what a behavior of it contains (`...Aside`) |
| `MCGovernance`, `MCTriage`, `MCAnalysis`, `MCScenario` | | instances of those side by side, see section 3 |

Definitions whose comment begins with "Fault:" are not part of a model: each
is a plausible bug in the definition that follows it, and shows that a
property can tell the two apart (`PROJECT.json`, "mutants").

### TraceStore

State and code correspond table by table; `PROJECT.json` "map" has the lines.
Contents are abstract: a body is a model value, a search document is the
rows it was concatenated from, so "the index agrees with the rows" is an
equation. The tables of rows derived from a trace (scores, dimensions, code
contexts, judge runs and the others the tombstone loops over) are one set of
records that name their table, because the tombstone treats them alike.

An operation of the code becomes the sequence of its transactions:

| operation | actions |
|---|---|
| `upsert_trace` | `IngestTrace` (one write transaction, index included) |
| `upsert_span` | `IngestSpan`, `GetSpan`, `RecordDiagnostic` (a duplicate only), `UpsertSpan` |
| `append_event` | `AppendEvent` reads the span and changes the copy, then as `upsert_span` |
| `put_payload` | `PutPayload` |
| `label_trace_behavior` | `LabelTrace` reads, `UpsertLabelled` writes the row back, `ConfirmMatch` |
| `add_trace_dimension`, `upsert_code_context`, `record_score`, ... | `ReadForDerived`, `InsertDerived` |
| `add_trace_to_dataset` | `AddTraceToDataset`, `InsertExample` |
| an example of an eval run | `EvaluateExample`, `RecordEvalResult` |
| `create_review_task` and the other citations | `Cite` |
| `tombstone_trace` | `StartTombstone` (the SELECTs before the first DELETE), `CommitTombstone` |
| a process that stops, a busy database | `Abort` |

A span is keyed by its id alone (migration 0001, line 47): one sent again with
another trace moves there, and only the new trace is indexed again
(`storage.py` 2799-2801, 2837). `strays` (ghost) holds what that leaves behind:
a span and a trace whose document was written when the span was still there.
`IndexCoherent` says of every document that it has the rows of its trace, and
beyond them text of strays only; what a stray means for a deletion is finding 6.
All of it is one project.

`era` and `deletions` are ghosts: a row carries the number of tombstones its
trace had when the row was committed, so "older than the last deletion" can
be said of a state. `revived` marks a row whose content was read before a
tombstone and written after it.

### Retention

`worker` is the process with its local variables: where it is, the policies
left, the candidates left, whether an error was seen. Between any two calls,
clients ingest and delete, operators create policies, and time passes. A call
inside the `try` of `run_retention_once` may fail (`PolicyFails`: the
policy's remaining candidates are skipped), and one outside it may raise and
end the process (`Crash`); only an operator restarts it (`Restart`). The
listing is `search_traces`: the newest `Window` rows by `started_at`,
tombstones among them, in any order among equals.

`owed` (ghost) is what was due when the run listed its policies and has been
neither deleted nor ingested again; `touched` (ghost) what was ingested since
the last listing of candidates.

### SdkExport

Nothing in the exporter takes a lock, so a thread has a place for each access to
the shared lists: nothing in hand; after the check for room at the scan for an
item to evict (`scan`, with the list and the index it has come to), at the choice
of the oldest item when the scan found none (`choose`), at the `pop` of the index
it found, at the entry in `dropped_items` (`record`), at the `append`; between a
root span and its trace (`trace`); between the post of a flush and the end of it
(`posted`, `answered`). What `Pop` takes is what is at the index by then, and past
the end of a list that a flush has cleared it raises, which ends the export. The
count of the two lists, their serialisation into a request and their clearing are
one step each. The lists, the diagnostics and the priority rules are those of
`exporters.py`. What the server does with
an item of a batch is a choice: it accepts or refuses each on its own, or stops
half way, or carries out a request the client gave up on (`late`).

`Delivery` is the promise: an item is unsent, pending, stored, dropped or
rejected, what is stored stays stored, and no fate leads to silence. `Fate`
maps a state of `SdkExport` to it; an item that was offered and is nowhere on
record maps to "lost", which `Delivery` has no move to.

### NowEvents

One row of `now_events`: the cluster of the traces that share a signature. The
signature determines the recommendation, so `kind` never changes. The row, the
review task (its id is derived from the event's) and the fact that the routing
override is committed are what the store keeps; `handlers` are the requests.

| request | actions |
|---|---|
| `GET /now/events` | `ListTraces` (the search and the derived event), `SelectExisting`, `UpsertEvent` (inserts, updates or reopens, as the row it selected says) |
| approve | `Approve` reads; `ApplyRoute`, or `LookUpTask` and `InsertTask`; `ReadResults`, `WriteEvent` |
| verify | `Verify` reads, `Judge` decides, `ReadResults`, `WriteEvent` |
| close, ignore | `Close` reads, `ReadResults`, `WriteEvent` |
| PATCH of a review task | `Review` |

`ReadResults` and `WriteEvent` are `update_now_event_execution`: what it writes
was decided from the row the request read first, `action_results` from the row
it reads here, and the times are only replaced by times. `Abort` is a request
that stops between two transactions, its first ones committed.

The verification is one of three values: a pass, a closing by hand, anything
else. Of the seven recommendations two are modelled here: a route (also the
pattern of the others that commit a version) and a review task. Those whose
executor and verification have a life of their own are with the component they
change: a raised threshold and a disabled judge in `JudgeLifecycle`, a reverted
prompt in `EvalRuns`, a promoted behavior in `BehaviorDiscovery`.

### SpanFidelity

| code | actions |
|---|---|
| `Tracer.start_trace`, `start_span`, the baggage of `inject` and `extract` | `StartTrace`, `StartChild`, `Inject`, `ContinueFromBaggage` |
| events of a span; partial flush; end of a span | `AddEvent`, `FlushPartial`, `ExitSpan`, each export through `SampledEvents` and the payload rules |
| `flush` | `Flush`, `GiveUp` (a timeout) |
| `ingest_batch` | `RefuseBatch`, `ReceiveBatch` (policy applied), `StoreItem`, `AnswerBatch`; `ReceiveLate`, `StoreLate` for a request its client gave up |

An event is its kind and, for a marker of omission, the numbers on it. `all`,
`number` and `pressed` of an export are history: how many events there were,
which export of its span it is, whether its batch was over the soft limit.

### AutomationRuns

`POST /api/automations/{id}/run` is `BeginRun` (the lookup of the key),
`ReadTriggerTrace` (conditions), `ReadCooldown`, one action per attempt of an
action or a compensation (`CreateTask`, `RollbackTask`, `AddExample`,
`CommitRoute`, `Preview`, `Undelivered`, `PostNotification`, `Unsupported`),
`RecordRun` with its unique index, `AuditRun`. What follows an attempt (retry,
dead letter, the plan of compensations, what is skipped) is `Settle`. A webhook
may receive what the request believes timed out. `RunStops` loses what the
request had in hand. Nothing sweeps such runs up, so nothing is claimed to end.

### VersionRegistry

SQLite takes the write lock at the first write, so a commit is `Prepare...`
(its SELECTs) and `Insert...Version` or `RotateSecret` (the write, the tag,
which is read under the lock, and the tag event), then `AuditVersion`. Judge
and secret versions are UNIQUE by number: the second of two racing commits
fails and is rolled back. Prompt versions are UNIQUE by commit. Agent configs
are neither, so racing commits may share a number; `VersionsIdentified` says
what is left. A read of a secret for a client is `DecryptSecret`, `LogAccess`,
`AnswerPlaintext`; decrypting for a notification writes no access log in the
code, and is not among the reads.

### Identity

A request is `Authenticate` (the SELECT of the key), `TouchKey` (the UPDATE of
its last use), then one endpoint: `CreateKey`, `EnsureServiceAccount`,
`InsertKey`; `RevokeKey`; `CreateUser`, `AddMembership`; `SetMembership`;
`CreateSession`, `RevokeSession`; `CreateInvite`, `SendMail`, `MarkDelivery`.
`Bootstrap` is the start of a process, `ProcessStops` its end with the requests
in flight. `mails` counts what was handed to the mail server.

### JudgeLifecycle

| code | actions |
|---|---|
| drafts and versions | `CreateDraft`, `CommitFirst`, `CreateDraftReview`, `CommitVersion` |
| `review_tasks` | `CreateReview`; `StartPatch` reads the task, `WritePatch` writes it back |
| scores of eval results, and their deletion | `RecordScore`, `ScrubScore` |
| promotion | `StartPromotion` (scores), `ReadLabels`, `ReadOpen`, `Activate` |
| the feed's two events about a judge | `PollDrift`, `StartDisable`, `DisableJudge`; `PollThreshold`, `StartRaise`, `CommitRaise`, `MarkRaised`, `VerifyRaise` |

A status belongs to the judge, not to one of its versions, as in the code. A
review task may be created with any status and decision, and patched to any
(`storage.py` 6982-6983, 7050); a decision of null withdraws one. The label of a
task is its decision, or else its status (783-788), so a task with status
"accepted" that nobody decided lets a promotion pass: `PromotionsEarned` is about
labels, and `AcceptanceDecided` is refuted.

### EvalRuns

`StartEval` creates the run, with a panel of judges; `EvalStep` goes on: the
offline trace of an example, its spans, the verdicts of the panel one after the
other, the assertions (`Assertions`), the insert of the result, and after the last
one the summary, which counts every score. A judge that gives no score (of an
unsupported type, or a rubric when no model is configured) is not on the panel; an
example whose runner is of no known type, or which has neither judges nor
assertions, is skipped. `invalid_output` is a status no run gives. `EvalStops` is a
run that raises or dies, and stays "running". Meanwhile spans are stored, a span
sent again replaces the row of its id and may move it to another trace, examples
are added, traces are deleted with their examples and results. The spans of one
runner output are stored in one step. `FallsEnough` is the threshold of 0.05
(`storage.py` 701) without the rounding of rates to four decimals, which makes no
difference below a thousand scores. `PollEvals` derives
the event that blames a prompt, `StartRevert`, `CommitRevert`, `MarkReverted`,
`VerifyRevert` are its approval and verification. `get_trace` and `list_spans`
of an example are one read.

### Investigations

| code | actions |
|---|---|
| an issue, with or without a screenshot | `OpenIssue`, `ReportScreenshot` |
| `run_investigation_workflow`, the investigation of a chat message | `StartWorkflow`, `StartChat`, `SearchCohort`, `BuildReport`, `InsertRun`, `PersistReport`, `ReadFirstEntity`, `UpsertEntities`, `OwnLinks`, `AddLink`, `FinishLinks`, `ReadEvidence`, `AnswerInvestigation`, `AddCaseTask`, `ListTasks` |
| remediation | `UpdateEntity`, `ReadEntity`, `ReviewEntity`, `NotifyEntity` |
| context packs | `StartPack`, `ReadSource` for one source after the other, `WritePack` |
| a deletion | `DeleteCase` scrubs every table that cites the trace, or a span the trace still has |

A trace may be deleted again (`storage.py` 8173-8190). It has no spans by then, so
the second deletion takes out the trace id only: a result or a pack that was read
before the first and written after it keeps citing the span. `EvidenceCited` leaves
the spans of deleted traces out, and `CitesGoTogether` is refuted. The row, the
spans and the dimensions of one source are one read.

### BehaviorDiscovery

A request reads in one step (`ReadForLabel`, `ReadForBacktest`,
`ReadForNovelty`, `ReadForGrounding`) and writes what it made of it, one
transaction at a time: `WriteLabel`, `ConfirmMatch`; `ReplaceMatches`;
`GroupSimilar`, `GroupByModel`, `PersistNovelty`; `PersistCheck`; and for each
finding `AddReviewTask`. `ProposeBehavior` and `PromoteBehavior` are the feed's
recommendation and its executor. What a model answers is any member of
`Groupings` or `Objections`, unknown names and spans included.

## 3. The runs

A dozen runs; each asks a question of its own.

| run | configuration | outcome | what it shows |
|---|---|---|---|
| `trace_store` | `MCTraceStore.cfg` | holds | `TypeOK`, `IndexCoherent`, `SurvivorsAreNewer`, `RowsHaveTheirTrace` while two requests ingest, label, append to and delete one trace and its span, or move a span between two traces, or work on the payload, derived rows, examples, results and citations of a trace over two deletions |
| `trace_store_revival` | `MCTraceStoreRevival.cfg` | violated | a label or an event brings a deleted trace or span back |
| `retention` | `MCRetention.cfg` | holds | `TypeOK`, `HeartbeatHonest`, `CandidatesExpired`, `Expires` through a failure or a crash |
| `sdk_export` | `MCSdkExport.cfg` | holds | one thread: `TypeOK`, `DeliveryPromise` (the refinement) and `Drains` through two failures |
| `sdk_export_race` | `MCSdkExportRace.cfg` | violated | an item appended during a flush is cleared with those that were sent |
| `now_events` | `MCNowEvents.cfg` | holds | two requests: `TypeOK`, `AppliedIsDone`, `ClosedForCause` through stale copies and a request that stops |
| `now_events_feed` | `MCNowEventsFeed.cfg` | holds | `Surfaces`: a matching trace gets onto the event, a closed one included |
| `now_events_quiet` | `MCNowEventsQuiet.cfg` | violated | a poll of the feed hides a recurrence from the verification |
| `governance` | `MCGovernance.cfg` | holds | registries, identities, judges, sampling and two threads of an exporter, see below |
| `triage` | `MCTriage.cfg` | holds | automations and the discovery of behaviors, see below |
| `triage_keys` | `MCTriageKeys.cfg` | violated | two requests with one idempotency key both act |
| `analysis` | `MCAnalysis.cfg` | holds | evals and investigations, see below |

The last four put components side by side that share no state: `subject` is
chosen in the initial state, the component it belongs to moves and the others
stay where they start. It also says which question a behavior is about, and
the predicates `...Aside` of the MC modules bound what happens in it; every
action of a component happens under one of its subjects. A property then
speaks of its component in each of these behaviors:

| run | property | says |
|---|---|---|
| `governance` | `HistoryAccounted`: `VersionsIdentified` | however commits race, judge and secret versions are numbered without gap or double, prompt versions have a commit each, and the numbers of agent configs have no gap |
| | `HistoryAccounted`: `TagHistoryIsAChain` | each tag event begins where the one before ended, and the tag is where the last one ended |
| | `SecretsAccounted` | a secret's row is its newest version; no plaintext was handed out that the log does not tell of |
| | `RevocationSticks` | a revoked key stays revoked under the requests that use it and through restarts, but for the development key, which a bootstrap resets |
| | `MailsAccounted` | "sent" means that the mail server took the mail; none goes out twice, or when suppressed |
| | `DecisionsStick` | a decision of a reviewer is only undone by a write that had not read it |
| | `PromotionsEarned` | a judge is active after a review that is labelled accepted, by its decision or its status; a promotion that was not disturbed agrees with the state it changes |
| | `OmissionsCounted` | the events of a span that are left and those the markers count add up, after both samplings |
| | `SamplingHonest`: `KeptInFull` | what failed, or asks to be kept, is stored with all it had, unless the batch was too large |
| | `SamplingHonest`: `SampledTogether` | the spans of a trace are sampled together across processes, unless a carrier lost the decision |
| | `OnlyLateRequestsGoBack` | a stored span goes back to an earlier export only through a request its client had given up |
| | `BufferBounded` | of two threads that export, evict and flush, each overshoots the buffer by one item at most, less the one that would fit |
| | `GovernanceTypeOK` | types; keys find their account, members and sessions their user |
| `triage` | `EffectsAccounted` | a recorded run names each task its request created: one result does, or one compensation; a webhook gets what is called delivered, and never more than the attempts of the plan and of its compensations allow |
| | `CompensationComplete` | a run that compensated rolled back every task that has a rollback, whatever its own compensations did, and is not called a success |
| | `CooldownSpaced` | two runs of a scope that acted are a cooldown apart, unless the later had read the runs before the earlier was recorded |
| | `MatchesOfOneSource` | one confirmed match of a behavior and a trace, agreeing with the labels; the positives of a behavior are of one backtest |
| | `FindingsAccounted` | the candidates of a novelty run partition what it read, whatever a model groups; a contradiction cites spans that were read; each finding has its review task unless its request stopped |
| `analysis` | `ReportsExplained` | a completed run's summary is that of the scores of its stored rows; when the pass rate is lower than another run's, a verdict of some judge on some example has worsened, and for runs with one judge the comparison shows it |
| | `RevertRestores` | until a user moves the tag, "prod" has the text of the run before, however the approval was interrupted or repeated |
| | `RemediationAgrees` | what an affected entity says is in a report of its issue, and what a report found has its row, through races and deletions |
| | `EvidenceCited` | what a model wrote cites traces and spans of its run or pack, some of each until they are deleted, the spans of deleted traces aside; tasks show the evidence of their hypothesis |
| | `PacksDisclose` | what a pack shows a reader is at or below his level |

A property that is a conjunction of named parts has a mutant for each part.

### Bounds, and why they are enough

* `TraceStore`: the one thing that relates two traces is a span that moves, so
  one trace shows every other interleaving (that a document is changed only by
  writes to its own trace is proved for any number of traces), and two show a
  move. Two requests in flight are
  enough for a stale copy to race a deletion; one deletion for a revival,
  two for a row that outlives the second. Requests are interchangeable:
  `SYMMETRY` is sound, the run checks no liveness. `about` splits the
  operations in three: those on the trace, its span and its search document over
  one deletion (`content`), a span that moves between two traces over one
  (`moves`), the others over two (`rows`); the races are between operations of
  one kind and deletions.
* `Retention`: two traces (one may be deleted, ingested again or fail while
  the other is in the list) and two policies (one may fail and the other
  not), the first with ttl 0; a clock of two instants, so that a trace comes
  of age during a run; one failure or crash. `Window` 2 covers the project: in
  a larger one than the code's 10000 rows, newer rows, tombstones among them,
  keep the oldest expired trace out of every listing and `Expires` fails. No
  symmetry: the run checks liveness.
* `SdkExport`: three spans, of the three kinds of priority, all of them roots,
  so six items, against a buffer of two and a backpressure limit of two; two
  failures. With two threads (in `governance`), a buffer of one, so that the
  overshoot and the eviction happen at every append. `CHECK_DEADLOCK FALSE`: the application may
  stop once every span is exported and the buffer is empty. A buffer above the
  backpressure limit with nothing of high priority is refused on each retry,
  so `Drains` holds within the limit only.
* `NowEvents`: two traces, so that one recurs while the other is on the event;
  two instants, before and after the change; two requests, since a request
  races one other at a time; one that stops. Traces and requests are
  interchangeable where only safety is checked; `now_events_feed` has one
  request at a time, and no symmetry. `now_events_quiet` leaves out traces that
  change their signature (`StableSpec`), so that its counterexample is the
  plain one: approve, recur, poll, verify. What the two safety invariants say
  is proved for any number of requests.

* `governance`, `triage`, `analysis`: two requests in flight, since every race
  the properties are about is between two. Contents are two, to be told apart;
  versions, commits and runs two to four, so that a race has a before and an
  after. The clock has two instants, for what expires or cools down. A trace
  is deleted once; where a second deletion changes what it finds
  (`Investigations`), twice, except where two upserts are at work. A span has
  three events at most, so that the SDK and then the server may cut; an automation is one of two: a task whose notification fails
  and is compensated, or a partial failure on a cooldown, whose compensation has
  nothing to roll back and creates a task. `CHECK_DEADLOCK
  FALSE`: with the bounds reached nothing has to happen.
* Requests that are alike are symmetric (`Alike`); `analysis` has no symmetry,
  because `EvalAside` and `CaseAside` tell the two requests apart. Its panels are
  of at most two judges; it is the largest run, of about a million states.

### Fairness

* `Retention!FairSpec`: weak fairness of the worker's own steps, because the
  loop of `main()` (`openabm_worker/main.py`) never ends by itself, and of
  `Restart`, because the deployment leaves restarting to its operator; failures
  are finitely many (`MaxFailures`), an assumption on the environment: a policy
  that fails on each run never expires anything. Ingests, deletions and ticks
  of the clock are not fair.
* `SdkExport!FairSpec`: weak fairness of a thread's steps: it returns from
  `export`, calls `flush` again (`Tracer.flush`, or the end of the program) and
  the server answers within the finitely many failures. Which items the server
  accepts is not constrained, and no thread has to end another span.
* `NowEvents!FairSpec`: weak fairness of a request that has begun; the server
  carries it through (`Abort` happens finitely often). Strong fairness of the
  feed: the page polls every 15 seconds (`App.tsx` 292-298), and a poll that
  finds the threads busy is served when one is free. Nobody has to approve,
  verify or review.

## 4. What the code does against what its documents say

With a run, whose counterexample is the shortest that TLC finds:

1. `src/IMPLEMENTATION_PROGRESS.md:840` describes the tombstone: a label or an
   event in flight undoes it (`trace_store_revival`).
2. `src/IMPLEMENTATION_PROGRESS.md:1488` says that a route's event closes when
   no newer matching trace has appeared since it was applied: the verification
   does not count the traces that are on the event, and each poll of the feed
   puts the newer ones there (`now_events_quiet`).
3. `src/IMPLEMENTATION_PROGRESS.md:1089` says that high-priority items are
   preserved: an item appended while another thread's flush is in flight is
   not (`sdk_export_race`).
4. `src/IMPLEMENTATION_PROGRESS.md:579` says that a run's idempotency key
   protects against replays: two requests that look it up before either is
   recorded both act (`triage_keys`).

Refuted by TLC on the same instances, with no run kept; each is a definition of
its module:

5. `TraceStore!DiagnosticsScrubbed`: `src/governance/SECURITY.md:26` says that
   deletions retain no payload content; a span sent twice leaves its first
   content in `ingest_diagnostics`, which no deletion visits.
6. `TraceStore!SearchedTextIsStored`: the same sentence; a span sent again under
   another trace moves there, and the search document of the trace it left keeps
   its text, also when the span is deleted, until the old trace is indexed again.
7. `TraceStore!EvalResultsScrubbed`: `src/IMPLEMENTATION_PROGRESS.md:867` says
   that tombstones remove eval results; those of the examples it found before
   its transaction, only.
8. `EvalRuns!BlamedRunsRegressed`: "the latest eval regressed relative to the
   prior run" (`storage.py` 4117) is also said of a run in progress that has no
   result yet, or of one whose results are all passes.
9. `JudgeLifecycle!ApprovalsRaise`: "approval commits a new judge version with
   the raised threshold" (`IMPLEMENTATION_PROGRESS.md:1545`); a version
   committed since the event was derived may have that threshold, or more.
10. `JudgeLifecycle!AcceptanceDecided`: judges become active only after the
    "accepted-review gates pass" (`IMPLEMENTATION_PROGRESS.md:1435`); a task that
    was created with status "accepted", or patched to it, is one, with no decision.
11. `EvalRuns!ComparisonShows`: a comparison takes the rate of all judges from the
    summary and the failures of the first judge from the rows, so with two judges
    it can show a lower rate and no example.
12. `SdkExport!LowGoesFirst`, `SdkExport!EvictionFindsItsItem`: with two threads an
    item of high priority may be evicted while one of low priority is buffered, and
    the pop may find its index gone and raise out of `export`.
13. `Investigations!CitesGoTogether`: a stale result or pack whose trace is deleted
    again keeps the span of a trace it no longer cites.

## 5. What is proved

For every value of the constants, from the assumptions named in the modules
(types of the constants, such as a cooldown or a limit on events that is a natural
number, or a plan that is a sequence of actions; that `None` is no row, number, content or
role; that there is a number for the first version of an entity; that
accounts, payloads and the traces of novelty runs are finite sets; that a model's
grouping is a list of lists and its answer about an investigation a list of
hypotheses; that no trace has the id of a span). A history
variable in a statement (`crossed`, `overlapped`, `touched`) names the
interleavings the code does not protect from: the theorems say that nothing else
goes wrong.

| theorem | says | argument |
|---|---|---|
| `TraceStoreProofs!Typing` | `Spec => []TypeOK` | inductive as it stands; one step per action |
| `TraceStoreProofs!IndexCoherence` | `Spec => []IndexCoherent` | inductive with `TypeOK`. `Reindexed`: a trace whose document is made of its present rows, as every transaction that writes a trace makes it, is in order. `LeftAlone`: a trace whose row and document a transaction leaves alone stays in order as long as its spans stay, or those that leave it for another are counted among its strays |
| `TraceStoreProofs!TombstoneScrubs` | `Spec => []SurvivorsAreNewer` | inductive with `TypeOK`: what an insert commits has the current era whatever its request read before, and the tombstone, which alone changes the era, removes by trace id in its own transaction. The tables it scrubs by ids read earlier are not in the statement, and that is where finding 7 is |
| `RetentionProofs!Typing` | `Spec => []TypeOK` | inductive as it stands |
| `RetentionProofs!Honesty` | if the listing covers the traces (`Cardinality(Traces) <= Window`), `Spec => []HeartbeatHonest` | `HeartbeatHonest` speaks of the end of a run; the invariant `OwedIsAhead` of all of it: as long as no error was recorded, each trace owed is in the list being worked off, or due by a policy still ahead. It needs `DueStays` (the clock does not turn a due trace into one that is not) and `WholeWindow` (a listing of at most `Window` rows is of all of them, by cardinality) |
| `RetentionProofs!Restraint` | `Spec => []CandidatesExpired`, whatever the window | `ListedForCause`: the invariant with the fact that a policy of a run is active and stays so |
| `SdkExportProofs!Typing` | `Spec => []TypeOK` | rests on `Removal` (what `RemoveAt` does to a queue), `WorkFields`/`WorkBuilt` (the places of a thread), `Scanned` (the scan's index is of the list it looked at) and `Popped` (a pop shortens a list by one and takes one of its items, or raises) |
| `SdkExportProofs!Bound` | for any finite set of threads, `Spec => []BufferBounded` | `BufferBounded` is not inductive: nothing in it stops each of the threads from being past the check. `RoomReserved` counts them: the buffered items and the threads that are to append (`Appending`) stay below the limit plus the number of threads. A check that passes with room moves one thread in (`OfferReserves`), a pop makes the room its thread takes (`AppendingMoves`), an append trades a thread for an item, and the other steps only make room (`RoomKept`) |
| `NowEventsProofs!Typing` | `Spec => []TypeOK` | with `EventSeen`: a request beyond the SELECT has seen the row, and no row is deleted |
| `NowEventsProofs!ApplicationIsHonest`, `ClosingIsCaused` | `Spec => []AppliedIsDone`, `Spec => []ClosedForCause`, for any number of requests | neither is inductive: a write takes what it says from a request, not from the row. `RequestsSound` says of each write in flight that what it will say is already so, `WorkStays` that an executor's work is never undone, so that it still is when the write commits |
| `GovernanceProofs!Revocation` | `IdentitySpec => []RevocationSticks`, for any number of requests, users and keys | `RevokedRows` adds that a revoked key has a row, so that a key inserted later is none of those revoked. Three actions write a row: the bootstrap, of the first only, the last use of a key, which leaves `active` as it is, and the revocation. No other writes `keys` or `revoked` |
| `GovernanceProofs!History` | `RegistrySpec => []HistoryAccounted`, for any number of commits in flight | `TagHistory`: inductive with `Shape` (tables are sequences, and before there is an entity there is nothing else). `TagSteps`: whoever moves the tag appends an event from the tag of that moment to a version it stores in the same step. `Versions` needs `Gapless`: the stored numbers are 1 to some m and a commit in flight has one of them or the next, so that an INSERT that the unique index does not refuse has just the next; the highest of them is then how many there are (`LatestOfGapless`). `CommitsDiffer` counts the commits of prompts; the numbers of a secret come from `SecretSound` |
| `GovernanceProofs!Secrets` | for any finite set of requests, `RegistrySpec => []SecretsAccounted` | neither part is inductive. `SecretSound` says of a rotation in flight that its number is at most the next one, so that an INSERT that is not refused has just that; `ReadsSound` counts the readers whose access is logged and who are not answered yet with the answers given |
| `GovernanceProofs!Mails` | `IdentitySpec => []MailsAccounted` | `DeliveriesSound`: an invite that is being delivered is delivered by the one request that created it, which hands it to the server once; what is written afterwards is what the server said. A suppressed one is in no request's hands |
| `TraceStoreProofs!RowsOfTraces` | `Spec => []RowsHaveTheirTrace` | the requests that read a trace before they insert a row about it know it (`KnownToRequests`), and no trace is ever unknown again (`TracesStay`: a tombstone keeps the row) |
| `SdkExportProofs!Delivers` | with one thread, `Spec => DeliveryPromise`: the exporter implements `Delivery` under the mapping `Fate` | `Ledger`: each item offered is in one of the places, what a thread has in hand agrees with the buffer, the item its scan chose is still where it was found (`WorkSound`), and a late batch was offered. From it `FateByPlace`; `Settles` says of each step which places an item may leave, and the moves of `Delivery` follow. With two threads it is false, which is finding 3 |
| `SdkExportProofs!Sampling` | `FidelitySpec => []SamplingHonest`, for any limits and number of processes | its part `KeptInFull` is inductive with `SendsSound`, which says it of every export in a buffer, a request or a row. `ExportIsSound`: the SDK leaves nothing out of such a span; `PolicySound`: the endpoint takes from it only what it also marks as pressed. `SampledTogether` needs `CarrierSound`: a carrier is of a trace that was begun and has its decision, or another of that trace lost it. A root begins a trace that has neither spans nor carriers |
| `SdkExportProofs!LateOnly` | `FidelitySpec => OnlyLateRequestsGoBack`, an action property | `LastFollows`: in the buffer of a process, and in the request it waits for, the last export of a span follows every earlier one; a process that waits exports nothing. So what a request stores that is older than the row is followed, in the same request, by what is not. Rows and requests given up hold exports the span has counted (`ExportSound`) |
| `SdkExportProofs!Counting` | `FidelitySpec => []OmissionsCounted`, for any limits and any events | `Said`: what a list of events says there were, by what is left of it and its marker, as long as only its last can be a marker (`Plain`). Sampling, by streams or by a cap, leaves the end of a list unless that is of a stream (`Thinner`), so that the SDK's marker, which is behind all others, is seen by the server's sampling as one event with its numbers, and what is taken of the rest is in the marker of the server (`ThinnerSays`, `SampledSays`). What is in a buffer or a request may still be sampled (`Fresh`), a row not |
| `GovernanceProofs!Decided` | `JudgeSpec => []DecisionsStick`, for any number of reviewers | `RulingsSound`: a patch in flight has read the task as it is, or it or the task is crossed, so that what it writes back changes no decision |
| `GovernanceProofs!Promoted` | `JudgeSpec => []PromotionsEarned`, for any number of requests and scores, and tasks of any status and decision | `PromotionSound`: what a promotion has found out at each of its reads was so then, and is so now if nothing disturbed it. A step that changes scores, tasks or decisions marks the promotions in flight (`Disturbed`), and one that does neither leaves what they found. `AcceptedReviewed`: a task that is labelled accepted counts as reviewed |
| `GovernanceProofs!GovernanceTyped` | for any finite set of requests at a registry, `RegistrySpec /\ IdentitySpec /\ JudgeSpec /\ FidelitySpec /\ Spec => []GovernanceTypeOK` | one theorem for each part, and `SdkExportProofs!Typing` for the exporter. `Directory`: no account and no user is ever deleted, and the request that inserts a key or a member has created or read what it names, or names a role it was given. `RegistryTyping`: the bounds on what is stored come from `Gapless`, and that the log of reads exceeds its bound by no more than the requests in flight from counting them (`ReadsBounded`). `JudgeTyping` needs a request that raises a threshold to have one in hand, of an event that is there (`ThresholdsSound`). `SdkExportProofs!FidelityTyping` needs that a span leaves the program with a status other than the open one (`FidelityTyped`), and that late requests are counted when they are given up (`AbandonedCounted`) |
| `TriageProofs!Spaced` | `AutomationSpec => []CooldownSpaced`, for any automation and any number of requests | not inductive: a row is written from what its request read before its actions. `RequestsSound` keeps that until the record: the clock, how many runs it saw, and, unless it is skipped, that those of its scope that acted had cooled down (`Cooled`). Runs are only appended, and none is among those its own request saw (`RunsRead`). However an attempt ends, its request keeps what it read (`Attempted`) |
| `TriageProofs!Compensations` | `AutomationSpec => []CompensationComplete`, for any plan of actions | `RollbackSound` says of a request that compensates, and of a row, of each task that a result made and that has a rollback: it is still to come in the list of what is to be undone, or is at its head and tried, or is resolved, and no step opens a resolved task again. What the list holds when it is made is what `FlattenSeq` computes (`Flattened`). That takes induction over its length, which is done as the search of a least counterexample: `Smallest`, that a set of naturals has a least element, is an instance of a theorem of the library without an operator for a parameter |
| `TriageProofs!Effects` | `AutomationSpec => []EffectsAccounted`, for any plan of actions, with any attempts and compensations | `EffectsSound` says of a request in flight and of a row what `EffectsAccounted` says of a row only: each task it created is named once (`NamesTasks`), and what it posted is within what the attempts of the actions behind it allow and the attempts made at the one at hand (`SumTo`); once it compensates, posts and what the compensations still to come allow are within `SendBudget`. At the turn, what is to be compensated is what the results brought along, in reverse, so that its POSTs are a part of the sum of all (`PlannedPosts`): the sum of a flattened sequence is the sum of the sums. A request that has a task to compensate has a result that names it (`OfResults`), so that no compensation names another run's task. An attempt at any action is one lemma (`EffectsAttempted`); that one request of a key is recorded is `KeysApart`, from the unique index |
| `TriageProofs!TriageTyped` | `AutomationSpec /\ DiscoverySpec => []TriageTypeOK` | `AutomationTyping`: a request has a plan ahead while it acts, and something to undo just while it compensates. `DiscoveryTyping`, with `SpansSound`: what a request read of a trace were spans of it |
| `TriageProofs!Matches` | `DiscoverySpec => []MatchesOfOneSource`, for any number of traces, behaviors and requests | `MatchesSound` on the table as the code has it, a list without a key. What a write deletes first leaves rows that are among the old ones (`KeptAmong`), so that each part stays true of them (`FewerOfOneRun`, `FewerConfirmedOnce`); what it then adds is of the one label or backtest, whose rows are just what it deleted. That labels agree needs `WriterSound`: a request about to write a confirmed match has put its label into the row, and nothing takes it away without the trace being raced |
| `TriageProofs!Findings` | `DiscoverySpec => []FindingsAccounted`, for any similarity and any answer of a model | `SharedOut` says of candidates what `CandidatesPartition` says of those stored, and that their names are disjoint sets of signatures; a run keeps it from the read (`CandidatesShared`) through both groupings (`SimilarShared`, `ModelShared`) to the row. What a model has grouped so far is just the candidates of the names it used (`GroupTaken`), and a frequency is a sum that is at least the size of a union (`FrequencyOfGroup`). A check is cited because of what is kept of the answer (`EvaluatedCited`). `AllGiven` holds of the tasks there are and of those a request has yet to add; a deletion takes the evidence of a task, never the task |
| `AnalysisProofs!Reverting` | `EvalSpec => []RevertRestores` | `EvalTyped` (what a run, a comparison and a request hold) and `Restoring`: an event that blames a prompt has the version of the run before for its target, and a request that approved it has read just that; while the tag belongs to an event it has the text of that target. Versions are only appended (`VersionsStay`) |
| `AnalysisProofs!Reports` | `EvalSpec => []ReportsExplained`, for any panels of judges | `Reported`: a run has at most one row for an example, no two requests work on one run, and what a request has in memory is what its run stored, unless a deletion took of it, with nothing yet about the examples left (`RunSound`). That a lower rate has a verdict that worsened is a counting argument on the scores (`LowerIsWorse`): had none worsened, pairing the scores by example and judge (`Answered`) would leave as many passes and no more of the others, and the rate no lower (`RateKept`). With one judge that verdict is the first, which the comparison reads (`WorseIsShown`). The scores are finitely many (`ScoresFinite`) |
| `AnalysisProofs!Disclosure` | `CaseSpec => []PacksDisclose`, for any accounts and levels | `CaseRows`, the types of all tables and jobs, in which a request that builds a pack, one source after another (`SourceRead`), holds accounts visible at the pack's level only; deletions leave fewer |
| `AnalysisProofs!Remedies` | `CaseSpec => []RemediationAgrees`, for any number of investigations, remediations and deletions at once | neither direction is inductive: the upsert writes from memory what it read before its transaction. `RemediesSound` says what a request knows at each step: the report it stored has what it has in memory, less what was deleted (`ReportKept`); the row it read first is still the first of its entity and has no trace it has not seen, unless another upsert came between (`FirstSound`); past the upsert its report is tracked, which its links then say. `Later` says how the tables may change without harm to this; `Calm` is the turn of a request that changes neither reports nor rows. The count of a report is in `CaseRows` |
| `AnalysisProofs!Evidence` | `CaseSpec => []EvidenceCited`, for any number of investigations, answers and deletions at once | not inductive: each write of a run puts back what the request has in memory, which no deletion has scrubbed. `EvidenceSound` says of a request that its result cites only what it found, and whole for each hypothesis of a model (`ResultSound`); that no two requests work on one run; that a run lists no task before its request does, and the tasks there are of it are those the request counts; and that memory and row agree but for what was deleted and for spans of deleted traces (`Agree`), which a deletion leaves so, a repeated one that finds no spans included (`LiveStays`, `ScrubTakes`, `SpansScrubbed`, `DeadSpansStay`). A pack is read source by source (`SourceRead`, `SteadySource`), and one that a step leaves alone stays sound (`PackStays`). `GroundedSound`: what is kept of an answer is the elements of it by rank (`Ranks`). `Steady` is the turn of a request that writes neither runs nor tasks |
| `AnalysisProofs!AnalysisTyped` | `EvalSpec /\ CaseSpec => []AnalysisTypeOK` | `EvalTables`, with `EvalRanges` for the numbers of a summary, and `CasesTyped`, with `IssuesNamed`: issues are never deleted, and an upsert names those it read or created |

Sums and folds are defined by recursion over sets. The lemmas of `FoldProofs`
stand in for the induction that cannot be cited: `SubsetsByOne` (a property of the
empty set that one more element keeps is one of every subset of a finite set),
`FoldExists` (a fold over a finite set has a value), `SumInAnyOrder`, `SumOfNothing`
and `SumFolded` (that value, for a sum, does not depend on the order), `SumGrows`
(a sum over more elements, none of them less, is not less), and `Ranks` (the
elements of a set of naturals are numbered from 1), all from a
least counterexample, which `Smallest` provides. `SumOf` is the sum of a function
or a sequence; `SumTo` that of its first elements, which grows by one element at a
time (`SumsTo`).

Model-checked only are `Expires`, `Drains` and `Surfaces`: liveness under fairness
is out of the prover's reach. Each other property of a run that holds is stated by
a theorem. The runs of modules side by side take their theorems from the
specifications of the parts, which each behavior of such a run satisfies.

## 6. What is abstracted, and what is left out

* Contents, formatting, identifiers and wording. Classification levels, tags
  and attributes are a body. A malformed policy rule (`storage.py` 855 turns a
  `ttl_days` that is no number into 0) is parsing: the model starts from the
  ttl the policy stores, 0 included.
* The dry run of a retention policy changes nothing and is left out.
* `SdkExport` exports a span once, at its end; partial flushes and sampling are
  in `SpanFidelity`, which has one thread per process, one payload per span, no
  limit of the buffer and no items that the server refuses. Feedback, events and
  payloads of a batch follow the same path as spans and traces.
  `/api/ingest/spans`, which no client in the repository calls, is left out.
* `NowEvents` has one review task for an event; a client may file others that
  cite it. A trace matches for the feed and for the verification alike; in the
  code the feed leaves out traces that ended well, and the verification does
  not, which differs for the one cluster whose key ignores the status
  (`storage.py` 358-371). The route's automation (`always_apply`), made once,
  and the audit rows are left out. The searches' limits (250, 1000) cover the
  project.
* A commit of a route by an automation, and the derivation and upsert of an
  event by the feed in `EvalRuns`, `JudgeLifecycle` and `BehaviorDiscovery`, are
  one step: `VersionRegistry` and `NowEvents` have their races. Automations in
  `triage` take their keys from traces (`Keys` is empty there; `triage_keys` has
  the same). Explicit ids of compensation targets are left out. A reviewer's
  decision is one step in `AutomationRuns`: that a patch which read a task before
  its rollback may write the old status back is in `JudgeLifecycle`.
* `Identity` leaves out hashes, formats and the scopes that no modelled endpoint
  asks for. `VersionRegistry` takes a hash to be injective.
* `Investigations` leaves out the copy of the report inside the run; a trace has
  one span, and a search is one read. The size budget of a pack and its layout
  are left out.
* `BehaviorDiscovery` leaves out the limit on negative examples, rules about
  whole traces and the spans that a score cites; similarity is any grouping.
* Nothing is claimed to end in `AutomationRuns`, `EvalRuns`, `Investigations`
  and `BehaviorDiscovery`: a request that dies half way leaves its rows as they
  are, and no sweep completes them.

Not modelled: the export bundles (`storage.py` 7676-7700, 8090-8165), which read each table
in a transaction of its own and promise nothing about the whole; metrics and
operation summaries (counters); reconstruction, prompt rendering and the search
of the documentation (pure functions of stored rows and text); calls of models
with their retries and the sandboxed process, whose outcome is an input of the
modules that use it; the web application, the CLI and the MCP server, each call
of which is one call of the API or of the store; the synthetic pilot and the
benchmarks, which drive the rest; migrations, which are idempotent DDL.

## 7. Plan

The modules are there, and the properties of the store, the exporter, the
registries, the judges, the evaluations, the investigations and the discovery of
behaviors are proved. What
is left, in this order:

| module | to prove | argument |
|---|---|---|
| `Retention` with `TraceStore` | the store's rows implement those of `Retention` | a mapping of the rows |

The proofs about components of one area may share a module, as those of
`AnalysisProofs` do.
