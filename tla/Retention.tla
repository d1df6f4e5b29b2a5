----------------------------- MODULE Retention ------------------------------
(***************************************************************************)
(* The retention worker of one project: main() loops over                  *)
(* run_retention_once, which lists the active policies, and for each lists *)
(* the newest stored traces, picks those past the policy's ttl and         *)
(* tombstones them one by one, while clients ingest and delete traces and  *)
(* operators create policies.  Each call the worker makes to the store is  *)
(* an action of its own; a call may fail and the process may stop between  *)
(* any two of them.  The worker runs with dry_run off, and what a tombstone *)
(* does to the other tables is in TraceStore.                              *)
(*                                                                         *)
(* Ghosts: `owed` holds the traces that were due when the run listed its   *)
(* policies and that nobody has ingested or deleted since; `touched` the   *)
(* traces ingested since the last listing of candidates.                   *)
(***************************************************************************)
EXTENDS Naturals, FiniteSets

CONSTANTS Traces,       \* trace ids
          Policies,     \* retention policy ids
          TTL,          \* ttl of a policy's rule, in units of the clock
          Window,       \* how many traces search_traces returns (10000)
          MaxClock,     \* bound: the clock
          MaxFailures,  \* bound: failed calls and crashes of the worker
          None          \* no row; also the ended_at of an open trace

ASSUME RetentionAssumption ==
  /\ TTL \in [Policies -> Nat]
  /\ Window \in Nat
  /\ MaxClock \in Nat
  /\ MaxFailures \in Nat
  /\ None \notin Nat \union {"draft", "active"}

VARIABLES clock,
          rows,       \* trace_metadata: started_at, ended_at, status
          policies,   \* retention_policies: None, "draft" or "active"
          worker,     \* where the worker process is, and its local variables
          heartbeat,  \* worker_heartbeats.status
          failures,   \* counts toward MaxFailures
          owed,       \* ghost
          touched     \* ghost

vars == <<clock, rows, policies, worker, heartbeat, failures, owed, touched>>

Times == 0 .. MaxClock
Row == [started : Times, ended : Times \union {None}, status : {"live", "deleted"}]
\* The absence of a row is none of the rows.
ASSUME RowNoneAssumption == None \notin Row

\* A process without a run: its locals are empty.
Idle(at) == [at |-> at, policies |-> {}, todo |-> {}, errors |-> FALSE]

Init ==
  /\ clock = 0
  /\ rows = [t \in Traces |-> None]
  /\ policies = [p \in Policies |-> None]
  /\ worker = Idle("sleeping")
  /\ heartbeat = None
  /\ failures = 0
  /\ owed = {}
  /\ touched = {}

Stored == {t \in Traces : rows[t] # None}
Live(t) == rows[t] # None /\ rows[t].status = "live"
Active == {p \in Policies : policies[p] = "active"}

\* The time a trace's ttl runs from.
LastSeen(row) == IF row.ended = None THEN row.started ELSE row.ended

DueBy(t, p) == Live(t) /\ LastSeen(rows[t]) + TTL[p] <= clock
Due(t) == \E p \in Active : DueBy(t, p)

\* ORDER BY started_at DESC LIMIT: deleted rows count, ties fall either way.
Newest(W) ==
  /\ W \subseteq Stored
  /\ Cardinality(W) = IF Cardinality(Stored) <= Window
                      THEN Cardinality(Stored) ELSE Window
  /\ \A t \in W, u \in Stored \ W : rows[t].started >= rows[u].started

\* Fault: the age is counted from started_at.
CandidatesByStart(W, p) == {t \in W : Live(t) /\ rows[t].started + TTL[p] <= clock}

\* Fault: a trace without ended_at is no candidate.
CandidatesEnded(W, p) == {t \in W : DueBy(t, p) /\ rows[t].ended # None}

\* _retention_trace_candidates
Candidates(W, p) == {t \in W : DueBy(t, p)}

\* Fault: the exception is logged and forgotten.
OutcomeIgnoringErrors(errors) == "ok"

\* Fault: the heartbeat takes the status of the result.
OutcomeOfResult(errors) == IF errors THEN "partial_failure" ELSE "succeeded"

\* The status of the heartbeat that ends a run.
Outcome(errors) == IF errors THEN "error" ELSE "ok"

-----------------------------------------------------------------------------
(* The clients, the operators and time. *)

Tick ==
  /\ clock < MaxClock
  /\ clock' = clock + 1
  /\ UNCHANGED <<rows, policies, worker, heartbeat, failures, owed, touched>>

\* An ingest replaces the whole row, a deleted one too.
Ingest(t, started, ended) ==
  /\ started <= clock
  /\ ended # None => started <= ended /\ ended <= clock
  /\ rows' = [rows EXCEPT ![t] =
       [started |-> started, ended |-> ended, status |-> "live"]]
  /\ owed' = owed \ {t}
  /\ touched' = touched \union {t}
  /\ UNCHANGED <<clock, policies, worker, heartbeat, failures>>

\* DELETE /traces/{id}, or another process that applies a policy.
DeleteTrace(t) ==
  /\ rows[t] # None
  /\ rows' = [rows EXCEPT ![t].status = "deleted"]
  /\ owed' = owed \ {t}
  /\ UNCHANGED <<clock, policies, worker, heartbeat, failures, touched>>

\* A policy keeps the status it was created with: nothing updates one.
CreatePolicy(p, status) ==
  /\ policies[p] = None
  /\ policies' = [policies EXCEPT ![p] = status]
  /\ UNCHANGED <<clock, rows, worker, heartbeat, failures, owed, touched>>

-----------------------------------------------------------------------------
(* The worker. *)

StartRun ==
  /\ worker.at = "sleeping"
  /\ heartbeat' = "running"
  /\ worker' = [worker EXCEPT !.at = "listing"]
  /\ UNCHANGED <<clock, rows, policies, failures, owed, touched>>

ListPolicies ==
  /\ worker.at = "listing"
  /\ worker' = [at |-> "applying", policies |-> Active, todo |-> {}, errors |-> FALSE]
  /\ owed' = {t \in Traces : Due(t)}
  /\ UNCHANGED <<clock, rows, policies, heartbeat, failures, touched>>

\* apply_retention_policy: the clock is read, then the traces are listed.
ListCandidates(p, W) ==
  /\ worker.at = "applying"
  /\ p \in worker.policies
  /\ Newest(W)
  /\ worker' = [worker EXCEPT !.at = "deleting", !.policies = @ \ {p},
                              !.todo = Candidates(W, p)]
  /\ touched' = {}
  /\ UNCHANGED <<clock, rows, policies, heartbeat, failures, owed>>

\* The code takes the candidates in the order of their ids.
TombstoneCandidate(t) ==
  /\ worker.at = "deleting"
  /\ t \in worker.todo
  /\ rows[t] # None
  /\ rows' = [rows EXCEPT ![t].status = "deleted"]
  /\ worker' = [worker EXCEPT !.todo = @ \ {t}]
  /\ owed' = owed \ {t}
  /\ UNCHANGED <<clock, policies, heartbeat, failures, touched>>

\* append_audit, and on to the next policy.
FinishPolicy ==
  /\ worker.at = "deleting"
  /\ worker.todo = {}
  /\ worker' = [worker EXCEPT !.at = "applying"]
  /\ UNCHANGED <<clock, rows, policies, heartbeat, failures, owed, touched>>

Skipped(remaining) ==
  [at |-> "applying", policies |-> remaining, todo |-> {}, errors |-> TRUE]

\* A call inside the try fails: the policy's other candidates are left alone.
PolicyFails ==
  /\ failures < MaxFailures
  /\ failures' = failures + 1
  /\ \/ /\ worker.at = "applying"
        /\ \E p \in worker.policies : worker' = Skipped(worker.policies \ {p})
     \/ /\ worker.at = "deleting"
        /\ worker' = Skipped(worker.policies)
  /\ UNCHANGED <<clock, rows, policies, heartbeat, owed, touched>>

FinishRun ==
  /\ worker.at = "applying"
  /\ worker.policies = {}
  /\ heartbeat' = Outcome(worker.errors)
  /\ worker' = Idle("sleeping")
  /\ UNCHANGED <<clock, rows, policies, failures, owed, touched>>

\* A call outside the try raises, and main() with it, or the process stops.
Crash ==
  /\ worker.at # "dead"
  /\ failures < MaxFailures
  /\ failures' = failures + 1
  /\ worker' = Idle("dead")
  /\ UNCHANGED <<clock, rows, policies, heartbeat, owed, touched>>

\* Nothing restarts the container but its operator.
Restart ==
  /\ worker.at = "dead"
  /\ worker' = Idle("sleeping")
  /\ UNCHANGED <<clock, rows, policies, heartbeat, failures, owed, touched>>

-----------------------------------------------------------------------------
Environment ==
  \/ Tick
  \/ \E t \in Traces, s \in Times, e \in Times \union {None} : Ingest(t, s, e)
  \/ \E t \in Traces : DeleteTrace(t)
  \/ \E p \in Policies, status \in {"draft", "active"} : CreatePolicy(p, status)

Run ==
  \/ StartRun \/ ListPolicies
  \/ \E p \in Policies, W \in SUBSET Traces : ListCandidates(p, W)
  \/ \E t \in Traces : TombstoneCandidate(t)
  \/ FinishPolicy \/ FinishRun

Next == Environment \/ Run \/ PolicyFails \/ Crash \/ Restart

Spec == Init /\ [][Next]_vars

\* The loop of main() never ends by itself, and the operator restarts a worker
\* that stopped; failures are transient (MaxFailures).
FairSpec == Spec /\ WF_vars(Run) /\ WF_vars(Restart)

-----------------------------------------------------------------------------
TypeOK ==
  /\ clock \in Times
  /\ rows \in [Traces -> Row \union {None}]
  /\ policies \in [Policies -> {None, "draft", "active"}]
  /\ worker \in [at : {"sleeping", "listing", "applying", "deleting", "dead"},
                 policies : SUBSET Policies, todo : SUBSET Traces, errors : BOOLEAN]
  /\ heartbeat \in {None, "running", "ok", "error"}
  /\ failures \in 0 .. MaxFailures
  /\ owed \subseteq Traces
  /\ touched \subseteq Traces

\* An "ok" heartbeat means the run did its work: every trace that was due when
\* the run listed its policies is deleted, or was ingested again since.  The
\* status is decided long after the listing, over several policies of which
\* some may have failed half-way, and outlives a crash of the next run.
HeartbeatHonest == heartbeat = "ok" => owed = {}

\* What the worker is about to delete is past the ttl of an active policy (or
\* deleted already), however long the deletions before it took, unless a client
\* ingested it since it was listed.
CandidatesExpired ==
  \A t \in worker.todo \ touched : Due(t) \/ ~Live(t)

\* A trace past its ttl is deleted in the end, through failing policies and
\* crashes of the worker.
Expires == \A t \in Traces : Due(t) ~> ~Due(t)
=============================================================================
