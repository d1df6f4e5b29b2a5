-------------------------- MODULE RetentionProofs ---------------------------
EXTENDS Retention, FiniteSetTheorems, TLAPS

(* The rows and the worker's locals are of their types. *)
THEOREM Typing == Spec => []TypeOK
<1> USE RetentionAssumption
<1>1. Init => TypeOK
  BY DEF Init, TypeOK, Idle, Times
<1>2. TypeOK /\ [Next]_vars => TypeOK'
  <2> SUFFICES ASSUME TypeOK, [Next]_vars PROVE TypeOK'
    OBVIOUS
  <2> USE DEF TypeOK
  <2>1. ASSUME Tick PROVE TypeOK'
    BY <2>1 DEF Tick, Times
  <2>2. ASSUME NEW t \in Traces, NEW s \in Times, NEW e \in Times \union {None},
               Ingest(t, s, e)
        PROVE  TypeOK'
    BY <2>2 DEF Ingest, Row
  <2>3. ASSUME NEW t \in Traces, DeleteTrace(t) PROVE TypeOK'
    BY <2>3 DEF DeleteTrace, Row
  <2>4. ASSUME NEW p \in Policies, NEW status \in {"draft", "active"}, CreatePolicy(p, status)
        PROVE  TypeOK'
    BY <2>4 DEF CreatePolicy
  <2>5. ASSUME StartRun PROVE TypeOK'
    BY <2>5 DEF StartRun
  <2>6. ASSUME ListPolicies PROVE TypeOK'
    BY <2>6 DEF ListPolicies, Active
  <2>7. ASSUME NEW p \in Policies, NEW W \in SUBSET Traces, ListCandidates(p, W)
        PROVE  TypeOK'
    BY <2>7 DEF ListCandidates, Candidates
  <2>8. ASSUME NEW t \in Traces, TombstoneCandidate(t) PROVE TypeOK'
    BY <2>8 DEF TombstoneCandidate, Row
  <2>9. ASSUME FinishPolicy PROVE TypeOK'
    BY <2>9 DEF FinishPolicy
  <2>10. ASSUME FinishRun PROVE TypeOK'
    BY <2>10 DEF FinishRun, Idle, Outcome
  <2>11. ASSUME PolicyFails PROVE TypeOK'
    <3>1. PICK remaining \in SUBSET Policies : worker' = Skipped(remaining)
      <4>1. \A p \in worker.policies : worker.policies \ {p} \in SUBSET Policies
        OBVIOUS
      <4>2. worker.policies \in SUBSET Policies
        OBVIOUS
      <4> QED
        BY <2>11, <4>1, <4>2, Zenon DEF PolicyFails
    <3> QED
      BY <2>11, <3>1 DEF PolicyFails, Skipped
  <2>12. ASSUME Crash PROVE TypeOK'
    BY <2>12 DEF Crash, Idle
  <2>13. ASSUME Restart PROVE TypeOK'
    BY <2>13 DEF Restart, Idle
  <2>14. CASE UNCHANGED vars
    BY <2>14 DEF vars
  <2> QED
    BY <2>1, <2>2, <2>3, <2>4, <2>5, <2>6, <2>7, <2>8, <2>9, <2>10, <2>11,
       <2>12, <2>13, <2>14
       DEF Next, Environment, Run
<1> QED
  BY <1>1, <1>2, PTL DEF Spec

-----------------------------------------------------------------------------
(* A listing that may return as many rows as there are traces returns them    *)
(* all.                                                                       *)
LEMMA WholeWindow ==
  ASSUME IsFiniteSet(Traces), Cardinality(Traces) <= Window,
         NEW W \in SUBSET Traces, Newest(W)
  PROVE  W = Stored
<1>1. Stored \subseteq Traces
  BY DEF Stored
<1>2. IsFiniteSet(Stored) /\ Cardinality(Stored) <= Cardinality(Traces)
  BY <1>1, FS_Subset
<1>3. Cardinality(Stored) \in Nat /\ Cardinality(Traces) \in Nat
  BY <1>2, FS_CardinalityType
<1>4. Cardinality(W) = Cardinality(Stored)
  BY <1>2, <1>3, RetentionAssumption DEF Newest
<1>5. W \subseteq Stored
  BY DEF Newest
<1> QED
  BY <1>2, <1>4, <1>5, FS_Subset

(* While a run without errors is under way, what it owes is still to be listed *)
(* for one of the policies ahead, or among the candidates at hand.             *)
InRun == worker.at \in {"applying", "deleting"}
OwedIsAhead ==
  /\ \A t \in owed : Live(t)
  /\ worker.policies \subseteq Active
  /\ worker.at # "deleting" => worker.todo = {}
  /\ InRun \/ worker.at = "listing" => heartbeat = "running"
  /\ InRun /\ ~worker.errors =>
       \A t \in owed : t \in worker.todo \/ \E p \in worker.policies : DueBy(t, p)
  /\ HeartbeatHonest

(* A trace that is due stays due as time passes. *)
LEMMA DueStays ==
  ASSUME TypeOK, NEW t \in Traces, NEW p \in Policies, DueBy(t, p),
         rows'[t] = rows[t], clock' \in Nat, clock' >= clock
  PROVE  DueBy(t, p)'
<1>1. rows[t] \in Row /\ TTL[p] \in Nat /\ clock \in Nat
  BY RetentionAssumption DEF TypeOK, DueBy, Live, Times
<1>2. LastSeen(rows[t]) \in Nat
  BY <1>1, RetentionAssumption DEF LastSeen, Row, Times
<1>3. LastSeen(rows'[t]) = LastSeen(rows[t])
  OBVIOUS
<1> QED
  BY <1>1, <1>2, <1>3 DEF DueBy, Live

(* When the window covers the traces, an "ok" heartbeat says that no trace   *)
(* the run found due is left, whatever failed, crashed or was ingested       *)
(* meanwhile.                                                                *)
THEOREM Honesty ==
  ASSUME IsFiniteSet(Traces), Cardinality(Traces) <= Window
  PROVE  Spec => []HeartbeatHonest
<1> USE RetentionAssumption
<1>1. Init => OwedIsAhead
  BY DEF Init, OwedIsAhead, HeartbeatHonest, InRun, Idle
<1>2. TypeOK /\ TypeOK' /\ OwedIsAhead /\ [Next]_vars => OwedIsAhead'
  <2> SUFFICES ASSUME TypeOK, TypeOK', OwedIsAhead, [Next]_vars PROVE OwedIsAhead'
    OBVIOUS
  <2> USE DEF OwedIsAhead, HeartbeatHonest, InRun
  <2>1. ASSUME Tick PROVE OwedIsAhead'
    <3>1. clock' \in Nat /\ clock' >= clock
      BY <2>1 DEF Tick, TypeOK, Times
    <3>2. \A t \in Traces, p \in Policies : DueBy(t, p) => DueBy(t, p)'
      BY <2>1, <3>1, DueStays DEF Tick
    <3> QED
      BY <2>1, <3>2 DEF Tick, TypeOK, Live, Active
  <2>2. ASSUME NEW u \in Traces, NEW s \in Times, NEW e \in Times \union {None},
               Ingest(u, s, e)
        PROVE  OwedIsAhead'
    BY <2>2 DEF Ingest, TypeOK, Live, DueBy, Active
  <2>3. ASSUME NEW u \in Traces, DeleteTrace(u) PROVE OwedIsAhead'
    BY <2>3 DEF DeleteTrace, TypeOK, Live, DueBy, Active
  <2>4. ASSUME NEW p \in Policies, NEW status \in {"draft", "active"}, CreatePolicy(p, status)
        PROVE  OwedIsAhead'
    BY <2>4 DEF CreatePolicy, TypeOK, Live, DueBy, Active
  <2>5. ASSUME StartRun PROVE OwedIsAhead'
    BY <2>5 DEF StartRun, TypeOK, Live, Active
  <2>6. ASSUME ListPolicies PROVE OwedIsAhead'
    BY <2>6 DEF ListPolicies, TypeOK, Live, Due, DueBy, Active
  <2>7. ASSUME NEW p \in Policies, NEW W \in SUBSET Traces, ListCandidates(p, W)
        PROVE  OwedIsAhead'
    <3>1. W = Stored
      BY <2>7, WholeWindow DEF ListCandidates
    <3>2. /\ worker'.at = "deleting" /\ worker'.policies = worker.policies \ {p}
          /\ worker'.errors = worker.errors
          /\ worker'.todo = {t \in Stored : DueBy(t, p)}
      BY <2>7, <3>1 DEF ListCandidates, TypeOK, Candidates
    <3>3. \A t \in Traces : DueBy(t, p) => t \in Stored
      BY DEF Stored, DueBy, Live
    <3> QED
      BY <2>7, <3>2, <3>3 DEF ListCandidates, TypeOK, Live, DueBy, Active
  <2>8. ASSUME NEW u \in Traces, TombstoneCandidate(u) PROVE OwedIsAhead'
    BY <2>8 DEF TombstoneCandidate, TypeOK, Live, DueBy, Active
  <2>9. ASSUME FinishPolicy PROVE OwedIsAhead'
    BY <2>9 DEF FinishPolicy, TypeOK, Live, DueBy, Active
  <2>10. ASSUME FinishRun PROVE OwedIsAhead'
    BY <2>10 DEF FinishRun, Idle, Outcome, TypeOK, Live, DueBy, Active
  <2>11. ASSUME PolicyFails PROVE OwedIsAhead'
    BY <2>11 DEF PolicyFails, Skipped, TypeOK, Live, DueBy, Active
  <2>12. ASSUME Crash PROVE OwedIsAhead'
    BY <2>12 DEF Crash, Idle, TypeOK, Live, DueBy, Active
  <2>13. ASSUME Restart PROVE OwedIsAhead'
    BY <2>13 DEF Restart, Idle, TypeOK, Live, DueBy, Active
  <2>14. CASE UNCHANGED vars
    BY <2>14 DEF vars, Live, DueBy, Active
  <2> QED
    BY <2>1, <2>2, <2>3, <2>4, <2>5, <2>6, <2>7, <2>8, <2>9, <2>10, <2>11,
       <2>12, <2>13, <2>14
       DEF Next, Environment, Run
<1>3. OwedIsAhead => HeartbeatHonest
  BY DEF OwedIsAhead
<1> QED
  BY <1>1, <1>2, <1>3, Typing, PTL DEF Spec

(* The worker deletes nothing that is not past the ttl of an active policy,   *)
(* clients' later ingests apart: time only runs forward, and policies are     *)
(* never taken back.                                                          *)
ListedForCause ==
  /\ worker.policies \subseteq Active
  /\ worker.at # "deleting" => worker.todo = {}
  /\ CandidatesExpired

THEOREM Restraint == Spec => []CandidatesExpired
<1> USE RetentionAssumption
<1>1. Init => ListedForCause
  BY DEF Init, ListedForCause, CandidatesExpired, Idle
<1>2. TypeOK /\ TypeOK' /\ ListedForCause /\ [Next]_vars => ListedForCause'
  <2> SUFFICES ASSUME TypeOK, TypeOK', ListedForCause, [Next]_vars PROVE ListedForCause'
    OBVIOUS
  <2> USE DEF ListedForCause, CandidatesExpired
  <2>1. ASSUME Tick PROVE ListedForCause'
    <3>1. clock' \in Nat /\ clock' >= clock
      BY <2>1 DEF Tick, TypeOK, Times
    <3>2. \A t \in Traces, p \in Policies : DueBy(t, p) => DueBy(t, p)'
      BY <2>1, <3>1, DueStays DEF Tick
    <3> QED
      BY <2>1, <3>2 DEF Tick, TypeOK, Live, Active, Due
  <2>2. ASSUME NEW u \in Traces, NEW s \in Times, NEW e \in Times \union {None},
               Ingest(u, s, e)
        PROVE  ListedForCause'
    BY <2>2 DEF Ingest, TypeOK, Live, Due, DueBy, Active
  <2>3. ASSUME NEW u \in Traces, DeleteTrace(u) PROVE ListedForCause'
    BY <2>3 DEF DeleteTrace, TypeOK, Live, Due, DueBy, Active, Row
  <2>4. ASSUME NEW p \in Policies, NEW status \in {"draft", "active"}, CreatePolicy(p, status)
        PROVE  ListedForCause'
    BY <2>4 DEF CreatePolicy, TypeOK, Live, Due, DueBy, Active
  <2>5. ASSUME StartRun PROVE ListedForCause'
    BY <2>5 DEF StartRun, TypeOK, Live, Due, DueBy, Active
  <2>6. ASSUME ListPolicies PROVE ListedForCause'
    BY <2>6 DEF ListPolicies, TypeOK, Live, Due, DueBy, Active
  <2>7. ASSUME NEW p \in Policies, NEW W \in SUBSET Traces, ListCandidates(p, W)
        PROVE  ListedForCause'
    BY <2>7 DEF ListCandidates, Candidates, TypeOK, Live, Due, DueBy, Active
  <2>8. ASSUME NEW u \in Traces, TombstoneCandidate(u) PROVE ListedForCause'
    BY <2>8 DEF TombstoneCandidate, TypeOK, Live, Due, DueBy, Active
  <2>9. ASSUME FinishPolicy PROVE ListedForCause'
    BY <2>9 DEF FinishPolicy, TypeOK, Live, Due, DueBy, Active
  <2>10. ASSUME FinishRun PROVE ListedForCause'
    BY <2>10 DEF FinishRun, Idle
  <2>11. ASSUME PolicyFails PROVE ListedForCause'
    BY <2>11 DEF PolicyFails, Skipped, Active
  <2>12. ASSUME Crash PROVE ListedForCause'
    BY <2>12 DEF Crash, Idle
  <2>13. ASSUME Restart PROVE ListedForCause'
    BY <2>13 DEF Restart, Idle
  <2>14. CASE UNCHANGED vars
    BY <2>14 DEF vars, Live, Due, DueBy, Active
  <2> QED
    BY <2>1, <2>2, <2>3, <2>4, <2>5, <2>6, <2>7, <2>8, <2>9, <2>10, <2>11,
       <2>12, <2>13, <2>14
       DEF Next, Environment, Run
<1>3. ListedForCause => CandidatesExpired
  BY DEF ListedForCause
<1> QED
  BY <1>1, <1>2, <1>3, Typing, PTL DEF Spec
=============================================================================
