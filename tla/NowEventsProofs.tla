-------------------------- MODULE NowEventsProofs ---------------------------
EXTENDS NowEvents, TLAPS

(* What a request carries, by where it is. *)
LEMMA RequestFields ==
  ASSUME NEW q \in Request
  PROVE  /\ q.at = "listed" => q.found \subseteq Traces /\ q.now \in Times
         /\ q.at = "selected" =>
              /\ q.found \subseteq Traces /\ q.now \in Times
              /\ q.existing \in [stage : Stages, sources : SUBSET Traces] \union {None}
         /\ q.at = "update" => q \in Patch
         /\ q.at = "write" => q.update \in Patch /\ q.approved \in BOOLEAN
BY DEF Request, Patch

(* What update_now_event_execution is called with. *)
LEMMA PatchFields ==
  ASSUME NEW u \in Patch
  PROVE  /\ u.stage \in {"verify", "close"} /\ u.verification \in Verifications
         /\ u.applied \in Times \union {None} /\ u.closes \in BOOLEAN
BY DEF Patch

(* The updates the three endpoints ask for are such. *)
LEMMA PatchBuilt ==
  ASSUME NEW stage \in {"verify", "close"}, NEW verification \in Verifications,
         NEW applied \in Times \union {None}, NEW closes \in BOOLEAN
  PROVE  /\ Update(stage, verification, applied, closes) \in Patch
         /\ Update(stage, verification, applied, closes) \in Request
<1>1. Update(stage, verification, applied, closes) \in Patch
  BY DEF Update, Patch
<1> QED
  BY <1>1 DEF Request

(* A request that goes beyond the SELECT of the upsert has seen the row, and   *)
(* rows of now_events are never deleted.                                       *)
EventSeen ==
  \A h \in Handlers :
    /\ handlers[h] # None
    /\ handlers[h].at # "listed"
    /\ handlers[h].at = "selected" => handlers[h].existing # None
    => event # None

-----------------------------------------------------------------------------
(* The row, the tasks and the requests are of their types. *)
LEMMA TypingStep ==
  ASSUME TypeOK, EventSeen, [Next]_vars
  PROVE  TypeOK' /\ EventSeen'
<1> USE NowAssumption, NoneIsNoRow DEF TypeOK
<1> DEFINE Safe == TypeOK' /\ EventSeen'
(* Most actions leave the row as it is and replace one request. *)
<1>1. ASSUME NEW h \in Handlers, NEW q \in Request \union {None},
             handlers' = [handlers EXCEPT ![h] = q],
             q # None /\ q.at # "listed" /\ (q.at = "selected" => q.existing # None)
               => event' # None,
             event # None => event' # None
      PROVE  handlers' \in [Handlers -> Request \union {None}] /\ EventSeen'
  BY <1>1 DEF EventSeen
<1>2. ASSUME Tick PROVE Safe
  BY <1>2 DEF Tick, EventSeen, Times
<1>3. ASSUME NEW t \in Traces, NEW s \in Times, Ingest(t, s) PROVE Safe
  BY <1>3 DEF Ingest, EventSeen
<1>4. ASSUME NEW t \in Traces, Leave(t) PROVE Safe
  BY <1>4 DEF Leave, EventSeen
<1>5. ASSUME NEW status \in {"open", "resolved"}, Review(status) PROVE Safe
  BY <1>5 DEF Review, EventSeen
<1>6. ASSUME NEW h \in Handlers, ListTraces(h) PROVE Safe
  <2>1. [at |-> "listed", found |-> Matching, now |-> clock] \in Request
    BY DEF Matching, Request
  <2> QED
    BY <1>1, <1>6, <2>1 DEF ListTraces, Goto
<1>7. ASSUME NEW h \in Handlers, SelectExisting(h) PROVE Safe
  <2> DEFINE existing == IF event = None THEN None
                         ELSE [stage |-> event.stage, sources |-> event.sources]
             q == [at |-> "selected", found |-> handlers[h].found,
                   now |-> handlers[h].now, existing |-> existing]
  <2>1. handlers[h] \in Request /\ handlers[h].at = "listed"
    BY <1>7 DEF SelectExisting, At
  <2>2. existing \in [stage : Stages, sources : SUBSET Traces] \union {None}
    BY DEF Event
  <2>3. q \in Request
    BY <2>1, <2>2, RequestFields DEF Request
  <2>4. q.at = "selected" /\ q.existing = existing
    OBVIOUS
  <2>5. handlers' = [handlers EXCEPT ![h] = q] /\ event' = event
    BY <1>7 DEF SelectExisting, Goto
  <2>6. handlers' \in [Handlers -> Request \union {None}] /\ EventSeen'
    <3> HIDE DEF q
    <3> QED
      BY <1>1, <2>3, <2>4, <2>5
  <2> QED
    BY <1>7, <2>6 DEF SelectExisting
<1>8. ASSUME NEW h \in Handlers, UpsertEvent(h) PROVE Safe
  <2> DEFINE q == handlers[h]
  <2>1. /\ q \in Request /\ q.found \subseteq Traces /\ q.now \in Times
        /\ q.existing # None => event # None
    BY <1>8, RequestFields DEF UpsertEvent, At, EventSeen
  <2>2. CASE q.existing = None
    <3> DEFINE fresh == [stage |-> "propose_fix", sources |-> q.found, approved |-> FALSE,
                         verification |-> "pending", closed |-> FALSE,
                         applied |-> None, updated |-> q.now]
    <3>a. fresh \in Event
      BY <2>1 DEF Event, Stages, Verifications
    <3>b. event' = IF event # None THEN event ELSE fresh
      BY <1>8, <2>2 DEF UpsertEvent
    <3>1. event' \in Event
      <4> HIDE DEF fresh
      <4> QED
        BY <3>a, <3>b
    <3> QED
      BY <1>1, <1>8, <3>1 DEF UpsertEvent, Goto
  <2>3. CASE q.existing # None
    <3>1. event \in Event
      BY <2>1, <2>3
    <3>2. [Reopened(event) EXCEPT !.sources = q.found, !.updated = q.now] \in Event
      BY <2>1, <3>1 DEF Reopened, Event, Stages, Verifications
    <3>3. [event EXCEPT !.sources = q.found, !.updated = q.now] \in Event
      BY <2>1, <3>1 DEF Event
    <3>4. event' \in Event
      BY <1>8, <2>3, <3>1, <3>2, <3>3 DEF UpsertEvent
    <3> QED
      BY <1>1, <1>8, <3>4 DEF UpsertEvent, Goto
  <2> QED
    BY <2>2, <2>3
<1>9. ASSUME NEW h \in Handlers, Approve(h) PROVE Safe
  <2>1. [at |-> "approved"] \in Request
    BY DEF Request
  <2> QED
    BY <1>1, <1>9, <2>1 DEF Approve, Goto
<1>10. Applied \in Request
  BY PatchBuilt DEF Applied, Verifications
<1>11. ASSUME NEW h \in Handlers, ApplyRoute(h) PROVE Safe
  <2>1. event # None
    BY <1>11 DEF ApplyRoute, At, EventSeen
  <2> QED
    BY <1>1, <1>10, <1>11, <2>1 DEF ApplyRoute, Goto
<1>12. [at |-> "insert_task"] \in Request
  BY DEF Request
<1>13. ASSUME NEW h \in Handlers, LookUpTask(h) PROVE Safe
  <2>1. event # None
    BY <1>13 DEF LookUpTask, At, EventSeen
  <2> QED
    BY <1>1, <1>10, <1>12, <1>13, <2>1 DEF LookUpTask, Goto
<1>14. ASSUME NEW h \in Handlers, InsertTask(h) PROVE Safe
  <2>1. event # None
    BY <1>14 DEF InsertTask, At, EventSeen
  <2> QED
    BY <1>1, <1>10, <1>14, <2>1 DEF InsertTask, Goto
<1>15. ASSUME NEW h \in Handlers, Verify(h) PROVE Safe
  <2> DEFINE q == [at |-> "verifying", sources |-> event.sources,
                   after |-> IF event.applied # None THEN event.applied ELSE event.updated]
  <2>1. event \in Event
    BY <1>15 DEF Verify
  <2>2. q \in Request
    BY <2>1 DEF Event, Request
  <2>3. handlers' = [handlers EXCEPT ![h] = q] /\ event' = event /\ event # None
    BY <1>15 DEF Verify, Goto
  <2> HIDE DEF q
  <2>4. handlers' \in [Handlers -> Request \union {None}] /\ EventSeen'
    BY <1>1, <2>2, <2>3
  <2> QED
    BY <1>15, <2>4 DEF Verify
<1>16. ASSUME NEW h \in Handlers, Judge(h) PROVE Safe
  <2>1. event # None
    BY <1>16 DEF Judge, At, EventSeen
  <2>2. PICK verification \in {"passed", "pending"} :
          Goto(h, Update(StageAfter(verification), verification, None,
                         StageAfter(verification) = "close"))
    BY <1>16 DEF Judge
  <2>3. StageAfter(verification) \in {"verify", "close"}
    BY <2>2 DEF StageAfter
  <2>4. Update(StageAfter(verification), verification, None,
               StageAfter(verification) = "close") \in Request
    BY <2>2, <2>3, PatchBuilt DEF Verifications
  <2> QED
    BY <1>1, <1>16, <2>1, <2>2, <2>4 DEF Judge, Goto
<1>17. ASSUME NEW h \in Handlers, Close(h) PROVE Safe
  <2>1. Update("close", "closed_reason", None, TRUE) \in Request
    BY PatchBuilt DEF Verifications
  <2> QED
    BY <1>1, <1>17, <2>1 DEF Close, Goto
<1>18. ASSUME NEW h \in Handlers, ReadResults(h) PROVE Safe
  <2> DEFINE q == [at |-> "write", update |-> handlers[h], approved |-> event.approved]
  <2>1. event \in Event /\ handlers[h] \in Patch
    BY <1>18, RequestFields DEF ReadResults, At, EventSeen
  <2>2. q \in Request
    BY <2>1 DEF Event, Request
  <2>3. handlers' = [handlers EXCEPT ![h] = q] /\ event' = event /\ event # None
    BY <1>18, <2>1 DEF ReadResults, Goto
  <2> HIDE DEF q
  <2>4. handlers' \in [Handlers -> Request \union {None}] /\ EventSeen'
    BY <1>1, <2>2, <2>3
  <2> QED
    BY <1>18, <2>4 DEF ReadResults
<1>19. ASSUME NEW h \in Handlers, WriteEvent(h) PROVE Safe
  <2> DEFINE q == handlers[h]
             u == q.update
  <2>1. event \in Event /\ u \in Patch /\ q.approved \in BOOLEAN
    BY <1>19, RequestFields DEF WriteEvent, At, EventSeen
  <2>2. /\ u.stage \in Stages /\ u.verification \in Verifications
        /\ u.applied \in Times \union {None} /\ u.closes \in BOOLEAN
    BY <2>1, PatchFields DEF Stages
  <2>3. event' \in Event
    BY <1>19, <2>1, <2>2 DEF WriteEvent, Event
  <2> QED
    BY <1>1, <1>19, <2>3 DEF WriteEvent, Goto
<1>20. ASSUME NEW h \in Handlers, Abort(h) PROVE Safe
  <2>1. handlers' \in [Handlers -> Request \union {None}] /\ EventSeen'
    BY <1>1, <1>20 DEF Abort, Goto
  <2>2. failures' \in 0 .. MaxFailures
    BY <1>20 DEF Abort
  <2> QED
    BY <1>20, <2>1, <2>2 DEF Abort
<1>21. CASE UNCHANGED vars
  BY <1>21 DEF vars, EventSeen
<1> QED
  BY <1>2, <1>3, <1>4, <1>5, <1>6, <1>7, <1>8, <1>9, <1>11, <1>13, <1>14, <1>15,
     <1>16, <1>17, <1>18, <1>19, <1>20, <1>21 DEF Next, Continue

(* The types and the fact that the row was seen are inductive together. *)
LEMMA TypingInvariant == Spec => [](TypeOK /\ EventSeen)
<1>1. Init => TypeOK /\ EventSeen
  <2>1. ASSUME Init PROVE TypeOK
    <3>1. clock \in Times /\ failures \in 0 .. MaxFailures
      BY <2>1, NowAssumption DEF Init, Times
    <3>2. kind \in Kinds /\ routed \in BOOLEAN
      BY <2>1 DEF Init
    <3>3. /\ traces \in [Traces -> Times \union {None}]
          /\ handlers \in [Handlers -> Request \union {None}]
      BY <2>1 DEF Init
    <3>4. event \in Event \union {None} /\ task \in {None, "open", "resolved"}
      BY <2>1 DEF Init
    <3> QED
      BY <3>1, <3>2, <3>3, <3>4 DEF TypeOK
  <2>2. Init => EventSeen
    BY DEF Init, EventSeen
  <2> QED
    BY <2>1, <2>2
<1>2. TypeOK /\ EventSeen /\ [Next]_vars => TypeOK' /\ EventSeen'
  BY TypingStep
<1> QED
  BY <1>1, <1>2, PTL DEF Spec

(* Every row and every request in flight is well formed, whatever interleaves. *)
THEOREM Typing == Spec => []TypeOK
<1>1. TypeOK /\ EventSeen => TypeOK
  OBVIOUS
<1> QED
  BY <1>1, TypingInvariant, PTL
-----------------------------------------------------------------------------
(* A write that a request is about to make is sound when an executor is done   *)
(* before it sets applied_at, and it closes the event for a cause only.        *)
PatchSound(u, done, tasked) ==
  /\ u.applied # None => done
  /\ u.stage = "close" =>
       /\ u.closes
       /\ u.verification # "pending"
       /\ u.verification = "passed" /\ kind = "create_review_task" => tasked

RequestsSound ==
  \A h \in Handlers : handlers[h] # None =>
    /\ handlers[h].at = "update" => PatchSound(handlers[h], ActionDone, task # None)
    /\ handlers[h].at = "write" => PatchSound(handlers[h].update, ActionDone, task # None)
    /\ handlers[h].at = "insert_task" => kind # "route_tool"

(* The executors' work is never undone. *)
LEMMA WorkStays ==
  ASSUME [Next]_vars
  PROVE  /\ kind' = kind
         /\ ActionDone => ActionDone'
         /\ task # None => task' # None
<1> USE NoneIsNoRow
<1> DEFINE Stays == kind' = kind /\ (routed => routed') /\ (task # None => task' # None)
<1>1. CASE UNCHANGED <<kind, routed, task>>
  BY <1>1 DEF ActionDone
<1>2. ASSUME Stays PROVE ActionDone => ActionDone'
  BY <1>2 DEF ActionDone
<1>3. ASSUME NEW status \in {"open", "resolved"}, Review(status) PROVE Stays
  BY <1>3 DEF Review
<1>4. ASSUME NEW h \in Handlers, ApplyRoute(h) PROVE Stays
  BY <1>4 DEF ApplyRoute
<1>5. ASSUME NEW h \in Handlers, InsertTask(h) PROVE Stays
  BY <1>5 DEF InsertTask
<1>6. \/ UNCHANGED <<kind, routed, task>>
      \/ \E status \in {"open", "resolved"} : Review(status)
      \/ \E h \in Handlers : ApplyRoute(h) \/ InsertTask(h)
  BY DEF Next, Continue, vars, Tick, Ingest, Leave, ListTraces, SelectExisting,
         UpsertEvent, Approve, LookUpTask, Verify, Judge, Close, ReadResults,
         WriteEvent, Abort
<1> QED
  BY <1>1, <1>2, <1>3, <1>4, <1>5, <1>6

(* The invariant: what the row says is so, and so is what the writes in flight *)
(* will say.                                                                   *)
Sound == RequestsSound /\ AppliedIsDone /\ ClosedForCause

(* Every step keeps it, one step of the proof per action. *)
LEMMA SoundStep ==
  ASSUME TypeOK, EventSeen, Sound, [Next]_vars
  PROVE  Sound'
<1> USE NowAssumption, NoneIsNoRow
<1> DEFINE RowSound == AppliedIsDone' /\ ClosedForCause'
           SoundAfter(q) ==
             /\ q.at = "update" => PatchSound(q, ActionDone', task' # None)
             /\ q.at = "write" => PatchSound(q.update, ActionDone', task' # None)
             /\ q.at = "insert_task" => kind # "route_tool"
(* The other requests are as they were. *)
<1>1. ASSUME NEW h \in Handlers, NEW q,
             handlers' = [handlers EXCEPT ![h] = q], q # None => SoundAfter(q)
      PROVE  RequestsSound'
  <2>1. ASSUME NEW g \in Handlers, handlers'[g] # None PROVE SoundAfter(handlers'[g])
    <3>1. CASE g = h
      BY <1>1, <2>1, <3>1 DEF TypeOK
    <3>2. CASE g # h
      BY <1>1, <2>1, <3>2, WorkStays DEF TypeOK, Sound, RequestsSound, PatchSound
    <3> QED
      BY <3>1, <3>2
  <2> QED
    BY <2>1, WorkStays DEF RequestsSound, PatchSound
<1>2. ASSUME event' = event PROVE RowSound
  BY <1>2, WorkStays DEF Sound, AppliedIsDone, ClosedForCause
<1>3. ASSUME NEW h \in Handlers, NEW q, event' = event,
             handlers' = [handlers EXCEPT ![h] = q], q # None => SoundAfter(q)
      PROVE  Sound'
  BY <1>1, <1>2, <1>3 DEF Sound
<1> HIDE DEF RowSound
<1>4. CASE UNCHANGED <<event, handlers>>
  <2>1. RequestsSound'
    BY <1>4, WorkStays DEF Sound, RequestsSound, PatchSound
  <2> QED
    BY <1>2, <1>4, <2>1 DEF Sound, RowSound
<1>5. ASSUME NEW h \in Handlers, ListTraces(h) PROVE Sound'
  BY <1>3, <1>5 DEF ListTraces, Goto
<1>6. ASSUME NEW h \in Handlers, SelectExisting(h) PROVE Sound'
  <2> DEFINE q == [at |-> "selected", found |-> handlers[h].found,
                   now |-> handlers[h].now,
                   existing |-> IF event = None THEN None
                                ELSE [stage |-> event.stage, sources |-> event.sources]]
  <2>1. q.at = "selected" /\ handlers' = [handlers EXCEPT ![h] = q] /\ event' = event
    BY <1>6 DEF SelectExisting, Goto
  <2> HIDE DEF q
  <2> QED
    BY <1>3, <2>1
<1>7. ASSUME NEW h \in Handlers, UpsertEvent(h) PROVE Sound'
  <2> DEFINE q == handlers[h]
  <2>1. RequestsSound'
    BY <1>1, <1>7 DEF UpsertEvent, Goto
  <2>2. CASE q.existing = None
    <3>1. event' = event \/ (event'.stage = "propose_fix" /\ event'.applied = None)
      BY <1>7, <2>2 DEF UpsertEvent
    <3>2. RowSound
      BY <3>1, <1>2 DEF AppliedIsDone, ClosedForCause, RowSound
    <3> QED
      BY <2>1, <3>2 DEF Sound, RowSound
  <2>3. CASE q.existing # None
    <3>1. event \in Event
      BY <1>7, <2>3 DEF UpsertEvent, At, EventSeen, TypeOK
    <3>2. \/ event' = event
          \/ event'.stage = "propose_fix" /\ event'.applied = None
          \/ /\ event'.stage = event.stage /\ event'.applied = event.applied
             /\ event'.closed = event.closed /\ event'.verification = event.verification
      BY <1>7, <2>3, <3>1 DEF UpsertEvent, Reopened, Event
    <3>3. event # None
      BY <3>1
    <3>4. RowSound
      BY <3>2, <3>3, WorkStays, <1>2 DEF Sound, AppliedIsDone, ClosedForCause, RowSound
    <3> QED
      BY <2>1, <3>4 DEF Sound, RowSound
  <2> QED
    BY <2>2, <2>3
<1>8. ASSUME NEW h \in Handlers, Approve(h) PROVE Sound'
  BY <1>3, <1>8 DEF Approve, Goto
<1>9. ASSUME ActionDone' PROVE SoundAfter(Applied)
  BY <1>9 DEF PatchSound, Applied, Update
<1>10. ASSUME NEW h \in Handlers, ApplyRoute(h) PROVE Sound'
  <2>1. ActionDone'
    BY <1>10 DEF ApplyRoute, ActionDone
  <2>2. SoundAfter(Applied)
    BY <1>9, <2>1
  <2> HIDE DEF SoundAfter
  <2> QED
    BY <1>3, <1>10, <2>2 DEF ApplyRoute, Goto
<1>11. ASSUME NEW h \in Handlers, LookUpTask(h) PROVE Sound'
  <2> DEFINE q == IF TaskMissing(task) THEN [at |-> "insert_task"] ELSE Applied
  <2>1. handlers' = [handlers EXCEPT ![h] = q] /\ event' = event
    BY <1>11 DEF LookUpTask, Goto
  <2>2. ASSUME task # None PROVE ActionDone'
    BY <1>11, <2>2 DEF LookUpTask, ActionDone
  <2>3. SoundAfter(q)
    <3>1. CASE task = None
      BY <1>11, <3>1 DEF LookUpTask, TaskMissing
    <3>2. CASE task # None
      <4>1. q = Applied /\ SoundAfter(Applied)
        BY <1>9, <2>2, <3>2 DEF TaskMissing
      <4> HIDE DEF q, SoundAfter
      <4> QED
        BY <4>1
    <3> QED
      BY <3>1, <3>2
  <2> HIDE DEF SoundAfter, q
  <2> QED
    BY <1>3, <2>1, <2>3
<1>12. ASSUME NEW h \in Handlers, InsertTask(h) PROVE Sound'
  <2>1. CASE handlers' = [handlers EXCEPT ![h] = None]
    BY <1>3, <1>12, <2>1 DEF InsertTask
  <2>2. CASE task' = "open" /\ handlers' = [handlers EXCEPT ![h] = Applied]
    <3>1. kind' = kind /\ kind # "route_tool" /\ event' = event
      BY <1>12 DEF InsertTask, At, Sound, RequestsSound
    <3>2. ActionDone'
      BY <2>2, <3>1 DEF ActionDone
    <3>3. SoundAfter(Applied)
      BY <1>9, <3>2
    <3> HIDE DEF SoundAfter
    <3> QED
      BY <1>3, <2>2, <3>1, <3>3
  <2> QED
    BY <1>12, <2>1, <2>2 DEF InsertTask, Goto
<1>13. ASSUME NEW h \in Handlers, Verify(h) PROVE Sound'
  <2> DEFINE q == [at |-> "verifying", sources |-> event.sources,
                   after |-> IF event.applied # None THEN event.applied ELSE event.updated]
  <2>1. q.at = "verifying" /\ handlers' = [handlers EXCEPT ![h] = q] /\ event' = event
    BY <1>13 DEF Verify, Goto
  <2> HIDE DEF q
  <2> QED
    BY <1>3, <2>1
<1>14. ASSUME NEW h \in Handlers, Judge(h) PROVE Sound'
  <2>1. PICK verification \in {"passed", "pending"} :
          /\ verification = (IF Passes(handlers[h]) THEN "passed" ELSE "pending")
          /\ Goto(h, Update(StageAfter(verification), verification, None,
                            StageAfter(verification) = "close"))
    BY <1>14 DEF Judge
  <2> DEFINE q == Update(StageAfter(verification), verification, None,
                         StageAfter(verification) = "close")
  <2>2. verification = "passed" /\ kind = "create_review_task" => task' # None
    BY <1>14, <2>1 DEF Judge, Passes
  <2>3. SoundAfter(q)
    BY <2>1, <2>2 DEF PatchSound, Update, StageAfter
  <2>4. handlers' = [handlers EXCEPT ![h] = q] /\ event' = event
    BY <1>14, <2>1 DEF Judge, Goto
  <2> HIDE DEF SoundAfter, q
  <2> QED
    BY <1>3, <2>3, <2>4
<1>15. ASSUME NEW h \in Handlers, Close(h) PROVE Sound'
  <2> DEFINE q == Update("close", "closed_reason", None, TRUE)
  <2>1. SoundAfter(q)
    BY DEF PatchSound, Update
  <2>2. handlers' = [handlers EXCEPT ![h] = q] /\ event' = event
    BY <1>15 DEF Close, Goto
  <2> HIDE DEF SoundAfter, q
  <2> QED
    BY <1>3, <2>1, <2>2
<1>16. ASSUME NEW h \in Handlers, ReadResults(h) PROVE Sound'
  <2> DEFINE q == [at |-> "write", update |-> handlers[h], approved |-> event.approved]
  <2>1. PatchSound(handlers[h], ActionDone, task # None)
    BY <1>16 DEF ReadResults, At, Sound, RequestsSound
  <2>2. q.at = "write" /\ q.update = handlers[h]
    OBVIOUS
  <2>3. handlers' = [handlers EXCEPT ![h] = q] /\ event' = event
    BY <1>16 DEF ReadResults, Goto
  <2>4. PatchSound(handlers[h], ActionDone', task' # None)
    BY <2>1, WorkStays DEF PatchSound
  <2> HIDE DEF q
  <2> QED
    BY <1>3, <2>2, <2>3, <2>4
<1>17. ASSUME NEW h \in Handlers, WriteEvent(h) PROVE Sound'
  <2> DEFINE u == handlers[h].update
  <2>1. RequestsSound'
    BY <1>1, <1>17 DEF WriteEvent, Goto
  <2>2. event \in Event
    BY <1>17 DEF WriteEvent, At, EventSeen, TypeOK
  <2>3. PatchSound(u, ActionDone, task # None)
    BY <1>17 DEF WriteEvent, At, Sound, RequestsSound
  <2>4. /\ event'.stage = u.stage /\ event'.verification = u.verification
        /\ event'.applied = IF u.applied # None THEN u.applied ELSE event.applied
        /\ u.closes => event'.closed
    BY <1>17, <2>2 DEF WriteEvent, Event
  <2>5. event # None
    BY <2>2
  <2>6. AppliedIsDone'
    BY <2>3, <2>4, <2>5, WorkStays DEF Sound, AppliedIsDone, PatchSound
  <2>7. ClosedForCause'
    BY <2>3, <2>4, WorkStays DEF ClosedForCause, PatchSound
  <2> QED
    BY <2>1, <2>6, <2>7 DEF Sound
<1>18. ASSUME NEW h \in Handlers, Abort(h) PROVE Sound'
  BY <1>3, <1>18 DEF Abort, Goto
<1>19. ASSUME \/ Tick
              \/ \E t \in Traces, s \in Times : Ingest(t, s)
              \/ \E t \in Traces : Leave(t)
              \/ \E status \in {"open", "resolved"} : Review(status)
              \/ UNCHANGED vars
       PROVE  Sound'
  BY <1>4, <1>19 DEF Tick, Ingest, Leave, Review, vars
<1> QED
  BY <1>5, <1>6, <1>7, <1>8, <1>10, <1>11, <1>12, <1>13, <1>14, <1>15, <1>16,
     <1>17, <1>18, <1>19 DEF Next, Continue

(* So it always holds. *)
LEMMA Soundness == Spec => []Sound
<1>1. Init => Sound
  BY DEF Init, Sound, RequestsSound, AppliedIsDone, ClosedForCause
<1>2. TypeOK /\ EventSeen /\ Sound /\ [Next]_vars => Sound'
  BY SoundStep
<1> QED
  BY <1>1, <1>2, TypingInvariant, PTL DEF Spec

(* However many requests read, execute and write back at the same time, an     *)
(* applied_at is that of an executor that did its work ...                     *)
THEOREM ApplicationIsHonest == Spec => []AppliedIsDone
<1>1. Sound => AppliedIsDone
  BY DEF Sound
<1> QED
  BY <1>1, Soundness, PTL

(* ... and an event that is closed has a closing time and a cause.             *)
THEOREM ClosingIsCaused == Spec => []ClosedForCause
<1>1. Sound => ClosedForCause
  BY DEF Sound
<1> QED
  BY <1>1, Soundness, PTL

=============================================================================
