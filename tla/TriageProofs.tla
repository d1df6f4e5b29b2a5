---------------------------- MODULE TriageProofs ----------------------------
(* What is proved of AutomationRuns, for every automation and any number of    *)
(* requests and runs, and of BehaviorDiscovery, for any number of traces,      *)
(* behaviors and requests, and whatever a model answers.                       *)
EXTENDS Triage, FoldProofs, FiniteSetTheorems,
        SequenceTheorems, TLAPS

RequestFields ==
  {"at", "id", "trace", "key", "now", "seen", "status", "results", "tried",
   "undo", "undone"}

\* Where a request has read the cooldown.
PastCooldown == {"acting", "compensating", "finished", "recorded"}

Acting == {"succeeded", "partial_failure"}

\* The runs that a request saw, up to `seen`, have cooled down when it reads the
\* clock at `now`.
Cooled(key, now, seen) ==
  key # None =>
    \A i \in DOMAIN runs :
      i <= seen /\ runs[i].cooldown = key /\ runs[i].status \in Acting
      => now >= runs[i].now + automation.cooldown

\* What a request in flight knows of the clock and of the runs it saw.
RequestSound(q) ==
  /\ DOMAIN q = RequestFields
  /\ q.at \in {"begun", "triggered"} \union PastCooldown
  /\ q.status \in {None, "skipped_conditions", "skipped_cooldown"}
  /\ q.at # "begun" => q.now \in Nat
  /\ q.at \in PastCooldown =>
       /\ q.seen \in 0 .. Len(runs)
       /\ q.status = None => Cooled(CooldownKey(q.trace), q.now, q.seen)

\* Every recorded run has read the clock, and saw earlier runs only.
RunsRead ==
  /\ \E S : runs \in Seq(S)
  /\ \A i \in DOMAIN runs : runs[i].now \in Nat /\ runs[i].seen \in 0 .. (i - 1)

\* Before there is an automation nothing runs.
Settled ==
  /\ time \in Nat
  /\ automation \in Definitions \union {None}
  /\ \E S : threads \in [RunThreads -> S]
  /\ automation = None => runs = <<>> /\ \A r \in RunThreads : threads[r] = None

RequestsSound == \A r \in RunThreads : threads[r] # None => RequestSound(threads[r])

\* CooldownSpaced follows for the next run from what its request saw.
Spacing == Settled /\ RunsRead /\ RequestsSound /\ CooldownSpaced

-----------------------------------------------------------------------------
\* A step of one request leaves the others where they are.
LEMMA Stepped ==
  ASSUME Settled, NEW r \in RunThreads, NEW q, Step(r, q)
  PROVE  /\ \E S : threads' \in [RunThreads -> S]
         /\ \A s \in RunThreads : threads'[s] = IF s = r THEN q ELSE threads[s]
<1>1. PICK S : threads \in [RunThreads -> S]
  BY DEF Settled
<1>2. /\ threads' \in [RunThreads -> S \union {q}]
      /\ \A s \in RunThreads : threads'[s] = IF s = r THEN q ELSE threads[s]
  BY <1>1 DEF Step
<1>. QED
  BY <1>2

\* While the runs and the automation stay, what is known of a request stays.
LEMMA SoundKept ==
  ASSUME UNCHANGED <<automation, runs>>, NEW q
  PROVE  RequestSound(q)' <=> RequestSound(q)
BY DEF RequestSound, Cooled, CooldownKey

\* A request goes on, or ends, and nothing is recorded.
LEMMA GoesOn ==
  ASSUME Spacing, NEW r \in RunThreads, NEW q, q = None \/ RequestSound(q), Step(r, q),
         automation # None, UNCHANGED <<time, automation, runs>>
  PROVE  Spacing'
<1>1. /\ \E S : threads' \in [RunThreads -> S]
      /\ \A s \in RunThreads : threads'[s] = IF s = r THEN q ELSE threads[s]
  BY Stepped DEF Spacing
<1>2. Settled'
  BY <1>1 DEF Spacing, Settled
<1>3. RunsRead' /\ CooldownSpaced'
  BY DEF Spacing, RunsRead, CooldownSpaced
<1>4. ASSUME NEW s \in RunThreads, threads'[s] # None
      PROVE  RequestSound(threads[s])'
  <2>1. PICK p : p = threads'[s]
    OBVIOUS
  <2>2. RequestSound(p)
    BY <1>1, <1>4, <2>1 DEF Spacing, RequestsSound
  <2>3. RequestSound(p)'
    BY <2>2, SoundKept
  <2>. QED
    BY <2>1, <2>3 DEF RequestSound, Cooled, CooldownKey
<1>. QED
  BY <1>2, <1>3, <1>4 DEF Spacing, RequestsSound

\* Neither the operators nor the clock disturb what is in flight.
LEMMA Around ==
  ASSUME Spacing, UNCHANGED <<threads, runs, automation>>, time' \in Nat
  PROVE  Spacing'
BY DEF Spacing, Settled, RunsRead, RequestsSound, RequestSound, Cooled, CooldownKey,
       CooldownSpaced

\* Before there is an automation nothing is known of any run.
LEMMA Created ==
  ASSUME Spacing, NEW d \in Definitions, CreateAutomation(d)
  PROVE  Spacing'
<1>1. runs = <<>> /\ \A r \in RunThreads : threads[r] = None
  BY DEF Spacing, Settled, CreateAutomation
<1>2. runs' = <<>> /\ threads' = threads /\ time' = time /\ automation' = d
  BY <1>1 DEF CreateAutomation
<1>3. automation' # None
  BY <1>2, AutomationAssumption
<1>. QED
  BY <1>1, <1>2, <1>3 DEF Spacing, Settled, RunsRead, RequestsSound, CooldownSpaced

-----------------------------------------------------------------------------
(* A request up to its actions. *)

LEMMA Begun ==
  ASSUME Spacing, NEW r \in RunThreads, NEW t, NEW given, BeginRun(r, t, given)
  PROVE  Spacing'
<1>1. PICK q : /\ Step(r, q) /\ DOMAIN q = RequestFields
               /\ q.at = "begun" /\ q.status = None
  BY DEF BeginRun, RequestFields
<1>2. RequestSound(q)
  BY <1>1 DEF RequestSound, PastCooldown
<1>. QED
  BY <1>1, <1>2, GoesOn DEF BeginRun, world

\* A request in flight, and the automation it runs.
LEMMA InFlight ==
  ASSUME Spacing, NEW r \in RunThreads, threads[r] # None
  PROVE  /\ RequestSound(threads[r])
         /\ automation \in Definitions /\ automation # None
         /\ automation.cooldown \in Nat
BY AutomationAssumption DEF Spacing, Settled, RequestsSound

LEMMA Triggered ==
  ASSUME Spacing, NEW r \in RunThreads, ReadTriggerTrace(r)
  PROVE  Spacing'
<1>1. threads[r] # None /\ RequestSound(threads[r]) /\ automation # None
  BY InFlight DEF ReadTriggerTrace, ThreadAt
<1>2. PICK status : /\ status \in {None, "skipped_conditions"}
                    /\ Step(r, [threads[r] EXCEPT !.at = "triggered", !.now = time,
                                                  !.status = status])
  BY DEF ReadTriggerTrace
<1>3. PICK q : q = [threads[r] EXCEPT !.at = "triggered", !.now = time, !.status = status]
  OBVIOUS
<1>4. RequestSound(q)
  BY <1>1, <1>2, <1>3 DEF RequestSound, RequestFields, PastCooldown, Spacing, Settled
<1>. QED
  BY <1>1, <1>2, <1>3, <1>4, GoesOn DEF ReadTriggerTrace, world

\* A request that is not skipped saw no run that is still cooling down.
LEMMA CooldownRead ==
  ASSUME Spacing, NEW r \in RunThreads, ReadCooldown(r)
  PROVE  Spacing'
<1>1. /\ threads[r] # None /\ RequestSound(threads[r]) /\ threads[r].at = "triggered"
      /\ automation # None /\ automation.cooldown \in Nat
  BY InFlight DEF ReadCooldown, ThreadAt
<1>2. PICK p : p = threads[r]
  OBVIOUS
<1>3. PICK status : status = IF p.status = None /\ CooldownActive(CooldownKey(p.trace), p.now)
                             THEN "skipped_cooldown" ELSE p.status
  OBVIOUS
<1>4. PICK at : at = IF status = None /\ automation.actions # <<>> THEN "acting" ELSE "finished"
  OBVIOUS
<1>5. PICK q : q = [p EXCEPT !.status = status, !.seen = Len(runs), !.at = at]
  OBVIOUS
<1>6. Step(r, q)
  BY <1>2, <1>3, <1>4, <1>5 DEF ReadCooldown
<1>7. /\ DOMAIN q = RequestFields /\ q.at \in {"acting", "finished"}
      /\ q.now = p.now /\ q.now \in Nat /\ q.seen = Len(runs) /\ q.trace = p.trace
      /\ q.status = status /\ status \in {None, "skipped_conditions", "skipped_cooldown"}
  BY <1>1, <1>2, <1>3, <1>4, <1>5 DEF RequestSound, RequestFields
<1>8. Len(runs) \in Nat
  BY DEF Spacing, RunsRead
<1>9. ASSUME q.status = None
      PROVE  Cooled(CooldownKey(q.trace), q.now, q.seen)
  <2>1. ~CooldownActive(CooldownKey(p.trace), p.now)
    BY <1>3, <1>7, <1>9, AutomationAssumption
  <2>2. CooldownKey(q.trace) = CooldownKey(p.trace)
    BY <1>7
  <2>3. \A i \in DOMAIN runs : runs[i].now \in Nat
    BY DEF Spacing, RunsRead
  <2>. QED
    BY <2>1, <2>2, <2>3, <1>1, <1>7 DEF CooldownActive, Cooling, Cooled, Acting
<1>. QED
  BY <1>6, <1>7, <1>8, <1>9, <1>1, GoesOn DEF ReadCooldown, world, RequestSound, PastCooldown

-----------------------------------------------------------------------------
(* Its attempts. *)

\* However an attempt ends, a request keeps what it read, and is at an attempt or
\* at the end of its actions.
LEMMA Attempted ==
  ASSUME Spacing, NEW r \in RunThreads, NEW type, Attempts(r, type),
         NEW status, NEW task, Settle(r, status, task)
  PROVE  Spacing'
<1>1. /\ threads[r] # None /\ RequestSound(threads[r])
      /\ threads[r].at \in {"acting", "compensating"} /\ automation # None
      /\ UNCHANGED <<time, automation, runs>>
  BY InFlight DEF Attempts, world
<1>2. PICK p : p = threads[r]
  OBVIOUS
<1>3. PICK q : /\ Step(r, q) /\ DOMAIN q = DOMAIN p
               /\ q.now = p.now /\ q.seen = p.seen /\ q.status = p.status
               /\ q.trace = p.trace
               /\ q.at \in {"acting", "compensating", "finished"}
  <2>1. CASE TriesAgain(p, status)
    <3>1. Step(r, [p EXCEPT !.tried = @ + 1])
      BY <1>2, <2>1 DEF Settle
    <3>. QED
      BY <1>1, <1>2, <3>1 DEF RequestSound, RequestFields
  <2>2. CASE ~TriesAgain(p, status) /\ p.at = "acting"
    <3>1. PICK result : Step(r, Acted(p, result))
      BY <1>2, <2>2 DEF Settle
    <3>2. PICK results, undo, at :
            /\ Acted(p, result) = [p EXCEPT !.results = results, !.undo = undo,
                                            !.tried = 0, !.at = at]
            /\ at \in {"acting", "compensating", "finished"}
      BY DEF Acted
    <3>3. PICK q : q = Acted(p, result)
      OBVIOUS
    <3>4. /\ DOMAIN q = DOMAIN p /\ q.now = p.now /\ q.seen = p.seen
          /\ q.status = p.status /\ q.trace = p.trace /\ q.at = at
      BY <1>1, <1>2, <3>2, <3>3 DEF RequestSound, RequestFields
    <3>. QED
      BY <3>1, <3>2, <3>3, <3>4
  <2>3. CASE ~TriesAgain(p, status) /\ p.at # "acting"
    <3>1. PICK result : Step(r, Compensated(p, result))
      BY <1>2, <2>3 DEF Settle
    <3>2. PICK undone, undo, results, at :
            /\ Compensated(p, result) = [p EXCEPT !.undone = undone, !.undo = undo,
                                         !.tried = 0, !.results = results, !.at = at]
            /\ at \in {"finished", p.at}
      BY DEF Compensated
    <3>3. PICK q : q = Compensated(p, result)
      OBVIOUS
    <3>4. /\ DOMAIN q = DOMAIN p /\ q.now = p.now /\ q.seen = p.seen
          /\ q.status = p.status /\ q.trace = p.trace /\ q.at = at
      BY <1>1, <1>2, <3>2, <3>3 DEF RequestSound, RequestFields
    <3>5. Step(r, q) /\ q.at \in {"acting", "compensating", "finished"}
      BY <1>1, <1>2, <3>1, <3>2, <3>3, <3>4
    <3>. QED
      BY <3>4, <3>5
  <2>. QED
    BY <2>1, <2>2, <2>3
<1>4. RequestSound(q)
  BY <1>1, <1>2, <1>3 DEF RequestSound, PastCooldown
<1>. QED
  BY <1>1, <1>3, <1>4, GoesOn

\* Every action of an automation ends an attempt.
LEMMA AttemptMade ==
  ASSUME Spacing, NEW r \in RunThreads,
         \/ CreateTask(r) \/ RollbackTask(r) \/ AddExample(r) \/ CommitRoute(r)
         \/ Preview(r) \/ Undelivered(r) \/ PostNotification(r) \/ Unsupported(r)
  PROVE  Spacing'
<1>1. \E type, status, task : Attempts(r, type) /\ Settle(r, status, task)
  <2>1. CASE CreateTask(r)
    BY <2>1 DEF CreateTask
  <2>2. CASE RollbackTask(r)
    BY <2>2 DEF RollbackTask
  <2>3. CASE AddExample(r)
    BY <2>3 DEF AddExample
  <2>4. CASE CommitRoute(r)
    BY <2>4 DEF CommitRoute
  <2>5. CASE Preview(r)
    BY <2>5 DEF Preview
  <2>6. CASE Undelivered(r)
    BY <2>6 DEF Undelivered
  <2>7. CASE PostNotification(r)
    BY <2>7 DEF PostNotification
  <2>8. CASE Unsupported(r)
    BY <2>8 DEF Unsupported
  <2>. QED
    BY <2>1, <2>2, <2>3, <2>4, <2>5, <2>6, <2>7, <2>8
<1>. QED
  BY <1>1, Attempted

-----------------------------------------------------------------------------
(* Its record. *)

\* The record of a request that acted says that it was not skipped, and the runs
\* it saw are those recorded before it.
LEMMA Recording ==
  ASSUME Spacing, NEW r \in RunThreads, RecordRun(r)
  PROVE  Spacing'
<1>1. /\ threads[r] # None /\ RequestSound(threads[r]) /\ threads[r].at = "finished"
      /\ automation # None /\ UNCHANGED <<time, automation>>
  BY InFlight DEF RecordRun, ThreadAt, world
<1>2. CASE Taken(threads[r].key)
  <2>1. Step(r, None) /\ UNCHANGED runs
    BY <1>2 DEF RecordRun
  <2>. QED
    BY <1>1, <2>1, GoesOn
<1>3. CASE ~Taken(threads[r].key)
  <2>1. PICK p : p = threads[r]
    OBVIOUS
  <2>2. PICK row : /\ runs' = Append(runs, row)
                   /\ row.now = p.now /\ row.seen = p.seen
                   /\ row.cooldown = CooldownKey(p.trace)
                   /\ p.status # None => row.status = p.status
    BY <1>3, <2>1 DEF RecordRun
  <2>3. PICK q : q = [p EXCEPT !.at = "recorded"]
    OBVIOUS
  <2>4. Step(r, q)
    BY <1>3, <2>1, <2>3 DEF RecordRun
  <2>5. /\ Len(runs') = Len(runs) + 1 /\ Len(runs) \in Nat
        /\ DOMAIN runs = 1 .. Len(runs) /\ DOMAIN runs' = 1 .. Len(runs')
        /\ runs'[Len(runs) + 1] = row /\ \A i \in DOMAIN runs : runs'[i] = runs[i]
        /\ \E S : runs' \in Seq(S)
    <3>1. PICK S : runs \in Seq(S)
      BY DEF Spacing, RunsRead
    <3>2. runs \in Seq(S \union {row}) /\ runs' \in Seq(S \union {row})
      BY <2>2, <3>1
    <3>. QED
      BY <2>2, <3>2
  <2>6. /\ \E S : threads' \in [RunThreads -> S]
        /\ \A s \in RunThreads : threads'[s] = IF s = r THEN q ELSE threads[s]
    BY <2>4, Stepped DEF Spacing
  <2>7. Settled'
    BY <1>1, <2>6 DEF Spacing, Settled
  <2>8. /\ p.now \in Nat /\ p.seen \in 0 .. Len(runs)
        /\ p.status = None => Cooled(row.cooldown, p.now, p.seen)
        /\ p.status \in {None, "skipped_conditions", "skipped_cooldown"}
    BY <1>1, <2>1, <2>2 DEF RequestSound, PastCooldown
  <2>9. RunsRead'
    BY <2>2, <2>5, <2>8 DEF Spacing, RunsRead
  <2>10. CooldownSpaced'
    <3>1. SUFFICES ASSUME NEW i \in DOMAIN runs', NEW j \in DOMAIN runs', i <= runs'[j].seen,
                          runs'[i].cooldown = runs'[j].cooldown, runs'[j].cooldown # None,
                          runs'[i].status \in Acting, runs'[j].status \in Acting
                   PROVE  runs'[j].now >= runs'[i].now + automation.cooldown
      BY <1>1 DEF CooldownSpaced, Acting
    <3>2. CASE j \in DOMAIN runs
      <4>1. i \in DOMAIN runs
        BY <3>1, <3>2, <2>5 DEF Spacing, RunsRead
      <4>. QED
        BY <3>1, <3>2, <4>1, <2>5 DEF Spacing, CooldownSpaced, Acting
    <3>3. CASE j = Len(runs) + 1
      <4>1. i \in DOMAIN runs /\ i <= p.seen
        BY <3>1, <3>3, <2>2, <2>5, <2>8
      <4>2. p.status = None
        BY <3>1, <3>3, <2>2, <2>5, <2>8 DEF Acting
      <4>. QED
        BY <3>1, <3>3, <4>1, <4>2, <2>2, <2>5, <2>8 DEF Cooled
    <3>. QED
      BY <3>2, <3>3, <2>5
  <2>11. ASSUME NEW s \in RunThreads, threads'[s] # None
         PROVE  RequestSound(threads[s])'
    <3>1. PICK x : x = threads'[s]
      OBVIOUS
    <3>2. RequestSound(x)
      <4>1. CASE s = r
        <5>1. x = q /\ RequestSound(p) /\ p.at = "finished"
          BY <4>1, <3>1, <2>6, <2>1, <1>1
        <5>2. /\ DOMAIN q = RequestFields /\ q.at = "recorded" /\ q.now = p.now
              /\ q.seen = p.seen /\ q.status = p.status /\ q.trace = p.trace
          BY <5>1, <2>3 DEF RequestSound, RequestFields
        <5>. QED
          BY <5>1, <5>2 DEF RequestSound, PastCooldown
      <4>2. CASE s # r
        BY <4>2, <3>1, <2>6, <2>11 DEF Spacing, RequestsSound
      <4>. QED
        BY <4>1, <4>2
    <3>3. CooldownKey(x.trace)' = CooldownKey(x.trace)
      BY <1>1 DEF CooldownKey
    <3>4. \A key, now, seen : seen \in 0 .. Len(runs) /\ Cooled(key, now, seen)
                             => Cooled(key, now, seen)'
      BY <1>1, <2>5 DEF Cooled
    <3>5. RequestSound(x)'
      BY <3>2, <3>3, <3>4, <2>5 DEF RequestSound
    <3>. QED
      BY <3>1, <3>5 DEF RequestSound, Cooled, CooldownKey
  <2>. QED
    BY <2>7, <2>9, <2>10, <2>11 DEF Spacing, RequestsSound
<1>. QED
  BY <1>2, <1>3

\* A request that is answered, or stops, is not in flight.
LEMMA Ended ==
  ASSUME Spacing, NEW r \in RunThreads, AuditRun(r) \/ RunStops(r)
  PROVE  Spacing'
<1>1. Step(r, None) /\ threads[r] # None /\ UNCHANGED <<time, automation, runs>>
  BY DEF AuditRun, RunStops, ThreadAt, world
<1>. QED
  BY <1>1, InFlight, GoesOn

-----------------------------------------------------------------------------
(* Every step. *)

\* What operators and reviewers do once there is an automation.
Operates ==
  \/ \E row \in TargetRows : CreateTarget(row)
  \/ LoseSecret
  \/ \E t \in TriggerTraces, status \in {"ok", "error", None} : StoreTrace(t, status)
  \/ \E i \in DOMAIN reviews : DecideReview(i)

\* What a request does.
Requested(r) ==
  \/ \E t \in TriggerTraces \union {None}, key \in Keys \union {None} : BeginRun(r, t, key)
  \/ ContinueRun(r)
  \/ RunStops(r)

LEMMA SpacingStep ==
  ASSUME Spacing, AutomationNext
  PROVE  Spacing'
<1>1. ASSUME NEW d \in Definitions, CreateAutomation(d)
      PROVE  Spacing'
  BY <1>1, Created
<1>2. CASE Operates
  <2>1. UNCHANGED <<time, threads, runs, automation>>
    BY <1>2 DEF Operates, CreateTarget, LoseSecret, StoreTrace, DecideReview, world
  <2>2. time' \in Nat
    BY <2>1 DEF Spacing, Settled
  <2>. QED
    BY <2>1, <2>2, Around
<1>3. CASE PassTime
  <2>1. UNCHANGED <<threads, runs, automation>> /\ time' \in Nat
    BY <1>3 DEF PassTime, Spacing, Settled
  <2>. QED
    BY <2>1, Around
<1>4. ASSUME NEW r \in RunThreads, Requested(r)
      PROVE  Spacing'
  BY <1>4, Begun, Triggered, CooldownRead, AttemptMade, Recording, Ended
  DEF Requested, ContinueRun
<1>5. \/ \E d \in Definitions : CreateAutomation(d)
      \/ Operates \/ PassTime \/ \E r \in RunThreads : Requested(r)
  BY DEF AutomationNext, Operates, Requested
<1>. QED
  BY <1>1, <1>2, <1>3, <1>4, <1>5

LEMMA SpacingAlways == AutomationSpec => []Spacing
<1>1. AutomationInit => Spacing
  <2>1. SUFFICES ASSUME AutomationInit
                 PROVE  Spacing
    OBVIOUS
  <2>2. /\ runs = <<>> /\ \A r \in RunThreads : threads[r] = None
        /\ threads \in [RunThreads -> {None}] /\ time \in Nat /\ automation = None
    BY <2>1 DEF AutomationInit
  <2>3. Settled
    BY <2>2 DEF Settled
  <2>. QED
    BY <2>2, <2>3 DEF Spacing, RunsRead, RequestsSound, CooldownSpaced
<1>2. Spacing /\ [AutomationNext]_automationVars => Spacing'
  <2>1. Spacing /\ UNCHANGED automationVars => Spacing'
    BY Around DEF automationVars, Spacing, Settled
  <2>. QED
    BY <2>1, SpacingStep
<1>. QED
  BY <1>1, <1>2, PTL DEF AutomationSpec

\* Two runs of one cooldown scope that acted are the cooldown apart, unless the
\* later one read the runs before the earlier was recorded: the requests race for
\* the record, and what each read of the clock and of the runs is kept until then
\* (main.py, _execute_automation).
THEOREM Spaced == AutomationSpec => []CooldownSpaced
<1>1. Spacing => CooldownSpaced
  BY DEF Spacing
<1>. QED
  BY <1>1, SpacingAlways, PTL

-----------------------------------------------------------------------------
(* Sequences of sequences, end to end. *)

\* What FlattenSeq has of the first n sequences.
Joins(g, seqs, n) ==
  g = [i \in 1 .. n |-> IF i = 1 THEN seqs[i] ELSE g[i - 1] \o seqs[i]]

LEMMA JoinsExists ==
  ASSUME NEW seqs, NEW n \in Nat \ {0}
  PROVE  \E g : Joins(g, seqs, n)
<1>. DEFINE T == {k \in Nat \ {0} : ~ \E g : Joins(g, seqs, k)}
<1>1. SUFFICES ASSUME T # {} PROVE FALSE
  OBVIOUS
<1>2. PICK m \in T : \A k \in T : m <= k
  BY <1>1, Smallest
<1>3. CASE m = 1
  <2>1. Joins([i \in 1 .. 1 |-> seqs[1]], seqs, 1)
    BY DEF Joins
  <2>. QED
    BY <1>3, <2>1
<1>4. CASE m # 1
  <2>1. PICK g : Joins(g, seqs, m - 1)
    BY <1>2, <1>4
  <2>2. PICK h : h = [i \in 1 .. m |-> IF i = m THEN g[m - 1] \o seqs[m] ELSE g[i]]
    OBVIOUS
  <2>3. ASSUME NEW i \in 1 .. m
        PROVE  h[i] = IF i = 1 THEN seqs[i] ELSE h[i - 1] \o seqs[i]
    <3>1. CASE i = m
      <4>1. i - 1 \in 1 .. m /\ i - 1 # m /\ i # 1 /\ i - 1 = m - 1
        BY <3>1, <1>4
      <4>2. h[i - 1] = g[m - 1]
        BY <4>1, <2>2
      <4>3. h[i] = g[m - 1] \o seqs[m]
        BY <3>1, <2>2
      <4>. QED
        BY <4>1, <4>2, <4>3, <3>1
    <3>2. CASE i # m
      <4>1. i \in 1 .. m - 1 /\ h[i] = g[i] /\ (i # 1 => h[i - 1] = g[i - 1])
        BY <3>2, <2>2, <1>4
      <4>. QED
        BY <4>1, <2>1 DEF Joins
    <3>. QED
      BY <3>1, <3>2
  <2>4. Joins(h, seqs, m)
    <3>1. h = [i \in 1 .. m |-> h[i]]
      BY <2>2
    <3>. QED
      BY <3>1, <2>3 DEF Joins
  <2>. QED
    BY <2>4
<1>. QED
  BY <1>3, <1>4

\* The first n sequences are in the n-th of the joined ones.
HasFirst(g, seqs, n, S) ==
  /\ g[n] \in Seq(S)
  /\ \A i \in 1 .. n : \A u \in DOMAIN seqs[i] : \E v \in DOMAIN g[n] : g[n][v] = seqs[i][u]

\* Flattened, a sequence of sequences has what they have.
LEMMA Flattened ==
  ASSUME NEW S, NEW seqs \in Seq(Seq(S)), seqs # <<>>
  PROVE  /\ FlattenSeq(seqs) \in Seq(S)
         /\ \A i \in DOMAIN seqs : \A u \in DOMAIN seqs[i] :
              \E v \in DOMAIN FlattenSeq(seqs) : FlattenSeq(seqs)[v] = seqs[i][u]
<1>1. Len(seqs) \in Nat \ {0} /\ DOMAIN seqs = 1 .. Len(seqs)
      /\ \A i \in 1 .. Len(seqs) : seqs[i] \in Seq(S)
  OBVIOUS
<1>2. PICK h : Joins(h, seqs, Len(seqs))
  BY <1>1, JoinsExists
<1>3. PICK g : Joins(g, seqs, Len(seqs)) /\ FlattenSeq(seqs) = g[Len(seqs)]
  <2>. DEFINE f == CHOOSE f : f = [i \in 1 .. Len(seqs) |->
                                     IF i = 1 THEN seqs[i] ELSE f[i - 1] \o seqs[i]]
  <2>1. f = [i \in 1 .. Len(seqs) |-> IF i = 1 THEN seqs[i] ELSE f[i - 1] \o seqs[i]]
    BY <1>2 DEF Joins
  <2>2. FlattenSeq(seqs) = f[Len(seqs)]
    BY <1>1 DEF FlattenSeq
  <2>. QED
    BY <2>1, <2>2 DEF Joins
<1>. DEFINE T == {n \in Nat : n \in 1 .. Len(seqs) /\ ~HasFirst(g, seqs, n, S)}
<1>4. SUFFICES ASSUME T # {} PROVE FALSE
  <2>1. SUFFICES ASSUME T = {}
                 PROVE  HasFirst(g, seqs, Len(seqs), S)
    BY <1>1, <1>3 DEF HasFirst
  <2>. QED
    BY <1>1, <2>1
<1>5. PICK m \in T : \A k \in T : m <= k
  BY <1>1, <1>4, Smallest
<1>6. CASE m = 1
  <2>1. g[1] = seqs[1]
    BY <1>1, <1>3 DEF Joins
  <2>2. HasFirst(g, seqs, 1, S)
    BY <2>1, <1>1 DEF HasFirst
  <2>. QED
    BY <2>2, <1>6
<1>7. CASE m # 1
  <2>1. m - 1 \in 1 .. Len(seqs) /\ m \in 1 .. Len(seqs) /\ m - 1 \in Nat
    BY <1>1, <1>7
  <2>2. HasFirst(g, seqs, m - 1, S)
    BY <2>1, <1>5
  <2>3. g[m] = g[m - 1] \o seqs[m] /\ g[m] \in Seq(S)
    <3>1. g[m] = g[m - 1] \o seqs[m]
      BY <1>3, <1>7, <2>1 DEF Joins
    <3>2. g[m - 1] \in Seq(S) /\ seqs[m] \in Seq(S)
      BY <1>1, <2>1, <2>2 DEF HasFirst
    <3>. QED
      BY <3>1, <3>2
  <2>4. PICK a \in Seq(S), b \in Seq(S) : a = g[m - 1] /\ b = seqs[m] /\ g[m] = a \o b
    BY <1>1, <2>1, <2>2, <2>3 DEF HasFirst
  <2>5. /\ \A v \in DOMAIN a : v \in DOMAIN (a \o b) /\ (a \o b)[v] = a[v]
        /\ \A v \in DOMAIN b : Len(a) + v \in DOMAIN (a \o b) /\ (a \o b)[Len(a) + v] = b[v]
    OBVIOUS
  <2>6. ASSUME NEW i \in 1 .. m, NEW u \in DOMAIN seqs[i]
        PROVE  \E v \in DOMAIN g[m] : g[m][v] = seqs[i][u]
    <3>1. CASE i = m
      BY <3>1, <2>4, <2>5, <2>6
    <3>2. CASE i # m
      <4>1. i \in 1 .. m - 1
        BY <3>2, <2>1
      <4>2. PICK v \in DOMAIN a : a[v] = seqs[i][u]
        BY <4>1, <2>2, <2>4, <2>6 DEF HasFirst
      <4>. QED
        BY <4>2, <2>4, <2>5
    <3>. QED
      BY <3>1, <3>2
  <2>7. HasFirst(g, seqs, m, S)
    BY <2>3, <2>6 DEF HasFirst
  <2>. QED
    BY <2>7
<1>. QED
  BY <1>6, <1>7

-----------------------------------------------------------------------------
(* What a run has to roll back. *)

\* A review task that is stored, or none.
Task == {None} \union DOMAIN reviews

UndoRow == [type : STRING, task : Task, attempts : 1 .. 5]
ResultRow ==
  [status : {"succeeded", "skipped", "dead_lettered"}, task : Task, tries : Nat,
   undo : Seq(UndoRow)]

\* The action has a rollback of the task it creates.
HasRollback(k) ==
  \E u \in DOMAIN automation.actions[k].undo :
    automation.actions[k].undo[u].type = "rollback_review_task"

\* The results whose task is to be rolled back when the run compensates.
Owed(results) == {k \in DOMAIN results : results[k].task # None /\ HasRollback(k)}

\* The failures that make it compensate.
FailedAt(results) ==
  {j \in DOMAIN results : results[j].status = "dead_lettered"
                          /\ automation.actions[j].on_failure = "compensate"}

Resolved(n) == reviews[n].status = "resolved"
RollsBack(undo, n) == undo.type = "rollback_review_task" /\ undo.task = n

\* A result that owes a rollback brings it along ...
Brings(results) ==
  \A k \in Owed(results) : \E u \in DOMAIN results[k].undo :
    RollsBack(results[k].undo[u], results[k].task)

\* ... which is still ahead, or was made ...
Ahead(results, undo) ==
  \A k \in Owed(results) :
    Resolved(results[k].task) \/ \E u \in DOMAIN undo : RollsBack(undo[u], results[k].task)

\* ... as all of them were at the end.
Done(results) == \A k \in Owed(results) : Resolved(results[k].task)

ResultsTyped(results) ==
  results \in Seq(ResultRow) /\ Len(results) <= Len(automation.actions)

UndoSound(q) ==
  /\ ResultsTyped(q.results) /\ q.undo \in Seq(UndoRow) /\ q.tried \in Nat
  /\ q.at \in {"begun", "triggered"} => q.results = <<>>
  /\ q.at = "acting" => /\ Len(q.results) < Len(automation.actions)
                        /\ FailedAt(q.results) = {} /\ Brings(q.results)
  /\ q.at = "compensating" => q.undo # <<>> /\ Ahead(q.results, q.undo)
  /\ q.at \in {"finished", "recorded"} => FailedAt(q.results) = {} \/ Done(q.results)

\* The record of a run that compensated.
RowSound(row) ==
  /\ ResultsTyped(row.results)
  /\ FailedAt(row.results) # {} => Done(row.results) /\ row.status # "succeeded"

TasksTyped ==
  /\ \E S : reviews \in Seq(S)
  /\ \A n \in DOMAIN reviews : DOMAIN reviews[n] = {"status", "decision", "run", "key"}

RollbackSound ==
  /\ TasksTyped
  /\ \A i \in DOMAIN runs : RowSound(runs[i])
  /\ \A r \in RunThreads : threads[r] # None => UndoSound(threads[r])

\* No task goes, and none that is resolved is open again.
TasksStay ==
  /\ DOMAIN reviews \subseteq DOMAIN reviews'
  /\ \A n \in DOMAIN reviews : Resolved(n) => Resolved(n)'

-----------------------------------------------------------------------------
\* What is known of results stays while tasks are added and resolved.
LEMMA RowsWiden ==
  ASSUME TasksStay
  PROVE  /\ Task \subseteq Task'
         /\ UndoRow \subseteq UndoRow' /\ Seq(UndoRow) \subseteq Seq(UndoRow')
         /\ ResultRow \subseteq ResultRow' /\ Seq(ResultRow) \subseteq Seq(ResultRow')
<1>1. Task \subseteq Task'
  BY DEF TasksStay, Task
<1>2. UndoRow \subseteq UndoRow'
  BY <1>1 DEF UndoRow
<1>3. Seq(UndoRow) \subseteq Seq(UndoRow')
  BY <1>2
<1>4. ResultRow \subseteq ResultRow'
  BY <1>1, <1>3 DEF ResultRow
<1>. QED
  BY <1>1, <1>2, <1>3, <1>4

LEMMA OwedStay ==
  ASSUME TasksStay, automation' = automation, NEW results, ResultsTyped(results)
  PROVE  /\ ResultsTyped(results)'
         /\ Owed(results)' = Owed(results) /\ FailedAt(results)' = FailedAt(results)
         /\ Brings(results)' <=> Brings(results)
         /\ Done(results) => Done(results)'
         /\ \A undo : Ahead(results, undo) => Ahead(results, undo)'
<1>1. Owed(results)' = Owed(results) /\ FailedAt(results)' = FailedAt(results)
  BY DEF Owed, HasRollback, FailedAt
<1>2. \A k \in Owed(results) : results[k].task \in DOMAIN reviews
  <2>1. \A k \in DOMAIN results : results[k] \in ResultRow
    BY DEF ResultsTyped
  <2>. QED
    BY <2>1 DEF Owed, ResultRow, Task
<1>3. ResultsTyped(results)'
  BY RowsWiden DEF ResultsTyped
<1>. QED
  BY <1>1, <1>2, <1>3 DEF Brings, Done, Ahead, TasksStay, Resolved

LEMMA UndoStays ==
  ASSUME TasksStay, automation' = automation, NEW q, UndoSound(q)
  PROVE  UndoSound(q)'
<1>1. q.undo \in Seq(UndoRow)'
  BY RowsWiden DEF UndoSound
<1>. QED
  BY <1>1, OwedStay DEF UndoSound

LEMMA RowStays ==
  ASSUME TasksStay, automation' = automation, NEW row, RowSound(row)
  PROVE  RowSound(row)'
BY OwedStay DEF RowSound

\* A request goes on, or ends, and nothing is recorded.
LEMMA RollbackGoesOn ==
  ASSUME Spacing, RollbackSound, NEW r \in RunThreads, NEW q, Step(r, q),
         q = None \/ UndoSound(q)', TasksTyped', TasksStay, UNCHANGED <<automation, runs>>
  PROVE  RollbackSound'
<1>1. \A s \in RunThreads : threads'[s] = IF s = r THEN q ELSE threads[s]
  BY Stepped DEF Spacing
<1>2. ASSUME NEW i \in DOMAIN runs'
      PROVE  RowSound(runs[i])'
  <2>1. PICK row : row = runs[i] /\ runs'[i] = row
    OBVIOUS
  <2>2. RowSound(row)'
    BY <2>1, RowStays DEF RollbackSound
  <2>. QED
    BY <2>1, <2>2 DEF RowSound, ResultsTyped, FailedAt, Done, Owed
<1>3. ASSUME NEW s \in RunThreads, threads'[s] # None
      PROVE  UndoSound(threads[s])'
  <2>1. PICK p : p = threads'[s]
    OBVIOUS
  <2>2. UndoSound(p)'
    BY <1>1, <1>3, <2>1, UndoStays DEF RollbackSound
  <2>. QED
    BY <2>1, <2>2 DEF UndoSound, ResultsTyped, FailedAt, Done, Owed, Brings, Ahead
<1>. QED
  BY <1>2, <1>3 DEF RollbackSound

-----------------------------------------------------------------------------
(* The results of a run. *)

\* What a run executes, in sequence.
LEMMA Plans ==
  ASSUME Spacing, automation # None
  PROVE  automation.actions \in Seq(Action)
BY AutomationAssumption DEF Spacing, Settled

LEMMA TaskOfNone ==
  ASSUME TasksTyped'
  PROVE  None \in Task' /\ None \notin DOMAIN reviews'
<1>1. DOMAIN reviews' \subseteq Nat
  BY DEF TasksTyped
<1>. QED
  BY <1>1, AutomationAssumption DEF Task

\* The actions that are skipped owe nothing, and fill up the results.
LEMMA FilledUp ==
  ASSUME Spacing, automation # None, automation' = automation, TasksTyped',
         NEW results, ResultsTyped(results)', NEW whole, whole = results \o Skipped(results)
  PROVE  /\ ResultsTyped(whole)' /\ Len(whole) = Len(automation.actions)
         /\ Owed(whole)' = Owed(results)' /\ FailedAt(whole)' = FailedAt(results)'
         /\ Done(results)' => Done(whole)'
<1>. DEFINE rest == Skipped(results)
<1>1. /\ Len(automation.actions) \in Nat /\ Len(results) \in Nat
      /\ Len(results) <= Len(automation.actions) /\ results \in Seq(ResultRow')
  BY Plans DEF ResultsTyped
<1>2. PICK n \in Nat : n = Len(automation.actions) - Len(results)
  <2>1. Len(automation.actions) - Len(results) \in Nat
    BY <1>1
  <2>. QED
    BY <2>1
<1>3. rest = [i \in 1 .. n |-> [status |-> "skipped", task |-> None, tries |-> 0, undo |-> <<>>]]
  BY <1>2 DEF Skipped
<1>4. [status |-> "skipped", task |-> None, tries |-> 0, undo |-> <<>>] \in ResultRow'
  <2>1. <<>> \in Seq(UndoRow')
    OBVIOUS
  <2>. QED
    BY <2>1, TaskOfNone DEF ResultRow
<1>5. rest \in Seq(ResultRow') /\ Len(rest) = n
  BY <1>3, <1>4
<1>7. /\ whole \in Seq(ResultRow') /\ Len(whole) = Len(automation.actions)
      /\ DOMAIN results = 1 .. Len(results) /\ DOMAIN whole = 1 .. Len(whole)
      /\ \A k \in DOMAIN results : whole[k] = results[k]
      /\ \A k \in DOMAIN whole \ DOMAIN results : whole[k] = rest[k - Len(results)]
                                                 /\ k - Len(results) \in 1 .. n
  BY <1>1, <1>2, <1>5
<1>8. \A k \in DOMAIN whole \ DOMAIN results : whole[k].task = None /\ whole[k].status = "skipped"
  BY <1>3, <1>7
<1>9. DOMAIN results \subseteq DOMAIN whole
  BY <1>1, <1>7
<1>10. Owed(whole)' = Owed(results)' /\ FailedAt(whole)' = FailedAt(results)'
  BY <1>7, <1>8, <1>9 DEF Owed, FailedAt
<1>11. Done(results)' => Done(whole)'
  <2>1. \A k \in Owed(results)' : whole[k] = results[k]
    BY <1>7 DEF Owed
  <2>. QED
    BY <1>10, <2>1 DEF Done
<1>12. ResultsTyped(whole)'
  BY <1>7, <1>1 DEF ResultsTyped
<1>. QED
  BY <1>7, <1>10, <1>11, <1>12

\* The compensations planned for the results are those the results bring along.
LEMMA PlannedAhead ==
  ASSUME NEW results, results \in Seq(ResultRow'), results # <<>>, Brings(results)'
  PROVE  PlannedUndo(results) \in Seq(UndoRow') /\ Ahead(results, PlannedUndo(results))'
<1>. DEFINE own == [i \in DOMAIN results |-> results[i].undo]
            seqs == Reverse(own)
<1>1. /\ DOMAIN results = 1 .. Len(results) /\ Len(results) \in Nat \ {0}
      /\ \A i \in DOMAIN results : results[i].undo \in Seq(UndoRow')
  <2>1. \A i \in DOMAIN results : results[i] \in ResultRow'
    OBVIOUS
  <2>2. \A row \in ResultRow' : row.undo \in Seq(UndoRow')
    BY DEF ResultRow
  <2>3. DOMAIN results = 1 .. Len(results) /\ Len(results) \in Nat \ {0}
    OBVIOUS
  <2>. QED
    BY <2>1, <2>2, <2>3
<1>2. own \in Seq(Seq(UndoRow')) /\ Len(own) = Len(results)
  BY <1>1
<1>3. /\ seqs \in Seq(Seq(UndoRow')) /\ Len(seqs) = Len(results)
      /\ \A i \in 1 .. Len(results) : seqs[i] = own[Len(results) - i + 1]
  BY <1>1, <1>2 DEF Reverse
<1>4. PlannedUndo(results) = FlattenSeq(seqs)
  BY DEF PlannedUndo
<1>5. seqs # <<>>
  BY <1>1, <1>3
<1>6. /\ FlattenSeq(seqs) \in Seq(UndoRow')
      /\ \A i \in DOMAIN seqs : \A u \in DOMAIN seqs[i] :
           \E v \in DOMAIN FlattenSeq(seqs) : FlattenSeq(seqs)[v] = seqs[i][u]
  <2>. HIDE DEF seqs
  <2>. QED
    BY <1>3, <1>5, Flattened
<1>7. ASSUME NEW k \in Owed(results)'
      PROVE  \E v \in DOMAIN FlattenSeq(seqs) : RollsBack(FlattenSeq(seqs)[v], results[k].task)
  <2>1. PICK u \in DOMAIN results[k].undo : RollsBack(results[k].undo[u], results[k].task)
    BY <1>7 DEF Brings
  <2>2. k \in DOMAIN results
    BY <1>7 DEF Owed
  <2>3. PICK i \in 1 .. Len(results) : i = Len(results) - k + 1
    BY <2>2, <1>1
  <2>4. seqs[i] = results[k].undo /\ i \in DOMAIN seqs
    <3>1. Len(results) - i + 1 = k
      BY <2>2, <2>3, <1>1
    <3>2. seqs[i] = own[k]
      BY <3>1, <1>3
    <3>. QED
      BY <3>2, <2>2, <1>3
  <2>. HIDE DEF seqs
  <2>. QED
    BY <2>1, <2>4, <1>6
<1>. QED
  BY <1>4, <1>6, <1>7 DEF Ahead

\* A result follows those there are.
LEMMA Joining ==
  ASSUME Spacing, automation # None, automation' = automation,
         NEW results, ResultsTyped(results)', Len(results) < Len(automation.actions),
         FailedAt(results)' = {}, Brings(results)',
         NEW result \in ResultRow', NEW joined, joined = Append(results, result),
         result.task # None /\ HasRollback(Len(results) + 1)' =>
           \E u \in DOMAIN result.undo : RollsBack(result.undo[u], result.task)
  PROVE  /\ ResultsTyped(joined)' /\ Len(joined) = Len(results) + 1 /\ joined # <<>>
         /\ Brings(joined)'
         /\ FailedAt(joined)' \subseteq {Len(results) + 1}
         /\ Len(results) + 1 \in FailedAt(joined)' <=>
              /\ result.status = "dead_lettered"
              /\ automation.actions[Len(results) + 1].on_failure = "compensate"
<1>1. /\ Len(results) \in Nat /\ Len(automation.actions) \in Nat /\ results \in Seq(ResultRow')
  BY Plans DEF ResultsTyped
<1>2. /\ joined \in Seq(ResultRow') /\ Len(joined) = Len(results) + 1 /\ joined # <<>>
      /\ DOMAIN joined = 1 .. (Len(results) + 1) /\ DOMAIN results = 1 .. Len(results)
      /\ joined[Len(results) + 1] = result /\ \A k \in DOMAIN results : joined[k] = results[k]
  BY <1>1
<1>3. \A k \in DOMAIN joined : k \in DOMAIN results \/ k = Len(results) + 1
  BY <1>1, <1>2
<1>4. ResultsTyped(joined)'
  BY <1>1, <1>2 DEF ResultsTyped
<1>5. FailedAt(joined)' \subseteq {Len(results) + 1}
  BY <1>2, <1>3 DEF FailedAt
<1>6. Brings(joined)'
  <2>1. SUFFICES ASSUME NEW k \in DOMAIN joined, joined[k].task # None, HasRollback(k)'
                 PROVE  \E u \in DOMAIN joined[k].undo : RollsBack(joined[k].undo[u], joined[k].task)
    BY DEF Brings, Owed
  <2>2. CASE k \in DOMAIN results
    BY <2>1, <2>2, <1>2 DEF Brings, Owed
  <2>3. CASE k = Len(results) + 1
    BY <2>1, <2>3, <1>2
  <2>. QED
    BY <2>2, <2>3, <1>3
<1>7. /\ Len(results) + 1 \in FailedAt(joined)' <=>
           /\ result.status = "dead_lettered"
           /\ automation.actions[Len(results) + 1].on_failure = "compensate"
  <2>1. Len(results) + 1 \in DOMAIN joined
    BY <1>1, <1>2
  <2>. QED
    BY <2>1, <1>2 DEF FailedAt
<1>. QED
  BY <1>2, <1>4, <1>5, <1>6, <1>7

\* After an action: on to the next, or back to roll back what the results brought, or
\* to the end.
LEMMA ActedSound ==
  ASSUME Spacing, automation # None, automation' = automation, TasksTyped',
         NEW q, DOMAIN q = RequestFields, q.at = "acting", UndoSound(q)',
         NEW result \in ResultRow',
         result.task # None /\ HasRollback(Len(q.results) + 1)' =>
           \E u \in DOMAIN result.undo : RollsBack(result.undo[u], result.task),
         NEW p, p = Acted(q, result)
  PROVE  UndoSound(p)'
<1>1. PICK joined : joined = Append(q.results, result)
  OBVIOUS
<1>2. PICK number : number = Len(q.results) + 1
  OBVIOUS
<1>3. /\ ResultsTyped(q.results)' /\ Len(q.results) < Len(automation.actions)
      /\ FailedAt(q.results)' = {} /\ Brings(q.results)'
  BY DEF UndoSound
<1>4. /\ ResultsTyped(joined)' /\ Len(joined) = number /\ joined # <<>> /\ Brings(joined)'
      /\ FailedAt(joined)' \subseteq {number}
      /\ number \in FailedAt(joined)' <=>
           result.status = "dead_lettered" /\ automation.actions[number].on_failure = "compensate"
  BY <1>1, <1>2, <1>3, Joining
<1>5. /\ Len(q.results) \in Nat /\ Len(automation.actions) \in Nat
      /\ number <= Len(automation.actions) /\ number \in DOMAIN automation.actions
      /\ automation.actions[number] \in Action
  <2>1. Len(q.results) \in Nat
    BY <1>3 DEF ResultsTyped
  <2>. QED
    BY <2>1, <1>2, <1>3, Plans
<1>6. Current(q) = automation.actions[number]
  BY <1>2 DEF Current
<1>7. automation.actions[number].on_failure \in {"continue", "compensate", "stop"}
  BY <1>5 DEF Action
<1>8. result.status \in Failures <=> result.status = "dead_lettered"
  BY DEF ResultRow, Failures
<1>9. /\ joined \in Seq(ResultRow') /\ <<>> \in Seq(UndoRow')
  BY <1>4 DEF ResultsTyped
<1>10. CASE ~(result.status \in Failures /\ Halts(Current(q)))
  <2>1. p = [q EXCEPT !.results = joined, !.undo = <<>>, !.tried = 0,
               !.at = IF Len(joined) < Len(automation.actions) THEN "acting" ELSE "finished"]
    BY <1>10, <1>1 DEF Acted
  <2>2. FailedAt(joined)' = {}
    BY <1>4, <1>6, <1>7, <1>8, <1>10 DEF Halts
  <2>3. /\ p.results = joined /\ p.undo = <<>> /\ p.tried = 0
        /\ p.at = IF Len(joined) < Len(automation.actions) THEN "acting" ELSE "finished"
    BY <2>1 DEF RequestFields
  <2>. QED
    BY <2>2, <2>3, <1>4, <1>9 DEF UndoSound
<1>11. CASE /\ result.status \in Failures /\ Current(q).on_failure = "compensate"
            /\ PlannedUndo(joined) # <<>>
  <2>1. p = [q EXCEPT !.results = joined, !.undo = PlannedUndo(joined), !.tried = 0,
               !.at = "compensating"]
    BY <1>11, <1>1 DEF Acted, Halts
  <2>2. /\ p.results = joined /\ p.undo = PlannedUndo(joined) /\ p.tried = 0
        /\ p.at = "compensating"
    BY <2>1 DEF RequestFields
  <2>3. PlannedUndo(joined) \in Seq(UndoRow') /\ Ahead(joined, PlannedUndo(joined))'
    BY <1>4, <1>9, PlannedAhead
  <2>. QED
    BY <2>2, <2>3, <1>4, <1>11 DEF UndoSound
<1>12. CASE /\ result.status \in Failures /\ Halts(Current(q))
            /\ Current(q).on_failure = "compensate" => PlannedUndo(joined) = <<>>
  <2>1. PICK whole : whole = joined \o Skipped(joined)
    OBVIOUS
  <2>2. /\ ResultsTyped(whole)' /\ Len(whole) = Len(automation.actions)
        /\ Owed(whole)' = Owed(joined)' /\ FailedAt(whole)' = FailedAt(joined)'
        /\ Done(joined)' => Done(whole)'
    BY <2>1, <1>4, FilledUp
  <2>3. p = [q EXCEPT !.results = whole, !.undo = <<>>, !.tried = 0, !.at = "finished"]
    <3>1. Len(whole) < Len(automation.actions) <=> FALSE
      BY <2>2, <1>5
    <3>2. CASE Current(q).on_failure = "compensate"
      <4>1. PlannedUndo(joined) = <<>>
        BY <3>2, <1>12
      <4>. QED
        BY <1>12, <1>1, <2>1, <3>1, <3>2, <4>1 DEF Acted
    <3>3. CASE Current(q).on_failure # "compensate"
      BY <1>12, <1>1, <2>1, <3>1, <3>3 DEF Acted
    <3>. QED
      BY <3>2, <3>3
  <2>4. p.results = whole /\ p.undo = <<>> /\ p.tried = 0 /\ p.at = "finished"
    BY <2>3 DEF RequestFields
  <2>5. FailedAt(joined)' = {} \/ Done(joined)'
    <3>1. CASE Current(q).on_failure = "compensate"
      <4>1. Ahead(joined, <<>>)'
        BY <3>1, <1>4, <1>9, <1>12, PlannedAhead
      <4>. QED
        BY <4>1 DEF Ahead, Done
    <3>2. CASE Current(q).on_failure # "compensate"
      BY <3>2, <1>4, <1>6
    <3>. QED
      BY <3>1, <3>2
  <2>. QED
    BY <2>2, <2>4, <2>5, <1>9 DEF UndoSound
<1>. QED
  BY <1>10, <1>11, <1>12 DEF Halts

\* After a compensation: what the results still owe is ahead, or made.
LEMMA CompensatedSound ==
  ASSUME Spacing, automation # None, automation' = automation, TasksTyped',
         NEW q, DOMAIN q = RequestFields, q.at = "compensating", UndoSound(q)',
         Head(q.undo).type = "rollback_review_task" /\ Head(q.undo).task # None =>
           Resolved(Head(q.undo).task)',
         NEW result, NEW p, p = Compensated(q, result)
  PROVE  UndoSound(p)'
<1>1. PICK rest : rest = Tail(q.undo)
  OBVIOUS
<1>2. /\ ResultsTyped(q.results)' /\ q.undo \in Seq(UndoRow') /\ q.undo # <<>>
      /\ Ahead(q.results, q.undo)'
  BY DEF UndoSound
<1>3. /\ rest \in Seq(UndoRow')
      /\ \A u \in DOMAIN q.undo : \/ u = 1 /\ q.undo[u] = Head(q.undo)
                                  \/ u - 1 \in DOMAIN rest /\ q.undo[u] = rest[u - 1]
  BY <1>1, <1>2
<1>4. Ahead(q.results, rest)'
  <2>1. SUFFICES ASSUME NEW k \in Owed(q.results)', ~Resolved(q.results[k].task)'
                 PROVE  \E v \in DOMAIN rest : RollsBack(rest[v], q.results[k].task)
    BY DEF Ahead
  <2>2. PICK u \in DOMAIN q.undo : RollsBack(q.undo[u], q.results[k].task)
    BY <1>2, <2>1 DEF Ahead
  <2>3. q.results[k].task # None
    BY DEF Owed
  <2>4. ~(u = 1 /\ q.undo[u] = Head(q.undo))
    BY <2>1, <2>2, <2>3 DEF RollsBack
  <2>. QED
    BY <2>2, <2>4, <1>3
<1>5. CASE rest # <<>>
  <2>1. /\ p.results = q.results /\ p.undo = rest /\ p.tried = 0 /\ p.at = "compensating"
    BY <1>1, <1>5 DEF Compensated, RequestFields
  <2>. QED
    BY <2>1, <1>2, <1>3, <1>4, <1>5 DEF UndoSound
<1>6. CASE rest = <<>>
  <2>1. PICK whole : whole = q.results \o Skipped(q.results)
    OBVIOUS
  <2>2. p.results = whole /\ p.undo = <<>> /\ p.tried = 0 /\ p.at = "finished"
    BY <1>1, <1>6, <2>1 DEF Compensated, RequestFields
  <2>3. Done(q.results)'
    BY <1>4, <1>6 DEF Ahead, Done
  <2>4. ResultsTyped(whole)' /\ Done(whole)'
    BY <2>1, <2>3, <1>2, FilledUp
  <2>. QED
    BY <2>2, <2>4, <1>3, <1>6 DEF UndoSound
<1>. QED
  BY <1>5, <1>6

-----------------------------------------------------------------------------
(* The steps of a request. *)

\* However an attempt ends, what the run owes is accounted for.
LEMMA RollbackAttempted ==
  ASSUME Spacing, RollbackSound, NEW r \in RunThreads, NEW type, Attempts(r, type),
         NEW status \in {"succeeded", "skipped", "failed", "unsupported"}, NEW task \in Task',
         Settle(r, status, task), TasksTyped', TasksStay,
         /\ threads[r].at = "compensating"
         /\ Head(threads[r].undo).type = "rollback_review_task"
         /\ Head(threads[r].undo).task # None
         => reviews'[Head(threads[r].undo).task].status = "resolved"
  PROVE  RollbackSound'
<1>1. /\ threads[r] # None /\ RequestSound(threads[r]) /\ automation # None
      /\ threads[r].at \in {"acting", "compensating"}
      /\ UNCHANGED <<automation, runs>>
  BY InFlight DEF Attempts, world
<1>2. PICK q : q = threads[r]
  OBVIOUS
<1>3. DOMAIN q = RequestFields /\ UndoSound(q)'
  <2>1. UndoSound(q)
    BY <1>1, <1>2 DEF RollbackSound
  <2>. QED
    BY <2>1, <1>1, <1>2, UndoStays DEF RequestSound
<1>4. q.tried \in Nat
  BY <1>3 DEF UndoSound
<1>5. CASE TriesAgain(q, status)
  <2>1. PICK p : p = [q EXCEPT !.tried = @ + 1]
    OBVIOUS
  <2>2. Step(r, p)
    BY <1>2, <1>5, <2>1 DEF Settle
  <2>3. /\ p.at = q.at /\ p.results = q.results /\ p.undo = q.undo /\ p.tried = q.tried + 1
    BY <2>1, <1>3 DEF RequestFields
  <2>4. UndoSound(p)'
    BY <2>3, <1>3, <1>4 DEF UndoSound
  <2>. QED
    BY <2>2, <2>4, <1>1, RollbackGoesOn
<1>6. CASE ~TriesAgain(q, status) /\ q.at = "acting"
  <2>1. PICK number : number = Len(q.results) + 1
    OBVIOUS
  <2>2. PICK plan : plan = automation.actions[number].undo
    OBVIOUS
  <2>3. Current(q).undo = plan /\ plan \in Seq(Compensation)
    <3>1. number \in DOMAIN automation.actions
      BY <2>1, <1>1, <1>3, <1>6, Plans DEF UndoSound, ResultsTyped
    <3>2. automation.actions[number] \in Action
      BY <3>1, <1>1, Plans
    <3>3. Current(q) = automation.actions[number]
      BY <2>1, <1>6 DEF Current
    <3>. QED
      BY <3>2, <3>3, <2>2 DEF Action
  <2>4. PICK undo : undo = [i \in DOMAIN plan |-> [type |-> plan[i].type, task |-> task,
                                                  attempts |-> plan[i].attempts]]
    OBVIOUS
  <2>5. PICK settled : settled = IF status \in Failures THEN "dead_lettered" ELSE status
    OBVIOUS
  <2>6. PICK result : result = [status |-> settled, task |-> task, tries |-> q.tried + 1,
                                undo |-> undo]
    OBVIOUS
  <2>7. undo \in Seq(UndoRow')
    <3>1. \A i \in DOMAIN plan : plan[i] \in Compensation
      BY <2>3
    <3>2. \A i \in DOMAIN plan : undo[i] \in UndoRow'
      BY <3>1, <2>4 DEF Compensation, UndoRow
    <3>3. DOMAIN plan = 1 .. Len(plan) /\ Len(plan) \in Nat
      BY <2>3
    <3>. QED
      BY <3>2, <3>3, <2>4
  <2>8. result \in ResultRow'
    BY <2>5, <2>6, <2>7, <1>4 DEF ResultRow, Failures
  <2>9. PICK p : p = Acted(q, result)
    OBVIOUS
  <2>10. Step(r, p)
    BY <1>2, <1>6, <2>3, <2>4, <2>5, <2>6, <2>9 DEF Settle
  <2>11. ASSUME result.task # None, HasRollback(number)'
         PROVE  \E u \in DOMAIN result.undo : RollsBack(result.undo[u], result.task)
    <3>1. PICK u \in DOMAIN plan : plan[u].type = "rollback_review_task"
      BY <2>11, <1>1, <2>2 DEF HasRollback
    <3>2. u \in DOMAIN undo /\ RollsBack(undo[u], task)
      BY <3>1, <2>4 DEF RollsBack
    <3>. QED
      BY <3>2, <2>6
  <2>12. UndoSound(p)'
    BY <2>1, <2>8, <2>9, <2>11, <1>1, <1>3, <1>6, ActedSound
  <2>. QED
    BY <2>10, <2>12, <1>1, RollbackGoesOn
<1>7. CASE ~TriesAgain(q, status) /\ q.at # "acting"
  <2>1. PICK result : Step(r, Compensated(q, result))
    BY <1>2, <1>7 DEF Settle
  <2>2. PICK p : p = Compensated(q, result)
    OBVIOUS
  <2>3. q.at = "compensating"
    BY <1>1, <1>2, <1>7
  <2>4. Head(q.undo).type = "rollback_review_task" /\ Head(q.undo).task # None
        => Resolved(Head(q.undo).task)'
    BY <1>2, <2>3 DEF Resolved
  <2>5. UndoSound(p)'
    BY <2>2, <2>3, <2>4, <1>1, <1>3, CompensatedSound
  <2>. QED
    BY <2>1, <2>2, <2>5, <1>1, RollbackGoesOn
<1>. QED
  BY <1>5, <1>6, <1>7

\* What is added to the tasks, or resolves one, leaves the others.
LEMMA TaskAdded ==
  ASSUME TasksTyped, NEW row, DOMAIN row = {"status", "decision", "run", "key"},
         reviews' = Append(reviews, row)
  PROVE  TasksTyped' /\ TasksStay /\ Len(reviews') \in DOMAIN reviews'
<1>1. PICK S : reviews \in Seq(S)
  BY DEF TasksTyped
<1>2. /\ reviews' \in Seq(S \union {row})
      /\ DOMAIN reviews = 1 .. Len(reviews) /\ DOMAIN reviews' = 1 .. Len(reviews')
      /\ Len(reviews') = Len(reviews) + 1 /\ Len(reviews) \in Nat
      /\ \A n \in DOMAIN reviews : reviews'[n] = reviews[n]
      /\ reviews'[Len(reviews) + 1] = row
  <2>1. reviews \in Seq(S \union {row})
    BY <1>1
  <2>. QED
    BY <2>1
<1>. QED
  BY <1>2 DEF TasksTyped, TasksStay, Resolved

LEMMA TaskResolved ==
  ASSUME TasksTyped, NEW n \in DOMAIN reviews, NEW row,
         DOMAIN row = {"status", "decision", "run", "key"}, row.status = "resolved",
         reviews' = [reviews EXCEPT ![n] = row]
  PROVE  TasksTyped' /\ TasksStay /\ Resolved(n)'
<1>1. PICK S : reviews \in Seq(S)
  BY DEF TasksTyped
<1>2. /\ reviews' \in Seq(S \union {row}) /\ DOMAIN reviews' = DOMAIN reviews
      /\ \A k \in DOMAIN reviews : reviews'[k] = IF k = n THEN row ELSE reviews[k]
  <2>1. /\ DOMAIN reviews = 1 .. Len(reviews) /\ Len(reviews) \in Nat
        /\ \A k \in DOMAIN reviews : reviews[k] \in S
    BY <1>1
  <2>2. reviews' \in [1 .. Len(reviews) -> S \union {row}]
    BY <2>1
  <2>. QED
    BY <2>1, <2>2
<1>. QED
  BY <1>2 DEF TasksTyped, TasksStay, Resolved

LEMMA TasksSame ==
  ASSUME TasksTyped, reviews' = reviews
  PROVE  TasksTyped' /\ TasksStay /\ None \in Task'
BY DEF TasksTyped, TasksStay, Resolved, Task

\* Every attempt: the one that rolls a task back resolves it, and the others leave
\* what is ahead ahead.
LEMMA RollbackAttempts ==
  ASSUME Spacing, RollbackSound, NEW r \in RunThreads,
         \/ CreateTask(r) \/ RollbackTask(r) \/ AddExample(r) \/ CommitRoute(r)
         \/ Preview(r) \/ Undelivered(r) \/ PostNotification(r) \/ Unsupported(r)
  PROVE  RollbackSound'
<1>1. TasksTyped
  BY DEF RollbackSound
<1>2. ASSUME NEW type, Attempts(r, type), threads[r].at = "compensating", type # "rollback_review_task"
      PROVE  Head(threads[r].undo).type # "rollback_review_task"
  BY <1>2 DEF Attempts, Current
<1>3. CASE CreateTask(r)
  <2>1. TasksTyped' /\ TasksStay /\ Len(reviews') \in DOMAIN reviews'
    BY <1>1, <1>3, TaskAdded DEF CreateTask
  <2>2. Len(reviews') \in Task'
    BY <2>1 DEF Task
  <2>. QED
    BY <1>2, <1>3, <2>1, <2>2, RollbackAttempted DEF CreateTask
<1>4. CASE RollbackTask(r)
  <2>1. PICK task : task = IF threads[r].at = "compensating" THEN Current(threads[r]).task ELSE None
    OBVIOUS
  <2>2. CASE task = None
    <3>1. Settle(r, "skipped", None) /\ reviews' = reviews /\ Attempts(r, "rollback_review_task")
      BY <1>4, <2>1, <2>2 DEF RollbackTask
    <3>2. TasksTyped' /\ TasksStay /\ None \in Task'
      BY <3>1, <1>1, TasksSame
    <3>3. threads[r].at = "compensating" => Head(threads[r].undo).task = None
      BY <2>1, <2>2 DEF Current
    <3>. QED
      BY <3>1, <3>2, <3>3, RollbackAttempted
  <2>3. CASE task # None
    <3>1. /\ reviews' = [reviews EXCEPT ![task] = RolledBack(reviews[task])]
          /\ Settle(r, "succeeded", task) /\ Attempts(r, "rollback_review_task")
      BY <1>4, <2>1, <2>3 DEF RollbackTask
    <3>2. threads[r].at = "compensating" /\ task = Head(threads[r].undo).task
      BY <2>1, <2>3 DEF Current
    <3>3. task \in DOMAIN reviews
      <4>1. UndoSound(threads[r])
        BY <3>1 DEF RollbackSound, Attempts
      <4>2. Head(threads[r].undo) \in UndoRow
        BY <4>1, <3>2 DEF UndoSound
      <4>. QED
        BY <4>2, <3>2, <2>3 DEF UndoRow, Task
    <3>4. PICK row : row = RolledBack(reviews[task])
      OBVIOUS
    <3>5. DOMAIN row = {"status", "decision", "run", "key"} /\ row.status = "resolved"
      BY <3>3, <3>4, <1>1 DEF RolledBack, TasksTyped
    <3>6. TasksTyped' /\ TasksStay /\ reviews'[task].status = "resolved"
      BY <3>1, <3>3, <3>4, <3>5, <1>1, TaskResolved DEF Resolved
    <3>7. task \in Task'
      BY <3>3, <3>6 DEF Task, TasksStay
    <3>. QED
      BY <3>1, <3>2, <3>6, <3>7, RollbackAttempted
  <2>. QED
    BY <2>2, <2>3
<1>5. ASSUME NEW type, Attempts(r, type), type # "rollback_review_task", reviews' = reviews,
             NEW status \in {"succeeded", "skipped", "failed", "unsupported"},
             Settle(r, status, None)
      PROVE  RollbackSound'
  <2>1. TasksTyped' /\ TasksStay /\ None \in Task'
    BY <1>1, <1>5, TasksSame
  <2>. QED
    BY <2>1, <1>2, <1>5, RollbackAttempted
<1>6. CASE AddExample(r)
  <2>1. \E status \in {"succeeded", "skipped", "failed"} : Settle(r, status, None)
    BY <1>6 DEF AddExample
  <2>. QED
    BY <2>1, <1>5, <1>6 DEF AddExample
<1>7. CASE CommitRoute(r)
  BY <1>5, <1>7 DEF CommitRoute
<1>8. CASE Preview(r)
  <2>1. \E status \in {"succeeded", "failed"} : Settle(r, status, None)
    BY <1>8 DEF Preview
  <2>. QED
    BY <2>1, <1>5, <1>8 DEF Preview, effects
<1>9. CASE Undelivered(r)
  <2>1. \E status \in {"succeeded", "failed"} : Settle(r, status, None)
    BY <1>9 DEF Undelivered
  <2>. QED
    BY <2>1, <1>5, <1>9 DEF Undelivered, effects
<1>10. CASE PostNotification(r)
  <2>1. \E status \in {"succeeded", "failed"} : Settle(r, status, None)
    BY <1>10 DEF PostNotification
  <2>. QED
    BY <2>1, <1>5, <1>10 DEF PostNotification
<1>11. CASE Unsupported(r)
  BY <1>5, <1>11 DEF Unsupported, effects
<1>. QED
  BY <1>3, <1>4, <1>6, <1>7, <1>8, <1>9, <1>10, <1>11

\* Up to its actions a request owes nothing.
LEMMA RollbackReads ==
  ASSUME Spacing, RollbackSound, NEW r \in RunThreads,
         \/ \E t, key : BeginRun(r, t, key)
         \/ ReadTriggerTrace(r) \/ ReadCooldown(r)
  PROVE  RollbackSound'
<1>1. reviews' = reviews /\ UNCHANGED <<automation, runs>>
  BY DEF BeginRun, ReadTriggerTrace, ReadCooldown, world, effects
<1>2. TasksTyped' /\ TasksStay
  BY <1>1, TasksSame DEF RollbackSound
<1>3. automation # None
  BY InFlight DEF BeginRun, ReadTriggerTrace, ReadCooldown, ThreadAt
<1>4. Len(automation.actions) \in Nat
  BY <1>3, Plans
<1>5. ASSUME NEW q, q.results = <<>>, q.undo = <<>>, q.tried = 0,
             q.at \in {"begun", "triggered", "acting", "finished"},
             q.at = "acting" => automation.actions # <<>>
      PROVE  UndoSound(q)'
  <2>1. ResultsTyped(<<>>)' /\ FailedAt(<<>>)' = {} /\ Brings(<<>>)' /\ <<>> \in Seq(UndoRow')
    BY <1>1, <1>4 DEF ResultsTyped, FailedAt, Brings, Owed
  <2>2. q.at = "acting" => 0 < Len(automation.actions)
    BY <1>5, <1>3, Plans
  <2>. QED
    BY <2>1, <2>2, <1>1, <1>5 DEF UndoSound
<1>6. ASSUME NEW t, NEW key, BeginRun(r, t, key)
      PROVE  RollbackSound'
  <2>1. PICK q : /\ Step(r, q) /\ q.at = "begun" /\ q.results = <<>> /\ q.undo = <<>>
                 /\ q.tried = 0
    BY <1>6 DEF BeginRun
  <2>. QED
    BY <2>1, <1>1, <1>2, <1>5, RollbackGoesOn
<1>7. CASE ReadTriggerTrace(r)
  <2>1. PICK p : p = threads[r]
    OBVIOUS
  <2>2. p # None /\ p.at = "begun" /\ DOMAIN p = RequestFields /\ UndoSound(p)
    BY <2>1, <1>7, InFlight DEF ReadTriggerTrace, ThreadAt, RollbackSound, RequestSound
  <2>3. PICK status : Step(r, [p EXCEPT !.at = "triggered", !.now = time, !.status = status])
    BY <2>1, <1>7 DEF ReadTriggerTrace
  <2>4. PICK q : q = [p EXCEPT !.at = "triggered", !.now = time, !.status = status]
    OBVIOUS
  <2>5. q.at = "triggered" /\ q.results = p.results /\ q.undo = p.undo /\ q.tried = p.tried
    BY <2>2, <2>4 DEF RequestFields
  <2>6. UndoSound(p)'
    BY <2>2, <1>1, <1>2, UndoStays
  <2>7. UndoSound(q)'
    BY <2>2, <2>5, <2>6 DEF UndoSound
  <2>. QED
    BY <2>3, <2>4, <2>7, <1>1, <1>2, RollbackGoesOn
<1>8. CASE ReadCooldown(r)
  <2>1. PICK p : p = threads[r]
    OBVIOUS
  <2>2. p # None /\ p.at = "triggered" /\ DOMAIN p = RequestFields /\ UndoSound(p)
    BY <2>1, <1>8, InFlight DEF ReadCooldown, ThreadAt, RollbackSound, RequestSound
  <2>3. PICK status, at :
          /\ Step(r, [p EXCEPT !.status = status, !.seen = Len(runs), !.at = at])
          /\ at = IF status = None /\ automation.actions # <<>> THEN "acting" ELSE "finished"
    BY <2>1, <1>8 DEF ReadCooldown
  <2>4. PICK q : q = [p EXCEPT !.status = status, !.seen = Len(runs), !.at = at]
    OBVIOUS
  <2>5. q.at = at /\ q.results = <<>> /\ q.undo = p.undo /\ q.tried = p.tried
    BY <2>2, <2>4 DEF RequestFields, UndoSound
  <2>6. UndoSound(p)'
    BY <2>2, <1>1, <1>2, UndoStays
  <2>7. ResultsTyped(<<>>)' /\ FailedAt(<<>>)' = {} /\ Brings(<<>>)'
    BY <1>1, <1>4 DEF ResultsTyped, FailedAt, Brings, Owed
  <2>8. at = "acting" => 0 < Len(automation.actions)
    BY <2>3, <1>3, Plans
  <2>9. UndoSound(q)'
    BY <2>2, <2>3, <2>5, <2>6, <2>7, <2>8, <1>1 DEF UndoSound
  <2>. QED
    BY <2>3, <2>4, <2>9, <1>1, <1>2, RollbackGoesOn
<1>. QED
  BY <1>6, <1>7, <1>8

-----------------------------------------------------------------------------
(* The record, and every other step. *)

LEMMA RollbackRecorded ==
  ASSUME Spacing, RollbackSound, NEW r \in RunThreads, RecordRun(r)
  PROVE  RollbackSound'
<1>1. /\ threads[r] # None /\ RequestSound(threads[r]) /\ threads[r].at = "finished"
      /\ automation # None /\ automation' = automation /\ reviews' = reviews
  BY InFlight DEF RecordRun, ThreadAt, world, effects
<1>2. TasksTyped' /\ TasksStay
  BY <1>1, TasksSame DEF RollbackSound
<1>3. CASE Taken(threads[r].key)
  <2>1. Step(r, None) /\ runs' = runs
    BY <1>3 DEF RecordRun
  <2>. QED
    BY <2>1, <1>1, <1>2, RollbackGoesOn
<1>4. CASE ~Taken(threads[r].key)
  <2>1. PICK p : p = threads[r]
    OBVIOUS
  <2>2. DOMAIN p = RequestFields /\ UndoSound(p)' /\ p.at = "finished"
        /\ p.status \in {None, "skipped_conditions", "skipped_cooldown"}
    <3>1. UndoSound(p)
      BY <2>1, <1>1 DEF RollbackSound
    <3>. QED
      BY <2>1, <3>1, <1>1, <1>2, UndoStays DEF RequestSound
  <2>3. PICK row : /\ runs' = Append(runs, row) /\ row.results = p.results
                   /\ row.status = IF p.status # None THEN p.status ELSE RunStatus(p.results)
    BY <1>4, <2>1 DEF RecordRun
  <2>4. PICK q : q = [p EXCEPT !.at = "recorded"]
    OBVIOUS
  <2>5. Step(r, q)
    BY <1>4, <2>1, <2>4 DEF RecordRun
  <2>6. UndoSound(q)'
    <3>1. q.at = "recorded" /\ q.results = p.results /\ q.undo = p.undo /\ q.tried = p.tried
      BY <2>2, <2>4 DEF RequestFields
    <3>. QED
      BY <3>1, <2>2 DEF UndoSound
  <2>7. RowSound(row)'
    <3>1. ResultsTyped(p.results)' /\ (FailedAt(p.results)' = {} \/ Done(p.results)')
      BY <2>2 DEF UndoSound
    <3>2. ASSUME FailedAt(p.results)' # {}
          PROVE  row.status # "succeeded"
      <4>1. \E j \in DOMAIN p.results : p.results[j].status \in Failures
        BY <3>2 DEF FailedAt, Failures
      <4>2. RunStatus(p.results) # "succeeded"
        BY <4>1 DEF RunStatus
      <4>. QED
        BY <4>2, <2>2, <2>3
    <3>. QED
      BY <3>1, <3>2, <2>3 DEF RowSound
  <2>8. ASSUME NEW i \in DOMAIN runs'
        PROVE  RowSound(runs[i])'
    <3>1. PICK w : w = runs'[i]
      OBVIOUS
    <3>2. w = row \/ \E k \in DOMAIN runs : w = runs[k]
      <4>1. PICK S : runs \in Seq(S)
        BY DEF Spacing, RunsRead
      <4>. QED
        BY <4>1, <3>1, <2>3, <2>8
    <3>3. RowSound(w)'
      BY <3>2, <2>7, <1>1, <1>2, RowStays DEF RollbackSound
    <3>. QED
      BY <3>1, <3>3 DEF RowSound, ResultsTyped, FailedAt, Done, Owed
  <2>9. ASSUME NEW s \in RunThreads, threads'[s] # None
        PROVE  UndoSound(threads[s])'
    <3>1. PICK x : x = threads'[s]
      OBVIOUS
    <3>2. x = IF s = r THEN q ELSE threads[s]
      BY <3>1, <2>5, Stepped DEF Spacing
    <3>3. UndoSound(x)'
      BY <3>1, <3>2, <2>6, <2>9, <1>1, <1>2, UndoStays DEF RollbackSound
    <3>. QED
      BY <3>1, <3>3 DEF UndoSound, ResultsTyped, FailedAt, Done, Owed, Brings, Ahead
  <2>. QED
    BY <1>2, <2>8, <2>9 DEF RollbackSound
<1>. QED
  BY <1>3, <1>4

\* Tasks may be resolved by reviewers, and nothing else of it changes by what
\* operators do.
LEMMA RollbackAround ==
  ASSUME RollbackSound, UNCHANGED <<automation, threads, runs>>, TasksTyped', TasksStay
  PROVE  RollbackSound'
<1>1. ASSUME NEW i \in DOMAIN runs'
      PROVE  RowSound(runs[i])'
  <2>1. PICK row : row = runs[i] /\ runs'[i] = row
    OBVIOUS
  <2>2. RowSound(row)'
    BY <2>1, RowStays DEF RollbackSound
  <2>. QED
    BY <2>1, <2>2 DEF RowSound, ResultsTyped, FailedAt, Done, Owed
<1>2. ASSUME NEW s \in RunThreads, threads'[s] # None
      PROVE  UndoSound(threads[s])'
  <2>1. PICK p : p = threads[s] /\ threads'[s] = p
    OBVIOUS
  <2>2. UndoSound(p)'
    BY <1>2, <2>1, UndoStays DEF RollbackSound
  <2>. QED
    BY <2>1, <2>2 DEF UndoSound, ResultsTyped, FailedAt, Done, Owed, Brings, Ahead
<1>. QED
  BY <1>1, <1>2 DEF RollbackSound

LEMMA RollbackDecided ==
  ASSUME RollbackSound, NEW i \in DOMAIN reviews, DecideReview(i)
  PROVE  RollbackSound'
<1>1. PICK row : row = [reviews[i] EXCEPT !.status = "resolved", !.decision = "accepted"]
  OBVIOUS
<1>2. DOMAIN row = {"status", "decision", "run", "key"} /\ row.status = "resolved"
  BY <1>1 DEF RollbackSound, TasksTyped
<1>3. reviews' = [reviews EXCEPT ![i] = row]
  BY <1>1 DEF DecideReview
<1>4. TasksTyped' /\ TasksStay
  BY <1>2, <1>3, TaskResolved DEF RollbackSound
<1>. QED
  BY <1>4, RollbackAround DEF DecideReview, world

LEMMA RollbackStep ==
  ASSUME Spacing, RollbackSound, AutomationNext
  PROVE  RollbackSound'
<1>1. ASSUME NEW d \in Definitions, CreateAutomation(d)
      PROVE  RollbackSound'
  <2>1. /\ runs = <<>> /\ runs' = runs /\ threads' = threads /\ reviews' = reviews
        /\ \A r \in RunThreads : threads[r] = None
    BY <1>1 DEF Spacing, Settled, CreateAutomation, effects
  <2>. QED
    BY <2>1, TasksSame DEF RollbackSound
<1>2. CASE \/ \E row \in TargetRows : CreateTarget(row)
           \/ LoseSecret \/ PassTime
           \/ \E t \in TriggerTraces, status \in {"ok", "error", None} : StoreTrace(t, status)
  <2>1. UNCHANGED <<automation, threads, runs>> /\ reviews' = reviews
    BY <1>2 DEF CreateTarget, LoseSecret, PassTime, StoreTrace, effects
  <2>. QED
    BY <2>1, TasksSame, RollbackAround DEF RollbackSound
<1>3. ASSUME NEW i \in DOMAIN reviews, DecideReview(i)
      PROVE  RollbackSound'
  BY <1>3, RollbackDecided
<1>4. ASSUME NEW r \in RunThreads, Requested(r)
      PROVE  RollbackSound'
  <2>1. CASE AuditRun(r) \/ RunStops(r)
    <3>1. Step(r, None) /\ reviews' = reviews /\ UNCHANGED <<automation, runs>>
      BY <2>1 DEF AuditRun, RunStops, world, effects
    <3>. QED
      BY <3>1, TasksSame, RollbackGoesOn DEF RollbackSound
  <2>. QED
    BY <1>4, <2>1, RollbackReads, RollbackAttempts, RollbackRecorded DEF Requested, ContinueRun
<1>5. \/ \E d \in Definitions : CreateAutomation(d)
      \/ \/ \E row \in TargetRows : CreateTarget(row)
         \/ LoseSecret \/ PassTime
         \/ \E t \in TriggerTraces, status \in {"ok", "error", None} : StoreTrace(t, status)
      \/ \E i \in DOMAIN reviews : DecideReview(i)
      \/ \E r \in RunThreads : Requested(r)
  BY DEF AutomationNext, Requested
<1>. QED
  BY <1>1, <1>2, <1>3, <1>4, <1>5

\* What is resolved, or still to be, is so in every behavior.
LEMMA RollbackAlways == AutomationSpec => []RollbackSound
<1>1. AutomationInit => RollbackSound
  BY DEF AutomationInit, RollbackSound, TasksTyped
<1>2. Spacing /\ RollbackSound /\ [AutomationNext]_automationVars => RollbackSound'
  <2>1. RollbackSound /\ UNCHANGED automationVars => RollbackSound'
    BY TasksSame, RollbackAround DEF automationVars, RollbackSound
  <2>. QED
    BY <2>1, RollbackStep
<1>. QED
  BY <1>1, <1>2, SpacingAlways, PTL DEF AutomationSpec

\* A recorded run that compensated resolved each task it had created for which a
\* rollback is configured, whatever its plan, its retries, the compensations that fail
\* and the reviewers that decide meanwhile; and its failure is in the record (main.py,
\* _execute_automation_actions and _planned_compensation_actions).
THEOREM Compensations == AutomationSpec => []CompensationComplete
<1>1. RollbackSound => CompensationComplete
  <2>1. SUFFICES ASSUME RollbackSound, NEW i \in Executed, NEW j \in CompensatedAt(runs[i]),
                        NEW k \in 1 .. j, runs[i].results[k].task # None, HasRollback(k)
                 PROVE  /\ reviews[runs[i].results[k].task].status = "resolved"
                        /\ runs[i].status # "succeeded"
    BY DEF CompensationComplete, HasRollback
  <2>2. RowSound(runs[i])
    BY <2>1 DEF Executed, RollbackSound
  <2>3. j \in FailedAt(runs[i].results)
    BY <2>1 DEF CompensatedAt, FailedAt
  <2>4. k \in DOMAIN runs[i].results
    <3>1. j \in DOMAIN runs[i].results
      BY <2>3 DEF FailedAt
    <3>2. runs[i].results \in Seq(ResultRow)
      BY <2>2 DEF RowSound, ResultsTyped
    <3>. QED
      BY <3>1, <3>2
  <2>. QED
    BY <2>1, <2>2, <2>3, <2>4 DEF RowSound, Done, Owed, Resolved
<1>. QED
  BY <1>1, RollbackAlways, PTL

-----------------------------------------------------------------------------
(* What a run accounts for: tasks and POSTs. *)

\* Flattened, a sequence of sequences is what joins them all.
LEMMA FlattenedIs ==
  ASSUME NEW S, NEW seqs \in Seq(Seq(S)), seqs # <<>>
  PROVE  /\ Len(seqs) \in Nat \ {0} /\ DOMAIN seqs = 1 .. Len(seqs)
         /\ \A i \in 1 .. Len(seqs) : seqs[i] \in Seq(S)
         /\ \E g : /\ FlattenSeq(seqs) = g[Len(seqs)] /\ g[1] = seqs[1]
                   /\ \A i \in 2 .. Len(seqs) : g[i] = g[i - 1] \o seqs[i]
                   /\ \A i \in 1 .. Len(seqs) : g[i] \in Seq(S)
<1>1. Len(seqs) \in Nat \ {0} /\ DOMAIN seqs = 1 .. Len(seqs)
      /\ \A i \in 1 .. Len(seqs) : seqs[i] \in Seq(S)
  OBVIOUS
<1>2. PICK h : Joins(h, seqs, Len(seqs))
  BY <1>1, JoinsExists
<1>3. PICK g : Joins(g, seqs, Len(seqs)) /\ FlattenSeq(seqs) = g[Len(seqs)]
  <2>. DEFINE f == CHOOSE f : f = [i \in 1 .. Len(seqs) |->
                                     IF i = 1 THEN seqs[i] ELSE f[i - 1] \o seqs[i]]
  <2>1. f = [i \in 1 .. Len(seqs) |-> IF i = 1 THEN seqs[i] ELSE f[i - 1] \o seqs[i]]
    BY <1>2 DEF Joins
  <2>2. FlattenSeq(seqs) = f[Len(seqs)]
    BY <1>1 DEF FlattenSeq
  <2>. QED
    BY <2>1, <2>2 DEF Joins
<1>4. PICK n \in Nat \ {0} : n = Len(seqs)
  BY <1>1
<1>5. g[1] = seqs[1] /\ \A i \in 2 .. n : g[i] = g[i - 1] \o seqs[i]
  <2>1. 1 \in 1 .. n /\ \A i \in 2 .. n : i \in 1 .. n /\ i # 1
    OBVIOUS
  <2>2. \A i \in 1 .. n : g[i] = IF i = 1 THEN seqs[i] ELSE g[i - 1] \o seqs[i]
    BY <1>3, <1>4 DEF Joins
  <2>. QED
    BY <2>1, <2>2
<1>. DEFINE T == {i \in Nat : i \in 1 .. n /\ g[i] \notin Seq(S)}
<1>6. T = {}
  <2>1. SUFFICES ASSUME T # {} PROVE FALSE
    OBVIOUS
  <2>2. PICK m \in T : \A k \in T : m <= k
    BY <2>1, Smallest
  <2>3. m # 1
    BY <2>2, <1>1, <1>4, <1>5
  <2>4. m \in 2 .. n /\ m - 1 \in 1 .. n /\ m - 1 \in Nat
    BY <2>2, <2>3
  <2>5. g[m - 1] \in Seq(S)
    BY <2>2, <2>4
  <2>6. g[m] = g[m - 1] \o seqs[m] /\ seqs[m] \in Seq(S)
    BY <2>4, <1>1, <1>4, <1>5
  <2>7. g[m] \in Seq(S)
    BY <2>5, <2>6
  <2>. QED
    BY <2>2, <2>7
<1>7. ASSUME NEW i \in 1 .. n
      PROVE  g[i] \in Seq(S)
  <2>1. i \in Nat /\ i \notin T
    BY <1>6
  <2>. QED
    BY <2>1
<1>. QED
  BY <1>1, <1>3, <1>4, <1>5, <1>7

\* It has nothing else.
LEMMA FlattenedOnly ==
  ASSUME NEW S, NEW seqs \in Seq(Seq(S)), seqs # <<>>
  PROVE  \A v \in DOMAIN FlattenSeq(seqs) :
           \E i \in DOMAIN seqs : \E u \in DOMAIN seqs[i] : FlattenSeq(seqs)[v] = seqs[i][u]
<1>1. /\ Len(seqs) \in Nat \ {0} /\ DOMAIN seqs = 1 .. Len(seqs)
      /\ \A i \in 1 .. Len(seqs) : seqs[i] \in Seq(S)
  BY FlattenedIs
<1>2. PICK n \in Nat \ {0} : n = Len(seqs)
  BY <1>1
<1>3. PICK g : /\ FlattenSeq(seqs) = g[n] /\ g[1] = seqs[1]
               /\ \A i \in 2 .. n : g[i] = g[i - 1] \o seqs[i]
               /\ \A i \in 1 .. n : g[i] \in Seq(S)
  BY <1>2, FlattenedIs
<1>. DEFINE Only(k) == \A v \in DOMAIN g[k] :
                         \E i \in 1 .. k : \E u \in DOMAIN seqs[i] : g[k][v] = seqs[i][u]
            T == {k \in Nat : k \in 1 .. n /\ ~Only(k)}
<1>4. T = {}
  <2>1. SUFFICES ASSUME T # {} PROVE FALSE
    OBVIOUS
  <2>2. PICK m \in T : \A k \in T : m <= k
    BY <2>1, Smallest
  <2>3. m # 1
    <3>1. Only(1)
      BY <1>3
    <3>. QED
      BY <2>2, <3>1
  <2>4. PICK k \in 1 .. n : k = m - 1 /\ k \in Nat /\ m \in 2 .. n /\ k < m
    BY <2>2, <2>3
  <2>5. Only(k)
    <3>1. k \notin T
      BY <2>2, <2>4
    <3>. HIDE DEF Only
    <3>. QED
      BY <2>4, <3>1
  <2>6. PICK a \in Seq(S), b \in Seq(S) : a = g[k] /\ b = seqs[m] /\ g[m] = a \o b
    BY <2>4, <1>1, <1>2, <1>3
  <2>7. \A v \in DOMAIN (a \o b) : \/ v \in DOMAIN a /\ (a \o b)[v] = a[v]
                                   \/ v - Len(a) \in DOMAIN b /\ (a \o b)[v] = b[v - Len(a)]
    OBVIOUS
  <2>8. ASSUME NEW v \in DOMAIN g[m]
        PROVE  \E i \in 1 .. m : \E u \in DOMAIN seqs[i] : g[m][v] = seqs[i][u]
    <3>1. CASE v \in DOMAIN a /\ g[m][v] = a[v]
      <4>1. PICK i \in 1 .. k : \E u \in DOMAIN seqs[i] : a[v] = seqs[i][u]
        BY <3>1, <2>5, <2>6
      <4>2. i \in 1 .. m
        BY <2>4
      <4>. QED
        BY <3>1, <4>1, <4>2
    <3>2. CASE v - Len(a) \in DOMAIN b /\ g[m][v] = b[v - Len(a)]
      <4>1. m \in 1 .. m
        BY <2>4
      <4>. QED
        BY <3>2, <4>1, <2>6
    <3>. QED
      BY <3>1, <3>2, <2>6, <2>7
  <2>. QED
    BY <2>2, <2>8
<1>5. Only(n)
  <2>1. n \in Nat /\ n \in 1 .. n /\ n \notin T
    BY <1>4
  <2>. HIDE DEF Only
  <2>. QED
    BY <2>1
<1>6. PICK whole : whole = FlattenSeq(seqs) /\ whole = g[n]
  BY <1>3
<1>7. ASSUME NEW v \in DOMAIN whole
      PROVE  \E i \in DOMAIN seqs : \E u \in DOMAIN seqs[i] : whole[v] = seqs[i][u]
  <2>1. PICK i \in 1 .. n : \E u \in DOMAIN seqs[i] : whole[v] = seqs[i][u]
    BY <1>5, <1>6, <1>7
  <2>2. i \in DOMAIN seqs
    BY <1>1, <1>2
  <2>. QED
    BY <2>1, <2>2
<1>8. ASSUME NEW v \in DOMAIN FlattenSeq(seqs)
      PROVE  \E i \in DOMAIN seqs : \E u \in DOMAIN seqs[i] : FlattenSeq(seqs)[v] = seqs[i][u]
  <2>1. v \in DOMAIN whole
    BY <1>6, Zenon
  <2>2. PICK i \in DOMAIN seqs : \E u \in DOMAIN seqs[i] : whole[v] = seqs[i][u]
    BY <2>1, <1>7, Zenon
  <2>3. whole[v] = FlattenSeq(seqs)[v]
    BY <1>6, Zenon
  <2>. QED
    BY <2>2, <2>3, Zenon
<1>. QED
  BY <1>8, Zenon

-----------------------------------------------------------------------------
(* The POSTs that a list is allowed. *)

\* The POSTs that each action of a list is allowed.
Posted(list) == [i \in DOMAIN list |-> PostsOf(list[i])]

\* A fold over the places of a list is the sum of what it folds.
LEMMA Folded ==
  ASSUME NEW n \in Nat, NEW w \in [1 .. n -> Nat], NEW g, SumAsFolded(g, 1 .. n, w)
  PROVE  SumOf(w) = g[1 .. n]
<1>1. PICK S, v : S = 1 .. n /\ v = w
  OBVIOUS
<1>2. IsFiniteSet(S) /\ v \in [S -> Nat] /\ SumAsFolded(g, S, v)
  <2>1. IsFiniteSet(S) /\ v \in [S -> Nat]
    BY <1>1, UpTo
  <2>2. SumAsFolded(g, S, v)
    BY <1>1, Zenon
  <2>. QED
    BY <2>1, <2>2
<1>3. SumRule(g, S, v)
  BY ONLY <1>2, SumFolded
<1>4. SumOf(v) = g[S]
  BY ONLY <1>2, <1>3, SumIs
<1>. QED
  BY <1>1, <1>4

\* What a list is allowed is their sum.
LEMMA PostsSummed ==
  ASSUME NEW S, \A x \in S : PostsOf(x) \in Nat, NEW list \in Seq(S)
  PROVE  /\ Posted(list) \in Seq(Nat) /\ Posted(list) \in [1 .. Len(list) -> Nat]
         /\ Len(Posted(list)) = Len(list)
         /\ PostsOfAll(list) = SumOf(Posted(list)) /\ PostsOfAll(list) \in Nat
<1>1. PICK n, w : n = Len(list) /\ n \in Nat /\ w = Posted(list)
  OBVIOUS
<1>2. DOMAIN list = 1 .. n /\ w \in [1 .. n -> Nat] /\ w \in Seq(Nat) /\ Len(w) = n
      /\ \A i \in 1 .. n : w[i] = PostsOf(list[i])
  <2>1. DOMAIN list = 1 .. n /\ \A i \in 1 .. n : list[i] \in S
    BY <1>1
  <2>2. w \in [1 .. n -> Nat]
    BY <1>1, <2>1 DEF Posted
  <2>3. w \in Seq(Nat) /\ Len(w) = n
    BY <1>1, <2>2
  <2>. QED
    BY <1>1, <2>1, <2>2, <2>3 DEF Posted
<1>. DEFINE Is(g) == g = [s \in SUBSET DOMAIN list |->
                            IF s = {} THEN 0
                            ELSE PostsOf(list[CHOOSE x \in s : TRUE]) + g[s \ {CHOOSE x \in s : TRUE}]]
<1>3. PostsOfAll(list) = (CHOOSE g : Is(g))[DOMAIN list]
  BY DEF PostsOfAll, MapThenSumSet, MapThenFoldSet
<1>4. ASSUME NEW g
      PROVE  Is(g) <=> SumAsFolded(g, 1 .. n, w)
  <2>1. \A s \in SUBSET (1 .. n) : s # {} => (CHOOSE x \in s : TRUE) \in 1 .. n
    OBVIOUS
  <2>2. \A s \in SUBSET (1 .. n) : s # {} =>
          w[CHOOSE x \in s : TRUE] = PostsOf(list[CHOOSE x \in s : TRUE])
    BY <1>2, <2>1
  <2>3. PICK D : D = 1 .. n /\ D = DOMAIN list
    BY <1>2
  <2>4. PICK h, k : /\ h = [s \in SUBSET D |->
                              IF s = {} THEN 0
                              ELSE PostsOf(list[CHOOSE x \in s : TRUE])
                                   + g[s \ {CHOOSE x \in s : TRUE}]]
                    /\ k = [s \in SUBSET D |->
                              IF s = {} THEN 0
                              ELSE w[CHOOSE x \in s : TRUE] + g[s \ {CHOOSE x \in s : TRUE}]]
    OBVIOUS
  <2>5. h = k
    <3>1. ASSUME NEW s \in SUBSET D
          PROVE  h[s] = k[s]
      <4>1. PICK x : x = CHOOSE y \in s : TRUE
        OBVIOUS
      <4>2. /\ h[s] = IF s = {} THEN 0 ELSE PostsOf(list[x]) + g[s \ {x}]
            /\ k[s] = IF s = {} THEN 0 ELSE w[x] + g[s \ {x}]
        BY <2>4, <4>1
      <4>3. s # {} => w[x] = PostsOf(list[x])
        BY <2>2, <2>3, <4>1
      <4>. QED
        BY <4>2, <4>3
    <3>. QED
      BY <2>4, <3>1
  <2>. QED
    BY <2>3, <2>4, <2>5 DEF SumAsFolded
<1>5. PICK g : Is(g) /\ g = CHOOSE h : Is(h)
  <2>1. \E g : SumAsFolded(g, 1 .. n, w)
    <3>1. IsFiniteSet(1 .. n)
      BY <1>1, UpTo
    <3>. QED
      BY <1>2, <3>1, SumFolded
  <2>. HIDE DEF Is
  <2>. QED
    BY <1>4, <2>1
<1>6. SumOf(w) = g[1 .. n] /\ SumOf(w) \in Nat
  <2>. HIDE DEF Is
  <2>1. SumAsFolded(g, 1 .. n, w)
    BY <1>4, <1>5
  <2>. QED
    BY <1>1, <1>2, <2>1, Folded, SumsTo
<1>. HIDE DEF Is
<1>. QED
  BY <1>1, <1>2, <1>3, <1>5, <1>6

\* The POSTs of two lists, end to end.
LEMMA PostsJoined ==
  ASSUME NEW S, \A x \in S : PostsOf(x) \in Nat, NEW s \in Seq(S), NEW t \in Seq(S),
         NEW both, both = s \o t
  PROVE  PostsOfAll(both) = PostsOfAll(s) + PostsOfAll(t)
<1>1. both \in Seq(S)
  OBVIOUS
<1>2. PICK p, q, w : p = Posted(s) /\ q = Posted(t) /\ w = Posted(both)
  OBVIOUS
<1>3. /\ p \in Seq(Nat) /\ PostsOfAll(s) = SumOf(p)
      /\ q \in Seq(Nat) /\ PostsOfAll(t) = SumOf(q)
      /\ w \in Seq(Nat) /\ PostsOfAll(both) = SumOf(w)
  BY <1>1, <1>2, PostsSummed
<1>4. w = p \o q
  <2>1. Len(both) = Len(s) + Len(t) /\ Len(p) = Len(s) /\ Len(q) = Len(t) /\ Len(w) = Len(both)
    <3>1. Len(both) = Len(s) + Len(t)
      OBVIOUS
    <3>2. Len(p) = Len(s) /\ Len(q) = Len(t) /\ Len(w) = Len(both)
      BY <1>1, <1>2, PostsSummed
    <3>. QED
      BY <3>1, <3>2
  <2>2. PICK n, m : n = Len(s) /\ m = Len(t) /\ n \in Nat /\ m \in Nat
    <3>1. Len(s) \in Nat /\ Len(t) \in Nat
      OBVIOUS
    <3>. QED
      BY <3>1, Zenon
  <2>3. ASSUME NEW i \in 1 .. n + m
        PROVE  w[i] = (p \o q)[i]
    <3>1. i \in DOMAIN both /\ w[i] = PostsOf(both[i])
      BY <1>1, <1>2, <2>1, <2>2 DEF Posted
    <3>2. CASE i <= n
      <4>1. i \in DOMAIN s /\ both[i] = s[i] /\ p[i] = PostsOf(s[i])
        BY <3>2, <1>2, <2>2 DEF Posted
      <4>2. (p \o q)[i] = p[i]
        BY <3>2, <1>3, <2>1, <2>2
      <4>. QED
        BY <3>1, <4>1, <4>2
    <3>3. CASE ~ (i <= n)
      <4>1. i - n \in DOMAIN t /\ both[i] = t[i - n] /\ q[i - n] = PostsOf(t[i - n])
        BY <3>3, <1>2, <2>2 DEF Posted
      <4>2. (p \o q)[i] = q[i - n]
        BY <3>3, <1>3, <2>1, <2>2
      <4>. QED
        BY <3>1, <4>1, <4>2
    <3>. QED
      BY <3>2, <3>3
  <2>4. PICK r : r = p \o q
    OBVIOUS
  <2>5. r \in Seq(Nat) /\ Len(r) = n + m /\ Len(w) = n + m
    <3>1. \A e, f \in Seq(Nat) : (e \o f) \in Seq(Nat) /\ Len(e \o f) = Len(e) + Len(f)
      OBVIOUS
    <3>2. r \in Seq(Nat) /\ Len(r) = Len(p) + Len(q)
      BY <1>3, <2>4, <3>1
    <3>. QED
      BY <3>2, <2>1, <2>2
  <2>6. DOMAIN r = 1 .. n + m /\ DOMAIN w = 1 .. n + m
    BY <1>3, <2>5
  <2>7. r = w
    <3>1. r = [i \in 1 .. n + m |-> r[i]] /\ w = [i \in 1 .. n + m |-> w[i]]
      BY <1>3, <2>5, <2>6
    <3>2. \A i \in 1 .. n + m : r[i] = w[i]
      BY <2>3, <2>4
    <3>. QED
      BY <3>1, <3>2
  <2>. QED
    BY <2>4, <2>7
<1>5. SumOf(w) = SumOf(p) + SumOf(q)
  BY ONLY <1>3, <1>4, SumJoined
<1>. QED
  BY <1>3, <1>5

\* What is ahead, without the first of it.
LEMMA PostsAhead ==
  ASSUME NEW S, \A x \in S : PostsOf(x) \in Nat, NEW list \in Seq(S), list # <<>>
  PROVE  /\ PostsOfAll(list) = PostsOf(Head(list)) + PostsOfAll(Tail(list))
         /\ PostsOf(Head(list)) \in Nat /\ PostsOfAll(Tail(list)) \in Nat
<1>1. PICK one, rest : one = <<Head(list)>> /\ rest = Tail(list)
  OBVIOUS
<1>2. one \in Seq(S) /\ rest \in Seq(S) /\ list = one \o rest /\ Head(list) \in S
  BY <1>1
<1>3. PostsOfAll(list) = PostsOfAll(one) + PostsOfAll(rest)
  BY <1>2, PostsJoined
<1>4. PostsOfAll(one) = PostsOf(Head(list))
  <2>1. PICK w : w = Posted(one)
    OBVIOUS
  <2>2. w \in [1 .. 1 -> Nat] /\ w[1] = PostsOf(Head(list)) /\ PostsOfAll(one) = SumOf(w)
    <3>1. Len(one) = 1 /\ DOMAIN one = 1 .. 1 /\ one[1] = Head(list)
      BY <1>1
    <3>2. w \in [1 .. Len(one) -> Nat] /\ PostsOfAll(one) = SumOf(w)
      BY <1>2, <2>1, PostsSummed
    <3>3. w[1] = PostsOf(Head(list))
      BY <3>1, <2>1 DEF Posted
    <3>. QED
      BY <3>1, <3>2, <3>3
  <2>3. RunningSum([k \in 0 .. 1 |-> IF k = 0 THEN 0 ELSE w[1]], 1, w)
    BY <2>2 DEF RunningSum
  <2>4. SumOf(w) = [k \in 0 .. 1 |-> IF k = 0 THEN 0 ELSE w[1]][1]
    BY <2>2, <2>3, RunningSumIs
  <2>. QED
    BY <2>2, <2>4
<1>5. PostsOfAll(rest) \in Nat
  BY <1>2, PostsSummed
<1>. QED
  BY <1>1, <1>2, <1>3, <1>4, <1>5

\* The POSTs of lists that are flattened.
LEMMA PostsFlattened ==
  ASSUME NEW S, \A x \in S : PostsOf(x) \in Nat, NEW seqs \in Seq(Seq(S)), seqs # <<>>,
         NEW w, w = [i \in DOMAIN seqs |-> PostsOfAll(seqs[i])]
  PROVE  PostsOfAll(FlattenSeq(seqs)) = SumOf(w)
<1>1. /\ Len(seqs) \in Nat \ {0} /\ DOMAIN seqs = 1 .. Len(seqs)
      /\ \A i \in 1 .. Len(seqs) : seqs[i] \in Seq(S)
  BY FlattenedIs
<1>2. PICK n \in Nat \ {0} : n = Len(seqs)
  BY <1>1
<1>3. PICK g : /\ FlattenSeq(seqs) = g[n] /\ g[1] = seqs[1]
               /\ \A i \in 2 .. n : g[i] = g[i - 1] \o seqs[i]
               /\ \A i \in 1 .. n : g[i] \in Seq(S)
  BY <1>2, FlattenedIs
<1>4. w \in [1 .. n -> Nat] /\ \A i \in 1 .. n : w[i] = PostsOfAll(seqs[i])
  BY <1>1, <1>2, PostsSummed
<1>5. PICK f : f = [i \in 0 .. n |-> IF i = 0 THEN 0 ELSE PostsOfAll(g[i])]
  OBVIOUS
<1>6. \A i \in 1 .. n : i \in 0 .. n /\ i # 0 /\ f[i] = PostsOfAll(g[i]) /\ f[i] \in Nat
  <2>1. \A i \in 1 .. n : PostsOfAll(g[i]) \in Nat
    BY <1>3, PostsSummed
  <2>. QED
    BY <1>5, <2>1
<1>7. f \in [0 .. n -> Nat] /\ f[0] = 0
  <2>1. \A i \in 0 .. n : i = 0 \/ i \in 1 .. n
    OBVIOUS
  <2>2. f[0] = 0 /\ 0 \in 0 .. n
    BY <1>5
  <2>. QED
    BY <1>5, <1>6, <2>1, <2>2
<1>8. ASSUME NEW i \in 1 .. n
      PROVE  f[i] = f[i - 1] + w[i]
  <2>1. CASE i = 1
    <3>1. f[1] = w[1] /\ w[1] \in Nat /\ f[1 - 1] = 0
      BY <2>1, <1>3, <1>4, <1>6, <1>7
    <3>. QED
      BY <2>1, <3>1
  <2>2. CASE i # 1
    <3>1. PICK j \in 1 .. n : j = i - 1 /\ i \in 2 .. n
      BY <2>2
    <3>2. PICK a, b, c : /\ a = g[j] /\ b = seqs[i] /\ c = g[i] /\ c = a \o b
                         /\ a \in Seq(S) /\ b \in Seq(S)
      BY <3>1, <1>1, <1>2, <1>3
    <3>3. PostsOfAll(c) = PostsOfAll(a) + PostsOfAll(b)
      BY ONLY <3>2, \A x \in S : PostsOf(x) \in Nat, PostsJoined
    <3>. QED
      BY <3>1, <3>2, <3>3, <1>4, <1>6
  <2>. QED
    BY <2>1, <2>2
<1>9. SumOf(w) = f[n]
  <2>1. RunningSum(f, n, w)
    BY <1>7, <1>8 DEF RunningSum
  <2>. QED
    BY <1>4, <2>1, RunningSumIs
<1>. QED
  BY <1>3, <1>6, <1>9

-----------------------------------------------------------------------------
(* What a run has to account for. *)

\* The POSTs of each action, and of what compensates it.
ActionPosts == Posted(automation.actions)
UndoPosts == [i \in DOMAIN automation.actions |-> PostsOfAll(automation.actions[i].undo)]

\* The POSTs that a run of the automation is allowed, with what compensates it.
Budget == SendBudget(automation.actions)

\* The attempts at the action at hand that may have reached the webhook.
Tried(q) == IF Current(q).type = "send_notification" THEN q.tried ELSE 0

\* One result, or else one compensation, names each task that the request created.
NamesTasks(id, results, undone) ==
  \A n \in DOMAIN reviews : reviews[n].run = id =>
    \/ Cardinality(Naming(results, n)) = 1
    \/ Naming(results, n) = {} /\ Cardinality(Naming(undone, n)) = 1

\* The webhook has what a result calls delivered.
Delivered(id, results) ==
  \A j \in DOMAIN results :
    automation.actions[j].type = "send_notification" /\ results[j].status = "succeeded"
    => target # None /\ (target.type = "webhook" => posts[id] > 0)

\* A result brings along the compensations of its action, for the task it names.
Plain(results) ==
  \A i \in DOMAIN results :
    /\ PostsOfAll(results[i].undo) = UndoPosts[i]
    /\ \A u \in DOMAIN results[i].undo : results[i].undo[u].task = results[i].task

\* What is left to compensate is for tasks that results name.
OfResults(results, undo) ==
  \A u \in DOMAIN undo : undo[u].task = None \/ Naming(results, undo[u].task) # {}

\* What a request in flight has created and posted, by where it is.
RequestEffects(q) ==
  /\ NamesTasks(q.id, q.results, q.undone) /\ Delivered(q.id, q.results)
  /\ (\E S : q.undone \in Seq(S)) /\ \A j \in DOMAIN q.undone : q.undone[j].task \in Task
  /\ q.at \in {"begun", "triggered"} => posts[q.id] = 0 /\ q.tried = 0
  /\ q.at = "acting" =>
       /\ Plain(q.results)
       /\ posts[q.id] <= SumTo(ActionPosts, Len(q.results)) + Tried(q)
  /\ q.at = "compensating" =>
       /\ OfResults(q.results, q.undo)
       /\ posts[q.id] + PostsOfAll(q.undo) <= Budget + Tried(q)
  /\ q.at \in {"acting", "compensating"} => q.tried < Current(q).attempts
  /\ q.at \in {"finished", "recorded"} /\ q.status = None =>
       Len(q.results) = Len(automation.actions)

\* What a recorded run has created and posted.
RowEffects(row) ==
  /\ NamesTasks(row.id, row.results, row.undone) /\ Delivered(row.id, row.results)
  /\ row.status \notin {"skipped_conditions", "skipped_cooldown"} =>
       Len(row.results) = Len(automation.actions)

\* A request has a number of its own, and a recorded one does nothing more.
Numbered ==
  /\ posts \in Seq(Nat) /\ begun = Len(posts)
  /\ automation = None => posts = <<>>
  /\ \A n \in DOMAIN reviews : reviews[n].run \in DOMAIN posts
  /\ \A i \in DOMAIN runs : runs[i].id \in DOMAIN posts
  /\ \A r \in RunThreads : threads[r] # None =>
       /\ threads[r].id \in DOMAIN posts
       /\ \A s \in RunThreads : threads[s] # None /\ threads[s].id = threads[r].id => s = r
       /\ \A i \in DOMAIN runs : runs[i].id = threads[r].id => threads[r].at = "recorded"

\* No two runs have one idempotency key.
KeysApart == \A i, j \in DOMAIN runs : runs[i].key = runs[j].key /\ runs[i].key # None => i = j

\* The inductive invariant: what requests and recorded runs account for, within the
\* budget of the automation.
EffectsSound ==
  /\ Numbered /\ KeysApart
  /\ \A i \in DOMAIN runs : RowEffects(runs[i])
  /\ \A r \in RunThreads : threads[r] # None => RequestEffects(threads[r])
  /\ automation # None => \A n \in DOMAIN posts : posts[n] <= Budget

\* What a step leaves to all requests but `id`.
Beside(id) ==
  /\ DOMAIN reviews \subseteq DOMAIN reviews'
  /\ \A n \in DOMAIN reviews : reviews'[n].run = reviews[n].run
  /\ \A n \in DOMAIN reviews' : n \notin DOMAIN reviews => reviews'[n].run = id
  /\ DOMAIN posts \subseteq DOMAIN posts'
  /\ \A n \in DOMAIN posts : n # id => posts'[n] = posts[n]
  /\ target # None => target' = target
  /\ automation' = automation

-----------------------------------------------------------------------------
\* What is allowed to each part of a plan is allowed to the whole.
LEMMA Budgeted ==
  ASSUME Spacing, automation # None
  PROVE  LET n == Len(automation.actions) IN
         /\ n \in Nat /\ DOMAIN automation.actions = 1 .. n
         /\ \A k \in 1 .. n : automation.actions[k] \in Action
         /\ Budget \in Nat /\ SumTo(ActionPosts, 0) = 0
         /\ \A k \in 0 .. n : /\ SumTo(ActionPosts, k) \in Nat /\ SumTo(UndoPosts, k) \in Nat
                              /\ SumTo(ActionPosts, k) + SumTo(UndoPosts, k) <= Budget
                              /\ SumTo(ActionPosts, k) <= Budget
         /\ \A k \in 1 .. n :
              SumTo(ActionPosts, k) = SumTo(ActionPosts, k - 1) + PostsOf(automation.actions[k])
         /\ UndoPosts \in [1 .. n -> Nat]
<1>1. PICK acts, n : acts = automation.actions /\ n = Len(acts)
  OBVIOUS
<1>2. /\ n \in Nat /\ DOMAIN acts = 1 .. n /\ \A k \in 1 .. n : acts[k] \in Action
      /\ acts \in Seq(Action)
  BY <1>1, Plans
<1>3. \A x \in Action : PostsOf(x) \in Nat /\ x.undo \in Seq(Compensation)
  BY DEF PostsOf, Action
<1>4. \A x \in Compensation : PostsOf(x) \in Nat
  BY DEF PostsOf, Compensation
<1>5. PICK p, w : p = ActionPosts /\ w = UndoPosts
  OBVIOUS
<1>6. /\ p \in [1 .. n -> Nat] /\ PostsOfAll(acts) = SumOf(p)
      /\ \A k \in 1 .. n : p[k] = PostsOf(acts[k])
  <2>1. Posted(acts) \in [1 .. Len(acts) -> Nat] /\ PostsOfAll(acts) = SumOf(Posted(acts))
    BY <1>2, <1>3, PostsSummed
  <2>2. p = Posted(acts)
    BY <1>1, <1>5 DEF ActionPosts
  <2>. QED
    BY <2>1, <2>2, <1>1, <1>2 DEF Posted
<1>7. w \in [1 .. n -> Nat]
  <2>1. \A k \in 1 .. n : PostsOfAll(acts[k].undo) \in Nat
    BY <1>2, <1>3, <1>4, PostsSummed
  <2>. QED
    BY <2>1, <1>1, <1>2, <1>5 DEF UndoPosts
<1>8. Budget = SumOf(p) + SumOf(w)
  <2>. DEFINE Is(g) == g = [s \in SUBSET DOMAIN acts |->
                              IF s = {} THEN 0
                              ELSE PostsOfAll(acts[CHOOSE x \in s : TRUE].undo)
                                   + g[s \ {CHOOSE x \in s : TRUE}]]
  <2>1. SendBudget(acts) = PostsOfAll(acts) + (CHOOSE g : Is(g))[DOMAIN acts]
    BY DEF SendBudget, MapThenSumSet, MapThenFoldSet
  <2>2. ASSUME NEW g
        PROVE  Is(g) <=> SumAsFolded(g, 1 .. n, w)
    <3>1. PICK D : D = 1 .. n /\ D = DOMAIN acts
      BY <1>2
    <3>2. \A x \in D : w[x] = PostsOfAll(acts[x].undo)
      BY <3>1, <1>1, <1>2, <1>5 DEF UndoPosts
    <3>3. PICK h, k : /\ h = [s \in SUBSET D |->
                                IF s = {} THEN 0
                                ELSE PostsOfAll(acts[CHOOSE x \in s : TRUE].undo)
                                     + g[s \ {CHOOSE x \in s : TRUE}]]
                      /\ k = [s \in SUBSET D |->
                                IF s = {} THEN 0
                                ELSE w[CHOOSE x \in s : TRUE] + g[s \ {CHOOSE x \in s : TRUE}]]
      OBVIOUS
    <3>4. h = k
      <4>1. ASSUME NEW s \in SUBSET D
            PROVE  h[s] = k[s]
        <5>1. PICK x : x = CHOOSE y \in s : TRUE
          OBVIOUS
        <5>2. /\ h[s] = IF s = {} THEN 0 ELSE PostsOfAll(acts[x].undo) + g[s \ {x}]
              /\ k[s] = IF s = {} THEN 0 ELSE w[x] + g[s \ {x}]
          BY <3>3, <5>1
        <5>3. s # {} => w[x] = PostsOfAll(acts[x].undo)
          BY <3>2, <5>1
        <5>. QED
          BY <5>2, <5>3
      <4>. QED
        BY <3>3, <4>1
    <3>. QED
      BY <3>1, <3>3, <3>4 DEF SumAsFolded
  <2>3. PICK g : Is(g) /\ g = CHOOSE h : Is(h)
    <3>1. \E g : SumAsFolded(g, 1 .. n, w)
      <4>1. IsFiniteSet(1 .. n)
        BY <1>2, UpTo
      <4>. QED
        BY <1>7, <4>1, SumFolded
    <3>. HIDE DEF Is
    <3>. QED
      BY <2>2, <3>1
  <2>. HIDE DEF Is
  <2>4. SumAsFolded(g, 1 .. n, w)
    BY <2>2, <2>3
  <2>5. SumOf(w) = g[1 .. n]
    BY <1>2, <1>7, <2>4, Folded
  <2>. QED
    BY <1>1, <1>2, <1>6, <2>1, <2>3, <2>5 DEF Budget
<1>9. /\ SumOf(p) \in Nat /\ SumTo(p, 0) = 0
      /\ \A k \in 0 .. n : SumTo(p, k) \in Nat /\ SumTo(p, k) <= SumOf(p)
      /\ \A k \in 1 .. n : SumTo(p, k) = SumTo(p, k - 1) + p[k]
  BY <1>2, <1>6, SumsTo
<1>10. SumOf(w) \in Nat /\ \A k \in 0 .. n : SumTo(w, k) \in Nat /\ SumTo(w, k) <= SumOf(w)
  BY <1>2, <1>7, SumsTo
<1>11. \A k \in 0 .. n : /\ SumTo(p, k) + SumTo(w, k) <= Budget /\ SumTo(p, k) <= Budget
  BY <1>8, <1>9, <1>10
<1>12. /\ Budget \in Nat /\ SumTo(p, 0) = 0
       /\ \A k \in 0 .. n : SumTo(p, k) \in Nat /\ SumTo(w, k) \in Nat
       /\ \A k \in 1 .. n : SumTo(p, k) = SumTo(p, k - 1) + PostsOf(acts[k])
  <2>1. Budget \in Nat
    BY <1>8, <1>9, <1>10
  <2>2. \A k \in 1 .. n : SumTo(p, k) = SumTo(p, k - 1) + PostsOf(acts[k])
    BY <1>6, <1>9
  <2>. QED
    BY <2>1, <2>2, <1>9, <1>10
<1>. QED
  BY <1>1, <1>2, <1>5, <1>7, <1>11, <1>12

\* What one request does is nothing to the record of another.
LEMMA RecordStays ==
  ASSUME NEW id, Beside(id), NEW other \in DOMAIN posts, other # id,
         NEW results, NEW undone
  PROVE  /\ NamesTasks(other, results, undone) => NamesTasks(other, results, undone)'
         /\ Delivered(other, results) => Delivered(other, results)'
         /\ Plain(results)' <=> Plain(results)
         /\ ActionPosts' = ActionPosts /\ UndoPosts' = UndoPosts /\ Budget' = Budget
         /\ Task \subseteq Task'
<1>1. ActionPosts' = ActionPosts /\ UndoPosts' = UndoPosts /\ Budget' = Budget
  BY DEF Beside, ActionPosts, UndoPosts, Budget
<1>2. Plain(results)' <=> Plain(results)
  BY <1>1 DEF Plain
<1>3. NamesTasks(other, results, undone) => NamesTasks(other, results, undone)'
  <2>1. \A n \in DOMAIN reviews' : reviews'[n].run = other =>
          n \in DOMAIN reviews /\ reviews[n].run = other
    BY DEF Beside
  <2>. QED
    BY <2>1 DEF NamesTasks
<1>4. Delivered(other, results) => Delivered(other, results)'
  BY DEF Delivered, Beside
<1>5. Task \subseteq Task'
  BY DEF Beside, Task
<1>. QED
  BY <1>1, <1>2, <1>3, <1>4, <1>5

\* A step of another request leaves a request what it accounts for.
LEMMA RequestStays ==
  ASSUME NEW id, Beside(id), NEW q, q.id \in DOMAIN posts, q.id # id, RequestEffects(q)
  PROVE  RequestEffects(q)'
<1>1. posts'[q.id] = posts[q.id] /\ automation' = automation
  BY DEF Beside
<1>2. Current(q)' = Current(q) /\ Tried(q)' = Tried(q)
  BY <1>1 DEF Current, Tried
<1>3. PICK other, results, undone : other = q.id /\ results = q.results /\ undone = q.undone
  OBVIOUS
<1>4. /\ NamesTasks(other, results, undone)' /\ Delivered(other, results)'
      /\ Plain(results)' <=> Plain(results)
      /\ ActionPosts' = ActionPosts /\ Budget' = Budget /\ Task \subseteq Task'
  BY <1>3, RecordStays DEF RequestEffects
<1>. QED
  BY <1>1, <1>2, <1>3, <1>4 DEF RequestEffects, OfResults

\* A request goes on within what it is allowed, and nothing is recorded.
LEMMA EffectsGoOn ==
  ASSUME Spacing, EffectsSound, NEW r \in RunThreads, threads[r] # None,
         threads[r].at # "recorded", NEW id, id = threads[r].id, Beside(id),
         NEW q, Step(r, q), q.id = id, RequestEffects(q)', q.at # "recorded",
         UNCHANGED <<runs, begun>>, posts' \in Seq(Nat), Len(posts') = Len(posts),
         automation # None, posts'[id] <= Budget
  PROVE  EffectsSound'
<1>1. \A s \in RunThreads : threads'[s] = IF s = r THEN q ELSE threads[s]
  BY Stepped DEF Spacing
<1>2. /\ Numbered /\ KeysApart
      /\ \A i \in DOMAIN runs : RowEffects(runs[i]) /\ runs[i].id \in DOMAIN posts /\ runs[i].id # id
      /\ \A s \in RunThreads : threads[s] # None =>
           RequestEffects(threads[s]) /\ threads[s].id \in DOMAIN posts
      /\ \A s \in RunThreads : threads[s] # None /\ s # r => threads[s].id # id
      /\ \A n \in DOMAIN posts : posts[n] <= Budget
  BY DEF EffectsSound, Numbered
<1>3. DOMAIN posts' = DOMAIN posts /\ id \in DOMAIN posts
  BY <1>2 DEF Numbered
<1>4. Numbered'
  <2>1. \A n \in DOMAIN reviews' : reviews'[n].run \in DOMAIN posts'
    BY <1>2, <1>3 DEF Numbered, Beside
  <2>2. \A i \in DOMAIN runs' : runs'[i].id \in DOMAIN posts'
    BY <1>2, <1>3
  <2>3. ASSUME NEW s \in RunThreads, threads'[s] # None
        PROVE  /\ threads'[s].id \in DOMAIN posts'
               /\ \A p \in RunThreads : threads'[p] # None /\ threads'[p].id = threads'[s].id => p = s
               /\ \A i \in DOMAIN runs' : runs'[i].id = threads'[s].id => threads'[s].at = "recorded"
    <3>1. CASE s = r
      BY <3>1, <1>1, <1>2, <1>3
    <3>2. CASE s # r
      <4>1. /\ threads'[s] = threads[s] /\ threads[s].id # id /\ threads[s].id \in DOMAIN posts
            /\ \A p \in RunThreads : threads[p] # None /\ threads[p].id = threads[s].id => p = s
            /\ \A i \in DOMAIN runs : runs[i].id = threads[s].id => threads[s].at = "recorded"
        BY <3>2, <2>3, <1>1, <1>2 DEF Numbered
      <4>. QED
        BY <4>1, <3>2, <1>1, <1>3
    <3>. QED
      BY <3>1, <3>2
  <2>4. posts' \in Seq(Nat) /\ begun' = Len(posts') /\ automation' # None
    BY <1>2 DEF Numbered, Beside
  <2>. QED
    BY <2>1, <2>2, <2>3, <2>4 DEF Numbered
<1>5. KeysApart'
  BY <1>2 DEF KeysApart
<1>6. Budget' = Budget
  BY DEF Beside, Budget
<1>7. ASSUME NEW i \in DOMAIN runs'
      PROVE  RowEffects(runs[i])'
  <2>1. PICK row : row = runs[i] /\ runs'[i] = row /\ i \in DOMAIN runs
    BY <1>7
  <2>2. PICK other, results, undone : other = row.id /\ results = row.results /\ undone = row.undone
    OBVIOUS
  <2>3. NamesTasks(other, results, undone)' /\ Delivered(other, results)'
    BY <1>2, <2>1, <2>2, RecordStays DEF RowEffects
  <2>. QED
    BY <1>2, <2>1, <2>2, <2>3 DEF RowEffects, Beside
<1>8. ASSUME NEW s \in RunThreads, threads'[s] # None
      PROVE  RequestEffects(threads[s])'
  <2>1. PICK p : p = threads'[s]
    OBVIOUS
  <2>2. RequestEffects(p)'
    <3>1. CASE s = r
      BY <3>1, <2>1, <1>1
    <3>2. CASE s # r
      BY <3>2, <2>1, <1>8, <1>1, <1>2, RequestStays
    <3>. QED
      BY <3>1, <3>2
  <2>. QED
    BY <2>1, <2>2 DEF RequestEffects, Plain, OfResults, Tried, Current, NamesTasks, Delivered
<1>9. \A n \in DOMAIN posts' : posts'[n] <= Budget'
  BY <1>2, <1>3, <1>6 DEF Beside
<1>. QED
  BY <1>4, <1>5, <1>7, <1>8, <1>9 DEF EffectsSound

\* Requests may end, and reviewers and operators do what leaves all requests alone.
LEMMA EffectsKept ==
  ASSUME EffectsSound, UNCHANGED <<automation, runs, begun, posts>>,
         DOMAIN reviews' = DOMAIN reviews,
         \A n \in DOMAIN reviews : reviews'[n].run = reviews[n].run,
         target # None => target' = target,
         \A s \in RunThreads : threads'[s] = threads[s] \/ threads'[s] = None
  PROVE  EffectsSound'
<1>1. Beside(None)
  BY DEF Beside
<1>2. /\ Numbered /\ KeysApart
      /\ \A i \in DOMAIN runs : RowEffects(runs[i]) /\ runs[i].id \in DOMAIN posts
      /\ \A s \in RunThreads : threads[s] # None =>
           RequestEffects(threads[s]) /\ threads[s].id \in DOMAIN posts
      /\ \A n \in DOMAIN posts : n # None
  <2>1. \A n \in DOMAIN posts : n # None
    <3>1. DOMAIN posts \subseteq Nat
      BY DEF EffectsSound, Numbered
    <3>. QED
      BY <3>1, AutomationAssumption
  <2>. QED
    BY <2>1 DEF EffectsSound, Numbered
<1>3. Numbered' /\ KeysApart'
  BY <1>2 DEF Numbered, KeysApart
<1>4. ASSUME NEW i \in DOMAIN runs'
      PROVE  RowEffects(runs[i])'
  <2>1. PICK row : row = runs[i] /\ runs'[i] = row /\ i \in DOMAIN runs
    BY <1>4
  <2>2. PICK other, results, undone : other = row.id /\ results = row.results /\ undone = row.undone
    OBVIOUS
  <2>3. other \in DOMAIN posts /\ other # None /\ RowEffects(row)
    BY <1>2, <2>1, <2>2
  <2>4. NamesTasks(other, results, undone)' /\ Delivered(other, results)'
    BY <1>1, <2>2, <2>3, RecordStays DEF RowEffects
  <2>. QED
    BY <2>1, <2>2, <2>3, <2>4 DEF RowEffects
<1>5. ASSUME NEW s \in RunThreads, threads'[s] # None
      PROVE  RequestEffects(threads[s])'
  <2>1. PICK p : p = threads[s] /\ threads'[s] = p
    BY <1>5
  <2>2. RequestEffects(p)'
    BY <2>1, <1>5, <1>1, <1>2, RequestStays
  <2>. QED
    BY <2>1, <2>2 DEF RequestEffects, Plain, OfResults, Tried, Current, NamesTasks, Delivered
<1>6. automation' # None => \A n \in DOMAIN posts' : posts'[n] <= Budget'
  BY DEF EffectsSound, Budget
<1>. QED
  BY <1>3, <1>4, <1>5, <1>6 DEF EffectsSound

\* A request begins with a number that nothing has.
LEMMA EffectsBegun ==
  ASSUME Spacing, EffectsSound, NEW r \in RunThreads, NEW t, NEW key, BeginRun(r, t, key)
  PROVE  EffectsSound'
<1>1. PICK q : /\ Step(r, q) /\ q.at = "begun" /\ q.id = begun + 1 /\ q.results = <<>>
               /\ q.undone = <<>> /\ q.tried = 0
  BY DEF BeginRun
<1>2. /\ threads[r] = None /\ automation # None /\ begun' = begun + 1
      /\ posts' = Append(posts, 0)
      /\ UNCHANGED <<target, automation, runs, reviews>>
  BY DEF BeginRun, world
<1>3. PICK id : id = begun + 1
  OBVIOUS
<1>4. /\ posts \in Seq(Nat) /\ begun = Len(posts) /\ posts' \in Seq(Nat) /\ Len(posts') = id
      /\ id \notin DOMAIN posts /\ DOMAIN posts' = DOMAIN posts \union {id}
      /\ \A n \in DOMAIN posts : posts'[n] = posts[n]
      /\ posts'[id] = 0
  <2>1. posts \in Seq(Nat) /\ begun = Len(posts)
    BY DEF EffectsSound, Numbered
  <2>. QED
    BY <2>1, <1>2, <1>3
<1>5. Beside(id)
  BY <1>2, <1>4 DEF Beside
<1>6. \A s \in RunThreads : threads'[s] = IF s = r THEN q ELSE threads[s]
  BY <1>1, Stepped DEF Spacing
<1>7. /\ Numbered /\ KeysApart
      /\ \A i \in DOMAIN runs : RowEffects(runs[i]) /\ runs[i].id \in DOMAIN posts
      /\ \A s \in RunThreads : threads[s] # None =>
           RequestEffects(threads[s]) /\ threads[s].id \in DOMAIN posts
      /\ \A n \in DOMAIN reviews : reviews[n].run \in DOMAIN posts
  BY DEF EffectsSound, Numbered
<1>8. RequestEffects(q)'
  <2>1. NamesTasks(id, <<>>, <<>>)'
    BY <1>2, <1>4, <1>7 DEF NamesTasks
  <2>2. Delivered(id, <<>>)' /\ (\E S : <<>> \in Seq(S)) /\ DOMAIN <<>> = {}
    <3>1. DOMAIN <<>> = {} /\ <<>> \in Seq({})
      OBVIOUS
    <3>. QED
      BY <3>1 DEF Delivered
  <2>. QED
    BY <1>1, <1>3, <1>4, <2>1, <2>2 DEF RequestEffects
<1>9. Numbered'
  <2>1. ASSUME NEW s \in RunThreads, threads'[s] # None
        PROVE  /\ threads'[s].id \in DOMAIN posts'
               /\ \A p \in RunThreads : threads'[p] # None /\ threads'[p].id = threads'[s].id => p = s
               /\ \A i \in DOMAIN runs' : runs'[i].id = threads'[s].id => threads'[s].at = "recorded"
    <3>1. CASE s = r
      BY <3>1, <1>1, <1>2, <1>3, <1>4, <1>6, <1>7
    <3>2. CASE s # r
      <4>1. /\ threads'[s] = threads[s] /\ threads[s].id # id /\ threads[s].id \in DOMAIN posts
            /\ \A p \in RunThreads : threads[p] # None /\ threads[p].id = threads[s].id => p = s
            /\ \A i \in DOMAIN runs : runs[i].id = threads[s].id => threads[s].at = "recorded"
        BY <3>2, <2>1, <1>4, <1>6, <1>7 DEF Numbered
      <4>. QED
        BY <4>1, <3>2, <1>1, <1>2, <1>3, <1>4, <1>6
    <3>. QED
      BY <3>1, <3>2
  <2>. QED
    BY <2>1, <1>2, <1>3, <1>4, <1>7 DEF Numbered
<1>10. KeysApart'
  BY <1>2, <1>7 DEF KeysApart
<1>11. ASSUME NEW i \in DOMAIN runs'
      PROVE  RowEffects(runs[i])'
  <2>1. PICK row : row = runs[i] /\ runs'[i] = row /\ i \in DOMAIN runs
    BY <1>2, <1>11
  <2>2. PICK other, results, undone : other = row.id /\ results = row.results /\ undone = row.undone
    OBVIOUS
  <2>3. other \in DOMAIN posts /\ other # id /\ RowEffects(row)
    BY <1>4, <1>7, <2>1, <2>2
  <2>4. NamesTasks(other, results, undone)' /\ Delivered(other, results)'
    BY <1>5, <2>2, <2>3, RecordStays DEF RowEffects
  <2>. QED
    BY <1>2, <2>1, <2>2, <2>3, <2>4 DEF RowEffects
<1>12. ASSUME NEW s \in RunThreads, threads'[s] # None
      PROVE  RequestEffects(threads[s])'
  <2>1. PICK p : p = threads'[s]
    OBVIOUS
  <2>2. RequestEffects(p)'
    <3>1. CASE s = r
      BY <3>1, <2>1, <1>6, <1>8
    <3>2. CASE s # r
      BY <3>2, <2>1, <1>12, <1>4, <1>5, <1>6, <1>7, RequestStays
    <3>. QED
      BY <3>1, <3>2
  <2>. QED
    BY <2>1, <2>2 DEF RequestEffects, Plain, OfResults, Tried, Current, NamesTasks, Delivered
<1>13. \A n \in DOMAIN posts' : posts'[n] <= Budget'
  <2>1. Budget' = Budget /\ Budget \in Nat
    BY <1>2, Budgeted DEF Budget
  <2>. QED
    BY <2>1, <1>2, <1>4 DEF EffectsSound
<1>. QED
  BY <1>9, <1>10, <1>11, <1>12, <1>13 DEF EffectsSound

\* What is done and owed does not change by reading.
LEMMA RequestSame ==
  ASSUME UNCHANGED <<automation, target, reviews, posts>>, NEW q, RequestEffects(q)
  PROVE  RequestEffects(q)'
<1>1. ActionPosts' = ActionPosts /\ Budget' = Budget /\ Task' = Task /\ UndoPosts' = UndoPosts
  BY DEF ActionPosts, UndoPosts, Budget, Task
<1>2. Current(q)' = Current(q) /\ Tried(q)' = Tried(q)
  BY DEF Current, Tried
<1>3. PICK id, results, undone : id = q.id /\ results = q.results /\ undone = q.undone
  OBVIOUS
<1>4. /\ NamesTasks(id, results, undone) => NamesTasks(id, results, undone)'
      /\ Delivered(id, results) => Delivered(id, results)'
      /\ Plain(results) => Plain(results)'
  BY <1>1 DEF NamesTasks, Delivered, Plain
<1>. QED
  BY <1>1, <1>2, <1>3, <1>4 DEF RequestEffects, OfResults

\* The reads of a request, before its actions, create and post nothing.
LEMMA EffectsReads ==
  ASSUME Spacing, RollbackSound, EffectsSound, NEW r \in RunThreads,
         ReadTriggerTrace(r) \/ ReadCooldown(r)
  PROVE  EffectsSound'
<1>1. /\ UNCHANGED <<automation, target, reviews, posts, runs, begun>>
      /\ threads[r] # None /\ threads[r].at \in {"begun", "triggered"}
  BY DEF ReadTriggerTrace, ReadCooldown, world, effects, ThreadAt
<1>2. PICK p, id : p = threads[r] /\ id = p.id
  OBVIOUS
<1>3. /\ DOMAIN p = RequestFields /\ p.results = <<>> /\ automation # None
      /\ RequestEffects(p) /\ id \in DOMAIN posts /\ posts[id] = 0 /\ p.tried = 0
      /\ posts \in Seq(Nat)
  BY <1>1, <1>2, InFlight DEF RequestSound, RollbackSound, UndoSound, EffectsSound, Numbered,
     RequestEffects
<1>4. Beside(id)
  BY <1>1 DEF Beside
<1>5. Budget \in Nat
  BY <1>3, Budgeted
<1>6. posts' \in Seq(Nat) /\ Len(posts') = Len(posts) /\ posts'[id] <= Budget
  BY <1>1, <1>3, <1>5
<1>7. ASSUME NEW q, Step(r, q), q.id = id, RequestEffects(q), q.at # "recorded"
      PROVE  EffectsSound'
  <2>1. RequestEffects(q)'
    BY <1>1, <1>7, RequestSame
  <2>. QED
    BY <2>1, <1>1, <1>2, <1>3, <1>4, <1>6, <1>7, EffectsGoOn
<1>8. CASE ReadTriggerTrace(r)
  <2>1. PICK status : Step(r, [p EXCEPT !.at = "triggered", !.now = time, !.status = status])
    BY <1>2, <1>8 DEF ReadTriggerTrace
  <2>2. PICK q : q = [p EXCEPT !.at = "triggered", !.now = time, !.status = status]
    OBVIOUS
  <2>3. /\ q.at = "triggered" /\ q.id = id /\ q.results = p.results /\ q.undone = p.undone
        /\ q.tried = p.tried
    BY <1>2, <1>3, <2>2 DEF RequestFields
  <2>4. RequestEffects(q)
    BY <1>2, <1>3, <2>3 DEF RequestEffects
  <2>. QED
    BY <2>1, <2>2, <2>3, <2>4, <1>7
<1>9. CASE ReadCooldown(r)
  <2>1. PICK status, at :
          /\ Step(r, [p EXCEPT !.status = status, !.seen = Len(runs), !.at = at])
          /\ at = IF status = None /\ automation.actions # <<>> THEN "acting" ELSE "finished"
    BY <1>2, <1>9 DEF ReadCooldown
  <2>2. PICK q : q = [p EXCEPT !.status = status, !.seen = Len(runs), !.at = at]
    OBVIOUS
  <2>3. /\ q.at = at /\ q.id = id /\ q.results = <<>> /\ q.undone = p.undone
        /\ q.tried = 0 /\ q.status = status
    BY <1>2, <1>3, <2>2 DEF RequestFields
  <2>4. /\ NamesTasks(q.id, q.results, q.undone) /\ Delivered(q.id, q.results)
        /\ (\E S : q.undone \in Seq(S)) /\ \A j \in DOMAIN q.undone : q.undone[j].task \in Task
    BY <1>2, <1>3, <2>3 DEF RequestEffects
  <2>5. ASSUME at = "acting"
        PROVE  /\ Plain(q.results) /\ posts[q.id] <= SumTo(ActionPosts, Len(q.results)) + Tried(q)
               /\ q.tried < Current(q).attempts
    <3>1. automation.actions[1] \in Action /\ Current(q) = automation.actions[1]
      <4>1. automation.actions # <<>>
        BY <2>1, <2>5
      <4>2. automation.actions[1] \in Action
        BY <4>1, <1>3, Plans
      <4>. QED
        BY <4>2, <2>3, <2>5 DEF Current
    <3>2. Plain(q.results) /\ Len(q.results) = 0
      BY <2>3 DEF Plain
    <3>3. Tried(q) = 0 /\ SumTo(ActionPosts, 0) = 0
      BY <2>3, <1>3, Budgeted DEF Tried
    <3>. QED
      BY <3>1, <3>2, <3>3, <2>3, <1>3 DEF Action
  <2>6. at = "finished" /\ status = None => Len(q.results) = Len(automation.actions)
    BY <2>1, <2>3
  <2>7. RequestEffects(q)
    BY <2>1, <2>3, <2>4, <2>5, <2>6 DEF RequestEffects
  <2>8. at # "recorded"
    BY <2>1
  <2>. QED
    BY <2>1, <2>2, <2>3, <2>7, <2>8, <1>7
<1>. QED
  BY <1>8, <1>9

\* What is recorded of a request is what it did, and it has no other record, nor has its
\* key.
LEMMA EffectsRecorded ==
  ASSUME Spacing, EffectsSound, NEW r \in RunThreads, RecordRun(r)
  PROVE  EffectsSound'
<1>1. /\ UNCHANGED <<automation, target, reviews, posts, begun>>
      /\ threads[r] # None /\ threads[r].at = "finished"
  BY DEF RecordRun, world, effects, ThreadAt
<1>2. PICK p, id : p = threads[r] /\ id = p.id
  OBVIOUS
<1>3. /\ DOMAIN p = RequestFields /\ automation # None
      /\ p.status \in {None, "skipped_conditions", "skipped_cooldown"}
      /\ RequestEffects(p) /\ id \in DOMAIN posts
  BY <1>1, <1>2, InFlight DEF RequestSound, EffectsSound, Numbered
<1>4. \A i \in DOMAIN runs : runs[i].id # id
  BY <1>1, <1>2 DEF EffectsSound, Numbered
<1>5. \A s \in RunThreads : threads[s] # None /\ threads[s].id = id => s = r
  BY <1>1, <1>2 DEF EffectsSound, Numbered
<1>6. CASE Taken(p.key)
  <2>1. Step(r, None) /\ runs' = runs
    BY <1>2, <1>6 DEF RecordRun
  <2>2. \A s \in RunThreads : threads'[s] = threads[s] \/ threads'[s] = None
    BY <2>1, Stepped DEF Spacing
  <2>. QED
    BY <2>1, <2>2, <1>1, EffectsKept
<1>7. CASE ~Taken(p.key)
  <2>1. PICK row : /\ runs' = Append(runs, row) /\ row.id = id /\ row.key = p.key
                   /\ row.results = p.results /\ row.undone = p.undone
                   /\ row.status = IF p.status # None THEN p.status ELSE RunStatus(p.results)
    BY <1>2, <1>7 DEF RecordRun
  <2>2. PICK q : q = [p EXCEPT !.at = "recorded"]
    OBVIOUS
  <2>3. Step(r, q)
    BY <1>2, <1>7, <2>2 DEF RecordRun
  <2>4. /\ q.at = "recorded" /\ q.id = id /\ q.results = p.results /\ q.undone = p.undone
        /\ q.status = p.status /\ q.tried = p.tried
    BY <1>2, <1>3, <2>2 DEF RequestFields
  <2>5. /\ DOMAIN runs' = DOMAIN runs \union {Len(runs) + 1} /\ Len(runs) + 1 \notin DOMAIN runs
        /\ runs'[Len(runs) + 1] = row /\ \A i \in DOMAIN runs : runs'[i] = runs[i]
    <3>1. PICK S : runs \in Seq(S)
      BY DEF Spacing, RunsRead
    <3>2. runs \in Seq(S \union {row}) /\ runs' \in Seq(S \union {row})
      BY <2>1, <3>1
    <3>. QED
      BY <2>1, <3>2
  <2>6. \A s \in RunThreads : threads'[s] = IF s = r THEN q ELSE threads[s]
    BY <2>3, Stepped DEF Spacing
  <2>7. RowEffects(row)
    <3>1. NamesTasks(row.id, row.results, row.undone) /\ Delivered(row.id, row.results)
      BY <1>2, <1>3, <2>1 DEF RequestEffects
    <3>2. ASSUME row.status \notin {"skipped_conditions", "skipped_cooldown"}
          PROVE  Len(row.results) = Len(automation.actions)
      <4>1. p.status = None
        BY <3>2, <2>1, <1>3
      <4>. QED
        BY <4>1, <1>1, <1>2, <1>3, <2>1 DEF RequestEffects
    <3>. QED
      BY <3>1, <3>2 DEF RowEffects
  <2>8. RequestEffects(q)
    BY <1>1, <1>2, <1>3, <2>4 DEF RequestEffects
  <2>9. KeysApart'
    <3>1. SUFFICES ASSUME NEW i \in DOMAIN runs', NEW j \in DOMAIN runs',
                          runs'[i].key = runs'[j].key, runs'[i].key # None
                   PROVE  i = j
      BY DEF KeysApart
    <3>2. \A k \in DOMAIN runs : p.key # None => runs[k].key # p.key
      BY <1>7 DEF Taken, Recorded
    <3>3. CASE i \in DOMAIN runs /\ j \in DOMAIN runs
      BY <3>1, <3>3, <2>5 DEF EffectsSound, KeysApart
    <3>. QED
      BY <3>1, <3>2, <3>3, <2>1, <2>5
  <2>10. Numbered'
    <3>1. /\ posts' \in Seq(Nat) /\ begun' = Len(posts') /\ automation' # None
          /\ \A n \in DOMAIN reviews' : reviews'[n].run \in DOMAIN posts'
      BY <1>1, <1>3 DEF EffectsSound, Numbered
    <3>2. \A i \in DOMAIN runs' : runs'[i].id \in DOMAIN posts'
      BY <1>1, <1>3, <2>1, <2>5 DEF EffectsSound, Numbered
    <3>3. ASSUME NEW s \in RunThreads, threads'[s] # None
          PROVE  /\ threads'[s].id \in DOMAIN posts'
                 /\ \A x \in RunThreads : threads'[x] # None /\ threads'[x].id = threads'[s].id => x = s
                 /\ \A i \in DOMAIN runs' : runs'[i].id = threads'[s].id => threads'[s].at = "recorded"
      <4>1. CASE s = r
        BY <4>1, <1>1, <1>3, <1>5, <2>4, <2>6
      <4>2. CASE s # r
        <5>1. /\ threads'[s] = threads[s] /\ threads[s] # None /\ threads[s].id # id
              /\ threads[s].id \in DOMAIN posts
              /\ \A x \in RunThreads : threads[x] # None /\ threads[x].id = threads[s].id => x = s
              /\ \A i \in DOMAIN runs : runs[i].id = threads[s].id => threads[s].at = "recorded"
          BY <4>2, <3>3, <1>5, <2>6 DEF EffectsSound, Numbered
        <5>. QED
          BY <5>1, <4>2, <1>1, <2>1, <2>4, <2>5, <2>6
      <4>. QED
        BY <4>1, <4>2
    <3>. QED
      BY <3>1, <3>2, <3>3 DEF Numbered
  <2>11. ASSUME NEW i \in DOMAIN runs'
         PROVE  RowEffects(runs[i])'
    <3>1. PICK w : w = runs'[i]
      OBVIOUS
    <3>2. RowEffects(w)
      BY <3>1, <2>5, <2>7 DEF EffectsSound
    <3>3. RowEffects(w)'
      <4>1. PICK n, results, undone : n = w.id /\ results = w.results /\ undone = w.undone
        OBVIOUS
      <4>2. /\ NamesTasks(n, results, undone) => NamesTasks(n, results, undone)'
            /\ Delivered(n, results) => Delivered(n, results)'
        BY <1>1 DEF NamesTasks, Delivered
      <4>. QED
        BY <3>2, <4>1, <4>2, <1>1 DEF RowEffects
    <3>. QED
      BY <3>1, <3>3 DEF RowEffects, NamesTasks, Delivered
  <2>12. ASSUME NEW s \in RunThreads, threads'[s] # None
         PROVE  RequestEffects(threads[s])'
    <3>1. PICK w : w = threads'[s]
      OBVIOUS
    <3>2. RequestEffects(w)
      BY <3>1, <2>6, <2>8, <2>12 DEF EffectsSound
    <3>3. RequestEffects(w)'
      BY <3>2, <1>1, RequestSame
    <3>. QED
      BY <3>1, <3>3 DEF RequestEffects, Plain, OfResults, Tried, Current, NamesTasks, Delivered
  <2>13. \A n \in DOMAIN posts' : posts'[n] <= Budget'
    BY <1>1, <1>3 DEF EffectsSound, Budget
  <2>. QED
    BY <2>9, <2>10, <2>11, <2>12, <2>13 DEF EffectsSound
<1>. QED
  BY <1>6, <1>7

\* The results that are filled up, and what fills them up.
LEMMA FilledRows ==
  ASSUME Spacing, automation # None, automation' = automation, TasksTyped',
         NEW results, ResultsTyped(results)', NEW whole, whole = results \o Skipped(results)
  PROVE  /\ whole \in Seq(ResultRow') /\ Len(whole) = Len(automation.actions)
         /\ DOMAIN results \subseteq DOMAIN whole
         /\ \A k \in DOMAIN results : whole[k] = results[k]
         /\ \A k \in DOMAIN whole \ DOMAIN results :
              whole[k].task = None /\ whole[k].status = "skipped"
<1>. DEFINE rest == Skipped(results)
<1>1. /\ Len(automation.actions) \in Nat /\ Len(results) \in Nat
      /\ Len(results) <= Len(automation.actions) /\ results \in Seq(ResultRow')
  BY Plans DEF ResultsTyped
<1>2. PICK n \in Nat : n = Len(automation.actions) - Len(results)
  <2>1. Len(automation.actions) - Len(results) \in Nat
    BY <1>1
  <2>. QED
    BY <2>1
<1>3. rest = [i \in 1 .. n |-> [status |-> "skipped", task |-> None, tries |-> 0, undo |-> <<>>]]
  BY <1>2 DEF Skipped
<1>4. [status |-> "skipped", task |-> None, tries |-> 0, undo |-> <<>>] \in ResultRow'
  <2>1. <<>> \in Seq(UndoRow')
    OBVIOUS
  <2>. QED
    BY <2>1, TaskOfNone DEF ResultRow
<1>5. rest \in Seq(ResultRow') /\ Len(rest) = n
  BY <1>3, <1>4
<1>6. /\ whole \in Seq(ResultRow') /\ Len(whole) = Len(automation.actions)
      /\ DOMAIN results = 1 .. Len(results) /\ DOMAIN whole = 1 .. Len(whole)
      /\ \A k \in DOMAIN results : whole[k] = results[k]
      /\ \A k \in DOMAIN whole \ DOMAIN results : whole[k] = rest[k - Len(results)]
                                                 /\ k - Len(results) \in 1 .. n
  BY <1>1, <1>2, <1>5
<1>7. \A k \in DOMAIN whole \ DOMAIN results : whole[k].task = None /\ whole[k].status = "skipped"
  BY <1>3, <1>6
<1>8. DOMAIN results \subseteq DOMAIN whole
  BY <1>1, <1>6
<1>. QED
  BY <1>6, <1>7, <1>8

\* They name no task, and deliver nothing.
LEMMA FilledEffects ==
  ASSUME Spacing, automation # None, automation' = automation, TasksTyped',
         NEW results, ResultsTyped(results)', NEW whole, whole = results \o Skipped(results),
         NEW id, NEW undone, NamesTasks(id, results, undone)', Delivered(id, results)'
  PROVE  /\ NamesTasks(id, whole, undone)' /\ Delivered(id, whole)'
         /\ Len(whole) = Len(automation.actions)
<1>1. /\ Len(whole) = Len(automation.actions)
      /\ DOMAIN results \subseteq DOMAIN whole
      /\ \A k \in DOMAIN results : whole[k] = results[k]
      /\ \A k \in DOMAIN whole \ DOMAIN results : whole[k].task = None /\ whole[k].status = "skipped"
  BY FilledRows
<1>2. None \notin DOMAIN reviews'
  BY TaskOfNone
<1>3. \A n \in DOMAIN reviews' : Naming(whole, n) = Naming(results, n)
  BY <1>1, <1>2 DEF Naming
<1>4. NamesTasks(id, whole, undone)'
  BY <1>3 DEF NamesTasks
<1>5. Delivered(id, whole)'
  BY <1>1 DEF Delivered
<1>. QED
  BY <1>1, <1>4, <1>5

-----------------------------------------------------------------------------
(* The posts of what compensates. *)

\* What is planned to compensate an action may post as often as its plan says.
LEMMA PostsOfPlan ==
  ASSUME NEW plan \in Seq(Compensation), NEW task
  PROVE  PostsOfAll([i \in DOMAIN plan |-> [type |-> plan[i].type, task |-> task,
                                            attempts |-> plan[i].attempts]]) = PostsOfAll(plan)
<1>. PICK undo : undo = [i \in DOMAIN plan |-> [type |-> plan[i].type, task |-> task,
                                               attempts |-> plan[i].attempts]]
  OBVIOUS
<1>. DEFINE T == [type : STRING, task : {task}, attempts : 1 .. 5]
<1>1. /\ DOMAIN plan = 1 .. Len(plan) /\ Len(plan) \in Nat
      /\ \A i \in DOMAIN plan : plan[i] \in Compensation
  OBVIOUS
<1>2. \A i \in DOMAIN plan : undo[i] \in T
  BY <1>1 DEF Compensation
<1>3. undo \in Seq(T) /\ Len(undo) = Len(plan)
  <2>. HIDE DEF T
  <2>. QED
    BY <1>1, <1>2
<1>4. /\ \A x \in T : PostsOf(x) \in Nat
      /\ \A x \in Compensation : PostsOf(x) \in Nat
  BY DEF PostsOf, Compensation
<1>5. PostsOfAll(undo) = SumOf(Posted(undo)) /\ PostsOfAll(plan) = SumOf(Posted(plan))
  <2>. HIDE DEF T
  <2>. QED
    BY <1>3, <1>4, PostsSummed
<1>6. Posted(undo) = Posted(plan)
  <2>1. \A i \in DOMAIN plan : PostsOf(undo[i]) = PostsOf(plan[i])
    BY DEF PostsOf
  <2>. QED
    BY <2>1 DEF Posted
<1>. QED
  BY <1>5, <1>6

\* What is to be compensated was brought along by the results.
BroughtBy(results, undo) ==
  \A v \in DOMAIN undo :
    \E i \in DOMAIN results : \E u \in DOMAIN results[i].undo : undo[v] = results[i].undo[u]

\* What a run plans to compensate are the compensations that its results bring along.
LEMMA PlannedPosts ==
  ASSUME NEW U, \A x \in U : PostsOf(x) \in Nat, NEW R, \A row \in R : row.undo \in Seq(U),
         NEW results, results \in Seq(R), results # <<>>
  PROVE  /\ PostsOfAll(PlannedUndo(results))
              = SumOf([i \in DOMAIN results |-> PostsOfAll(results[i].undo)])
         /\ BroughtBy(results, PlannedUndo(results))
<1>0. PICK n \in Nat \ {0} : /\ DOMAIN results = 1 .. n /\ Len(results) = n
                             /\ \A i \in 1 .. n : results[i].undo \in Seq(U)
  <2>1. DOMAIN results = 1 .. Len(results) /\ Len(results) \in Nat \ {0}
    OBVIOUS
  <2>2. \A i \in DOMAIN results : results[i] \in R
    OBVIOUS
  <2>. QED
    BY <2>1, <2>2
<1>12. PICK w : w = [i \in DOMAIN results |-> PostsOfAll(results[i].undo)]
  OBVIOUS
<1>13. w \in [1 .. n -> Nat] /\ \A i \in 1 .. n : PostsOfAll(results[i].undo) = w[i]
  <2>1. \A i \in 1 .. n : PostsOfAll(results[i].undo) \in Nat
    BY <1>0, PostsSummed
  <2>. QED
    BY <2>1, <1>0, <1>12
<1>1. PICK own : own = [i \in DOMAIN results |-> results[i].undo]
  OBVIOUS
<1>2. own \in Seq(Seq(U)) /\ Len(own) = n
  BY <1>0, <1>1
<1>3. PICK seqs : seqs = Reverse(own)
  OBVIOUS
<1>4. /\ seqs \in Seq(Seq(U)) /\ Len(seqs) = n /\ DOMAIN seqs = 1 .. n
      /\ \A i \in 1 .. n : seqs[i] = own[n - i + 1]
  BY <1>2, <1>3 DEF Reverse
<1>5. PlannedUndo(results) = FlattenSeq(seqs) /\ seqs # <<>>
  BY <1>1, <1>3, <1>4 DEF PlannedUndo
<1>6. PICK x : x = [i \in DOMAIN seqs |-> PostsOfAll(seqs[i])]
  OBVIOUS
<1>7. PostsOfAll(FlattenSeq(seqs)) = SumOf(x)
  BY <1>4, <1>5, <1>6, PostsFlattened
<1>8. SumOf(x) = SumOf(w)
  <2>1. ASSUME NEW i \in 1 .. n
        PROVE  x[i] = w[n - i + 1] /\ x[i] \in Nat
    <3>1. PICK k \in 1 .. n : k = n - i + 1
      OBVIOUS
    <3>2. seqs[i] = results[k].undo
      BY <3>1, <1>0, <1>1, <1>4
    <3>. QED
      BY <3>1, <3>2, <1>4, <1>6, <1>13
  <2>2. x \in [1 .. n -> Nat]
    BY <2>1, <1>4, <1>6
  <2>. QED
    BY <2>1, <2>2, <1>13, SumReversed
<1>9. \A v \in DOMAIN FlattenSeq(seqs) :
        \E i \in DOMAIN seqs : \E u \in DOMAIN seqs[i] : FlattenSeq(seqs)[v] = seqs[i][u]
  <2>1. seqs \in Seq(Seq(U)) /\ seqs # <<>>
    BY <1>4, <1>5
  <2>. QED
    BY ONLY <2>1, FlattenedOnly
<1>10. PICK flat : flat = FlattenSeq(seqs)
  OBVIOUS
<1>11. ASSUME NEW v \in DOMAIN flat
       PROVE  \E i \in 1 .. n : \E u \in DOMAIN results[i].undo : flat[v] = results[i].undo[u]
  <2>1. \E i \in DOMAIN seqs : \E u \in DOMAIN seqs[i] : flat[v] = seqs[i][u]
    BY <1>9, <1>10, Zenon
  <2>2. PICK i, u : i \in 1 .. n /\ u \in DOMAIN seqs[i] /\ flat[v] = seqs[i][u]
    BY <1>4, <2>1
  <2>3. PICK k \in 1 .. n : k = n - i + 1
    BY <2>2
  <2>4. seqs[i] = results[k].undo
    BY <2>2, <2>3, <1>0, <1>1, <1>4
  <2>. QED
    BY <2>2, <2>4
<1>. QED
  BY <1>0, <1>5, <1>7, <1>8, <1>10, <1>11, <1>12 DEF BroughtBy

-----------------------------------------------------------------------------
(* One attempt. *)

\* The POSTs of one attempt at an action, at most.
Sends(type) == IF type = "send_notification" THEN 1 ELSE 0

\* What it may do: create a task, which it names, or name the one it is to roll back;
\* post once; and what it calls delivered the webhook has.
Attempting(q, type, status, task) ==
  /\ UNCHANGED <<automation, target>>
  /\ \/ /\ DOMAIN reviews' = DOMAIN reviews
        /\ task = None \/ (q.at = "compensating" /\ task = Head(q.undo).task)
     \/ /\ DOMAIN reviews' = DOMAIN reviews \union {task} /\ task \notin DOMAIN reviews
        /\ reviews'[task].run = q.id /\ status = "succeeded"
  /\ \A n \in DOMAIN reviews : reviews'[n].run = reviews[n].run
  /\ posts' \in Seq(Nat) /\ Len(posts') = Len(posts)
  /\ \A n \in DOMAIN posts : n # q.id => posts'[n] = posts[n]
  /\ posts[q.id] <= posts'[q.id] /\ posts'[q.id] <= posts[q.id] + Sends(type)
  /\ type = "send_notification" /\ status = "succeeded" =>
       target # None /\ (target.type = "webhook" => posts'[q.id] > 0)

\* A request that is about to make an attempt.
AtAttempt(q, type) ==
  /\ DOMAIN q = RequestFields /\ q.id \in DOMAIN posts /\ posts \in Seq(Nat)
  /\ RequestEffects(q) /\ UndoSound(q)
  /\ q.at \in {"acting", "compensating"} /\ Current(q).type = type

\* The attempt is within what is left of the plan.
LEMMA WithinPlan ==
  ASSUME Spacing, automation # None, NEW q, NEW type, AtAttempt(q, type), q.at = "acting"
  PROVE  LET n == Len(q.results) IN
         /\ n \in Nat /\ n + 1 \in 1 .. Len(automation.actions)
         /\ Current(q) = automation.actions[n + 1] /\ Current(q) \in Action
         /\ posts[q.id] + Sends(type) <= SumTo(ActionPosts, n + 1)
         /\ q.tried + 1 < Current(q).attempts =>
              posts[q.id] + Sends(type) <= SumTo(ActionPosts, n) + Sends(type) * (q.tried + 1)
<1>1. PICK n : n = Len(q.results)
  OBVIOUS
<1>2. n \in Nat /\ n < Len(automation.actions) /\ Len(automation.actions) \in Nat
  BY <1>1, Plans DEF AtAttempt, UndoSound, ResultsTyped
<1>3. PICK k \in 1 .. Len(automation.actions) : k = n + 1 /\ k - 1 = n /\ n \in 0 .. Len(automation.actions)
  BY <1>2
<1>4. PICK action : action = automation.actions[k]
  OBVIOUS
<1>5. Current(q) = action /\ action \in Action /\ action.type = type
  BY <1>1, <1>3, <1>4, Budgeted DEF Current, AtAttempt
<1>6. PICK a, b : a = SumTo(ActionPosts, n) /\ b = SumTo(ActionPosts, k)
  OBVIOUS
<1>7. a \in Nat /\ b \in Nat /\ b = a + PostsOf(action)
  BY <1>3, <1>4, <1>6, Budgeted
<1>8. PICK have, tried : have = posts[q.id] /\ tried = q.tried
  OBVIOUS
<1>9. have \in Nat /\ tried \in Nat
  BY <1>8 DEF AtAttempt, UndoSound
<1>10. have <= a + Tried(q) /\ tried < action.attempts /\ action.attempts \in Nat
  BY <1>1, <1>5, <1>6, <1>8 DEF AtAttempt, RequestEffects, Action
<1>11. CASE type = "send_notification"
  <2>1. /\ Sends(type) = 1 /\ Tried(q) = tried /\ PostsOf(action) = action.attempts
    BY <1>5, <1>8, <1>11 DEF Sends, Tried, PostsOf
  <2>2. have + 1 <= b
    BY <2>1, <1>7, <1>9, <1>10
  <2>3. have + 1 <= a + 1 * (tried + 1)
    BY <2>1, <1>7, <1>9, <1>10
  <2>. QED
    BY <2>1, <2>2, <2>3, <1>1, <1>2, <1>3, <1>4, <1>5, <1>6, <1>8
<1>12. CASE type # "send_notification"
  <2>1. /\ Sends(type) = 0 /\ Tried(q) = 0 /\ PostsOf(action) = 0
    BY <1>5, <1>12 DEF Sends, Tried, PostsOf
  <2>2. have + 0 <= b /\ have + 0 <= a + 0 * (tried + 1)
    BY <2>1, <1>7, <1>9, <1>10
  <2>. QED
    BY <2>1, <2>2, <1>1, <1>2, <1>3, <1>4, <1>5, <1>6, <1>8
<1>. QED
  BY <1>11, <1>12

\* A compensation that is tried once more stays within the budget.
LEMMA WithinUndo ==
  ASSUME Spacing, automation # None, NEW q, NEW type, AtAttempt(q, type), q.at = "compensating"
  PROVE  /\ q.undo # <<>> /\ q.undo \in Seq(UndoRow) /\ Head(q.undo) \in UndoRow
         /\ Current(q) = Head(q.undo)
         /\ PostsOfAll(q.undo) \in Nat /\ PostsOfAll(Tail(q.undo)) \in Nat
         /\ posts[q.id] + Sends(type) + PostsOfAll(Tail(q.undo)) <= Budget
         /\ q.tried + 1 < Current(q).attempts =>
              posts[q.id] + Sends(type) + PostsOfAll(q.undo) <= Budget + Sends(type) * (q.tried + 1)
<1>1. PICK undo, head : undo = q.undo /\ head = Head(q.undo)
  OBVIOUS
<1>2. /\ undo # <<>> /\ undo \in Seq(UndoRow) /\ head \in UndoRow /\ Current(q) = head
      /\ head.type = type
  BY <1>1 DEF AtAttempt, UndoSound, Current
<1>3. \A x \in UndoRow : PostsOf(x) \in Nat
  BY DEF PostsOf, UndoRow
<1>4. PICK all, rest : all = PostsOfAll(undo) /\ rest = PostsOfAll(Tail(undo))
  OBVIOUS
<1>5. all = PostsOf(head) + rest /\ PostsOf(head) \in Nat /\ rest \in Nat /\ all \in Nat
  BY <1>1, <1>2, <1>3, <1>4, PostsAhead
<1>6. PICK have, tried, budget : have = posts[q.id] /\ tried = q.tried /\ budget = Budget
  OBVIOUS
<1>7. have \in Nat /\ tried \in Nat /\ budget \in Nat
  BY <1>6, Budgeted DEF AtAttempt, UndoSound
<1>8. have + all <= budget + Tried(q) /\ tried < head.attempts /\ head.attempts \in Nat
  BY <1>1, <1>2, <1>4, <1>6 DEF AtAttempt, RequestEffects, UndoRow
<1>9. CASE type = "send_notification"
  <2>1. /\ Sends(type) = 1 /\ Tried(q) = tried /\ PostsOf(head) = head.attempts
    BY <1>2, <1>6, <1>9 DEF Sends, Tried, PostsOf
  <2>2. have + 1 + rest <= budget /\ have + 1 + all <= budget + 1 * (tried + 1)
    BY <2>1, <1>5, <1>7, <1>8
  <2>. QED
    BY <2>1, <2>2, <1>1, <1>2, <1>4, <1>5, <1>6
<1>10. CASE type # "send_notification"
  <2>1. /\ Sends(type) = 0 /\ Tried(q) = 0 /\ PostsOf(head) = 0
    BY <1>2, <1>10 DEF Sends, Tried, PostsOf
  <2>2. have + 0 + rest <= budget /\ have + 0 + all <= budget + 0 * (tried + 1)
    BY <2>1, <1>5, <1>7, <1>8
  <2>. QED
    BY <2>1, <2>2, <1>1, <1>2, <1>4, <1>5, <1>6
<1>. QED
  BY <1>9, <1>10

-----------------------------------------------------------------------------
(* The tasks it names. *)

\* What names a task one more time, or not.
LEMMA NamingAppended ==
  ASSUME NEW S, NEW list, list \in Seq(S), NEW x, NEW n
  PROVE  /\ x.task # n => Naming(Append(list, x), n) = Naming(list, n)
         /\ x.task = n /\ Naming(list, n) = {} => Cardinality(Naming(Append(list, x), n)) = 1
         /\ Naming(list, n) # {} => Naming(Append(list, x), n) # {}
<1>. PICK longer : longer = Append(list, x)
  OBVIOUS
<1>1. /\ DOMAIN list = 1 .. Len(list) /\ Len(list) \in Nat
      /\ DOMAIN longer = 1 .. Len(list) + 1
      /\ longer[Len(list) + 1] = x /\ \A k \in DOMAIN list : longer[k] = list[k]
  OBVIOUS
<1>2. PICK m : m = Len(list) + 1
  OBVIOUS
<1>3. m \notin DOMAIN list /\ DOMAIN longer = DOMAIN list \union {m} /\ longer[m] = x
  BY <1>1, <1>2
<1>4. x.task # n => Naming(longer, n) = Naming(list, n)
  BY <1>1, <1>3 DEF Naming
<1>5. ASSUME x.task = n, Naming(list, n) = {}
      PROVE  Cardinality(Naming(longer, n)) = 1
  <2>1. Naming(longer, n) = {m}
    BY <1>1, <1>3, <1>5 DEF Naming
  <2>. QED
    BY <2>1, FS_Singleton
<1>6. Naming(list, n) # {} => Naming(longer, n) # {}
  BY <1>1, <1>3 DEF Naming
<1>. QED
  BY <1>4, <1>5, <1>6

\* No result and no compensation names a task that is yet to come.
LEMMA Unnamed ==
  ASSUME NEW q, RequestEffects(q), UndoSound(q), NEW n, n # None, n \notin DOMAIN reviews
  PROVE  Naming(q.results, n) = {} /\ Naming(q.undone, n) = {}
<1>1. \A k \in DOMAIN q.results : q.results[k].task \in Task
  <2>1. q.results \in Seq(ResultRow)
    BY DEF UndoSound, ResultsTyped
  <2>2. \A row \in ResultRow : row.task \in Task
    BY DEF ResultRow
  <2>. QED
    BY <2>1, <2>2
<1>2. \A k \in DOMAIN q.undone : q.undone[k].task \in Task
  BY DEF RequestEffects
<1>. QED
  BY <1>1, <1>2 DEF Naming, Task

\* What an attempt at an action, or at a compensation, creates is named by its result.
LEMMA TasksNamed ==
  ASSUME NEW q, NEW type, NEW status, NEW task, Attempting(q, type, status, task), TasksTyped',
         RequestEffects(q), UndoSound(q), NEW result, result.task = task
  PROVE  /\ q.at = "acting" => NamesTasks(q.id, Append(q.results, result), q.undone)'
         /\ q.at = "compensating" => NamesTasks(q.id, q.results, Append(q.undone, result))'
         /\ status # "succeeded" => NamesTasks(q.id, q.results, q.undone)'
<1>1. PICK S, T : q.results \in Seq(S) /\ q.undone \in Seq(T)
  BY DEF UndoSound, ResultsTyped, RequestEffects
<1>2. PICK results, undone, id : results = q.results /\ undone = q.undone /\ id = q.id
  OBVIOUS
<1>3. PICK acted, made : acted = Append(results, result) /\ made = Append(undone, result)
  OBVIOUS
<1>10. results \in Seq(S) /\ undone \in Seq(T) /\ result.task = task
  BY <1>1, <1>2
<1>4. None \notin DOMAIN reviews'
  BY TaskOfNone
<1>5. ASSUME NEW n \in DOMAIN reviews', reviews'[n].run = id, n \in DOMAIN reviews
      PROVE  /\ \/ Cardinality(Naming(results, n)) = 1
                \/ Naming(results, n) = {} /\ Cardinality(Naming(undone, n)) = 1
             /\ q.at = "acting" => task # n
             /\ q.at = "compensating" => task # n \/ Naming(results, n) # {}
  <2>1. \/ Cardinality(Naming(results, n)) = 1
        \/ Naming(results, n) = {} /\ Cardinality(Naming(undone, n)) = 1
    BY <1>2, <1>5 DEF Attempting, RequestEffects, NamesTasks
  <2>2. q.at = "acting" => task # n
    BY <1>4, <1>5 DEF Attempting
  <2>3. ASSUME q.at = "compensating", task = n
        PROVE  Naming(results, n) # {}
    <3>1. task = Head(q.undo).task /\ task # None
      BY <2>3, <1>4, <1>5 DEF Attempting
    <3>2. 1 \in DOMAIN q.undo /\ Head(q.undo) = q.undo[1]
      BY <2>3 DEF UndoSound
    <3>3. OfResults(results, q.undo)
      BY <2>3, <1>2 DEF RequestEffects
    <3>. QED
      BY <2>3, <3>1, <3>2, <3>3 DEF OfResults
  <2>. QED
    BY <2>1, <2>2, <2>3
<1>6. ASSUME NEW n \in DOMAIN reviews', n \notin DOMAIN reviews
      PROVE  /\ task = n /\ status = "succeeded" /\ Naming(results, n) = {} /\ Naming(undone, n) = {}
  <2>1. task = n /\ status = "succeeded" /\ n # None
    BY <1>4, <1>6 DEF Attempting
  <2>. QED
    BY <2>1, <1>2, <1>6, Unnamed
<1>7. ASSUME q.at = "acting"
      PROVE  NamesTasks(id, acted, undone)'
  <2>1. SUFFICES ASSUME NEW n \in DOMAIN reviews', reviews'[n].run = id
                 PROVE  \/ Cardinality(Naming(acted, n)) = 1
                        \/ Naming(acted, n) = {} /\ Cardinality(Naming(undone, n)) = 1
    BY DEF NamesTasks
  <2>2. /\ result.task # n => Naming(acted, n) = Naming(results, n)
        /\ result.task = n /\ Naming(results, n) = {} => Cardinality(Naming(acted, n)) = 1
    BY <1>3, <1>10, NamingAppended
  <2>. QED
    BY <2>1, <2>2, <1>5, <1>6, <1>7, <1>10
<1>8. ASSUME q.at = "compensating"
      PROVE  NamesTasks(id, results, made)'
  <2>1. SUFFICES ASSUME NEW n \in DOMAIN reviews', reviews'[n].run = id
                 PROVE  \/ Cardinality(Naming(results, n)) = 1
                        \/ Naming(results, n) = {} /\ Cardinality(Naming(made, n)) = 1
    BY DEF NamesTasks
  <2>2. /\ result.task # n => Naming(made, n) = Naming(undone, n)
        /\ result.task = n /\ Naming(undone, n) = {} => Cardinality(Naming(made, n)) = 1
    BY <1>3, <1>10, NamingAppended
  <2>. QED
    BY <2>1, <2>2, <1>5, <1>6, <1>8, <1>10
<1>9. ASSUME status # "succeeded"
      PROVE  NamesTasks(id, results, undone)'
  BY <1>5, <1>6, <1>9 DEF NamesTasks
<1>. QED
  BY <1>2, <1>3, <1>7, <1>8, <1>9

-----------------------------------------------------------------------------
(* A request after an attempt. *)

\* What an attempt leaves to everyone.
LEMMA AttemptAside ==
  ASSUME NEW q, NEW type, AtAttempt(q, type), NEW status, NEW task,
         Attempting(q, type, status, task)
  PROVE  /\ Beside(q.id) /\ Task \subseteq Task' /\ automation' = automation
         /\ ActionPosts' = ActionPosts /\ UndoPosts' = UndoPosts /\ Budget' = Budget
         /\ DOMAIN posts' = DOMAIN posts /\ posts'[q.id] \in Nat /\ posts[q.id] \in Nat
         /\ (\E S : q.undone \in Seq(S)) /\ \A j \in DOMAIN q.undone : q.undone[j].task \in Task'
<1>1. /\ automation' = automation /\ target' = target
      /\ DOMAIN reviews \subseteq DOMAIN reviews'
      /\ \A n \in DOMAIN reviews' : n \notin DOMAIN reviews => reviews'[n].run = q.id
  BY DEF Attempting
<1>2. DOMAIN posts' = DOMAIN posts /\ posts'[q.id] \in Nat /\ posts[q.id] \in Nat
  BY DEF Attempting, AtAttempt
<1>3. Beside(q.id)
  BY <1>1, <1>2 DEF Beside, Attempting
<1>4. Task \subseteq Task'
  BY <1>1 DEF Task
<1>. QED
  BY <1>1, <1>2, <1>3, <1>4 DEF ActionPosts, UndoPosts, Budget, AtAttempt, RequestEffects

\* A request that has done an action accounts for what it did.
LEMMA ActedEffects ==
  ASSUME Spacing, automation # None, TasksTyped', NEW q, NEW type, AtAttempt(q, type),
         q.at = "acting", UndoSound(q)', NEW status, NEW task, Attempting(q, type, status, task),
         NEW result, result \in ResultRow', result.task = task,
         result.status = "succeeded" => status = "succeeded",
         PostsOfAll(result.undo) = PostsOfAll(Current(q).undo),
         \A u \in DOMAIN result.undo : result.undo[u].task = task,
         NEW p, p = Acted(q, result), UndoSound(p)'
  PROVE  RequestEffects(p)' /\ p.id = q.id /\ p.at # "recorded"
<1>1. PICK n, results, undone, id : /\ n = Len(q.results) /\ results = q.results
                                    /\ undone = q.undone /\ id = q.id
  OBVIOUS
<1>2. /\ n \in Nat /\ n + 1 \in 1 .. Len(automation.actions)
      /\ Current(q) = automation.actions[n + 1]
      /\ posts[id] + Sends(type) <= SumTo(ActionPosts, n + 1)
  BY <1>1, WithinPlan
<1>3. /\ Task \subseteq Task' /\ automation' = automation
      /\ ActionPosts' = ActionPosts /\ UndoPosts' = UndoPosts /\ Budget' = Budget
      /\ posts'[id] \in Nat /\ posts[id] \in Nat /\ target' = target
      /\ (\E S : undone \in Seq(S)) /\ \A j \in DOMAIN undone : undone[j].task \in Task'
  BY <1>1, AttemptAside DEF Attempting
<1>4. PICK joined : joined = Append(results, result)
  OBVIOUS
<1>5. /\ joined \in Seq(ResultRow') /\ Len(joined) = n + 1 /\ DOMAIN joined = 1 .. n + 1
      /\ DOMAIN results = 1 .. n
      /\ joined[n + 1] = result /\ \A k \in 1 .. n : joined[k] = results[k]
      /\ Len(automation.actions) \in Nat
  <2>1. results \in Seq(ResultRow')
    BY <1>1 DEF UndoSound, ResultsTyped
  <2>2. Len(automation.actions) \in Nat
    BY Budgeted
  <2>. QED
    BY <2>1, <2>2, <1>1, <1>4
<1>6. NamesTasks(id, joined, undone)'
  BY <1>1, <1>4, TasksNamed DEF AtAttempt
<1>7. Delivered(id, joined)'
  <2>1. SUFFICES ASSUME NEW j \in 1 .. n + 1,
                        automation.actions[j].type = "send_notification",
                        joined[j].status = "succeeded"
                 PROVE  target # None /\ (target.type = "webhook" => posts'[id] > 0)
    BY <1>3, <1>5 DEF Delivered
  <2>2. CASE j \in 1 .. n
    <3>1. target # None /\ (target.type = "webhook" => posts[id] > 0)
      BY <2>1, <2>2, <1>1, <1>5 DEF AtAttempt, RequestEffects, Delivered
    <3>2. posts[id] <= posts'[id]
      BY <1>1 DEF Attempting
    <3>. QED
      BY <3>1, <3>2, <1>3
  <2>3. CASE j = n + 1
    <3>1. type = "send_notification" /\ status = "succeeded"
      BY <2>1, <2>3, <1>2, <1>5 DEF AtAttempt
    <3>. QED
      BY <3>1, <1>1 DEF Attempting
  <2>. QED
    BY <2>2, <2>3, <1>2
<1>8. Plain(joined)'
  <2>1. Plain(results)
    BY <1>1 DEF AtAttempt, RequestEffects
  <2>2. UndoPosts[n + 1] = PostsOfAll(Current(q).undo)
    BY <1>2, Budgeted DEF UndoPosts
  <2>3. SUFFICES ASSUME NEW i \in 1 .. n + 1
                 PROVE  /\ PostsOfAll(joined[i].undo) = UndoPosts[i]
                        /\ \A u \in DOMAIN joined[i].undo : joined[i].undo[u].task = joined[i].task
    BY <1>3, <1>5 DEF Plain
  <2>4. CASE i \in 1 .. n
    BY <2>1, <2>4, <1>5 DEF Plain
  <2>5. CASE i = n + 1
    BY <2>2, <2>5, <1>5
  <2>. QED
    BY <2>4, <2>5, <1>2
<1>9. posts'[id] <= SumTo(ActionPosts, n + 1) /\ SumTo(ActionPosts, n + 1) \in Nat
  <2>1. posts'[id] <= posts[id] + Sends(type) /\ Sends(type) \in Nat
    BY <1>1 DEF Attempting, Sends
  <2>2. SumTo(ActionPosts, n + 1) \in Nat
    <3>1. n + 1 \in 0 .. Len(automation.actions)
      BY <1>2, <1>5
    <3>. QED
      BY <3>1, Budgeted
  <2>. QED
    BY <2>1, <2>2, <1>2, <1>3
<1>10. ASSUME p.results = joined, p.undone = undone, p.id = id, p.tried = 0,
              p.at = IF Len(joined) < Len(automation.actions) THEN "acting" ELSE "finished"
       PROVE  RequestEffects(p)'
  <2>1. CASE Len(joined) < Len(automation.actions)
    <3>1. p.at = "acting" /\ Len(p.results) = n + 1
      BY <2>1, <1>10, <1>5
    <3>2. n + 2 \in 1 .. Len(automation.actions) /\ n + 2 = (n + 1) + 1
      BY <2>1, <1>2, <1>5
    <3>3. Current(p)' = automation.actions[n + 2] /\ automation.actions[n + 2] \in Action
      BY <3>1, <3>2, <1>3, Budgeted DEF Current
    <3>4. 0 < (Current(p)').attempts
      BY <3>3 DEF Action
    <3>5. Tried(p)' = 0
      BY <1>10 DEF Tried
    <3>6. posts'[id] <= SumTo(ActionPosts, n + 1) + 0
      BY <1>3, <1>9
    <3>. QED
      BY <3>1, <3>4, <3>5, <3>6, <1>3, <1>6, <1>7, <1>8, <1>10 DEF RequestEffects
  <2>2. CASE ~ (Len(joined) < Len(automation.actions))
    <3>1. p.at = "finished" /\ Len(p.results) = Len(automation.actions)
      BY <2>2, <1>2, <1>5, <1>10
    <3>. QED
      BY <3>1, <1>3, <1>6, <1>7, <1>10 DEF RequestEffects
  <2>. QED
    BY <2>1, <2>2
<1>11. ASSUME p.results = joined, p.undone = undone, p.id = id, p.tried = 0, p.at = "compensating",
              p.undo = PlannedUndo(joined), PlannedUndo(joined) # <<>>
       PROVE  RequestEffects(p)'
  <2>1. PICK w : w = [i \in 1 .. n + 1 |-> UndoPosts[i]]
    OBVIOUS
  <2>2. n + 1 \in Nat \ {0} /\ n + 1 \in 0 .. Len(automation.actions)
    BY <1>2, <1>5
  <2>3. w \in [1 .. n + 1 -> Nat] /\ SumOf(w) = SumTo(UndoPosts, n + 1)
    <3>1. \A i \in 1 .. n + 1 : i \in 1 .. Len(automation.actions)
      BY <1>2, <1>5
    <3>2. UndoPosts \in [1 .. Len(automation.actions) -> Nat]
      BY Budgeted
    <3>. QED
      BY <3>1, <3>2, <2>1 DEF SumTo
  <2>4. \A i \in 1 .. n + 1 : /\ joined[i].undo \in Seq(UndoRow')
                              /\ PostsOfAll(joined[i].undo) = w[i]
    <3>1. \A i \in 1 .. n + 1 : joined[i] \in ResultRow'
      BY <1>5
    <3>2. \A row \in ResultRow' : row.undo \in Seq(UndoRow')
      BY DEF ResultRow
    <3>. QED
      BY <3>1, <3>2, <2>1, <1>3, <1>5, <1>8 DEF Plain
  <2>5. /\ \A x \in UndoRow' : PostsOf(x) \in Nat
        /\ \A row \in ResultRow' : row.undo \in Seq(UndoRow')
    BY DEF PostsOf, UndoRow, ResultRow
  <2>6. PICK U, R : U = UndoRow' /\ R = ResultRow'
    OBVIOUS
  <2>7. /\ PostsOfAll(PlannedUndo(joined)) = SumOf(w)
        /\ BroughtBy(joined, PlannedUndo(joined))
    <3>1. /\ \A x \in U : PostsOf(x) \in Nat
          /\ \A row \in R : row.undo \in Seq(U)
          /\ joined \in Seq(R) /\ joined # <<>>
      BY <2>2, <2>5, <2>6, <1>5
    <3>2. w = [i \in DOMAIN joined |-> PostsOfAll(joined[i].undo)]
      BY <2>1, <2>4, <1>5
    <3>3. PostsOfAll(PlannedUndo(joined))
            = SumOf([i \in DOMAIN joined |-> PostsOfAll(joined[i].undo)])
      BY ONLY <3>1, PlannedPosts
    <3>4. BroughtBy(joined, PlannedUndo(joined))
      BY ONLY <3>1, PlannedPosts
    <3>. QED
      BY <3>2, <3>3, <3>4
  <2>8. OfResults(joined, p.undo)
    <3>1. ASSUME NEW v \in DOMAIN p.undo, p.undo[v].task # None
          PROVE  Naming(joined, p.undo[v].task) # {}
      <4>1. PICK i \in DOMAIN joined : \E u \in DOMAIN joined[i].undo : p.undo[v] = joined[i].undo[u]
        BY <3>1, <2>7, <1>11 DEF BroughtBy
      <4>2. p.undo[v].task = joined[i].task
        BY <4>1, <1>5, <1>8 DEF Plain
      <4>. QED
        BY <4>2, <1>5 DEF Naming
    <3>. QED
      BY <3>1 DEF OfResults
  <2>9. posts'[id] + PostsOfAll(p.undo) <= Budget + 0
    <3>1. /\ SumTo(UndoPosts, n + 1) \in Nat /\ Budget \in Nat
          /\ SumTo(ActionPosts, n + 1) + SumTo(UndoPosts, n + 1) <= Budget
      BY <2>2, Budgeted
    <3>2. PostsOfAll(p.undo) = SumTo(UndoPosts, n + 1)
      BY <2>3, <2>7, <1>11
    <3>. QED
      BY <3>1, <3>2, <1>3, <1>9
  <2>10. Current(p)' = Head(p.undo) /\ Head(p.undo) \in UndoRow'
    BY <1>11 DEF Current, UndoSound
  <2>11. 0 < (Current(p)').attempts
    BY <2>10 DEF UndoRow
  <2>12. Tried(p)' = 0
    BY <1>11 DEF Tried
  <2>13. OfResults(joined, p.undo)'
    BY <2>8 DEF OfResults
  <2>. QED
    BY <2>9, <2>11, <2>12, <2>13, <1>3, <1>6, <1>7, <1>11 DEF RequestEffects
<1>12. ASSUME p.results = joined \o Skipped(joined), p.undone = undone, p.id = id,
              p.at = "finished"
       PROVE  RequestEffects(p)'
  <2>1. ResultsTyped(joined)'
    BY <1>2, <1>3, <1>5 DEF ResultsTyped
  <2>2. PICK whole : whole = joined \o Skipped(joined)
    OBVIOUS
  <2>3. /\ NamesTasks(id, whole, undone)' /\ Delivered(id, whole)'
        /\ Len(whole) = Len(automation.actions)
    BY <2>1, <2>2, <1>3, <1>6, <1>7, FilledEffects
  <2>. QED
    BY <2>2, <2>3, <1>3, <1>12 DEF RequestEffects
<1>13. PICK plan : plan = automation.actions[n + 1]
  OBVIOUS
<1>14. Current(q) = plan /\ DOMAIN q = RequestFields
  BY <1>2, <1>13 DEF AtAttempt
<1>15. CASE ~(result.status \in Failures /\ Halts(plan))
  <2>1. p = [q EXCEPT !.results = joined, !.undo = <<>>, !.tried = 0,
               !.at = IF Len(joined) < Len(automation.actions) THEN "acting" ELSE "finished"]
    BY <1>1, <1>4, <1>14, <1>15 DEF Acted
  <2>2. /\ p.results = joined /\ p.undone = undone /\ p.id = id /\ p.tried = 0
        /\ p.at = IF Len(joined) < Len(automation.actions) THEN "acting" ELSE "finished"
    BY <2>1, <1>1, <1>14 DEF RequestFields
  <2>. QED
    BY <2>2, <1>1, <1>10
<1>16. CASE result.status \in Failures /\ plan.on_failure = "compensate" /\ PlannedUndo(joined) # <<>>
  <2>1. p = [q EXCEPT !.results = joined, !.undo = PlannedUndo(joined), !.tried = 0,
               !.at = "compensating"]
    BY <1>1, <1>4, <1>14, <1>16 DEF Acted, Halts
  <2>2. /\ p.results = joined /\ p.undone = undone /\ p.id = id /\ p.tried = 0
        /\ p.at = "compensating" /\ p.undo = PlannedUndo(joined)
    BY <2>1, <1>1, <1>14 DEF RequestFields
  <2>. QED
    BY <2>2, <1>1, <1>11, <1>16
<1>17. CASE /\ result.status \in Failures /\ Halts(plan)
            /\ plan.on_failure = "compensate" => PlannedUndo(joined) = <<>>
  <2>1. PICK whole : whole = joined \o Skipped(joined)
    OBVIOUS
  <2>2. ~ (Len(whole) < Len(automation.actions))
    <3>1. ResultsTyped(joined)'
      BY <1>2, <1>3, <1>5 DEF ResultsTyped
    <3>2. Len(whole) = Len(automation.actions)
      BY <3>1, <2>1, <1>3, FilledRows
    <3>. QED
      BY <3>2, <1>5
  <2>3. p = [q EXCEPT !.results = whole, !.undo = <<>>, !.tried = 0, !.at = "finished"]
    <3>1. CASE plan.on_failure = "compensate"
      <4>1. PlannedUndo(joined) = <<>>
        BY <3>1, <1>17
      <4>. QED
        BY <4>1, <3>1, <2>1, <2>2, <1>1, <1>4, <1>14, <1>17 DEF Acted
    <3>2. CASE plan.on_failure # "compensate"
      BY <3>2, <2>1, <2>2, <1>1, <1>4, <1>14, <1>17 DEF Acted
    <3>. QED
      BY <3>1, <3>2
  <2>4. p.results = whole /\ p.undone = undone /\ p.id = id /\ p.at = "finished"
    BY <2>3, <1>1, <1>14 DEF RequestFields
  <2>. QED
    BY <2>1, <2>4, <1>1, <1>12
<1>. QED
  BY <1>15, <1>16, <1>17 DEF Halts

\* And so does one that has compensated.
LEMMA CompensatedEffects ==
  ASSUME Spacing, automation # None, TasksTyped', NEW q, NEW type, AtAttempt(q, type),
         q.at = "compensating", UndoSound(q)', NEW status, NEW task,
         Attempting(q, type, status, task), task \in Task',
         NEW result, result.task = task,
         NEW p, p = Compensated(q, result), UndoSound(p)'
  PROVE  RequestEffects(p)' /\ p.id = q.id /\ p.at # "recorded"
<1>1. PICK results, undone, id, rest : /\ results = q.results /\ undone = q.undone /\ id = q.id
                                       /\ rest = Tail(q.undo)
  OBVIOUS
<1>2. /\ q.undo # <<>> /\ q.undo \in Seq(UndoRow) /\ PostsOfAll(rest) \in Nat
      /\ posts[id] + Sends(type) + PostsOfAll(rest) <= Budget
  BY <1>1, WithinUndo
<1>3. /\ Task \subseteq Task' /\ automation' = automation /\ target' = target /\ Budget' = Budget
      /\ posts'[id] \in Nat /\ posts[id] \in Nat
      /\ (\E S : undone \in Seq(S)) /\ \A j \in DOMAIN undone : undone[j].task \in Task'
  BY <1>1, AttemptAside DEF Attempting
<1>4. PICK made : made = Append(undone, result)
  OBVIOUS
<1>5. (\E S : made \in Seq(S)) /\ \A j \in DOMAIN made : made[j].task \in Task'
  <2>1. PICK S : undone \in Seq(S)
    BY <1>3
  <2>2. undone \in Seq(S \union {result})
    BY <2>1
  <2>3. made \in Seq(S \union {result})
    BY <2>2, <1>4
  <2>4. \A j \in DOMAIN made : made[j] = result \/ (j \in DOMAIN undone /\ made[j] = undone[j])
    <3>1. DOMAIN made = DOMAIN undone \union {Len(undone) + 1} /\ made[Len(undone) + 1] = result
      BY <2>1, <1>4
    <3>2. \A j \in DOMAIN undone : made[j] = undone[j]
      BY <2>1, <1>4
    <3>. QED
      BY <3>1, <3>2
  <2>. QED
    BY <2>3, <2>4, <1>3
<1>6. NamesTasks(id, results, made)'
  BY <1>1, <1>4, TasksNamed DEF AtAttempt
<1>7. Delivered(id, results)'
  <2>1. posts[id] <= posts'[id]
    BY <1>1 DEF Attempting
  <2>2. Delivered(id, results)
    BY <1>1 DEF AtAttempt, RequestEffects
  <2>. QED
    BY <2>1, <2>2, <1>3 DEF Delivered
<1>8. posts'[id] + PostsOfAll(rest) <= Budget
  <2>1. posts'[id] <= posts[id] + Sends(type) /\ Sends(type) \in Nat /\ Budget \in Nat
    BY <1>1, Budgeted DEF Attempting, Sends
  <2>. QED
    BY <2>1, <1>2, <1>3
<1>9. DOMAIN q = RequestFields
  BY DEF AtAttempt
<1>10. CASE rest # <<>>
  <2>1. /\ p.results = results /\ p.undone = made /\ p.undo = rest /\ p.tried = 0
        /\ p.at = "compensating" /\ p.id = id
    BY <1>1, <1>4, <1>9, <1>10 DEF Compensated, RequestFields
  <2>2. OfResults(results, rest)
    <3>1. OfResults(results, q.undo)
      BY <1>1 DEF AtAttempt, RequestEffects
    <3>2. \A u \in DOMAIN rest : u + 1 \in DOMAIN q.undo /\ rest[u] = q.undo[u + 1]
      BY <1>1, <1>2
    <3>. QED
      BY <3>1, <3>2 DEF OfResults
  <2>3. OfResults(results, rest)'
    BY <2>2 DEF OfResults
  <2>4. Current(p)' = Head(rest) /\ Head(rest) \in UndoRow'
    BY <2>1, <1>10 DEF Current, UndoSound
  <2>5. 0 < (Current(p)').attempts
    BY <2>4 DEF UndoRow
  <2>6. Tried(p)' = 0
    BY <2>1 DEF Tried
  <2>7. posts'[id] + PostsOfAll(rest) <= Budget + 0
    BY <1>8, Budgeted
  <2>. QED
    BY <2>1, <2>3, <2>5, <2>6, <2>7, <1>1, <1>3, <1>5, <1>6, <1>7 DEF RequestEffects
<1>11. CASE rest = <<>>
  <2>1. PICK whole : whole = results \o Skipped(results)
    OBVIOUS
  <2>2. p.results = whole /\ p.undone = made /\ p.at = "finished" /\ p.id = id
    BY <2>1, <1>1, <1>4, <1>9, <1>11 DEF Compensated, RequestFields
  <2>3. ResultsTyped(results)'
    BY <1>1 DEF UndoSound
  <2>4. /\ NamesTasks(id, whole, made)' /\ Delivered(id, whole)'
        /\ Len(whole) = Len(automation.actions)
    BY <2>1, <2>3, <1>3, <1>6, <1>7, FilledEffects
  <2>. QED
    BY <2>2, <2>4, <1>1, <1>3, <1>5 DEF RequestEffects
<1>. QED
  BY <1>10, <1>11

\* Another attempt is still within what the plan allows.
LEMMA TriedEffects ==
  ASSUME Spacing, automation # None, TasksTyped', NEW q, NEW type, AtAttempt(q, type),
         NEW status, status # "succeeded", NEW task, Attempting(q, type, status, task),
         q.tried + 1 < Current(q).attempts,
         NEW p, p = [q EXCEPT !.tried = @ + 1]
  PROVE  RequestEffects(p)' /\ p.id = q.id /\ p.at # "recorded"
<1>1. PICK results, undone, id : results = q.results /\ undone = q.undone /\ id = q.id
  OBVIOUS
<1>2. /\ p.results = results /\ p.undone = undone /\ p.id = id /\ p.at = q.at
      /\ p.undo = q.undo /\ p.tried = q.tried + 1
  BY <1>1 DEF AtAttempt, RequestFields
<1>3. /\ Task \subseteq Task' /\ automation' = automation /\ target' = target
      /\ ActionPosts' = ActionPosts /\ UndoPosts' = UndoPosts /\ Budget' = Budget
      /\ posts'[id] \in Nat /\ posts[id] \in Nat
      /\ (\E S : undone \in Seq(S)) /\ \A j \in DOMAIN undone : undone[j].task \in Task'
  BY <1>1, AttemptAside DEF Attempting
<1>4. NamesTasks(id, results, undone)'
  <2>1. PICK result : result.task = task
    <3>1. [task |-> task].task = task
      OBVIOUS
    <3>. QED
      BY <3>1
  <2>. QED
    BY <2>1, <1>1, TasksNamed DEF AtAttempt
<1>5. Delivered(id, results)'
  <2>1. posts[id] <= posts'[id]
    BY <1>1 DEF Attempting
  <2>2. Delivered(id, results)
    BY <1>1 DEF AtAttempt, RequestEffects
  <2>. QED
    BY <2>1, <2>2, <1>3 DEF Delivered
<1>6. posts'[id] <= posts[id] + Sends(type) /\ Sends(type) \in Nat /\ q.tried \in Nat
  BY <1>1 DEF Attempting, Sends, AtAttempt, UndoSound
<1>7. Current(p)' = Current(q) /\ Current(q).type = type
  BY <1>1, <1>2, <1>3 DEF Current, AtAttempt
<1>8. Tried(p)' = Sends(type) * (q.tried + 1)
  BY <1>2, <1>6, <1>7 DEF Tried, Sends
<1>9. CASE q.at = "acting"
  <2>1. PICK n : n = Len(results)
    OBVIOUS
  <2>2. posts[id] + Sends(type) <= SumTo(ActionPosts, n) + Sends(type) * (q.tried + 1)
    BY <2>1, <1>1, <1>9, WithinPlan
  <2>3. SumTo(ActionPosts, n) \in Nat
    <3>1. n \in 0 .. Len(automation.actions)
      BY <2>1, <1>1, <1>9, WithinPlan, Budgeted
    <3>. QED
      BY <3>1, Budgeted
  <2>4. PICK t : t = Sends(type) * (q.tried + 1)
    OBVIOUS
  <2>5. t \in Nat
    BY <2>4, <1>6 DEF Sends
  <2>6. posts'[id] <= SumTo(ActionPosts, n) + Tried(p)'
    <3>1. PICK a, b, s, x : a = posts[id] /\ b = posts'[id] /\ s = Sends(type) /\ x = SumTo(ActionPosts, n)
      OBVIOUS
    <3>2. a \in Nat /\ b \in Nat /\ s \in Nat /\ x \in Nat /\ b <= a + s /\ a + s <= x + t
      BY <3>1, <2>2, <2>3, <2>4, <1>3, <1>6
    <3>3. b <= x + t
      BY <3>2, <2>5
    <3>. QED
      BY <3>1, <3>3, <2>4, <1>8
  <2>7. Plain(results)'
    BY <1>1, <1>3, <1>9 DEF AtAttempt, RequestEffects, Plain
  <2>. QED
    BY <2>1, <2>6, <2>7, <1>1, <1>2, <1>3, <1>4, <1>5, <1>7, <1>9 DEF RequestEffects
<1>10. CASE q.at = "compensating"
  <2>1. PICK undo : undo = q.undo
    OBVIOUS
  <2>2. /\ posts[id] + Sends(type) + PostsOfAll(undo) <= Budget + Sends(type) * (q.tried + 1)
        /\ PostsOfAll(undo) \in Nat
    BY <2>1, <1>1, <1>10, WithinUndo
  <2>3. Budget \in Nat
    BY Budgeted
  <2>4. PICK t : t = Sends(type) * (q.tried + 1)
    OBVIOUS
  <2>5. t \in Nat
    BY <2>4, <1>6 DEF Sends
  <2>6. posts'[id] + PostsOfAll(undo) <= Budget + Tried(p)'
    <3>1. PICK a, b, s, u, x : /\ a = posts[id] /\ b = posts'[id] /\ s = Sends(type)
                               /\ u = PostsOfAll(undo) /\ x = Budget
      OBVIOUS
    <3>2. /\ a \in Nat /\ b \in Nat /\ s \in Nat /\ u \in Nat /\ x \in Nat
          /\ b <= a + s /\ a + s + u <= x + t
      BY <3>1, <2>2, <2>3, <2>4, <1>3, <1>6
    <3>3. b + u <= x + t
      BY <3>2, <2>5
    <3>. QED
      BY <3>1, <3>3, <2>4, <1>8
  <2>7. OfResults(results, undo)'
    BY <2>1, <1>1, <1>10 DEF AtAttempt, RequestEffects, OfResults
  <2>. QED
    BY <2>1, <2>6, <2>7, <1>1, <1>2, <1>3, <1>4, <1>5, <1>7, <1>10 DEF RequestEffects
<1>. QED
  BY <1>1, <1>2, <1>9, <1>10 DEF AtAttempt

\* However an attempt ends, what it did is accounted for.
LEMMA EffectsAttempted ==
  ASSUME Spacing, RollbackSound, TasksTyped', EffectsSound, NEW r \in RunThreads,
         NEW type, Attempts(r, type),
         NEW status \in {"succeeded", "skipped", "failed", "unsupported"}, NEW task \in Task',
         Settle(r, status, task), Attempting(threads[r], type, status, task), TasksStay,
         /\ threads[r].at = "compensating"
         /\ Head(threads[r].undo).type = "rollback_review_task"
         /\ Head(threads[r].undo).task # None
         => reviews'[Head(threads[r].undo).task].status = "resolved"
  PROVE  EffectsSound'
<1>1. /\ threads[r] # None /\ RequestSound(threads[r]) /\ automation # None
      /\ threads[r].at \in {"acting", "compensating"} /\ UNCHANGED <<runs, begun>>
  BY InFlight DEF Attempts, world
<1>2. PICK q, id : q = threads[r] /\ id = q.id
  OBVIOUS
<1>3. AtAttempt(q, type) /\ Attempting(q, type, status, task)
  BY <1>1, <1>2 DEF AtAttempt, RequestSound, EffectsSound, Numbered, RollbackSound, Attempts
<1>4. /\ Beside(id) /\ automation' = automation /\ posts'[id] \in Nat /\ posts[id] \in Nat
      /\ posts' \in Seq(Nat) /\ Len(posts') = Len(posts)
  BY <1>2, <1>3, AttemptAside DEF Attempting
<1>5. UndoSound(q)'
  <2>1. UndoSound(q)
    BY <1>3 DEF AtAttempt
  <2>. QED
    BY <2>1, <1>4, UndoStays DEF RollbackSound
<1>7. posts'[id] <= Budget
  <2>1. Budget \in Nat /\ Sends(type) \in Nat /\ posts'[id] <= posts[id] + Sends(type)
    BY <1>1, <1>2, <1>3, Budgeted DEF Attempting, Sends
  <2>2. CASE q.at = "acting"
    <3>1. PICK k : k = Len(q.results) + 1
      OBVIOUS
    <3>2. k \in 1 .. Len(automation.actions) /\ posts[id] + Sends(type) <= SumTo(ActionPosts, k)
      BY <3>1, <2>2, <1>1, <1>2, <1>3, WithinPlan
    <3>3. SumTo(ActionPosts, k) \in Nat /\ SumTo(ActionPosts, k) <= Budget
      <4>1. k \in 0 .. Len(automation.actions)
        BY <3>2, <1>1, Budgeted
      <4>. QED
        BY <4>1, <1>1, Budgeted
    <3>. QED
      BY <3>2, <3>3, <2>1, <1>4
  <2>3. CASE q.at = "compensating"
    <3>1. /\ PostsOfAll(Tail(q.undo)) \in Nat
          /\ posts[id] + Sends(type) + PostsOfAll(Tail(q.undo)) <= Budget
      BY <2>3, <1>1, <1>2, <1>3, WithinUndo
    <3>. QED
      BY <3>1, <2>1, <1>4
  <2>. QED
    BY <2>2, <2>3, <1>1, <1>2
<1>8. ASSUME NEW p, Step(r, p), RequestEffects(p)', p.id = id, p.at # "recorded"
      PROVE  EffectsSound'
  BY <1>1, <1>2, <1>4, <1>7, <1>8, EffectsGoOn
<1>9. CASE TriesAgain(q, status)
  <2>1. PICK p : p = [q EXCEPT !.tried = @ + 1]
    OBVIOUS
  <2>2. Step(r, p)
    BY <2>1, <1>2, <1>9 DEF Settle
  <2>3. status # "succeeded" /\ q.tried + 1 < Current(q).attempts
    BY <1>9 DEF TriesAgain, Failures
  <2>4. RequestEffects(p)' /\ p.id = q.id /\ p.at # "recorded"
    BY <2>1, <2>3, <1>1, <1>3, <1>5, TriedEffects
  <2>. QED
    BY <2>2, <2>4, <1>2, <1>8
<1>10. CASE ~TriesAgain(q, status) /\ q.at = "acting"
  <2>1. PICK plan : plan = Current(q).undo
    OBVIOUS
  <2>2. plan \in Seq(Compensation)
    BY <2>1, <1>1, <1>3, <1>10, WithinPlan DEF Action
  <2>3. PICK undo : undo = [i \in DOMAIN plan |-> [type |-> plan[i].type, task |-> task,
                                                  attempts |-> plan[i].attempts]]
    OBVIOUS
  <2>4. PICK settled : settled = IF status \in Failures THEN "dead_lettered" ELSE status
    OBVIOUS
  <2>5. PICK result : result = [status |-> settled, task |-> task, tries |-> q.tried + 1,
                                undo |-> undo]
    OBVIOUS
  <2>6. undo \in Seq(UndoRow')
    <3>1. \A i \in DOMAIN plan : plan[i] \in Compensation
      BY <2>2
    <3>2. \A i \in DOMAIN plan : undo[i] \in UndoRow'
      BY <3>1, <2>3 DEF Compensation, UndoRow
    <3>3. DOMAIN plan = 1 .. Len(plan) /\ Len(plan) \in Nat
      BY <2>2
    <3>. QED
      BY <3>2, <3>3, <2>3
  <2>7. result \in ResultRow'
    <3>1. q.tried \in Nat
      BY <1>3 DEF AtAttempt, UndoSound
    <3>. QED
      BY <3>1, <2>4, <2>5, <2>6 DEF ResultRow, Failures
  <2>8. PICK p : p = Acted(q, result)
    OBVIOUS
  <2>9. Step(r, p)
    BY <1>2, <1>10, <2>1, <2>3, <2>4, <2>5, <2>8 DEF Settle
  <2>10. UndoSound(p)'
    <3>1. ASSUME result.task # None, HasRollback(Len(q.results) + 1)'
          PROVE  \E u \in DOMAIN result.undo : RollsBack(result.undo[u], result.task)
      <4>1. plan = automation.actions[Len(q.results) + 1].undo
        BY <2>1, <1>10 DEF Current
      <4>2. PICK u \in DOMAIN plan : plan[u].type = "rollback_review_task"
        BY <3>1, <4>1, <1>4 DEF HasRollback
      <4>3. u \in DOMAIN undo /\ RollsBack(undo[u], task)
        BY <4>2, <2>3 DEF RollsBack
      <4>. QED
        BY <4>3, <2>5
    <3>. QED
      BY <3>1, <2>7, <2>8, <1>1, <1>3, <1>4, <1>5, <1>10, ActedSound DEF AtAttempt
  <2>11. PostsOfAll(result.undo) = PostsOfAll(Current(q).undo)
    <3>1. result.undo = [i \in DOMAIN plan |-> [type |-> plan[i].type, task |-> task,
                                                 attempts |-> plan[i].attempts]]
      BY <2>3, <2>5
    <3>2. PostsOfAll([i \in DOMAIN plan |-> [type |-> plan[i].type, task |-> task,
                                             attempts |-> plan[i].attempts]]) = PostsOfAll(plan)
      BY <2>2, PostsOfPlan
    <3>3. Current(q).undo = plan
      BY <2>1
    <3>. QED
      BY <3>1, <3>2, <3>3
  <2>12. /\ result.task = task /\ (result.status = "succeeded" => status = "succeeded")
         /\ \A u \in DOMAIN result.undo : result.undo[u].task = task
    BY <2>3, <2>4, <2>5 DEF Failures
  <2>13. RequestEffects(p)' /\ p.id = q.id /\ p.at # "recorded"
    BY <2>7, <2>8, <2>10, <2>11, <2>12, <1>1, <1>3, <1>5, <1>10, ActedEffects
  <2>. QED
    BY <2>9, <2>13, <1>2, <1>8
<1>11. CASE ~TriesAgain(q, status) /\ q.at = "compensating"
  <2>1. PICK result : Step(r, Compensated(q, result)) /\ result.task = task
    BY <1>2, <1>11 DEF Settle
  <2>2. PICK p : p = Compensated(q, result)
    OBVIOUS
  <2>3. UndoSound(p)'
    <3>1. Head(q.undo).type = "rollback_review_task" /\ Head(q.undo).task # None
          => Resolved(Head(q.undo).task)'
      BY <1>2, <1>11 DEF Resolved
    <3>. QED
      BY <3>1, <2>2, <1>1, <1>3, <1>4, <1>5, <1>11, CompensatedSound DEF AtAttempt
  <2>4. RequestEffects(p)' /\ p.id = q.id /\ p.at # "recorded"
    BY <2>1, <2>2, <2>3, <1>1, <1>3, <1>5, <1>11, CompensatedEffects
  <2>. QED
    BY <2>1, <2>2, <2>4, <1>2, <1>8
<1>. QED
  BY <1>1, <1>2, <1>9, <1>10, <1>11

-----------------------------------------------------------------------------
(* Every attempt, and every other step. *)

\* What neither creates a task nor posts.
LEMMA NothingCreated ==
  ASSUME Spacing, RollbackSound, EffectsSound, NEW r \in RunThreads, NEW type, Attempts(r, type),
         type # "rollback_review_task", UNCHANGED <<reviews, posts>>,
         NEW status \in {"succeeded", "skipped", "failed", "unsupported"},
         Settle(r, status, None),
         type = "send_notification" /\ status = "succeeded" =>
           target # None /\ target.type # "webhook"
  PROVE  EffectsSound'
<1>1. TasksTyped' /\ TasksStay /\ None \in Task'
  BY TasksSame DEF RollbackSound
<1>2. posts \in Seq(Nat) /\ threads[r].id \in DOMAIN posts
  BY DEF EffectsSound, Numbered, Attempts
<1>3. posts[threads[r].id] \in Nat /\ Sends(type) \in Nat
  BY <1>2 DEF Sends
<1>4. Attempting(threads[r], type, status, None)
  BY <1>2, <1>3 DEF Attempting, Attempts, world
<1>5. threads[r].at = "compensating" => Head(threads[r].undo).type # "rollback_review_task"
  BY DEF Attempts, Current
<1>. QED
  BY <1>1, <1>4, <1>5, EffectsAttempted

\* An attempt that creates a review task.
LEMMA TaskCreated ==
  ASSUME Spacing, RollbackSound, EffectsSound, NEW r \in RunThreads, CreateTask(r)
  PROVE  EffectsSound'
<1>1. PICK row : row = [status |-> "open", decision |-> None, run |-> threads[r].id,
                        key |-> threads[r].key]
  OBVIOUS
<1>2. /\ reviews' = Append(reviews, row) /\ row.run = threads[r].id
      /\ DOMAIN row = {"status", "decision", "run", "key"}
      /\ Attempts(r, "create_review_task") /\ Settle(r, "succeeded", Len(reviews'))
      /\ posts' = posts
  BY <1>1 DEF CreateTask
<1>3. TasksTyped' /\ TasksStay /\ Len(reviews') \in DOMAIN reviews'
  BY <1>2, TaskAdded DEF RollbackSound
<1>4. PICK task : task = Len(reviews')
  OBVIOUS
<1>5. /\ DOMAIN reviews' = DOMAIN reviews \union {task} /\ task \notin DOMAIN reviews
      /\ reviews'[task] = row /\ \A n \in DOMAIN reviews : reviews'[n] = reviews[n]
  <2>1. PICK S : reviews \in Seq(S)
    BY DEF RollbackSound, TasksTyped
  <2>2. reviews \in Seq(S \union {row})
    BY <2>1
  <2>3. /\ DOMAIN reviews = 1 .. Len(reviews) /\ Len(reviews) \in Nat
        /\ DOMAIN reviews' = 1 .. Len(reviews) + 1 /\ task = Len(reviews) + 1
        /\ reviews'[Len(reviews) + 1] = row /\ \A n \in DOMAIN reviews : reviews'[n] = reviews[n]
    BY <2>2, <1>2, <1>4
  <2>. QED
    BY <2>3
<1>6. posts \in Seq(Nat) /\ threads[r].id \in DOMAIN posts
  BY <1>2 DEF EffectsSound, Numbered, Attempts
<1>7. posts[threads[r].id] \in Nat /\ Sends("create_review_task") = 0
  BY <1>6 DEF Sends
<1>8. Attempting(threads[r], "create_review_task", "succeeded", task)
  BY <1>2, <1>5, <1>6, <1>7 DEF Attempting, Attempts, world
<1>9. threads[r].at = "compensating" => Head(threads[r].undo).type # "rollback_review_task"
  BY <1>2 DEF Attempts, Current
<1>10. task \in Task'
  BY <1>3, <1>4 DEF Task
<1>. QED
  BY <1>2, <1>3, <1>4, <1>8, <1>9, <1>10, EffectsAttempted

\* An attempt that rolls one back.
LEMMA TaskRolledBack ==
  ASSUME Spacing, RollbackSound, EffectsSound, NEW r \in RunThreads, RollbackTask(r)
  PROVE  EffectsSound'
<1>1. /\ Attempts(r, "rollback_review_task") /\ posts' = posts /\ threads[r] # None
      /\ UNCHANGED <<automation, target>>
  BY DEF RollbackTask, Attempts, world
<1>2. PICK task : task = IF threads[r].at = "compensating" THEN Current(threads[r]).task ELSE None
  OBVIOUS
<1>3. posts \in Seq(Nat) /\ threads[r].id \in DOMAIN posts
  BY <1>1 DEF EffectsSound, Numbered
<1>4. posts[threads[r].id] \in Nat /\ Sends("rollback_review_task") = 0
  BY <1>3 DEF Sends
<1>5. CASE task = None
  <2>1. Settle(r, "skipped", None) /\ reviews' = reviews
    BY <1>2, <1>5 DEF RollbackTask
  <2>2. TasksTyped' /\ TasksStay /\ None \in Task'
    BY <2>1, TasksSame DEF RollbackSound
  <2>3. threads[r].at = "compensating" => Head(threads[r].undo).task = None
    BY <1>2, <1>5 DEF Current
  <2>4. Attempting(threads[r], "rollback_review_task", "skipped", None)
    BY <2>1, <1>1, <1>3, <1>4 DEF Attempting
  <2>. QED
    BY <2>1, <2>2, <2>3, <2>4, <1>1, EffectsAttempted
<1>6. CASE task # None
  <2>1. /\ reviews' = [reviews EXCEPT ![task] = RolledBack(reviews[task])]
        /\ Settle(r, "succeeded", task)
    BY <1>2, <1>6 DEF RollbackTask
  <2>2. threads[r].at = "compensating" /\ task = Head(threads[r].undo).task
    BY <1>2, <1>6 DEF Current
  <2>3. task \in DOMAIN reviews
    <3>1. UndoSound(threads[r])
      BY <1>1 DEF RollbackSound
    <3>2. Head(threads[r].undo) \in UndoRow
      BY <3>1, <2>2 DEF UndoSound
    <3>. QED
      BY <3>2, <2>2, <1>6 DEF UndoRow, Task
  <2>4. PICK row : row = RolledBack(reviews[task])
    OBVIOUS
  <2>5. /\ DOMAIN row = {"status", "decision", "run", "key"} /\ row.status = "resolved"
        /\ row.run = reviews[task].run
    BY <2>3, <2>4 DEF RolledBack, RollbackSound, TasksTyped
  <2>6. TasksTyped' /\ TasksStay /\ reviews'[task].status = "resolved"
    BY <2>1, <2>3, <2>4, <2>5, TaskResolved DEF Resolved, RollbackSound
  <2>7. /\ DOMAIN reviews' = DOMAIN reviews
        /\ \A n \in DOMAIN reviews : reviews'[n].run = reviews[n].run
    BY <2>1, <2>4, <2>5
  <2>8. Attempting(threads[r], "rollback_review_task", "succeeded", task)
    BY <2>2, <2>7, <1>1, <1>3, <1>4 DEF Attempting
  <2>9. task \in Task'
    BY <2>3, <2>7 DEF Task
  <2>. QED
    BY <2>1, <2>2, <2>6, <2>8, <2>9, <1>1, EffectsAttempted
<1>. QED
  BY <1>5, <1>6

\* An attempt that posts a notification.
LEMMA Notified ==
  ASSUME Spacing, RollbackSound, EffectsSound, NEW r \in RunThreads, PostNotification(r)
  PROVE  EffectsSound'
<1>1. PICK received \in BOOLEAN, status \in {"succeeded", "failed"} :
        /\ status = "succeeded" => received
        /\ posts' = IF received THEN [posts EXCEPT ![threads[r].id] = @ + 1] ELSE posts
        /\ Settle(r, status, None)
  BY DEF PostNotification
<1>2. /\ Attempts(r, "send_notification") /\ reviews' = reviews /\ target # None
      /\ UNCHANGED <<automation, target>>
  BY DEF PostNotification, Attempts, world, Deliverable
<1>3. posts \in Seq(Nat) /\ threads[r].id \in DOMAIN posts
  BY <1>2 DEF EffectsSound, Numbered, Attempts
<1>4. PICK id : id = threads[r].id
  OBVIOUS
<1>5. /\ posts' \in Seq(Nat) /\ Len(posts') = Len(posts) /\ posts[id] \in Nat
      /\ \A n \in DOMAIN posts : n # id => posts'[n] = posts[n]
      /\ posts'[id] = IF received THEN posts[id] + 1 ELSE posts[id]
  BY <1>1, <1>3, <1>4
<1>6. Attempting(threads[r], "send_notification", status, None)
  <2>1. Sends("send_notification") = 1
    BY DEF Sends
  <2>2. posts[id] <= posts'[id] /\ posts'[id] <= posts[id] + 1
        /\ (status = "succeeded" => posts'[id] > 0)
    BY <1>1, <1>5
  <2>. QED
    BY <2>1, <2>2, <1>2, <1>4, <1>5 DEF Attempting
<1>7. TasksTyped' /\ TasksStay /\ None \in Task'
  BY <1>2, TasksSame DEF RollbackSound
<1>8. threads[r].at = "compensating" => Head(threads[r].undo).type # "rollback_review_task"
  BY <1>2 DEF Attempts, Current
<1>. QED
  BY <1>1, <1>2, <1>6, <1>7, <1>8, EffectsAttempted

\* However an attempt at an action ends, its request accounts for it.
LEMMA EffectsAttempts ==
  ASSUME Spacing, RollbackSound, EffectsSound, NEW r \in RunThreads,
         \/ CreateTask(r) \/ RollbackTask(r) \/ AddExample(r) \/ CommitRoute(r)
         \/ Preview(r) \/ Undelivered(r) \/ PostNotification(r) \/ Unsupported(r)
  PROVE  EffectsSound'
<1>1. CASE AddExample(r)
  <2>1. \E status \in {"succeeded", "skipped", "failed"} : Settle(r, status, None)
    BY <1>1 DEF AddExample
  <2>. QED
    BY <2>1, <1>1, NothingCreated DEF AddExample
<1>2. CASE CommitRoute(r)
  BY <1>2, NothingCreated DEF CommitRoute
<1>3. CASE Preview(r)
  <2>1. \E status \in {"succeeded", "failed"} : Settle(r, status, None)
    BY <1>3 DEF Preview
  <2>. QED
    BY <2>1, <1>3, NothingCreated DEF Preview, effects
<1>4. CASE Undelivered(r)
  <2>1. \E status \in {"succeeded", "failed"} :
          /\ Settle(r, status, None)
          /\ status = "succeeded" => target # None /\ target.type # "webhook"
    BY <1>4 DEF Undelivered, Deliverable
  <2>. QED
    BY <2>1, <1>4, NothingCreated DEF Undelivered, effects
<1>5. CASE Unsupported(r)
  BY <1>5, NothingCreated DEF Unsupported, effects
<1>. QED
  BY <1>1, <1>2, <1>3, <1>4, <1>5, TaskCreated, TaskRolledBack, Notified

\* No step leaves a task or a POST unaccounted for.
LEMMA EffectsStep ==
  ASSUME Spacing, RollbackSound, EffectsSound, AutomationNext
  PROVE  EffectsSound'
<1>1. ASSUME NEW d \in Definitions, CreateAutomation(d)
      PROVE  EffectsSound'
  <2>1. /\ posts = <<>> /\ runs = <<>> /\ \A r \in RunThreads : threads[r] = None
        /\ UNCHANGED <<posts, runs, threads, reviews, begun>>
    BY <1>1 DEF CreateAutomation, effects, EffectsSound, Numbered, Spacing, Settled
  <2>2. Numbered' /\ KeysApart' /\ DOMAIN posts' = {} /\ DOMAIN runs' = {}
    BY <2>1 DEF EffectsSound, Numbered, KeysApart
  <2>. QED
    BY <2>1, <2>2 DEF EffectsSound
<1>2. CASE \/ \E row \in TargetRows : CreateTarget(row)
           \/ LoseSecret \/ PassTime
           \/ \E t \in TriggerTraces, status \in {"ok", "error", None} : StoreTrace(t, status)
  <2>1. /\ UNCHANGED <<automation, threads, runs, begun, posts, reviews>>
        /\ target # None => target' = target
    BY <1>2 DEF CreateTarget, LoseSecret, PassTime, StoreTrace, effects
  <2>. QED
    BY <2>1, EffectsKept
<1>3. ASSUME NEW i \in DOMAIN reviews, DecideReview(i)
      PROVE  EffectsSound'
  <2>1. UNCHANGED <<automation, threads, runs, begun, posts, target>>
    BY <1>3 DEF DecideReview, world
  <2>2. PICK row : row = [reviews[i] EXCEPT !.status = "resolved", !.decision = "accepted"]
    OBVIOUS
  <2>3. row.run = reviews[i].run /\ reviews' = [reviews EXCEPT ![i] = row]
    BY <1>3, <2>2 DEF DecideReview, RollbackSound, TasksTyped
  <2>4. /\ DOMAIN reviews' = DOMAIN reviews
        /\ \A n \in DOMAIN reviews : reviews'[n].run = reviews[n].run
    BY <2>3
  <2>. QED
    BY <2>1, <2>4, EffectsKept
<1>4. ASSUME NEW r \in RunThreads, Requested(r)
      PROVE  EffectsSound'
  <2>1. CASE AuditRun(r) \/ RunStops(r)
    <3>1. Step(r, None) /\ UNCHANGED <<automation, runs, begun, posts, reviews, target>>
      BY <2>1 DEF AuditRun, RunStops, world, effects
    <3>2. \A s \in RunThreads : threads'[s] = threads[s] \/ threads'[s] = None
      BY <3>1, Stepped DEF Spacing
    <3>. QED
      BY <3>1, <3>2, EffectsKept
  <2>. QED
    BY <1>4, <2>1, EffectsBegun, EffectsReads, EffectsAttempts, EffectsRecorded
    DEF Requested, ContinueRun
<1>5. \/ \E d \in Definitions : CreateAutomation(d)
      \/ \/ \E row \in TargetRows : CreateTarget(row)
         \/ LoseSecret \/ PassTime
         \/ \E t \in TriggerTraces, status \in {"ok", "error", None} : StoreTrace(t, status)
      \/ \E i \in DOMAIN reviews : DecideReview(i)
      \/ \E r \in RunThreads : Requested(r)
  BY DEF AutomationNext, Requested
<1>. QED
  BY <1>1, <1>2, <1>3, <1>4, <1>5

\* What is accounted for is so in every behavior.
LEMMA EffectsAlways == AutomationSpec => []EffectsSound
<1>1. AutomationInit => EffectsSound
  <2>1. SUFFICES ASSUME AutomationInit
                 PROVE  EffectsSound
    OBVIOUS
  <2>2. /\ posts = <<>> /\ runs = <<>> /\ reviews = <<>> /\ begun = 0 /\ automation = None
        /\ \A r \in RunThreads : threads[r] = None
    BY <2>1 DEF AutomationInit
  <2>. QED
    BY <2>2 DEF EffectsSound, Numbered, KeysApart
<1>2. Spacing /\ RollbackSound /\ EffectsSound /\ [AutomationNext]_automationVars => EffectsSound'
  <2>1. EffectsSound /\ UNCHANGED automationVars => EffectsSound'
    BY EffectsKept DEF automationVars
  <2>. QED
    BY <2>1, EffectsStep
<1>. QED
  BY <1>1, <1>2, SpacingAlways, RollbackAlways, PTL DEF AutomationSpec

\* Of the requests that race for an idempotency key one is recorded, and its record
\* accounts for every review task it created, by its actions or by its compensations;
\* what a recorded result calls delivered the webhook has received, and no request, by
\* lost answers, retries and resent compensations together, posts more often than its
\* plan allows (main.py, _execute_automation_action_with_retries and
\* _execute_automation_actions).
THEOREM Effects == AutomationSpec => []EffectsAccounted
<1>1. Spacing /\ RollbackSound /\ EffectsSound => EffectsAccounted
  <2>1. SUFFICES ASSUME Spacing, RollbackSound, EffectsSound
                 PROVE  TasksAccounted /\ PostsWithinAttempts
    BY DEF EffectsAccounted
  <2>2. TasksAccounted
    <3>1. \A i, j \in DOMAIN runs : runs[i].key = runs[j].key /\ runs[i].key # None => i = j
      BY <2>1 DEF EffectsSound, KeysApart
    <3>2. \A i \in DOMAIN runs : NamesTasks(runs[i].id, runs[i].results, runs[i].undone)
      BY <2>1 DEF EffectsSound, RowEffects
    <3>. QED
      BY <3>1, <3>2 DEF TasksAccounted, NamesTasks
  <2>3. automation # None => \A n \in DOMAIN posts : posts[n] <= SendBudget(automation.actions)
    BY <2>1 DEF EffectsSound, Budget
  <2>4. ASSUME NEW i \in Executed, NEW j \in DOMAIN automation.actions,
               automation.actions[j].type = "send_notification",
               runs[i].results[j].status = "succeeded", target.type = "webhook"
        PROVE  posts[runs[i].id] > 0
    <3>1. i \in DOMAIN runs /\ runs # <<>>
      BY <2>4 DEF Executed
    <3>2. /\ Delivered(runs[i].id, runs[i].results)
          /\ Len(runs[i].results) = Len(automation.actions)
      BY <2>1, <2>4, <3>1 DEF EffectsSound, RowEffects, Executed
    <3>3. automation # None
      BY <2>1, <3>1 DEF Spacing, Settled
    <3>4. j \in DOMAIN runs[i].results
      <4>1. runs[i].results \in Seq(ResultRow)
        BY <2>1, <3>1 DEF RollbackSound, RowSound, ResultsTyped
      <4>2. automation.actions \in Seq(Action)
        BY <2>1, <3>3, Plans
      <4>. QED
        BY <4>1, <4>2, <2>4, <3>2
    <3>. QED
      BY <2>4, <3>2, <3>4 DEF Delivered
  <2>. QED
    BY <2>2, <2>3, <2>4 DEF PostsWithinAttempts
<1>. QED
  BY <1>1, SpacingAlways, RollbackAlways, EffectsAlways, PTL

-----------------------------------------------------------------------------
(* Where a request of an automation is. *)

\* Only a request that compensates has something to undo, and a recorded one has its row.
PlaceSound(q) ==
  /\ q.at # "compensating" => q.undo = <<>>
  /\ q.at = "recorded" => \E i \in DOMAIN runs : runs[i].id = q.id

AutomationTyped ==
  /\ time \in 0 .. MaxHours
  /\ statuses \in [TriggerTraces -> {"ok", "error", None}]
  /\ target \in TargetRows \union {None}
  /\ {secret, external} \subseteq BOOLEAN
  /\ audited \subseteq {runs[i].id : i \in DOMAIN runs}
  /\ begun \in 0 .. MaxRuns
  /\ \A r \in RunThreads : threads[r] # None => PlaceSound(threads[r])

\* A step of a request, which leaves the rest of the tables.
LEMMA PlaceGoesOn ==
  ASSUME Spacing, AutomationTyped, NEW r \in RunThreads, NEW q, Step(r, q),
         UNCHANGED <<world, audited, begun>>,
         runs' = runs \/ \E row : runs' = Append(runs, row),
         q # None => PlaceSound(q)'
  PROVE  AutomationTyped'
<1>1. PICK S : runs \in Seq(S)
  BY DEF Spacing, RunsRead
<1>2. /\ DOMAIN runs \subseteq DOMAIN runs' /\ \A i \in DOMAIN runs : runs'[i] = runs[i]
  BY <1>1
<1>3. \A s \in RunThreads : threads'[s] = IF s = r THEN q ELSE threads[s]
  BY Stepped DEF Spacing
<1>4. ASSUME NEW s \in RunThreads, threads'[s] # None
      PROVE  PlaceSound(threads[s])'
  <2>1. PICK p : p = threads'[s]
    OBVIOUS
  <2>2. CASE s = r
    BY <1>3, <1>4, <2>2
  <2>3. CASE s # r
    <3>1. PlaceSound(p)
      BY <1>3, <1>4, <2>1, <2>3 DEF AutomationTyped
    <3>2. PlaceSound(p)'
      BY <1>2, <3>1 DEF PlaceSound
    <3>. QED
      BY <2>1, <3>2
  <2>. QED
    BY <2>2, <2>3
<1>5. UNCHANGED <<time, statuses, target, secret, external, audited, begun>>
  BY DEF world
<1>6. audited' \subseteq {runs'[i].id : i \in DOMAIN runs'}
  BY <1>2, <1>5 DEF AutomationTyped
<1>. QED
  BY <1>4, <1>5, <1>6 DEF AutomationTyped

\* However an attempt ends.
LEMMA PlaceSettled ==
  ASSUME Spacing, AutomationTyped, NEW r \in RunThreads, NEW type, Attempts(r, type),
         NEW status, NEW task, Settle(r, status, task)
  PROVE  AutomationTyped'
<1>1. PICK q : q = threads[r]
  OBVIOUS
<1>2. /\ DOMAIN q = RequestFields /\ q.at \in {"acting", "compensating"} /\ PlaceSound(q)
      /\ runs' = runs
  BY <1>1 DEF Attempts, Spacing, RequestsSound, RequestSound, AutomationTyped
<1>3. PICK result : Step(r, IF TriesAgain(q, status) THEN [q EXCEPT !.tried = @ + 1]
                            ELSE IF q.at = "acting" THEN Acted(q, result)
                            ELSE Compensated(q, result))
  BY <1>1 DEF Settle
<1>4. PICK p : /\ Step(r, p)
               /\ p = IF TriesAgain(q, status) THEN [q EXCEPT !.tried = @ + 1]
                      ELSE IF q.at = "acting" THEN Acted(q, result) ELSE Compensated(q, result)
  BY <1>3
<1>5. /\ p.at # "compensating" => p.undo = <<>>
      /\ p.at # "recorded"
  <2>1. CASE TriesAgain(q, status)
    <3>1. p = [q EXCEPT !.tried = @ + 1]
      BY <1>4, <2>1
    <3>2. p.at = q.at /\ p.undo = q.undo
      BY <1>2, <3>1 DEF RequestFields
    <3>. QED
      BY <1>2, <3>2 DEF PlaceSound
  <2>2. CASE ~ TriesAgain(q, status) /\ q.at = "acting"
    <3>1. p = Acted(q, result)
      BY <1>4, <2>2
    <3>2. PICK all, undo :
            p = [q EXCEPT !.results = all, !.undo = undo, !.tried = 0,
                   !.at = IF undo # <<>> THEN "compensating"
                          ELSE IF Len(all) < Len(automation.actions) THEN "acting" ELSE "finished"]
      BY <3>1 DEF Acted
    <3>. QED
      BY <1>2, <3>2 DEF RequestFields
  <2>3. CASE ~ TriesAgain(q, status) /\ q.at = "compensating"
    <3>1. p = Compensated(q, result)
      BY <1>4, <2>3
    <3>2. /\ p.undo = Tail(q.undo)
          /\ p.at = IF Tail(q.undo) = <<>> THEN "finished" ELSE q.at
      BY <1>2, <3>1 DEF Compensated, RequestFields
    <3>. QED
      BY <2>3, <3>2
  <2>. QED
    BY <1>2, <2>1, <2>2, <2>3
<1>6. PlaceSound(p)'
  BY <1>5 DEF PlaceSound
<1>. QED
  BY <1>2, <1>4, <1>6, PlaceGoesOn DEF Attempts

LEMMA PlaceStep ==
  ASSUME Spacing, AutomationTyped, AutomationNext
  PROVE  AutomationTyped'
<1>1. ASSUME UNCHANGED <<threads, runs, audited, begun>>
      PROVE  /\ audited' \subseteq {runs'[i].id : i \in DOMAIN runs'}
             /\ begun' \in 0 .. MaxRuns
             /\ \A r \in RunThreads : threads'[r] # None => PlaceSound(threads[r])'
  BY <1>1 DEF AutomationTyped, PlaceSound
<1>2. CASE \/ \E d \in Definitions : CreateAutomation(d)
           \/ \E row \in TargetRows : CreateTarget(row)
           \/ \E i \in DOMAIN reviews : DecideReview(i)
           \/ LoseSecret
  <2>1. /\ UNCHANGED <<threads, runs, audited, begun, time, statuses, external>>
        /\ target' \in TargetRows \union {None} /\ secret' \in BOOLEAN
    BY <1>2 DEF AutomationTyped, CreateAutomation, CreateTarget, DecideReview, LoseSecret, world
  <2>. QED
    BY <1>1, <2>1 DEF AutomationTyped
<1>3. ASSUME NEW t \in TriggerTraces, NEW status \in {"ok", "error", None}, StoreTrace(t, status)
      PROVE  AutomationTyped'
  <2>1. /\ UNCHANGED <<threads, runs, audited, begun, time, target, secret, external>>
        /\ statuses' \in [TriggerTraces -> {"ok", "error", None}]
    BY <1>3 DEF AutomationTyped, StoreTrace
  <2>. QED
    BY <1>1, <2>1 DEF AutomationTyped
<1>4. CASE PassTime
  <2>1. /\ UNCHANGED <<threads, runs, audited, begun, statuses, target, secret, external>>
        /\ time' \in 0 .. MaxHours
    BY <1>4, AutomationAssumption DEF AutomationTyped, PassTime
  <2>. QED
    BY <1>1, <2>1 DEF AutomationTyped
<1>5. ASSUME NEW r \in RunThreads, NEW t, NEW given, BeginRun(r, t, given)
      PROVE  AutomationTyped'
  <2>1. PICK q : Step(r, q) /\ q.at = "begun" /\ q.undo = <<>>
    <3>1. PICK key : Step(r, [at |-> "begun", id |-> begun', trace |-> t, key |-> key, now |-> None,
                              seen |-> None, status |-> None, results |-> <<>>, tried |-> 0,
                              undo |-> <<>>, undone |-> <<>>])
      BY <1>5 DEF BeginRun
    <3>. QED
      BY <3>1
  <2>2. /\ UNCHANGED <<runs, audited, time, statuses, target, secret, external>>
        /\ begun' \in 0 .. MaxRuns
    BY <1>5, AutomationAssumption DEF BeginRun, AutomationTyped, world
  <2>3. \A s \in RunThreads : threads'[s] = IF s = r THEN q ELSE threads[s]
    BY <2>1, Stepped DEF Spacing
  <2>4. \A s \in RunThreads : threads'[s] # None => PlaceSound(threads[s])'
    BY <2>1, <2>2, <2>3 DEF AutomationTyped, PlaceSound
  <2>. QED
    BY <2>2, <2>4 DEF AutomationTyped
<1>6. ASSUME NEW r \in RunThreads, ContinueRun(r) \/ RunStops(r)
      PROVE  AutomationTyped'
  <2>1. CASE ReadTriggerTrace(r) \/ ReadCooldown(r)
    <3>1. PICK q : /\ q = threads[r] /\ q # None /\ q.at \in {"begun", "triggered"}
                   /\ UNCHANGED <<world, audited, begun, runs>>
      BY <2>1 DEF ReadTriggerTrace, ReadCooldown, ThreadAt
    <3>2. DOMAIN q = RequestFields /\ q.undo = <<>>
      BY <3>1 DEF Spacing, RequestsSound, RequestSound, AutomationTyped, PlaceSound
    <3>3. PICK p : Step(r, p) /\ p.undo = q.undo /\ p.at # "recorded"
      <4>1. CASE ReadTriggerTrace(r)
        <5>1. PICK status, p : /\ p = [q EXCEPT !.at = "triggered", !.now = time, !.status = status]
                               /\ Step(r, p)
          BY <3>1, <4>1 DEF ReadTriggerTrace
        <5>2. p.undo = q.undo /\ p.at = "triggered"
          BY <3>2, <5>1 DEF RequestFields
        <5>. QED
          BY <5>1, <5>2
      <4>2. CASE ReadCooldown(r)
        <5>1. PICK status, at, p :
                /\ at \in {"acting", "finished"} /\ Step(r, p)
                /\ p = [q EXCEPT !.status = status, !.seen = Len(runs), !.at = at]
          BY <3>1, <4>2 DEF ReadCooldown
        <5>2. p.undo = q.undo /\ p.at = at
          BY <3>2, <5>1 DEF RequestFields
        <5>. QED
          BY <5>1, <5>2
      <4>. QED
        BY <2>1, <4>1, <4>2
    <3>4. PlaceSound(p)'
      BY <3>2, <3>3 DEF PlaceSound
    <3>. QED
      BY <3>1, <3>3, <3>4, PlaceGoesOn
  <2>2. CASE \/ CreateTask(r) \/ RollbackTask(r) \/ AddExample(r) \/ CommitRoute(r)
             \/ Preview(r) \/ Undelivered(r) \/ PostNotification(r) \/ Unsupported(r)
    <3>1. \E type, status, task : Attempts(r, type) /\ Settle(r, status, task)
      BY <2>2 DEF CreateTask, RollbackTask, AddExample, CommitRoute, Preview, Undelivered,
                  PostNotification, Unsupported
    <3>. QED
      BY <3>1, PlaceSettled
  <2>3. CASE RecordRun(r)
    <3>1. PICK q : /\ q = threads[r] /\ q # None /\ q.at = "finished"
                   /\ UNCHANGED <<world, audited, begun>>
      BY <2>3 DEF RecordRun, ThreadAt
    <3>2. CASE Taken(q.key)
      <4>1. Step(r, None) /\ runs' = runs
        BY <2>3, <3>1, <3>2 DEF RecordRun
      <4>. QED
        BY <3>1, <4>1, PlaceGoesOn
    <3>3. CASE ~ Taken(q.key)
      <4>1. PICK row, p : /\ row.id = q.id /\ runs' = Append(runs, row)
                          /\ p = [q EXCEPT !.at = "recorded"] /\ Step(r, p)
        BY <2>3, <3>1, <3>3 DEF RecordRun
      <4>2. PICK S : runs \in Seq(S)
        BY DEF Spacing, RunsRead
      <4>3. Len(runs) + 1 \in DOMAIN runs' /\ runs'[Len(runs) + 1] = row
        BY <4>1, <4>2
      <4>4. DOMAIN q = RequestFields /\ q.undo = <<>>
        BY <3>1 DEF Spacing, RequestsSound, RequestSound, AutomationTyped, PlaceSound
      <4>5. p.undo = <<>> /\ p.id = q.id
        BY <4>1, <4>4 DEF RequestFields
      <4>6. PlaceSound(p)'
        BY <4>1, <4>3, <4>5 DEF PlaceSound
      <4>. QED
        BY <3>1, <4>1, <4>6, PlaceGoesOn
    <3>. QED
      BY <3>2, <3>3
  <2>4. CASE AuditRun(r)
    <3>1. /\ threads[r] # None /\ threads[r].at = "recorded" /\ Step(r, None)
          /\ audited' = audited \union {threads[r].id}
          /\ UNCHANGED <<runs, begun, time, statuses, target, secret, external>>
      BY <2>4 DEF AuditRun, ThreadAt, world
    <3>2. \A s \in RunThreads : threads'[s] = IF s = r THEN None ELSE threads[s]
      BY <3>1, Stepped DEF Spacing
    <3>3. \A s \in RunThreads : threads'[s] # None => PlaceSound(threads[s])'
      BY <3>1, <3>2 DEF AutomationTyped, PlaceSound
    <3>4. \E i \in DOMAIN runs : runs[i].id = threads[r].id
      BY <3>1 DEF AutomationTyped, PlaceSound
    <3>. QED
      BY <3>1, <3>3, <3>4 DEF AutomationTyped
  <2>5. CASE RunStops(r)
    BY <2>5, PlaceGoesOn DEF RunStops
  <2>. QED
    BY <1>6, <2>1, <2>2, <2>3, <2>4, <2>5 DEF ContinueRun
<1>. QED
  BY <1>2, <1>3, <1>4, <1>5, <1>6 DEF AutomationNext

\* The rows, and what is under way, are of their types: a request has a plan ahead while
\* it acts, something to undo just while it compensates, an attempt left while it tries,
\* and an audit entry only of a run that is recorded (main.py, _execute_automation).
THEOREM AutomationTyping == AutomationSpec => []AutomationTypeOK
<1>1. AutomationInit => AutomationTyped
  BY AutomationAssumption DEF AutomationInit, AutomationTyped
<1>2. Spacing /\ AutomationTyped /\ [AutomationNext]_automationVars => AutomationTyped'
  <2>1. AutomationTyped /\ UNCHANGED automationVars => AutomationTyped'
    BY DEF automationVars, AutomationTyped, PlaceSound
  <2>. QED
    BY <2>1, PlaceStep
<1>3. Spacing /\ RollbackSound /\ EffectsSound /\ AutomationTyped => AutomationTypeOK
  <2>1. SUFFICES ASSUME Spacing, RollbackSound, EffectsSound, AutomationTyped
                 PROVE  AutomationTypeOK
    OBVIOUS
  <2>2. ASSUME NEW r \in RunThreads, threads[r] # None, NEW q, q = threads[r]
        PROVE  /\ q.at \in {"begun", "triggered", "acting", "compensating", "finished", "recorded"}
               /\ q.at = "acting" => Len(q.results) < Len(automation.actions)
               /\ q.at = "compensating" <=> q.undo # <<>>
               /\ q.at \in {"acting", "compensating"} => q.tried < Current(q).attempts
               /\ q.at = "finished" /\ q.status = None =>
                    Len(q.results) = Len(automation.actions)
    <3>1. RequestSound(q) /\ UndoSound(q) /\ RequestEffects(q) /\ PlaceSound(q)
      BY <2>1, <2>2 DEF Spacing, RequestsSound, RollbackSound, EffectsSound, AutomationTyped
    <3>. QED
      BY <3>1 DEF RequestSound, PastCooldown, UndoSound, RequestEffects, PlaceSound
  <2>3. automation \in Definitions \union {None} /\ Len(posts) = begun /\ begun <= MaxRuns
    BY <2>1 DEF Spacing, Settled, EffectsSound, Numbered, AutomationTyped
  <2>. QED
    BY <2>1, <2>2, <2>3 DEF AutomationTypeOK, AutomationTyped
<1>4. AutomationSpec => []EffectsSound
  BY EffectsAlways
<1>. QED
  BY <1>1, <1>2, <1>3, <1>4, SpacingAlways, RollbackAlways, PTL DEF AutomationSpec

-----------------------------------------------------------------------------

(* Tables. *)

\* The rows of a set, in some order: as many as it has.
LEMMA RowsOfSet ==
  ASSUME NEW S, IsFiniteSet(S)
  PROVE  /\ Cardinality(S) \in Nat
         /\ SetToSeq(S) \in [1 .. Cardinality(S) -> S]
         /\ \A i, j \in 1 .. Cardinality(S) : SetToSeq(S)[i] = SetToSeq(S)[j] => i = j
<1>. DEFINE m == Cardinality(S)
<1>2. m \in Nat /\ ExistsBijection(1 .. m, S)
  BY FS_CardinalityType
<1>3. PICK g \in [1 .. m -> S] : IsInjective(g)
  BY <1>2 DEF ExistsBijection, Bijection, Injection
<1>4. SetToSeq(S) \in [1 .. m -> S] /\ IsInjective(SetToSeq(S))
  BY <1>3 DEF SetToSeq
<1>. QED
  BY <1>2, <1>4 DEF IsInjective

-----------------------------------------------------------------------------
MatchRow == [behavior : BehaviorIds, trace : FailureTraces, status : {"confirmed", "backtest_positive"},
             run : Nat, evidence : SUBSET (FailureTraces \X {1, 2})]

\* What a request that writes matches has in hand.
WriterSound(job) ==
  /\ "at" \in DOMAIN job
  /\ job.at = "label" =>
       job \in [at : {"label"}, trace : There, behavior : BehaviorIds, read : FailureRow]
  /\ job.at = "confirm" =>
       /\ job \in [at : {"confirm"}, trace : There, behavior : BehaviorIds, read : FailureRow]
       /\ job.trace \notin raced => job.behavior \in failures[job.trace].labels
  /\ job.at = "replace" =>
       /\ job.behavior \in BehaviorIds /\ job.run \in Nat
       /\ DOMAIN job.positive \in SUBSET There
       /\ \A t \in DOMAIN job.positive : job.positive[t] \subseteq FailureTraces \X {1, 2}

DiscoveryRows ==
  /\ failures \in [FailureTraces -> FailureRow \union {None}]
  /\ matches \in Seq(MatchRow)
  /\ \A k \in DOMAIN matches : matches[k].trace \in There
  /\ backtests \in Nat
  /\ \E S : curators \in [Curators -> S]
  /\ \A w \in Curators : curators[w] # None => WriterSound(curators[w])

\* The positions of the backtest matches of a behavior.
PositiveAt(rows, b) ==
  {k \in DOMAIN rows : rows[k].behavior = b /\ rows[k].status = "backtest_positive"}

OfOneRun(rows) ==
  \A b \in BehaviorIds : /\ \A j, k \in PositiveAt(rows, b) : rows[j].run = rows[k].run
                         /\ Cardinality(PositiveAt(rows, b)) <= SampleLimit

ConfirmedOnce(rows) ==
  \A j, k \in DOMAIN rows :
    (/\ rows[j].status = "confirmed" /\ rows[k].status = "confirmed"
     /\ rows[j].trace = rows[k].trace /\ rows[j].behavior = rows[k].behavior) => j = k

MatchesSound == DiscoveryRows /\ OfOneRun(matches) /\ ConfirmedOnce(matches) /\ LabelsMatch

\* One table has no more of anything than another.
Among(rows, others) ==
  \E f \in [DOMAIN rows -> DOMAIN others] :
    /\ \A i, j \in DOMAIN rows : f[i] = f[j] => i = j
    /\ \A i \in DOMAIN rows : rows[i] = others[f[i]]

LEMMA KeptAmong ==
  ASSUME NEW R, NEW rows \in Seq(R), NEW at \in SUBSET DOMAIN rows
  PROVE  /\ RowsAt(rows, at) \in Seq(R)
         /\ Among(RowsAt(rows, at), rows)
         /\ \A i \in DOMAIN RowsAt(rows, at) : \E k \in at : RowsAt(rows, at)[i] = rows[k]
<1>1. at \in SUBSET (1 .. Len(rows)) /\ IsFiniteSet(1 .. Len(rows))
  BY FS_Interval
<1>2. IsFiniteSet(at)
  BY <1>1, FS_Subset
<1>3. PICK m \in Nat :
        \E f \in [1 .. m -> at] : f = SetToSeq(at) /\ \A i, j \in 1 .. m : f[i] = f[j] => i = j
  BY <1>2, RowsOfSet
<1>4. PICK f \in [1 .. m -> at] : f = SetToSeq(at) /\ \A i, j \in 1 .. m : f[i] = f[j] => i = j
  BY <1>3
<1>5. RowsAt(rows, at) = [i \in 1 .. m |-> rows[f[i]]]
  BY <1>4 DEF RowsAt
<1>6. RowsAt(rows, at) \in [1 .. m -> R]
  BY <1>4, <1>5
<1>7. RowsAt(rows, at) \in Seq(R)
  BY <1>6, SeqDef
<1>8. f \in [1 .. m -> DOMAIN rows]
  BY <1>4
<1>. QED
  BY <1>4, <1>5, <1>7, <1>8 DEF Among

LEMMA FewerOfOneRun ==
  ASSUME NEW R, NEW rows \in Seq(R), NEW others \in Seq(R), Among(rows, others), OfOneRun(others)
  PROVE  OfOneRun(rows)
<1>1. PICK f \in [DOMAIN rows -> DOMAIN others] :
        /\ \A i, j \in DOMAIN rows : f[i] = f[j] => i = j
        /\ \A i \in DOMAIN rows : rows[i] = others[f[i]]
  BY DEF Among
<1>2. SUFFICES ASSUME NEW b \in BehaviorIds
               PROVE  /\ \A j, k \in PositiveAt(rows, b) : rows[j].run = rows[k].run
                      /\ Cardinality(PositiveAt(rows, b)) <= SampleLimit
  BY DEF OfOneRun
<1>. DEFINE S == PositiveAt(rows, b)
            T == PositiveAt(others, b)
            g == [i \in S |-> f[i]]
<1>3. S \subseteq DOMAIN rows /\ \A i \in S : f[i] \in T
  BY <1>1 DEF PositiveAt
<1>4. \A j, k \in S : rows[j].run = rows[k].run
  BY <1>1, <1>3 DEF OfOneRun
<1>5. g \in Injection(S, T)
  BY <1>1, <1>3 DEF Injection, IsInjective
<1>6. IsFiniteSet(T) /\ IsFiniteSet(S)
  <2>1. IsFiniteSet(1 .. Len(others)) /\ IsFiniteSet(1 .. Len(rows))
    BY FS_Interval
  <2>2. T \in SUBSET (1 .. Len(others)) /\ S \in SUBSET (1 .. Len(rows))
    BY DEF PositiveAt
  <2>. QED
    BY <2>1, <2>2, FS_Subset
<1>7. Cardinality(S) <= Cardinality(T)
  BY <1>5, <1>6, FS_Injection
<1>8. Cardinality(T) <= SampleLimit /\ Cardinality(S) \in Nat /\ Cardinality(T) \in Nat
      /\ SampleLimit \in Nat
  BY <1>6, FS_CardinalityType, DiscoveryAssumption DEF OfOneRun
<1>9. Cardinality(S) <= SampleLimit
  <2>. HIDE DEF S, T
  <2>. QED
    BY <1>7, <1>8
<1>. QED
  BY <1>4, <1>9

LEMMA FewerConfirmedOnce ==
  ASSUME NEW rows, NEW others, Among(rows, others), ConfirmedOnce(others)
  PROVE  ConfirmedOnce(rows)
BY DEF Among, ConfirmedOnce

-----------------------------------------------------------------------------
(* Steps. *)

NothingWritten == UNCHANGED <<failures, matches, raced>>

\* A request that goes on with what is sound, and writes none of the tables.
LEMMA MatchesStay ==
  ASSUME MatchesSound, NothingWritten, backtests' \in Nat,
         NEW w \in Curators, NEW job, job = None \/ WriterSound(job), Proceeds(w, job)
  PROVE  MatchesSound'
<1>1. PICK S : curators \in [Curators -> S]
  BY DEF MatchesSound, DiscoveryRows
<1>2. /\ curators' \in [Curators -> S \union {job}]
      /\ \A v \in Curators : curators'[v] = IF v = w THEN job ELSE curators[v]
  BY <1>1 DEF Proceeds
<1>3. \A v \in Curators : curators'[v] # None => WriterSound(curators'[v])
  BY <1>2 DEF MatchesSound, DiscoveryRows
<1>4. There' = There
  BY DEF NothingWritten, There
<1>5. \A v \in Curators : curators'[v] # None => WriterSound(curators[v])'
  BY <1>3, <1>4 DEF NothingWritten, WriterSound
<1>6. DiscoveryRows'
  BY <1>2, <1>4, <1>5 DEF NothingWritten, MatchesSound, DiscoveryRows
<1>. QED
  BY <1>6 DEF NothingWritten, MatchesSound, LabelsMatch, ConfirmedTraces

\* A step of no request, that writes none of them either.
LEMMA MatchesApart ==
  ASSUME MatchesSound, NothingWritten, backtests' \in Nat, UNCHANGED curators
  PROVE  MatchesSound'
<1>1. There' = There
  BY DEF NothingWritten, There
<1>2. DiscoveryRows'
  BY <1>1 DEF NothingWritten, MatchesSound, DiscoveryRows, WriterSound
<1>. QED
  BY <1>2 DEF NothingWritten, MatchesSound, LabelsMatch, ConfirmedTraces

\* What a request has in hand stays sound while no trace goes and labels stay.
LEMMA WriterStays ==
  ASSUME NEW p, WriterSound(p), There \subseteq There',
         p.at = "confirm" /\ p.trace \in There /\ p.trace \notin raced' =>
           p.trace \notin raced /\ failures[p.trace].labels \subseteq failures'[p.trace].labels
  PROVE  WriterSound(p)'
BY DEF WriterSound

\* A new trace has no matches, and no request that writes one.
LEMMA StoreSound ==
  ASSUME MatchesSound, NEW t \in FailureTraces,
         NEW status \in {"ok", "error"}, NEW signature \in Signatures,
         NEW hits \in SUBSET {1, 2}, NEW verdicts \in SUBSET {"fail"},
         StoreFailure(t, status, signature, hits, verdicts)
  PROVE  MatchesSound'
<1>1. Failure(status, signature, hits, verdicts) \in FailureRow
  BY DEF Failure, FailureRow
<1>2. /\ failures' \in [FailureTraces -> FailureRow \union {None}]
      /\ failures[t] = None
      /\ \A u \in FailureTraces : u # t => failures'[u] = failures[u]
      /\ UNCHANGED <<matches, curators, raced, backtests>>
  BY <1>1 DEF StoreFailure, MatchesSound, DiscoveryRows, counters
<1>3. There \subseteq There' /\ t \notin There
  BY <1>2 DEF There
<1>4. ASSUME NEW w \in Curators, curators'[w] # None
      PROVE  WriterSound(curators[w])'
  <2>1. PICK p : p = curators[w] /\ p = curators'[w]
    BY <1>2
  <2>2. WriterSound(p)
    BY <1>4, <2>1 DEF MatchesSound, DiscoveryRows
  <2>3. \A u \in There : failures'[u] = failures[u]
    BY <1>2, <1>3 DEF There
  <2>4. WriterSound(p)'
    BY <1>2, <1>3, <2>2, <2>3, WriterStays
  <2>. QED
    BY <2>1, <2>4 DEF WriterSound
<1>5. DiscoveryRows'
  BY <1>2, <1>3, <1>4 DEF MatchesSound, DiscoveryRows
<1>6. LabelsMatch'
  BY <1>2, <1>3 DEF MatchesSound, DiscoveryRows, LabelsMatch, ConfirmedTraces
<1>. QED
  BY <1>2, <1>5, <1>6 DEF MatchesSound

LEMMA DeleteSound ==
  ASSUME MatchesSound, NEW t \in FailureTraces, DeleteFailure(t)
  PROVE  MatchesSound'
<1>. DEFINE at == {k \in DOMAIN matches : matches[k].trace # t}
<1>1. Deleted \in FailureRow
  BY DEF Failure, FailureRow, Deleted
<1>2. /\ failures' \in [FailureTraces -> FailureRow \union {None}]
      /\ t \in There /\ failures'[t] # None
      /\ \A u \in FailureTraces : u # t => failures'[u] = failures[u]
      /\ matches' = RowsAt(matches, at)
      /\ raced' = raced \union {t}
      /\ UNCHANGED <<curators, backtests>>
  BY <1>1, RowAssumption DEF DeleteFailure, MatchesSound, DiscoveryRows, counters
<1>3. There' = There
  BY <1>2 DEF There
<1>4. /\ matches \in Seq(MatchRow) /\ at \in SUBSET DOMAIN matches
      /\ OfOneRun(matches) /\ ConfirmedOnce(matches)
  BY DEF MatchesSound, DiscoveryRows
<1>5. /\ matches' \in Seq(MatchRow) /\ Among(matches', matches)
      /\ \A i \in DOMAIN matches' : \E k \in at : matches'[i] = matches[k]
  <2>. HIDE DEF at
  <2>. QED
    BY <1>2, <1>4, KeptAmong
<1>6. OfOneRun(matches)' /\ ConfirmedOnce(matches)'
  <2>1. PICK rows : rows = matches'
    OBVIOUS
  <2>2. OfOneRun(rows) /\ ConfirmedOnce(rows)
    BY <1>4, <1>5, <2>1, FewerOfOneRun, FewerConfirmedOnce
  <2>. QED
    BY <2>1, <2>2 DEF OfOneRun, ConfirmedOnce, PositiveAt
<1>7. ASSUME NEW w \in Curators, curators'[w] # None
      PROVE  WriterSound(curators[w])'
  <2>1. PICK p : p = curators[w] /\ p = curators'[w]
    BY <1>2
  <2>2. WriterSound(p)
    BY <1>7, <2>1 DEF MatchesSound, DiscoveryRows
  <2>3. \A u \in There \ raced' : u \notin raced /\ failures'[u] = failures[u]
    BY <1>2 DEF There
  <2>4. WriterSound(p)'
    BY <1>3, <2>2, <2>3, WriterStays
  <2>. QED
    BY <2>1, <2>4 DEF WriterSound
<1>8. DiscoveryRows'
  BY <1>2, <1>3, <1>5, <1>7 DEF MatchesSound, DiscoveryRows
<1>9. LabelsMatch'
  <2>1. SUFFICES ASSUME NEW u \in FailureTraces \ raced', NEW b \in BehaviorIds,
                        NEW i \in DOMAIN matches', matches'[i].trace = u,
                        matches'[i].behavior = b, matches'[i].status = "confirmed"
                 PROVE  b \in failures'[u].labels
    BY DEF LabelsMatch, ConfirmedTraces
  <2>2. PICK k \in at : matches'[i] = matches[k]
    BY <1>5
  <2>3. u \in ConfirmedTraces(b) /\ u \notin raced /\ u # t
    BY <1>2, <2>1, <2>2 DEF ConfirmedTraces
  <2>4. b \in failures[u].labels
    BY <2>1, <2>3 DEF MatchesSound, LabelsMatch
  <2>. QED
    BY <1>2, <2>1, <2>3, <2>4
<1>. QED
  BY <1>6, <1>8, <1>9 DEF MatchesSound

\* What is written of a stale read is of a trace that raced.
LEMMA LabelSound ==
  ASSUME MatchesSound, NEW w \in Curators, WriteLabel(w)
  PROVE  MatchesSound'
<1>. DEFINE job == curators[w]
            t == job.trace
<1>1. job \in [at : {"label"}, trace : There, behavior : BehaviorIds, read : FailureRow]
  BY DEF MatchesSound, DiscoveryRows, WriteLabel, CuratorAt, WriterSound
<1>2. t \in FailureTraces /\ failures[t] \in FailureRow /\ failures[t] # None
  BY <1>1 DEF There, MatchesSound, DiscoveryRows
<1>3. PICK row : row = Written(Labelled(job.read, job.behavior), failures[t])
  OBVIOUS
<1>4. row \in FailureRow /\ row # None /\ row.labels = job.read.labels \union {job.behavior}
  <2>1. PICK read \in FailureRow, b \in BehaviorIds, there \in FailureRow :
          read = job.read /\ b = job.behavior /\ there = failures[t]
    BY <1>1, <1>2
  <2>2. Labelled(read, b) = [read EXCEPT !.labels = read.labels \union {b}]
    BY DEF Labelled
  <2>3. Labelled(read, b) \in FailureRow /\ Labelled(read, b).labels = read.labels \union {b}
    BY <2>2 DEF FailureRow
  <2>4. PICK labelled \in FailureRow : labelled = Labelled(read, b)
    BY <2>3
  <2>5. row = [labelled EXCEPT !.spans = there.spans, !.hits = there.hits, !.verdicts = there.verdicts]
    BY <1>3, <2>1, <2>4 DEF Written
  <2>6. row \in FailureRow /\ row.labels = labelled.labels
    BY <2>5 DEF FailureRow
  <2>. QED
    BY <2>1, <2>3, <2>4, <2>6, RowAssumption
<1>5. /\ failures' \in [FailureTraces -> FailureRow \union {None}]
      /\ failures'[t] = row
      /\ \A u \in FailureTraces : u # t => failures'[u] = failures[u]
      /\ raced' = IF failures[t] = job.read THEN raced ELSE raced \union {t}
      /\ UNCHANGED <<matches, backtests>>
  BY <1>2, <1>3, <1>4 DEF WriteLabel, MatchesSound, DiscoveryRows, counters
<1>6. There' = There
  BY <1>2, <1>4, <1>5 DEF There
<1>7. \A u \in FailureTraces \ raced' :
        u \in There => failures[u].labels \subseteq failures'[u].labels /\ u \notin raced
  BY <1>4, <1>5
<1>8. PICK S : curators \in [Curators -> S]
  BY DEF MatchesSound, DiscoveryRows
<1>9. PICK q : q = [job EXCEPT !.at = "confirm"]
  OBVIOUS
<1>10. /\ curators' \in [Curators -> S \union {q}]
       /\ \A v \in Curators : curators'[v] = IF v = w THEN q ELSE curators[v]
  BY <1>8, <1>9 DEF WriteLabel, Proceeds
<1>11. /\ q \in [at : {"confirm"}, trace : There, behavior : BehaviorIds, read : FailureRow]
       /\ q.trace = t /\ q.behavior \in failures'[t].labels
  BY <1>1, <1>4, <1>5, <1>9
<1>12. \A v \in Curators : curators'[v] # None => WriterSound(curators[v])'
  <2>1. SUFFICES ASSUME NEW v \in Curators, curators'[v] # None
                 PROVE  WriterSound(curators[v])'
    OBVIOUS
  <2>2. CASE v = w
    BY <1>5, <1>6, <1>10, <1>11, <2>2 DEF WriterSound
  <2>3. CASE v # w
    <3>1. PICK p : p = curators[v] /\ p = curators'[v]
      BY <1>10, <2>3
    <3>2. WriterSound(p)
      BY <2>1, <3>1 DEF MatchesSound, DiscoveryRows
    <3>3. p.at = "confirm" /\ p.trace \notin raced' => p.behavior \in failures'[p.trace].labels
      <4>1. HAVE p.at = "confirm" /\ p.trace \notin raced'
      <4>2. p.trace \in FailureTraces /\ p.trace \in There
        BY <3>2, <4>1 DEF WriterSound, There
      <4>3. p.trace \notin raced
        BY <1>5, <4>1
      <4>. QED
        BY <1>7, <3>2, <4>1, <4>2, <4>3 DEF WriterSound
    <3>. QED
      BY <1>6, <3>1, <3>2, <3>3 DEF WriterSound
  <2>. QED
    BY <2>2, <2>3
<1>13. DiscoveryRows'
  BY <1>5, <1>6, <1>10, <1>12 DEF MatchesSound, DiscoveryRows
<1>14. LabelsMatch'
  <2>1. SUFFICES ASSUME NEW u \in FailureTraces \ raced', NEW b \in BehaviorIds,
                        u \in ConfirmedTraces(b)'
                 PROVE  b \in failures'[u].labels
    BY DEF LabelsMatch
  <2>2. u \in ConfirmedTraces(b) /\ u \in There
    BY <1>5, <2>1 DEF ConfirmedTraces, MatchesSound, DiscoveryRows
  <2>3. u \notin raced /\ b \in failures[u].labels
    BY <1>7, <2>1, <2>2 DEF MatchesSound, LabelsMatch
  <2>. QED
    BY <1>7, <2>2, <2>3
<1>. QED
  BY <1>5, <1>13, <1>14 DEF MatchesSound

\* The requests after a write of matches: one is done, or adds review tasks.
LEMMA WritersApart ==
  ASSUME DiscoveryRows, NEW w \in Curators, NEW q,
         q # None => "at" \in DOMAIN q /\ q.at \notin {"label", "confirm", "replace"},
         Proceeds(w, q), UNCHANGED <<failures, raced>>
  PROVE  /\ \E S : curators' \in [Curators -> S]
         /\ \A v \in Curators : curators'[v] # None => WriterSound(curators[v])'
<1>1. PICK S : curators \in [Curators -> S]
  BY DEF DiscoveryRows
<1>2. /\ curators' \in [Curators -> S \union {q}]
      /\ \A v \in Curators : curators'[v] = IF v = w THEN q ELSE curators[v]
  BY <1>1 DEF Proceeds
<1>3. \A v \in Curators : curators'[v] # None => WriterSound(curators'[v])
  BY <1>2 DEF DiscoveryRows, WriterSound
<1>. QED
  BY <1>2, <1>3 DEF WriterSound, There

LEMMA ConfirmSound ==
  ASSUME MatchesSound, NEW w \in Curators,
         NEW span \in SUBSET SpanIds(curators[w].trace, {1}), ConfirmMatch(w, span)
  PROVE  MatchesSound'
<1>1. PICK job \in [at : {"confirm"}, trace : There, behavior : BehaviorIds, read : FailureRow] :
        job = curators[w] /\ (job.trace \notin raced => job.behavior \in failures[job.trace].labels)
  BY DEF MatchesSound, DiscoveryRows, ConfirmMatch, CuratorAt, WriterSound
<1>. DEFINE at == {k \in DOMAIN matches : OtherThanConfirmed(matches[k], job.trace, job.behavior)}
<1>2. PICK row : row = MatchOf(job.behavior, job.trace, "confirmed", 0, span)
  OBVIOUS
<1>3. /\ row \in MatchRow /\ row.status = "confirmed"
      /\ row.trace = job.trace /\ row.behavior = job.behavior
  BY <1>1, <1>2 DEF MatchRow, MatchOf, There, SpanIds
<1>4. PICK kept : kept = RowsAt(matches, at)
  OBVIOUS
<1>5. /\ matches \in Seq(MatchRow) /\ at \in SUBSET DOMAIN matches
      /\ OfOneRun(matches) /\ ConfirmedOnce(matches)
  BY DEF MatchesSound, DiscoveryRows
<1>6. /\ kept \in Seq(MatchRow) /\ Among(kept, matches)
      /\ \A i \in DOMAIN kept : \E k \in at : kept[i] = matches[k]
  <2>. HIDE DEF at
  <2>. QED
    BY <1>4, <1>5, KeptAmong
<1>7. OfOneRun(kept) /\ ConfirmedOnce(kept)
  BY <1>5, <1>6, FewerOfOneRun, FewerConfirmedOnce
<1>8. \A i \in DOMAIN kept : ~ (/\ kept[i].trace = job.trace /\ kept[i].behavior = job.behavior
                               /\ kept[i].status = "confirmed")
  BY <1>6 DEF OtherThanConfirmed
<1>9. /\ matches' = Append(kept, row) /\ Proceeds(w, None)
      /\ UNCHANGED <<failures, raced, backtests>>
  BY <1>1, <1>2, <1>4 DEF ConfirmMatch, counters
<1>10. PICK rows : rows = Append(kept, row)
  OBVIOUS
<1>11. /\ rows \in Seq(MatchRow) /\ Len(rows) = Len(kept) + 1 /\ Len(kept) \in Nat
       /\ DOMAIN rows = 1 .. Len(kept) + 1 /\ DOMAIN kept = 1 .. Len(kept)
       /\ \A i \in DOMAIN kept : rows[i] = kept[i]
       /\ rows[Len(kept) + 1] = row
  BY <1>3, <1>6, <1>10
<1>12. OfOneRun(rows)
  <2>1. \A b \in BehaviorIds : /\ PositiveAt(rows, b) = PositiveAt(kept, b)
                              /\ PositiveAt(kept, b) \subseteq DOMAIN kept
    BY <1>3, <1>11 DEF PositiveAt
  <2>. QED
    BY <1>7, <1>11, <2>1 DEF OfOneRun
<1>13. ConfirmedOnce(rows)
  <2>1. SUFFICES ASSUME NEW j \in DOMAIN rows, NEW k \in DOMAIN rows,
                        rows[j].status = "confirmed" /\ rows[k].status = "confirmed",
                        rows[j].trace = rows[k].trace /\ rows[j].behavior = rows[k].behavior
                 PROVE  j = k
    BY DEF ConfirmedOnce
  <2>2. CASE j \in DOMAIN kept /\ k \in DOMAIN kept
    BY <1>7, <1>11, <2>1, <2>2 DEF ConfirmedOnce
  <2>3. CASE j \in DOMAIN kept /\ k = Len(kept) + 1
    BY <1>3, <1>8, <1>11, <2>1, <2>3
  <2>4. CASE k \in DOMAIN kept /\ j = Len(kept) + 1
    BY <1>3, <1>8, <1>11, <2>1, <2>4
  <2>. QED
    BY <1>11, <2>2, <2>3, <2>4
<1>14. DiscoveryRows'
  <2>1. \A i \in DOMAIN rows : rows[i].trace \in There
    BY <1>1, <1>3, <1>6, <1>11 DEF MatchesSound, DiscoveryRows
  <2>2. /\ \E S : curators' \in [Curators -> S]
        /\ \A v \in Curators : curators'[v] # None => WriterSound(curators[v])'
    BY <1>9, WritersApart DEF MatchesSound
  <2>. QED
    BY <1>9, <1>10, <1>11, <2>1, <2>2 DEF MatchesSound, DiscoveryRows, There
<1>15. LabelsMatch'
  BY <1>1, <1>3, <1>6, <1>9, <1>10, <1>11 DEF MatchesSound, LabelsMatch, ConfirmedTraces
<1>16. OfOneRun(matches)' /\ ConfirmedOnce(matches)'
  <2>1. rows = matches'
    BY <1>9, <1>10
  <2>. QED
    BY <1>12, <1>13, <2>1 DEF OfOneRun, ConfirmedOnce, PositiveAt
<1>. QED
  BY <1>14, <1>15, <1>16 DEF MatchesSound

LEMMA ReplaceSound ==
  ASSUME MatchesSound, NEW w \in Curators, NEW sample \in SUBSET FailureTraces,
         ReplaceMatches(w, sample)
  PROVE  MatchesSound'
<1>1. PICK job, about, run, positive :
        /\ job = curators[w]
        /\ about = job.behavior /\ run = job.run /\ positive = job.positive
  OBVIOUS
<1>2. /\ about \in BehaviorIds /\ run \in Nat
      /\ DOMAIN positive \in SUBSET There
      /\ \A t \in DOMAIN positive : positive[t] \subseteq FailureTraces \X {1, 2}
  BY <1>1 DEF MatchesSound, DiscoveryRows, ReplaceMatches, CuratorAt, WriterSound
<1>. DEFINE at == {k \in DOMAIN matches : NotOfBacktests(matches[k], about, sample)}
            T == {MatchOf(about, t, "backtest_positive", run, positive[t]) : t \in sample}
<1>3. PICK kept : kept = RowsAt(matches, at)
  OBVIOUS
<1>4. /\ matches \in Seq(MatchRow) /\ at \in SUBSET DOMAIN matches
      /\ OfOneRun(matches) /\ ConfirmedOnce(matches)
  BY DEF MatchesSound, DiscoveryRows
<1>5. /\ kept \in Seq(MatchRow) /\ Among(kept, matches)
      /\ \A i \in DOMAIN kept : \E k \in at : kept[i] = matches[k]
  <2>. HIDE DEF at
  <2>. QED
    BY <1>3, <1>4, KeptAmong
<1>6. OfOneRun(kept) /\ ConfirmedOnce(kept)
  BY <1>4, <1>5, FewerOfOneRun, FewerConfirmedOnce
<1>7. \A i \in DOMAIN kept : ~ (kept[i].behavior = about /\ kept[i].status = "backtest_positive")
  BY <1>5 DEF NotOfBacktests
<1>8. /\ sample \subseteq DOMAIN positive /\ IsFiniteSet(sample)
      /\ Cardinality(sample) \in Nat /\ Cardinality(sample) <= SampleLimit
  <2>1. sample \subseteq DOMAIN positive
    BY <1>1 DEF ReplaceMatches
  <2>2. IsFiniteSet(sample) /\ IsFiniteSet(DOMAIN positive)
    <3>1. IsFiniteSet(FailureTraces)
      BY DiscoveryAssumption
    <3>2. DOMAIN positive \in SUBSET FailureTraces
      BY <1>2 DEF There
    <3>. QED
      BY <3>1, <3>2, FS_Subset
  <2>3. PICK n \in Nat : n = Cardinality(DOMAIN positive)
    BY <2>2, FS_CardinalityType
  <2>4. Cardinality(sample) = Min({SampleLimit, n})
    BY <1>1, <2>3 DEF ReplaceMatches
  <2>5. SampleLimit \in Nat
    BY DiscoveryAssumption
  <2>6. \E x \in {SampleLimit, n} : \A y \in {SampleLimit, n} : x <= y
    BY <2>5
  <2>7. Min({SampleLimit, n}) <= SampleLimit
    BY <2>6 DEF Min
  <2>. QED
    BY <2>1, <2>2, <2>4, <2>7, FS_CardinalityType
<1>9. T \subseteq MatchRow
  BY <1>2, <1>8 DEF MatchRow, MatchOf
<1>10. \A m \in T : /\ m.behavior = about /\ m.status = "backtest_positive"
                   /\ m.run = run /\ m.trace \in sample
  BY DEF MatchOf
<1>11. \E n \in Nat : \E added \in [1 .. n -> T] : added = SetToSeq(T) /\ n <= Cardinality(sample)
  <2>1. [t \in sample |-> MatchOf(about, t, "backtest_positive", run, positive[t])]
          \in Surjection(sample, T)
    BY DEF Surjection
  <2>. HIDE DEF T
  <2>2. IsFiniteSet(T) /\ Cardinality(T) <= Cardinality(sample)
    BY <1>8, <2>1, FS_Surjection
  <2>3. PICK n \in Nat : n = Cardinality(T) /\ SetToSeq(T) \in [1 .. n -> T]
    BY <2>2, RowsOfSet
  <2>. QED
    BY <2>2, <2>3
<1>. HIDE DEF T, at
<1>12. PICK n \in Nat : \E added \in [1 .. n -> T] : added = SetToSeq(T) /\ n <= Cardinality(sample)
  BY <1>11
<1>13. PICK added \in [1 .. n -> T] : added = SetToSeq(T) /\ n <= Cardinality(sample)
  BY <1>12
<1>14. /\ \A i \in 1 .. n : /\ added[i] \in MatchRow /\ added[i].behavior = about
                            /\ added[i].status = "backtest_positive" /\ added[i].run = run
                            /\ added[i].trace \in sample
       /\ added \in Seq(MatchRow) /\ Len(added) = n
  <2>1. \A i \in 1 .. n : added[i] \in T
    BY <1>13
  <2>2. added \in [1 .. n -> MatchRow]
    BY <1>9, <1>13
  <2>3. added \in Seq(MatchRow)
    BY <2>2, SeqDef
  <2>. QED
    BY <1>9, <1>10, <2>1, <2>2, <2>3
<1>15. PICK rows : rows = kept \o added
  OBVIOUS
<1>16. PICK q : /\ Proceeds(w, q)
                /\ q # None => "at" \in DOMAIN q /\ q.at \notin {"label", "confirm", "replace"}
  BY DEF ReplaceMatches
<1>17. matches' = rows /\ UNCHANGED <<failures, raced, backtests>>
  BY <1>1, <1>3, <1>13, <1>15 DEF ReplaceMatches, counters, at, T
<1>18. /\ rows \in Seq(MatchRow) /\ Len(kept) \in Nat
       /\ DOMAIN rows = 1 .. Len(kept) + n /\ DOMAIN kept = 1 .. Len(kept)
       /\ \A i \in DOMAIN kept : rows[i] = kept[i]
       /\ \A i \in (Len(kept) + 1) .. (Len(kept) + n) : rows[i] = added[i - Len(kept)]
                                                   /\ i - Len(kept) \in 1 .. n
  BY <1>5, <1>14, <1>15
<1>19. \A i \in DOMAIN rows \ DOMAIN kept :
         /\ i \in (Len(kept) + 1) .. (Len(kept) + n)
         /\ rows[i].behavior = about /\ rows[i].run = run
         /\ rows[i].status = "backtest_positive" /\ rows[i].trace \in sample
  BY <1>14, <1>18
<1>20. OfOneRun(rows)
  <2>1. SUFFICES ASSUME NEW b \in BehaviorIds
                 PROVE  /\ \A j, k \in PositiveAt(rows, b) : rows[j].run = rows[k].run
                        /\ Cardinality(PositiveAt(rows, b)) <= SampleLimit
    BY DEF OfOneRun
  <2>2. CASE b # about
    <3>1. PositiveAt(rows, b) = PositiveAt(kept, b) /\ PositiveAt(kept, b) \subseteq DOMAIN kept
      BY <1>18, <1>19, <2>2 DEF PositiveAt
    <3>. QED
      BY <1>6, <1>18, <3>1 DEF OfOneRun
  <2>3. CASE b = about
    <3>1. PositiveAt(rows, b) \subseteq (Len(kept) + 1) .. (Len(kept) + n)
      <4>1. \A i \in DOMAIN kept : i \notin PositiveAt(rows, b)
        BY <1>7, <1>18, <2>3 DEF PositiveAt
      <4>. QED
        BY <1>19, <4>1 DEF PositiveAt
    <3>2. \A i \in PositiveAt(rows, b) : rows[i].run = run
      BY <1>18, <1>19, <3>1 DEF PositiveAt
    <3>3. IsFiniteSet((Len(kept) + 1) .. (Len(kept) + n))
          /\ Cardinality((Len(kept) + 1) .. (Len(kept) + n)) = n
      <4>1. PICK a \in Int, c \in Int : a = Len(kept) + 1 /\ c = Len(kept) + n
        BY <1>18
      <4>2. IsFiniteSet(a .. c) /\ Cardinality(a .. c) = IF a > c THEN 0 ELSE c - a + 1
        BY FS_Interval
      <4>. QED
        BY <1>18, <4>1, <4>2
    <3>4. Cardinality(PositiveAt(rows, b)) <= n
      BY <3>1, <3>3, FS_Subset
    <3>5. Cardinality(PositiveAt(rows, b)) \in Nat
      BY <3>1, <3>3, FS_Subset, FS_CardinalityType
    <3>6. SampleLimit \in Nat
      BY DiscoveryAssumption
    <3>. QED
      BY <1>8, <1>13, <3>2, <3>4, <3>5, <3>6
  <2>. QED
    BY <2>2, <2>3
<1>21. ConfirmedOnce(rows)
  <2>1. SUFFICES ASSUME NEW j \in DOMAIN rows, NEW k \in DOMAIN rows,
                        rows[j].status = "confirmed" /\ rows[k].status = "confirmed",
                        rows[j].trace = rows[k].trace /\ rows[j].behavior = rows[k].behavior
                 PROVE  j = k
    BY DEF ConfirmedOnce
  <2>2. j \in DOMAIN kept /\ k \in DOMAIN kept
    BY <1>19, <2>1
  <2>. QED
    BY <1>6, <1>18, <2>1, <2>2 DEF ConfirmedOnce
<1>22. OfOneRun(matches)' /\ ConfirmedOnce(matches)'
  BY <1>17, <1>20, <1>21 DEF OfOneRun, ConfirmedOnce, PositiveAt
<1>23. DiscoveryRows'
  <2>1. \A i \in DOMAIN rows : rows[i].trace \in There
    <3>1. \A i \in DOMAIN kept : kept[i].trace \in There
      BY <1>5 DEF MatchesSound, DiscoveryRows, at
    <3>2. sample \subseteq There
      BY <1>2, <1>8
    <3>. QED
      BY <1>18, <1>19, <3>1, <3>2
  <2>2. /\ \E S : curators' \in [Curators -> S]
        /\ \A v \in Curators : curators'[v] # None => WriterSound(curators[v])'
    BY <1>16, <1>17, WritersApart DEF MatchesSound
  <2>. QED
    BY <1>17, <1>18, <2>1, <2>2 DEF MatchesSound, DiscoveryRows, There
<1>24. LabelsMatch'
  <2>1. SUFFICES ASSUME NEW u \in FailureTraces \ raced, NEW b \in BehaviorIds,
                        NEW i \in DOMAIN rows, rows[i].trace = u, rows[i].behavior = b,
                        rows[i].status = "confirmed"
                 PROVE  b \in failures[u].labels
    BY <1>17 DEF LabelsMatch, ConfirmedTraces
  <2>2. i \in DOMAIN kept
    BY <1>19, <2>1
  <2>3. u \in ConfirmedTraces(b)
    BY <1>5, <1>18, <2>1, <2>2 DEF ConfirmedTraces, at
  <2>. QED
    BY <2>1, <2>3 DEF MatchesSound, LabelsMatch
<1>. QED
  BY <1>22, <1>23, <1>24 DEF MatchesSound

\* A request that is done, or goes on with none of the writes of matches.
LEMMA OthersSound ==
  ASSUME MatchesSound, NothingWritten, UNCHANGED backtests, NEW w \in Curators, NEW q,
         q # None => "at" \in DOMAIN q /\ q.at \notin {"label", "confirm", "replace"},
         Proceeds(w, q)
  PROVE  MatchesSound'
<1>1. WriterSound(q) \/ q = None
  BY DEF WriterSound
<1>2. backtests' \in Nat
  BY DEF MatchesSound, DiscoveryRows
<1>. QED
  BY <1>1, <1>2, MatchesStay

LEMMA ReadsSound ==
  ASSUME MatchesSound, NEW w \in Curators, NEW b \in BehaviorIds,
         \/ \E t \in FailureTraces : ReadForLabel(w, t, b)
         \/ \E found \in SUBSET FailureTraces : ReadForBacktest(w, b, found)
  PROVE  MatchesSound'
<1>1. CASE \E t \in FailureTraces : ReadForLabel(w, t, b)
  <2>1. PICK t \in There : ReadForLabel(w, t, b)
    BY <1>1 DEF ReadForLabel
  <2>2. PICK job : job = [at |-> "label", trace |-> t, behavior |-> b, read |-> failures[t]]
    OBVIOUS
  <2>3. failures[t] \in FailureRow
    BY DEF There, MatchesSound, DiscoveryRows
  <2>4. WriterSound(job)
    BY <2>2, <2>3 DEF WriterSound
  <2>5. Proceeds(w, job) /\ NothingWritten /\ backtests' \in Nat
    BY <2>1, <2>2 DEF ReadForLabel, NothingWritten, counters, MatchesSound, DiscoveryRows
  <2>. QED
    BY <2>4, <2>5, MatchesStay
<1>2. CASE \E found \in SUBSET FailureTraces : ReadForBacktest(w, b, found)
  <2>1. PICK found \in SUBSET FailureTraces : ReadForBacktest(w, b, found)
    BY <1>2
  <2>2. PICK detector : detector = behaviors[b].detector
    OBVIOUS
  <2>3. PICK positive : positive = [t \in {u \in found : DetectorMatches(detector, failures[u])} |->
                                      EvidenceOf(detector, t)]
    OBVIOUS
  <2>4. PICK job : job = [at |-> "replace", behavior |-> b, run |-> backtests', positive |-> positive]
    OBVIOUS
  <2>5. backtests' \in Nat /\ found \subseteq There /\ Proceeds(w, job) /\ NothingWritten
    BY <2>1, <2>2, <2>3, <2>4 DEF ReadForBacktest, NothingWritten, MatchesSound, DiscoveryRows
  <2>6. \A t \in There : EvidenceOf(detector, t) \subseteq FailureTraces \X {1, 2}
    <3>1. \A t \in There : t \in FailureTraces /\ failures[t].hits \subseteq {1, 2}
      BY DEF There, MatchesSound, DiscoveryRows, FailureRow
    <3>. QED
      BY <3>1 DEF EvidenceOf, SpanIds
  <2>7. /\ DOMAIN positive \in SUBSET There
        /\ \A t \in DOMAIN positive : positive[t] \subseteq FailureTraces \X {1, 2}
    BY <2>3, <2>5, <2>6
  <2>8. WriterSound(job)
    BY <2>4, <2>5, <2>7 DEF WriterSound
  <2>. QED
    BY <2>5, <2>8, MatchesStay
<1>. QED
  BY <1>1, <1>2

LEMMA MatchesStep == MatchesSound /\ [DiscoveryNext]_discoveryVars => MatchesSound'
<1>. SUFFICES ASSUME MatchesSound, [DiscoveryNext]_discoveryVars
              PROVE  MatchesSound'
  OBVIOUS
<1>1. backtests \in Nat
  BY DEF MatchesSound, DiscoveryRows
<1>2. CASE UNCHANGED discoveryVars
  BY <1>1, <1>2, MatchesApart DEF discoveryVars, NothingWritten
<1>3. ASSUME NEW t \in FailureTraces, NEW status \in {"ok", "error"}, NEW signature \in Signatures,
             NEW hits \in SUBSET {1, 2}, NEW verdicts \in SUBSET {"fail"},
             StoreFailure(t, status, signature, hits, verdicts)
      PROVE  MatchesSound'
  BY <1>3, StoreSound
<1>4. ASSUME NEW t \in FailureTraces, DeleteFailure(t)
      PROVE  MatchesSound'
  BY <1>4, DeleteSound
<1>5. ASSUME NEW b \in BehaviorIds, NEW name, NEW detector, NEW status,
             \/ NewBehavior(b, name, detector, status) \/ ProposeBehavior(b) \/ PromoteBehavior(b)
      PROVE  MatchesSound'
  BY <1>1, <1>5, MatchesApart
     DEF NewBehavior, ProposeBehavior, PromoteBehavior, NothingWritten, counters
<1>6. ASSUME NEW w \in Curators, WriteLabel(w)
      PROVE  MatchesSound'
  BY <1>6, LabelSound
<1>7. ASSUME NEW w \in Curators, NEW span \in SUBSET SpanIds(curators[w].trace, {1}),
             ConfirmMatch(w, span)
      PROVE  MatchesSound'
  BY <1>7, ConfirmSound
<1>8. ASSUME NEW w \in Curators, NEW found \in SUBSET FailureTraces, ReplaceMatches(w, found)
      PROVE  MatchesSound'
  BY <1>8, ReplaceSound
<1>9. ASSUME NEW w \in Curators, NEW t \in FailureTraces, NEW claims,
             ReadForGrounding(w, t, claims)
      PROVE  MatchesSound'
  <2>1. PICK q : /\ Proceeds(w, q) /\ NothingWritten /\ UNCHANGED backtests
                 /\ "at" \in DOMAIN q /\ q.at = "adjudicate"
    BY <1>9 DEF ReadForGrounding, NothingWritten, counters
  <2>. QED
    BY <2>1, OthersSound
<1>10. ASSUME NEW w \in Curators, NEW found, NEW base, ReadForNovelty(w, found, base)
       PROVE  MatchesSound'
  <2>1. PICK q : /\ Proceeds(w, q) /\ NothingWritten /\ UNCHANGED backtests
                 /\ "at" \in DOMAIN q /\ q.at = "group"
    BY <1>10 DEF ReadForNovelty, NothingWritten, counters
  <2>. QED
    BY <2>1, OthersSound
<1>11. ASSUME NEW w \in Curators, NEW leader, GroupSimilar(w, leader)
       PROVE  MatchesSound'
  <2>1. PICK q : /\ Proceeds(w, q) /\ NothingWritten /\ UNCHANGED backtests
                 /\ "at" \in DOMAIN q /\ q.at = "ask"
    <3>1. "at" \in DOMAIN curators[w]
      BY <1>11 DEF GroupSimilar, CuratorAt, MatchesSound, DiscoveryRows, WriterSound
    <3>2. PICK job, groups : job = curators[w] /\ groups = SimilarGroups(job.candidates, leader)
      OBVIOUS
    <3>3. PICK q : q = [job EXCEPT !.at = "ask", !.candidates = groups]
      OBVIOUS
    <3>4. Proceeds(w, q) /\ NothingWritten /\ UNCHANGED backtests
      BY <1>11, <3>2, <3>3 DEF GroupSimilar, NothingWritten, counters
    <3>5. "at" \in DOMAIN q /\ q.at = "ask"
      BY <3>1, <3>2, <3>3
    <3>. QED
      BY <3>4, <3>5
  <2>. QED
    BY <2>1, OthersSound
<1>12. ASSUME NEW w \in Curators, NEW answer, GroupByModel(w, answer)
       PROVE  MatchesSound'
  <2>1. PICK q : /\ Proceeds(w, q) /\ NothingWritten /\ UNCHANGED backtests
                 /\ "at" \in DOMAIN q /\ q.at = "persist"
    <3>1. "at" \in DOMAIN curators[w]
      BY <1>12 DEF GroupByModel, CuratorAt, MatchesSound, DiscoveryRows, WriterSound
    <3>2. PICK job, groups : job = curators[w] /\ groups = ModelGroups(job.candidates, answer)
      OBVIOUS
    <3>3. PICK q : q = [job EXCEPT !.at = "persist", !.candidates = groups]
      OBVIOUS
    <3>4. Proceeds(w, q) /\ NothingWritten /\ UNCHANGED backtests
      BY <1>12, <3>2, <3>3 DEF GroupByModel, NothingWritten, counters
    <3>5. "at" \in DOMAIN q /\ q.at = "persist"
      BY <3>1, <3>2, <3>3
    <3>. QED
      BY <3>4, <3>5
  <2>. QED
    BY <2>1, OthersSound
<1>13. ASSUME NEW w \in Curators,
              \/ PersistNovelty(w) \/ \E answer : PersistCheck(w, answer)
              \/ AddReviewTask(w) \/ CuratorStops(w)
       PROVE  MatchesSound'
  <2>2. PICK q : /\ Proceeds(w, q) /\ NothingWritten /\ UNCHANGED backtests
                 /\ q # None => "at" \in DOMAIN q /\ q.at \notin {"label", "confirm", "replace"}
    <3>1. CASE PersistNovelty(w)
      BY <3>1 DEF PersistNovelty, NothingWritten, counters
    <3>2. CASE \E answer : PersistCheck(w, answer)
      BY <3>2 DEF PersistCheck, NothingWritten, counters
    <3>3. CASE AddReviewTask(w)
      BY <3>3 DEF AddReviewTask, CuratorAt, NothingWritten, counters, MatchesSound, DiscoveryRows, WriterSound
    <3>4. CASE CuratorStops(w)
      BY <3>4 DEF CuratorStops, NothingWritten
    <3>. QED
      BY <1>13, <3>1, <3>2, <3>3, <3>4
  <2>. QED
    BY <2>2, OthersSound
<1>. QED
  BY <1>2, <1>3, <1>4, <1>5, <1>6, <1>7, <1>8, <1>9, <1>10, <1>11, <1>12, <1>13, ReadsSound
     DEF DiscoveryNext

LEMMA MatchesStart == DiscoveryInit => MatchesSound
<1>. SUFFICES ASSUME DiscoveryInit PROVE MatchesSound
  OBVIOUS
<1>1. DiscoveryRows
  <2>1. /\ failures \in [FailureTraces -> FailureRow \union {None}]
        /\ curators \in [Curators -> {None}] /\ backtests \in Nat
    BY DEF DiscoveryInit
  <2>2. matches \in Seq(MatchRow) /\ DOMAIN matches = {}
    BY DEF DiscoveryInit
  <2>. QED
    BY <2>1, <2>2 DEF DiscoveryInit, DiscoveryRows
<1>2. OfOneRun(matches)
  <2>1. \A b \in BehaviorIds : PositiveAt(matches, b) = {}
    BY DEF DiscoveryInit, PositiveAt
  <2>. QED
    BY <2>1, FS_EmptySet, DiscoveryAssumption DEF OfOneRun
<1>. QED
  BY <1>1, <1>2 DEF DiscoveryInit, MatchesSound, ConfirmedOnce, LabelsMatch, ConfirmedTraces

LEMMA MatchesAlways == DiscoverySpec => []MatchesSound
BY MatchesStart, MatchesStep, PTL DEF DiscoverySpec

\* MatchesOfOneSource holds of every run of the module, for any number of requests.
THEOREM Matches == DiscoverySpec => []MatchesOfOneSource
<1>1. MatchesSound => MatchesOfOneSource
  <2>. SUFFICES ASSUME MatchesSound PROVE MatchesOfOneSource
    OBVIOUS
  <2>1. OneConfirmedMatch /\ LabelsMatch
    BY DEF MatchesSound, OneConfirmedMatch, ConfirmedOnce
  <2>2. BacktestOfOneRun
    <3>1. SUFFICES ASSUME NEW b \in BehaviorIds
                   PROVE  LET positive == PositiveAt(matches, b)
                          IN /\ Cardinality({matches[k].run : k \in positive}) <= 1
                             /\ Cardinality(positive) <= SampleLimit
      BY DEF BacktestOfOneRun, PositiveAt
    <3>2. /\ \A j, k \in PositiveAt(matches, b) : matches[j].run = matches[k].run
          /\ Cardinality(PositiveAt(matches, b)) <= SampleLimit
      BY DEF MatchesSound, OfOneRun
    <3>3. CASE PositiveAt(matches, b) = {}
      BY <3>2, <3>3, FS_EmptySet
    <3>4. ASSUME NEW k \in PositiveAt(matches, b)
          PROVE  Cardinality({matches[j].run : j \in PositiveAt(matches, b)}) <= 1
      <4>1. PICK run, C : run = matches[k].run /\ C = {matches[j].run : j \in PositiveAt(matches, b)}
        OBVIOUS
      <4>2. C = {run}
        BY <3>2, <4>1
      <4>3. Cardinality(C) = 1
        BY <4>2, FS_Singleton
      <4>4. Cardinality(C) <= 1
        BY <4>3
      <4>. QED
        BY <4>1, <4>4
    <3>. QED
      BY <3>2, <3>3, <3>4
  <2>. QED
    BY <2>1, <2>2 DEF MatchesOfOneSource
<1>. QED
  BY <1>1, MatchesAlways, PTL


-----------------------------------------------------------------------------
(* Folds over finite sets. *)



(* Candidates of a novelty run. *)

\* A candidate counts no failure of its own as a negative, and none too few.
CandidateRow ==
  [sources : SUBSET (Signatures \union {"none"}), positives : SUBSET FailureTraces,
   negatives : SUBSET FailureTraces, frequency : Nat]

CandidateSound(c) ==
  /\ c \in CandidateRow /\ c.sources # {}
  /\ c.positives \intersect c.negatives = {} /\ c.frequency >= Cardinality(c.positives)

Apart(candidates) ==
  \A c, d \in candidates :
    c = d \/ (c.positives \intersect d.positives = {} /\ c.sources \intersect d.sources = {})

\* The candidates share out what was eligible.
SharedOut(eligible, candidates) ==
  /\ UNION {c.positives : c \in candidates} = eligible
  /\ \A c \in candidates : CandidateSound(c)
  /\ Apart(candidates)

\* The sum of the frequencies, as the fold computes it.
Sums(g, group) ==
  g = [s \in SUBSET DOMAIN group |->
         IF s = {} THEN 0
         ELSE g[s \ {CHOOSE x \in s : TRUE}] + group[CHOOSE x \in s : TRUE].frequency]

LEMMA SumOfGroup ==
  ASSUME NEW group
  PROVE  FoldSeq(LAMBDA c, sum : sum + c.frequency, 0, group) = (CHOOSE g : Sums(g, group))[DOMAIN group]
BY DEF FoldSeq, FoldFunction, FoldFunctionOnSet, MapThenFoldSet, Sums

LEMMA SumsExist ==
  ASSUME NEW group, IsFiniteSet(DOMAIN group), \A i \in DOMAIN group : group[i].frequency \in Nat
  PROVE  \E g : Sums(g, group)
<1>1. PICK S, w : S = DOMAIN group /\ w = [i \in S |-> group[i].frequency]
  OBVIOUS
<1>2. PICK g : SumRule(g, S, w) /\ SumAsChosen(g, S, w)
  <2>1. IsFiniteSet(S) /\ w \in [S -> Nat]
    BY <1>1
  <2>. QED
    BY ONLY <2>1, SumExists
<1>3. PICK h : h = [s \in SUBSET S |->
                      IF s = {} THEN 0
                      ELSE g[s \ {CHOOSE x \in s : TRUE}] + group[CHOOSE x \in s : TRUE].frequency]
  OBVIOUS
<1>4. \A s \in SUBSET S : s # {} => w[CHOOSE x \in s : TRUE] = group[CHOOSE x \in s : TRUE].frequency
  BY <1>1
<1>5. ASSUME NEW s \in SUBSET S
      PROVE  h[s] = g[s]
  <2>1. g[s] = IF s = {} THEN 0 ELSE g[s \ {CHOOSE x \in s : TRUE}] + w[CHOOSE x \in s : TRUE]
    BY <1>2 DEF SumAsChosen
  <2>2. h[s] = IF s = {} THEN 0
               ELSE g[s \ {CHOOSE x \in s : TRUE}] + group[CHOOSE x \in s : TRUE].frequency
    BY <1>3
  <2>. QED
    BY <1>4, <2>1, <2>2
<1>6. g = h
  <2>1. DOMAIN g = SUBSET S /\ g = [s \in SUBSET S |-> g[s]]
    BY <1>2 DEF SumAsChosen
  <2>2. DOMAIN h = SUBSET S /\ h = [s \in SUBSET S |-> h[s]]
    BY <1>3
  <2>. QED
    BY <1>5, <2>1, <2>2
<1>. QED
  BY <1>1, <1>3, <1>6 DEF Sums

LEMMA FrequencyOfGroup ==
  ASSUME NEW group, IsFiniteSet(DOMAIN group), \A i \in DOMAIN group : CandidateSound(group[i])
  PROVE  LET sum == FoldSeq(LAMBDA c, total : total + c.frequency, 0, group)
         IN sum \in Nat /\ sum >= Cardinality(UNION {group[i].positives : i \in DOMAIN group})
<1>. DEFINE S == DOMAIN group
            Of(s) == UNION {group[i].positives : i \in s}
<1>1. PICK g : Sums(g, group) /\ g = CHOOSE h : Sums(h, group)
  <2>1. \E g : Sums(g, group)
    BY SumsExist DEF CandidateSound, CandidateRow
  <2>. QED
    BY <2>1
<1>2. IsFiniteSet(FailureTraces)
  BY DiscoveryAssumption
<1>3. \A s \in SUBSET S : IsFiniteSet(Of(s)) /\ Cardinality(Of(s)) \in Nat
  <2>1. \A s \in SUBSET S : Of(s) \in SUBSET FailureTraces
    BY DEF CandidateSound, CandidateRow
  <2>. HIDE DEF Of
  <2>. QED
    BY <1>2, <2>1, FS_Subset, FS_CardinalityType
<1>. DEFINE T == {s \in SUBSET S : g[s] \in Nat /\ g[s] >= Cardinality(Of(s))}
<1>4. {} \in T
  <2>1. Of({}) = {} /\ Cardinality({}) = 0
    BY FS_EmptySet
  <2>2. g[{}] = 0
    BY <1>1 DEF Sums
  <2>. QED
    BY <2>1, <2>2
<1>5. ASSUME NEW s \in SUBSET S, s # {}
      PROVE  \E x \in s : s \ {x} \in T => s \in T
  <2>1. PICK x \in s : x = CHOOSE y \in s : TRUE
    BY <1>5
  <2>2. SUFFICES ASSUME s \ {x} \in T
                 PROVE  s \in T
    OBVIOUS
  <2>3. PICK r \in SUBSET S : r = s \ {x}
    OBVIOUS
  <2>4. g[s] = g[r] + group[x].frequency
    BY <1>1, <1>5, <2>1, <2>3 DEF Sums
  <2>5. /\ g[r] \in Nat /\ g[r] >= Cardinality(Of(r))
        /\ group[x].frequency \in Nat /\ group[x].frequency >= Cardinality(group[x].positives)
    BY <2>2, <2>3 DEF CandidateSound, CandidateRow
  <2>6. PICK A, P : A = Of(r) /\ P = group[x].positives
    OBVIOUS
  <2>7. Of(s) = A \union P
    BY <2>3, <2>6
  <2>8. IsFiniteSet(A) /\ IsFiniteSet(P)
    <3>1. P \in SUBSET FailureTraces
      BY <2>6 DEF CandidateSound, CandidateRow
    <3>. HIDE DEF Of
    <3>. QED
      BY <1>2, <1>3, <2>6, <3>1, FS_Subset
  <2>9. /\ Cardinality(A) \in Nat /\ Cardinality(P) \in Nat /\ Cardinality(A \intersect P) \in Nat
        /\ Cardinality(A \union P) = Cardinality(A) + Cardinality(P) - Cardinality(A \intersect P)
    BY <2>8, FS_Union, FS_Intersection, FS_CardinalityType
  <2>. HIDE DEF Of
  <2>10. g[s] \in Nat /\ Cardinality(A) + Cardinality(P) <= g[s]
    BY <2>4, <2>5, <2>6, <2>9
  <2>11. Cardinality(Of(s)) <= g[s]
    BY <2>7, <2>9, <2>10
  <2>. QED
    BY <2>10, <2>11
<1>6. S \in T
  <2>1. \A s \in SUBSET S : s # {} => \E x \in s : s \ {x} \in T => s \in T
    BY <1>5
  <2>. HIDE DEF T
  <2>2. \A s \in SUBSET S : s \in T
    BY <1>4, <2>1, SubsetsByOne
  <2>. QED
    BY <2>2
<1>. QED
  BY <1>1, <1>6, SumOfGroup


\* What is merged of a list of candidates.
LEMMA Merged ==
  ASSUME NEW n \in Nat \ {0}, NEW group, DOMAIN group = 1 .. n,
         \A i \in 1 .. n : CandidateSound(group[i])
  PROVE  /\ CandidateSound(MergeOf(group))
         /\ MergeOf(group).positives = UNION {group[i].positives : i \in 1 .. n}
         /\ MergeOf(group).sources = UNION {group[i].sources : i \in 1 .. n}
<1>1. IsFiniteSet(1 .. n)
  BY FS_Interval
<1>2. PICK total : total = FoldSeq(LAMBDA c, sum : sum + c.frequency, 0, group)
  OBVIOUS
<1>3. total \in Nat /\ total >= Cardinality(UNION {group[i].positives : i \in 1 .. n})
  BY <1>1, <1>2, FrequencyOfGroup
<1>4. Range(group) = {group[i] : i \in 1 .. n}
  BY DEF Range
<1>5. PICK positives : positives = UNION {c.positives : c \in Range(group)}
  OBVIOUS
<1>6. PICK sources : sources = UNION {c.sources : c \in Range(group)}
  OBVIOUS
<1>7. positives = UNION {group[i].positives : i \in 1 .. n}
  BY <1>4, <1>5
<1>8. sources = UNION {group[i].sources : i \in 1 .. n}
  BY <1>4, <1>6
<1>9. PICK negatives : negatives = NegativesOfAll(group)
  OBVIOUS
<1>10. positives \intersect negatives = {}
  <2>1. PICK R, all : R = Range(group) /\ all = UNION {c.negatives : c \in R}
    OBVIOUS
  <2>2. positives = UNION {c.positives : c \in R}
    BY <1>5, <2>1
  <2>3. NegativesOfAll(group) = (UNION {c.negatives : c \in R}) \ (UNION {c.positives : c \in R})
    BY <2>1 DEF NegativesOfAll
  <2>4. negatives = all \ positives
    BY <1>9, <2>1, <2>2, <2>3, Zenon
  <2>. QED
    BY <2>4
<1>11. MergeOf(group) = [sources |-> sources, positives |-> positives, negatives |-> negatives,
                         frequency |-> total]
  BY <1>2, <1>5, <1>6, <1>9 DEF MergeOf
<1>12. /\ sources # {} /\ sources \subseteq Signatures \union {"none"}
       /\ positives \subseteq FailureTraces /\ negatives \subseteq FailureTraces
  <2>1. group[1].sources # {}
    BY DEF CandidateSound
  <2>2. \A i \in 1 .. n : /\ group[i].positives \subseteq FailureTraces
                         /\ group[i].negatives \subseteq FailureTraces
                         /\ group[i].sources \subseteq Signatures \union {"none"}
    BY DEF CandidateSound, CandidateRow
  <2>3. negatives \subseteq UNION {group[i].negatives : i \in 1 .. n}
    <3>1. PICK R : R = Range(group)
      OBVIOUS
    <3>2. negatives \subseteq UNION {c.negatives : c \in R}
      BY <1>9, <3>1 DEF NegativesOfAll
    <3>. QED
      BY <1>4, <3>1, <3>2
  <2>. QED
    BY <1>7, <1>8, <2>1, <2>2, <2>3
<1>13. PICK row : row = [sources |-> sources, positives |-> positives, negatives |-> negatives,
                         frequency |-> total]
  OBVIOUS
<1>14. row \in CandidateRow
  BY <1>3, <1>12, <1>13 DEF CandidateRow
<1>15. CandidateSound(row)
  BY <1>3, <1>7, <1>10, <1>12, <1>13, <1>14 DEF CandidateSound
<1>. QED
  BY <1>7, <1>8, <1>11, <1>13, <1>15

\* What a run finds.
LEMMA CandidatesShared ==
  ASSUME failures \in [FailureTraces -> FailureRow \union {None}],
         NEW found \in SUBSET There, NEW base \in SUBSET There, NEW known
  PROVE  /\ SharedOut({t \in found : Unknown(t, known)}, Candidates(found, base, known))
         /\ IsFiniteSet(Candidates(found, base, known))
<1>. DEFINE U == {t \in found : Unknown(t, known)}
            Of(signature) == {t \in found : Unknown(t, known) /\ failures[t].signature = signature}
            Candidate(signature) ==
              [sources |-> {signature}, positives |-> Of(signature),
               frequency |-> Cardinality(Of(signature)),
               negatives |-> Negatives(signature, base) \ Of(signature)]
            Found == {failures[t].signature : t \in U}
<1>1. Candidates(found, base, known) = {Candidate(signature) : signature \in Found}
  BY DEF Candidates
<1>2. There \subseteq FailureTraces /\ \A t \in There : failures[t].signature \in Signatures \union {"none"}
  BY DEF There, FailureRow
<1>3. IsFiniteSet(U)
  <2>1. IsFiniteSet(FailureTraces) /\ U \in SUBSET FailureTraces
    BY <1>2, DiscoveryAssumption
  <2>. QED
    BY <2>1, FS_Subset
<1>4. IsFiniteSet(Found)
  <2>1. [t \in U |-> failures[t].signature] \in Surjection(U, Found)
    BY DEF Surjection
  <2>. HIDE DEF U, Found
  <2>. QED
    BY <1>3, <2>1, FS_Surjection
<1>5. IsFiniteSet(Candidates(found, base, known))
  <2>1. PICK T : T = {Candidate(signature) : signature \in Found}
    OBVIOUS
  <2>2. [signature \in Found |-> Candidate(signature)] \in Surjection(Found, T)
    BY <2>1 DEF Surjection
  <2>. HIDE DEF Found, Candidate
  <2>3. IsFiniteSet(T)
    BY <1>4, <2>2, FS_Surjection
  <2>. QED
    BY <1>1, <2>1, <2>3
<1>6. \A signature \in Found : CandidateSound(Candidate(signature))
  <2>1. SUFFICES ASSUME NEW signature \in Found
                 PROVE  CandidateSound(Candidate(signature))
    OBVIOUS
  <2>2. Of(signature) \in SUBSET FailureTraces
    BY <1>2
  <2>3. Negatives(signature, base) \subseteq FailureTraces
    BY <1>2 DEF Negatives
  <2>4. signature \in Signatures \union {"none"}
    BY <1>2
  <2>. HIDE DEF Of
  <2>5. Cardinality(Of(signature)) \in Nat
    BY <2>2, DiscoveryAssumption, FS_Subset, FS_CardinalityType
  <2>6. PICK n \in Nat : n = Cardinality(Of(signature))
    BY <2>5
  <2>7. PICK P, M : P = Of(signature) /\ M = Negatives(signature, base) \ Of(signature)
    OBVIOUS
  <2>8. Candidate(signature) = [sources |-> {signature}, positives |-> P, frequency |-> n, negatives |-> M]
    BY <2>6, <2>7
  <2>9. /\ P \intersect M = {} /\ P \subseteq FailureTraces /\ M \subseteq FailureTraces
        /\ n >= Cardinality(P)
    BY <2>2, <2>6, <2>7, <2>3
  <2>. QED
    BY <2>6, <2>8, <2>9, <2>4 DEF CandidateSound, CandidateRow
<1>7. \A s, r \in Found :
        s = r \/ (/\ Candidate(s).positives \intersect Candidate(r).positives = {}
                  /\ Candidate(s).sources \intersect Candidate(r).sources = {})
  OBVIOUS
<1>8. UNION {Candidate(signature).positives : signature \in Found} = U
  OBVIOUS
<1>9. PICK all : all = {Candidate(signature) : signature \in Found}
  OBVIOUS
<1>10. UNION {c.positives : c \in all} = UNION {Candidate(signature).positives : signature \in Found}
  <2>. HIDE DEF Candidate, Found
  <2>. QED
    BY <1>9
<1>11. (\A c \in all : CandidateSound(c)) /\ Apart(all)
  <2>. HIDE DEF Candidate, Found
  <2>. QED
    BY <1>6, <1>7, <1>9 DEF Apart
<1>. QED
  BY <1>1, <1>5, <1>8, <1>9, <1>10, <1>11 DEF SharedOut

\* Those close to one leader are merged.
LEMMA SimilarShared ==
  ASSUME NEW eligible, NEW candidates, IsFiniteSet(candidates), SharedOut(eligible, candidates),
         NEW leader, DOMAIN leader = candidates
  PROVE  /\ SharedOut(eligible, SimilarGroups(candidates, leader))
         /\ IsFiniteSet(SimilarGroups(candidates, leader))
<1>. DEFINE Group(l) == {c \in candidates : leader[c] = l}
            Merge(l) == MergeOf(SetToSeq(Group(l)))
            L == Range(leader)
<1>1. L = {leader[c] : c \in candidates}
  BY DEF Range
<1>2. SimilarGroups(candidates, leader) = {Merge(l) : l \in L}
  BY DEF SimilarGroups
<1>3. ASSUME NEW l \in L
      PROVE  /\ CandidateSound(Merge(l))
             /\ Merge(l).positives = UNION {c.positives : c \in Group(l)}
             /\ Merge(l).sources = UNION {c.sources : c \in Group(l)}
  <2>1. Group(l) \in SUBSET candidates /\ Group(l) # {}
    BY <1>1, <1>3
  <2>2. PICK G \in SUBSET candidates : G = Group(l) /\ G # {}
    BY <2>1
  <2>3. IsFiniteSet(G)
    BY FS_Subset
  <2>4. PICK n, list : n \in Nat /\ n = Cardinality(G) /\ list = SetToSeq(G)
    BY <2>3, FS_CardinalityType
  <2>5. list \in [1 .. n -> G]
    BY <2>3, <2>4, RowsOfSet
  <2>6. n # 0
    BY <2>2, <2>3, <2>4, FS_EmptySet
  <2>7. G = {list[i] : i \in 1 .. n}
    <3>1. list \in Injection(1 .. n, G)
      BY <2>3, <2>4, <2>5, RowsOfSet DEF Injection, IsInjective
    <3>2. Cardinality(1 .. n) = n
      BY <2>4, FS_Interval
    <3>3. list \in Surjection(1 .. n, G)
      BY <2>3, <2>4, <3>1, <3>2, FS_Injection
    <3>. QED
      BY <2>5, <3>3 DEF Surjection
  <2>8. \A i \in 1 .. n : CandidateSound(list[i])
    BY <2>5 DEF SharedOut
  <2>9. /\ CandidateSound(MergeOf(list))
        /\ MergeOf(list).positives = UNION {list[i].positives : i \in 1 .. n}
        /\ MergeOf(list).sources = UNION {list[i].sources : i \in 1 .. n}
    <3>1. n \in Nat \ {0} /\ DOMAIN list = 1 .. n
      BY <2>4, <2>5, <2>6
    <3>. QED
      BY <2>8, <3>1, Merged
  <2>10. Merge(l) = MergeOf(list)
    BY <2>2, <2>4
  <2>11. /\ UNION {list[i].positives : i \in 1 .. n} = UNION {c.positives : c \in G}
         /\ UNION {list[i].sources : i \in 1 .. n} = UNION {c.sources : c \in G}
    BY <2>7
  <2>. HIDE DEF Merge
  <2>. QED
    BY <2>2, <2>9, <2>10, <2>11
<1>4. ASSUME NEW l \in L, NEW k \in L, l # k
      PROVE  /\ Merge(l).positives \intersect Merge(k).positives = {}
             /\ Merge(l).sources \intersect Merge(k).sources = {}
  <2>1. \A c \in Group(l), d \in Group(k) :
          c.positives \intersect d.positives = {} /\ c.sources \intersect d.sources = {}
    BY <1>4 DEF SharedOut, Apart
  <2>2. /\ Merge(l).positives = UNION {c.positives : c \in Group(l)}
        /\ Merge(l).sources = UNION {c.sources : c \in Group(l)}
        /\ Merge(k).positives = UNION {c.positives : c \in Group(k)}
        /\ Merge(k).sources = UNION {c.sources : c \in Group(k)}
    BY <1>3
  <2>. HIDE DEF Group, Merge
  <2>. QED
    BY <2>1, <2>2
<1>5. UNION {Merge(l).positives : l \in L} = eligible
  <2>1. \A l \in L : Merge(l).positives = UNION {c.positives : c \in Group(l)}
    BY <1>3
  <2>2. \A c \in candidates : leader[c] \in L /\ c \in Group(leader[c])
    BY <1>1
  <2>3. \A l \in L : Group(l) \subseteq candidates
    OBVIOUS
  <2>. HIDE DEF Group, Merge, L
  <2>4. UNION {Merge(l).positives : l \in L} = UNION {c.positives : c \in candidates}
    BY <2>1, <2>2, <2>3
  <2>. QED
    BY <2>4 DEF SharedOut
<1>6. PICK groups : groups = {Merge(l) : l \in L}
  OBVIOUS
<1>7. IsFiniteSet(groups)
  <2>1. [c \in candidates |-> leader[c]] \in Surjection(candidates, L)
    BY <1>1 DEF Surjection
  <2>2. [l \in L |-> Merge(l)] \in Surjection(L, groups)
    BY <1>6 DEF Surjection
  <2>. HIDE DEF L, Merge
  <2>3. IsFiniteSet(L)
    BY <2>1, FS_Surjection
  <2>. QED
    BY <2>2, <2>3, FS_Surjection
<1>. HIDE DEF Merge, L
<1>8. UNION {g.positives : g \in groups} = eligible
  BY <1>5, <1>6
<1>9. \A g \in groups : CandidateSound(g)
  BY <1>3, <1>6
<1>10. Apart(groups)
  BY <1>4, <1>6 DEF Apart
<1>. QED
  BY <1>2, <1>6, <1>7, <1>8, <1>9, <1>10 DEF SharedOut


(* The groups of a model. *)

Names(candidates) == {c.sources : c \in candidates}
ByName(candidates) == [n \in Names(candidates) |-> CHOOSE c \in candidates : c.sources = n]

\* Each candidate is found by its name.
LEMMA Named ==
  ASSUME NEW eligible, NEW candidates, SharedOut(eligible, candidates)
  PROVE  /\ DOMAIN ByName(candidates) = Names(candidates)
         /\ \A n \in Names(candidates) :
              ByName(candidates)[n] \in candidates /\ ByName(candidates)[n].sources = n
         /\ \A c \in candidates : c.sources \in Names(candidates) /\ ByName(candidates)[c.sources] = c
<1>1. \A n \in Names(candidates) : \E c \in candidates : c.sources = n
  BY DEF Names
<1>2. \A n \in Names(candidates) :
        ByName(candidates)[n] \in candidates /\ ByName(candidates)[n].sources = n
  BY <1>1 DEF ByName
<1>3. \A c, d \in candidates : c.sources = d.sources => c = d
  BY DEF SharedOut, Apart, CandidateSound
<1>4. \A c \in candidates : c.sources \in Names(candidates)
  BY DEF Names
<1>. QED
  BY <1>2, <1>3, <1>4 DEF ByName

\* What a model has grouped so far: the candidates of the names it used.
GroupsSound(taken, named) ==
  /\ taken.used \subseteq DOMAIN named
  /\ \A g \in taken.groups : CandidateSound(g)
  /\ Apart(taken.groups)
  /\ UNION {g.positives : g \in taken.groups} = UNION {named[n].positives : n \in taken.used}
  /\ UNION {g.sources : g \in taken.groups} = UNION taken.used

LEMMA GroupTaken ==
  ASSUME NEW named, NEW taken, NEW names, IsList(names),
         GroupsSound(taken, named),
         \A n \in DOMAIN named : CandidateSound(named[n]) /\ named[n].sources = n,
         \A m, n \in DOMAIN named :
           m = n \/ (named[m].positives \intersect named[n].positives = {} /\ m \intersect n = {})
  PROVE  GroupsSound(TakeGroup(named, taken, names), named)
<1>. DEFINE at == {k \in DOMAIN names : names[k] \in DOMAIN named /\ Unused(names[k], taken.used)}
<1>1. PICK fresh : fresh = RowsAt(names, at)
  OBVIOUS
<1>2. DOMAIN names = 1 .. Len(names) /\ Len(names) \in Nat
  BY DEF IsList
<1>3. PICK R : names \in Seq(R)
  <2>1. PICK R, n : R = {names[k] : k \in DOMAIN names} /\ n = Len(names) /\ n \in Nat
    BY <1>2
  <2>2. names \in [1 .. n -> R]
    BY <1>2, <2>1 DEF IsList
  <2>3. names \in Seq(R)
    BY <2>1, <2>2, SeqDef
  <2>. QED
    BY <2>3
<1>4. /\ fresh \in Seq(R)
      /\ \A i \in DOMAIN fresh : \E k \in at : fresh[i] = names[k]
  <2>1. at \in SUBSET DOMAIN names
    OBVIOUS
  <2>. HIDE DEF at
  <2>. QED
    BY <1>3, <1>1, <2>1, KeptAmong
<1>5. CASE fresh = <<>>
  <2>1. TakeGroup(named, taken, names) = taken
    BY <1>1, <1>5 DEF TakeGroup
  <2>. QED
    BY <2>1
<1>6. CASE fresh # <<>>
  <2>1. PICK n \in Nat \ {0} : n = Len(fresh) /\ DOMAIN fresh = 1 .. n
    BY <1>4, <1>6
  <2>2. PICK list : list = [k \in 1 .. n |-> named[fresh[k]]]
    OBVIOUS
  <2>3. \A k \in 1 .. n : fresh[k] \in DOMAIN named /\ fresh[k] \notin taken.used
    BY <1>4, <2>1 DEF Unused
  <2>4. /\ DOMAIN list = 1 .. n
        /\ \A k \in 1 .. n : CandidateSound(list[k]) /\ list[k].sources = fresh[k]
    BY <2>2, <2>3
  <2>5. PICK new : new = MergeOf(list)
    OBVIOUS
  <2>6. /\ CandidateSound(new)
        /\ new.positives = UNION {list[k].positives : k \in 1 .. n}
        /\ new.sources = UNION {list[k].sources : k \in 1 .. n}
    BY <2>4, <2>5, Merged
  <2>7. PICK K : K = {fresh[k] : k \in 1 .. n}
    OBVIOUS
  <2>8. Range(fresh) = K
    BY <2>1, <2>7 DEF Range
  <2>9. K \subseteq DOMAIN named /\ K \intersect taken.used = {}
    BY <2>3, <2>7
  <2>10. new.positives = UNION {named[m].positives : m \in K}
    <3>1. UNION {list[k].positives : k \in 1 .. n} = UNION {named[m].positives : m \in K}
      BY <2>2, <2>7
    <3>. QED
      BY <2>6, <3>1
  <2>11. new.sources = UNION K
    <3>1. UNION {list[k].sources : k \in 1 .. n} = UNION K
      BY <2>4, <2>7
    <3>. QED
      BY <2>6, <3>1
  <2>12. PICK used, groups : used = taken.used /\ groups = taken.groups
    OBVIOUS
  <2>13. TakeGroup(named, taken, names) = [used |-> used \union K, groups |-> groups \union {new}]
    <3>1. list = [k \in DOMAIN fresh |-> named[fresh[k]]]
      BY <2>1, <2>2
    <3>. QED
      BY <1>1, <1>6, <2>5, <2>8, <2>12, <3>1 DEF TakeGroup
  <2>14. /\ used \subseteq DOMAIN named /\ (\A g \in groups : CandidateSound(g)) /\ Apart(groups)
         /\ UNION {g.positives : g \in groups} = UNION {named[m].positives : m \in used}
         /\ UNION {g.sources : g \in groups} = UNION used
    BY <2>12 DEF GroupsSound
  <2>15. ASSUME NEW g \in groups
         PROVE  g.positives \intersect new.positives = {} /\ g.sources \intersect new.sources = {}
    <3>1. \A m \in used, k \in K :
            named[m].positives \intersect named[k].positives = {} /\ m \intersect k = {}
      BY <2>9, <2>12, <2>14
    <3>2. g.positives \subseteq UNION {named[m].positives : m \in used}
      BY <2>14
    <3>3. g.sources \subseteq UNION used
      BY <2>14
    <3>4. g.positives \intersect new.positives = {}
      BY <2>10, <3>1, <3>2
    <3>5. g.sources \intersect new.sources = {}
      BY <2>11, <3>1, <3>3
    <3>. QED
      BY <3>4, <3>5
  <2>16. PICK more, all : more = groups \union {new} /\ all = used \union K
    OBVIOUS
  <2>17. Apart(more) /\ \A g \in more : CandidateSound(g)
    BY <2>6, <2>14, <2>15, <2>16 DEF Apart
  <2>18. UNION {g.positives : g \in more} = UNION {named[m].positives : m \in all}
    <3>1. UNION {g.positives : g \in more} = (UNION {g.positives : g \in groups}) \union new.positives
      BY <2>16
    <3>2. UNION {named[m].positives : m \in all}
            = (UNION {named[m].positives : m \in used}) \union (UNION {named[m].positives : m \in K})
      BY <2>16
    <3>. QED
      BY <2>10, <2>14, <3>1, <3>2
  <2>19. UNION {g.sources : g \in more} = UNION all
    <3>1. UNION {g.sources : g \in more} = (UNION {g.sources : g \in groups}) \union new.sources
      BY <2>16
    <3>2. UNION all = (UNION used) \union (UNION K)
      BY <2>16
    <3>. QED
      BY <2>11, <2>14, <3>1, <3>2
  <2>20. PICK next : next = [used |-> all, groups |-> more]
    OBVIOUS
  <2>21. GroupsSound(next, named)
    BY <2>9, <2>14, <2>16, <2>17, <2>18, <2>19, <2>20 DEF GroupsSound
  <2>. QED
    BY <2>13, <2>16, <2>20, <2>21
<1>. QED
  BY <1>5, <1>6

-----------------------------------------------------------------------------
(* The answer of a model, group by group. *)

Takes(g, named, answer) ==
  g = [s \in SUBSET DOMAIN answer |->
         IF s = {} THEN [used |-> {}, groups |-> {}]
         ELSE TakeGroup(named, g[s \ {Max(s)}], answer[Max(s)])]

LEMMA TakenByFold ==
  ASSUME NEW named, NEW answer
  PROVE  FoldLeft(LAMBDA acc, names : TakeGroup(named, acc, names), [used |-> {}, groups |-> {}], answer)
           = (CHOOSE g : Takes(g, named, answer))[DOMAIN answer]
BY DEF FoldLeft, MapThenFoldSet, Takes

LEMMA MaxIsMember ==
  ASSUME NEW n \in Nat, NEW s \in SUBSET (1 .. n), s # {}
  PROVE  Max(s) \in s
<1>. DEFINE T == {k \in Nat : n - k \in s}
<1>1. \A x \in s : n - x \in Nat /\ n - (n - x) = x
  OBVIOUS
<1>2. T # {} /\ T \in SUBSET Nat
  BY <1>1
<1>3. PICK m \in T : \A k \in T : m <= k
  <2>. HIDE DEF T
  <2>. QED
    BY <1>2, Smallest
<1>4. n - m \in s /\ \A x \in s : x <= n - m
  BY <1>1, <1>3
<1>. QED
  BY <1>4 DEF Max


\* What may have been grouped.
Grouped(named) ==
  {a \in [used : SUBSET DOMAIN named, groups : SUBSET CandidateRow] : GroupsSound(a, named)}

LEMMA AnswerTaken ==
  ASSUME NEW named, NEW answer, IsList(answer), \A k \in DOMAIN answer : IsList(answer[k]),
         \A n \in DOMAIN named : CandidateSound(named[n]) /\ named[n].sources = n,
         \A m, n \in DOMAIN named :
           m = n \/ (named[m].positives \intersect named[n].positives = {} /\ m \intersect n = {})
  PROVE  (CHOOSE g : Takes(g, named, answer))[DOMAIN answer] \in Grouped(named)
<1>1. PICK n \in Nat : DOMAIN answer = 1 .. n
  BY DEF IsList
<1>2. PICK B, base : B = Grouped(named) /\ base = [used |-> {}, groups |-> {}]
  OBVIOUS
<1>3. base \in B
  BY <1>2 DEF Grouped, GroupsSound, Apart
<1>4. ASSUME NEW k \in 1 .. n, NEW a \in B
      PROVE  TakeGroup(named, a, answer[k]) \in B
  <2>1. PICK names : names = answer[k] /\ IsList(names)
    BY <1>1
  <2>2. GroupsSound(a, named)
    BY <1>2 DEF Grouped
  <2>3. PICK next : next = TakeGroup(named, a, names)
    OBVIOUS
  <2>4. GroupsSound(next, named)
    BY <2>1, <2>2, <2>3, GroupTaken
  <2>5. next = a \/ \E u, g : next = [used |-> u, groups |-> g]
    BY <2>3, Zenon DEF TakeGroup
  <2>6. ASSUME NEW u, NEW g, next = [used |-> u, groups |-> g]
        PROVE  next \in B
    <3>1. u \subseteq DOMAIN named /\ g \subseteq CandidateRow
      BY <2>4, <2>6 DEF GroupsSound, CandidateSound
    <3>. QED
      BY <1>2, <2>4, <2>6, <3>1 DEF Grouped
  <2>. QED
    BY <2>1, <2>3, <2>5, <2>6
<1>5. PICK S : S = 1 .. n
  OBVIOUS
<1>. DEFINE c == [s \in SUBSET S |-> Max(s)]
            F == [s \in SUBSET S |-> [a \in B |-> IF s = {} THEN a ELSE TakeGroup(named, a, answer[c[s]])]]
<1>6. \A s \in SUBSET S : s # {} => c[s] \in s
  BY <1>5, MaxIsMember
<1>7. F \in [SUBSET S -> [B -> B]]
  BY <1>5, <1>4, <1>6
<1>8. PICK d, H : d = c /\ H = F
  OBVIOUS
<1>9. /\ \A s \in SUBSET S : s # {} => d[s] \in s /\ d[s] = Max(s)
      /\ H \in [SUBSET S -> [B -> B]]
      /\ \A s \in SUBSET S : s # {} => \A a \in B : H[s][a] = TakeGroup(named, a, answer[d[s]])
  BY <1>6, <1>7, <1>8
<1>. HIDE DEF c, F
<1>10. IsFiniteSet(S)
  BY <1>5, FS_Interval
<1>11. PICK g \in [SUBSET S -> B] : Folding(g, SUBSET S, base, d, H)
  <2>1. \A s \in SUBSET S : s # {} => d[s] \in s
    BY <1>9
  <2>2. H \in [SUBSET S -> [B -> B]]
    BY <1>9
  <2>3. Foldable(S, B, base, d, H)
    BY <1>3, <1>10, <2>1, <2>2 DEF Foldable
  <2>. QED
    BY ONLY <2>3, FoldExists
<1>12. PICK h : h = [s \in SUBSET S |-> IF s = {} THEN [used |-> {}, groups |-> {}]
                                        ELSE TakeGroup(named, g[s \ {Max(s)}], answer[Max(s)])]
  OBVIOUS
<1>13. ASSUME NEW s \in SUBSET S
       PROVE  h[s] = g[s]
  <2>1. CASE s = {}
    BY <1>2, <1>11, <1>12, <2>1 DEF Folding
  <2>2. CASE s # {}
    <3>1. PICK r \in SUBSET S : r = s \ {d[s]}
      OBVIOUS
    <3>2. g[r] \in B /\ g[s] = H[s][g[r]]
      BY <1>11, <2>2, <3>1 DEF Folding
    <3>3. g[s] = TakeGroup(named, g[r], answer[d[s]])
      BY <1>9, <2>2, <3>2
    <3>4. d[s] = Max(s)
      BY <1>9, <2>2
    <3>5. h[s] = TakeGroup(named, g[s \ {Max(s)}], answer[Max(s)])
      BY <1>12, <2>2
    <3>. QED
      BY <3>1, <3>3, <3>4, <3>5, Zenon
  <2>. QED
    BY <2>1, <2>2
<1>14. g = h
  <2>1. DOMAIN h = SUBSET S /\ h = [s \in SUBSET S |-> h[s]]
    BY <1>12
  <2>2. g = [s \in SUBSET S |-> g[s]]
    BY <1>11
  <2>3. [s \in SUBSET S |-> h[s]] = [s \in SUBSET S |-> g[s]]
    BY <1>13
  <2>. QED
    BY <2>1, <2>2, <2>3, Zenon
<1>15. Takes(g, named, answer)
  BY <1>5, <1>1, <1>2, <1>12, <1>14, Zenon DEF Takes
<1>16. PICK f : Takes(f, named, answer) /\ f = CHOOSE e : Takes(e, named, answer)
  BY <1>15
<1>. DEFINE T == {s \in SUBSET S : f[s] \in B}
<1>17. /\ f[{}] = base
       /\ \A s \in SUBSET S : s # {} => f[s] = TakeGroup(named, f[s \ {Max(s)}], answer[Max(s)])
  <2>1. f = [s \in SUBSET S |-> IF s = {} THEN [used |-> {}, groups |-> {}]
                                ELSE TakeGroup(named, f[s \ {Max(s)}], answer[Max(s)])]
    BY <1>5, <1>1, <1>16, Zenon DEF Takes
  <2>. QED
    BY <1>2, <2>1
<1>18. {} \in T
  BY <1>3, <1>17
<1>19. ASSUME NEW s \in SUBSET S, s # {}
       PROVE  \E x \in s : s \ {x} \in T => s \in T
  <2>1. PICK x \in s : x = Max(s) /\ x \in 1 .. n
    BY <1>5, <1>19, MaxIsMember
  <2>2. PICK b : b = f[s \ {x}]
    OBVIOUS
  <2>3. f[s] = TakeGroup(named, b, answer[x])
    BY <1>17, <1>19, <2>1, <2>2
  <2>4. \A a \in B : TakeGroup(named, a, answer[x]) \in B
    BY <1>4, <2>1
  <2>5. b \in B => f[s] \in B
    BY <2>3, <2>4
  <2>. QED
    BY <2>2, <2>5
<1>20. S \in T
  <2>1. \A s \in SUBSET S : s # {} => \E x \in s : s \ {x} \in T => s \in T
    BY <1>19
  <2>. HIDE DEF T
  <2>2. \A s \in SUBSET S : s \in T
    BY <1>10, <1>18, <2>1, SubsetsByOne
  <2>. QED
    BY <2>2
<1>21. f[DOMAIN answer] \in B
  BY <1>5, <1>1, <1>20
<1>. QED
  BY <1>2, <1>16, <1>21, Zenon

LEMMA GroupsOfModel ==
  ASSUME NEW candidates, NEW answer
  PROVE  LET taken == (CHOOSE g : Takes(g, ByName(candidates), answer))[DOMAIN answer]
         IN ModelGroups(candidates, answer) = taken.groups \union {c \in candidates : c.sources \notin taken.used}
BY DEF ModelGroups, ByName, Names, Takes, FoldLeft, MapThenFoldSet

LEMMA ModelShared ==
  ASSUME NEW eligible, NEW candidates, SharedOut(eligible, candidates),
         NEW answer, IsList(answer), \A k \in DOMAIN answer : IsList(answer[k])
  PROVE  SharedOut(eligible, ModelGroups(candidates, answer))
<1>1. PICK named : named = ByName(candidates)
  OBVIOUS
<1>2. /\ DOMAIN named = Names(candidates)
      /\ \A n \in DOMAIN named : named[n] \in candidates /\ named[n].sources = n
      /\ \A c \in candidates : c.sources \in DOMAIN named /\ named[c.sources] = c
  BY <1>1, Named
<1>3. (\A c \in candidates : CandidateSound(c)) /\ Apart(candidates)
      /\ UNION {c.positives : c \in candidates} = eligible
  BY DEF SharedOut
<1>4. \A n \in DOMAIN named : CandidateSound(named[n]) /\ named[n].sources = n
  BY <1>2, <1>3
<1>5. \A m, n \in DOMAIN named :
        m = n \/ (named[m].positives \intersect named[n].positives = {} /\ m \intersect n = {})
  BY <1>2, <1>3 DEF Apart
<1>6. PICK taken : /\ taken = (CHOOSE g : Takes(g, named, answer))[DOMAIN answer]
                   /\ taken \in Grouped(named)
  BY <1>4, <1>5, AnswerTaken
<1>7. PICK used, groups : used = taken.used /\ groups = taken.groups
  OBVIOUS
<1>8. /\ used \subseteq DOMAIN named /\ (\A g \in groups : CandidateSound(g)) /\ Apart(groups)
      /\ UNION {g.positives : g \in groups} = UNION {named[n].positives : n \in used}
      /\ UNION {g.sources : g \in groups} = UNION used
  BY <1>6, <1>7 DEF Grouped, GroupsSound
<1>9. PICK rest : rest = {c \in candidates : c.sources \notin used}
  OBVIOUS
<1>10. ModelGroups(candidates, answer) = groups \union rest
  <2>2. ModelGroups(candidates, answer) = taken.groups \union {c \in candidates : c.sources \notin taken.used}
    BY <1>1, <1>6, GroupsOfModel
  <2>. QED
    BY <1>7, <1>9, <2>2
<1>11. ASSUME NEW g \in groups, NEW c \in rest
       PROVE  g.positives \intersect c.positives = {} /\ g.sources \intersect c.sources = {}
  <2>1. c \in candidates /\ c.sources \in DOMAIN named /\ c.sources \notin used /\ named[c.sources] = c
    BY <1>2, <1>9
  <2>2. \A n \in used : named[n].positives \intersect c.positives = {} /\ n \intersect c.sources = {}
    BY <1>5, <1>8, <2>1
  <2>3. g.positives \subseteq UNION {named[n].positives : n \in used} /\ g.sources \subseteq UNION used
    BY <1>8
  <2>. QED
    BY <2>2, <2>3
<1>12. PICK all : all = groups \union rest
  OBVIOUS
<1>13. \A c \in all : CandidateSound(c)
  BY <1>3, <1>8, <1>9, <1>12
<1>14. Apart(all)
  <2>1. Apart(rest)
    BY <1>3, <1>9 DEF Apart
  <2>. QED
    BY <1>8, <1>11, <1>12, <2>1 DEF Apart
<1>15. UNION {c.positives : c \in all} = eligible
  <2>1. UNION {c.positives : c \in all}
          = (UNION {named[n].positives : n \in used}) \union (UNION {c.positives : c \in rest})
    BY <1>8, <1>12
  <2>2. \A n \in used : named[n] \in candidates
    BY <1>2, <1>8
  <2>3. \A c \in candidates : c \in rest \/ (c.sources \in used /\ named[c.sources] = c)
    BY <1>2, <1>9
  <2>4. rest \subseteq candidates
    BY <1>9
  <2>5. UNION {c.positives : c \in candidates}
          = (UNION {named[n].positives : n \in used}) \union (UNION {c.positives : c \in rest})
    BY <2>2, <2>3, <2>4
  <2>. QED
    BY <1>3, <2>1, <2>5
<1>. QED
  BY <1>10, <1>12, <1>13, <1>14, <1>15 DEF SharedOut


(* What runs and checks find. *)

\* What a request that finds something, or adds review tasks, has in hand.
FinderSound(job) ==
  /\ job.at \in {"group", "ask", "persist"} =>
       DOMAIN job = {"at", "eligible", "candidates"} /\ SharedOut(job.eligible, job.candidates)
  /\ job.at = "group" => IsFiniteSet(job.candidates)
  /\ job.at = "adjudicate" => job.trace \in FailureTraces /\ job.spans \subseteq {1, 2}
  /\ job.at = "tasks" => job \in Reviewing

\* A contradiction has spans that were read.
CheckCited(check) ==
  LET is(status) == {c \in DOMAIN check.claims : check.claims[c].status = status}
  IN /\ \A c \in is("contradicted") : check.claims[c].against # {} /\ check.claims[c].against \subseteq check.read
     /\ (check.status = "contradicted") = (is("contradicted") # {})
     /\ check.status = "supported" => is("supported") = DOMAIN check.claims

TasksOf(w) == IF CuratorAt(w, "tasks") THEN curators[w].tasks ELSE {}

\* What is before a reviewer, or will be.
Given == {task.about : task \in curatorTasks \union UNION {TasksOf(w) : w \in Curators}}

ToReview(k) == checks[k] # None /\ checks[k].status # "supported"

AllGiven ==
  /\ \A k \in DOMAIN checks : ToReview(k) => <<"check", k>> \in Given
  /\ \A k \in DOMAIN noveltyRuns : \A c \in noveltyRuns[k].candidates : <<"novelty", <<k, c.sources>>>> \in Given

FindingsSound ==
  /\ \A w \in Curators : curators[w] # None => FinderSound(curators[w])
  /\ curatorTasks \subseteq ReviewRow
  /\ \E R : noveltyRuns \in Seq(R)
  /\ \A k \in DOMAIN noveltyRuns : SharedOut(noveltyRuns[k].eligible, noveltyRuns[k].candidates)
  /\ \E R : checks \in Seq(R)
  /\ \A k \in DOMAIN checks : checks[k] = None \/ CheckCited(checks[k])
  /\ curatorStops \in Nat
  /\ curatorStops = 0 => AllGiven

\* What is given stays so while the tasks of a request do.
LEMMA GivenGrows ==
  ASSUME MatchesSound, UNCHANGED curatorTasks,
         NEW w \in Curators, ~CuratorAt(w, "tasks"), NEW q, Proceeds(w, q)
  PROVE  /\ \A v \in Curators : curators'[v] = IF v = w THEN q ELSE curators[v]
         /\ Given \subseteq Given'
         /\ q # None /\ q.at = "tasks" => \A task \in q.tasks : task.about \in Given'
<1>1. PICK S : curators \in [Curators -> S]
  BY DEF MatchesSound, DiscoveryRows
<1>2. \A v \in Curators : curators'[v] = IF v = w THEN q ELSE curators[v]
  BY <1>1 DEF Proceeds
<1>3. \A v \in Curators : TasksOf(v) \subseteq TasksOf(v)'
  BY <1>2 DEF TasksOf, CuratorAt
<1>4. PICK A, B : A = UNION {TasksOf(v) : v \in Curators} /\ B = (UNION {TasksOf(v) : v \in Curators})'
  OBVIOUS
<1>5. A \subseteq B
  BY <1>3, <1>4
<1>6. Given = {task.about : task \in curatorTasks \union A}
  BY <1>4 DEF Given
<1>7. Given' = {task.about : task \in curatorTasks \union B}
  BY <1>4 DEF Given
<1>8. q # None /\ q.at = "tasks" => q.tasks \subseteq B
  <2>1. q # None /\ q.at = "tasks" => TasksOf(w)' = q.tasks
    BY <1>2 DEF TasksOf, CuratorAt
  <2>. QED
    BY <1>4, <2>1
<1>. QED
  BY <1>2, <1>5, <1>6, <1>7, <1>8

\* What a request goes on with, while nothing is found.
LEMMA FindingsStay ==
  ASSUME MatchesSound, FindingsSound,
         UNCHANGED <<noveltyRuns, checks, curatorTasks, curatorStops>>,
         NEW w \in Curators, ~CuratorAt(w, "tasks"),
         NEW q, q = None \/ FinderSound(q), Proceeds(w, q)
  PROVE  FindingsSound'
<1>1. \A v \in Curators : curators'[v] # None => FinderSound(curators'[v])
  BY GivenGrows DEF FindingsSound
<1>2. AllGiven => AllGiven'
  BY GivenGrows DEF AllGiven, ToReview
<1>. QED
  BY <1>1, <1>2 DEF FindingsSound

\* A step of no request, that finds nothing either.
LEMMA FindingsApart ==
  ASSUME FindingsSound, UNCHANGED <<noveltyRuns, checks, curatorTasks, curatorStops, curators>>
  PROVE  FindingsSound'
<1>1. Given' = Given
  BY DEF Given, TasksOf, CuratorAt
<1>2. AllGiven => AllGiven'
  BY <1>1 DEF AllGiven, ToReview
<1>. QED
  BY <1>2 DEF FindingsSound

\* A deletion takes the evidence of a task, never the task.
LEMMA DeletionFindings ==
  ASSUME FindingsSound, NEW t \in FailureTraces, DeleteFailure(t)
  PROVE  FindingsSound'
<1>1. UNCHANGED <<noveltyRuns, curatorStops, curators>>
  BY DEF DeleteFailure, counters
<1>2. PICK out : out = {t} \union SpanIds(t, {1, 2})
  OBVIOUS
<1>3. curatorTasks' = {[task EXCEPT !.evidence = task.evidence \ out] : task \in curatorTasks}
  BY <1>2 DEF DeleteFailure
<1>4. \A task \in curatorTasks :
        LET less == [task EXCEPT !.evidence = task.evidence \ out]
        IN less \in curatorTasks' /\ less \in ReviewRow /\ less.about = task.about
  BY <1>3 DEF FindingsSound, ReviewRow
<1>5. curatorTasks' \subseteq ReviewRow
  BY <1>3, <1>4
<1>6. Given \subseteq Given'
  <2>1. PICK A : A = UNION {TasksOf(v) : v \in Curators} /\ A = (UNION {TasksOf(v) : v \in Curators})'
    BY <1>1 DEF TasksOf, CuratorAt
  <2>2. Given = {task.about : task \in curatorTasks \union A}
    BY <2>1 DEF Given
  <2>3. Given' = {task.about : task \in curatorTasks' \union A}
    BY <2>1 DEF Given
  <2>4. \A task \in curatorTasks : \E less \in curatorTasks' : less.about = task.about
    BY <1>4
  <2>. QED
    BY <2>2, <2>3, <2>4
<1>7. checks' = [k \in DOMAIN checks |->
                   IF checks[k] # None /\ checks[k].trace = t THEN None ELSE checks[k]]
  BY DEF DeleteFailure
<1>8. \E R : checks' \in Seq(R)
  <2>1. PICK R : checks \in Seq(R)
    BY DEF FindingsSound
  <2>2. PICK n \in Nat : n = Len(checks) /\ DOMAIN checks = 1 .. n
    BY <2>1
  <2>3. PICK Q : Q = R \union {None}
    OBVIOUS
  <2>4. checks' \in [1 .. n -> Q]
    BY <1>7, <2>1, <2>2, <2>3
  <2>5. checks' \in Seq(Q)
    BY <2>4, SeqDef
  <2>. QED
    BY <2>5
<1>9. DOMAIN checks' = DOMAIN checks /\ \A k \in DOMAIN checks : checks'[k] = None \/ checks'[k] = checks[k]
  BY <1>7
<1>10. \A k \in DOMAIN checks' : checks'[k] = None \/ CheckCited(checks'[k])
  BY <1>9 DEF FindingsSound
<1>11. AllGiven => AllGiven'
  BY <1>1, <1>6, <1>9 DEF AllGiven, ToReview
<1>. QED
  BY <1>1, <1>5, <1>8, <1>10, <1>11 DEF FindingsSound


\* A run goes to a reviewer with every candidate it has.
LEMMA NoveltyPersisted ==
  ASSUME MatchesSound, FindingsSound, NEW w \in Curators, PersistNovelty(w)
  PROVE  FindingsSound'
<1>1. PICK job : job = curators[w] /\ job # None /\ job.at \in {"group", "ask", "persist"}
  BY DEF PersistNovelty, CuratorAt
<1>2. SharedOut(job.eligible, job.candidates)
  BY <1>1 DEF FindingsSound, FinderSound
<1>3. PICK run, row : /\ run = Len(noveltyRuns) + 1
                      /\ row = [eligible |-> job.eligible, candidates |-> job.candidates]
  OBVIOUS
<1>4. PICK all : all = {ReviewOf("novelty", <<run, c.sources>>, c.positives) : c \in job.candidates}
  OBVIOUS
<1>5. PICK q : q = IF job.candidates = {} THEN None ELSE [at |-> "tasks", tasks |-> all]
  OBVIOUS
<1>6. /\ noveltyRuns' = Append(noveltyRuns, row) /\ Proceeds(w, q)
      /\ UNCHANGED <<checks, curatorTasks, curatorStops>>
  BY <1>1, <1>3, <1>4, <1>5, Zenon DEF PersistNovelty, counters
<1>9. PICK R : noveltyRuns \in Seq(R)
  BY DEF FindingsSound
<1>7. /\ all \subseteq ReviewRow
      /\ \A c \in job.candidates : \E task \in all : task.about = <<"novelty", <<run, c.sources>>>>
  <2>1. \A c \in job.candidates : c.sources \subseteq Signatures \union {"none"} /\ c.positives \subseteq FailureTraces
    BY <1>2 DEF SharedOut, CandidateSound, CandidateRow
  <2>2. run \in Nat
    BY <1>3, <1>9
  <2>3. PICK NameSet, Evidence :
          /\ NameSet = SUBSET (Signatures \union {"none"})
          /\ Evidence = SUBSET (FailureTraces \union (FailureTraces \X {1, 2}))
    OBVIOUS
  <2>4. \A c \in job.candidates : ReviewOf("novelty", <<run, c.sources>>, c.positives) \in ReviewRow
    <3>1. \A c \in job.candidates : c.sources \in NameSet /\ c.positives \in Evidence
      BY <2>1, <2>3
    <3>2. ReviewRow = [about : ({"behavior"} \X BehaviorIds) \union ({"check"} \X Nat)
                               \union ({"novelty"} \X (Nat \X NameSet)), evidence : Evidence]
      BY <2>3 DEF ReviewRow
    <3>. QED
      BY <2>2, <3>1, <3>2 DEF ReviewOf
  <2>5. all \subseteq ReviewRow
    BY <1>4, <2>4
  <2>6. \A c \in job.candidates : \E task \in all : task.about = <<"novelty", <<run, c.sources>>>>
    <3>1. SUFFICES ASSUME NEW c \in job.candidates
                   PROVE  \E task \in all : task.about = <<"novelty", <<run, c.sources>>>>
      OBVIOUS
    <3>2. PICK task : task = ReviewOf("novelty", <<run, c.sources>>, c.positives)
      OBVIOUS
    <3>3. task \in all
      BY <1>4, <3>2
    <3>4. task.about = <<"novelty", <<run, c.sources>>>>
      BY <3>2 DEF ReviewOf
    <3>. QED
      BY <3>3, <3>4
  <2>. QED
    BY <2>5, <2>6
<1>8. q = None \/ FinderSound(q)
  BY <1>5, <1>7 DEF FinderSound, Reviewing
<1>10. PICK Q : Q = R \union {row}
  OBVIOUS
<1>11. /\ noveltyRuns' \in Seq(Q)
       /\ DOMAIN noveltyRuns' = DOMAIN noveltyRuns \union {run}
       /\ \A k \in DOMAIN noveltyRuns : noveltyRuns'[k] = noveltyRuns[k]
       /\ noveltyRuns'[run] = row
  <2>1. PICK rows, more : rows = noveltyRuns /\ more = noveltyRuns' /\ rows \in Seq(Q)
    BY <1>9, <1>10
  <2>2. more = Append(rows, row) /\ row \in Q /\ run = Len(rows) + 1
    BY <1>3, <1>6, <1>10, <2>1
  <2>3. /\ more \in Seq(Q) /\ Len(more) = run /\ DOMAIN more = 1 .. run /\ DOMAIN rows = 1 .. Len(rows)
        /\ more[run] = row /\ \A k \in 1 .. Len(rows) : more[k] = rows[k]
    BY <2>1, <2>2
  <2>. QED
    BY <2>1, <2>2, <2>3
<1>12. /\ \A v \in Curators : curators'[v] = IF v = w THEN q ELSE curators[v]
       /\ Given \subseteq Given'
       /\ q # None /\ q.at = "tasks" => \A task \in q.tasks : task.about \in Given'
  <2>1. ~CuratorAt(w, "tasks")
    BY <1>1 DEF CuratorAt
  <2>. QED
    BY <1>6, <2>1, GivenGrows
<1>13. \A c \in row.candidates : <<"novelty", <<run, c.sources>>>> \in Given'
  <2>1. SUFFICES ASSUME NEW c \in job.candidates
                 PROVE  <<"novelty", <<run, c.sources>>>> \in Given'
    BY <1>3
  <2>2. q # None /\ q.at = "tasks" /\ q.tasks = all
    <3>1. q = [at |-> "tasks", tasks |-> all]
      BY <1>5
    <3>2. q # None
      BY <1>7, <3>1, RowAssumption DEF Reviewing
    <3>. QED
      BY <3>1, <3>2
  <2>. QED
    BY <1>7, <1>12, <2>2
<1>14. AllGiven => AllGiven'
  <2>1. SUFFICES ASSUME AllGiven
                 PROVE  /\ \A k \in DOMAIN checks : ToReview(k) => <<"check", k>> \in Given'
                        /\ \A k \in DOMAIN noveltyRuns' : \A c \in noveltyRuns'[k].candidates :
                             <<"novelty", <<k, c.sources>>>> \in Given'
    BY <1>6 DEF AllGiven, ToReview
  <2>. QED
    BY <1>11, <1>12, <1>13, <2>1 DEF AllGiven
<1>15. \A k \in DOMAIN noveltyRuns' : SharedOut(noveltyRuns'[k].eligible, noveltyRuns'[k].candidates)
  BY <1>2, <1>3, <1>11 DEF FindingsSound
<1>16. \A v \in Curators : curators'[v] # None => FinderSound(curators'[v])
  BY <1>8, <1>12 DEF FindingsSound
<1>. QED
  BY <1>6, <1>11, <1>14, <1>15, <1>16 DEF FindingsSound


\* Whatever the model answers, what is kept of it is of the claims and the spans.
LEMMA EvaluatedCited ==
  ASSUME NEW answer, NEW claims, NEW spans, NEW objections,
         objections = KnownObjections(answer, claims, spans),
         NEW check, check.read = spans, check.status = CheckStatus(claims, objections, spans),
         check.claims = [claim \in claims |->
                           [status |-> EvaluatedAs(claim, objections, spans),
                            against |-> UNION {o.cites : o \in {p \in objections : p.claim = claim}}]]
  PROVE  CheckCited(check)
<1>1. \A o \in objections : o.claim \in claims /\ o.cites # {} /\ o.cites \subseteq spans
  BY DEF KnownObjections
<1>2. \A claim \in claims :
        /\ check.claims[claim].status = EvaluatedAs(claim, objections, spans)
        /\ check.claims[claim].against = UNION {o.cites : o \in {p \in objections : p.claim = claim}}
  OBVIOUS
<1>3. DOMAIN check.claims = claims
  OBVIOUS
<1>4. \A claim \in claims : check.claims[claim].status = "contradicted" <=> \E o \in objections : o.claim = claim
  BY <1>2 DEF EvaluatedAs
<1>5. \A claim \in claims : check.claims[claim].status = "contradicted" =>
        check.claims[claim].against # {} /\ check.claims[claim].against \subseteq check.read
  <2>1. SUFFICES ASSUME NEW claim \in claims, check.claims[claim].status = "contradicted"
                 PROVE  check.claims[claim].against # {} /\ check.claims[claim].against \subseteq spans
    OBVIOUS
  <2>2. PICK mine : mine = {p \in objections : p.claim = claim}
    OBVIOUS
  <2>3. PICK o \in mine : o.cites # {}
    BY <1>1, <1>4, <2>1, <2>2
  <2>4. check.claims[claim].against = UNION {p.cites : p \in mine}
    BY <1>2, <2>2
  <2>5. \A p \in mine : p.cites \subseteq spans
    BY <1>1, <2>2
  <2>6. PICK against : against = UNION {p.cites : p \in mine}
    OBVIOUS
  <2>7. against # {} /\ against \subseteq spans
    BY <2>3, <2>5, <2>6
  <2>. QED
    BY <2>4, <2>6, <2>7
<1>6. (check.status = "contradicted") <=> \E claim \in claims : check.claims[claim].status = "contradicted"
  <2>1. check.status = "contradicted" <=> objections # {}
    BY DEF CheckStatus
  <2>2. objections # {} <=> \E o \in objections : o.claim \in claims
    BY <1>1
  <2>3. (\E claim \in claims : check.claims[claim].status = "contradicted") <=> \E o \in objections : o.claim \in claims
    BY <1>4
  <2>. QED
    BY <2>1, <2>2, <2>3
<1>7. check.status = "supported" => \A claim \in claims : check.claims[claim].status = "supported"
  <2>1. SUFFICES ASSUME check.status = "supported", NEW claim \in claims
                 PROVE  EvaluatedAs(claim, objections, spans) = "supported"
    BY <1>2
  <2>2. objections = {} /\ claim \intersect spans # {}
    BY <2>1 DEF CheckStatus
  <2>. QED
    BY <2>2 DEF EvaluatedAs
<1>. QED
  BY <1>3, <1>5, <1>6, <1>7 DEF CheckCited

\* A check goes to a reviewer unless all it says is supported.
LEMMA CheckPersisted ==
  ASSUME MatchesSound, FindingsSound, NEW w \in Curators, NEW answer, PersistCheck(w, answer)
  PROVE  FindingsSound'
<1>1. PICK job : job = curators[w] /\ job # None /\ job.at = "adjudicate"
  BY DEF PersistCheck, CuratorAt
<1>2. job.trace \in FailureTraces /\ job.spans \subseteq {1, 2}
  BY <1>1 DEF FindingsSound, FinderSound
<1>3. PICK objections : objections = KnownObjections(answer, job.claims, job.spans)
  OBVIOUS
<1>4. PICK status, evidence : /\ status = CheckStatus(job.claims, objections, job.spans)
                              /\ evidence = UNION {claim \intersect job.spans : claim \in job.claims}
  OBVIOUS
<1>5. PICK check :
        check = [trace |-> job.trace, status |-> status, read |-> job.spans, evidence |-> evidence,
                 claims |-> [claim \in job.claims |->
                               [status |-> EvaluatedAs(claim, objections, job.spans),
                                against |-> UNION {o.cites : o \in {p \in objections : p.claim = claim}}]]]
  OBVIOUS
<1>6. PICK n, task : /\ n = Len(checks) + 1
                     /\ task = ReviewOf("check", n, {job.trace} \union SpanIds(job.trace, evidence))
  OBVIOUS
<1>7. PICK q : q = IF ~NeedsReview(status) THEN None ELSE [at |-> "tasks", tasks |-> {task}]
  OBVIOUS
<1>8. /\ checks' = Append(checks, check) /\ Proceeds(w, q)
      /\ UNCHANGED <<noveltyRuns, curatorTasks, curatorStops>>
  BY <1>1, <1>3, <1>4, <1>5, <1>6, <1>7, Zenon DEF PersistCheck, counters
<1>9. CheckCited(check) /\ check.status = status
  <2>1. PICK claims, spans : claims = job.claims /\ spans = job.spans
    OBVIOUS
  <2>2. objections = KnownObjections(answer, claims, spans)
    BY <1>3, <2>1
  <2>3. /\ check.read = spans /\ check.status = status /\ status = CheckStatus(claims, objections, spans)
        /\ check.claims = [claim \in claims |->
                             [status |-> EvaluatedAs(claim, objections, spans),
                              against |-> UNION {o.cites : o \in {p \in objections : p.claim = claim}}]]
    BY <1>4, <1>5, <2>1
  <2>. QED
    BY <2>2, <2>3, EvaluatedCited
<1>10. PICK R : checks \in Seq(R)
  BY DEF FindingsSound
<1>11. task \in ReviewRow /\ task.about = <<"check", n>>
  <2>1. evidence \subseteq {1, 2}
    BY <1>2, <1>4
  <2>2. PICK cited : cited = {job.trace} \union SpanIds(job.trace, evidence)
    OBVIOUS
  <2>3. cited \subseteq FailureTraces \union (FailureTraces \X {1, 2})
    BY <1>2, <2>1, <2>2 DEF SpanIds
  <2>4. n \in Nat
    BY <1>6, <1>10
  <2>. QED
    BY <1>6, <2>2, <2>3, <2>4 DEF ReviewOf, ReviewRow
<1>12. q = None \/ q \in Reviewing
  BY <1>7, <1>11 DEF Reviewing
<1>13. q = None \/ FinderSound(q)
  BY <1>12 DEF FinderSound, Reviewing
<1>14. PICK Q : Q = R \union {check}
  OBVIOUS
<1>15. /\ checks' \in Seq(Q)
       /\ DOMAIN checks' = DOMAIN checks \union {n}
       /\ \A k \in DOMAIN checks : checks'[k] = checks[k]
       /\ checks'[n] = check
  <2>1. PICK rows, more : rows = checks /\ more = checks' /\ rows \in Seq(Q)
    BY <1>10, <1>14
  <2>2. more = Append(rows, check) /\ check \in Q /\ n = Len(rows) + 1
    BY <1>6, <1>8, <1>14, <2>1
  <2>3. /\ more \in Seq(Q) /\ Len(more) = n /\ DOMAIN more = 1 .. n /\ DOMAIN rows = 1 .. Len(rows)
        /\ more[n] = check /\ \A k \in 1 .. Len(rows) : more[k] = rows[k]
    BY <2>1, <2>2
  <2>. QED
    BY <2>1, <2>2, <2>3
<1>16. /\ \A v \in Curators : curators'[v] = IF v = w THEN q ELSE curators[v]
       /\ Given \subseteq Given'
       /\ q # None /\ q.at = "tasks" => \A t \in q.tasks : t.about \in Given'
  <2>1. ~CuratorAt(w, "tasks")
    BY <1>1 DEF CuratorAt
  <2>. QED
    BY <1>8, <2>1, GivenGrows
<1>17. check.status # "supported" => <<"check", n>> \in Given'
  <2>1. SUFFICES ASSUME status # "supported"
                 PROVE  <<"check", n>> \in Given'
    BY <1>9
  <2>2. NeedsReview(status)
    BY <1>4, <2>1 DEF NeedsReview, CheckStatus
  <2>3. q = [at |-> "tasks", tasks |-> {task}]
    BY <1>7, <2>2
  <2>4. q # None
    BY <1>11, <2>3, RowAssumption DEF Reviewing
  <2>. QED
    BY <1>11, <1>16, <2>3, <2>4
<1>18. AllGiven => AllGiven'
  <2>1. SUFFICES ASSUME AllGiven
                 PROVE  /\ \A k \in DOMAIN checks' :
                             checks'[k] # None /\ checks'[k].status # "supported" => <<"check", k>> \in Given'
                        /\ \A k \in DOMAIN noveltyRuns : \A c \in noveltyRuns[k].candidates :
                             <<"novelty", <<k, c.sources>>>> \in Given'
    BY <1>8 DEF AllGiven, ToReview
  <2>. QED
    BY <1>15, <1>16, <1>17, <2>1 DEF AllGiven, ToReview
<1>19. \A k \in DOMAIN checks' : checks'[k] = None \/ CheckCited(checks'[k])
  BY <1>9, <1>15 DEF FindingsSound
<1>20. \A v \in Curators : curators'[v] # None => FinderSound(curators'[v])
  BY <1>13, <1>16 DEF FindingsSound
<1>. QED
  BY <1>8, <1>15, <1>18, <1>19, <1>20 DEF FindingsSound

\* A task that is added was given, and the others of its request are.
LEMMA TaskGiven ==
  ASSUME MatchesSound, FindingsSound, NEW w \in Curators, AddReviewTask(w)
  PROVE  FindingsSound'
<1>1. PICK job : job = curators[w] /\ job # None /\ job.at = "tasks" /\ job \in Reviewing
  BY DEF AddReviewTask, CuratorAt, FindingsSound, FinderSound
<1>2. PICK task \in job.tasks :
        /\ curatorTasks' = curatorTasks \union {task}
        /\ Proceeds(w, IF job.tasks = {task} THEN None ELSE [job EXCEPT !.tasks = job.tasks \ {task}])
  BY <1>1 DEF AddReviewTask
<1>3. PICK q : q = IF job.tasks = {task} THEN None ELSE [job EXCEPT !.tasks = job.tasks \ {task}]
  OBVIOUS
<1>4. PICK S : curators \in [Curators -> S]
  BY DEF MatchesSound, DiscoveryRows
<1>5. \A v \in Curators : curators'[v] = IF v = w THEN q ELSE curators[v]
  BY <1>2, <1>3, <1>4 DEF Proceeds
<1>6. task \in ReviewRow /\ curatorTasks' \subseteq ReviewRow
  BY <1>1, <1>2 DEF Reviewing, FindingsSound
<1>7. q # None => q \in Reviewing /\ q.at = "tasks" /\ q.tasks = job.tasks \ {task}
  BY <1>1, <1>3 DEF Reviewing
<1>8. job.tasks # {task} => q # None
  <2>1. SUFFICES ASSUME job.tasks # {task}
                 PROVE  q \in Reviewing
    BY RowAssumption
  <2>. QED
    BY <1>1, <1>3, <2>1 DEF Reviewing
<1>9. \A v \in Curators : TasksOf(v) \subseteq TasksOf(v)' \union {task}
  <2>1. TasksOf(w) \subseteq TasksOf(w)' \union {task}
    <3>1. TasksOf(w) = job.tasks
      BY <1>1 DEF TasksOf, CuratorAt
    <3>2. CASE job.tasks = {task}
      BY <3>1, <3>2
    <3>3. CASE job.tasks # {task}
      <4>1. TasksOf(w)' = job.tasks \ {task}
        BY <1>5, <1>7, <1>8, <3>3 DEF TasksOf, CuratorAt
      <4>. QED
        BY <3>1, <4>1
    <3>. QED
      BY <3>2, <3>3
  <2>2. \A v \in Curators : v # w => TasksOf(v)' = TasksOf(v)
    BY <1>5 DEF TasksOf, CuratorAt
  <2>. QED
    BY <2>1, <2>2
<1>10. Given \subseteq Given'
  <2>1. PICK A, B : A = UNION {TasksOf(v) : v \in Curators} /\ B = (UNION {TasksOf(v) : v \in Curators})'
    OBVIOUS
  <2>2. A \subseteq B \union {task}
    BY <1>9, <2>1
  <2>3. Given = {t.about : t \in curatorTasks \union A}
    BY <2>1 DEF Given
  <2>4. Given' = {t.about : t \in curatorTasks' \union B}
    BY <2>1 DEF Given
  <2>5. curatorTasks \union A \subseteq curatorTasks' \union B
    BY <1>2, <2>2
  <2>. QED
    BY <2>3, <2>4, <2>5
<1>11. UNCHANGED <<noveltyRuns, checks, curatorStops>>
  BY DEF AddReviewTask, studies, counters
<1>12. AllGiven => AllGiven'
  BY <1>10, <1>11 DEF AllGiven, ToReview
<1>13. \A v \in Curators : curators'[v] # None => FinderSound(curators'[v])
  BY <1>5, <1>7 DEF FinderSound, FindingsSound
<1>. QED
  BY <1>6, <1>11, <1>12, <1>13 DEF FindingsSound

\* A request that stops may take a finding with it, and is counted.
LEMMA StopCounted ==
  ASSUME MatchesSound, FindingsSound, NEW w \in Curators, CuratorStops(w)
  PROVE  FindingsSound'
<1>1. PICK S : curators \in [Curators -> S]
  BY DEF MatchesSound, DiscoveryRows
<1>2. \A v \in Curators : curators'[v] = IF v = w THEN None ELSE curators[v]
  BY <1>1 DEF CuratorStops, Proceeds
<1>3. /\ UNCHANGED <<noveltyRuns, checks, curatorTasks>>
      /\ curatorStops' \in Nat /\ curatorStops' # 0
  BY DEF CuratorStops, studies, FindingsSound
<1>. QED
  BY <1>2, <1>3 DEF FindingsSound


\* Whatever a request reads is shared out by its candidates, and stays so when they are
\* grouped.
LEMMA NoveltyRead ==
  ASSUME MatchesSound, FindingsSound, NEW w \in Curators, NEW found, NEW base,
         ReadForNovelty(w, found, base)
  PROVE  FindingsSound'
<1>1. PICK known : known = {behaviors[b].name : b \in {c \in BehaviorIds : behaviors[c] # None /\ behaviors[c].status = "active"}}
  OBVIOUS
<1>2. PICK eligible, candidates : /\ eligible = {t \in found : Unknown(t, known)}
                                  /\ candidates = Candidates(found, base, known)
  OBVIOUS
<1>3. PICK q : q = [at |-> "group", eligible |-> eligible, candidates |-> candidates]
  OBVIOUS
<1>4. /\ Proceeds(w, q) /\ found \in SUBSET There /\ base \in SUBSET There
      /\ UNCHANGED <<noveltyRuns, checks, curatorTasks, curatorStops>>
  BY <1>1, <1>2, <1>3, Zenon DEF ReadForNovelty, studies, counters
<1>5. SharedOut(eligible, candidates) /\ IsFiniteSet(candidates)
  BY <1>2, <1>4, CandidatesShared DEF MatchesSound, DiscoveryRows
<1>6. FinderSound(q)
  BY <1>3, <1>5 DEF FinderSound
<1>7. ~CuratorAt(w, "tasks")
  BY DEF ReadForNovelty, FreeCurator, CuratorAt
<1>. QED
  BY <1>4, <1>6, <1>7, FindingsStay

LEMMA NoveltyGrouped ==
  ASSUME MatchesSound, FindingsSound, NEW w \in Curators,
         \/ \E leader : GroupSimilar(w, leader)
         \/ \E answer \in Groupings : GroupByModel(w, answer)
  PROVE  FindingsSound'
<1>1. PICK job : /\ job = curators[w] /\ job # None /\ job.at \in {"group", "ask"}
  BY DEF GroupSimilar, GroupByModel, CuratorAt
<1>2. /\ DOMAIN job = {"at", "eligible", "candidates"} /\ SharedOut(job.eligible, job.candidates)
      /\ job.at = "group" => IsFiniteSet(job.candidates)
  BY <1>1 DEF FindingsSound, FinderSound
<1>3. PICK eligible, candidates : eligible = job.eligible /\ candidates = job.candidates
  OBVIOUS
<1>4. UNCHANGED <<noveltyRuns, checks, curatorTasks, curatorStops>>
  BY DEF GroupSimilar, GroupByModel, studies, counters
<1>5. PICK step \in {"ask", "persist"} : \E groups :
        SharedOut(eligible, groups) /\ Proceeds(w, [job EXCEPT !.at = step, !.candidates = groups])
  <2>1. ASSUME NEW leader, GroupSimilar(w, leader)
        PROVE  \E groups : SharedOut(eligible, groups)
                           /\ Proceeds(w, [job EXCEPT !.at = "ask", !.candidates = groups])
    <3>1. PICK groups : groups = SimilarGroups(candidates, leader)
      OBVIOUS
    <3>2. job.at = "group" /\ DOMAIN leader = candidates
      BY <1>1, <1>3, <2>1 DEF GroupSimilar, CuratorAt
    <3>3. SharedOut(eligible, groups)
      BY <1>2, <1>3, <3>1, <3>2, SimilarShared
    <3>4. Proceeds(w, [job EXCEPT !.at = "ask", !.candidates = groups])
      BY <1>1, <1>3, <2>1, <3>1, Zenon DEF GroupSimilar
    <3>. QED
      BY <3>3, <3>4
  <2>2. ASSUME NEW answer \in Groupings, GroupByModel(w, answer)
        PROVE  \E groups : SharedOut(eligible, groups)
                           /\ Proceeds(w, [job EXCEPT !.at = "persist", !.candidates = groups])
    <3>1. PICK groups : groups = ModelGroups(candidates, answer)
      OBVIOUS
    <3>2. IsList(answer) /\ \A k \in DOMAIN answer : IsList(answer[k])
      BY DiscoveryAssumption
    <3>3. SharedOut(eligible, groups)
      BY <1>2, <1>3, <3>1, <3>2, ModelShared
    <3>4. Proceeds(w, [job EXCEPT !.at = "persist", !.candidates = groups])
      BY <1>1, <1>3, <2>2, <3>1, Zenon DEF GroupByModel
    <3>. QED
      BY <3>3, <3>4
  <2>. QED
    BY <2>1, <2>2
<1>6. PICK groups : SharedOut(eligible, groups)
                    /\ Proceeds(w, [job EXCEPT !.at = step, !.candidates = groups])
  BY <1>5
<1>7. PICK q : q = [job EXCEPT !.at = step, !.candidates = groups]
  OBVIOUS
<1>8. DOMAIN q = {"at", "eligible", "candidates"} /\ q.at = step /\ q.eligible = eligible /\ q.candidates = groups
  BY <1>2, <1>3, <1>7
<1>9. FinderSound(q)
  BY <1>6, <1>8 DEF FinderSound
<1>10. ~CuratorAt(w, "tasks")
  BY <1>1 DEF CuratorAt
<1>. QED
  BY <1>4, <1>6, <1>7, <1>9, <1>10, FindingsStay

\* The other requests find nothing; one that has matches to review has typed tasks to add.
LEMMA OtherRequests ==
  ASSUME MatchesSound, FindingsSound, NEW w \in Curators,
         \/ \E t \in FailureTraces : \/ \E b \in BehaviorIds : ReadForLabel(w, t, b)
                                    \/ \E claims : ReadForGrounding(w, t, claims)
         \/ \E b \in BehaviorIds : \E found : ReadForBacktest(w, b, found)
         \/ WriteLabel(w)
         \/ \E evidence : ConfirmMatch(w, evidence)
         \/ \E sample : ReplaceMatches(w, sample)
  PROVE  FindingsSound'
<1>1. ~CuratorAt(w, "tasks")
  BY DEF ReadForLabel, ReadForGrounding, ReadForBacktest, WriteLabel, ConfirmMatch, ReplaceMatches,
         FreeCurator, CuratorAt
<1>2. UNCHANGED <<noveltyRuns, checks, curatorTasks, curatorStops>>
  BY DEF ReadForLabel, ReadForGrounding, ReadForBacktest, WriteLabel, ConfirmMatch, ReplaceMatches,
         studies, counters
<1>3. \E q : (q = None \/ FinderSound(q)) /\ Proceeds(w, q)
  <2>1. ASSUME NEW t \in FailureTraces, NEW b \in BehaviorIds, ReadForLabel(w, t, b)
        PROVE  \E q : FinderSound(q) /\ Proceeds(w, q)
    BY <2>1 DEF ReadForLabel, FinderSound
  <2>2. ASSUME NEW t \in FailureTraces, NEW claims, ReadForGrounding(w, t, claims)
        PROVE  \E q : FinderSound(q) /\ Proceeds(w, q)
    <3>1. t \in There /\ failures[t].spans \subseteq {1, 2}
      BY <2>2 DEF ReadForGrounding, There, MatchesSound, DiscoveryRows, FailureRow
    <3>2. PICK q : /\ q = [at |-> "adjudicate", trace |-> t, claims |-> claims, spans |-> failures[t].spans]
                   /\ Proceeds(w, q)
      BY <2>2 DEF ReadForGrounding
    <3>3. FinderSound(q)
      BY <3>1, <3>2 DEF FinderSound
    <3>. QED
      BY <3>2, <3>3
  <2>3. ASSUME NEW b \in BehaviorIds, NEW found, ReadForBacktest(w, b, found)
        PROVE  \E q : FinderSound(q) /\ Proceeds(w, q)
    <3>1. PICK q : q.at = "replace" /\ Proceeds(w, q)
      BY <2>3 DEF ReadForBacktest
    <3>. QED
      BY <3>1 DEF FinderSound
  <2>4. CASE WriteLabel(w)
    <3>1. PICK job : job = curators[w] /\ "at" \in DOMAIN job
      BY <2>4 DEF WriteLabel, CuratorAt, MatchesSound, DiscoveryRows, WriterSound
    <3>2. PICK q : q = [job EXCEPT !.at = "confirm"] /\ Proceeds(w, q)
      BY <2>4, <3>1 DEF WriteLabel
    <3>3. q.at = "confirm"
      BY <3>1, <3>2
    <3>. QED
      BY <3>2, <3>3 DEF FinderSound
  <2>5. ASSUME NEW evidence, ConfirmMatch(w, evidence)
        PROVE  \E q : q = None /\ Proceeds(w, q)
    BY <2>5 DEF ConfirmMatch
  <2>6. ASSUME NEW sample, ReplaceMatches(w, sample)
        PROVE  \E q : (q = None \/ FinderSound(q)) /\ Proceeds(w, q)
    <3>1. PICK job : job = curators[w] /\ job # None /\ job.at = "replace"
      BY <2>6 DEF ReplaceMatches, CuratorAt
    <3>2. WriterSound(job)
      BY <3>1 DEF MatchesSound, DiscoveryRows
    <3>3. PICK evidence : evidence = sample \union UNION {job.positive[t] : t \in sample}
      OBVIOUS
    <3>4. PICK task : task = ReviewOf("behavior", job.behavior, evidence)
      OBVIOUS
    <3>5. /\ job.behavior \in BehaviorIds /\ DOMAIN job.positive \subseteq FailureTraces
          /\ \A t \in DOMAIN job.positive : job.positive[t] \subseteq FailureTraces \X {1, 2}
      BY <3>1, <3>2 DEF WriterSound, There
    <3>6. sample \subseteq DOMAIN job.positive
      BY <2>6, <3>1 DEF ReplaceMatches
    <3>7. evidence \subseteq FailureTraces \union (FailureTraces \X {1, 2})
      BY <3>3, <3>5, <3>6
    <3>8. task \in ReviewRow
      BY <3>4, <3>5, <3>7 DEF ReviewOf, ReviewRow
    <3>9. PICK q : /\ q = IF DOMAIN job.positive = {} THEN None ELSE [at |-> "tasks", tasks |-> {task}]
                   /\ Proceeds(w, q)
      BY <2>6, <3>1, <3>3, <3>4, Zenon DEF ReplaceMatches
    <3>10. q = None \/ FinderSound(q)
      BY <3>8, <3>9 DEF FinderSound, Reviewing
    <3>. QED
      BY <3>9, <3>10
  <2>. QED
    BY <2>1, <2>2, <2>3, <2>4, <2>5, <2>6
<1>. QED
  BY <1>1, <1>2, <1>3, FindingsStay

LEMMA FindingsStep == MatchesSound /\ FindingsSound /\ [DiscoveryNext]_discoveryVars => FindingsSound'
<1>. SUFFICES ASSUME MatchesSound, FindingsSound, [DiscoveryNext]_discoveryVars
              PROVE  FindingsSound'
  OBVIOUS
<1>1. CASE UNCHANGED discoveryVars
  BY <1>1, FindingsApart DEF discoveryVars
<1>2. ASSUME NEW t \in FailureTraces, NEW status, NEW signature, NEW hits, NEW verdicts,
             StoreFailure(t, status, signature, hits, verdicts)
      PROVE  FindingsSound'
  BY <1>2, FindingsApart DEF StoreFailure, studies, counters
<1>3. ASSUME NEW t \in FailureTraces, DeleteFailure(t)
      PROVE  FindingsSound'
  BY <1>3, DeletionFindings
<1>4. ASSUME NEW b \in BehaviorIds, NEW name, NEW detector, NEW status,
             \/ NewBehavior(b, name, detector, status) \/ ProposeBehavior(b) \/ PromoteBehavior(b)
      PROVE  FindingsSound'
  BY <1>4, FindingsApart DEF NewBehavior, ProposeBehavior, PromoteBehavior, studies, counters
<1>5. ASSUME NEW w \in Curators, NEW found, NEW base, ReadForNovelty(w, found, base)
      PROVE  FindingsSound'
  BY <1>5, NoveltyRead
<1>6. ASSUME NEW w \in Curators, PersistNovelty(w)
      PROVE  FindingsSound'
  BY <1>6, NoveltyPersisted
<1>7. ASSUME NEW w \in Curators, NEW answer, PersistCheck(w, answer)
      PROVE  FindingsSound'
  BY <1>7, CheckPersisted
<1>8. ASSUME NEW w \in Curators, AddReviewTask(w)
      PROVE  FindingsSound'
  BY <1>8, TaskGiven
<1>9. ASSUME NEW w \in Curators, CuratorStops(w)
      PROVE  FindingsSound'
  BY <1>9, StopCounted
<1>. QED
  BY <1>1, <1>2, <1>3, <1>4, <1>5, <1>6, <1>7, <1>8, <1>9, NoveltyGrouped, OtherRequests
     DEF DiscoveryNext

LEMMA FindingsAlways == DiscoverySpec => []FindingsSound
<1>1. DiscoveryInit => FindingsSound
  <2>. SUFFICES ASSUME DiscoveryInit PROVE FindingsSound
    OBVIOUS
  <2>1. noveltyRuns \in Seq({}) /\ checks \in Seq({}) /\ DOMAIN noveltyRuns = {} /\ DOMAIN checks = {}
    BY DEF DiscoveryInit
  <2>2. AllGiven
    BY <2>1 DEF AllGiven
  <2>. QED
    BY <2>1, <2>2 DEF DiscoveryInit, FindingsSound
<1>. QED
  BY <1>1, MatchesAlways, FindingsStep, PTL DEF DiscoverySpec


\* FindingsAccounted holds of every run of the module, for any number of requests.
THEOREM Findings == DiscoverySpec => []FindingsAccounted
<1>1. FindingsSound => FindingsAccounted
  <2>. SUFFICES ASSUME FindingsSound PROVE FindingsAccounted
    OBVIOUS
  <2>1. CandidatesPartition
    BY DEF FindingsSound, CandidatesPartition, SharedOut, CandidateSound, Apart
  <2>2. GroundingIsCited
    BY DEF FindingsSound, GroundingIsCited, CheckCited
  <2>3. FindingsReviewed
    <3>1. PICK A : A = UNION {curators[w].tasks : w \in {v \in Curators : CuratorAt(v, "tasks")}}
      OBVIOUS
    <3>2. A = UNION {TasksOf(w) : w \in Curators}
      BY <3>1 DEF TasksOf
    <3>3. Given = {task.about : task \in curatorTasks \union A}
      BY <3>2 DEF Given
    <3>4. curatorStops = 0 => AllGiven
      BY DEF FindingsSound
    <3>. QED
      BY <3>1, <3>3, <3>4 DEF FindingsReviewed, AllGiven, ToReview
  <2>. QED
    BY <2>1, <2>2, <2>3 DEF FindingsAccounted
<1>. QED
  BY <1>1, FindingsAlways, PTL

-----------------------------------------------------------------------------
(* The spans that failures and matches have are their own. *)

OwnEvidence(m) == m.evidence \subseteq SpanIds(m.trace, {1, 2})

\* What a backtest is about to write of a trace are spans of that trace.
BacktestSound(job) ==
  job.at = "replace" => \A t \in DOMAIN job.positive : job.positive[t] \subseteq SpanIds(t, {1, 2})

HitsStored == \A t \in There : failures[t].hits \subseteq failures[t].spans

SpansSound ==
  /\ HitsStored
  /\ \A k \in DOMAIN matches : OwnEvidence(matches[k])
  /\ \A w \in Curators : curators[w] # None => BacktestSound(curators[w])

\* A trace that is stored has all of its spans, one that is deleted none, and a label
\* takes those that are there.
LEMMA HitsStep == MatchesSound /\ HitsStored /\ [DiscoveryNext]_discoveryVars => HitsStored'
<1>. SUFFICES ASSUME MatchesSound, HitsStored, [DiscoveryNext]_discoveryVars PROVE HitsStored'
  OBVIOUS
<1>1. failures \in [FailureTraces -> FailureRow \union {None}]
  BY DEF MatchesSound, DiscoveryRows
<1>2. CASE UNCHANGED failures
  BY <1>2 DEF HitsStored, There
<1>3. ASSUME NEW t \in FailureTraces, NEW row, row.hits \subseteq row.spans,
             failures' = [failures EXCEPT ![t] = row]
      PROVE  HitsStored'
  <2>1. \A u \in FailureTraces : failures'[u] = IF u = t THEN row ELSE failures[u]
    BY <1>1, <1>3
  <2>. QED
    BY <1>3, <2>1 DEF HitsStored, There
<1>4. ASSUME NEW t \in FailureTraces, NEW status, NEW signature, NEW hits \in SUBSET {1, 2},
             NEW verdicts, StoreFailure(t, status, signature, hits, verdicts)
      PROVE  HitsStored'
  <2>1. PICK row : row = Failure(status, signature, hits, verdicts)
    OBVIOUS
  <2>2. row.hits \subseteq row.spans
    BY <2>1 DEF Failure
  <2>. QED
    BY <1>3, <1>4, <2>1, <2>2 DEF StoreFailure
<1>5. ASSUME NEW t \in FailureTraces, DeleteFailure(t)
      PROVE  HitsStored'
  <2>1. Deleted.hits \subseteq Deleted.spans
    BY DEF Deleted, Failure
  <2>. QED
    BY <1>3, <1>5, <2>1 DEF DeleteFailure
<1>6. ASSUME NEW w \in Curators, WriteLabel(w)
      PROVE  HitsStored'
  <2>1. PICK job \in [at : {"label"}, trace : There, behavior : BehaviorIds, read : FailureRow] :
          job = curators[w]
    BY <1>6 DEF MatchesSound, DiscoveryRows, WriteLabel, CuratorAt, WriterSound
  <2>2. PICK t \in There : t = job.trace
    BY <2>1
  <2>3. PICK there \in FailureRow : there = failures[t] /\ there.hits \subseteq there.spans
    BY <1>1, <2>2 DEF There, HitsStored
  <2>4. PICK row : row = Written(Labelled(job.read, job.behavior), there)
    OBVIOUS
  <2>5. row.hits \subseteq row.spans
    <3>1. PICK labelled \in FailureRow : labelled = Labelled(job.read, job.behavior)
      BY <2>1 DEF Labelled, FailureRow
    <3>2. row = [labelled EXCEPT !.spans = there.spans, !.hits = there.hits, !.verdicts = there.verdicts]
      BY <2>4, <3>1 DEF Written
    <3>. QED
      BY <2>3, <3>2 DEF FailureRow
  <2>6. failures' = [failures EXCEPT ![t] = row]
    BY <1>6, <2>1, <2>2, <2>3, <2>4 DEF WriteLabel
  <2>7. t \in FailureTraces
    BY DEF There
  <2>. QED
    BY <1>3, <2>5, <2>6, <2>7
<1>7. ASSUME NEW w \in Curators,
             \/ \E t, b : ReadForLabel(w, t, b)
             \/ \E t, claims : ReadForGrounding(w, t, claims)
             \/ \E span : ConfirmMatch(w, span)
             \/ \E found, b : ReadForBacktest(w, b, found)
             \/ \E found : ReplaceMatches(w, found)
             \/ \E found, base : ReadForNovelty(w, found, base)
             \/ \E leader : GroupSimilar(w, leader)
             \/ \E answer : GroupByModel(w, answer)
             \/ PersistNovelty(w)
             \/ \E answer : PersistCheck(w, answer)
             \/ AddReviewTask(w) \/ CuratorStops(w)
      PROVE  UNCHANGED failures
  BY <1>7 DEF ReadForLabel, ReadForGrounding, ConfirmMatch, ReadForBacktest, ReplaceMatches, ReadForNovelty,
              GroupSimilar, GroupByModel, PersistNovelty, PersistCheck, AddReviewTask, CuratorStops
<1>8. ASSUME NEW b \in BehaviorIds, NEW name, NEW detector, NEW status,
             NewBehavior(b, name, detector, status) \/ ProposeBehavior(b) \/ PromoteBehavior(b)
      PROVE  UNCHANGED failures
  BY <1>8 DEF NewBehavior, ProposeBehavior, PromoteBehavior
<1>9. CASE UNCHANGED discoveryVars
  BY <1>2, <1>9 DEF discoveryVars
<1>. QED
  BY <1>2, <1>4, <1>5, <1>6, <1>7, <1>8, <1>9 DEF DiscoveryNext

(* Rows of a table that are kept have the spans they had. *)
LEMMA KeptOwn ==
  ASSUME MatchesSound, SpansSound, NEW at \in SUBSET DOMAIN matches
  PROVE  /\ RowsAt(matches, at) \in Seq(MatchRow)
         /\ \A i \in DOMAIN RowsAt(matches, at) : OwnEvidence(RowsAt(matches, at)[i])
<1>1. matches \in Seq(MatchRow)
  BY DEF MatchesSound, DiscoveryRows
<1>2. /\ RowsAt(matches, at) \in Seq(MatchRow)
      /\ \A i \in DOMAIN RowsAt(matches, at) : \E k \in at : RowsAt(matches, at)[i] = matches[k]
  BY <1>1, KeptAmong
<1>. QED
  BY <1>2 DEF SpansSound, OwnEvidence

(* A label confirms a span of its trace. *)
LEMMA ConfirmOwn ==
  ASSUME MatchesSound, SpansSound, NEW w \in Curators,
         NEW span \in SUBSET SpanIds(curators[w].trace, {1}), ConfirmMatch(w, span)
  PROVE  \A k \in DOMAIN matches' : OwnEvidence(matches'[k])
<1>. DEFINE at == {k \in DOMAIN matches : OtherThanConfirmed(matches[k], curators[w].trace, curators[w].behavior)}
<1>1. PICK row : row = MatchOf(curators[w].behavior, curators[w].trace, "confirmed", 0, span)
  OBVIOUS
<1>2. OwnEvidence(row)
  BY <1>1 DEF OwnEvidence, MatchOf, SpanIds
<1>3. PICK kept : kept = RowsAt(matches, at)
  OBVIOUS
<1>4. kept \in Seq(MatchRow) /\ \A i \in DOMAIN kept : OwnEvidence(kept[i])
  <2>1. at \in SUBSET DOMAIN matches
    OBVIOUS
  <2>. HIDE DEF at
  <2>. QED
    BY <1>3, <2>1, KeptOwn
<1>5. PICK rows : rows = Append(kept, row)
  OBVIOUS
<1>6. matches' = rows
  BY <1>1, <1>3, <1>5 DEF ConfirmMatch
<1>7. \A k \in DOMAIN rows : (k \in DOMAIN kept /\ rows[k] = kept[k]) \/ rows[k] = row
  BY <1>4, <1>5
<1>. QED
  BY <1>2, <1>4, <1>6, <1>7

(* A backtest writes spans of the traces it found. *)
LEMMA ReplaceOwn ==
  ASSUME MatchesSound, SpansSound, NEW w \in Curators, NEW sample \in SUBSET FailureTraces,
         ReplaceMatches(w, sample)
  PROVE  \A k \in DOMAIN matches' : OwnEvidence(matches'[k])
<1>1. PICK job, about, run, positive :
        /\ job = curators[w]
        /\ about = job.behavior /\ run = job.run /\ positive = job.positive
  OBVIOUS
<1>2. /\ job # None /\ job.at = "replace" /\ sample \subseteq DOMAIN positive
      /\ \A t \in DOMAIN positive : positive[t] \subseteq SpanIds(t, {1, 2})
  BY <1>1 DEF ReplaceMatches, CuratorAt, SpansSound, BacktestSound
<1>. DEFINE at == {k \in DOMAIN matches : NotOfBacktests(matches[k], about, sample)}
            T == {MatchOf(about, t, "backtest_positive", run, positive[t]) : t \in sample}
<1>3. \A m \in T : OwnEvidence(m)
  BY <1>2 DEF MatchOf, OwnEvidence
<1>4. IsFiniteSet(T)
  <2>1. IsFiniteSet(sample)
    BY DiscoveryAssumption, FS_Subset
  <2>2. [t \in sample |-> MatchOf(about, t, "backtest_positive", run, positive[t])]
          \in Surjection(sample, T)
    BY DEF Surjection
  <2>. HIDE DEF T
  <2>. QED
    BY <2>1, <2>2, FS_Surjection
<1>5. PICK kept : kept = RowsAt(matches, at)
  OBVIOUS
<1>6. kept \in Seq(MatchRow) /\ \A i \in DOMAIN kept : OwnEvidence(kept[i])
  <2>1. at \in SUBSET DOMAIN matches
    OBVIOUS
  <2>. HIDE DEF at
  <2>. QED
    BY <1>5, <2>1, KeptOwn
<1>7. matches' = kept \o SetToSeq(T)
  BY <1>1, <1>5 DEF ReplaceMatches
<1>. HIDE DEF T, at
<1>8. PICK n \in Nat : \E added \in [1 .. n -> T] : added = SetToSeq(T)
  BY <1>4, RowsOfSet
<1>9. PICK added \in [1 .. n -> T] : added = SetToSeq(T)
  BY <1>8
<1>10. added \in Seq(T) /\ \A i \in DOMAIN added : OwnEvidence(added[i])
  BY <1>3, <1>9, SeqDef
<1>11. PICK rows : rows = kept \o added
  OBVIOUS
<1>12. /\ DOMAIN kept = 1 .. Len(kept) /\ Len(kept) \in Nat
       /\ DOMAIN added = 1 .. n
       /\ DOMAIN rows = 1 .. Len(kept) + n
       /\ \A k \in 1 .. Len(kept) : rows[k] = kept[k]
       /\ \A k \in Len(kept) + 1 .. Len(kept) + n : rows[k] = added[k - Len(kept)]
  <2>1. Len(added) = n /\ DOMAIN added = 1 .. n
    BY <1>9, <1>10
  <2>2. Len(kept) \in Nat /\ DOMAIN kept = 1 .. Len(kept)
    BY <1>6
  <2>3. PICK R : R = MatchRow \union T
    OBVIOUS
  <2>4. kept \in Seq(R) /\ added \in Seq(R)
    BY <1>6, <1>9, <2>3, SeqDef
  <2>5. Len(rows) = Len(kept) + n /\ DOMAIN rows = 1 .. Len(kept) + n
    BY <1>11, <2>1, <2>2, <2>4
  <2>6. \A k \in 1 .. Len(kept) + n :
          rows[k] = IF k <= Len(kept) THEN kept[k] ELSE added[k - Len(kept)]
    BY <1>11, <2>1, <2>2, <2>4, <2>5
  <2>. QED
    BY <2>1, <2>2, <2>5, <2>6
<1>13. ASSUME NEW k \in DOMAIN rows
       PROVE  OwnEvidence(rows[k])
  <2>1. CASE k <= Len(kept)
    BY <1>6, <1>12, <1>13, <2>1
  <2>2. CASE ~(k <= Len(kept))
    <3>1. k \in Len(kept) + 1 .. Len(kept) + n /\ k - Len(kept) \in DOMAIN added
      BY <1>12, <1>13, <2>2
    <3>. QED
      BY <1>10, <1>12, <3>1
  <2>. QED
    BY <2>1, <2>2
<1>. QED
  BY <1>7, <1>9, <1>11, <1>13

(* A request goes on with what is sound. *)
LEMMA SpansGoOn ==
  ASSUME MatchesSound, SpansSound, NEW w \in Curators, NEW job,
         job = None \/ BacktestSound(job), Proceeds(w, job)
  PROVE  \A v \in Curators : curators'[v] # None => BacktestSound(curators'[v])
<1>1. PICK S : curators \in [Curators -> S]
  BY DEF MatchesSound, DiscoveryRows
<1>2. \A v \in Curators : curators'[v] = IF v = w THEN job ELSE curators[v]
  BY <1>1 DEF Proceeds
<1>. QED
  BY <1>2 DEF SpansSound

(* What a backtest reads of a trace are its spans. *)
LEMMA BacktestReads ==
  ASSUME MatchesSound, SpansSound, NEW w \in Curators, NEW b \in BehaviorIds,
         NEW found \in SUBSET FailureTraces, ReadForBacktest(w, b, found)
  PROVE  \A v \in Curators : curators'[v] # None => BacktestSound(curators'[v])
<1>1. PICK detector : detector = behaviors[b].detector
  OBVIOUS
<1>2. PICK positive : positive = [t \in {u \in found : DetectorMatches(detector, failures[u])} |->
                                    EvidenceOf(detector, t)]
  OBVIOUS
<1>3. PICK job : job = [at |-> "replace", behavior |-> b, run |-> backtests', positive |-> positive]
  OBVIOUS
<1>4. found \subseteq There /\ Proceeds(w, job)
  BY <1>1, <1>2, <1>3 DEF ReadForBacktest
<1>5. \A t \in There : EvidenceOf(detector, t) \subseteq SpanIds(t, {1, 2})
  <2>1. \A t \in There : failures[t].hits \subseteq {1, 2}
    BY DEF There, MatchesSound, DiscoveryRows, FailureRow
  <2>. QED
    BY <2>1 DEF EvidenceOf, SpanIds
<1>6. BacktestSound(job)
  BY <1>2, <1>3, <1>4, <1>5 DEF BacktestSound
<1>. QED
  BY <1>4, <1>6, SpansGoOn

(* No other request writes matches of a backtest, and none but the two writes matches. *)
LEMMA OtherSpans ==
  ASSUME MatchesSound, SpansSound, [DiscoveryNext]_discoveryVars
  PROVE  \/ \E w \in Curators, b \in BehaviorIds, found \in SUBSET FailureTraces : ReadForBacktest(w, b, found)
         \/ UNCHANGED curators
         \/ \E w \in Curators : \E job : Proceeds(w, job) /\ (job = None \/ BacktestSound(job))
<1>1. ASSUME NEW w \in Curators, curators[w] # None
      PROVE  "at" \in DOMAIN curators[w]
  BY <1>1 DEF MatchesSound, DiscoveryRows, WriterSound
<1>2. ASSUME NEW w \in Curators, NEW job, Proceeds(w, job), job = None \/ job.at # "replace"
      PROVE  \E q : Proceeds(w, q) /\ (q = None \/ BacktestSound(q))
  BY <1>2 DEF BacktestSound
<1>3. ASSUME NEW w \in Curators, WriteLabel(w)
      PROVE  \E q : Proceeds(w, q) /\ (q = None \/ BacktestSound(q))
  <2>1. PICK job : job = curators[w] /\ "at" \in DOMAIN job
    BY <1>1, <1>3 DEF WriteLabel, CuratorAt
  <2>2. PICK next : next = [job EXCEPT !.at = "confirm"]
    OBVIOUS
  <2>3. Proceeds(w, next)
    BY <1>3, <2>1, <2>2 DEF WriteLabel
  <2>4. next.at = "confirm"
    BY <2>1, <2>2
  <2>. QED
    BY <1>2, <2>3, <2>4
<1>4. ASSUME NEW w \in Curators, NEW found, ReplaceMatches(w, found)
      PROVE  \E q : Proceeds(w, q) /\ (q = None \/ BacktestSound(q))
  <2>1. PICK tasks : \/ Proceeds(w, None)
                     \/ Proceeds(w, [at |-> "tasks", tasks |-> tasks])
    BY <1>4 DEF ReplaceMatches
  <2>. QED
    BY <1>2, <2>1
<1>5. ASSUME NEW w \in Curators, NEW leader, GroupSimilar(w, leader)
      PROVE  \E q : Proceeds(w, q) /\ (q = None \/ BacktestSound(q))
  <2>1. PICK job, groups : job = curators[w] /\ groups = SimilarGroups(job.candidates, leader)
    OBVIOUS
  <2>2. "at" \in DOMAIN job
    BY <1>1, <1>5, <2>1 DEF GroupSimilar, CuratorAt
  <2>3. PICK next : next = [job EXCEPT !.at = "ask", !.candidates = groups]
    OBVIOUS
  <2>4. Proceeds(w, next)
    BY <1>5, <2>1, <2>3 DEF GroupSimilar
  <2>5. next.at = "ask"
    BY <2>2, <2>3
  <2>. QED
    BY <1>2, <2>4, <2>5
<1>6. ASSUME NEW w \in Curators, NEW answer, GroupByModel(w, answer)
      PROVE  \E q : Proceeds(w, q) /\ (q = None \/ BacktestSound(q))
  <2>1. PICK job, groups : job = curators[w] /\ groups = ModelGroups(job.candidates, answer)
    OBVIOUS
  <2>2. "at" \in DOMAIN job
    BY <1>1, <1>6, <2>1 DEF GroupByModel, CuratorAt
  <2>3. PICK next : next = [job EXCEPT !.at = "persist", !.candidates = groups]
    OBVIOUS
  <2>4. Proceeds(w, next)
    BY <1>6, <2>1, <2>3 DEF GroupByModel
  <2>5. next.at = "persist"
    BY <2>2, <2>3
  <2>. QED
    BY <1>2, <2>4, <2>5
<1>7. ASSUME NEW w \in Curators, AddReviewTask(w)
      PROVE  \E q : Proceeds(w, q) /\ (q = None \/ BacktestSound(q))
  <2>1. PICK job, left : /\ job = curators[w] /\ job.at = "tasks"
                         /\ \/ Proceeds(w, None)
                            \/ Proceeds(w, [job EXCEPT !.tasks = left])
    BY <1>7 DEF AddReviewTask, CuratorAt
  <2>2. [job EXCEPT !.tasks = left].at = "tasks"
    <3>1. "at" \in DOMAIN job
      BY <1>1, <1>7, <2>1 DEF AddReviewTask, CuratorAt
    <3>. QED
      BY <2>1, <3>1
  <2>. QED
    BY <1>2, <2>1, <2>2
<1>8. ASSUME NEW w \in Curators,
             \/ \E t, b : ReadForLabel(w, t, b)
             \/ \E t, claims : ReadForGrounding(w, t, claims)
             \/ \E span : ConfirmMatch(w, span)
             \/ \E found, base : ReadForNovelty(w, found, base)
             \/ PersistNovelty(w)
             \/ \E answer : PersistCheck(w, answer)
             \/ CuratorStops(w)
      PROVE  \E q : Proceeds(w, q) /\ (q = None \/ BacktestSound(q))
  <2>1. \E q : Proceeds(w, q) /\ (q = None \/ q.at # "replace")
    <3>1. CASE \E t, b : ReadForLabel(w, t, b)
      BY <3>1 DEF ReadForLabel
    <3>2. CASE \E t, claims : ReadForGrounding(w, t, claims)
      BY <3>2 DEF ReadForGrounding
    <3>3. CASE (\E span : ConfirmMatch(w, span)) \/ CuratorStops(w)
      BY <3>3 DEF ConfirmMatch, CuratorStops
    <3>4. CASE \E found, base : ReadForNovelty(w, found, base)
      BY <3>4 DEF ReadForNovelty
    <3>5. CASE PersistNovelty(w)
      BY <3>5 DEF PersistNovelty
    <3>6. CASE \E answer : PersistCheck(w, answer)
      BY <3>6 DEF PersistCheck
    <3>. QED
      BY <1>8, <3>1, <3>2, <3>3, <3>4, <3>5, <3>6
  <2>. QED
    BY <1>2, <2>1
<1>9. ASSUME NEW t, NEW status, NEW signature, NEW hits, NEW verdicts,
             StoreFailure(t, status, signature, hits, verdicts) \/ DeleteFailure(t)
      PROVE  UNCHANGED curators
  BY <1>9 DEF StoreFailure, DeleteFailure
<1>10. ASSUME NEW b, NEW name, NEW detector, NEW status,
              NewBehavior(b, name, detector, status) \/ ProposeBehavior(b) \/ PromoteBehavior(b)
       PROVE  UNCHANGED curators
  BY <1>10 DEF NewBehavior, ProposeBehavior, PromoteBehavior
<1>11. CASE UNCHANGED discoveryVars
  BY <1>11 DEF discoveryVars
<1>. QED
  BY <1>3, <1>4, <1>5, <1>6, <1>7, <1>8, <1>9, <1>10, <1>11 DEF DiscoveryNext

(* Matches are written by a deletion, a label and a backtest only. *)
LEMMA MatchesWritten ==
  ASSUME [DiscoveryNext]_discoveryVars
  PROVE  \/ UNCHANGED matches
         \/ \E t \in FailureTraces : DeleteFailure(t)
         \/ \E w \in Curators : \/ \E span \in SUBSET SpanIds(curators[w].trace, {1}) : ConfirmMatch(w, span)
                                \/ \E sample \in SUBSET FailureTraces : ReplaceMatches(w, sample)
BY DEF DiscoveryNext, discoveryVars, StoreFailure, NewBehavior, ProposeBehavior, PromoteBehavior,
       ReadForLabel, ReadForGrounding, WriteLabel, ReadForBacktest, ReadForNovelty, GroupSimilar,
       GroupByModel, PersistNovelty, PersistCheck, AddReviewTask, CuratorStops

LEMMA SpansStep == MatchesSound /\ SpansSound /\ [DiscoveryNext]_discoveryVars => SpansSound'
<1>. SUFFICES ASSUME MatchesSound, SpansSound, [DiscoveryNext]_discoveryVars PROVE SpansSound'
  OBVIOUS
<1>1. HitsStored'
  BY HitsStep DEF SpansSound
<1>2. \A k \in DOMAIN matches' : OwnEvidence(matches'[k])
  <2>1. CASE UNCHANGED matches
    BY <2>1 DEF SpansSound
  <2>2. ASSUME NEW t \in FailureTraces, DeleteFailure(t)
        PROVE  \A k \in DOMAIN matches' : OwnEvidence(matches'[k])
    <3>. DEFINE at == {k \in DOMAIN matches : matches[k].trace # t}
    <3>1. at \in SUBSET DOMAIN matches /\ matches' = RowsAt(matches, at)
      BY <2>2 DEF DeleteFailure
    <3>. HIDE DEF at
    <3>. QED
      BY <3>1, KeptOwn
  <2>. QED
    BY <2>1, <2>2, MatchesWritten, ConfirmOwn, ReplaceOwn
<1>3. \A w \in Curators : curators'[w] # None => BacktestSound(curators'[w])
  BY OtherSpans, BacktestReads, SpansGoOn DEF SpansSound
<1>. QED
  BY <1>1, <1>2, <1>3 DEF SpansSound, OwnEvidence, BacktestSound

(* However labels, backtests, novelty runs and deletions interleave, the rows are of their
   types: a match has spans of its trace, and a failure no hits that are not stored. *)
THEOREM DiscoveryTyping == DiscoverySpec => []DiscoveryTypeOK
<1>1. DiscoveryInit => SpansSound
  BY DEF DiscoveryInit, SpansSound, HitsStored, There
<1>2. MatchesSound /\ FindingsSound /\ SpansSound => DiscoveryTypeOK
  <2>. SUFFICES ASSUME MatchesSound, FindingsSound, SpansSound PROVE DiscoveryTypeOK
    OBVIOUS
  <2>1. \A k \in DOMAIN matches : matches[k] \in MatchRow
    BY DEF MatchesSound, DiscoveryRows
  <2>. QED
    BY <2>1 DEF MatchRow, MatchesSound, DiscoveryRows, FindingsSound, SpansSound, HitsStored, OwnEvidence,
                DiscoveryTypeOK
<1>. QED
  BY <1>1, <1>2, SpansStep, MatchesAlways, FindingsAlways, PTL DEF DiscoverySpec

(* However automations, reviews and the discovery of behaviors interleave, the rows and
   what is under way of all are of their types. *)
THEOREM TriageTyped == AutomationSpec /\ DiscoverySpec => []TriageTypeOK
<1>1. AutomationTypeOK /\ DiscoveryTypeOK => TriageTypeOK
  BY DEF TriageTypeOK
<1>. QED
  BY <1>1, AutomationTyping, DiscoveryTyping, PTL
=============================================================================
