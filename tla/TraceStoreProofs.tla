-------------------------- MODULE TraceStoreProofs --------------------------
EXTENDS TraceStore, TLAPS

USE DEF Eras, SpansOf, Scrubbed, Reindex, Rewritten, IsDuplicate, ScrubDerived, Known

(* The two ways a label request changes the row it copied. *)
LEMMA LabelledRow ==
  ASSUME NEW row \in TraceRow
  PROVE  [row EXCEPT !.labelled = TRUE] \in TraceRow
  BY DEF TraceRow

LEMMA RevivedRow ==
  ASSUME NEW row \in TraceRow, NEW stale \in BOOLEAN
  PROVE  [row EXCEPT !.revived = row.revived \/ stale] \in TraceRow
<1>1. row.revived \/ stale \in BOOLEAN
  OBVIOUS
<1> QED
  BY <1>1 DEF TraceRow

(* The tables hold rows of their types, whatever the requests do. *)
THEOREM Typing == Spec => []TypeOK
<1> USE StoreAssumption
<1>1. Init => TypeOK
  BY DEF Init, TypeOK
<1>2. TypeOK /\ [Next]_vars => TypeOK'
  <2> SUFFICES ASSUME TypeOK, [Next]_vars PROVE TypeOK'
    OBVIOUS
  <2> USE DEF TypeOK
  <2>1. ASSUME NEW t \in Traces, NEW b \in Bodies, IngestTrace(t, b) PROVE TypeOK'
    BY <2>1 DEF IngestTrace, TraceRow
  <2>2. ASSUME NEW r \in Requests, NEW t \in Traces, NEW s \in Spans, NEW b \in Bodies,
               IngestSpan(r, t, s, b)
        PROVE  TypeOK'
    BY <2>2 DEF IngestSpan, Begin, Request
  <2>3. ASSUME NEW r \in Requests, NEW s \in Spans, AppendEvent(r, s) PROVE TypeOK'
    BY <2>3 DEF AppendEvent, Begin, Request, SpanRow
  <2>4. ASSUME NEW r \in Requests, GetSpan(r) PROVE TypeOK'
    BY <2>4 DEF GetSpan, At, Request
  <2>5. ASSUME NEW r \in Requests, RecordDiagnostic(r) PROVE TypeOK'
    BY <2>5 DEF RecordDiagnostic, At, Request
  <2>6. ASSUME NEW r \in Requests, UpsertSpan(r) PROVE TypeOK'
    BY <2>6 DEF UpsertSpan, Finish, At, Request, SpanRow
  <2>7. ASSUME NEW t \in Traces, PutPayload(t) PROVE TypeOK'
    BY <2>7 DEF PutPayload, PayloadRow
  <2>8. ASSUME NEW r \in Requests, NEW t \in Traces, LabelTrace(r, t) PROVE TypeOK'
    <3>1. [metadata[t] EXCEPT !.labelled = TRUE] \in TraceRow
      BY <2>8, LabelledRow DEF LabelTrace
    <3> QED
      BY <2>8, <3>1 DEF LabelTrace, Begin, Request
  <2>9. ASSUME NEW r \in Requests, UpsertLabelled(r) PROVE TypeOK'
    <3> DEFINE q == requests[r]
               stale == q.row.status = "live" /\ q.copied # deletions[q.trace]
    <3>1. /\ q \in [step : {"label"}, trace : Traces, row : TraceRow, copied : Eras]
          /\ q.row \in TraceRow /\ q.trace \in Traces
      BY <2>9 DEF UpsertLabelled, At, Request
    <3>2. [q.row EXCEPT !.revived = q.row.revived \/ stale] \in TraceRow
      BY <3>1, RevivedRow
    <3>3. metadata' \in [Traces -> TraceRow \union {None}]
      BY <2>9, <3>1, <3>2 DEF UpsertLabelled
    <3>4. requests' \in [Requests -> Request \union {None}]
      BY <2>9, <3>1 DEF UpsertLabelled, Request
    <3> QED
      BY <2>9, <3>3, <3>4 DEF UpsertLabelled
  <2>10. ASSUME NEW r \in Requests, ConfirmMatch(r) PROVE TypeOK'
    BY <2>10 DEF ConfirmMatch, Finish, At, Request
  <2>11. ASSUME NEW r \in Requests, NEW t \in Traces, NEW table \in Tables,
                ReadForDerived(r, t, table)
         PROVE  TypeOK'
    BY <2>11 DEF ReadForDerived, Begin, Request
  <2>12. ASSUME NEW r \in Requests, InsertDerived(r) PROVE TypeOK'
    BY <2>12 DEF InsertDerived, Finish, At, Request
  <2>13. ASSUME NEW r \in Requests, NEW t \in Traces, AddTraceToDataset(r, t) PROVE TypeOK'
    BY <2>13 DEF AddTraceToDataset, Begin, Request
  <2>14. ASSUME NEW r \in Requests, InsertExample(r) PROVE TypeOK'
    BY <2>14 DEF InsertExample, Finish, At, Request, ExampleRow
  <2>15. ASSUME NEW r \in Requests, NEW e \in Examples, EvaluateExample(r, e) PROVE TypeOK'
    BY <2>15 DEF EvaluateExample, Begin, Request, ExampleRow
  <2>16. ASSUME NEW r \in Requests, RecordEvalResult(r) PROVE TypeOK'
    BY <2>16 DEF RecordEvalResult, Finish, At, Request
  <2>17. ASSUME NEW id \in Traces \union Spans, NEW t \in Traces, Cite(id, t) PROVE TypeOK'
    BY <2>17 DEF Cite
  <2>18. ASSUME NEW r \in Requests, NEW t \in Traces, StartTombstone(r, t) PROVE TypeOK'
    BY <2>18 DEF StartTombstone, Begin, Request
  <2>19. ASSUME NEW r \in Requests, CommitTombstone(r) PROVE TypeOK'
    BY <2>19 DEF CommitTombstone, Finish, At, Request, TraceRow, PayloadRow
  <2>20. ASSUME NEW r \in Requests, Abort(r) PROVE TypeOK'
    BY <2>20 DEF Abort, Finish
  <2>21. CASE UNCHANGED vars
    BY <2>21 DEF vars
  <2> QED
    BY <2>1, <2>2, <2>3, <2>4, <2>5, <2>6, <2>7, <2>8, <2>9, <2>10, <2>11, <2>12,
       <2>13, <2>14, <2>15, <2>16, <2>17, <2>18, <2>19, <2>20, <2>21 DEF Next, Step
<1> QED
  BY <1>1, <1>2, PTL DEF Spec

-----------------------------------------------------------------------------
(* A document is never the absence of one. *)
LEMMA DocumentIsARow ==
  ASSUME NEW m \in [Traces -> TraceRow \union {None}],
         NEW sp \in [Spans -> SpanRow \union {None}],
         NEW t \in Traces
  PROVE  Document(m, sp, t) # None
<1>1. Document(m, sp, t) \in [trace : TraceRow \union {None},
                              spans : [Spans -> SpanRow \union {None}]]
  BY DEF Document
<1> QED
  BY <1>1, NoneAssumption

(* What the search document of one trace has to be. *)
Coherent(t) ==
  IF searchDocs[t] = None
  THEN /\ SpansOf(t) = {}
       /\ metadata[t] = None \/ metadata[t].status = "deleted"
  ELSE /\ searchDocs[t].trace = metadata[t]
       /\ \A s \in Spans :
            IF s \in SpansOf(t)
            THEN searchDocs[t].spans[s] = spanRows[s]
            ELSE searchDocs[t].spans[s] # None => <<t, s>> \in strays

(* A trace whose document is the one of the present rows is in order. *)
LEMMA Reindexed ==
  ASSUME metadata' \in [Traces -> TraceRow \union {None}],
         spanRows' \in [Spans -> SpanRow \union {None}],
         NEW t \in Traces,
         searchDocs'[t] = Document(metadata', spanRows', t)
  PROVE  Coherent(t)'
<1>1. searchDocs'[t] # None
  BY DocumentIsARow
<1> QED
  BY <1>1 DEF Coherent, Document

(* A trace whose row and document a transaction leaves alone stays in order,
   if its spans stay as they are and those that leave it are called strays. *)
LEMMA LeftAlone ==
  ASSUME TypeOK, NEW t \in Traces, Coherent(t),
         searchDocs'[t] = searchDocs[t],
         metadata'[t] = metadata[t],
         \A s \in SpansOf(t)' : s \in SpansOf(t) /\ spanRows'[s] = spanRows[s],
         \A s \in SpansOf(t) \ SpansOf(t)' : <<t, s>> \in strays',
         \A s \in Spans : <<t, s>> \in strays => <<t, s>> \in strays'
  PROVE  Coherent(t)'
<1> USE DEF Coherent
<1>1. CASE searchDocs[t] = None
  BY <1>1
<1>2. CASE searchDocs[t] # None
  <2> SUFFICES ASSUME NEW s \in Spans
               PROVE  IF s \in SpansOf(t)'
                      THEN searchDocs[t].spans[s] = spanRows'[s]
                      ELSE searchDocs[t].spans[s] # None => <<t, s>> \in strays'
    BY <1>2
  <2> HIDE DEF SpansOf
  <2>1. CASE s \in SpansOf(t)'
    BY <1>2, <2>1
  <2>2. CASE s \notin SpansOf(t)' /\ s \in SpansOf(t)
    BY <2>2
  <2>3. CASE s \notin SpansOf(t)' /\ s \notin SpansOf(t)
    BY <1>2, <2>3
  <2> QED
    BY <2>1, <2>2, <2>3
<1> QED
  BY <1>1, <1>2

(* Full-text search answers from the rows that are stored, at every point
   between the transactions of any number of requests; a span that was sent
   again under another trace may be found under the one it left, until that
   trace is written. *)
THEOREM IndexCoherence == Spec => []IndexCoherent
<1> USE StoreAssumption
<1>0. IndexCoherent <=> \A t \in Traces : Coherent(t)
  BY DEF IndexCoherent, Coherent
<1>1. Init => IndexCoherent
  BY DEF Init, IndexCoherent
<1>2. TypeOK /\ TypeOK' /\ IndexCoherent /\ [Next]_vars => IndexCoherent'
  <2> SUFFICES ASSUME TypeOK, TypeOK', \A u \in Traces : Coherent(u), [Next]_vars,
                      NEW t \in Traces
               PROVE  Coherent(t)'
    BY DEF IndexCoherent, Coherent
  <2>0. /\ metadata' \in [Traces -> TraceRow \union {None}]
        /\ spanRows' \in [Spans -> SpanRow \union {None}]
    BY DEF TypeOK
  <2>1. CASE UNCHANGED <<metadata, spanRows, searchDocs, strays>>
    BY <2>1 DEF Coherent
  <2>2. ASSUME NEW u \in Traces,
               searchDocs' = [searchDocs EXCEPT ![u] = Document(metadata', spanRows', u)],
               strays' = Rewritten(u), spanRows' = spanRows,
               \A v \in Traces \ {u} : metadata'[v] = metadata[v]
        PROVE  Coherent(t)'
    <3>1. CASE t = u
      <4>1. searchDocs'[t] = Document(metadata', spanRows', t)
        BY <2>2, <3>1 DEF TypeOK
      <4> QED
        BY <2>0, <4>1, Reindexed
    <3>2. CASE t # u
      <4>1. searchDocs'[t] = searchDocs[t] /\ metadata'[t] = metadata[t]
        BY <2>2, <3>2 DEF TypeOK
      <4>2. \A s \in Spans : <<t, s>> \in strays => <<t, s>> \in strays'
        BY <2>2, <3>2
      <4> QED
        BY <2>2, <4>1, <4>2, LeftAlone
    <3> QED
      BY <3>1, <3>2
  <2>3. ASSUME NEW v \in Traces, NEW b \in Bodies, IngestTrace(v, b)
        PROVE  Coherent(t)'
    <3>1. spanRows' = spanRows /\ \A u \in Traces \ {v} : metadata'[u] = metadata[u]
      BY <2>3 DEF IngestTrace, TypeOK
    <3>2. searchDocs' = [searchDocs EXCEPT ![v] = Document(metadata', spanRows', v)]
      BY <2>3, <3>1 DEF IngestTrace
    <3>3. strays' = Rewritten(v)
      BY <2>3 DEF IngestTrace
    <3> QED
      BY <2>2, <3>1, <3>2, <3>3
  <2>4. ASSUME NEW r \in Requests, UpsertLabelled(r) PROVE Coherent(t)'
    <3> DEFINE v == requests[r].trace
    <3>1. v \in Traces
      BY <2>4 DEF UpsertLabelled, At, TypeOK, Request
    <3>2. spanRows' = spanRows /\ \A u \in Traces \ {v} : metadata'[u] = metadata[u]
      BY <2>4, <3>1 DEF UpsertLabelled, TypeOK
    <3>3. searchDocs' = [searchDocs EXCEPT ![v] = Document(metadata', spanRows', v)]
      BY <2>4, <3>2 DEF UpsertLabelled
    <3>4. strays' = Rewritten(v)
      BY <2>4 DEF UpsertLabelled
    <3> HIDE DEF v
    <3> QED
      BY <2>2, <3>1, <3>2, <3>3, <3>4
  <2>5. ASSUME NEW r \in Requests, UpsertSpan(r) PROVE Coherent(t)'
    <3> DEFINE x == requests[r].span
               v == requests[r].trace
    <3>1. x \in Spans /\ v \in Traces
      BY <2>5 DEF UpsertSpan, At, TypeOK, Request
    <3>2. /\ metadata' = metadata
          /\ searchDocs' = [searchDocs EXCEPT ![v] = Document(metadata', spanRows', v)]
      BY <2>5 DEF UpsertSpan
    <3>3. /\ spanRows'[x] # None /\ spanRows'[x].trace = v
          /\ \A s \in Spans \ {x} : spanRows'[s] = spanRows[s]
      <4>1. PICK row \in SpanRow : row.trace = v /\ spanRows' = [spanRows EXCEPT ![x] = row]
        <5>1. PICK row : row = spanRows'[x]
          OBVIOUS
        <5>2. row.trace = v /\ spanRows' = [spanRows EXCEPT ![x] = row]
          BY <2>5, <3>1, <5>1 DEF UpsertSpan, TypeOK
        <5>3. row \in SpanRow
          BY <2>5, <3>1, <5>1 DEF UpsertSpan, TypeOK, SpanRow, At, Request
        <5> QED
          BY <5>2, <5>3
      <4> QED
        BY <3>1, <4>1, NoneAssumption DEF TypeOK
    <3>4. strays' = Rewritten(v) \union {<<u, x>> : u \in {w \in Traces \ {v} : x \in SpansOf(w)}}
      BY <2>5 DEF UpsertSpan
    <3> HIDE DEF x, v
    <3>5. CASE t = v
      <4>1. searchDocs'[t] = Document(metadata', spanRows', t)
        BY <3>1, <3>2, <3>5 DEF TypeOK
      <4> QED
        BY <2>0, <4>1, Reindexed
    <3>6. CASE t # v
      <4>1. searchDocs'[t] = searchDocs[t] /\ metadata'[t] = metadata[t]
        BY <3>2, <3>6 DEF TypeOK
      <4>2. \A s \in SpansOf(t)' : s \in SpansOf(t) /\ spanRows'[s] = spanRows[s]
        BY <3>3, <3>6
      <4>3. \A s \in SpansOf(t) \ SpansOf(t)' : s = x
        BY <3>3
      <4>4. \A s \in SpansOf(t) \ SpansOf(t)' : <<t, s>> \in strays'
        BY <3>4, <3>6, <4>3
      <4>5. \A s \in Spans : <<t, s>> \in strays => <<t, s>> \in strays'
        BY <3>4, <3>6
      <4> QED
        BY <4>1, <4>2, <4>4, <4>5, LeftAlone
    <3> QED
      BY <3>5, <3>6
  <2>6. ASSUME NEW r \in Requests, CommitTombstone(r) PROVE Coherent(t)'
    <3> DEFINE v == requests[r].trace
    <3>1. v \in Traces
      BY <2>6 DEF CommitTombstone, At, TypeOK, Request
    <3>2. /\ spanRows' = [s \in Spans |-> IF s \in SpansOf(v) THEN None ELSE spanRows[s]]
          /\ searchDocs' = [searchDocs EXCEPT ![v] = None]
          /\ strays' = Rewritten(v)
      BY <2>6 DEF CommitTombstone
    <3>3. metadata'[v].status = "deleted" /\ \A u \in Traces \ {v} : metadata'[u] = metadata[u]
      BY <2>6, <3>1 DEF CommitTombstone, TypeOK
    <3> HIDE DEF v
    <3>4. CASE t = v
      BY <3>1, <3>2, <3>3, <3>4 DEF Coherent, TypeOK
    <3>5. CASE t # v
      <4>1. searchDocs'[t] = searchDocs[t] /\ metadata'[t] = metadata[t]
        BY <3>1, <3>2, <3>3, <3>5 DEF TypeOK
      <4>2. SpansOf(t)' = SpansOf(t) /\ \A s \in SpansOf(t) : spanRows'[s] = spanRows[s]
        BY <3>2, <3>5
      <4>3. \A s \in Spans : <<t, s>> \in strays => <<t, s>> \in strays'
        BY <3>2, <3>5
      <4> QED
        BY <4>1, <4>2, <4>3, LeftAlone
    <3> QED
      BY <3>4, <3>5
  <2> QED
    <3>1. ASSUME NEW r \in Requests, Step(r)
          PROVE  \/ UNCHANGED <<metadata, spanRows, searchDocs, strays>>
                 \/ UpsertSpan(r) \/ UpsertLabelled(r) \/ CommitTombstone(r)
      BY <3>1 DEF Step, IngestSpan, AppendEvent, GetSpan, RecordDiagnostic, LabelTrace,
         ConfirmMatch, ReadForDerived, InsertDerived, AddTraceToDataset, InsertExample,
         EvaluateExample, RecordEvalResult, StartTombstone, Abort
    <3> QED
      BY <2>1, <2>3, <2>4, <2>5, <2>6, <3>1 DEF Next, PutPayload, Cite, vars
<1> QED
  BY <1>1, <1>2, Typing, PTL DEF Spec

-----------------------------------------------------------------------------
(* No row that is scrubbed by trace id outlives the tombstone of its trace. *)
THEOREM TombstoneScrubs == Spec => []SurvivorsAreNewer
<1> USE StoreAssumption
<1>1. Init => SurvivorsAreNewer
  BY DEF Init, SurvivorsAreNewer
<1>2. TypeOK /\ TypeOK' /\ SurvivorsAreNewer /\ [Next]_vars => SurvivorsAreNewer'
  <2> SUFFICES ASSUME TypeOK, TypeOK', SurvivorsAreNewer, [Next]_vars
               PROVE  SurvivorsAreNewer'
    OBVIOUS
  <2> DEFINE tables == <<spanRows, derivedRows, exampleRows, payloads, evidence, deletions>>
  <2>1. CASE UNCHANGED tables
    BY <2>1 DEF SurvivorsAreNewer
  <2>2. ASSUME NEW r \in Requests, UpsertSpan(r) PROVE SurvivorsAreNewer'
    BY <2>2 DEF UpsertSpan, SurvivorsAreNewer, TypeOK, At, Request
  <2>3. ASSUME NEW t \in Traces, PutPayload(t) PROVE SurvivorsAreNewer'
    BY <2>3 DEF PutPayload, SurvivorsAreNewer, TypeOK
  <2>4. ASSUME NEW r \in Requests, ConfirmMatch(r) \/ InsertDerived(r)
        PROVE  SurvivorsAreNewer'
    BY <2>4 DEF ConfirmMatch, InsertDerived, SurvivorsAreNewer, TypeOK
  <2>5. ASSUME NEW r \in Requests, InsertExample(r) PROVE SurvivorsAreNewer'
    BY <2>5 DEF InsertExample, SurvivorsAreNewer, TypeOK
  <2>6. ASSUME NEW id \in Traces \union Spans, NEW t \in Traces, Cite(id, t)
        PROVE  SurvivorsAreNewer'
    BY <2>6 DEF Cite, SurvivorsAreNewer, TypeOK
  <2>7. ASSUME NEW r \in Requests, CommitTombstone(r) PROVE SurvivorsAreNewer'
    <3> DEFINE t == requests[r].trace
    <3>1. t \in Traces /\ \A u \in Traces \ {t} : deletions'[u] = deletions[u]
      BY <2>7 DEF CommitTombstone, At, TypeOK, Request
    <3>2. ASSUME NEW s \in Spans, spanRows'[s] # None
          PROVE  spanRows'[s].era = deletions'[spanRows'[s].trace]
      <4>1. spanRows'[s] = spanRows[s] /\ spanRows[s].trace # t
        BY <2>7, <3>2 DEF CommitTombstone
      <4>2. spanRows[s] \in SpanRow
        BY <3>2, <4>1 DEF TypeOK
      <4> QED
        BY <3>1, <3>2, <4>1, <4>2 DEF SurvivorsAreNewer, SpanRow
    <3>3. ASSUME NEW x \in derivedRows' PROVE x.era = deletions'[x.trace]
      BY <2>7, <3>1 DEF CommitTombstone, SurvivorsAreNewer, TypeOK
    <3>4. ASSUME NEW e \in Examples, exampleRows'[e] \notin {None, Gone}
          PROVE  exampleRows'[e].era = deletions'[exampleRows'[e].trace]
      <4>1. exampleRows'[e] = exampleRows[e] /\ exampleRows[e].trace # t
        BY <2>7, <3>4 DEF CommitTombstone
      <4>2. exampleRows[e] \in ExampleRow
        BY <3>4, <4>1 DEF TypeOK
      <4> QED
        BY <3>1, <3>4, <4>1, <4>2 DEF SurvivorsAreNewer, ExampleRow
    <3>5. ASSUME NEW u \in Traces, payloads'[u] # None, payloads'[u].stored
          PROVE  payloads'[u].era = deletions'[u]
      BY <2>7, <3>1, <3>5 DEF CommitTombstone, SurvivorsAreNewer, TypeOK
    <3>6. ASSUME NEW x \in evidence', x.id = x.trace PROVE x.era = deletions'[x.trace]
      BY <2>7, <3>1, <3>6 DEF CommitTombstone, SurvivorsAreNewer, TypeOK
    <3> QED
      BY <3>2, <3>3, <3>4, <3>5, <3>6 DEF SurvivorsAreNewer
  <2> QED
    <3>1. ASSUME NEW r \in Requests, Step(r)
          PROVE  \/ UNCHANGED tables
                 \/ UpsertSpan(r) \/ ConfirmMatch(r) \/ InsertDerived(r)
                 \/ InsertExample(r) \/ CommitTombstone(r)
      BY <3>1 DEF Step, IngestSpan, AppendEvent, GetSpan, RecordDiagnostic, LabelTrace,
         UpsertLabelled, ReadForDerived, AddTraceToDataset, EvaluateExample,
         RecordEvalResult, StartTombstone, Abort
    <3> QED
      BY <2>1, <2>2, <2>3, <2>4, <2>5, <2>6, <2>7, <3>1 DEF Next, IngestTrace, vars
<1> QED
  BY <1>1, <1>2, Typing, PTL DEF Spec

-----------------------------------------------------------------------------
(* The rows of a trace, and the requests that are about to insert one, name a
   trace the store knows. *)
AboutATrace == {"label", "confirm", "insert_derived", "insert_example", "tombstone"}

KnownToRequests ==
  \A r \in Requests :
    requests[r] # None /\ requests[r].step \in AboutATrace => Known(requests[r].trace)

(* A trace that is stored stays, as a row or as a tombstone. *)
LEMMA TracesStay ==
  ASSUME TypeOK, [Next]_vars, NEW t \in Traces, Known(t)
  PROVE  Known(t)'
<1> USE StoreAssumption
<1>1. CASE metadata' = metadata
  BY <1>1
<1>2. ASSUME NEW u \in Traces, NEW b \in Bodies, IngestTrace(u, b) PROVE Known(t)'
  <2>1. PICK row \in TraceRow : metadata' = [metadata EXCEPT ![u] = row]
    BY <1>2 DEF IngestTrace, TraceRow
  <2> QED
    BY <2>1, NoneAssumption DEF TypeOK
<1>3. ASSUME NEW r \in Requests, UpsertLabelled(r) PROVE Known(t)'
  <2> DEFINE q == requests[r]
             stale == q.row.status = "live" /\ q.copied # deletions[q.trace]
  <2>1. q.row \in TraceRow /\ q.trace \in Traces
    BY <1>3 DEF UpsertLabelled, At, Request, TypeOK
  <2>2. [q.row EXCEPT !.revived = q.row.revived \/ stale] \in TraceRow
    BY <2>1, RevivedRow
  <2>3. PICK row \in TraceRow : metadata' = [metadata EXCEPT ![q.trace] = row]
    BY <1>3, <2>2 DEF UpsertLabelled
  <2> QED
    BY <2>3, NoneAssumption DEF TypeOK
<1>4. ASSUME NEW r \in Requests, CommitTombstone(r) PROVE Known(t)'
  <2>1. PICK row \in TraceRow : metadata' = [metadata EXCEPT ![requests[r].trace] = row]
    BY <1>4 DEF CommitTombstone, TraceRow
  <2> QED
    BY <2>1, NoneAssumption DEF TypeOK
<1>5. ASSUME NEW r \in Requests, Step(r)
      PROVE  metadata' = metadata \/ UpsertLabelled(r) \/ CommitTombstone(r)
  BY <1>5 DEF Step, IngestSpan, AppendEvent, GetSpan, RecordDiagnostic, UpsertSpan, LabelTrace,
     ConfirmMatch, ReadForDerived, InsertDerived, AddTraceToDataset, InsertExample,
     EvaluateExample, RecordEvalResult, StartTombstone, Abort
<1> QED
  BY <1>1, <1>2, <1>3, <1>4, <1>5 DEF Next, PutPayload, Cite, vars

(* Derived rows, dataset examples and tombstones are of traces the store knows,
   however requests that read the trace first interleave. *)
THEOREM RowsOfTraces == Spec => []RowsHaveTheirTrace
<1> USE StoreAssumption
<1>1. Init => RowsHaveTheirTrace /\ KnownToRequests
  BY DEF Init, RowsHaveTheirTrace, KnownToRequests
<1>2. TypeOK /\ TypeOK' /\ RowsHaveTheirTrace /\ KnownToRequests /\ [Next]_vars
      => RowsHaveTheirTrace' /\ KnownToRequests'
  <2> SUFFICES ASSUME TypeOK, TypeOK', RowsHaveTheirTrace, KnownToRequests, [Next]_vars
               PROVE  RowsHaveTheirTrace' /\ KnownToRequests'
    OBVIOUS
  <2>1. \A t \in Traces : Known(t) => Known(t)'
    BY TracesStay
  <2> HIDE DEF Known
  <2>2. ASSUME requests' = requests PROVE KnownToRequests'
    <3>1. ASSUME NEW r \in Requests, requests[r] # None, requests[r].step \in AboutATrace
          PROVE  requests[r].trace \in Traces
      BY <3>1 DEF TypeOK, Request, AboutATrace
    <3> QED
      BY <2>1, <2>2, <3>1 DEF KnownToRequests
  <2>3. ASSUME UNCHANGED <<derivedRows, exampleRows, deletions>> PROVE RowsHaveTheirTrace'
    <3>1. \A e \in Examples : exampleRows[e] \notin {None, Gone} => exampleRows[e].trace \in Traces
      BY DEF TypeOK, ExampleRow
    <3>2. \A x \in derivedRows : x.trace \in Traces
      BY DEF TypeOK
    <3> QED
      BY <2>1, <2>3, <3>1, <3>2 DEF RowsHaveTheirTrace, Known
  <2>4. ASSUME NEW r \in Requests, NEW q, requests' = [requests EXCEPT ![r] = q],
               q # None /\ q.step \in AboutATrace => Known(q.trace)'
        PROVE  KnownToRequests'
    <3>1. requests'[r] = q /\ \A s \in Requests \ {r} : requests'[s] = requests[s]
      BY <2>4 DEF TypeOK
    <3>2. ASSUME NEW s \in Requests, requests[s] # None, requests[s].step \in AboutATrace
          PROVE  requests[s].trace \in Traces
      BY <3>2 DEF TypeOK, Request, AboutATrace
    <3> QED
      BY <2>1, <2>4, <3>1, <3>2 DEF KnownToRequests
  <2>5. ASSUME NEW r \in Requests, Finish(r) PROVE KnownToRequests'
    BY <2>4, <2>5 DEF Finish
  <2>6. ASSUME NEW r \in Requests, Step(r), UNCHANGED <<derivedRows, exampleRows, deletions>>
        PROVE  KnownToRequests'
    <3>1. CASE \/ \E t \in Traces, s \in Spans, b \in Bodies : IngestSpan(r, t, s, b)
               \/ \E s \in Spans : AppendEvent(r, s)
      BY <2>4, <3>1 DEF IngestSpan, AppendEvent, Begin, AboutATrace
    <3>2. CASE GetSpan(r)
      <4> DEFINE q == requests[r]
                 next == IF ~IsDuplicate(q.span)
                         THEN [q EXCEPT !.step = "upsert_span"]
                         ELSE [step |-> "diagnose", trace |-> q.trace, span |-> q.span,
                               body |-> q.body, event |-> q.event, copied |-> q.copied,
                               revived |-> q.revived, existing |-> spanRows[q.span]]
      <4>1. requests' = [requests EXCEPT ![r] = next]
        BY <3>2 DEF GetSpan
      <4>2. next.step \notin AboutATrace
        BY <3>2 DEF GetSpan, At, TypeOK, Request, AboutATrace
      <4> QED
        BY <2>4, <4>1, <4>2
    <3>3. CASE RecordDiagnostic(r)
      BY <2>4, <3>3 DEF RecordDiagnostic, AboutATrace
    <3>4. CASE UpsertSpan(r) \/ RecordEvalResult(r) \/ Abort(r)
      BY <2>5, <3>4 DEF UpsertSpan, RecordEvalResult, Abort
    <3>5. CASE \/ \E t \in Traces : LabelTrace(r, t) \/ AddTraceToDataset(r, t)
                                     \/ StartTombstone(r, t)
               \/ \E t \in Traces, table \in Tables : ReadForDerived(r, t, table)
      <4>1. PICK t \in Traces :
              Known(t) /\ \E q : requests' = [requests EXCEPT ![r] = q] /\ q.trace = t
        BY <3>5 DEF LabelTrace, AddTraceToDataset, StartTombstone, ReadForDerived, Begin, Known
      <4> QED
        BY <2>1, <2>4, <4>1
    <3>6. CASE UpsertLabelled(r)
      <4>1. Known(requests[r].trace) /\ requests[r].trace \in Traces
        BY <3>6 DEF UpsertLabelled, At, KnownToRequests, AboutATrace, TypeOK, Request
      <4>2. requests' = [requests EXCEPT ![r] = [step |-> "confirm", trace |-> requests[r].trace]]
        BY <3>6 DEF UpsertLabelled
      <4> QED
        BY <2>1, <2>4, <4>1, <4>2
    <3>7. CASE \E e \in Examples : EvaluateExample(r, e)
      BY <2>4, <3>7 DEF EvaluateExample, Begin, AboutATrace
    <3>8. CASE ConfirmMatch(r) \/ InsertDerived(r) \/ InsertExample(r) \/ CommitTombstone(r)
      BY <2>5, <3>8 DEF ConfirmMatch, InsertDerived, InsertExample, CommitTombstone
    <3> QED
      BY <2>6, <3>1, <3>2, <3>3, <3>4, <3>5, <3>6, <3>7, <3>8, Zenon DEF Step
  <2>7. ASSUME NEW r \in Requests,
               ConfirmMatch(r) \/ InsertDerived(r) \/ InsertExample(r) \/ CommitTombstone(r)
        PROVE  RowsHaveTheirTrace' /\ KnownToRequests'
    <3>0. PICK t : t = requests[r].trace
      OBVIOUS
    <3>1. t \in Traces /\ Known(t) /\ Known(t)'
      <4>1. requests[r] # None /\ requests[r].step \in AboutATrace
        BY <2>7 DEF ConfirmMatch, InsertDerived, InsertExample, CommitTombstone, At, AboutATrace
      <4>2. t \in Traces
        BY <3>0, <4>1 DEF AboutATrace, TypeOK, Request
      <4> QED
        BY <2>1, <3>0, <4>1, <4>2 DEF KnownToRequests
    <3>2. Finish(r)
      BY <2>7 DEF ConfirmMatch, InsertDerived, InsertExample, CommitTombstone
    <3>3. \A x \in derivedRows' : x \in derivedRows \/ x.trace = t
      BY <2>7, <3>0 DEF ConfirmMatch, InsertDerived, InsertExample, CommitTombstone
    <3>4. \A e \in Examples : exampleRows'[e] \notin {None, Gone} =>
            exampleRows'[e] = exampleRows[e] \/ exampleRows'[e].trace = t
      BY <2>7, <3>0 DEF ConfirmMatch, InsertDerived, InsertExample, CommitTombstone, TypeOK
    <3>5. \A u \in Traces : deletions'[u] = deletions[u] \/ u = t
      BY <2>7, <3>0 DEF ConfirmMatch, InsertDerived, InsertExample, CommitTombstone, TypeOK
    <3>6. /\ \A x \in derivedRows : x.trace \in Traces
          /\ \A e \in Examples : exampleRows[e] \notin {None, Gone} => exampleRows[e].trace \in Traces
      BY DEF TypeOK, ExampleRow
    <3> QED
      BY <2>1, <2>5, <3>1, <3>2, <3>3, <3>4, <3>5, <3>6 DEF RowsHaveTheirTrace, Known
  <2>8. ASSUME NEW r \in Requests, Step(r)
        PROVE  \/ UNCHANGED <<derivedRows, exampleRows, deletions>>
               \/ ConfirmMatch(r) \/ InsertDerived(r) \/ InsertExample(r) \/ CommitTombstone(r)
    BY <2>8 DEF Step, IngestSpan, AppendEvent, GetSpan, RecordDiagnostic, UpsertSpan, LabelTrace,
       UpsertLabelled, ReadForDerived, AddTraceToDataset, EvaluateExample, RecordEvalResult,
       StartTombstone, Abort
  <2> QED
    BY <2>2, <2>3, <2>6, <2>7, <2>8 DEF Next, IngestTrace, PutPayload, Cite, vars
<1> QED
  BY <1>1, <1>2, Typing, PTL DEF Spec
=============================================================================
