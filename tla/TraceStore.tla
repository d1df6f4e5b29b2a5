----------------------------- MODULE TraceStore -----------------------------
(***************************************************************************)
(* The rows SQLiteStore keeps about a trace, and the requests that race on *)
(* them: ingest, behavior labels, dataset examples, derived rows, eval     *)
(* results, payload objects, review evidence and the tombstone.            *)
(*                                                                         *)
(* FastAPI runs the handlers in a thread pool, and every `with             *)
(* self.connect()` block is a transaction of its own, so a handler is a    *)
(* sequence of transactions: each is one action here, and a request that   *)
(* is between two of them is a record in `requests`.  The sqlite3 module   *)
(* opens the transaction before the first INSERT, UPDATE or DELETE, so the *)
(* SELECTs that precede it are an action of their own, while those that    *)
(* follow it (the SELECTs of _index_trace) belong to the write.            *)
(*                                                                         *)
(* A span is keyed by its id alone: sent again under another trace, it     *)
(* moves there, and only the trace it moves to is indexed again.           *)
(*                                                                         *)
(* Ghosts: `deletions` counts the tombstones of a trace; a row's `era` is  *)
(* that count when the row was committed, and `revived` says that its      *)
(* content was read before a tombstone and written back after it.          *)
(* `strays` has the pairs of a trace and a span that left it since the     *)
(* trace's document was last written.                                      *)
(***************************************************************************)
EXTENDS Naturals, FiniteSets

CONSTANTS Traces,       \* trace ids
          Spans,        \* span ids
          Examples,     \* dataset example ids
          Requests,     \* request threads of the API, and the worker's
          Bodies,       \* contents a client may send
          Tables,       \* tables of rows derived from a trace
          Endpoints,    \* the endpoints the clients call
          MaxDeletions, \* bound: tombstones of one trace
          None          \* no row, no request

ASSUME StoreAssumption ==
  /\ MaxDeletions \in Nat
  /\ None \notin Bodies

VARIABLES metadata,     \* trace_metadata
          spanRows,     \* trace_spans
          searchDocs,   \* trace_search_fts
          diagnostics,  \* ingest_diagnostics
          derivedRows,  \* trace_dimensions, code_contexts, scores, ...
          exampleRows,  \* dataset_examples
          evalResults,  \* eval_results
          payloads,     \* payload_objects, one for each trace
          evidence,     \* the ids review tasks, links and packs cite
          requests,     \* the requests in flight
          deletions,    \* ghost: tombstones committed, by trace
          strays        \* ghost: spans that left a trace it was not indexed since

vars == <<metadata, spanRows, searchDocs, diagnostics, derivedRows,
          exampleRows, evalResults, payloads, evidence, requests, deletions,
          strays>>

Eras == 0 .. MaxDeletions

\* The spans whose row names the trace.
SpansOf(t) == {s \in Spans : spanRows[s] # None /\ spanRows[s].trace = t}

\* The body the tombstone leaves: no tags, no attributes, a fixed summary.
Scrubbed == None

TraceRow == [status : {"live", "deleted"}, body : Bodies \union {Scrubbed},
             labelled : BOOLEAN, revived : BOOLEAN]
SpanRow == [trace : Traces, body : Bodies, event : BOOLEAN, era : Eras,
            revived : BOOLEAN]
ExampleRow == [trace : Traces, era : Eras]
PayloadRow == [stored : BOOLEAN, deleted : BOOLEAN, era : Eras]

\* A deleted example keeps its id: new_id never hands it out again.
Gone == [trace |-> None]

\* What _index_trace concatenates: the trace's row and the rows of its spans.
Document(m, sp, t) ==
  [trace |-> m[t],
   spans |-> [s \in Spans |-> IF sp[s] # None /\ sp[s].trace = t THEN sp[s] ELSE None]]

\* The absence of a row is none of the rows.
ASSUME NoneAssumption ==
  /\ None \notin TraceRow
  /\ None \notin SpanRow
  /\ None \notin [trace : TraceRow \union {None}, spans : [Spans -> SpanRow \union {None}]]

Request ==
       [step : {"get_span", "upsert_span"}, trace : Traces, span : Spans,
        body : Bodies, event : BOOLEAN, copied : Eras \union {None}, revived : BOOLEAN]
  \union
       [step : {"diagnose"}, trace : Traces, span : Spans, body : Bodies,
        event : BOOLEAN, copied : Eras \union {None}, revived : BOOLEAN,
        existing : SpanRow]
  \union
       [step : {"label"}, trace : Traces, row : TraceRow, copied : Eras]
  \union
       [step : {"confirm", "insert_example"}, trace : Traces]
  \union
       [step : {"insert_derived"}, trace : Traces, table : Tables]
  \union
       [step : {"record_result"}, example : Examples, trace : Traces]
  \union
       [step : {"tombstone"}, trace : Traces, spanIds : SUBSET Spans,
        exampleIds : SUBSET Examples]

Init ==
  /\ metadata = [t \in Traces |-> None]
  /\ spanRows = [s \in Spans |-> None]
  /\ searchDocs = [t \in Traces |-> None]
  /\ diagnostics = {}
  /\ derivedRows = {}
  /\ exampleRows = [e \in Examples |-> None]
  /\ evalResults = {}
  /\ payloads = [t \in Traces |-> None]
  /\ evidence = {}
  /\ requests = [r \in Requests |-> None]
  /\ deletions = [t \in Traces |-> 0]
  /\ strays = {}

\* Fault: the document is built from the rows as they were before the write.
ReindexBeforeWrite(m, sp, t) == [searchDocs EXCEPT ![t] = Document(metadata, spanRows, t)]

\* _index_trace replaces the trace's document, in the transaction of the write.
Reindex(m, sp, t) == [searchDocs EXCEPT ![t] = Document(m, sp, t)]

\* A write of the document drops the text of the spans that had left the trace.
Rewritten(t) == {x \in strays : x[1] # t}

\* Fault: no 404 for an unknown trace.
AnyTrace(t) == TRUE

\* get_trace finds the trace, be it a tombstone.
Known(t) == metadata[t] # None

At(r, step) == requests[r] # None /\ requests[r].step = step
Begin(r, endpoint, request) ==
  /\ endpoint \in Endpoints
  /\ requests[r] = None
  /\ requests' = [requests EXCEPT ![r] = request]
Finish(r) == requests' = [requests EXCEPT ![r] = None]

-----------------------------------------------------------------------------
(* Ingest. *)

\* upsert_trace is one write transaction: the row, then its search document.
IngestTrace(t, b) ==
  /\ "ingest_trace" \in Endpoints
  /\ metadata' = [metadata EXCEPT ![t] =
       [status |-> "live", body |-> b, labelled |-> FALSE, revived |-> FALSE]]
  /\ searchDocs' = Reindex(metadata', spanRows, t)
  /\ strays' = Rewritten(t)
  /\ UNCHANGED <<spanRows, diagnostics, derivedRows, exampleRows, evalResults,
                 payloads, evidence, requests, deletions>>

\* The client says which trace the span is of.
IngestSpan(r, t, s, b) ==
  /\ Begin(r, "ingest_span",
           [step |-> "get_span", trace |-> t, span |-> s, body |-> b, event |-> FALSE,
            copied |-> None, revived |-> FALSE])
  /\ UNCHANGED <<metadata, spanRows, searchDocs, diagnostics, derivedRows,
                 exampleRows, evalResults, payloads, evidence, deletions, strays>>

\* append_event reads the span, appends to the copy and upserts the copy: it
\* goes by the span id, and the trace is the one the row named.
AppendEvent(r, s) ==
  /\ spanRows[s] # None
  /\ Begin(r, "append_event",
           [step |-> "get_span", trace |-> spanRows[s].trace, span |-> s,
            body |-> spanRows[s].body, event |-> TRUE,
            copied |-> deletions[spanRows[s].trace], revived |-> spanRows[s].revived])
  /\ UNCHANGED <<metadata, spanRows, searchDocs, diagnostics, derivedRows,
                 exampleRows, evalResults, payloads, evidence, deletions, strays>>

\* Fault: every upsert is taken for a duplicate.
AlwaysDuplicate(s) == TRUE

\* The span is stored already.
IsDuplicate(s) == spanRows[s] # None

\* upsert_span looks for the row it is about to overwrite ...
GetSpan(r) ==
  /\ At(r, "get_span")
  /\ LET q == requests[r] IN
       requests' = [requests EXCEPT ![r] =
         IF ~IsDuplicate(q.span)
         THEN [q EXCEPT !.step = "upsert_span"]
         ELSE [step |-> "diagnose", trace |-> q.trace, span |-> q.span,
               body |-> q.body, event |-> q.event, copied |-> q.copied,
               revived |-> q.revived, existing |-> spanRows[q.span]]]
  /\ UNCHANGED <<metadata, spanRows, searchDocs, diagnostics, derivedRows,
                 exampleRows, evalResults, payloads, evidence, deletions, strays>>

\* ... keeps a copy of it, body included, in ingest_diagnostics ...
RecordDiagnostic(r) ==
  /\ At(r, "diagnose")
  /\ LET q == requests[r] IN
       /\ diagnostics' = diagnostics \union
            {[trace |-> q.trace, span |-> q.span, era |-> deletions[q.trace],
              existing |-> q.existing]}
       /\ requests' = [requests EXCEPT ![r] =
            [step |-> "upsert_span", trace |-> q.trace, span |-> q.span,
             body |-> q.body, event |-> q.event, copied |-> q.copied,
             revived |-> q.revived]]
  /\ UNCHANGED <<metadata, spanRows, searchDocs, derivedRows, exampleRows,
                 evalResults, payloads, evidence, deletions, strays>>

\* ... and overwrites it, whether or not it is still there.  The trace the row
\* names now is indexed; the one it may have named before is not.
UpsertSpan(r) ==
  /\ At(r, "upsert_span")
  /\ LET q == requests[r]
         t == q.trace
     IN /\ spanRows' = [spanRows EXCEPT ![q.span] =
             [trace |-> t, body |-> q.body, event |-> q.event, era |-> deletions[t],
              revived |-> q.revived \/ (q.copied # None /\ q.copied # deletions[t])]]
        /\ searchDocs' = Reindex(metadata, spanRows', t)
        /\ strays' = Rewritten(t) \union
             {<<u, q.span>> : u \in {v \in Traces \ {t} : q.span \in SpansOf(v)}}
  /\ Finish(r)
  /\ UNCHANGED <<metadata, diagnostics, derivedRows, exampleRows, evalResults,
                 payloads, evidence, deletions>>

\* A second put of a payload restores its storage_uri and keeps deleted_at.
PutPayload(t) ==
  /\ "put_payload" \in Endpoints
  /\ payloads' = [payloads EXCEPT ![t] =
       [stored |-> TRUE, era |-> deletions[t],
        deleted |-> payloads[t] # None /\ payloads[t].deleted]]
  /\ UNCHANGED <<metadata, spanRows, searchDocs, diagnostics, derivedRows,
                 exampleRows, evalResults, evidence, requests, deletions, strays>>

-----------------------------------------------------------------------------
(* Requests that read the trace first and write rows about it later. *)

LabelTrace(r, t) ==
  /\ metadata[t] # None
  /\ Begin(r, "label",
           [step |-> "label", trace |-> t, copied |-> deletions[t],
            row |-> [metadata[t] EXCEPT !.labelled = TRUE]])
  /\ UNCHANGED <<metadata, spanRows, searchDocs, diagnostics, derivedRows,
                 exampleRows, evalResults, payloads, evidence, deletions, strays>>

\* The copy goes through upsert_trace with the status it was read with.
UpsertLabelled(r) ==
  /\ At(r, "label")
  /\ LET q == requests[r]
         t == q.trace
     IN /\ metadata' = [metadata EXCEPT ![t] =
             [q.row EXCEPT !.revived = \/ q.row.revived
                                       \/ /\ q.row.status = "live"
                                          /\ q.copied # deletions[t]]]
        /\ searchDocs' = Reindex(metadata', spanRows, t)
        /\ strays' = Rewritten(t)
        /\ requests' = [requests EXCEPT ![r] = [step |-> "confirm", trace |-> t]]
  /\ UNCHANGED <<spanRows, diagnostics, derivedRows, exampleRows, evalResults,
                 payloads, evidence, deletions>>

\* One transaction deletes the confirmed matches and inserts the new one.
ConfirmMatch(r) ==
  /\ At(r, "confirm")
  /\ LET t == requests[r].trace IN
       derivedRows' =
         {x \in derivedRows : ~(x.table = "behavior_matches" /\ x.trace = t)}
           \union {[table |-> "behavior_matches", trace |-> t, era |-> deletions[t]]}
  /\ Finish(r)
  /\ UNCHANGED <<metadata, spanRows, searchDocs, diagnostics, exampleRows,
                 evalResults, payloads, evidence, deletions, strays>>

\* add_trace_dimension, upsert_code_context, and the judge and grounding runs
\* answer 404 for an unknown trace, and insert their rows when they are done.
ReadForDerived(r, t, table) ==
  /\ Known(t)
  /\ Begin(r, "derive", [step |-> "insert_derived", trace |-> t, table |-> table])
  /\ UNCHANGED <<metadata, spanRows, searchDocs, diagnostics, derivedRows,
                 exampleRows, evalResults, payloads, evidence, deletions, strays>>

InsertDerived(r) ==
  /\ At(r, "insert_derived")
  /\ LET q == requests[r] IN
       derivedRows' = derivedRows \union
         {[table |-> q.table, trace |-> q.trace, era |-> deletions[q.trace]]}
  /\ Finish(r)
  /\ UNCHANGED <<metadata, spanRows, searchDocs, diagnostics, exampleRows,
                 evalResults, payloads, evidence, deletions, strays>>

AddTraceToDataset(r, t) ==
  /\ Known(t)
  /\ Begin(r, "add_to_dataset", [step |-> "insert_example", trace |-> t])
  /\ UNCHANGED <<metadata, spanRows, searchDocs, diagnostics, derivedRows,
                 exampleRows, evalResults, payloads, evidence, deletions, strays>>

InsertExample(r) ==
  /\ At(r, "insert_example")
  /\ \E e \in Examples :
       /\ exampleRows[e] = None
       /\ exampleRows' = [exampleRows EXCEPT ![e] =
            [trace |-> requests[r].trace, era |-> deletions[requests[r].trace]]]
  /\ Finish(r)
  /\ UNCHANGED <<metadata, spanRows, searchDocs, diagnostics, derivedRows,
                 evalResults, payloads, evidence, deletions, strays>>

\* An eval run lists the examples of a dataset version and, the judges awaited
\* in between, records a result for each.
EvaluateExample(r, e) ==
  /\ exampleRows[e] \notin {None, Gone}
  /\ Begin(r, "evaluate",
           [step |-> "record_result", example |-> e, trace |-> exampleRows[e].trace])
  /\ UNCHANGED <<metadata, spanRows, searchDocs, diagnostics, derivedRows,
                 exampleRows, evalResults, payloads, evidence, deletions, strays>>

RecordEvalResult(r) ==
  /\ At(r, "record_result")
  /\ LET q == requests[r] IN
       evalResults' = evalResults \union
         {[example |-> q.example, trace |-> q.trace, era |-> deletions[q.trace]]}
  /\ Finish(r)
  /\ UNCHANGED <<metadata, spanRows, searchDocs, diagnostics, derivedRows,
                 exampleRows, payloads, evidence, deletions, strays>>

\* create_review_task stores the evidence ids it is given; a span is cited as
\* evidence about its trace.
Cite(id, t) ==
  /\ "cite" \in Endpoints
  /\ evidence' = evidence \union {[id |-> id, trace |-> t, era |-> deletions[t]]}
  /\ UNCHANGED <<metadata, spanRows, searchDocs, diagnostics, derivedRows,
                 exampleRows, evalResults, payloads, requests, deletions, strays>>

-----------------------------------------------------------------------------
(* The tombstone: DELETE /traces/{id}, and each candidate of a retention run. *)

\* Fault: the loop over the tables leaves behavior_matches out.
ScrubAllButMatches(t) ==
  {x \in derivedRows : x.trace # t \/ x.table = "behavior_matches"}

\* The DELETEs by trace id.
ScrubDerived(t) == {x \in derivedRows : x.trace # t}

\* get_trace, and the two SELECTs that precede the first DELETE.
StartTombstone(r, t) ==
  /\ Known(t)
  /\ Begin(r, "tombstone",
           [step |-> "tombstone", trace |-> t,
            spanIds |-> SpansOf(t),
            exampleIds |-> {e \in Examples : /\ exampleRows[e] \notin {None, Gone}
                                             /\ exampleRows[e].trace = t}])
  /\ UNCHANGED <<metadata, spanRows, searchDocs, diagnostics, derivedRows,
                 exampleRows, evalResults, payloads, evidence, deletions, strays>>

\* The write transaction.  Results and citations go by the ids read before it.
CommitTombstone(r) ==
  /\ At(r, "tombstone")
  /\ LET q == requests[r]
         t == q.trace
     IN /\ deletions[t] < MaxDeletions
        /\ deletions' = [deletions EXCEPT ![t] = @ + 1]
        /\ evalResults' = {x \in evalResults : x.example \notin q.exampleIds}
        /\ derivedRows' = ScrubDerived(t)
        /\ exampleRows' = [e \in Examples |->
             IF exampleRows[e] \notin {None, Gone} /\ exampleRows[e].trace = t
             THEN Gone ELSE exampleRows[e]]
        /\ spanRows' = [s \in Spans |-> IF s \in SpansOf(t) THEN None ELSE spanRows[s]]
        /\ payloads' = IF payloads[t] = None THEN payloads
             ELSE [payloads EXCEPT ![t] = [stored |-> FALSE, deleted |-> TRUE,
                                           era |-> deletions'[t]]]
        /\ evidence' = {x \in evidence : x.id \notin {t} \union q.spanIds}
        /\ metadata' = [metadata EXCEPT ![t] =
             [status |-> "deleted", body |-> Scrubbed, labelled |-> FALSE,
              revived |-> FALSE]]
        /\ searchDocs' = [searchDocs EXCEPT ![t] = None]
        /\ strays' = Rewritten(t)
  /\ Finish(r)
  /\ UNCHANGED diagnostics

\* A request dies between two of its transactions: the process stopped, or a
\* statement waited longer than SQLite's busy timeout.
Abort(r) ==
  /\ requests[r] # None
  /\ Finish(r)
  /\ UNCHANGED <<metadata, spanRows, searchDocs, diagnostics, derivedRows,
                 exampleRows, evalResults, payloads, evidence, deletions, strays>>

-----------------------------------------------------------------------------
Step(r) ==
  \/ \E t \in Traces, s \in Spans, b \in Bodies : IngestSpan(r, t, s, b)
  \/ \E s \in Spans : AppendEvent(r, s)
  \/ GetSpan(r) \/ RecordDiagnostic(r) \/ UpsertSpan(r)
  \/ \E t \in Traces : LabelTrace(r, t)
  \/ UpsertLabelled(r) \/ ConfirmMatch(r)
  \/ \E t \in Traces, table \in Tables : ReadForDerived(r, t, table)
  \/ InsertDerived(r)
  \/ \E t \in Traces : AddTraceToDataset(r, t)
  \/ InsertExample(r)
  \/ \E e \in Examples : EvaluateExample(r, e)
  \/ RecordEvalResult(r)
  \/ \E t \in Traces : StartTombstone(r, t)
  \/ CommitTombstone(r)
  \/ Abort(r)

Next ==
  \/ \E r \in Requests : Step(r)
  \/ \E t \in Traces, b \in Bodies : IngestTrace(t, b)
  \/ \E t \in Traces : PutPayload(t)
  \/ \E t \in Traces : Cite(t, t)
  \/ \E s \in Spans, t \in Traces : Cite(s, t)

Spec == Init /\ [][Next]_vars

-----------------------------------------------------------------------------
TypeOK ==
  /\ metadata \in [Traces -> TraceRow \union {None}]
  /\ spanRows \in [Spans -> SpanRow \union {None}]
  /\ derivedRows \subseteq [table : Tables \union {"behavior_matches"},
                            trace : Traces, era : Eras]
  /\ exampleRows \in [Examples -> ExampleRow \union {None, Gone}]
  /\ evalResults \subseteq [example : Examples, trace : Traces, era : Eras]
  /\ payloads \in [Traces -> PayloadRow \union {None}]
  /\ evidence \subseteq [id : Traces \union Spans, trace : Traces, era : Eras]
  /\ diagnostics \subseteq [trace : Traces, span : Spans, era : Eras, existing : SpanRow]
  /\ requests \in [Requests -> Request \union {None}]
  /\ deletions \in [Traces -> Eras]
  /\ strays \subseteq Traces \X Spans
  /\ DOMAIN searchDocs = Traces

\* Full-text search answers from what is stored, but for the spans that were
\* sent again under another trace: the document of a trace has the trace's
\* present row, the present row of each of its spans, and beyond these at most
\* the text of spans that left it since it was last written; a trace without a
\* document has no spans and no row but its tombstone.  Every write of
\* trace_metadata or trace_spans has to re-index in its own transaction for
\* this to hold between any two transactions of any two requests.
IndexCoherent ==
  \A t \in Traces :
    IF searchDocs[t] = None
    THEN /\ SpansOf(t) = {}
         /\ metadata[t] = None \/ metadata[t].status = "deleted"
    ELSE /\ searchDocs[t].trace = metadata[t]
         /\ \A s \in Spans :
              IF s \in SpansOf(t)
              THEN searchDocs[t].spans[s] = spanRows[s]
              ELSE searchDocs[t].spans[s] # None => <<t, s>> \in strays

\* Nothing committed before a trace's last tombstone survives it in the tables
\* the tombstone scrubs by trace id, however the requests that write those
\* tables overlap it: what is there was written afterwards.
SurvivorsAreNewer ==
  /\ \A s \in Spans :
       spanRows[s] # None => spanRows[s].era = deletions[spanRows[s].trace]
  /\ \A x \in derivedRows : x.era = deletions[x.trace]
  /\ \A e \in Examples :
       exampleRows[e] \notin {None, Gone} =>
         exampleRows[e].era = deletions[exampleRows[e].trace]
  /\ \A t \in Traces :
       payloads[t] # None /\ payloads[t].stored => payloads[t].era = deletions[t]
  /\ \A x \in evidence : x.id = x.trace => x.era = deletions[x.trace]

\* A label, a derived row or a dataset example is about a trace the store
\* knows, though it is written in a later transaction than the one that looked
\* the trace up: trace_metadata rows are tombstoned and never deleted.
RowsHaveTheirTrace ==
  /\ \A x \in derivedRows : metadata[x.trace] # None
  /\ \A e \in Examples :
       exampleRows[e] \notin {None, Gone} => metadata[exampleRows[e].trace] # None
  /\ \A t \in Traces : deletions[t] > 0 => metadata[t] # None

-----------------------------------------------------------------------------
(* What the documents promise of a deletion and the code does not keep. *)

\* A deletion retains no payload content (governance/SECURITY.md:26): the
\* bodies of the trace's spans are gone from every table.  ingest_diagnostics
\* keeps the body a duplicate span_id replaced, and no deletion visits it.
DiagnosticsScrubbed == \A d \in diagnostics : d.era = deletions[d.trace]

\* The same sentence, of full-text search: a trace is found by the text of spans
\* that are stored.  A span that moved to another trace and was deleted there is
\* still found under the trace it left.
SearchedTextIsStored ==
  \A t \in Traces, s \in Spans :
    None \notin {metadata[t], searchDocs[t]} /\ searchDocs[t].spans[s] # None
    => spanRows[s] # None

\* A tombstone removes the trace from eval results (IMPLEMENTATION_PROGRESS.md:867).
\* It deletes those of the example ids it read before its transaction began.
EvalResultsScrubbed == \A x \in evalResults : x.era = deletions[x.trace]

\* A deletion leaves a tombstone (IMPLEMENTATION_PROGRESS.md:840): what it
\* removed does not come back unless a client sends it again.  The label and
\* the event handlers write back the whole row they read.
DeletionIsFinal ==
  /\ \A t \in Traces : metadata[t] # None => ~metadata[t].revived
  /\ \A s \in Spans : spanRows[s] # None => ~spanRows[s].revived
=============================================================================
