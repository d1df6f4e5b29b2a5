---------------------------- MODULE MCTraceStore ----------------------------
(* Small instances of TraceStore for TLC. *)
EXTENDS TraceStore, TLC

CONSTANTS t1, t2, s1, e1, e2, r1, r2, b1

VARIABLE about

RequestSymmetry == Permutations(Requests)

Content == {"get_span", "diagnose", "upsert_span", "label", "confirm", "tombstone"}
Moves == {"get_span", "diagnose", "upsert_span", "tombstone"}
RowsOnly == {"label", "confirm", "insert_derived", "insert_example", "record_result", "tombstone"}
Steps == {requests'[r].step : r \in {q \in Requests : requests'[q] # None}}

\* Nothing happens to the trace.
Untouched(t) ==
  /\ metadata'[t] = None
  /\ payloads'[t] = None
  /\ \A s \in Spans : spanRows'[s] # None => spanRows'[s].trace # t
  /\ \A r \in Requests :
       /\ requests'[r] # None
       /\ requests'[r].step \in {"get_span", "diagnose", "upsert_span"}
       => requests'[r].trace # t

RowsUntouched == UNCHANGED <<exampleRows, evalResults, payloads>>

\* A behavior is about the spans, events and search document of a trace and one
\* deletion, or about a span that moves between two traces and one deletion, or
\* about the rows that name a trace and two deletions of it.
ContentAside ==
  /\ Steps \subseteq Content
  /\ RowsUntouched
  /\ \A t \in Traces \ {t1} : Untouched(t)
  /\ \A x \in evidence' : x.id = s1 /\ x.trace = t1 /\ x.era = 0
  /\ evidence' # evidence => requests = [r \in Requests |-> None]
  /\ deletions'[t1] <= 1
MovesAside ==
  /\ Steps \subseteq Moves
  /\ RowsUntouched
  /\ UNCHANGED evidence
  /\ \A s \in Spans : spanRows'[s] # None => ~spanRows'[s].event
  /\ Cardinality(diagnostics') <= 1
  /\ \E t \in Traces : deletions'[t] <= 1 /\ \A u \in Traces \ {t} : deletions'[u] = 0
RowsAside ==
  /\ Steps \subseteq RowsOnly
  /\ spanRows' = spanRows
  /\ \A t \in Traces \ {t1} : Untouched(t)
  /\ \A x \in evidence' : x.id = t1 /\ x.trace = t1

StoreInit == Init /\ about \in {"content", "moves", "rows"}
StoreNext ==
  /\ Next
  /\ about' = about
  /\ CASE about = "content" -> ContentAside
       [] about = "moves" -> MovesAside
       [] about = "rows" -> RowsAside
StoreSpec == StoreInit /\ [][StoreNext]_<<about, vars>>
=============================================================================
