----------------------------- MODULE SdkExport ------------------------------
(***************************************************************************)
(* The Python SDK's HttpExporter and the batch endpoint it posts to.       *)
(*                                                                         *)
(* The end of a span exports the span and, for a root span, its trace; the *)
(* exporter buffers both, drops when the buffer is full, and empties it    *)
(* when a flush succeeds.  Nothing in it takes a lock, so the threads of   *)
(* the application interleave between the check for room, each step of the *)
(* scan for an item to evict, the pop, the entry in dropped_items and the  *)
(* append, and between the post of a flush and the clearing of the lists.  *)
(* The endpoint answers 429, or 207 with a status for each item, or fails  *)
(* half way; the client may give up on a request that the server carries   *)
(* out.                                                                    *)
(*                                                                         *)
(* Ghosts: `offered`, `reported` and `rejected` remember what export was   *)
(* given, and what the answers and the diagnostics said.                   *)
(***************************************************************************)
EXTENDS Values, Naturals, FiniteSets, Sequences, SequencesExt

CONSTANTS Threads,      \* threads of the application
          Spans,        \* spans it ends
          Roots,        \* those without a parent
          Priority,     \* of a span: see Priorities
          MaxBuffered,  \* max_buffered_items; 0 is no limit
          RetryLimit,   \* ingest_retryable_backpressure_items
          MaxFailures   \* bound: timeouts and failed requests

\* "error" is a status, which a root span shares with its trace; "keep" is an
\* attribute (openabm.keep, openabm.priority, ...), which it does not.
Priorities == {"ok", "error", "keep"}

ASSUME ExportAssumption ==
  /\ Roots \subseteq Spans
  /\ Priority \in [Spans -> Priorities]
  /\ MaxBuffered \in Nat /\ RetryLimit \in Nat /\ MaxFailures \in Nat

SpanItem(s) == [kind |-> "span", of |-> s]
TraceItem(s) == [kind |-> "trace", of |-> s]
SpanItems == {SpanItem(s) : s \in Spans}
TraceItems == {TraceItem(s) : s \in Roots}
Items == SpanItems \union TraceItems

VARIABLES spans, traces,  \* _spans and _traces
          dropped,        \* dropped_items
          threads,        \* what each thread has in hand
          late,           \* requests the client gave up on
          stored,         \* what the server has stored
          failures,       \* counts toward MaxFailures
          offered, reported, rejected  \* ghosts

vars == <<spans, traces, dropped, threads, late, stored, failures,
          offered, reported, rejected>>
server == <<late, stored, failures>>
history == <<offered, reported, rejected>>

Init ==
  /\ spans = <<>> /\ traces = <<>> /\ dropped = {}
  /\ threads = [th \in Threads |-> None]
  /\ late = {} /\ stored = {} /\ failures = 0
  /\ offered = {} /\ reported = {} /\ rejected = {}

\* _is_high_priority, on the payload that _export builds: a trace's attributes
\* are the tracer's, not its root span's.
IsHighPriority(item) ==
  \/ Priority[item.of] = "error"
  \/ Priority[item.of] = "keep" /\ item.kind = "span"

Count == Len(spans) + Len(traces)
Buffered == ToSet(spans) \union ToSet(traces)

\* Fault: an off-by-one.
OverFull == MaxBuffered > 0 /\ Count > MaxBuffered

Full == MaxBuffered > 0 /\ Count >= MaxBuffered

LowPriority(queue) == {n \in DOMAIN queue : ~IsHighPriority(queue[n])}

\* Fault: everything goes to one list.
QueueOfSpans(item) == "span"

QueueOf(item) == item.kind

\* Fault: no raise_for_status.
AnyAnswer(answer) == TRUE

\* raise_for_status lets 207 through, whatever it says of the items.
Succeeded(answer) == answer = "207"

\* Fault: an off-by-one.
BackpressuredAtLimit(batch) ==
  /\ RetryLimit > 0
  /\ Cardinality(batch) >= RetryLimit
  /\ \A i \in batch : ~IsHighPriority(i)

\* apply_ingest_batch_policy: a batch above the limit with nothing to keep.
Backpressured(batch) ==
  /\ RetryLimit > 0
  /\ Cardinality(batch) > RetryLimit
  /\ \A i \in batch : ~IsHighPriority(i)

-----------------------------------------------------------------------------
(* export *)

At(th, step) == threads[th] # None /\ threads[th].at = step
Goto(th, work) == threads' = [threads EXCEPT ![th] = work]
Queue(list) == IF list = "span" THEN spans ELSE traces

\* What a thread does after an item: the trace follows its root span.
After(item) ==
  IF item.kind = "span" /\ item.of \in Roots
  THEN [at |-> "trace", of |-> item.of] ELSE None

\* export up to the check for room: then the append, the search for an item to
\* evict, or the refusal of the item itself.
Offer(th, item) ==
  /\ offered' = offered \union {item}
  /\ Goto(th, IF ~Full THEN [at |-> "append", item |-> item]
              ELSE IF IsHighPriority(item)
              THEN [at |-> "scan", item |-> item, list |-> "span", index |-> 1]
              ELSE [at |-> "record", item |-> item, gone |-> item])
  /\ UNCHANGED <<spans, traces, dropped, server, reported, rejected>>

EndSpan(th, s) ==
  /\ threads[th] = None
  /\ SpanItem(s) \notin offered
  /\ Offer(th, SpanItem(s))

ExportTrace(th) ==
  /\ At(th, "trace")
  /\ Offer(th, TraceItem(threads[th].of))

\* _drop_oldest_buffered_item looks for a span of low priority, then for such a
\* trace: it looks at the item that is at the index now ...
Scan(th) ==
  /\ At(th, "scan")
  /\ LET work == threads[th]
         queue == Queue(work.list)
     IN \/ /\ work.index \in LowPriority(queue)
           /\ Goto(th, [work EXCEPT !.at = "pop"])
        \/ /\ work.index \in DOMAIN queue \ LowPriority(queue)
           /\ Goto(th, [work EXCEPT !.index = @ + 1])
        \/ /\ work.index \notin DOMAIN queue /\ work.list = "span"
           /\ Goto(th, [at |-> "scan", item |-> work.item, list |-> "trace", index |-> 1])
        \/ /\ work.index \notin DOMAIN queue /\ work.list = "trace"
           /\ Goto(th, [at |-> "choose", item |-> work.item])
  /\ UNCHANGED <<spans, traces, dropped, server, history>>

\* ... and, having found none, settles for the oldest span, else the oldest trace.
Choose(th) ==
  /\ At(th, "choose")
  /\ Goto(th, [at |-> "pop", item |-> threads[th].item, index |-> 1,
               list |-> IF spans # <<>> THEN "span" ELSE "trace"])
  /\ UNCHANGED <<spans, traces, dropped, server, history>>

\* pop takes what is at the index by now, whatever the scan saw there.  Past the
\* end of the list it raises: the item is not appended, nor its trace exported.
Pop(th) ==
  /\ At(th, "pop")
  /\ LET work == threads[th]
         queue == Queue(work.list)
     IN IF work.index \in DOMAIN queue
        THEN /\ IF work.list = "span"
                THEN spans' = RemoveAt(spans, work.index) /\ UNCHANGED traces
                ELSE traces' = RemoveAt(traces, work.index) /\ UNCHANGED spans
             /\ Goto(th, [at |-> "record", item |-> work.item, gone |-> queue[work.index]])
        ELSE Goto(th, None) /\ UNCHANGED <<spans, traces>>
  /\ UNCHANGED <<dropped, server, history>>

\* dropped_items gets the item that was refused, or the one that was evicted.
Record(th) ==
  /\ At(th, "record")
  /\ LET work == threads[th] IN
       /\ dropped' = dropped \union {work.gone}
       /\ Goto(th, IF work.gone = work.item THEN After(work.item)
                   ELSE [at |-> "append", item |-> work.item])
  /\ UNCHANGED <<spans, traces, server, history>>

AppendItem(th) ==
  /\ At(th, "append")
  /\ LET item == threads[th].item IN
       /\ IF QueueOf(item) = "span"
          THEN spans' = Append(spans, item) /\ UNCHANGED traces
          ELSE traces' = Append(traces, item) /\ UNCHANGED spans
       /\ Goto(th, After(item))
  /\ UNCHANGED <<dropped, server, history>>

-----------------------------------------------------------------------------
(* flush, and the endpoint *)

\* The lists are serialised into the request.
Post(th) ==
  /\ threads[th] = None
  /\ Buffered # {}
  /\ Goto(th, [at |-> "posted", batch |-> Buffered, diagnostics |-> dropped])
  /\ UNCHANGED <<spans, traces, dropped, server, history>>

Answered(th, answer, refused) ==
  Goto(th, [at |-> "answered", answer |-> answer, refused |-> refused,
            diagnostics |-> threads[th].diagnostics])

\* ingest_batch validates and upserts the items one by one, each in a
\* transaction and a try of its own.
IngestBatch(th) ==
  /\ At(th, "posted")
  /\ LET batch == threads[th].batch IN
       \/ /\ Backpressured(batch)
          /\ Answered(th, "429", {})
          /\ UNCHANGED stored
       \/ /\ ~Backpressured(batch)
          /\ \E accepted \in SUBSET batch :
               /\ stored' = stored \union accepted
               /\ Answered(th, "207", batch \ accepted)
  /\ UNCHANGED <<spans, traces, dropped, late, failures, history>>

\* The server stops half way, or answers with an error.
ServerFails(th) ==
  /\ At(th, "posted")
  /\ failures < MaxFailures
  /\ failures' = failures + 1
  /\ \E accepted \in SUBSET threads[th].batch : stored' = stored \union accepted
  /\ Answered(th, "5xx", {})
  /\ UNCHANGED <<spans, traces, dropped, late, history>>

\* httpx raises; the request is still on its way, or being carried out.
Timeout(th) ==
  /\ At(th, "posted")
  /\ failures < MaxFailures
  /\ failures' = failures + 1
  /\ late' = late \union {threads[th].batch}
  /\ Goto(th, None)
  /\ UNCHANGED <<spans, traces, dropped, stored, history>>

IngestLate(batch) ==
  /\ late' = late \ {batch}
  /\ \E accepted \in SUBSET batch :
       stored' = stored \union (IF Backpressured(batch) THEN {} ELSE accepted)
  /\ UNCHANGED <<spans, traces, dropped, threads, failures, history>>

\* The end of flush: the lists are cleared, be they those that were sent or not.
Return(th) ==
  /\ At(th, "answered")
  /\ LET work == threads[th] IN
       IF Succeeded(work.answer)
       THEN /\ spans' = <<>> /\ traces' = <<>> /\ dropped' = {}
            /\ reported' = reported \union work.diagnostics
            /\ rejected' = rejected \union work.refused
       ELSE UNCHANGED <<spans, traces, dropped, reported, rejected>>
  /\ Goto(th, None)
  /\ UNCHANGED <<server, offered>>

-----------------------------------------------------------------------------
Step(th) ==
  \/ ExportTrace(th) \/ Scan(th) \/ Choose(th) \/ Pop(th) \/ Record(th) \/ AppendItem(th)
  \/ Post(th) \/ IngestBatch(th) \/ Return(th)

Next ==
  \/ \E th \in Threads :
       \/ Step(th) \/ ServerFails(th) \/ Timeout(th)
       \/ \E s \in Spans : EndSpan(th, s)
  \/ \E batch \in late : IngestLate(batch)

Spec == Init /\ [][Next]_vars

\* The application flushes again and again, and the server answers.
FairSpec == Spec /\ \A th \in Threads : WF_vars(Step(th))

-----------------------------------------------------------------------------
Work ==
       [at : {"trace"}, of : Roots]
  \union
       [at : {"scan", "pop"}, item : Items, list : {"span", "trace"}, index : Nat \ {0}]
  \union
       [at : {"choose", "append"}, item : Items]
  \union
       [at : {"record"}, item : Items, gone : Items]
  \union
       [at : {"posted"}, batch : SUBSET Items, diagnostics : SUBSET Items]
  \union
       [at : {"answered"}, answer : {"207", "429", "5xx"},
        refused : SUBSET Items, diagnostics : SUBSET Items]

\* None is no work.
ASSUME IdleAssumption == None \notin Work

TypeOK ==
  /\ spans \in Seq(SpanItems)
  /\ traces \in Seq(TraceItems)
  /\ dropped \subseteq Items
  /\ threads \in [Threads -> Work \union {None}]
  /\ late \subseteq SUBSET Items
  /\ stored \subseteq Items
  /\ failures \in 0 .. MaxFailures
  /\ offered \subseteq Items /\ reported \subseteq Items /\ rejected \subseteq Items

\* The buffer never exceeds its limit by more than the threads that can be
\* between the check and the append; with one thread it never exceeds it.
BufferBounded ==
  MaxBuffered > 0 => Count + 1 <= MaxBuffered + Cardinality(Threads)

\* An item in a thread's hands: on its way to the buffer, or taken out of it and
\* not on record yet.
InHand ==
  {threads[th].item : th \in {u \in Threads :
     threads[u] # None /\ threads[u].at \in {"scan", "choose", "pop", "record", "append"}}}
  \union {threads[th].gone : th \in {u \in Threads : At(u, "record")}}

Fate(i) ==
  CASE i \in stored -> "stored"
    [] i \notin stored /\ i \in Buffered \union InHand -> "pending"
    [] i \notin stored \union Buffered \union InHand /\ i \in rejected -> "rejected"
    [] i \notin stored \union Buffered \union InHand \union rejected
         /\ i \in dropped \union reported -> "dropped"
    [] i \notin offered -> "unsent"
    [] OTHER -> "lost"

Promise == INSTANCE Delivery WITH fate <- [i \in Items |-> Fate(i)]

\* A single-threaded application loses nothing silently: the exporter
\* implements the abstract delivery, through full buffers, refused batches,
\* requests that fail half way and requests carried out after their timeout.
DeliveryPromise == Promise!Spec

\* A buffered item does not stay in the buffer for good.
Drains == \A i \in Items : (i \in Buffered) ~> (i \notin Buffered)

-----------------------------------------------------------------------------
(* What the documents say of the exporter, beyond what it does. *)

\* "SDK buffering remains bounded while preserving high-priority items"
\* (IMPLEMENTATION_PROGRESS.md:1089): an item of high priority is stored,
\* waits, or is on record as dropped or rejected.
HighPriorityKept == \A i \in Items : IsHighPriority(i) => Fate(i) # "lost"

\* The same sentence: an item of high priority is dropped only when everything
\* buffered is of high priority too.  With two threads, one of low priority may
\* come after the scan, or another item be at the index when it is popped.
LowGoesFirst ==
  [][\A i \in dropped' \ dropped :
       IsHighPriority(i) => \A k \in Buffered : IsHighPriority(k)]_vars

\* export does not raise (a full buffer is what dropped_items is for).  With two
\* threads, a flush may clear the list between the scan and the pop.
EvictionFindsItsItem ==
  \A th \in Threads : At(th, "pop") => threads[th].index \in DOMAIN Queue(threads[th].list)
=============================================================================
