---------------------------- MODULE SpanFidelity -----------------------------
(***************************************************************************)
(* What a span keeps on its way from the application into the store.       *)
(*                                                                         *)
(* The tracer decides at the root of a trace whether it is sampled; its    *)
(* children, and the processes its baggage reaches, follow.  An export,    *)
(* partial or final, leaves out payloads and events; the endpoint leaves   *)
(* out more of them, and less of what has priority.  The exporter sends    *)
(* its buffer again when a request failed or was given up, so that an      *)
(* older request may be carried out after a newer one.                     *)
(*                                                                         *)
(* A process has one thread (SdkExport has several, and the limit of the   *)
(* buffer).  A span has one payload of some size.  Items that the server   *)
(* refuses are left to SdkExport.                                          *)
(***************************************************************************)
EXTENDS Values, Naturals, FiniteSets, SequencesExt

CONSTANTS Processes,     \* processes of the application
          TracedSpans,   \* span ids
          TraceIds,      \* trace ids
          Bucket,        \* the bucket a trace id falls into
          SdkLimits,     \* the sampling a tracer may be configured with
          ServerLimits,  \* the settings the endpoint may have
          MaxSpanEvents, MaxPartials, MaxGiveUps  \* bounds

\* A span of the application; its attributes tell whether to keep it, its size is that
\* of its input.
SpanRecord ==
  [process : Processes, trace : TraceIds, sampled : BOOLEAN, root : BOOLEAN, keep : BOOLEAN,
   size : Nat, status : {"unknown", "ok", "error"}, exports : Nat,
   events : Seq([kind : {"stream", "step", "exception"}, stream : {0}, other : {0}])]

ASSUME FidelityAssumption ==
  /\ Bucket \in [TraceIds -> Nat]
  /\ \A limits \in SdkLimits : limits.capture \in BOOLEAN
  /\ \A limits \in SdkLimits \union ServerLimits : {limits.events, limits.stream} \subseteq Nat
  /\ {MaxSpanEvents, MaxPartials, MaxGiveUps} \subseteq Nat
  /\ None \notin SpanRecord

VARIABLES sdk,        \* SamplingConfig; 0 is no limit
          settings,   \* of the endpoint
          recorded,   \* the spans of the application; None: not started
          carriers,   \* baggage on its way to other processes
          outbox,     \* each process: the exports in its buffer
          posted,     \* each process: the request it waits for
          abandoned,  \* requests given up on, still carried out
          spanRows,   \* trace_spans
          giveUps     \* counts toward MaxGiveUps

fidelityVars == <<sdk, settings, recorded, carriers, outbox, posted, abandoned, spanRows, giveUps>>
application == <<recorded, carriers>>
endpoint == <<abandoned, spanRows, giveUps>>

\* A process that waits for no request.
NoRequest == [at |-> "idle", items |-> <<>>]
Free(p) == posted[p] = NoRequest

FidelityInit ==
  /\ sdk \in SdkLimits /\ settings \in ServerLimits
  /\ recorded = [s \in TracedSpans |-> None]
  /\ carriers = {}
  /\ outbox = [p \in Processes |-> <<>>]
  /\ posted = [p \in Processes |-> NoRequest]
  /\ abandoned = {}
  /\ spanRows = [s \in TracedSpans |-> None]
  /\ giveUps = 0

-----------------------------------------------------------------------------
(* Sampling of events and payloads, in the SDK and in the endpoint. *)

StreamsBefore(events, k) == Cardinality({j \in 1 .. k - 1 : events[j].kind = "stream"})

\* The events at these positions, in their order.
EventsAt(events, positions) ==
  [n \in 1 .. Cardinality(positions) |->
     events[CHOOSE k \in positions : Cardinality({j \in positions : j <= k}) = n]]

StreamKept(events, rate) ==
  EventsAt(events, {k \in DOMAIN events : \/ rate <= 1 \/ events[k].kind # "stream"
                                          \/ StreamsBefore(events, k) % rate = 0})

\* The first and the last of the events, the last of them when one is allowed.
CappedEvents(events, max) ==
  IF max = 0 \/ Len(events) <= max THEN events
  ELSE LET head == max \div 2
       IN SubSeq(events, 1, head) \o SubSeq(events, Len(events) - (max - head) + 1, Len(events))

Event(kind) == [kind |-> kind, stream |-> 0, other |-> 0]
Omission(stream, other) == [kind |-> "omitted", stream |-> stream, other |-> other]

\* Fault: the marker is there before the cap.
MarkedThenCapped(events, limits) ==
  LET kept == StreamKept(events, limits.stream)
      capped == CappedEvents(kept, limits.events)
  IN IF Len(capped) = Len(events) THEN events
     ELSE CappedEvents(Append(kept, Omission(Len(events) - Len(kept), Len(kept) - Len(capped))),
                       limits.events)

SampledEvents(events, limits) ==
  LET kept == StreamKept(events, limits.stream)
      capped == CappedEvents(kept, limits.events)
  IN IF Len(capped) = Len(events) THEN events
     ELSE Append(capped, Omission(Len(events) - Len(kept), Len(kept) - Len(capped)))

Fits(size, limits) == limits.bytes = 0 \/ size <= limits.bytes

\* _preserve_full_fidelity; is_high_priority_span. "error" is any of ALWAYS_KEEP_STATUSES,
\* and "keep" any of the attributes that ask for it.
KeptInAnyCase(span) == span.status = "error" \/ span.keep

-----------------------------------------------------------------------------
(* Spans, in the application. *)

TraceIsSampled(t, keep) == keep \/ Bucket[t] < sdk.rate

NewSpan(p, t, sampled, root, keep, size) ==
  [process |-> p, trace |-> t, sampled |-> sampled, root |-> root, keep |-> keep, size |-> size,
   status |-> "unknown", events |-> <<>>, exports |-> 0]

Begin(s, span) ==
  /\ recorded[s] = None /\ Free(span.process)
  /\ recorded' = [recorded EXCEPT ![s] = span]
  /\ UNCHANGED <<sdk, settings, carriers, outbox, posted, endpoint>>

Used == {recorded[s].trace : s \in {r \in TracedSpans : recorded[r] # None}}

StartTrace(p, s, t, keep, size) ==
  /\ t \notin Used
  /\ Begin(s, NewSpan(p, t, TraceIsSampled(t, keep), TRUE, keep, size))

Open(s) == recorded[s] # None /\ recorded[s].status = "unknown"

ParentDecision(parent, keep) == parent.sampled

StartChild(s, parent, keep, size) ==
  /\ Open(parent)
  /\ LET span == recorded[parent] IN
       Begin(s, NewSpan(span.process, span.trace, ParentDecision(span, keep), FALSE, keep, size))

\* inject_baggage; "none" when what carries it drops the decision.
Inject(s, stripped) ==
  /\ Open(s) /\ Free(recorded[s].process)
  /\ carriers' = carriers \union
       {[trace |-> recorded[s].trace,
         sampled |-> IF stripped THEN "none" ELSE IF recorded[s].sampled THEN "true" ELSE "false"]}
  /\ UNCHANGED <<sdk, settings, recorded, outbox, posted, endpoint>>

\* Fault: what the baggage says is not asked.
HashDecision(carrier, keep) == TraceIsSampled(carrier.trace, keep)

BaggageDecision(carrier, keep) ==
  IF carrier.sampled = "none" THEN TraceIsSampled(carrier.trace, keep) ELSE carrier.sampled = "true"

ContinueFromBaggage(p, s, carrier, keep, size) ==
  Begin(s, NewSpan(p, carrier.trace, BaggageDecision(carrier, keep), FALSE, keep, size))

AddEvent(s, kind) ==
  /\ Open(s) /\ Free(recorded[s].process)
  /\ Len(recorded[s].events) < MaxSpanEvents
  /\ recorded' = [recorded EXCEPT ![s].events = Append(@, Event(kind))]
  /\ UNCHANGED <<sdk, settings, carriers, outbox, posted, endpoint>>

\* _sample_events: all of the events when the trace is not sampled.
SdkEvents(span, events) ==
  IF KeptInAnyCase(span) \/ events = <<>> THEN events
  ELSE IF span.sampled THEN SampledEvents(events, sdk)
  ELSE <<Omission(0, Len(events))>>

\* _payload
SdkPayload(span) ==
  sdk.capture /\ (KeptInAnyCase(span) \/ (span.sampled /\ Fits(span.size, sdk)))

\* _export: a partial flush of an open span has the status "incomplete". `all` is what
\* there was to say, and `pressed` what the endpoint adds.
ExportOf(s, span, partial) ==
  LET events == IF partial THEN Append(span.events, Event("partial")) ELSE span.events
      sampled == SdkEvents(span, events)
  IN [span |-> s, trace |-> span.trace, root |-> span.root, keep |-> span.keep, size |-> span.size,
      sampled |-> span.sampled, partial |-> partial, number |-> span.exports + 1,
      status |-> IF partial /\ span.status = "unknown" THEN "incomplete" ELSE span.status,
      payload |-> SdkPayload(span), all |-> Len(events), pressed |-> FALSE,
      events |-> IF partial /\ \A k \in DOMAIN sampled : sampled[k].kind # "partial"
                 THEN Append(sampled, Event("partial")) ELSE sampled]

\* Fault: the newest export is sent first.
Stacked(buffer, export) == <<export>> \o buffer

Queued(buffer, export) == Append(buffer, export)

Export(s, span, partial) ==
  /\ Free(span.process)
  /\ recorded' = [recorded EXCEPT ![s] = [span EXCEPT !.exports = @ + 1]]
  /\ outbox' = [outbox EXCEPT ![span.process] = Queued(@, ExportOf(s, span, partial))]
  /\ UNCHANGED <<sdk, settings, carriers, posted, endpoint>>

\* A span that has ended may be flushed again.
FlushPartial(s) ==
  /\ recorded[s] # None /\ recorded[s].exports < MaxPartials
  /\ Export(s, recorded[s], TRUE)

\* __exit__
ExitSpan(s, raised) ==
  /\ Open(s)
  /\ Export(s, [recorded[s] EXCEPT !.status = IF raised THEN "error" ELSE "ok",
                  !.events = IF raised THEN Append(@, Event("exception")) ELSE @], FALSE)

-----------------------------------------------------------------------------
(* The batch endpoint. *)

Flush(p) ==
  /\ Free(p) /\ outbox[p] # <<>>
  /\ posted' = [posted EXCEPT ![p] = [at |-> "sent", items |-> outbox[p]]]
  /\ UNCHANGED <<sdk, settings, application, outbox, endpoint>>

\* A root span comes with its trace.
ItemCount(items) == Len(items) + Cardinality({k \in DOMAIN items : items[k].root})

\* trace_priority: of the traces of a batch with one id the last counts.
KeepsTrace(items, t) ==
  LET roots == {k \in DOMAIN items : items[k].root /\ items[k].trace = t}
  IN \E k \in roots : items[k].status = "error" /\ \A j \in roots : j <= k

HasPriority(items, k) == KeepsTrace(items, items[k].trace) \/ KeptInAnyCase(items[k])

Refuses(items) ==
  /\ settings.retry > 0 /\ ItemCount(items) > settings.retry
  /\ \A k \in DOMAIN items : ~HasPriority(items, k)

Pressed(items) == settings.batch > 0 /\ ItemCount(items) > settings.batch

\* Fault: priority is no protection.
Degraded(items, k) ==
  [items[k] EXCEPT !.events = SampledEvents(@, settings),
                   !.payload = @ /\ Fits(items[k].size, settings),
                   !.pressed = Pressed(items)]

\* _apply_span_payload_policy and _apply_span_event_policy
Policed(items, k) ==
  IF HasPriority(items, k) /\ ~Pressed(items) THEN items[k]
  ELSE [items[k] EXCEPT !.events = SampledEvents(@, settings),
                        !.payload = @ /\ Fits(items[k].size, settings),
                        !.pressed = Pressed(items)]

Received(request) ==
  [at |-> "received", items |-> [k \in DOMAIN request.items |-> Policed(request.items, k)]]

\* 429: the buffer stays.
RefuseBatch(p) ==
  /\ posted[p].at = "sent" /\ Refuses(posted[p].items)
  /\ posted' = [posted EXCEPT ![p] = NoRequest]
  /\ UNCHANGED <<sdk, settings, application, outbox, endpoint>>

ReceiveBatch(p) ==
  /\ posted[p].at = "sent" /\ ~Refuses(posted[p].items)
  /\ posted' = [posted EXCEPT ![p] = Received(@)]
  /\ UNCHANGED <<sdk, settings, application, outbox, endpoint>>

\* upsert_span, for the next of the batch.
StoreNext(request) ==
  /\ request.at = "received" /\ request.items # <<>>
  /\ spanRows' = [spanRows EXCEPT ![Head(request.items).span] = Head(request.items)]

StoreItem(p) ==
  /\ StoreNext(posted[p])
  /\ posted' = [posted EXCEPT ![p].items = Tail(@)]
  /\ UNCHANGED <<sdk, settings, application, outbox, abandoned, giveUps>>

AnswerBatch(p) ==
  /\ posted[p].at = "received" /\ posted[p].items = <<>>
  /\ posted' = [posted EXCEPT ![p] = NoRequest]
  /\ outbox' = [outbox EXCEPT ![p] = <<>>]
  /\ UNCHANGED <<sdk, settings, application, endpoint>>

\* The client stops waiting; the server does not.
GiveUp(p) ==
  /\ ~Free(p) /\ giveUps < MaxGiveUps
  /\ giveUps' = giveUps + 1
  /\ abandoned' = abandoned \union {posted[p]}
  /\ posted' = [posted EXCEPT ![p] = NoRequest]
  /\ UNCHANGED <<sdk, settings, application, outbox, spanRows>>

ReceiveLate(request) ==
  /\ request.at = "sent"
  /\ abandoned' = (abandoned \ {request}) \union (IF Refuses(request.items) THEN {} ELSE {Received(request)})
  /\ UNCHANGED <<sdk, settings, application, outbox, posted, spanRows, giveUps>>

StoreLate(request) ==
  /\ StoreNext(request)
  /\ abandoned' = (abandoned \ {request}) \union {[request EXCEPT !.items = Tail(@)]}
  /\ UNCHANGED <<sdk, settings, application, outbox, posted, giveUps>>

-----------------------------------------------------------------------------
FidelityNext ==
  \/ \E p \in Processes :
       \/ \E s \in TracedSpans, keep \in BOOLEAN, size \in 1 .. 2 :
            \/ \E t \in TraceIds : StartTrace(p, s, t, keep, size)
            \/ \E carrier \in carriers : ContinueFromBaggage(p, s, carrier, keep, size)
       \/ Flush(p) \/ RefuseBatch(p) \/ ReceiveBatch(p) \/ StoreItem(p) \/ AnswerBatch(p) \/ GiveUp(p)
  \/ \E s \in TracedSpans :
       \/ \E parent \in TracedSpans, keep \in BOOLEAN, size \in 1 .. 2 : StartChild(s, parent, keep, size)
       \/ \E stripped \in BOOLEAN : Inject(s, stripped)
       \/ \E kind \in {"stream", "step"} : AddEvent(s, kind)
       \/ FlushPartial(s)
       \/ \E raised \in BOOLEAN : ExitSpan(s, raised)
  \/ \E request \in abandoned : ReceiveLate(request) \/ StoreLate(request)

FidelitySpec == FidelityInit /\ [][FidelityNext]_fidelityVars

-----------------------------------------------------------------------------
Exports ==
  (UNION {ToSet(outbox[p]) : p \in Processes})
  \union {spanRows[s] : s \in {r \in TracedSpans : spanRows[r] # None}}

FidelityTypeOK ==
  /\ recorded \in [TracedSpans -> SpanRecord \union {None}]
  /\ \A e \in Exports :
       /\ e.status \in {"incomplete", "ok", "error"} /\ e.number \in 1 .. recorded[e.span].exports
       /\ \A k \in DOMAIN e.events : e.events[k].kind \in {"stream", "step", "exception", "partial", "omitted"}
  /\ Cardinality(abandoned) <= giveUps
  /\ \A p \in Processes : posted[p].at = "sent" => posted[p].items = outbox[p]

KeptCount(e) == Cardinality({k \in DOMAIN e.events : e.events[k].kind # "omitted"})
Omitted(e) == FoldSeq(LAMBDA event, n : n + event.stream + event.other, 0, e.events)

\* However often the SDK and then the endpoint sample the events of a span, those that
\* are left and the numbers on the markers add up to the events there were; but for the
\* partial flush of a trace that is not sampled, whose marker counts the note of the
\* flush, which is sent all the same.
OmissionsCounted ==
  \A e \in Exports : (e.partial => e.sampled \/ KeptInAnyCase(e)) => KeptCount(e) + Omitted(e) = e.all

\* A span that failed or that asks to be kept is stored with its payload and all of its
\* events, whatever is configured, unless the batch was too large for the server.
KeptInFull ==
  \A s \in TracedSpans : LET e == spanRows[s] IN
    e # None /\ ~e.pressed /\ (e.status = "error" \/ e.keep) =>
      /\ \A k \in DOMAIN e.events : e.events[k].kind # "omitted"
      /\ e.payload = sdk.capture

\* Spans of one trace are sampled together, across processes, unless a carrier lost
\* the decision of a root that asked to be kept.
SampledTogether ==
  \A r, s \in {x \in TracedSpans : recorded[x] # None} :
    recorded[r].trace = recorded[s].trace /\ recorded[r].sampled # recorded[s].sampled =>
      \E c \in carriers : c.trace = recorded[s].trace /\ c.sampled = "none"

\* What a span says is not thinned where the sampling promises to leave it alone.
SamplingHonest == KeptInFull /\ SampledTogether

\* A stored span goes back to an earlier export of it only through a request that its
\* client had given up; or for a moment, while the request that repeats such a one has
\* the later export still to store.
OnlyLateRequestsGoBack ==
  [][\A s \in TracedSpans : spanRows[s] # None /\ spanRows'[s].number < spanRows[s].number =>
       \/ abandoned' # abandoned
       \/ \E p \in Processes : \E k \in DOMAIN posted'[p].items :
            posted'[p].items[k].span = s /\ posted'[p].items[k].number >= spanRows[s].number]_fidelityVars
=============================================================================
