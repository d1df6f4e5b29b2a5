-------------------------- MODULE SdkExportProofs ---------------------------
(* What is proved of SdkExport, and after it of SpanFidelity. *)
EXTENDS SdkExport, SpanFidelity, FoldProofs, FiniteSetTheorems,
        SequenceTheorems, TLAPS

(* Taking an element out of a queue shortens it by one, and leaves the rest. *)
LEMMA Removal ==
  ASSUME NEW S, NEW q \in Seq(S), NEW n \in DOMAIN q
  PROVE  /\ RemoveAt(q, n) \in Seq(S)
         /\ Len(RemoveAt(q, n)) = Len(q) - 1
         /\ ToSet(q) = ToSet(RemoveAt(q, n)) \union {q[n]}
<1> DEFINE front == SubSeq(q, 1, n - 1)
           back == SubSeq(q, n + 1, Len(q))
<1>1. n \in 1 .. Len(q) /\ Len(q) \in Nat
  OBVIOUS
<1>2. /\ front \in Seq(S) /\ Len(front) = n - 1
      /\ \A k \in 1 .. n - 1 : front[k] = q[k]
  BY <1>1, SubSeqProperties
<1>3. /\ back \in Seq(S) /\ Len(back) = Len(q) - n
      /\ \A k \in 1 .. Len(q) - n : back[k] = q[n + k]
  BY <1>1, SubSeqProperties
<1> HIDE DEF front, back
<1> DEFINE rest == front \o back
<1>3a. rest \in Seq(S) /\ Len(rest) = Len(front) + Len(back)
  BY <1>2, <1>3, ConcatProperties
<1>4. rest \in Seq(S) /\ Len(rest) = Len(q) - 1
  <2> HIDE DEF rest
  <2> QED
    BY <1>3a, <1>1, <1>2, <1>3
<1>5. ASSUME NEW k \in 1 .. n - 1 PROVE rest[k] = q[k]
  BY <1>1, <1>2, <1>3, ConcatProperties
<1>6. ASSUME NEW k \in n .. Len(q) - 1 PROVE rest[k] = q[k + 1]
  <2>1. /\ k \in 1 .. Len(front) + Len(back) /\ ~(k <= Len(front))
        /\ k - Len(front) = k - n + 1 /\ k - n + 1 \in 1 .. Len(q) - n
        /\ n + (k - n + 1) = k + 1
    BY <1>1, <1>2, <1>3
  <2>2. rest[k] = back[k - Len(front)]
    BY <1>2, <1>3, <2>1, ConcatProperties
  <2> QED
    BY <1>3, <2>1, <2>2
<1>7. RemoveAt(q, n) = rest
  BY DEF RemoveAt, front, back
<1> HIDE DEF rest
<1>8. DOMAIN rest = 1 .. Len(q) - 1 /\ DOMAIN q = 1 .. Len(q)
  BY <1>4, <1>1
<1>9. ToSet(q) \subseteq ToSet(rest) \union {q[n]}
  <2>1. SUFFICES ASSUME NEW k \in DOMAIN q, k # n PROVE \E j \in DOMAIN rest : rest[j] = q[k]
    BY DEF ToSet
  <2>2. CASE k < n
    BY <1>1, <1>5, <1>8, <2>1, <2>2
  <2>3. CASE k > n
    <3>1. k - 1 \in n .. Len(q) - 1 /\ (k - 1) + 1 = k /\ k - 1 \in DOMAIN rest
      BY <1>1, <1>8, <2>1, <2>3
    <3> QED
      BY <1>6, <3>1
  <2> QED
    BY <1>1, <1>8, <2>1, <2>2, <2>3
<1>10. ToSet(rest) \subseteq ToSet(q)
  <2>1. SUFFICES ASSUME NEW k \in DOMAIN rest PROVE \E j \in DOMAIN q : q[j] = rest[k]
    BY DEF ToSet
  <2>2. CASE k <= n - 1
    BY <1>1, <1>5, <1>8, <2>1, <2>2
  <2>3. CASE k >= n
    BY <1>1, <1>6, <1>8, <2>1, <2>3
  <2> QED
    BY <1>1, <1>8, <2>1, <2>2, <2>3
<1>11. q[n] \in ToSet(q)
  BY DEF ToSet
<1> QED
  BY <1>4, <1>7, <1>9, <1>10, <1>11

-----------------------------------------------------------------------------
(* Where a thread is that has an item on its way to the buffer. *)
Building == {"scan", "choose", "pop", "record", "append"}

(* What a thread has in hand, by where it is. *)
LEMMA WorkFields ==
  ASSUME NEW w \in Work
  PROVE  /\ w.at \in Building \union {"trace", "posted", "answered"}
         /\ w.at = "trace" => w.of \in Roots
         /\ w.at \in Building => w.item \in Items
         /\ w.at \in {"scan", "pop"} => w.list \in {"span", "trace"} /\ w.index \in Nat \ {0}
         /\ w.at = "record" => w.gone \in Items
         /\ w.at = "posted" => w.batch \subseteq Items /\ w.diagnostics \subseteq Items
         /\ w.at = "answered" => w.refused \subseteq Items /\ w.diagnostics \subseteq Items
BY DEF Work, Building

(* The places a thread goes to. *)
LEMMA WorkBuilt ==
  /\ \A s \in Roots : [at |-> "trace", of |-> s] \in Work
  /\ \A i \in Items : [at |-> "append", item |-> i] \in Work
  /\ \A i \in Items : [at |-> "choose", item |-> i] \in Work
  /\ \A i \in Items, g \in Items : [at |-> "record", item |-> i, gone |-> g] \in Work
  /\ \A i \in Items, l \in {"span", "trace"}, n \in Nat \ {0} :
       /\ [at |-> "scan", item |-> i, list |-> l, index |-> n] \in Work
       /\ [at |-> "pop", item |-> i, list |-> l, index |-> n] \in Work
  /\ \A i \in Items : After(i) \in Work \union {None}
  /\ \A b \in SUBSET Items, d \in SUBSET Items :
       [at |-> "posted", batch |-> b, diagnostics |-> d] \in Work
  /\ \A ans \in {"207", "429", "5xx"}, r \in SUBSET Items, d \in SUBSET Items :
       [at |-> "answered", answer |-> ans, refused |-> r, diagnostics |-> d] \in Work
<1>1. \A s \in Roots : [at |-> "trace", of |-> s] \in Work
  BY DEF Work
<1>2. \A i \in Items : [at |-> "append", item |-> i] \in Work /\ [at |-> "choose", item |-> i] \in Work
  BY DEF Work
<1>3. \A i \in Items : After(i) \in Work \union {None}
  BY <1>1 DEF After
<1>4. \A b \in SUBSET Items, d \in SUBSET Items :
        [at |-> "posted", batch |-> b, diagnostics |-> d] \in Work
  BY DEF Work
<1>5. \A ans \in {"207", "429", "5xx"}, r \in SUBSET Items, d \in SUBSET Items :
        [at |-> "answered", answer |-> ans, refused |-> r, diagnostics |-> d] \in Work
  BY DEF Work
<1>6. \A i \in Items, g \in Items : [at |-> "record", item |-> i, gone |-> g] \in Work
  BY DEF Work
<1>7. \A i \in Items, l \in {"span", "trace"}, n \in Nat \ {0} :
        /\ [at |-> "scan", item |-> i, list |-> l, index |-> n] \in Work
        /\ [at |-> "pop", item |-> i, list |-> l, index |-> n] \in Work
  BY DEF Work
<1> QED
  BY <1>1, <1>2, <1>3, <1>4, <1>5, <1>6, <1>7

(* Where the scan goes: on to the pop, to the next item, to the other list, or to
   the choice. *)
LEMMA Scanned ==
  ASSUME TypeOK, NEW th \in Threads, Scan(th)
  PROVE  LET w == threads[th] IN
           /\ w \in Work /\ w.at = "scan" /\ w.item \in Items
           /\ \/ /\ threads'[th] = [at |-> "pop", item |-> w.item, list |-> w.list, index |-> w.index]
                 /\ w.index \in DOMAIN Queue(w.list)
              \/ threads'[th] = [at |-> "scan", item |-> w.item, list |-> w.list, index |-> w.index + 1]
              \/ threads'[th] = [at |-> "scan", item |-> w.item, list |-> "trace", index |-> 1]
              \/ threads'[th] = [at |-> "choose", item |-> w.item]
           /\ \A u \in Threads \ {th} : threads'[u] = threads[u]
           /\ threads' \in [Threads -> Work \union {None}]
           /\ UNCHANGED <<spans, traces, dropped, server, history>>
<1> DEFINE w == threads[th]
<1>1. w \in Work /\ w.at = "scan"
  BY DEF Scan, At, TypeOK
<1>2. /\ w.item \in Items /\ w.list \in {"span", "trace"} /\ w.index \in Nat \ {0}
      /\ w = [at |-> "scan", item |-> w.item, list |-> w.list, index |-> w.index]
  BY <1>1 DEF Work
<1>3. PICK work : /\ threads' = [threads EXCEPT ![th] = work]
                  /\ \/ work = [w EXCEPT !.at = "pop"] /\ w.index \in LowPriority(Queue(w.list))
                     \/ work = [w EXCEPT !.index = @ + 1]
                     \/ work = [at |-> "scan", item |-> w.item, list |-> "trace", index |-> 1]
                     \/ work = [at |-> "choose", item |-> w.item]
  BY DEF Scan, Goto
<1>4. /\ [w EXCEPT !.at = "pop"] = [at |-> "pop", item |-> w.item, list |-> w.list, index |-> w.index]
      /\ [w EXCEPT !.index = @ + 1]
           = [at |-> "scan", item |-> w.item, list |-> w.list, index |-> w.index + 1]
  <2> HIDE DEF w
  <2>1. [w EXCEPT !.at = "pop"] = [at |-> "pop", item |-> w.item, list |-> w.list, index |-> w.index]
    BY <1>2
  <2>2. [w EXCEPT !.index = @ + 1]
          = [at |-> "scan", item |-> w.item, list |-> w.list, index |-> w.index + 1]
    BY <1>2
  <2> QED
    BY <2>1, <2>2
<1>5. threads'[th] = work /\ \A u \in Threads \ {th} : threads'[u] = threads[u]
  BY <1>3 DEF TypeOK
<1>6. \/ work = [at |-> "pop", item |-> w.item, list |-> w.list, index |-> w.index]
         /\ w.index \in DOMAIN Queue(w.list)
      \/ work = [at |-> "scan", item |-> w.item, list |-> w.list, index |-> w.index + 1]
      \/ work = [at |-> "scan", item |-> w.item, list |-> "trace", index |-> 1]
      \/ work = [at |-> "choose", item |-> w.item]
  BY <1>3, <1>4 DEF LowPriority
<1>7. w.index + 1 \in Nat \ {0}
  BY <1>2
<1>8. work \in Work
  <2> HIDE DEF w
  <2>1. CASE work = [at |-> "pop", item |-> w.item, list |-> w.list, index |-> w.index]
    BY <1>2, <2>1 DEF Work
  <2>2. CASE work = [at |-> "scan", item |-> w.item, list |-> w.list, index |-> w.index + 1]
    BY <1>2, <1>7, <2>2 DEF Work
  <2>3. CASE work = [at |-> "scan", item |-> w.item, list |-> "trace", index |-> 1]
    BY <1>2, <2>3 DEF Work
  <2>4. CASE work = [at |-> "choose", item |-> w.item]
    BY <1>2, <2>4 DEF Work
  <2> QED
    BY <1>6, <2>1, <2>2, <2>3, <2>4
<1>9. threads' \in [Threads -> Work \union {None}]
  BY <1>3, <1>8 DEF TypeOK
<1> QED
  BY <1>1, <1>2, <1>5, <1>6, <1>9 DEF Scan

(* A pop that finds an item takes it out of the buffer, into the thread's hands. *)
LEMMA Popped ==
  ASSUME TypeOK, NEW th \in Threads, Pop(th), threads[th].index \in DOMAIN Queue(threads[th].list)
  PROVE  LET w == threads[th]
             g == Queue(w.list)[w.index]
         IN /\ w.item \in Items /\ g \in Items
            /\ spans' \in Seq(SpanItems) /\ traces' \in Seq(TraceItems)
            /\ Count' = Count - 1
            /\ Buffered = Buffered' \union {g}
            /\ threads' = [threads EXCEPT ![th] = [at |-> "record", item |-> w.item, gone |-> g]]
<1> DEFINE w == threads[th]
           n == w.index
<1> USE DEF TypeOK
<1>1. w \in Work /\ w.item \in Items
  BY WorkFields DEF Pop, At, Building
<1>2. CASE w.list = "span"
  <2>1. n \in DOMAIN spans /\ Queue(w.list) = spans /\ spans' = RemoveAt(spans, n) /\ traces' = traces
    BY <1>2 DEF Pop, Queue
  <2>2. /\ spans' \in Seq(SpanItems) /\ Len(spans') = Len(spans) - 1
        /\ ToSet(spans) = ToSet(spans') \union {spans[n]} /\ spans[n] \in SpanItems
    BY <2>1, Removal
  <2>3. Count' = Count - 1
    BY <2>1, <2>2 DEF Count
  <2>4. Buffered = Buffered' \union {spans[n]}
    BY <2>1, <2>2, Zenon DEF Buffered
  <2>5. threads' = [threads EXCEPT ![th] = [at |-> "record", item |-> w.item, gone |-> spans[n]]]
    BY <2>1 DEF Pop, Goto
  <2> QED
    BY <1>1, <2>1, <2>2, <2>3, <2>4, <2>5 DEF Items
<1>3. CASE w.list # "span"
  <2>1. n \in DOMAIN traces /\ Queue(w.list) = traces /\ traces' = RemoveAt(traces, n) /\ spans' = spans
    BY <1>3 DEF Pop, Queue
  <2>2. /\ traces' \in Seq(TraceItems) /\ Len(traces') = Len(traces) - 1
        /\ ToSet(traces) = ToSet(traces') \union {traces[n]} /\ traces[n] \in TraceItems
    BY <2>1, Removal
  <2>3. Count' = Count - 1
    BY <2>1, <2>2 DEF Count
  <2>4. Buffered = Buffered' \union {traces[n]}
    BY <2>1, <2>2, Zenon DEF Buffered
  <2>5. threads' = [threads EXCEPT ![th] = [at |-> "record", item |-> w.item, gone |-> traces[n]]]
    BY <2>1 DEF Pop, Goto
  <2> QED
    BY <1>1, <2>1, <2>2, <2>3, <2>4, <2>5 DEF Items
<1> QED
  BY <1>2, <1>3

(* Full is what its name says. *)
LEMMA FullCount == TypeOK /\ Full => MaxBuffered > 0 /\ Count > 0 /\ Count >= MaxBuffered
<1> SUFFICES ASSUME TypeOK, Full PROVE MaxBuffered > 0 /\ Count > 0 /\ Count >= MaxBuffered
  OBVIOUS
<1>1. Count \in Nat
  BY DEF TypeOK, Count
<1> QED
  BY <1>1, ExportAssumption DEF Full

-----------------------------------------------------------------------------
(* Offering an item: the three outcomes of export's check for room. *)
LEMMA OfferTyped ==
  ASSUME TypeOK, NEW th \in Threads, NEW i \in Items, Offer(th, i)
  PROVE  TypeOK'
<1>1. PICK work \in Work : threads' = [threads EXCEPT ![th] = work]
  <2>1. [at |-> "append", item |-> i] \in Work
    BY DEF Work
  <2>2. [at |-> "scan", item |-> i, list |-> "span", index |-> 1] \in Work
    BY DEF Work
  <2>3. [at |-> "record", item |-> i, gone |-> i] \in Work
    BY DEF Work
  <2> QED
    BY <2>1, <2>2, <2>3 DEF Offer, Goto
<1> QED
  BY <1>1 DEF TypeOK, Offer, server

(* Whatever the threads do, the buffer holds spans in one list and traces in
   the other, and what is in hand, sent, stored or on record are items. *)
THEOREM Typing == Spec => []TypeOK
<1>1. Init => TypeOK
  BY ExportAssumption DEF Init, TypeOK
<1>2. TypeOK /\ [Next]_vars => TypeOK'
  <2> SUFFICES ASSUME TypeOK, [Next]_vars PROVE TypeOK'
    OBVIOUS
  <2> USE DEF TypeOK, server, history, Goto
  <2>1. ASSUME NEW th \in Threads, NEW s \in Spans, EndSpan(th, s) PROVE TypeOK'
    BY <2>1, OfferTyped DEF EndSpan, Items, SpanItems
  <2>2. ASSUME NEW th \in Threads, ExportTrace(th) PROVE TypeOK'
    <3>1. threads[th] \in Work /\ threads[th].at = "trace"
      BY <2>2 DEF ExportTrace, At
    <3>2. TraceItem(threads[th].of) \in Items
      BY <3>1, WorkFields DEF Items, TraceItems
    <3> QED
      BY <2>2, <3>2, OfferTyped DEF ExportTrace
  <2>3. ASSUME NEW th \in Threads, AppendItem(th) PROVE TypeOK'
    <3> DEFINE i == threads[th].item
    <3>1. threads[th] \in Work /\ i \in Items
      BY <2>3, WorkFields DEF AppendItem, At, Building
    <3>2. threads' \in [Threads -> Work \union {None}]
      BY <2>3, <3>1, WorkBuilt DEF AppendItem
    <3>3. CASE i.kind = "span"
      <4>1. i \in SpanItems
        BY <3>1, <3>3 DEF Items, TraceItems, TraceItem
      <4>2. spans' = Append(spans, i) /\ traces' = traces
        BY <2>3, <3>3 DEF AppendItem, QueueOf
      <4> QED
        BY <2>3, <3>2, <4>1, <4>2 DEF AppendItem
    <3>4. CASE i.kind # "span"
      <4>1. i \in TraceItems
        BY <3>1, <3>4 DEF Items, SpanItems, SpanItem
      <4>2. traces' = Append(traces, i) /\ spans' = spans
        BY <2>3, <3>4 DEF AppendItem, QueueOf
      <4> QED
        BY <2>3, <3>2, <4>1, <4>2 DEF AppendItem
    <3> QED
      BY <3>3, <3>4
  <2>4. ASSUME NEW th \in Threads, Post(th) PROVE TypeOK'
    <3>1. Buffered \subseteq Items
      BY DEF Buffered, ToSet, Items
    <3> QED
      BY <2>4, <3>1, WorkBuilt DEF Post
  <2>5. ASSUME NEW th \in Threads, IngestBatch(th) PROVE TypeOK'
    <3>1. threads[th] \in Work /\ threads[th].batch \subseteq Items
                               /\ threads[th].diagnostics \subseteq Items
      BY <2>5, WorkFields DEF IngestBatch, At
    <3>2. PICK ans \in {"207", "429"}, r \in SUBSET Items :
            threads' = [threads EXCEPT ![th] =
              [at |-> "answered", answer |-> ans, refused |-> r,
               diagnostics |-> threads[th].diagnostics]]
      BY <2>5, <3>1 DEF IngestBatch, Answered
    <3>3. threads' \in [Threads -> Work \union {None}]
      BY <3>1, <3>2, WorkBuilt
    <3> QED
      BY <2>5, <3>1, <3>3 DEF IngestBatch
  <2>6. ASSUME NEW th \in Threads, ServerFails(th) PROVE TypeOK'
    <3>1. threads[th] \in Work /\ threads[th].batch \subseteq Items
                               /\ threads[th].diagnostics \subseteq Items
      BY <2>6, WorkFields DEF ServerFails, At
    <3>2. threads' \in [Threads -> Work \union {None}]
      BY <2>6, <3>1, WorkBuilt DEF ServerFails, Answered
    <3> QED
      BY <2>6, <3>1, <3>2, ExportAssumption DEF ServerFails
  <2>7. ASSUME NEW th \in Threads, Timeout(th) PROVE TypeOK'
    <3>1. threads[th] \in Work /\ threads[th].batch \subseteq Items
      BY <2>7, WorkFields DEF Timeout, At
    <3> QED
      BY <2>7, <3>1, ExportAssumption DEF Timeout
  <2>8. ASSUME NEW th \in Threads, Return(th) PROVE TypeOK'
    <3>1. threads[th] \in Work /\ threads[th].refused \subseteq Items
                               /\ threads[th].diagnostics \subseteq Items
      BY <2>8, WorkFields DEF Return, At
    <3>2. threads' \in [Threads -> Work \union {None}]
      BY <2>8 DEF Return
    <3>3. CASE Succeeded(threads[th].answer)
      BY <2>8, <3>1, <3>2, <3>3 DEF Return
    <3>4. CASE ~Succeeded(threads[th].answer)
      BY <2>8, <3>2, <3>4 DEF Return
    <3> QED
      BY <3>3, <3>4
  <2>9. ASSUME NEW batch \in late, IngestLate(batch) PROVE TypeOK'
    BY <2>9 DEF IngestLate
  <2>10. CASE UNCHANGED vars
    BY <2>10 DEF vars
  <2>11. ASSUME NEW th \in Threads, Scan(th) PROVE TypeOK'
    BY <2>11, Scanned
  <2>12. ASSUME NEW th \in Threads, Choose(th) PROVE TypeOK'
    <3>1. threads[th] \in Work /\ threads[th].item \in Items
      BY <2>12, WorkFields DEF Choose, At, Building
    <3>2. PICK l \in {"span", "trace"} :
            threads' = [threads EXCEPT ![th] =
              [at |-> "pop", item |-> threads[th].item, index |-> 1, list |-> l]]
      BY <2>12 DEF Choose
    <3>3. [at |-> "pop", item |-> threads[th].item, index |-> 1, list |-> l] \in Work
      BY <3>1 DEF Work
    <3> QED
      BY <2>12, <3>2, <3>3 DEF Choose
  <2>13. ASSUME NEW th \in Threads, Pop(th) PROVE TypeOK'
    <3>1. CASE threads[th].index \in DOMAIN Queue(threads[th].list)
      <4>1. threads' \in [Threads -> Work \union {None}]
        BY <2>13, <3>1, Popped, WorkBuilt
      <4> QED
        BY <2>13, <3>1, <4>1, Popped DEF Pop
    <3>2. CASE threads[th].index \notin DOMAIN Queue(threads[th].list)
      BY <2>13, <3>2 DEF Pop
    <3> QED
      BY <3>1, <3>2
  <2>14. ASSUME NEW th \in Threads, Record(th) PROVE TypeOK'
    <3>1. threads[th] \in Work /\ threads[th].item \in Items /\ threads[th].gone \in Items
      BY <2>14, WorkFields DEF Record, At, Building
    <3>2. threads' \in [Threads -> Work \union {None}]
      BY <2>14, <3>1, WorkBuilt DEF Record
    <3> QED
      BY <2>14, <3>1, <3>2 DEF Record
  <2> QED
    BY <2>1, <2>2, <2>3, <2>4, <2>5, <2>6, <2>7, <2>8, <2>9, <2>10, <2>11, <2>12, <2>13, <2>14
       DEF Next, Step
<1> QED
  BY <1>1, <1>2, PTL DEF Spec

-----------------------------------------------------------------------------
(* Threads about to append an item they found, or made, room for. *)
Appending ==
  {th \in Threads : /\ threads[th] # None
                    /\ \/ threads[th].at = "append"
                       \/ threads[th].at = "record" /\ threads[th].gone # threads[th].item}

(* Each of them has room reserved, but for the last. *)
RoomReserved ==
  MaxBuffered > 0 =>
    Count + Cardinality(Appending) + 1 <= MaxBuffered + Cardinality(Threads)

(* A step of one thread adds at most that thread to the appending ones. *)
LEMMA AppendingMoves ==
  ASSUME IsFiniteSet(Threads), NEW th \in Threads,
         \A u \in Threads \ {th} : threads'[u] = threads[u]
  PROVE  /\ Cardinality(Appending) \in Nat /\ Cardinality(Appending') \in Nat
         /\ Cardinality(Threads) \in Nat
         /\ Cardinality(Appending') <= Cardinality(Threads)
         /\ Cardinality(Appending') <= Cardinality(Appending) + 1
         /\ th \notin Appending' =>
              /\ Cardinality(Appending') <= Cardinality(Appending)
              /\ Cardinality(Appending') + 1 <= Cardinality(Threads)
              /\ th \in Appending => Cardinality(Appending') + 1 = Cardinality(Appending)
         /\ th \in Appending => Cardinality(Appending') <= Cardinality(Appending)
<1> DEFINE others == Appending \ {th}
<1>1. IsFiniteSet(Appending) /\ IsFiniteSet(others) /\ IsFiniteSet(Appending')
  BY FS_Subset DEF Appending
<1>2. Appending' = others \/ Appending' = others \union {th}
  BY DEF Appending
<1>3. th \notin Appending' => Appending' = others
  BY <1>2
<1>4. /\ Cardinality(Threads) \in Nat /\ Cardinality(Appending) \in Nat
      /\ Cardinality(others) \in Nat /\ Cardinality(Appending') \in Nat
  BY <1>1, FS_CardinalityType
<1>5. Cardinality(Appending) = Cardinality(others) + (IF th \in Appending THEN 1 ELSE 0)
  BY <1>1, <1>4, FS_RemoveElement
<1>6. Cardinality(others \union {th}) = Cardinality(others) + 1
  BY <1>1, FS_AddElement
<1>7. Cardinality(Appending') <= Cardinality(Threads)
  BY FS_Subset DEF Appending
<1>8. Cardinality(others) + 1 <= Cardinality(Threads)
  <2>1. others \union {th} \subseteq Threads
    BY DEF Appending
  <2> QED
    BY <1>6, <2>1, FS_Subset
<1> HIDE DEF others
<1>9. th \in Appending => Cardinality(Appending') <= Cardinality(Appending)
  <2>1. SUFFICES ASSUME th \in Appending PROVE Cardinality(Appending') <= Cardinality(Appending)
    OBVIOUS
  <2>2. Cardinality(Appending) = Cardinality(others) + 1
    BY <1>4, <1>5, <2>1
  <2>3. CASE Appending' = others
    BY <1>4, <2>2, <2>3
  <2>4. CASE Appending' = others \union {th}
    <3>1. Cardinality(Appending') = Cardinality(others) + 1
      BY <1>6, <2>4
    <3> QED
      BY <1>4, <2>2, <3>1
  <2> QED
    BY <1>2, <2>3, <2>4
<1>10. /\ Cardinality(Appending') <= Cardinality(Appending) + 1
       /\ th \notin Appending' =>
            /\ Cardinality(Appending') <= Cardinality(Appending)
            /\ Cardinality(Appending') + 1 <= Cardinality(Threads)
            /\ th \in Appending => Cardinality(Appending') + 1 = Cardinality(Appending)
  BY <1>2, <1>3, <1>4, <1>5, <1>6, <1>8
<1> QED
  BY <1>4, <1>7, <1>9, <1>10

(* Steps that do not append leave the reservations in place. *)
LEMMA RoomKept ==
  ASSUME TypeOK, TypeOK', IsFiniteSet(Threads), NEW th \in Threads, RoomReserved,
         \A u \in Threads \ {th} : threads'[u] = threads[u],
         th \notin Appending', Count' = Count \/ Count' = 0
  PROVE  RoomReserved'
<1>1. Count \in Nat /\ Count' \in Nat
  BY DEF TypeOK, Count
<1> QED
  BY <1>1, AppendingMoves, ExportAssumption DEF RoomReserved

LEMMA Sums ==
  ASSUME NEW m \in Nat, NEW n \in Nat, NEW c \in Nat, NEW a \in Nat, c + 1 <= m, a <= n
  PROVE  c + a + 1 <= m + n
OBVIOUS

(* The check for room reserves room for the thread that made it. *)
LEMMA OfferReserves ==
  ASSUME TypeOK, TypeOK', IsFiniteSet(Threads), NEW th \in Threads, RoomReserved,
         NEW i \in Items, Offer(th, i)
  PROVE  RoomReserved'
<1>1. /\ Count \in Nat /\ Count' = Count
      /\ \A u \in Threads \ {th} : threads'[u] = threads[u]
  BY DEF TypeOK, Count, Offer, Goto
<1>2. CASE ~Full
  <2>1. MaxBuffered > 0 => Count' + 1 <= MaxBuffered
    BY <1>1, <1>2, ExportAssumption DEF Full
  <2>2. /\ Cardinality(Appending') \in Nat /\ Cardinality(Threads) \in Nat
        /\ Cardinality(Appending') <= Cardinality(Threads)
    BY <1>1, AppendingMoves
  <2>3. ASSUME MaxBuffered > 0
        PROVE  Count' + Cardinality(Appending') + 1 <= MaxBuffered + Cardinality(Threads)
    <3>1. Count' \in Nat /\ Count' + 1 <= MaxBuffered /\ MaxBuffered \in Nat
      BY <1>1, <2>1, <2>3, ExportAssumption
    <3> QED
      BY <2>2, <3>1, Sums
  <2> QED
    BY <2>3 DEF RoomReserved
<1>3. CASE Full
  <2>1. \/ threads'[th] = [at |-> "scan", item |-> i, list |-> "span", index |-> 1]
        \/ threads'[th] = [at |-> "record", item |-> i, gone |-> i]
    BY <1>3 DEF Offer, Goto, TypeOK
  <2>2. th \notin Appending'
    BY <2>1 DEF Appending
  <2> QED
    BY <1>1, <2>2, RoomKept
<1> QED
  BY <1>2, <1>3

(* For any number of threads, however their checks and appends interleave, the
   buffer exceeds its limit by fewer items than there are threads. *)
THEOREM Bound ==
  ASSUME IsFiniteSet(Threads)
  PROVE  Spec => []BufferBounded
<1>1. Init => RoomReserved
  <2> SUFFICES ASSUME Init PROVE RoomReserved
    OBVIOUS
  <2>1. Count = 0
    BY DEF Init, Count
  <2>2. Appending = {} /\ Cardinality(Appending) = 0
    BY FS_EmptySet DEF Init, Appending
  <2>3. Cardinality(Threads) \in Nat
    BY FS_CardinalityType
  <2> QED
    BY <2>1, <2>2, <2>3, ExportAssumption DEF RoomReserved
<1>2. TypeOK /\ TypeOK' /\ RoomReserved /\ [Next]_vars => RoomReserved'
  <2> SUFFICES ASSUME TypeOK, TypeOK', RoomReserved, [Next]_vars PROVE RoomReserved'
    OBVIOUS
  <2>1. ASSUME NEW th \in Threads, NEW s \in Spans, EndSpan(th, s) PROVE RoomReserved'
    <3>1. SpanItem(s) \in Items
      BY DEF Items, SpanItems
    <3> QED
      BY <2>1, <3>1, OfferReserves DEF EndSpan
  <2>2. ASSUME NEW th \in Threads, ExportTrace(th) PROVE RoomReserved'
    <3>1. threads[th] \in Work /\ threads[th].at = "trace"
      BY <2>2 DEF ExportTrace, At, TypeOK
    <3>2. TraceItem(threads[th].of) \in Items
      BY <3>1, WorkFields DEF Items, TraceItems
    <3> QED
      BY <2>2, <3>1, <3>2, OfferReserves DEF ExportTrace
  <2>3. ASSUME NEW th \in Threads, AppendItem(th) PROVE RoomReserved'
    <3>1. /\ th \in Appending
          /\ \A u \in Threads \ {th} : threads'[u] = threads[u]
          /\ threads'[th] = After(threads[th].item)
      BY <2>3 DEF Appending, AppendItem, At, TypeOK, Goto
    <3>2. th \notin Appending'
      BY <3>1 DEF Appending, After
    <3>3. Count \in Nat /\ Count' = Count + 1
      <4>1. PICK item : \/ spans' = Append(spans, item) /\ traces' = traces
                        \/ traces' = Append(traces, item) /\ spans' = spans
        BY <2>3 DEF AppendItem
      <4>2. /\ spans \in Seq(Items \union {item}) /\ Len(spans) \in Nat
            /\ traces \in Seq(Items \union {item}) /\ Len(traces) \in Nat
        BY DEF TypeOK, Items
      <4>3. /\ Len(Append(spans, item)) = Len(spans) + 1
            /\ Len(Append(traces, item)) = Len(traces) + 1
        <5> DEFINE T == Items \union {item}
        <5>1. item \in T
          OBVIOUS
        <5> HIDE DEF T
        <5>2. spans \in Seq(T) /\ traces \in Seq(T)
          BY <4>2 DEF T
        <5> QED
          BY <5>1, <5>2, AppendProperties
      <4>4. \/ Len(spans') = Len(spans) + 1 /\ Len(traces') = Len(traces)
            \/ Len(traces') = Len(traces) + 1 /\ Len(spans') = Len(spans)
        BY <4>1, <4>3
      <4> QED
        BY <4>2, <4>4 DEF Count
    <3>4. /\ Cardinality(Appending) \in Nat /\ Cardinality(Appending') \in Nat
          /\ Cardinality(Threads) \in Nat
          /\ Cardinality(Appending') + 1 = Cardinality(Appending)
      BY <3>1, <3>2, AppendingMoves
    <3> QED
      BY <3>3, <3>4, ExportAssumption DEF RoomReserved
  <2>4. ASSUME NEW th \in Threads,
               \/ Post(th) \/ IngestBatch(th) \/ ServerFails(th) \/ Timeout(th)
        PROVE RoomReserved'
    <3>1. \A u \in Threads \ {th} : threads'[u] = threads[u]
      BY <2>4 DEF Post, IngestBatch, ServerFails, Timeout, Answered, Goto, TypeOK
    <3>2. threads'[th] = None \/ threads'[th].at \in {"posted", "answered"}
      BY <2>4 DEF Post, IngestBatch, ServerFails, Timeout, Answered, Goto, TypeOK
    <3>3. th \notin Appending'
      BY <3>2 DEF Appending
    <3>4. Count' = Count
      BY <2>4 DEF Post, IngestBatch, ServerFails, Timeout, Count
    <3> QED
      BY <3>1, <3>3, <3>4, RoomKept
  <2>5. ASSUME NEW th \in Threads, Return(th) PROVE RoomReserved'
    <3>1. /\ \A u \in Threads \ {th} : threads'[u] = threads[u]
          /\ threads'[th] = None
      BY <2>5 DEF Return, Goto, TypeOK
    <3>2. Count' = Count \/ Count' = 0
      BY <2>5 DEF Return, Count
    <3> QED
      BY <3>1, <3>2, RoomKept DEF Appending
  <2>6. ASSUME UNCHANGED <<spans, traces, threads>> PROVE RoomReserved'
    BY <2>6 DEF RoomReserved, Count, Appending
  <2>7. ASSUME NEW batch \in late, IngestLate(batch) PROVE RoomReserved'
    BY <2>6, <2>7 DEF IngestLate
  <2>8. CASE UNCHANGED vars
    BY <2>6, <2>8 DEF vars
  <2>9. ASSUME NEW th \in Threads, Scan(th) \/ Choose(th) PROVE RoomReserved'
    <3>1. \A u \in Threads \ {th} : threads'[u] = threads[u]
      BY <2>9, Scanned DEF Choose, Goto, TypeOK
    <3>2. threads'[th].at \in {"scan", "choose", "pop"}
      BY <2>9, Scanned DEF Choose, Goto, TypeOK
    <3>3. th \notin Appending' /\ Count' = Count
      BY <2>9, <3>2 DEF Appending, Scan, Choose, Count
    <3> QED
      BY <3>1, <3>3, RoomKept
  <2>10. ASSUME NEW th \in Threads, Pop(th) PROVE RoomReserved'
    <3>1. \A u \in Threads \ {th} : threads'[u] = threads[u]
      BY <2>10 DEF Pop, Goto, TypeOK
    <3>2. CASE threads[th].index \in DOMAIN Queue(threads[th].list)
      <4>1. Count \in Nat /\ Count' = Count - 1
        BY <2>10, <3>2, Popped DEF TypeOK, Count
      <4>2. /\ Cardinality(Appending) \in Nat /\ Cardinality(Appending') \in Nat
            /\ Cardinality(Threads) \in Nat
            /\ Cardinality(Appending') <= Cardinality(Appending) + 1
        BY <3>1, AppendingMoves
      <4> QED
        BY <4>1, <4>2, ExportAssumption DEF RoomReserved
    <3>3. CASE threads[th].index \notin DOMAIN Queue(threads[th].list)
      <4>1. threads'[th] = None /\ Count' = Count
        BY <2>10, <3>3 DEF Pop, Goto, TypeOK, Count
      <4>2. th \notin Appending'
        BY <4>1 DEF Appending
      <4> QED
        BY <3>1, <4>1, <4>2, RoomKept
    <3> QED
      BY <3>2, <3>3
  <2>11. ASSUME NEW th \in Threads, Record(th) PROVE RoomReserved'
    <3>1. /\ \A u \in Threads \ {th} : threads'[u] = threads[u]
          /\ threads[th] # None /\ threads[th].at = "record" /\ Count' = Count
      BY <2>11 DEF Record, At, Goto, TypeOK, Count
    <3>2. CASE threads[th].gone = threads[th].item
      <4>1. threads'[th] = After(threads[th].item)
        BY <2>11, <3>2 DEF Record, Goto, TypeOK
      <4>2. th \notin Appending'
        BY <4>1 DEF Appending, After
      <4> QED
        BY <3>1, <4>2, RoomKept
    <3>3. CASE threads[th].gone # threads[th].item
      <4>1. th \in Appending
        BY <3>1, <3>3 DEF Appending
      <4>2. /\ Cardinality(Appending) \in Nat /\ Cardinality(Appending') \in Nat
            /\ Cardinality(Threads) \in Nat
            /\ Cardinality(Appending') <= Cardinality(Appending)
        BY <3>1, <4>1, AppendingMoves
      <4>3. Count \in Nat
        BY DEF TypeOK, Count
      <4> QED
        BY <3>1, <4>2, <4>3, ExportAssumption DEF RoomReserved
    <3> QED
      BY <3>2, <3>3
  <2> QED
    BY <2>1, <2>2, <2>3, <2>4, <2>5, <2>7, <2>8, <2>9, <2>10, <2>11 DEF Next, Step
<1>3. TypeOK /\ RoomReserved => BufferBounded
  <2>1. Cardinality(Appending) \in Nat /\ Cardinality(Threads) \in Nat
    BY FS_Subset, FS_CardinalityType DEF Appending
  <2>2. TypeOK => Count \in Nat
    BY DEF TypeOK, Count
  <2> QED
    BY <2>1, <2>2, ExportAssumption DEF RoomReserved, BufferBounded
<1> QED
  BY <1>1, <1>2, <1>3, Typing, PTL DEF Spec

-----------------------------------------------------------------------------
(* The abstract delivery, which an application with one thread gets. *)

Waiting == Buffered \union InHand

(* What the thread has in hand agrees with the buffer, which no one else changes. *)
WorkSound(w) ==
  /\ w.at = "trace" => TraceItem(w.of) \notin offered /\ SpanItem(w.of) \in offered
  /\ w.at \in Building /\ w.item.kind = "span" /\ w.item.of \in Roots =>
       TraceItem(w.item.of) \notin offered
  /\ w.at \in {"scan", "choose"} => Count > 0
  /\ w.at = "pop" => w.index \in DOMAIN Queue(w.list)
  /\ w.at = "posted" => w.batch = Buffered /\ w.diagnostics = dropped
  /\ w.at = "answered" =>
       /\ w.diagnostics = dropped
       /\ w.refused \subseteq Buffered
       /\ w.answer = "207" => Buffered \subseteq stored \union w.refused

(* Every item that was offered is somewhere, and no other is anywhere. *)
Ledger ==
  /\ offered = stored \union Waiting \union rejected \union dropped \union reported
  /\ \A batch \in late : batch \subseteq offered
  /\ \A s \in Roots : TraceItem(s) \in offered => SpanItem(s) \in offered
  /\ \A th \in Threads : threads[th] # None => WorkSound(threads[th])

(* What a step may do to the places of the items. *)
Settles ==
  /\ offered \subseteq offered' /\ rejected \subseteq rejected'
  /\ stored \subseteq stored' /\ stored' \subseteq stored \union offered
  /\ Waiting' \intersect offered \subseteq Waiting
  /\ rejected' \subseteq rejected \union Waiting \union stored

(* The fate of an item, by its place. *)
FateByPlace ==
  \A i \in Items :
    /\ i \in stored => Fate(i) = "stored"
    /\ i \notin stored /\ i \in Waiting => Fate(i) = "pending"
    /\ i \notin stored \union Waiting /\ i \in rejected => Fate(i) = "rejected"
    /\ i \notin stored \union Waiting \union rejected /\ i \in offered => Fate(i) = "dropped"
    /\ i \notin offered => Fate(i) = "unsent"

LEMMA FatesKnown == Ledger => FateByPlace
<1> SUFFICES ASSUME Ledger, NEW i \in Items
             PROVE  /\ i \in stored => Fate(i) = "stored"
                    /\ i \notin stored /\ i \in Waiting => Fate(i) = "pending"
                    /\ i \notin stored \union Waiting /\ i \in rejected => Fate(i) = "rejected"
                    /\ i \notin stored \union Waiting \union rejected /\ i \in offered =>
                         Fate(i) = "dropped"
                    /\ i \notin offered => Fate(i) = "unsent"
  BY DEF FateByPlace
<1>1. i \in offered <=> i \in stored \union Waiting \union rejected \union dropped \union reported
  BY DEF Ledger
<1>2. CASE i \in stored
  BY <1>1, <1>2 DEF Fate, Waiting
<1>3. CASE i \notin stored /\ i \in Waiting
  BY <1>1, <1>3 DEF Fate, Waiting
<1>4. CASE i \notin stored \union Waiting /\ i \in rejected
  BY <1>1, <1>4 DEF Fate, Waiting
<1>5. CASE i \notin stored \union Waiting \union rejected /\ i \in offered
  BY <1>1, <1>5 DEF Fate, Waiting
<1>6. CASE i \notin offered
  BY <1>1, <1>6 DEF Fate, Waiting
<1> QED
  BY <1>1, <1>2, <1>3, <1>4, <1>5, <1>6

(* Items that settle move as the delivery allows. *)
LEMMA Moving ==
  ASSUME Ledger, FateByPlace, FateByPlace', Ledger', Settles
  PROVE  [Promise!Next]_([i \in Items |-> Fate(i)])
<1>1. ASSUME NEW i \in Items
      PROVE  /\ Fate(i)' \in Promise!Fates
             /\ Fate(i)' = Fate(i) \/ <<Fate(i), Fate(i)'>> \in Promise!Moves
  <2>1. /\ i \in stored => Fate(i) = "stored"
        /\ i \notin stored /\ i \in Waiting => Fate(i) = "pending"
        /\ i \notin stored \union Waiting /\ i \in rejected => Fate(i) = "rejected"
        /\ i \notin stored \union Waiting \union rejected /\ i \in offered => Fate(i) = "dropped"
        /\ i \notin offered => Fate(i) = "unsent"
    BY DEF FateByPlace
  <2>2. /\ i \in stored' => Fate(i)' = "stored"
        /\ i \notin stored' /\ i \in Waiting' => Fate(i)' = "pending"
        /\ i \notin stored' \union Waiting' /\ i \in rejected' => Fate(i)' = "rejected"
        /\ i \notin stored' \union Waiting' \union rejected' /\ i \in offered' =>
             Fate(i)' = "dropped"
        /\ i \notin offered' => Fate(i)' = "unsent"
    BY DEF FateByPlace
  <2>3. /\ i \in stored \union Waiting \union rejected => i \in offered
        /\ i \in stored' \union Waiting' \union rejected' => i \in offered'
    BY DEF Ledger
  <2>4. /\ i \in offered => i \in offered'
        /\ i \in rejected => i \in rejected'
        /\ i \in stored => i \in stored'
        /\ i \in stored' => i \in stored \/ i \in offered
        /\ i \in Waiting' /\ i \in offered => i \in Waiting
        /\ i \in rejected' => i \in rejected \/ i \in Waiting \/ i \in stored
    BY DEF Settles
  <2> QED
    BY <2>1, <2>2, <2>3, <2>4 DEF Promise!Fates, Promise!Moves
<1> QED
  BY <1>1 DEF Promise!Next

(* With one thread, what is in hand is what that thread has. *)
LEMMA Hand ==
  ASSUME NEW th, Threads = {th}
  PROVE  InHand = IF threads[th] # None /\ threads[th].at \in Building
                  THEN {threads[th].item}
                       \union (IF threads[th].at = "record" THEN {threads[th].gone} ELSE {})
                  ELSE {}
  BY DEF InHand, At, Building

(* An item is a span, or the trace of a root span. *)
LEMMA ItemKinds ==
  /\ \A s \in Spans : SpanItem(s).kind = "span" /\ SpanItem(s).of = s /\ SpanItem(s) \in Items
  /\ \A s \in Roots : TraceItem(s).kind = "trace" /\ TraceItem(s).of = s /\ TraceItem(s) \in Items
  /\ \A i \in Items : \/ i.kind = "span" /\ i.of \in Spans /\ i = SpanItem(i.of)
                      \/ i.kind = "trace" /\ i.of \in Roots /\ i = TraceItem(i.of)
<1>1. ASSUME NEW s \in Spans
      PROVE  SpanItem(s).kind = "span" /\ SpanItem(s).of = s /\ SpanItem(s) \in Items
  BY DEF Items, SpanItems, SpanItem
<1>2. ASSUME NEW s \in Roots
      PROVE  TraceItem(s).kind = "trace" /\ TraceItem(s).of = s /\ TraceItem(s) \in Items
  BY DEF Items, TraceItems, TraceItem
<1>3. ASSUME NEW i \in Items
      PROVE  \/ i.kind = "span" /\ i.of \in Spans /\ i = SpanItem(i.of)
             \/ i.kind = "trace" /\ i.of \in Roots /\ i = TraceItem(i.of)
  <2>1. ASSUME NEW s \in Spans, i = SpanItem(s)
        PROVE  i.kind = "span" /\ i.of \in Spans /\ i = SpanItem(i.of)
    BY <1>1, <2>1
  <2>2. ASSUME NEW s \in Roots, i = TraceItem(s)
        PROVE  i.kind = "trace" /\ i.of \in Roots /\ i = TraceItem(i.of)
    BY <1>2, <2>2
  <2> QED
    BY <2>1, <2>2 DEF Items, SpanItems, TraceItems
<1> QED
  BY <1>1, <1>2, <1>3

(* An item that is offered for the first time is in hand. *)
LEMMA OfferSettles ==
  ASSUME TypeOK, Ledger, NEW th, Threads = {th}, InHand = {},
         NEW i \in Items, i \notin offered, Offer(th, i),
         i.kind = "span" /\ i.of \in Roots => TraceItem(i.of) \notin offered,
         i.kind = "trace" => SpanItem(i.of) \in offered
  PROVE  Ledger' /\ Settles
<1>1. /\ offered' = offered \union {i}
      /\ UNCHANGED <<late, stored, reported, rejected, dropped>>
      /\ Buffered' = Buffered /\ Count' = Count
  BY DEF Offer, server, Buffered, Count
<1>2. PICK work \in Work :
        /\ threads'[th] = work
        /\ \/ work = [at |-> "append", item |-> i]
           \/ Full /\ work = [at |-> "scan", item |-> i, list |-> "span", index |-> 1]
           \/ work = [at |-> "record", item |-> i, gone |-> i]
  <2>1. [at |-> "append", item |-> i] \in Work
    BY DEF Work
  <2>2. [at |-> "scan", item |-> i, list |-> "span", index |-> 1] \in Work
    BY DEF Work
  <2>3. [at |-> "record", item |-> i, gone |-> i] \in Work
    BY DEF Work
  <2> QED
    BY <2>1, <2>2, <2>3 DEF Offer, Goto, TypeOK
<1>3. InHand' = {i}
  BY <1>2, IdleAssumption DEF InHand, At
<1>4. Waiting' = Waiting \union {i}
  BY <1>1, <1>3 DEF Waiting
<1>5. offered' = stored' \union Waiting' \union rejected' \union dropped' \union reported'
  BY <1>1, <1>4 DEF Ledger
<1>6. \A batch \in late' : batch \subseteq offered'
  BY <1>1 DEF Ledger
<1>7. ASSUME NEW s \in Roots, TraceItem(s) \in offered' PROVE SpanItem(s) \in offered'
  <2>1. CASE TraceItem(s) = i
    BY <1>1, <2>1, ItemKinds
  <2> QED
    BY <1>1, <1>7, <2>1 DEF Ledger
<1>8. WorkSound(work)'
  <2>1. ASSUME i.kind = "span", i.of \in Roots PROVE TraceItem(i.of) \notin offered'
    BY <1>1, <2>1, ItemKinds
  <2>2. work.at = "scan" => Count' > 0
    BY <1>1, <1>2, FullCount
  <2>3. work.at \in {"append", "scan", "record"} /\ work.item = i
    BY <1>2
  <2> QED
    BY <2>1, <2>2, <2>3 DEF WorkSound
<1>9. \A u \in Threads' : threads'[u] # None => WorkSound(threads[u])'
  <2>1. ASSUME threads'[th] # None PROVE WorkSound(threads[th])'
    BY <1>2, <1>8, <2>1 DEF WorkSound
  <2> QED
    BY <2>1
<1> QED
  BY <1>1, <1>4, <1>5, <1>6, <1>7, <1>9 DEF Ledger, Settles

(* A step of the exporter that moves items between hand, buffer and record. *)
LEMMA Moved ==
  ASSUME Ledger, NEW th, Threads = {th},
         UNCHANGED <<late, stored, offered, reported, rejected>>,
         Waiting' \subseteq Waiting, Waiting' \union dropped' = Waiting \union dropped,
         threads'[th] # None => WorkSound(threads[th])'
  PROVE  Ledger' /\ Settles
<1>1. offered' = stored' \union Waiting' \union rejected' \union dropped' \union reported'
  BY DEF Ledger
<1>2. \A u \in Threads' : threads'[u] # None => WorkSound(threads[u])'
  OBVIOUS
<1> QED
  BY <1>1, <1>2 DEF Ledger, Settles

(* The item is done with, and the thread goes on to the trace, if there is one. *)
LEMMA AfterSound ==
  ASSUME NEW w, WorkSound(w), w.at \in Building, w.item \in Items, w.item \in offered,
         offered' = offered, NEW work, work = After(w.item), work # None
  PROVE  WorkSound(work)'
<1>1. /\ work = [at |-> "trace", of |-> w.item.of]
      /\ w.item.kind = "span" /\ w.item.of \in Roots
  BY DEF After
<1>2. TraceItem(w.item.of) \notin offered' /\ SpanItem(w.item.of) \in offered'
  BY <1>1, ItemKinds DEF WorkSound
<1> QED
  BY <1>1, <1>2 DEF WorkSound, Building

LEMMA AppendSettles ==
  ASSUME TypeOK, Ledger, NEW th, Threads = {th}, AppendItem(th)
  PROVE  Ledger' /\ Settles
<1> DEFINE i == threads[th].item
<1>1. threads[th] # None /\ threads[th].at = "append" /\ i \in Items /\ WorkSound(threads[th])
  BY WorkFields DEF AppendItem, At, Building, TypeOK, Ledger
<1>2. InHand = {i}
  BY <1>1, Hand DEF Building
<1>3. Buffered' = Buffered \union {i}
  <2>1. ASSUME NEW queue \in Seq(Items) PROVE ToSet(Append(queue, i)) = ToSet(queue) \union {i}
    <3>1. /\ DOMAIN Append(queue, i) = DOMAIN queue \union {Len(queue) + 1}
          /\ \A k \in DOMAIN queue : Append(queue, i)[k] = queue[k]
          /\ Append(queue, i)[Len(queue) + 1] = i
      BY <1>1
    <3> QED
      BY <3>1 DEF ToSet
  <2>2. spans \in Seq(Items) /\ traces \in Seq(Items)
    BY DEF TypeOK, Items
  <2>3. \/ spans' = Append(spans, i) /\ traces' = traces
        \/ traces' = Append(traces, i) /\ spans' = spans
    BY DEF AppendItem
  <2> QED
    BY <2>1, <2>2, <2>3, Zenon DEF Buffered
<1>4. threads'[th] = After(i) /\ UNCHANGED <<dropped, late, stored, offered, reported, rejected>>
  BY DEF AppendItem, Goto, TypeOK, server, history
<1>5. InHand' = {}
  BY <1>4 DEF InHand, At, After
<1>6. Waiting' = Waiting
  BY <1>2, <1>3, <1>5 DEF Waiting
<1>7. i \in offered
  BY <1>2 DEF Ledger, Waiting
<1>8. threads'[th] # None => WorkSound(threads[th])'
  <2>1. SUFFICES ASSUME threads'[th] # None PROVE WorkSound(threads[th])'
    OBVIOUS
  <2>2. PICK work : work = After(i)
    OBVIOUS
  <2>3. WorkSound(work)'
    BY <1>1, <1>4, <1>7, <2>1, <2>2, AfterSound DEF Building
  <2> QED
    BY <1>4, <2>2, <2>3 DEF WorkSound
<1> QED
  BY <1>4, <1>6, <1>8, Moved

(* The search for an item to evict ends at one that is there. *)
LEMMA SearchSettles ==
  ASSUME TypeOK, Ledger, NEW th, Threads = {th}, Scan(th) \/ Choose(th)
  PROVE  Ledger' /\ Settles
<1> DEFINE w == threads[th]
<1>1. /\ w # None /\ w \in Work /\ w.at \in {"scan", "choose"} /\ w.item \in Items
      /\ WorkSound(w)
  BY WorkFields DEF Scan, Choose, At, Building, TypeOK, Ledger
<1>2. UNCHANGED <<spans, traces, dropped, late, stored, offered, reported, rejected>>
  BY DEF Scan, Choose, server, history
<1>3. PICK work :
        /\ threads'[th] = work /\ work.at \in {"scan", "choose", "pop"} /\ work.item = w.item
        /\ work.at = "pop" => work.index \in DOMAIN Queue(work.list)
  <2>1. CASE Scan(th)
    BY <2>1, Scanned
  <2>2. CASE Choose(th)
    <3>1. threads'[th] = [at |-> "pop", item |-> w.item, index |-> 1,
                          list |-> IF spans # <<>> THEN "span" ELSE "trace"]
      BY <2>2 DEF Choose, Goto, TypeOK
    <3>2. Count > 0
      BY <1>1 DEF WorkSound
    <3>3. CASE spans # <<>>
      <4>1. 1 \in DOMAIN spans
        BY <3>3 DEF TypeOK
      <4> QED
        BY <3>1, <3>3, <4>1 DEF Queue
    <3>4. CASE spans = <<>>
      <4>1. 1 \in DOMAIN traces
        BY <3>2, <3>4 DEF TypeOK, Count
      <4> QED
        BY <3>1, <3>4, <4>1 DEF Queue
    <3> QED
      BY <3>3, <3>4
  <2> QED
    BY <2>1, <2>2
<1>4. threads'[th] # None
  <2>1. threads'[th] \in Work
    <3>1. CASE Scan(th)
      <4>1. /\ w.list \in {"span", "trace"} /\ w.index \in Nat \ {0}
            /\ w.index + 1 \in Nat \ {0}
        BY <1>1, <3>1, WorkFields DEF Scan, At
      <4>2. [at |-> "pop", item |-> w.item, list |-> w.list, index |-> w.index] \in Work
        BY <1>1, <4>1 DEF Work
      <4>3. [at |-> "scan", item |-> w.item, list |-> w.list, index |-> w.index + 1] \in Work
        BY <1>1, <4>1 DEF Work
      <4>4. [at |-> "scan", item |-> w.item, list |-> "trace", index |-> 1] \in Work
        BY <1>1 DEF Work
      <4>5. [at |-> "choose", item |-> w.item] \in Work
        BY <1>1 DEF Work
      <4> QED
        BY <3>1, <4>2, <4>3, <4>4, <4>5, Scanned
    <3>2. CASE Choose(th)
      <4>1. PICK l \in {"span", "trace"} :
              threads'[th] = [at |-> "pop", item |-> w.item, index |-> 1, list |-> l]
        BY <3>2 DEF Choose, Goto, TypeOK
      <4> QED
        BY <1>1, <4>1 DEF Work
    <3> QED
      BY <3>1, <3>2
  <2> QED
    BY <2>1, IdleAssumption
<1>5. InHand = {w.item} /\ InHand' = {w.item}
  <2>1. InHand = {w.item}
    BY <1>1, Hand DEF Building
  <2>2. InHand' = {w.item}
    BY <1>3, <1>4 DEF InHand, At
  <2> QED
    BY <2>1, <2>2
<1>6. Waiting' = Waiting /\ Count' = Count
  BY <1>2, <1>5 DEF Waiting, Buffered, Count
<1>7. WorkSound(threads[th])'
  <2>1. w.item.kind = "span" /\ w.item.of \in Roots => TraceItem(w.item.of) \notin offered
    BY <1>1 DEF WorkSound, Building
  <2>2. Count > 0
    BY <1>1 DEF WorkSound
  <2>3. Queue(work.list)' = Queue(work.list)
    BY <1>2 DEF Queue
  <2>4. WorkSound(work)'
    BY <1>2, <1>3, <1>6, <2>1, <2>2, <2>3 DEF WorkSound
  <2> QED
    BY <1>3, <2>4 DEF WorkSound
<1> QED
  BY <1>2, <1>6, <1>7, Moved

(* With one thread the pop finds the item the search ended at, and takes it in
   hand. *)
LEMMA PopSettles ==
  ASSUME TypeOK, Ledger, NEW th, Threads = {th}, Pop(th)
  PROVE  Ledger' /\ Settles
<1> DEFINE w == threads[th]
           g == Queue(w.list)[w.index]
<1>1. w # None /\ w.at = "pop" /\ WorkSound(w) /\ w.index \in DOMAIN Queue(w.list)
  BY DEF Pop, At, Ledger, WorkSound
<1>2. /\ w.item \in Items /\ g \in Items /\ Buffered = Buffered' \union {g}
      /\ threads'[th] = [at |-> "record", item |-> w.item, gone |-> g]
  BY <1>1, Popped DEF TypeOK
<1>3. UNCHANGED <<dropped, late, stored, offered, reported, rejected>>
  BY DEF Pop, server, history
<1>4. threads'[th] # None
  BY <1>2, WorkBuilt, IdleAssumption
<1>5. InHand = {w.item} /\ InHand' = {w.item, g}
  <2>1. InHand = {w.item}
    BY <1>1, Hand DEF Building
  <2>2. InHand' = {w.item, g}
    BY <1>2, <1>4 DEF InHand, At
  <2> QED
    BY <2>1, <2>2
<1>6. Waiting' = Waiting
  BY <1>2, <1>5 DEF Waiting
<1>7. WorkSound(threads[th])'
  <2>1. w.item.kind = "span" /\ w.item.of \in Roots => TraceItem(w.item.of) \notin offered'
    BY <1>1, <1>3 DEF WorkSound, Building
  <2> QED
    BY <1>2, <2>1 DEF WorkSound
<1> QED
  BY <1>3, <1>6, <1>7, Moved

(* What goes on record was in hand: the item itself, or the one that made room. *)
LEMMA RecordSettles ==
  ASSUME TypeOK, Ledger, NEW th, Threads = {th}, Record(th)
  PROVE  Ledger' /\ Settles
<1> DEFINE w == threads[th]
<1>1. w # None /\ w.at = "record" /\ w.item \in Items /\ w.gone \in Items /\ WorkSound(w)
  BY WorkFields DEF Record, At, Building, TypeOK, Ledger
<1>2. /\ UNCHANGED <<spans, traces, late, stored, offered, reported, rejected>>
      /\ dropped' = dropped \union {w.gone} /\ Buffered' = Buffered
  BY DEF Record, server, history, Buffered
<1>3. InHand = {w.item, w.gone}
  BY <1>1, Hand DEF Building
<1>4. w.item \in offered
  BY <1>3 DEF Ledger, Waiting
<1>5. CASE w.gone = w.item
  <2>1. threads'[th] = After(w.item)
    BY <1>5 DEF Record, Goto, TypeOK
  <2>2. InHand' = {}
    BY <2>1 DEF InHand, At, After
  <2>3. Waiting' \subseteq Waiting /\ Waiting' \union dropped' = Waiting \union dropped
    BY <1>2, <1>3, <1>5, <2>2 DEF Waiting
  <2>4. threads'[th] # None => WorkSound(threads[th])'
    <3>1. SUFFICES ASSUME threads'[th] # None PROVE WorkSound(threads[th])'
      OBVIOUS
    <3>2. PICK work : work = After(w.item)
      OBVIOUS
    <3>3. WorkSound(work)'
      BY <1>1, <1>2, <1>4, <2>1, <3>1, <3>2, AfterSound DEF Building
    <3> QED
      BY <2>1, <3>2, <3>3 DEF WorkSound
  <2> QED
    BY <1>2, <2>3, <2>4, Moved
<1>6. CASE w.gone # w.item
  <2>1. threads'[th] = [at |-> "append", item |-> w.item] /\ threads'[th] # None
    BY <1>1, <1>6, WorkBuilt, IdleAssumption DEF Record, Goto, TypeOK
  <2>2. InHand' = {w.item}
    BY <2>1 DEF InHand, At
  <2>3. Waiting' \subseteq Waiting /\ Waiting' \union dropped' = Waiting \union dropped
    BY <1>2, <1>3, <2>2 DEF Waiting
  <2>4. w.item.kind = "span" /\ w.item.of \in Roots => TraceItem(w.item.of) \notin offered'
    BY <1>1, <1>2 DEF WorkSound, Building
  <2>5. WorkSound(threads[th])'
    BY <2>1, <2>4 DEF WorkSound
  <2> QED
    BY <1>2, <2>3, <2>5, Moved
<1> QED
  BY <1>5, <1>6

(* The steps of a request: it is made of the whole buffer, and the buffer stays as
   it is until the answer. *)
LEMMA RequestSettles ==
  ASSUME TypeOK, Ledger, NEW th, Threads = {th},
         Post(th) \/ IngestBatch(th) \/ ServerFails(th) \/ Timeout(th)
  PROVE  Ledger' /\ Settles
<1>1. /\ InHand = {}
      /\ threads[th] = None \/ threads[th].at = "posted"
  BY Hand DEF Building, At, Post, IngestBatch, ServerFails, Timeout
<1>2. threads[th] # None => threads[th].batch = Buffered /\ threads[th].diagnostics = dropped
  BY <1>1 DEF Ledger, WorkSound
<1>3. /\ UNCHANGED <<spans, traces, dropped, offered, reported, rejected>>
      /\ Buffered' = Buffered
  BY DEF Post, IngestBatch, ServerFails, Timeout, history, Buffered
<1>4. /\ stored \subseteq stored' /\ stored' \subseteq stored \union Buffered
      /\ \A batch \in late' : batch \in late \/ batch = Buffered
  <2>1. CASE Post(th)
    BY <2>1 DEF Post, server
  <2>2. CASE IngestBatch(th)
    <3>1. threads[th].batch = Buffered
      BY <1>2, <2>2 DEF IngestBatch, At
    <3> QED
      BY <2>2, <3>1 DEF IngestBatch
  <2>3. CASE ServerFails(th)
    <3>1. threads[th].batch = Buffered
      BY <1>2, <2>3 DEF ServerFails, At
    <3> QED
      BY <2>3, <3>1 DEF ServerFails
  <2>4. CASE Timeout(th)
    <3>1. threads[th].batch = Buffered
      BY <1>2, <2>4 DEF Timeout, At
    <3> QED
      BY <2>4, <3>1 DEF Timeout
  <2> QED
    BY <2>1, <2>2, <2>3, <2>4
<1>5. ASSUME NEW answer, NEW refused, Answered(th, answer, refused),
             threads[th] # None, refused \subseteq Buffered,
             answer = "207" => Buffered \subseteq stored' \union refused
      PROVE  threads'[th].at = "answered" /\ WorkSound(threads[th])'
  <2>1. threads'[th] = [at |-> "answered", answer |-> answer, refused |-> refused,
                        diagnostics |-> dropped]
    BY <1>2, <1>5 DEF Answered, Goto, TypeOK
  <2> QED
    BY <1>3, <1>5, <2>1 DEF WorkSound, Building
<1>6. threads'[th] # None =>
        threads'[th].at \in {"posted", "answered"} /\ WorkSound(threads[th])'
  <2>1. CASE Post(th)
    <3>1. threads'[th] = [at |-> "posted", batch |-> Buffered, diagnostics |-> dropped]
      BY <2>1 DEF Post, Goto, TypeOK
    <3> QED
      BY <1>3, <3>1 DEF WorkSound, Building
  <2>2. CASE Timeout(th)
    BY <2>2 DEF Timeout, Goto, TypeOK
  <2>3. CASE ServerFails(th)
    <3>1. Answered(th, "5xx", {}) /\ threads[th] # None
      BY <2>3 DEF ServerFails, At
    <3> QED
      BY <3>1, <1>5
  <2>4. CASE IngestBatch(th)
    <3>1. threads[th] # None
      BY <2>4 DEF IngestBatch, At
    <3>2. CASE Answered(th, "429", {})
      BY <3>1, <3>2, <1>5
    <3>3. ASSUME NEW accepted \in SUBSET Buffered, stored' = stored \union accepted,
                 Answered(th, "207", Buffered \ accepted)
          PROVE  threads'[th].at = "answered" /\ WorkSound(threads[th])'
      <4>1. Buffered \subseteq stored' \union (Buffered \ accepted)
        BY <3>3
      <4> QED
        BY <3>1, <3>3, <4>1, <1>5
    <3> QED
      BY <1>2, <2>4, <3>1, <3>2, <3>3 DEF IngestBatch
  <2> QED
    BY <2>1, <2>2, <2>3, <2>4
<1>7. InHand' = {}
  BY <1>6 DEF InHand, At
<1>8. Waiting' = Waiting /\ Waiting = Buffered
  BY <1>1, <1>3, <1>7 DEF Waiting
<1>9. Settles
  BY <1>3, <1>4, <1>8 DEF Settles, Ledger
<1>10. offered' = stored' \union Waiting' \union rejected' \union dropped' \union reported'
  BY <1>3, <1>4, <1>8 DEF Ledger
<1>11. \A batch \in late' : batch \subseteq offered'
  BY <1>3, <1>4, <1>8 DEF Ledger
<1>12. \A s \in Roots : TraceItem(s) \in offered' => SpanItem(s) \in offered'
  BY <1>3 DEF Ledger
<1> QED
  BY <1>6, <1>9, <1>10, <1>11, <1>12 DEF Ledger

(* The answer clears the buffer of what was stored or refused. *)
LEMMA ReturnSettles ==
  ASSUME TypeOK, Ledger, NEW th, Threads = {th}, Return(th)
  PROVE  Ledger' /\ Settles
<1> DEFINE work == threads[th]
<1>1. /\ InHand = {} /\ work.diagnostics = dropped /\ work.refused \subseteq Buffered
      /\ work.answer = "207" => Buffered \subseteq stored \union work.refused
  BY Hand DEF Building, At, Return, Ledger, WorkSound
<1>2. threads'[th] = None /\ UNCHANGED <<late, stored, offered>>
  BY DEF Return, Goto, TypeOK, server
<1>3. InHand' = {}
  BY <1>2 DEF InHand, At
<1>4. CASE ~Succeeded(work.answer)
  <2>1. UNCHANGED <<dropped, reported, rejected>> /\ Waiting' = Waiting
    BY <1>1, <1>3, <1>4 DEF Return, Waiting, Buffered
  <2> QED
    BY <1>2, <2>1 DEF Ledger, Settles
<1>5. CASE Succeeded(work.answer)
  <2>1. /\ spans' = <<>> /\ traces' = <<>> /\ dropped' = {}
        /\ reported' = reported \union dropped /\ rejected' = rejected \union work.refused
    BY <1>1, <1>5 DEF Return
  <2>2. Waiting' = {}
    BY <1>3, <2>1 DEF Waiting, Buffered, ToSet
  <2>3. Waiting = Buffered /\ Buffered \subseteq stored \union work.refused
    BY <1>1, <1>5 DEF Waiting, Succeeded
  <2>4. Settles
    BY <1>1, <1>2, <2>1, <2>2, <2>3 DEF Settles
  <2>5. offered' = stored' \union Waiting' \union rejected' \union dropped' \union reported'
    BY <1>1, <1>2, <2>1, <2>2, <2>3 DEF Ledger
  <2> QED
    BY <1>2, <2>4, <2>5 DEF Ledger
<1> QED
  BY <1>4, <1>5

(* Every item that is offered is stored, waits, or is on record as dropped or
   rejected, and keeps to the moves of the abstract delivery: an application with
   one thread loses nothing silently, whatever the server and its answers do. *)
THEOREM Delivers ==
  ASSUME NEW th, Threads = {th}
  PROVE  Spec => DeliveryPromise
<1>1. Init => Ledger
  <2> SUFFICES ASSUME Init PROVE Ledger
    OBVIOUS
  <2>1. Buffered = {} /\ InHand = {} /\ \A u \in Threads : threads[u] = None
    BY DEF Init, Buffered, ToSet, InHand, At
  <2> QED
    BY <2>1 DEF Init, Ledger, Waiting
<1>2. Init => Promise!Init
  <2>1. ASSUME Init, NEW i \in Items PROVE Fate(i) = "unsent"
    BY <1>1, <2>1, FatesKnown DEF FateByPlace, Init
  <2> QED
    BY <2>1 DEF Promise!Init
<1>3. TypeOK /\ Ledger /\ [Next]_vars => Ledger' /\ (Settles \/ UNCHANGED vars)
  <2> SUFFICES ASSUME TypeOK, Ledger, [Next]_vars PROVE Ledger' /\ (Settles \/ UNCHANGED vars)
    OBVIOUS
  <2>1. ASSUME NEW s \in Spans, EndSpan(th, s) PROVE Ledger' /\ Settles
    <3>1. InHand = {} /\ SpanItem(s) \notin offered /\ Offer(th, SpanItem(s))
      BY <2>1, Hand DEF EndSpan, Building
    <3>2. s \in Roots => TraceItem(s) \notin offered
      BY <3>1 DEF Ledger
    <3> QED
      BY <3>1, <3>2, ItemKinds, OfferSettles
  <2>2. ASSUME ExportTrace(th) PROVE Ledger' /\ Settles
    <3>1. /\ threads[th] \in Work /\ threads[th].at = "trace" /\ threads[th].of \in Roots
          /\ WorkSound(threads[th])
      BY <2>2, WorkFields DEF ExportTrace, At, TypeOK, Ledger
    <3>2. InHand = {} /\ Offer(th, TraceItem(threads[th].of))
      BY <2>2, <3>1, Hand DEF ExportTrace, Building
    <3>3. TraceItem(threads[th].of) \notin offered /\ SpanItem(threads[th].of) \in offered
      BY <3>1 DEF WorkSound
    <3> QED
      BY <3>1, <3>2, <3>3, ItemKinds, OfferSettles
  <2>3. ASSUME NEW batch \in late, IngestLate(batch) PROVE Ledger' /\ Settles
    <3>1. /\ UNCHANGED <<spans, traces, dropped, threads, offered, reported, rejected>>
          /\ late' \subseteq late /\ stored \subseteq stored' /\ stored' \subseteq stored \union batch
      BY <2>3 DEF IngestLate, history
    <3>2. Waiting' = Waiting /\ Buffered' = Buffered
      BY <3>1 DEF Waiting, Buffered, InHand, At
    <3>3. batch \subseteq offered
      BY DEF Ledger
    <3>4. \A u \in Threads : threads'[u] # None => WorkSound(threads[u])'
      BY <3>1, <3>2 DEF Ledger, WorkSound, Count, Queue
    <3> QED
      BY <3>1, <3>2, <3>3, <3>4 DEF Ledger, Settles
  <2>4. CASE UNCHANGED vars
    <3>1. Waiting' = Waiting /\ Buffered' = Buffered
      BY <2>4 DEF Waiting, Buffered, InHand, At, vars
    <3> QED
      BY <2>4, <3>1 DEF Ledger, WorkSound, Count, Queue, vars
  <2> QED
    BY <2>1, <2>2, <2>3, <2>4, AppendSettles, SearchSettles, PopSettles, RecordSettles,
       RequestSettles, ReturnSettles DEF Next, Step
<1>4. Ledger /\ Ledger' /\ FateByPlace /\ FateByPlace' /\ (Settles \/ UNCHANGED vars)
      => [Promise!Next]_([i \in Items |-> Fate(i)])
  <2>1. CASE UNCHANGED vars
    BY <2>1 DEF vars, Fate, Buffered, InHand, At
  <2> QED
    BY <2>1, Moving
<1> QED
  BY <1>1, <1>2, <1>3, <1>4, FatesKnown, Typing, PTL DEF Spec, DeliveryPromise, Promise!Spec

-----------------------------------------------------------------------------
(* SpanFidelity: the spans of the application. *)

EventRecord == [kind : {"stream", "step", "exception"}, stream : {0}, other : {0}]

SpanTable == recorded \in [TracedSpans -> SpanRecord \union {None}]

Started(s) == recorded[s] # None

\* Of a span that was started the process, the trace and the decision stay, and its
\* exports are counted upward; those of a process that waits for a request stay.
SpansGrow ==
  \A s \in TracedSpans : Started(s) =>
    /\ Started(s)'
    /\ recorded'[s].process = recorded[s].process
    /\ recorded'[s].trace = recorded[s].trace
    /\ recorded'[s].sampled = recorded[s].sampled
    /\ recorded'[s].exports >= recorded[s].exports
    /\ ~Free(recorded[s].process) => recorded'[s].exports = recorded[s].exports

\* A span that begins has no exports.
LEMMA Beginning ==
  ASSUME SpanTable, NEW s \in TracedSpans, NEW span \in SpanRecord, Begin(s, span)
  PROVE  /\ SpanTable' /\ SpansGrow
         /\ \A r \in TracedSpans : recorded'[r] = IF r = s THEN span ELSE recorded[r]
         /\ recorded[s] = None /\ span # None
<1>1. span # None
  BY FidelityAssumption
<1>2. \A r \in TracedSpans : recorded'[r] = IF r = s THEN span ELSE recorded[r]
  BY DEF SpanTable, Begin
<1>3. SpanTable'
  BY <1>2 DEF SpanTable, Begin
<1>4. \A r \in TracedSpans : Started(r) => recorded[r].exports \in Nat
  BY DEF SpanTable, Started, SpanRecord
<1>. QED
  BY <1>1, <1>2, <1>3, <1>4 DEF SpansGrow, Started, Begin

\* One span is replaced by another of its process, trace and decision.
LEMMA Rewriting ==
  ASSUME SpanTable, NEW s \in TracedSpans, Started(s), NEW span \in SpanRecord,
         recorded' = [recorded EXCEPT ![s] = span],
         span.process = recorded[s].process, span.trace = recorded[s].trace,
         span.sampled = recorded[s].sampled, span.exports >= recorded[s].exports,
         ~Free(recorded[s].process) => span.exports = recorded[s].exports
  PROVE  /\ SpanTable' /\ SpansGrow
         /\ \A r \in TracedSpans : recorded'[r] = IF r = s THEN span ELSE recorded[r]
<1>1. span # None
  BY FidelityAssumption
<1>2. \A r \in TracedSpans : recorded'[r] = IF r = s THEN span ELSE recorded[r]
  BY DEF SpanTable
<1>3. SpanTable'
  BY <1>2 DEF SpanTable
<1>4. \A r \in TracedSpans : Started(r) => recorded[r].exports \in Nat
  BY DEF SpanTable, Started, SpanRecord
<1>. QED
  BY <1>1, <1>2, <1>3, <1>4 DEF SpansGrow, Started

\* No span is begun or exported.
NoExport ==
  \A r \in TracedSpans : /\ Started(r)' => Started(r)
                         /\ Started(r) => recorded'[r].exports = recorded[r].exports

LEMMA Adding ==
  ASSUME SpanTable, NEW s \in TracedSpans, NEW kind \in {"stream", "step"}, AddEvent(s, kind)
  PROVE  SpanTable' /\ SpansGrow /\ NoExport
<1>1. Started(s) /\ recorded[s] \in SpanRecord
  BY DEF AddEvent, Open, Started, SpanTable
<1>2. PICK span : span = [recorded[s] EXCEPT !.events = Append(@, Event(kind))]
  OBVIOUS
<1>3. /\ span \in SpanRecord /\ span.process = recorded[s].process
      /\ span.trace = recorded[s].trace /\ span.sampled = recorded[s].sampled
      /\ span.exports = recorded[s].exports /\ span.exports \in Nat
  <2>1. Append(recorded[s].events, Event(kind)) \in Seq(EventRecord)
    <3>1. Event(kind) \in EventRecord
      BY DEF Event, EventRecord
    <3>2. recorded[s].events \in Seq(EventRecord)
      BY <1>1 DEF SpanRecord, EventRecord
    <3>. QED
      BY <3>1, <3>2
  <2>. QED
    BY <1>1, <1>2, <2>1 DEF SpanRecord, EventRecord
<1>4. recorded' = [recorded EXCEPT ![s] = span]
  BY <1>2 DEF AddEvent, SpanTable
<1>5. span.exports >= recorded[s].exports
  BY <1>3
<1>6. /\ SpanTable' /\ SpansGrow
      /\ \A r \in TracedSpans : recorded'[r] = IF r = s THEN span ELSE recorded[r]
  BY <1>1, <1>3, <1>4, <1>5, Rewriting
<1>. QED
  BY <1>1, <1>3, <1>6 DEF Started, NoExport

\* What an export leaves of its span.
LEMMA Exporting ==
  ASSUME SpanTable, NEW s \in TracedSpans, Started(s), NEW span \in SpanRecord, NEW partial,
         span.process = recorded[s].process, span.trace = recorded[s].trace,
         span.sampled = recorded[s].sampled, span.exports = recorded[s].exports,
         Export(s, span, partial)
  PROVE  /\ SpanTable' /\ SpansGrow
         /\ Free(span.process)
         /\ recorded'[s].exports = span.exports + 1 /\ recorded'[s].process = span.process
         /\ \A r \in TracedSpans : r # s => recorded'[r] = recorded[r]
<1>1. PICK after : after = [span EXCEPT !.exports = @ + 1]
  OBVIOUS
<1>2. /\ after \in SpanRecord /\ after.process = span.process
      /\ after.trace = span.trace /\ after.sampled = span.sampled
      /\ after.exports = span.exports + 1 /\ span.exports \in Nat
  BY <1>1 DEF SpanRecord
<1>3. recorded' = [recorded EXCEPT ![s] = after] /\ Free(span.process)
  BY <1>1 DEF Export
<1>4. /\ after.exports >= recorded[s].exports
      /\ ~Free(recorded[s].process) => after.exports = recorded[s].exports
  BY <1>2, <1>3 DEF Free
<1>5. /\ SpanTable' /\ SpansGrow
      /\ \A r \in TracedSpans : recorded'[r] = IF r = s THEN after ELSE recorded[r]
  BY <1>2, <1>3, <1>4, Rewriting
<1>. QED
  BY <1>2, <1>3, <1>5

-----------------------------------------------------------------------------
(* Exports, and the sequences of them in buffers and requests. *)

ExportFields ==
  {"span", "trace", "root", "keep", "size", "sampled", "partial", "number", "status",
   "payload", "all", "pressed", "events"}

\* An export is one of those its span counts, and is kept in full where it should be.
ExportSound(e) ==
  /\ DOMAIN e = ExportFields
  /\ e.span \in TracedSpans /\ Started(e.span)
  /\ e.number \in 1 .. recorded[e.span].exports
  /\ KeptInAnyCase(e) /\ ~e.pressed =>
       /\ e.payload = sdk.capture
       /\ \A k \in DOMAIN e.events : e.events[k].kind # "omitted"

Batch(items) ==
  /\ \E S : items \in Seq(S)
  /\ \A k \in DOMAIN items : ExportSound(items[k])

\* After every export of a span but the last, in a buffer of its process or in the
\* request that sends it, the last one follows.
LastFollows(items, p) ==
  \A k \in DOMAIN items :
    LET s == items[k].span IN
      /\ recorded[s].process = p
      /\ items[k].number < recorded[s].exports =>
           \E j \in DOMAIN items :
             j > k /\ items[j].span = s /\ items[j].number = recorded[s].exports

RequestSound(request) == DOMAIN request = {"at", "items"} /\ Batch(request.items)

LEMMA ExportStays ==
  ASSUME SpanTable, SpanTable', SpansGrow, sdk' = sdk, NEW e, ExportSound(e)
  PROVE  ExportSound(e)'
<1>1. /\ Started(e.span) /\ Started(e.span)'
      /\ recorded'[e.span].exports >= recorded[e.span].exports
      /\ e.span \in TracedSpans
  BY DEF ExportSound, SpansGrow
<1>2. recorded[e.span].exports \in Nat /\ recorded'[e.span].exports \in Nat
  BY <1>1 DEF SpanTable, Started, SpanRecord
<1>3. e.number \in 1 .. recorded'[e.span].exports
  BY <1>1, <1>2 DEF ExportSound
<1>. QED
  BY <1>1, <1>3 DEF ExportSound, KeptInAnyCase

LEMMA BatchStays ==
  ASSUME SpanTable, SpanTable', SpansGrow, sdk' = sdk, NEW items, Batch(items)
  PROVE  Batch(items)'
<1>1. ASSUME NEW k \in DOMAIN items
      PROVE  ExportSound(items[k])'
  BY ExportStays DEF Batch
<1>. QED
  BY <1>1 DEF Batch

LEMMA RequestStays ==
  ASSUME SpanTable, SpanTable', SpansGrow, sdk' = sdk, NEW request, RequestSound(request)
  PROVE  RequestSound(request)'
BY BatchStays DEF RequestSound

\* While its process exports nothing, nothing is added that would have to follow.
LEMMA FollowStays ==
  ASSUME SpansGrow, NEW items, NEW p, Batch(items), LastFollows(items, p),
         \A s \in TracedSpans : Started(s) /\ recorded[s].process = p
                                => recorded'[s].exports = recorded[s].exports
  PROVE  LastFollows(items, p)'
<1>1. SUFFICES ASSUME NEW k \in DOMAIN items
               PROVE  /\ recorded'[items[k].span].process = p
                      /\ items[k].number < recorded'[items[k].span].exports =>
                           \E j \in DOMAIN items :
                             /\ j > k /\ items[j].span = items[k].span
                             /\ items[j].number = recorded'[items[k].span].exports
  BY DEF LastFollows
<1>2. items[k].span \in TracedSpans /\ Started(items[k].span)
  BY DEF Batch, ExportSound
<1>3. /\ recorded'[items[k].span].process = p
      /\ recorded'[items[k].span].exports = recorded[items[k].span].exports
  BY <1>2 DEF SpansGrow, LastFollows
<1>. QED
  BY <1>3 DEF LastFollows

-----------------------------------------------------------------------------
(* What the endpoint does with a request. *)

\* What has priority loses nothing, unless the batch is too large.
LEMMA PolicySound ==
  ASSUME NEW items, Batch(items), NEW k \in DOMAIN items
  PROVE  /\ ExportSound(Policed(items, k))
         /\ Policed(items, k).span = items[k].span
         /\ Policed(items, k).number = items[k].number
<1>1. ExportSound(items[k])
  BY DEF Batch
<1>2. CASE HasPriority(items, k) /\ ~Pressed(items)
  BY <1>1, <1>2 DEF Policed
<1>3. CASE ~(HasPriority(items, k) /\ ~Pressed(items))
  <2>1. PICK e, events, payload, pressed :
          /\ e = [items[k] EXCEPT !.events = events, !.payload = payload, !.pressed = pressed]
          /\ pressed = Pressed(items) /\ e = Policed(items, k)
    BY <1>3 DEF Policed
  <2>2. /\ DOMAIN e = ExportFields /\ e.span = items[k].span /\ e.number = items[k].number
        /\ e.status = items[k].status /\ e.keep = items[k].keep /\ e.pressed = pressed
    BY <1>1, <2>1 DEF ExportSound, ExportFields
  <2>3. ~(KeptInAnyCase(e) /\ ~e.pressed)
    BY <1>3, <2>1, <2>2 DEF HasPriority, KeptInAnyCase
  <2>. QED
    BY <1>1, <2>1, <2>2, <2>3 DEF ExportSound
<1>. QED
  BY <1>2, <1>3

LEMMA ReceivedSound ==
  ASSUME NEW request, RequestSound(request)
  PROVE  /\ RequestSound(Received(request))
         /\ \A p : LastFollows(request.items, p) => LastFollows(Received(request).items, p)
<1>1. PICK items : items = request.items
  OBVIOUS
<1>2. PICK policed : policed = [k \in DOMAIN items |-> Policed(items, k)]
  OBVIOUS
<1>3. Received(request) = [at |-> "received", items |-> policed]
  BY <1>1, <1>2 DEF Received
<1>4. Batch(items)
  BY <1>1 DEF RequestSound
<1>5. /\ DOMAIN policed = DOMAIN items
      /\ \A k \in DOMAIN items : /\ ExportSound(policed[k])
                                 /\ policed[k].span = items[k].span
                                 /\ policed[k].number = items[k].number
  BY <1>2, <1>4, PolicySound
<1>6. \E S : policed \in Seq(S)
  <2>1. PICK S : items \in Seq(S)
    BY <1>4 DEF Batch
  <2>2. DOMAIN items = 1 .. Len(items) /\ Len(items) \in Nat
    BY <2>1
  <2>3. PICK R : R = {policed[k] : k \in 1 .. Len(items)}
    OBVIOUS
  <2>4. policed \in [1 .. Len(items) -> R]
    BY <1>2, <2>2, <2>3
  <2>5. policed \in Seq(R)
    BY <2>2, <2>4
  <2>. QED
    BY <2>5
<1>7. Batch(policed)
  BY <1>5, <1>6 DEF Batch
<1>8. \A p : LastFollows(items, p) => LastFollows(policed, p)
  BY <1>5 DEF LastFollows
<1>. QED
  BY <1>1, <1>3, <1>7, <1>8 DEF RequestSound

\* The rest of a request whose first item is stored.
LEMMA RestSound ==
  ASSUME NEW items, Batch(items), items # <<>>
  PROVE  /\ Batch(Tail(items)) /\ ExportSound(Head(items))
         /\ \A p : LastFollows(items, p) => LastFollows(Tail(items), p)
<1>1. PICK S : items \in Seq(S)
  BY DEF Batch
<1>2. PICK rest : rest = Tail(items)
  OBVIOUS
<1>3. /\ Len(items) \in Nat \ {0} /\ DOMAIN items = 1 .. Len(items)
      /\ rest \in Seq(S) /\ DOMAIN rest = 1 .. (Len(items) - 1)
      /\ \A k \in DOMAIN rest : k + 1 \in DOMAIN items /\ rest[k] = items[k + 1]
      /\ Head(items) = items[1]
  BY <1>1, <1>2
<1>4. Batch(rest) /\ ExportSound(Head(items))
  BY <1>3 DEF Batch
<1>5. ASSUME NEW p, LastFollows(items, p)
      PROVE  LastFollows(rest, p)
  <2>1. ASSUME NEW k \in DOMAIN rest, rest[k].number < recorded[rest[k].span].exports
        PROVE  \E j \in DOMAIN rest : /\ j > k /\ rest[j].span = rest[k].span
                                      /\ rest[j].number = recorded[rest[k].span].exports
    <3>1. PICK i \in DOMAIN items : /\ i > k + 1 /\ items[i].span = rest[k].span
                                    /\ items[i].number = recorded[rest[k].span].exports
      BY <1>3, <1>5, <2>1 DEF LastFollows
    <3>2. i - 1 \in DOMAIN rest /\ rest[i - 1] = items[i] /\ i - 1 > k
      BY <1>3, <3>1
    <3>. QED
      BY <3>1, <3>2
  <2>. QED
    BY <1>3, <1>5, <2>1 DEF LastFollows
<1>. QED
  BY <1>2, <1>4, <1>5

-----------------------------------------------------------------------------
(* What is on its way, and what is stored. *)

FidelityTables ==
  /\ sdk \in SdkLimits
  /\ SpanTable
  /\ \E S : outbox \in [Processes -> S]
  /\ \E S : posted \in [Processes -> S]
  /\ \E S : spanRows \in [TracedSpans -> S]

ProcessSound(items, request, p) ==
  /\ Batch(items) /\ LastFollows(items, p)
  /\ RequestSound(request) /\ LastFollows(request.items, p)

RowSound(e, s) == e # None => ExportSound(e) /\ e.span = s

SendsSound ==
  /\ \A p \in Processes : ProcessSound(outbox[p], posted[p], p)
  /\ \A request \in abandoned : RequestSound(request)
  /\ \A s \in TracedSpans : RowSound(spanRows[s], s)

\* While the spans stay, what is sound stays sound.
LEMMA SoundStays ==
  ASSUME UNCHANGED <<sdk, recorded>>
  PROVE  /\ \A e : ExportSound(e)' <=> ExportSound(e)
         /\ \A items : Batch(items)' <=> Batch(items)
         /\ \A items, p : LastFollows(items, p)' <=> LastFollows(items, p)
         /\ \A request : RequestSound(request)' <=> RequestSound(request)
<1>1. ASSUME NEW e PROVE ExportSound(e)' <=> ExportSound(e)
  BY DEF ExportSound, Started, KeptInAnyCase
<1>2. ASSUME NEW items PROVE Batch(items)' <=> Batch(items)
  BY <1>1 DEF Batch
<1>3. ASSUME NEW items, NEW p PROVE LastFollows(items, p)' <=> LastFollows(items, p)
  BY DEF LastFollows
<1>4. ASSUME NEW request PROVE RequestSound(request)' <=> RequestSound(request)
  BY <1>2 DEF RequestSound
<1>. QED
  BY <1>1, <1>2, <1>3, <1>4

\* A step that leaves the spans as they are keeps everything sound when what it
\* writes is.
LEMMA Sending ==
  ASSUME SendsSound, UNCHANGED <<sdk, recorded>>,
         \A p \in Processes : \E items, request :
           items = outbox'[p] /\ request = posted'[p] /\ ProcessSound(items, request, p),
         \A request \in abandoned' : RequestSound(request),
         \A s \in TracedSpans : \E e : e = spanRows'[s] /\ RowSound(e, s)
  PROVE  SendsSound'
<1>1. ASSUME NEW p \in Processes
      PROVE  ProcessSound(outbox[p], posted[p], p)'
  <2>1. PICK items, request :
          items = outbox'[p] /\ request = posted'[p] /\ ProcessSound(items, request, p)
    OBVIOUS
  <2>2. /\ Batch(items)' /\ LastFollows(items, p)'
        /\ RequestSound(request)' /\ LastFollows(request.items, p)'
    BY <2>1, SoundStays DEF ProcessSound
  <2>. QED
    BY ONLY <2>1, <2>2
    DEF ProcessSound, RequestSound, Batch, LastFollows, ExportSound, KeptInAnyCase
<1>2. ASSUME NEW request \in abandoned'
      PROVE  RequestSound(request)'
  BY <1>2, SoundStays
<1>3. ASSUME NEW s \in TracedSpans
      PROVE  RowSound(spanRows[s], s)'
  <2>1. PICK e : e = spanRows'[s] /\ RowSound(e, s)
    OBVIOUS
  <2>2. e # None => ExportSound(e)' /\ e.span = s
    BY <2>1, SoundStays DEF RowSound
  <2>. QED
    BY <2>1, <2>2 DEF RowSound, ExportSound, KeptInAnyCase
<1>. QED
  BY <1>1, <1>2, <1>3 DEF SendsSound

\* A step that only begins a span, or adds to one, exports nothing.
LEMMA Staying ==
  ASSUME SendsSound, SpanTable, SpanTable', SpansGrow, sdk' = sdk,
         UNCHANGED <<outbox, posted, abandoned, spanRows>>,
         \A s \in TracedSpans : Started(s) => recorded'[s].exports = recorded[s].exports
  PROVE  SendsSound'
<1>1. ASSUME NEW p \in Processes
      PROVE  ProcessSound(outbox[p], posted[p], p)'
  <2>1. PICK items, request :
          items = outbox[p] /\ request = posted[p] /\ ProcessSound(items, request, p)
    BY DEF SendsSound
  <2>2. Batch(items)' /\ LastFollows(items, p)'
    BY <2>1, BatchStays, FollowStays DEF ProcessSound
  <2>3. RequestSound(request)' /\ LastFollows(request.items, p)'
    BY <2>1, RequestStays, FollowStays DEF ProcessSound, RequestSound
  <2>4. items = outbox'[p] /\ request = posted'[p]
    BY <2>1
  <2>. QED
    BY ONLY <2>2, <2>3, <2>4
    DEF ProcessSound, RequestSound, Batch, LastFollows, ExportSound, KeptInAnyCase
<1>2. ASSUME NEW request \in abandoned'
      PROVE  RequestSound(request)'
  BY <1>2, RequestStays DEF SendsSound
<1>3. ASSUME NEW s \in TracedSpans
      PROVE  RowSound(spanRows[s], s)'
  <2>1. PICK e : e = spanRows[s] /\ RowSound(e, s)
    BY DEF SendsSound
  <2>2. e # None => ExportSound(e)' /\ e.span = s
    BY <2>1, ExportStays DEF RowSound
  <2>. QED
    BY <2>1, <2>2 DEF RowSound, ExportSound, KeptInAnyCase
<1>. QED
  BY <1>1, <1>2, <1>3 DEF SendsSound

-----------------------------------------------------------------------------
(* An export. *)

\* The SDK leaves nothing out of a span that is to be kept, and counts the export.
LEMMA ExportIsSound ==
  ASSUME sdk \in SdkLimits, sdk' = sdk, NEW s \in TracedSpans, NEW span \in SpanRecord,
         NEW partial, NEW e, e = ExportOf(s, span, partial),
         Started(s)', recorded'[s].exports = span.exports + 1
  PROVE  ExportSound(e)' /\ e.span = s /\ e.number = span.exports + 1
<1>1. PICK events :
        /\ events = IF partial THEN Append(span.events, Event("partial")) ELSE span.events
  OBVIOUS
<1>2. PICK sampled : sampled = SdkEvents(span, events)
  OBVIOUS
<1>3. /\ DOMAIN e = ExportFields /\ e.span = s /\ e.number = span.exports + 1
      /\ e.keep = span.keep /\ e.payload = SdkPayload(span)
      /\ e.status = "error" => span.status = "error"
      /\ e.events = IF partial /\ \A k \in DOMAIN sampled : sampled[k].kind # "partial"
                    THEN Append(sampled, Event("partial")) ELSE sampled
  BY <1>1, <1>2 DEF ExportOf, ExportFields
<1>4. e.number \in 1 .. (span.exports + 1)
  BY <1>3 DEF SpanRecord
<1>5. ASSUME KeptInAnyCase(e)
      PROVE  /\ e.payload = sdk.capture
             /\ \A k \in DOMAIN e.events : e.events[k].kind # "omitted"
  <2>1. KeptInAnyCase(span)
    BY <1>3, <1>5 DEF KeptInAnyCase
  <2>2. sampled = events
    BY <1>2, <2>1 DEF SdkEvents
  <2>3. e.payload = sdk.capture
    BY <1>3, <2>1, FidelityAssumption DEF SdkPayload
  <2>4. /\ span.events \in Seq(EventRecord)
        /\ \A k \in DOMAIN span.events : span.events[k].kind # "omitted"
    <3>1. span.events \in Seq(EventRecord)
      BY DEF SpanRecord, EventRecord
    <3>2. \A k \in DOMAIN span.events : span.events[k] \in EventRecord
      BY <3>1
    <3>3. \A event \in EventRecord : event.kind # "omitted"
      BY DEF EventRecord
    <3>. QED
      BY <3>1, <3>2, <3>3
  <2>5. PICK note : note = Event("partial")
    OBVIOUS
  <2>6. note.kind # "omitted"
    BY <2>5 DEF Event
  <2>7. /\ events \in Seq(EventRecord \union {note})
        /\ \A k \in DOMAIN events : events[k].kind # "omitted"
    BY <1>1, <2>4, <2>5, <2>6
  <2>8. \A k \in DOMAIN e.events : e.events[k].kind # "omitted"
    BY <1>3, <2>2, <2>5, <2>6, <2>7
  <2>. QED
    BY <2>3, <2>8
<1>. QED
  BY <1>3, <1>4, <1>5 DEF ExportSound, KeptInAnyCase

\* The last export of a span joins the buffer behind those before it.
LEMMA Exported ==
  ASSUME FidelityTables, SendsSound, NEW s \in TracedSpans, Started(s),
         NEW span \in SpanRecord, NEW partial, span.process = recorded[s].process,
         span.trace = recorded[s].trace, span.sampled = recorded[s].sampled,
         span.exports = recorded[s].exports, Export(s, span, partial)
  PROVE  SpansGrow /\ FidelityTables' /\ SendsSound'
<1>1. /\ SpanTable' /\ SpansGrow /\ Free(span.process)
      /\ recorded'[s].exports = span.exports + 1 /\ recorded'[s].process = span.process
      /\ \A r \in TracedSpans : r # s => recorded'[r] = recorded[r]
  BY Exporting DEF FidelityTables
<1>2. PICK e : e = ExportOf(s, span, partial)
  OBVIOUS
<1>3. /\ sdk' = sdk /\ UNCHANGED <<posted, abandoned, spanRows>>
      /\ outbox' = [outbox EXCEPT ![span.process] = Append(@, e)]
  BY <1>2 DEF Export, endpoint, Queued
<1>4. Started(s)' /\ span.process \in Processes /\ span.exports \in Nat
  BY <1>1 DEF SpansGrow, SpanRecord
<1>5. ExportSound(e)' /\ e.span = s /\ e.number = span.exports + 1
  BY <1>1, <1>2, <1>3, <1>4, ExportIsSound DEF FidelityTables
<1>6. FidelityTables'
  <2>1. PICK S : outbox \in [Processes -> S]
    BY DEF FidelityTables
  <2>2. outbox' \in [Processes -> S \union {Append(outbox[span.process], e)}]
    BY <1>3, <2>1
  <2>. QED
    BY <1>1, <1>3, <2>2 DEF FidelityTables
<1>7. \A p \in Processes : outbox'[p] = IF p = span.process THEN Append(outbox[p], e) ELSE outbox[p]
  BY <1>3 DEF FidelityTables
<1>8. ASSUME NEW p \in Processes
      PROVE  ProcessSound(outbox[p], posted[p], p)'
  <2>1. PICK items, request :
          items = outbox[p] /\ request = posted[p] /\ ProcessSound(items, request, p)
    BY DEF SendsSound
  <2>2. Batch(items)' /\ RequestSound(request)'
    BY <2>1, <1>1, <1>3, BatchStays, RequestStays DEF ProcessSound, FidelityTables
  <2>3. CASE p # span.process
    <3>1. \A r \in TracedSpans : Started(r) /\ recorded[r].process = p
                                 => recorded'[r].exports = recorded[r].exports
      BY <1>1, <2>3
    <3>2. LastFollows(items, p)' /\ LastFollows(request.items, p)'
      BY <2>1, <1>1, <3>1, FollowStays DEF ProcessSound, RequestSound
    <3>3. items = outbox'[p] /\ request = posted'[p]
      BY <1>3, <1>7, <2>1, <2>3
    <3>. QED
      BY ONLY <2>2, <3>2, <3>3
      DEF ProcessSound, RequestSound, Batch, LastFollows, ExportSound, KeptInAnyCase
  <2>4. CASE p = span.process
    <3>1. PICK S : items \in Seq(S)
      BY <2>1 DEF ProcessSound, Batch
    <3>2. PICK more : more = Append(items, e)
      OBVIOUS
    <3>3. /\ more \in Seq(S \union {e}) /\ Len(items) \in Nat
          /\ DOMAIN items = 1 .. Len(items) /\ DOMAIN more = 1 .. (Len(items) + 1)
          /\ more[Len(items) + 1] = e /\ \A k \in DOMAIN items : more[k] = items[k]
      BY <3>1, <3>2
    <3>4. Batch(more)'
      <4>1. \A k \in DOMAIN more : ExportSound(more[k])'
        <5>1. ASSUME NEW k \in DOMAIN more PROVE ExportSound(more[k])'
          <6>1. CASE k \in DOMAIN items
            <7>1. PICK x : x = items[k] /\ ExportSound(x)'
              BY <2>2, <6>1 DEF Batch
            <7>. QED
              BY <3>3, <6>1, <7>1
          <6>2. CASE k = Len(items) + 1
            BY <3>3, <6>2, <1>5
          <6>. QED
            BY <3>3, <6>1, <6>2
        <5>. QED
          BY <5>1
      <4>. QED
        BY <3>3, <4>1 DEF Batch
    <3>5. LastFollows(more, p)'
      <4>1. SUFFICES ASSUME NEW k \in DOMAIN more
                     PROVE  /\ recorded'[more[k].span].process = p
                            /\ more[k].number < recorded'[more[k].span].exports =>
                                 \E j \in DOMAIN more :
                                   /\ j > k /\ more[j].span = more[k].span
                                   /\ more[j].number = recorded'[more[k].span].exports
        BY DEF LastFollows
      <4>2. CASE k = Len(items) + 1
        BY <4>2, <3>3, <1>1, <1>4, <1>5, <2>4
      <4>3. CASE k \in DOMAIN items
        <5>1. PICK x : x = items[k] /\ more[k] = x
          BY <3>3, <4>3
        <5>2. ExportSound(x) /\ recorded[x.span].process = p
          BY <2>1, <4>3, <5>1 DEF ProcessSound, Batch, LastFollows
        <5>3. recorded'[x.span].process = p
          BY <5>2, <1>1 DEF ExportSound, SpansGrow
        <5>4. CASE x.span = s
          <6>1. Len(items) + 1 \in DOMAIN more /\ Len(items) + 1 > k
            BY <3>3, <4>3
          <6>. QED
            BY <5>1, <5>3, <5>4, <6>1, <3>3, <1>1, <1>5
        <5>5. CASE x.span # s
          <6>1. recorded'[x.span].exports = recorded[x.span].exports
            BY <5>2, <5>5, <1>1 DEF ExportSound
          <6>2. ASSUME x.number < recorded[x.span].exports
                PROVE  \E j \in DOMAIN items :
                         /\ j > k /\ items[j].span = x.span
                         /\ items[j].number = recorded[x.span].exports
            BY <2>1, <4>3, <5>1, <6>2 DEF ProcessSound, LastFollows
          <6>3. DOMAIN items \subseteq DOMAIN more
            BY <3>3
          <6>. QED
            BY <5>1, <5>3, <6>1, <6>2, <6>3, <3>3
        <5>. QED
          BY <5>4, <5>5
      <4>. QED
        BY <3>3, <4>2, <4>3
    <3>6. request = NoRequest
      BY <1>1, <2>1, <2>4 DEF Free
    <3>7. LastFollows(request.items, p)'
      BY <3>6 DEF NoRequest, LastFollows
    <3>8. more = outbox'[p] /\ request = posted'[p]
      BY <1>3, <1>7, <2>1, <2>4, <3>2
    <3>. QED
      BY ONLY <2>2, <3>4, <3>5, <3>7, <3>8
      DEF ProcessSound, RequestSound, Batch, LastFollows, ExportSound, KeptInAnyCase
  <2>. QED
    BY <2>3, <2>4
<1>9. ASSUME NEW request \in abandoned'
      PROVE  RequestSound(request)'
  BY <1>9, <1>1, <1>3, RequestStays DEF SendsSound, FidelityTables
<1>10. ASSUME NEW r \in TracedSpans
       PROVE  RowSound(spanRows[r], r)'
  <2>1. PICK x : x = spanRows[r] /\ RowSound(x, r)
    BY DEF SendsSound
  <2>2. x # None => ExportSound(x)' /\ x.span = r
    BY <2>1, <1>1, <1>3, ExportStays DEF RowSound, FidelityTables
  <2>. QED
    BY <2>1, <2>2, <1>3 DEF RowSound, ExportSound, KeptInAnyCase
<1>. QED
  BY <1>1, <1>6, <1>8, <1>9, <1>10 DEF SendsSound

-----------------------------------------------------------------------------
(* Requests, on their way and given up. *)

LEMMA NothingSent ==
  ASSUME NEW p
  PROVE  RequestSound(NoRequest) /\ LastFollows(NoRequest.items, p)
<1>1. \E S : <<>> \in Seq(S)
  OBVIOUS
<1>. QED
  BY <1>1 DEF RequestSound, NoRequest, Batch, LastFollows

\* The row of the first item of a request.
LEMMA StoredRow ==
  ASSUME FidelityTables, SendsSound, NEW request, RequestSound(request), StoreNext(request)
  PROVE  \A s \in TracedSpans : \E e : e = spanRows'[s] /\ RowSound(e, s)
<1>1. ExportSound(Head(request.items)) /\ request.items # <<>>
  BY RestSound DEF StoreNext, RequestSound
<1>2. PICK e : e = Head(request.items)
  OBVIOUS
<1>3. \A s \in TracedSpans : spanRows'[s] = IF s = e.span THEN e ELSE spanRows[s]
  BY <1>1, <1>2 DEF StoreNext, FidelityTables, ExportSound
<1>4. ASSUME NEW s \in TracedSpans
      PROVE  \E x : x = spanRows'[s] /\ RowSound(x, s)
  <2>1. CASE s = e.span
    BY <1>1, <1>2, <1>3, <2>1 DEF RowSound
  <2>2. CASE s # e.span
    BY <1>3, <2>2 DEF SendsSound
  <2>. QED
    BY <2>1, <2>2
<1>. QED
  BY <1>4

\* A step of the request of one process, which stays sound.
LEMMA RequestTurn ==
  ASSUME FidelityTables, SendsSound, UNCHANGED <<sdk, recorded>>, NEW p \in Processes,
         NEW items, NEW request, ProcessSound(items, request, p),
         \/ outbox' = outbox /\ items = outbox[p]
         \/ outbox' = [outbox EXCEPT ![p] = items],
         posted' = [posted EXCEPT ![p] = request],
         \A r \in abandoned' : RequestSound(r),
         \A s \in TracedSpans : \E e : e = spanRows'[s] /\ RowSound(e, s),
         \E S : spanRows' \in [TracedSpans -> S]
  PROVE  FidelityTables' /\ SendsSound'
<1>1. PICK S : outbox \in [Processes -> S]
  BY DEF FidelityTables
<1>2. PICK R : posted \in [Processes -> R]
  BY DEF FidelityTables
<1>3. /\ outbox' \in [Processes -> S \union {items}]
      /\ posted' \in [Processes -> R \union {request}]
      /\ \A q \in Processes : /\ outbox'[q] = IF q = p THEN items ELSE outbox[q]
                              /\ posted'[q] = IF q = p THEN request ELSE posted[q]
  BY <1>1, <1>2
<1>4. FidelityTables'
  BY <1>3 DEF FidelityTables, SpanTable
<1>5. ASSUME NEW q \in Processes
      PROVE  \E x, y : x = outbox'[q] /\ y = posted'[q] /\ ProcessSound(x, y, q)
  <2>1. CASE q = p
    BY <1>3, <2>1
  <2>2. CASE q # p
    BY <1>3, <2>2 DEF SendsSound
  <2>. QED
    BY <2>1, <2>2
<1>. QED
  BY <1>4, <1>5, Sending

\* What is sound now, of one process and of the rows.
LEMMA Present ==
  ASSUME FidelityTables, SendsSound
  PROVE  /\ \A p \in Processes : ProcessSound(outbox[p], posted[p], p)
         /\ \A r \in abandoned : RequestSound(r)
         /\ \A s \in TracedSpans : \E e : e = spanRows[s] /\ RowSound(e, s)
BY DEF SendsSound

LEMMA RequestSteps ==
  ASSUME FidelityTables, SendsSound, NEW p \in Processes,
         \/ Flush(p) \/ RefuseBatch(p) \/ ReceiveBatch(p) \/ StoreItem(p) \/ AnswerBatch(p)
         \/ GiveUp(p)
  PROVE  FidelityTables' /\ SendsSound'
<1>1. PICK items, request :
        items = outbox[p] /\ request = posted[p] /\ ProcessSound(items, request, p)
  BY Present
<1>2. UNCHANGED <<sdk, recorded>>
  BY DEF Flush, RefuseBatch, ReceiveBatch, StoreItem, AnswerBatch, GiveUp, application
<1>3. ProcessSound(items, NoRequest, p)
  BY <1>1, NothingSent DEF ProcessSound
<1>4. CASE Flush(p)
  <2>1. PICK sent : sent = [at |-> "sent", items |-> items]
    OBVIOUS
  <2>2. ProcessSound(items, sent, p)
    BY <1>1, <2>1 DEF ProcessSound, RequestSound
  <2>3. /\ posted' = [posted EXCEPT ![p] = sent]
        /\ UNCHANGED <<outbox, abandoned, spanRows>>
    BY <1>1, <1>4, <2>1 DEF Flush, endpoint
  <2>. QED
    BY <1>1, <1>2, <2>2, <2>3, Present, RequestTurn DEF FidelityTables
<1>5. CASE RefuseBatch(p)
  <2>1. /\ posted' = [posted EXCEPT ![p] = NoRequest]
        /\ UNCHANGED <<outbox, abandoned, spanRows>>
    BY <1>5 DEF RefuseBatch, endpoint
  <2>. QED
    BY <1>1, <1>2, <1>3, <2>1, Present, RequestTurn DEF FidelityTables
<1>6. CASE ReceiveBatch(p)
  <2>1. PICK received : received = Received(request)
    OBVIOUS
  <2>2. ProcessSound(items, received, p)
    BY <1>1, <2>1, ReceivedSound DEF ProcessSound
  <2>3. /\ posted' = [posted EXCEPT ![p] = received]
        /\ UNCHANGED <<outbox, abandoned, spanRows>>
    BY <1>1, <1>6, <2>1 DEF ReceiveBatch, endpoint, Received
  <2>. QED
    BY <1>1, <1>2, <2>2, <2>3, Present, RequestTurn DEF FidelityTables
<1>7. CASE StoreItem(p)
  <2>1. /\ StoreNext(request) /\ UNCHANGED <<outbox, abandoned>>
        /\ posted' = [posted EXCEPT ![p].items = Tail(@)]
    BY <1>1, <1>7 DEF StoreItem, StoreNext
  <2>2. PICK rest : rest = [request EXCEPT !.items = Tail(@)]
    OBVIOUS
  <2>3. posted' = [posted EXCEPT ![p] = rest]
    BY <1>1, <2>1, <2>2
  <2>4. ProcessSound(items, rest, p)
    <3>1. RequestSound(request) /\ LastFollows(request.items, p)
      BY <1>1 DEF ProcessSound
    <3>2. Batch(Tail(request.items)) /\ LastFollows(Tail(request.items), p)
      BY <3>1, <2>1, RestSound DEF RequestSound, StoreNext
    <3>3. DOMAIN rest = {"at", "items"} /\ rest.items = Tail(request.items)
      BY <3>1, <2>2 DEF RequestSound
    <3>. QED
      BY <1>1, <3>2, <3>3 DEF ProcessSound, RequestSound
  <2>5. \A s \in TracedSpans : \E e : e = spanRows'[s] /\ RowSound(e, s)
    BY <1>1, <2>1, StoredRow DEF ProcessSound
  <2>6. \E S : spanRows' \in [TracedSpans -> S]
    <3>1. PICK S : spanRows \in [TracedSpans -> S]
      BY DEF FidelityTables
    <3>2. PICK e : e = Head(request.items)
      OBVIOUS
    <3>3. spanRows' \in [TracedSpans -> S \union {e}]
      BY <2>1, <3>1, <3>2 DEF StoreNext
    <3>. QED
      BY <3>3
  <2>. QED
    BY <1>1, <1>2, <2>1, <2>3, <2>4, <2>5, <2>6, Present, RequestTurn
<1>8. CASE AnswerBatch(p)
  <2>1. ProcessSound(<<>>, NoRequest, p)
    BY NothingSent DEF ProcessSound, RequestSound, NoRequest
  <2>2. /\ posted' = [posted EXCEPT ![p] = NoRequest] /\ outbox' = [outbox EXCEPT ![p] = <<>>]
        /\ UNCHANGED <<abandoned, spanRows>>
    BY <1>8 DEF AnswerBatch, endpoint
  <2>. QED
    BY <1>2, <2>1, <2>2, Present, RequestTurn DEF FidelityTables
<1>9. CASE GiveUp(p)
  <2>1. /\ posted' = [posted EXCEPT ![p] = NoRequest]
        /\ abandoned' = abandoned \union {request} /\ UNCHANGED <<outbox, spanRows>>
    BY <1>1, <1>9 DEF GiveUp
  <2>2. \A r \in abandoned' : RequestSound(r)
    BY <1>1, <2>1, Present DEF ProcessSound
  <2>. QED
    BY <1>1, <1>2, <1>3, <2>1, <2>2, Present, RequestTurn DEF FidelityTables
<1>. QED
  BY <1>4, <1>5, <1>6, <1>7, <1>8, <1>9

LEMMA LateSteps ==
  ASSUME FidelityTables, SendsSound, NEW request \in abandoned,
         ReceiveLate(request) \/ StoreLate(request)
  PROVE  FidelityTables' /\ SendsSound'
<1>1. RequestSound(request)
  BY Present
<1>2. UNCHANGED <<sdk, recorded, outbox, posted>>
  BY DEF ReceiveLate, StoreLate, application
<1>3. \A p \in Processes : \E x, y : x = outbox'[p] /\ y = posted'[p] /\ ProcessSound(x, y, p)
  BY <1>2, Present
<1>4. CASE ReceiveLate(request)
  <2>1. RequestSound(Received(request))
    BY <1>1, ReceivedSound
  <2>2. \A r \in abandoned' : RequestSound(r)
    BY <1>4, <2>1, Present DEF ReceiveLate
  <2>3. spanRows' = spanRows
    BY <1>4 DEF ReceiveLate
  <2>. QED
    BY <1>2, <1>3, <2>2, <2>3, Sending, Present DEF FidelityTables, SpanTable
<1>5. CASE StoreLate(request)
  <2>1. StoreNext(request)
    BY <1>5 DEF StoreLate
  <2>2. PICK rest : rest = [request EXCEPT !.items = Tail(@)]
    OBVIOUS
  <2>3. RequestSound(rest)
    BY <1>1, <2>1, <2>2, RestSound DEF RequestSound, StoreNext
  <2>4. \A r \in abandoned' : RequestSound(r)
    BY <1>5, <2>2, <2>3, Present DEF StoreLate
  <2>5. \A s \in TracedSpans : \E e : e = spanRows'[s] /\ RowSound(e, s)
    BY <1>1, <2>1, StoredRow
  <2>6. \E S : spanRows' \in [TracedSpans -> S]
    <3>1. PICK S : spanRows \in [TracedSpans -> S]
      BY DEF FidelityTables
    <3>2. PICK e : e = Head(request.items)
      OBVIOUS
    <3>3. spanRows' \in [TracedSpans -> S \union {e}]
      BY <2>1, <3>1, <3>2 DEF StoreNext
    <3>. QED
      BY <3>3
  <2>7. FidelityTables'
    BY <1>2, <2>6 DEF FidelityTables, SpanTable
  <2>. QED
    BY <1>2, <1>3, <2>4, <2>5, <2>7, Sending
<1>. QED
  BY <1>4, <1>5

-----------------------------------------------------------------------------
(* The decision about a trace. *)

\* A carrier of the trace lost the decision.
Stripped(t) == \E c \in carriers : c.trace = t /\ c.sampled = "none"

\* Every carrier is of a trace that was begun, and carries its decision if any.
CarrierSound(c) ==
  /\ c.trace \in TraceIds
  /\ \E s \in TracedSpans : Started(s) /\ recorded[s].trace = c.trace
  /\ \A s \in TracedSpans :
       Started(s) /\ recorded[s].trace = c.trace /\ c.sampled # "none"
       => Stripped(c.trace) \/ (recorded[s].sampled <=> c.sampled = "true")

DecisionsSound == SampledTogether /\ \A c \in carriers : CarrierSound(c)

\* What is decided of a trace is not decided again.
LEMMA DecisionsStay ==
  ASSUME SpanTable, SpanTable', SpansGrow, DecisionsSound, carriers' = carriers,
         \A s \in TracedSpans : Started(s)' => Started(s)
  PROVE  DecisionsSound'
<1>1. \A s \in TracedSpans : Started(s)' => /\ Started(s)
                                            /\ recorded'[s].trace = recorded[s].trace
                                            /\ recorded'[s].sampled = recorded[s].sampled
  BY DEF SpansGrow
<1>2. SampledTogether'
  BY <1>1 DEF DecisionsSound, SampledTogether, Started
<1>3. ASSUME NEW c \in carriers
      PROVE  CarrierSound(c)'
  <2>1. CarrierSound(c)
    BY DEF DecisionsSound
  <2>2. PICK s \in TracedSpans : Started(s) /\ recorded[s].trace = c.trace
    BY <2>1 DEF CarrierSound
  <2>3. Started(s)' /\ recorded'[s].trace = c.trace
    BY <2>2 DEF SpansGrow
  <2>. QED
    BY <1>1, <2>1, <2>3 DEF CarrierSound, Stripped
<1>. QED
  BY <1>2, <1>3 DEF DecisionsSound

\* A span that begins agrees with all of its trace, or a carrier lost the decision.
Agrees(span) ==
  /\ \A s \in TracedSpans : Started(s) /\ recorded[s].trace = span.trace
                            => Stripped(span.trace) \/ recorded[s].sampled = span.sampled
  /\ \A c \in carriers : c.trace = span.trace /\ c.sampled # "none"
                         => Stripped(span.trace) \/ (span.sampled <=> c.sampled = "true")

LEMMA Joining ==
  ASSUME SpanTable, DecisionsSound, NEW s \in TracedSpans, NEW span \in SpanRecord,
         Begin(s, span), Agrees(span)
  PROVE  SpanTable' /\ SpansGrow /\ DecisionsSound'
<1>1. /\ SpanTable' /\ SpansGrow /\ recorded[s] = None /\ span # None
      /\ \A r \in TracedSpans : recorded'[r] = IF r = s THEN span ELSE recorded[r]
  BY Beginning
<1>2. carriers' = carriers
  BY DEF Begin
<1>3. SampledTogether'
  <2>1. SUFFICES ASSUME NEW q \in TracedSpans, NEW r \in TracedSpans,
                        recorded'[q] # None, recorded'[r] # None,
                        recorded'[q].trace = recorded'[r].trace,
                        recorded'[q].sampled # recorded'[r].sampled
                 PROVE  Stripped(recorded'[r].trace)
    BY <1>2 DEF SampledTogether, Stripped
  <2>2. CASE q = s /\ r # s
    BY <2>1, <2>2, <1>1 DEF Agrees, Started
  <2>3. CASE r = s /\ q # s
    BY <2>1, <2>3, <1>1 DEF Agrees, Started
  <2>4. CASE q # s /\ r # s
    BY <2>1, <2>4, <1>1 DEF DecisionsSound, SampledTogether, Stripped
  <2>. QED
    BY <2>1, <2>2, <2>3, <2>4
<1>4. ASSUME NEW c \in carriers
      PROVE  CarrierSound(c)'
  <2>1. CarrierSound(c)
    BY DEF DecisionsSound
  <2>2. PICK r \in TracedSpans : Started(r) /\ recorded[r].trace = c.trace
    BY <2>1 DEF CarrierSound
  <2>3. Started(r)' /\ recorded'[r].trace = c.trace
    BY <2>2, <1>1 DEF SpansGrow
  <2>4. ASSUME NEW q \in TracedSpans, Started(q)', recorded'[q].trace = c.trace,
               c.sampled # "none"
        PROVE  Stripped(c.trace) \/ (recorded'[q].sampled <=> c.sampled = "true")
    <3>1. CASE q = s
      BY <2>4, <3>1, <1>1 DEF Agrees
    <3>2. CASE q # s
      BY <2>1, <2>4, <3>2, <1>1 DEF CarrierSound, Started
    <3>. QED
      BY <3>1, <3>2
  <2>. QED
    BY <1>2, <2>1, <2>3, <2>4 DEF CarrierSound, Stripped
<1>. QED
  BY <1>1, <1>2, <1>3, <1>4 DEF DecisionsSound

\* A root begins a trace no one has begun; a child, and a span that continues a
\* trace, take the decision they are given.
LEMMA DecisionTaken ==
  ASSUME SpanTable, DecisionsSound, NEW p \in Processes, NEW s \in TracedSpans,
         NEW keep \in BOOLEAN, NEW size \in 1 .. 2
  PROVE  /\ \A t \in TraceIds : StartTrace(p, s, t, keep, size) =>
              \E span \in SpanRecord : Begin(s, span) /\ Agrees(span)
         /\ \A parent \in TracedSpans : StartChild(s, parent, keep, size) =>
              \E span \in SpanRecord : Begin(s, span) /\ Agrees(span)
         /\ \A c \in carriers : ContinueFromBaggage(p, s, c, keep, size) =>
              \E span \in SpanRecord : Begin(s, span) /\ Agrees(span)
<1>1. ASSUME NEW t \in TraceIds, StartTrace(p, s, t, keep, size)
      PROVE  \E span \in SpanRecord : Begin(s, span) /\ Agrees(span)
  <2>1. PICK sampled : sampled = TraceIsSampled(t, keep) /\ sampled \in BOOLEAN
    BY DEF TraceIsSampled
  <2>2. PICK span : span = NewSpan(p, t, sampled, TRUE, keep, size)
    OBVIOUS
  <2>3. span \in SpanRecord /\ span.trace = t
    BY <2>1, <2>2 DEF NewSpan, SpanRecord
  <2>4. Begin(s, span) /\ t \notin Used
    BY <1>1, <2>1, <2>2 DEF StartTrace
  <2>5. \A r \in TracedSpans : Started(r) => recorded[r].trace # t
    BY <2>4 DEF Used, Started
  <2>6. \A c \in carriers : c.trace # t
    BY <2>5 DEF DecisionsSound, CarrierSound
  <2>. QED
    BY <2>3, <2>4, <2>5, <2>6 DEF Agrees
<1>2. ASSUME NEW parent \in TracedSpans, StartChild(s, parent, keep, size)
      PROVE  \E span \in SpanRecord : Begin(s, span) /\ Agrees(span)
  <2>1. PICK from : from = recorded[parent] /\ from \in SpanRecord /\ Started(parent)
    BY <1>2 DEF StartChild, Open, SpanTable, Started
  <2>2. PICK span : span = NewSpan(from.process, from.trace, from.sampled, FALSE, keep, size)
    OBVIOUS
  <2>3. from.process \in Processes /\ from.trace \in TraceIds /\ from.sampled \in BOOLEAN
    BY <2>1 DEF SpanRecord
  <2>4. span \in SpanRecord /\ span.trace = from.trace /\ span.sampled = from.sampled
    BY <2>2, <2>3 DEF NewSpan, SpanRecord
  <2>5. Begin(s, span)
    BY <1>2, <2>1, <2>2 DEF StartChild, ParentDecision
  <2>6. \A r \in TracedSpans : Started(r) /\ recorded[r].trace = span.trace
                               => Stripped(span.trace) \/ recorded[r].sampled = span.sampled
    BY <2>1, <2>4 DEF DecisionsSound, SampledTogether, Stripped, Started
  <2>7. \A c \in carriers : c.trace = span.trace /\ c.sampled # "none"
                            => Stripped(span.trace) \/ (span.sampled <=> c.sampled = "true")
    BY <2>1, <2>4 DEF DecisionsSound, CarrierSound
  <2>. QED
    BY <2>4, <2>5, <2>6, <2>7 DEF Agrees
<1>3. ASSUME NEW c \in carriers, ContinueFromBaggage(p, s, c, keep, size)
      PROVE  \E span \in SpanRecord : Begin(s, span) /\ Agrees(span)
  <2>1. PICK sampled : sampled = BaggageDecision(c, keep) /\ sampled \in BOOLEAN
    BY DEF BaggageDecision, TraceIsSampled
  <2>2. PICK span : span = NewSpan(p, c.trace, sampled, FALSE, keep, size)
    OBVIOUS
  <2>3. CarrierSound(c)
    BY DEF DecisionsSound
  <2>4. span \in SpanRecord /\ span.trace = c.trace /\ span.sampled = sampled
    BY <2>1, <2>2, <2>3 DEF CarrierSound, NewSpan, SpanRecord
  <2>5. Begin(s, span)
    BY <1>3, <2>1, <2>2 DEF ContinueFromBaggage
  <2>6. CASE c.sampled = "none"
    BY <2>4, <2>5, <2>6 DEF Agrees, Stripped
  <2>7. CASE c.sampled # "none"
    <3>1. sampled <=> c.sampled = "true"
      BY <2>1, <2>7 DEF BaggageDecision
    <3>2. ASSUME NEW r \in TracedSpans, Started(r), recorded[r].trace = c.trace
          PROVE  Stripped(c.trace) \/ recorded[r].sampled = sampled
      <4>1. recorded[r].sampled \in BOOLEAN
        BY <3>2 DEF SpanTable, Started, SpanRecord
      <4>. QED
        BY <2>1, <2>3, <2>7, <3>1, <3>2, <4>1 DEF CarrierSound
    <3>3. PICK r \in TracedSpans : Started(r) /\ recorded[r].trace = c.trace
      BY <2>3 DEF CarrierSound
    <3>4. ASSUME NEW d \in carriers, d.trace = c.trace, d.sampled # "none"
          PROVE  Stripped(c.trace) \/ (sampled <=> d.sampled = "true")
      <4>1. CarrierSound(d)
        BY DEF DecisionsSound
      <4>. QED
        BY <3>2, <3>3, <3>4, <4>1 DEF CarrierSound
    <3>. QED
      BY <2>4, <2>5, <3>2, <3>4 DEF Agrees
  <2>. QED
    BY <2>6, <2>7
<1>. QED
  BY <1>1, <1>2, <1>3

\* A carrier takes the decision of its span along, or loses it.
LEMMA Injecting ==
  ASSUME SpanTable, DecisionsSound, NEW s \in TracedSpans, NEW stripped \in BOOLEAN,
         Inject(s, stripped)
  PROVE  DecisionsSound'
<1>1. PICK from : from = recorded[s] /\ from \in SpanRecord /\ Started(s)
  BY DEF Inject, Open, SpanTable, Started
<1>2. PICK c : c = [trace |-> from.trace,
                    sampled |-> IF stripped THEN "none" ELSE IF from.sampled THEN "true" ELSE "false"]
  OBVIOUS
<1>3. carriers' = carriers \union {c} /\ recorded' = recorded
  BY <1>1, <1>2 DEF Inject
<1>4. \A t : Stripped(t) => Stripped(t)'
  BY <1>3 DEF Stripped
<1>5. SampledTogether'
  BY <1>3 DEF DecisionsSound, SampledTogether
<1>6. ASSUME NEW d \in carriers
      PROVE  CarrierSound(d)'
  <2>1. CarrierSound(d)
    BY DEF DecisionsSound
  <2>2. Stripped(d.trace) => Stripped(d.trace)'
    BY <1>4
  <2>. QED
    BY <1>3, <2>1, <2>2 DEF CarrierSound, Started
<1>7. CarrierSound(c)'
  <2>1. /\ c.trace = from.trace /\ from.trace \in TraceIds /\ from.sampled \in BOOLEAN
        /\ c.sampled # "none" => (from.sampled <=> c.sampled = "true")
    BY <1>1, <1>2 DEF SpanRecord
  <2>2. ASSUME NEW r \in TracedSpans, Started(r), recorded[r].trace = from.trace
        PROVE  Stripped(from.trace) \/ recorded[r].sampled = from.sampled
    BY <1>1, <2>2 DEF DecisionsSound, SampledTogether, Stripped, Started
  <2>3. Stripped(from.trace) => Stripped(from.trace)'
    BY <1>4
  <2>. QED
    BY <1>1, <1>3, <2>1, <2>2, <2>3 DEF CarrierSound, Started
<1>. QED
  BY <1>3, <1>5, <1>6, <1>7 DEF DecisionsSound

-----------------------------------------------------------------------------
(* Every step. *)

FidelitySound == FidelityTables /\ SendsSound /\ DecisionsSound

LEMMA BeginsSpan ==
  ASSUME FidelitySound, NEW s \in TracedSpans, NEW span \in SpanRecord,
         Begin(s, span), Agrees(span)
  PROVE  FidelitySound'
<1>1. SpanTable' /\ SpansGrow /\ DecisionsSound'
  BY Joining DEF FidelitySound, FidelityTables
<1>2. UNCHANGED <<sdk, outbox, posted, abandoned, spanRows>>
  BY DEF Begin, endpoint
<1>3. \A r \in TracedSpans : Started(r) => recorded'[r].exports = recorded[r].exports
  BY Beginning DEF FidelitySound, FidelityTables, Started
<1>4. SendsSound'
  BY <1>1, <1>2, <1>3, Staying DEF FidelitySound, FidelityTables
<1>. QED
  BY <1>1, <1>2, <1>4 DEF FidelitySound, FidelityTables

LEMMA ExportsSpan ==
  ASSUME FidelitySound, NEW s \in TracedSpans, Started(s), NEW span \in SpanRecord,
         NEW partial, span.process = recorded[s].process, span.trace = recorded[s].trace,
         span.sampled = recorded[s].sampled, span.exports = recorded[s].exports,
         Export(s, span, partial)
  PROVE  FidelitySound'
<1>1. SpansGrow /\ FidelityTables' /\ SendsSound'
  BY Exported DEF FidelitySound
<1>2. \A r \in TracedSpans : Started(r)' => Started(r)
  BY Exporting DEF FidelitySound, FidelityTables, Started
<1>3. carriers' = carriers
  BY DEF Export
<1>. QED
  BY <1>1, <1>2, <1>3, DecisionsStay DEF FidelitySound, FidelityTables

\* The end of a span is an export of it.
LEMMA Exits ==
  ASSUME SpanTable, NEW s \in TracedSpans, NEW raised \in BOOLEAN, ExitSpan(s, raised)
  PROVE  /\ Started(s)
         /\ \E span \in SpanRecord :
              /\ span.process = recorded[s].process /\ span.trace = recorded[s].trace
              /\ span.sampled = recorded[s].sampled /\ span.exports = recorded[s].exports
              /\ span.status # "unknown" /\ Export(s, span, FALSE)
<1>1. PICK from : from = recorded[s] /\ from \in SpanRecord /\ Started(s)
  BY DEF ExitSpan, Open, SpanTable, Started
<1>2. PICK span : span = [from EXCEPT !.status = IF raised THEN "error" ELSE "ok",
                            !.events = IF raised THEN Append(@, Event("exception")) ELSE @]
  OBVIOUS
<1>3. /\ span \in SpanRecord /\ span.process = from.process /\ span.trace = from.trace
      /\ span.sampled = from.sampled /\ span.exports = from.exports
      /\ span.status # "unknown"
  <2>1. Event("exception") \in EventRecord
    BY DEF Event, EventRecord
  <2>2. from.events \in Seq(EventRecord)
    BY <1>1 DEF SpanRecord, EventRecord
  <2>3. (IF raised THEN Append(from.events, Event("exception")) ELSE from.events)
        \in Seq(EventRecord)
    BY <2>1, <2>2
  <2>. QED
    BY <1>1, <1>2, <2>3 DEF SpanRecord, EventRecord
<1>4. Export(s, span, FALSE)
  BY <1>1, <1>2 DEF ExitSpan
<1>. QED
  BY <1>1, <1>3, <1>4

\* What a span does, once it was started.
LEMMA SpanSteps ==
  ASSUME FidelitySound, NEW s \in TracedSpans,
         \/ \E stripped \in BOOLEAN : Inject(s, stripped)
         \/ \E kind \in {"stream", "step"} : AddEvent(s, kind)
         \/ FlushPartial(s)
         \/ \E raised \in BOOLEAN : ExitSpan(s, raised)
  PROVE  FidelitySound'
<1>1. ASSUME NEW stripped \in BOOLEAN, Inject(s, stripped)
      PROVE  FidelitySound'
  <2>1. UNCHANGED <<sdk, recorded, outbox, posted, abandoned, spanRows>>
    BY <1>1 DEF Inject, endpoint
  <2>2. DecisionsSound'
    BY <1>1, Injecting DEF FidelitySound, FidelityTables
  <2>3. SendsSound'
    BY <2>1, Sending, Present DEF FidelitySound
  <2>. QED
    BY <2>1, <2>2, <2>3 DEF FidelitySound, FidelityTables, SpanTable
<1>2. ASSUME NEW kind \in {"stream", "step"}, AddEvent(s, kind)
      PROVE  FidelitySound'
  <2>1. SpanTable' /\ SpansGrow /\ NoExport
    <3>1. SpanTable
      BY DEF FidelitySound, FidelityTables
    <3>. QED
      BY <1>2, <3>1, Adding
  <2>2. UNCHANGED <<sdk, carriers, outbox, posted, abandoned, spanRows>>
    BY <1>2 DEF AddEvent, endpoint
  <2>3. SendsSound'
    BY <2>1, <2>2, Staying DEF FidelitySound, FidelityTables, NoExport
  <2>4. DecisionsSound'
    BY <2>1, <2>2, DecisionsStay DEF FidelitySound, FidelityTables, NoExport
  <2>. QED
    BY <2>1, <2>2, <2>3, <2>4 DEF FidelitySound, FidelityTables
<1>3. CASE FlushPartial(s)
  <2>1. PICK span : span = recorded[s] /\ span \in SpanRecord /\ Started(s)
    BY <1>3 DEF FlushPartial, FidelitySound, FidelityTables, SpanTable, Started
  <2>2. Export(s, span, TRUE)
    BY <1>3, <2>1 DEF FlushPartial
  <2>. QED
    BY <2>1, <2>2, ExportsSpan
<1>4. ASSUME NEW raised \in BOOLEAN, ExitSpan(s, raised)
      PROVE  FidelitySound'
  <2>1. SpanTable
    BY DEF FidelitySound, FidelityTables
  <2>. QED
    BY <1>4, <2>1, Exits, ExportsSpan
<1>. QED
  BY <1>1, <1>2, <1>3, <1>4

\* What requests do.
Carried ==
  \/ \E p \in Processes :
       \/ Flush(p) \/ RefuseBatch(p) \/ ReceiveBatch(p) \/ StoreItem(p) \/ AnswerBatch(p)
       \/ GiveUp(p)
  \/ \E request \in abandoned : ReceiveLate(request) \/ StoreLate(request)

LEMMA CarriedSteps ==
  ASSUME FidelitySound, Carried
  PROVE  FidelitySound'
<1>1. FidelityTables' /\ SendsSound'
  BY RequestSteps, LateSteps DEF FidelitySound, Carried
<1>2. UNCHANGED <<recorded, carriers>>
  BY DEF Carried, Flush, RefuseBatch, ReceiveBatch, StoreItem, AnswerBatch, GiveUp,
         ReceiveLate, StoreLate, application
<1>3. DecisionsSound'
  BY <1>2 DEF FidelitySound, DecisionsSound, SampledTogether, CarrierSound, Stripped, Started
<1>. QED
  BY <1>1, <1>3 DEF FidelitySound

\* What begins a span, and what a span does.
Begins(s) ==
  \E keep \in BOOLEAN, size \in 1 .. 2 :
    \/ \E p \in Processes :
         \/ \E t \in TraceIds : StartTrace(p, s, t, keep, size)
         \/ \E carrier \in carriers : ContinueFromBaggage(p, s, carrier, keep, size)
    \/ \E parent \in TracedSpans : StartChild(s, parent, keep, size)

Acts(s) ==
  \/ \E stripped \in BOOLEAN : Inject(s, stripped)
  \/ \E kind \in {"stream", "step"} : AddEvent(s, kind)
  \/ FlushPartial(s)
  \/ \E raised \in BOOLEAN : ExitSpan(s, raised)

LEMMA StepsOfFidelity ==
  ASSUME FidelityNext
  PROVE  Carried \/ \E s \in TracedSpans : Begins(s) \/ Acts(s)
<1>1. ASSUME NEW p \in Processes, NEW s \in TracedSpans, NEW keep \in BOOLEAN,
             NEW size \in 1 .. 2,
             \/ \E t \in TraceIds : StartTrace(p, s, t, keep, size)
             \/ \E carrier \in carriers : ContinueFromBaggage(p, s, carrier, keep, size)
      PROVE  Begins(s)
  BY <1>1 DEF Begins
<1>2. ASSUME NEW s \in TracedSpans, NEW parent \in TracedSpans, NEW keep \in BOOLEAN,
             NEW size \in 1 .. 2, StartChild(s, parent, keep, size)
      PROVE  Begins(s)
  BY <1>2 DEF Begins
<1>. QED
  BY <1>1, <1>2, Zenon DEF FidelityNext, Carried, Acts

LEMMA FidelityStep ==
  ASSUME FidelitySound, FidelityNext
  PROVE  FidelitySound'
<1>1. CASE Carried
  BY <1>1, CarriedSteps
<1>2. ASSUME NEW s \in TracedSpans, Begins(s)
      PROVE  FidelitySound'
  <2>1. PICK keep \in BOOLEAN, size \in 1 .. 2 :
          \/ \E p \in Processes :
               \/ \E t \in TraceIds : StartTrace(p, s, t, keep, size)
               \/ \E carrier \in carriers : ContinueFromBaggage(p, s, carrier, keep, size)
          \/ \E parent \in TracedSpans : StartChild(s, parent, keep, size)
    BY <1>2 DEF Begins
  <2>2. SpanTable /\ DecisionsSound
    BY DEF FidelitySound, FidelityTables
  <2>3. \E span \in SpanRecord : Begin(s, span) /\ Agrees(span)
    <3>1. ASSUME NEW p \in Processes,
                 \/ \E t \in TraceIds : StartTrace(p, s, t, keep, size)
                 \/ \E carrier \in carriers : ContinueFromBaggage(p, s, carrier, keep, size)
          PROVE  \E span \in SpanRecord : Begin(s, span) /\ Agrees(span)
      BY <2>2, <3>1, DecisionTaken
    <3>2. ASSUME NEW parent \in TracedSpans, StartChild(s, parent, keep, size)
          PROVE  \E span \in SpanRecord : Begin(s, span) /\ Agrees(span)
      <4>1. recorded[parent].process \in Processes
        BY <2>2, <3>2 DEF StartChild, Open, SpanTable, SpanRecord
      <4>. QED
        BY <2>2, <3>2, <4>1, DecisionTaken
    <3>. QED
      BY <2>1, <3>1, <3>2
  <2>. QED
    BY <2>3, BeginsSpan
<1>3. ASSUME NEW s \in TracedSpans, Acts(s)
      PROVE  FidelitySound'
  BY <1>3, SpanSteps DEF Acts
<1>. QED
  BY <1>1, <1>2, <1>3, StepsOfFidelity

LEMMA FidelityAlways == FidelitySpec => []FidelitySound
<1>1. FidelityInit => FidelitySound
  <2>1. SUFFICES ASSUME FidelityInit
                 PROVE  FidelitySound
    OBVIOUS
  <2>2. /\ recorded = [s \in TracedSpans |-> None] /\ spanRows = [s \in TracedSpans |-> None]
        /\ outbox = [p \in Processes |-> <<>>] /\ posted = [p \in Processes |-> NoRequest]
        /\ sdk \in SdkLimits /\ carriers = {} /\ abandoned = {}
    BY <2>1 DEF FidelityInit
  <2>3. FidelityTables
    <3>1. /\ outbox \in [Processes -> {<<>>}] /\ posted \in [Processes -> {NoRequest}]
          /\ spanRows \in [TracedSpans -> {None}]
      BY <2>2
    <3>. QED
      BY <2>2, <3>1 DEF FidelityTables, SpanTable
  <2>4. \A p \in Processes : ProcessSound(<<>>, NoRequest, p)
    BY NothingSent DEF ProcessSound, RequestSound, NoRequest
  <2>5. SendsSound
    BY <2>2, <2>4 DEF SendsSound, RowSound
  <2>6. DecisionsSound
    BY <2>2 DEF DecisionsSound, SampledTogether
  <2>. QED
    BY <2>3, <2>5, <2>6 DEF FidelitySound
<1>2. FidelitySound /\ UNCHANGED fidelityVars => FidelitySound'
  <2>1. SUFFICES ASSUME FidelitySound, UNCHANGED fidelityVars
                 PROVE  FidelitySound'
    OBVIOUS
  <2>2. UNCHANGED <<sdk, recorded, carriers, outbox, posted, abandoned, spanRows>>
    BY <2>1 DEF fidelityVars
  <2>3. SendsSound'
    BY <2>1, <2>2, Sending, Present DEF FidelitySound
  <2>4. DecisionsSound'
    BY <2>1, <2>2 DEF FidelitySound, DecisionsSound, SampledTogether, CarrierSound, Stripped, Started
  <2>. QED
    BY <2>1, <2>2, <2>3, <2>4 DEF FidelitySound, FidelityTables, SpanTable
<1>. QED
  BY <1>1, <1>2, FidelityStep, PTL DEF FidelitySpec

(* A span that failed or asks to be kept is stored with its payload and all of its
   events, unless the batch was too large, whatever the samplings of the SDK and of
   the endpoint are and whichever request stores it; and spans of one trace are
   sampled together, whichever processes they begin in, unless a carrier lost the
   decision. *)
THEOREM Sampling == FidelitySpec => []SamplingHonest
<1>1. FidelitySound => KeptInFull
  BY DEF FidelitySound, SendsSound, RowSound, ExportSound, KeptInAnyCase, KeptInFull
<1>2. FidelitySound => SampledTogether
  BY DEF FidelitySound, DecisionsSound
<1>3. FidelitySound => SamplingHonest
  BY <1>1, <1>2 DEF SamplingHonest
<1>. QED
  BY <1>3, FidelityAlways, PTL

\* What a step may do to the rows.
GoesBack(s) ==
  \/ abandoned' # abandoned
  \/ \E p \in Processes : \E k \in DOMAIN posted'[p].items :
       posted'[p].items[k].span = s /\ posted'[p].items[k].number >= spanRows[s].number

(* A stored span goes back to an earlier export only through a request its client
   gave up, or while the request at hand still has its last export to store: buffers
   are sent in order, and a process that waits exports nothing. *)
THEOREM LateOnly == FidelitySpec => OnlyLateRequestsGoBack
<1> DEFINE Back == \A s \in TracedSpans :
                     spanRows[s] # None /\ spanRows'[s].number < spanRows[s].number => GoesBack(s)
<1>1. ASSUME FidelitySound, UNCHANGED spanRows
      PROVE  Back
  <2>1. \A s \in TracedSpans : spanRows[s] # None => spanRows[s].number \in Nat
    BY <1>1 DEF FidelitySound, SendsSound, RowSound, ExportSound
  <2>. QED
    BY <1>1, <2>1
<1>2. ASSUME FidelitySound, NEW p \in Processes, StoreItem(p)
      PROVE  Back
  <2>1. SUFFICES ASSUME NEW s \in TracedSpans, spanRows[s] # None,
                        spanRows'[s].number < spanRows[s].number
                 PROVE  GoesBack(s)
    OBVIOUS
  <2>2. PICK items : items = posted[p].items /\ Batch(items) /\ LastFollows(items, p) /\ items # <<>>
    BY <1>2, Present DEF FidelitySound, ProcessSound, RequestSound, StoreItem, StoreNext
  <2>3. PICK S : items \in Seq(S)
    BY <2>2 DEF Batch
  <2>4. PICK e : e = Head(items)
    OBVIOUS
  <2>5. e = items[1] /\ 1 \in DOMAIN items /\ Len(items) \in Nat
        /\ DOMAIN items = 1 .. Len(items)
    BY <2>2, <2>3, <2>4
  <2>6. ExportSound(e)
    BY <2>2, <2>5 DEF Batch
  <2>7. \A r \in TracedSpans : spanRows'[r] = IF r = e.span THEN e ELSE spanRows[r]
    BY <1>2, <2>2, <2>4, <2>6 DEF StoreItem, StoreNext, FidelitySound, FidelityTables, ExportSound
  <2>8. /\ ExportSound(spanRows[s]) /\ spanRows[s].span = s
        /\ spanRows[s].number \in 1 .. recorded[s].exports
    BY <1>2, <2>1 DEF FidelitySound, SendsSound, RowSound, ExportSound
  <2>9. recorded[s].exports \in Nat
    BY <1>2, <2>8 DEF FidelitySound, FidelityTables, SpanTable, ExportSound, Started, SpanRecord
  <2>10. e.span = s /\ e.number < recorded[s].exports
    <3>1. e.span = s
      BY <2>1, <2>7, <2>8, <2>9
    <3>2. e.number \in Nat
      BY <2>6, <2>9, <3>1 DEF ExportSound
    <3>. QED
      BY <2>1, <2>7, <2>8, <2>9, <3>1, <3>2
  <2>11. PICK j \in DOMAIN items :
           j > 1 /\ items[j].span = s /\ items[j].number = recorded[s].exports
    BY <2>2, <2>5, <2>10 DEF LastFollows
  <2>12. posted'[p].items = Tail(items)
    <3>1. PICK R : posted \in [Processes -> R]
      BY <1>2 DEF FidelitySound, FidelityTables
    <3>2. DOMAIN posted[p] = {"at", "items"}
      BY <1>2 DEF FidelitySound, SendsSound, ProcessSound, RequestSound
    <3>. QED
      BY <1>2, <2>2, <3>1, <3>2 DEF StoreItem
  <2>13. j - 1 \in DOMAIN Tail(items) /\ Tail(items)[j - 1] = items[j]
    BY <2>2, <2>3, <2>5, <2>11
  <2>14. items[j].number >= spanRows[s].number
    BY <2>8, <2>9, <2>11
  <2>15. \E k \in DOMAIN posted'[p].items :
           posted'[p].items[k].span = s /\ posted'[p].items[k].number >= spanRows[s].number
    BY <2>11, <2>12, <2>13, <2>14
  <2>. QED
    BY <2>15 DEF GoesBack
<1>3. ASSUME FidelitySound, NEW request \in abandoned, StoreLate(request)
      PROVE  abandoned' # abandoned
  <2>1. PICK items : items = request.items /\ Batch(items) /\ items # <<>>
    BY <1>3, Present DEF FidelitySound, RequestSound, StoreLate, StoreNext
  <2>2. DOMAIN request = {"at", "items"}
    BY <1>3, Present DEF FidelitySound, RequestSound
  <2>3. PICK rest : rest = [request EXCEPT !.items = Tail(@)]
    OBVIOUS
  <2>4. rest.items = Tail(items)
    BY <2>1, <2>2, <2>3
  <2>5. PICK S : items \in Seq(S)
    BY <2>1 DEF Batch
  <2>6. Len(Tail(items)) # Len(items)
    BY <2>1, <2>5
  <2>7. rest # request
    BY <2>1, <2>4, <2>6
  <2>8. abandoned' = (abandoned \ {request}) \union {rest}
    BY <1>3, <2>3 DEF StoreLate
  <2>. QED
    BY <2>7, <2>8
<1>4. ASSUME FidelitySound, FidelityNext
      PROVE  Back
  <2>1. CASE \E s \in TracedSpans : Begins(s) \/ Acts(s)
    <3>1. PICK s \in TracedSpans : Begins(s) \/ Acts(s)
      BY <2>1
    <3>2. CASE Begins(s)
      <4>1. \E span : Begin(s, span)
        BY <3>2, Zenon DEF Begins, StartTrace, ContinueFromBaggage, StartChild
      <4>. QED
        BY <1>1, <1>4, <4>1 DEF Begin, endpoint
    <3>3. CASE FlushPartial(s) \/ \E raised \in BOOLEAN : ExitSpan(s, raised)
      <4>1. \E span, partial : Export(s, span, partial)
        BY <3>3, Zenon DEF FlushPartial, ExitSpan
      <4>. QED
        BY <1>1, <1>4, <4>1 DEF Export, endpoint
    <3>4. CASE \/ \E stripped \in BOOLEAN : Inject(s, stripped)
              \/ \E kind \in {"stream", "step"} : AddEvent(s, kind)
      BY <1>1, <1>4, <3>4 DEF Inject, AddEvent, endpoint
    <3>. QED
      BY <3>1, <3>2, <3>3, <3>4 DEF Acts
  <2>2. ASSUME NEW p \in Processes,
               Flush(p) \/ RefuseBatch(p) \/ ReceiveBatch(p) \/ AnswerBatch(p) \/ GiveUp(p)
        PROVE  Back
    <3>1. UNCHANGED spanRows
      BY <2>2 DEF Flush, RefuseBatch, ReceiveBatch, AnswerBatch, GiveUp, endpoint
    <3>. QED
      BY <1>4, <3>1, <1>1
  <2>3. ASSUME NEW request \in abandoned, ReceiveLate(request)
        PROVE  Back
    <3>1. UNCHANGED spanRows
      BY <2>3 DEF ReceiveLate
    <3>. QED
      BY <1>4, <3>1, <1>1
  <2>4. ASSUME NEW request \in abandoned, StoreLate(request)
        PROVE  Back
    BY <1>3, <1>4, <2>4 DEF GoesBack
  <2>5. CASE Carried
    BY <1>2, <1>4, <2>2, <2>3, <2>4, <2>5 DEF Carried
  <2>. QED
    BY <1>4, <2>1, <2>5, StepsOfFidelity
<1>5. FidelitySound /\ [FidelityNext]_fidelityVars => [Back]_fidelityVars
  BY <1>4
<1>6. [Back]_fidelityVars =>
        [\A s \in TracedSpans : spanRows[s] # None /\ spanRows'[s].number < spanRows[s].number =>
           \/ abandoned' # abandoned
           \/ \E p \in Processes : \E k \in DOMAIN posted'[p].items :
                posted'[p].items[k].span = s
                /\ posted'[p].items[k].number >= spanRows[s].number]_fidelityVars
  BY DEF GoesBack
<1>. QED
  BY <1>5, <1>6, FidelityAlways, PTL DEF FidelitySpec, OnlyLateRequestsGoBack

-----------------------------------------------------------------------------
(* What the events of an export say. *)

\* Of a list of events only the last may be a marker.
Plain(events) ==
  /\ \E R : events \in Seq(R)
  /\ \A k \in DOMAIN events :
       /\ events[k].stream \in Nat /\ events[k].other \in Nat
       /\ events[k].kind # "omitted" => events[k].stream = 0 /\ events[k].other = 0
       /\ events[k].kind = "omitted" => k = Len(events)

\* How many events there were, by what such a list says.
Said(events) ==
  IF events # <<>> /\ events[Len(events)].kind = "omitted"
  THEN Len(events) - 1 + events[Len(events)].stream + events[Len(events)].other
  ELSE Len(events)

LEMMA PlainLength ==
  ASSUME NEW events, Plain(events)
  PROVE  Len(events) \in Nat /\ DOMAIN events = 1 .. Len(events) /\ (events # <<>> <=> Len(events) # 0)
<1>1. PICK R : events \in Seq(R)
  BY DEF Plain
<1>. QED
  BY <1>1

\* The sum of what the markers of an export say, as the fold computes it.
OmissionSums(g, events) ==
  g = [s \in SUBSET DOMAIN events |->
         IF s = {} THEN 0
         ELSE g[s \ {CHOOSE x \in s : TRUE}] + events[CHOOSE x \in s : TRUE].stream
                + events[CHOOSE x \in s : TRUE].other]

LEMMA OmittedIsChosen ==
  ASSUME NEW e
  PROVE  Omitted(e) = (CHOOSE g : OmissionSums(g, e.events))[DOMAIN e.events]
BY DEF Omitted, FoldSeq, FoldFunction, FoldFunctionOnSet, MapThenFoldSet, OmissionSums

Weights(events) == [k \in DOMAIN events |-> events[k].stream + events[k].other]

LEMMA OmissionSumsExist ==
  ASSUME NEW events, IsFiniteSet(DOMAIN events),
         \A k \in DOMAIN events : events[k].stream \in Nat /\ events[k].other \in Nat
  PROVE  /\ \E g : OmissionSums(g, events)
         /\ \A g : OmissionSums(g, events) => SumRule(g, DOMAIN events, Weights(events))
<1>1. PICK S, w : S = DOMAIN events /\ w = Weights(events)
  OBVIOUS
<1>2. IsFiniteSet(S) /\ w \in [S -> Nat]
  BY <1>1 DEF Weights
<1>3. ASSUME NEW s \in SUBSET S, s # {}
      PROVE  /\ (CHOOSE x \in s : TRUE) \in s
             /\ w[CHOOSE x \in s : TRUE] =
                  events[CHOOSE x \in s : TRUE].stream + events[CHOOSE x \in s : TRUE].other
  <2>1. PICK x : x = CHOOSE y \in s : TRUE
    OBVIOUS
  <2>2. x \in s
    BY <1>3, <2>1
  <2>. QED
    BY <1>1, <2>1, <2>2 DEF Weights
<1>4. \E g : OmissionSums(g, events)
  <2>1. PICK g : SumRule(g, S, w) /\ SumAsChosen(g, S, w)
    BY ONLY <1>2, SumExists
  <2>2. PICK h : h = [s \in SUBSET S |->
                        IF s = {} THEN 0
                        ELSE g[s \ {CHOOSE x \in s : TRUE}] + events[CHOOSE x \in s : TRUE].stream
                               + events[CHOOSE x \in s : TRUE].other]
    OBVIOUS
  <2>3. ASSUME NEW s \in SUBSET S
        PROVE  h[s] = g[s]
    <3>1. CASE s = {}
      BY <2>1, <2>2, <3>1 DEF SumAsChosen
    <3>2. CASE s # {}
      <4>1. PICK x : x = CHOOSE y \in s : TRUE
        OBVIOUS
      <4>2. x \in s /\ w[x] = events[x].stream + events[x].other
        BY <1>3, <3>2, <4>1
      <4>3. PICK r \in SUBSET S : r = s \ {x}
        OBVIOUS
      <4>4. g[s] = g[r] + w[x]
        BY <2>1, <3>2, <4>1, <4>3 DEF SumAsChosen
      <4>5. h[s] = g[r] + events[x].stream + events[x].other
        BY <2>2, <3>2, <4>1, <4>3
      <4>6. g[r] \in Nat /\ events[x].stream \in Nat /\ events[x].other \in Nat
        BY <1>1, <2>1, <4>2 DEF SumRule
      <4>. QED
        BY <4>2, <4>4, <4>5, <4>6
    <3>. QED
      BY <3>1, <3>2
  <2>4. g = h
    <3>1. DOMAIN g = SUBSET S /\ g = [s \in SUBSET S |-> g[s]]
      BY <2>1 DEF SumAsChosen
    <3>2. DOMAIN h = SUBSET S /\ h = [s \in SUBSET S |-> h[s]]
      BY <2>2
    <3>. QED
      BY <2>3, <3>1, <3>2
  <2>. QED
    BY <1>1, <2>2, <2>4 DEF OmissionSums
<1>5. ASSUME NEW g, OmissionSums(g, events)
      PROVE  SumRule(g, S, w)
  <2>1. DOMAIN g = SUBSET S /\ g[{}] = 0 /\ g = [s \in SUBSET S |-> g[s]]
    BY <1>1, <1>5 DEF OmissionSums
  <2>2. ASSUME NEW s \in SUBSET S, s # {}
        PROVE  \E x \in s : /\ g[s] = g[s \ {x}] + events[x].stream + events[x].other
                            /\ w[x] = events[x].stream + events[x].other
    <3>1. PICK x : x = CHOOSE y \in s : TRUE
      OBVIOUS
    <3>2. x \in s /\ w[x] = events[x].stream + events[x].other
      BY <1>3, <2>2, <3>1
    <3>3. g[s] = g[s \ {x}] + events[x].stream + events[x].other
      BY <1>1, <1>5, <2>2, <3>1 DEF OmissionSums
    <3>. QED
      BY <3>2, <3>3
  <2>. DEFINE T == {s \in SUBSET S : g[s] \in Nat}
  <2>3. {} \in T
    BY <2>1
  <2>4. ASSUME NEW s \in SUBSET S, s # {}
        PROVE  \E x \in s : s \ {x} \in T => s \in T
    <3>1. PICK x \in s : g[s] = g[s \ {x}] + events[x].stream + events[x].other
      BY <2>2, <2>4
    <3>2. events[x].stream \in Nat /\ events[x].other \in Nat
      BY <1>1
    <3>3. g[s \ {x}] \in Nat => g[s] \in Nat
      BY <3>1, <3>2
    <3>. QED
      BY <3>3
  <2>5. \A s \in SUBSET S : s \in T
    <3>. HIDE DEF T
    <3>. QED
      BY <1>2, <2>3, <2>4, SubsetsByOne
  <2>6. g \in [SUBSET S -> Nat]
    BY <2>1, <2>5
  <2>7. ASSUME NEW s \in SUBSET S, s # {}
        PROVE  \E x \in s : g[s] = g[s \ {x}] + w[x]
    <3>1. PICK x \in s : /\ g[s] = g[s \ {x}] + events[x].stream + events[x].other
                         /\ w[x] = events[x].stream + events[x].other
      BY <2>2, <2>7
    <3>2. g[s \ {x}] \in Nat /\ events[x].stream \in Nat /\ events[x].other \in Nat
      BY <1>1, <2>5
    <3>3. g[s] = g[s \ {x}] + w[x]
      BY <3>1, <3>2
    <3>. QED
      BY <3>3
  <2>. QED
    BY <1>2, <2>1, <2>6, <2>7 DEF SumRule
<1>. QED
  BY <1>1, <1>4, <1>5

\* The sum over a list of which only the last may be a marker.
LEMMA PlainSum ==
  ASSUME NEW events, Plain(events), NEW n, n = Len(events), NEW g, NEW S, NEW w, SumRule(g, S, w),
         1 .. n \in SUBSET S, \A k \in 1 .. n : w[k] = events[k].stream + events[k].other
  PROVE  g[1 .. n] + Cardinality({k \in 1 .. n : events[k].kind # "omitted"}) = Said(events)
<1>. DEFINE shown == {k \in 1 .. n : events[k].kind # "omitted"}
<1>1. n \in Nat /\ DOMAIN events = 1 .. n /\ (events # <<>> <=> n # 0)
  BY PlainLength
<1>2. CASE n = 0
  <2>1. 1 .. n = {} /\ shown = {}
    BY <1>2
  <2>2. g[{}] = 0 /\ Cardinality({}) = 0
    BY FS_EmptySet DEF SumRule
  <2>. QED
    BY <1>1, <1>2, <2>1, <2>2 DEF Said
<1>3. CASE n # 0
  <2>1. PICK all, before : all = 1 .. n /\ before = all \ {n}
    OBVIOUS
  <2>2. all \in SUBSET S /\ before \in SUBSET S /\ n \in all
    BY <1>1, <1>3, <2>1
  <2>3. \A k \in before : events[k].kind # "omitted" /\ w[k] = 0
    BY <1>1, <2>1 DEF Plain
  <2>4. g[before] = 0
    BY <2>2, <2>3, SumOfNothing
  <2>5. g[all] = g[before] + w[n]
    <3>1. SumRule(g, S, w) /\ all \in SUBSET S /\ n \in all
      BY <2>1, <2>2
    <3>2. g[all] = g[all \ {n}] + w[n]
      BY ONLY <3>1, SumInAnyOrder
    <3>. QED
      BY ONLY <2>1, <3>2, Zenon
  <2>6. Cardinality(all) = n /\ Cardinality(before) = n - 1
    <3>1. IsFiniteSet(all) /\ Cardinality(all) = n
      <4>1. IsFiniteSet(1 .. n) /\ Cardinality(1 .. n) = n
        BY <1>1, UpTo
      <4>. QED
        BY <2>1, <4>1
    <3>2. Cardinality(all \ {n}) = Cardinality(all) - 1
      BY ONLY <2>2, <3>1, FS_RemoveElement
    <3>. QED
      BY ONLY <2>1, <3>1, <3>2
  <2>7. shown \in SUBSET all /\ before \in SUBSET shown /\ (n \in shown <=> events[n].kind # "omitted")
    BY <2>1, <2>2, <2>3
  <2>8. CASE events[n].kind = "omitted"
    <3>1. shown = before
      BY <2>1, <2>7, <2>8
    <3>2. w[n] = events[n].stream + events[n].other
      BY <2>1, <2>2
    <3>3. events[n].stream \in Nat /\ events[n].other \in Nat
      BY <1>1, <2>1, <2>2 DEF Plain
    <3>4. Said(events) = n - 1 + events[n].stream + events[n].other
      BY <1>1, <1>3, <2>8 DEF Said
    <3>. HIDE DEF shown
    <3>5. g[all] + Cardinality(shown) = Said(events)
      BY <1>1, <2>4, <2>5, <2>6, <3>1, <3>2, <3>3, <3>4
    <3>. QED
      BY <2>1, <3>5 DEF shown
  <2>9. CASE events[n].kind # "omitted"
    <3>1. shown = all
      BY <2>1, <2>7, <2>9
    <3>2. w[n] = 0
      BY <1>1, <2>1, <2>2, <2>9 DEF Plain
    <3>3. Said(events) = n
      BY <1>1, <2>9 DEF Said
    <3>. HIDE DEF shown
    <3>4. g[all] + Cardinality(shown) = Said(events)
      BY <1>1, <2>4, <2>5, <2>6, <3>1, <3>2, <3>3
    <3>. QED
      BY <2>1, <3>4 DEF shown
  <2>. QED
    BY <2>8, <2>9
<1>. QED
  BY <1>2, <1>3

LEMMA CountPlain ==
  ASSUME NEW e, Plain(e.events)
  PROVE  KeptCount(e) + Omitted(e) = Said(e.events)
<1>1. PICK events, n : events = e.events /\ n = Len(events)
  OBVIOUS
<1>2. Plain(events) /\ n \in Nat /\ DOMAIN events = 1 .. n /\ IsFiniteSet(1 .. n)
  BY <1>1, PlainLength, UpTo
<1>3. PICK g : OmissionSums(g, events) /\ g = CHOOSE h : OmissionSums(h, events)
  BY <1>2, OmissionSumsExist DEF Plain
<1>4. SumRule(g, 1 .. n, Weights(events))
  BY <1>2, <1>3, OmissionSumsExist DEF Plain
<1>5. Omitted(e) = g[1 .. n]
  BY <1>1, <1>2, <1>3, OmittedIsChosen
<1>6. PICK w, S, shown : /\ w = Weights(events) /\ S = 1 .. n
                         /\ shown = {k \in 1 .. n : events[k].kind # "omitted"}
  OBVIOUS
<1>7. KeptCount(e) = Cardinality(shown)
  BY <1>1, <1>2, <1>6 DEF KeptCount
<1>8. \A k \in 1 .. n : w[k] = events[k].stream + events[k].other
  BY <1>2, <1>6 DEF Weights
<1>9. SumRule(g, S, w) /\ 1 .. n \in SUBSET S
  BY <1>4, <1>6
<1>10. g[1 .. n] + Cardinality(shown) = Said(events)
  <2>1. shown = {k \in 1 .. n : events[k].kind # "omitted"} /\ Plain(events) /\ n = Len(events)
    BY <1>1, <1>2, <1>6
  <2>2. g[1 .. n] + Cardinality({k \in 1 .. n : events[k].kind # "omitted"}) = Said(events)
    BY ONLY <1>8, <1>9, <2>1, PlainSum
  <2>. QED
    BY <2>1, <2>2
<1>11. g[1 .. n] \in Nat /\ Cardinality(shown) \in Nat
  <2>1. shown \in SUBSET (1 .. n)
    BY <1>6
  <2>2. Cardinality(shown) \in Nat
    BY <1>2, <2>1, FS_Subset, FS_CardinalityType
  <2>. QED
    BY <1>4, <2>2 DEF SumRule
<1>. QED
  BY <1>1, <1>5, <1>7, <1>10, <1>11

\* A marker behind such a list adds what it says.
LEMMA CountMarked ==
  ASSUME NEW e, NEW events, Plain(events), NEW marker, e.events = Append(events, marker),
         marker.kind = "omitted", marker.stream \in Nat, marker.other \in Nat
  PROVE  KeptCount(e) + Omitted(e) = Said(events) + marker.stream + marker.other
<1>1. PICK all, n : all = e.events /\ n = Len(events)
  OBVIOUS
<1>2. /\ n \in Nat /\ DOMAIN events = 1 .. n /\ DOMAIN all = 1 .. (n + 1)
      /\ all[n + 1] = marker /\ \A k \in 1 .. n : all[k] = events[k]
  <2>1. PICK R : events \in Seq(R)
    BY DEF Plain
  <2>2. n \in Nat /\ DOMAIN events = 1 .. n
    BY <1>1, <2>1
  <2>. QED
    BY <1>1, <2>1, <2>2
<1>3. /\ \A k \in DOMAIN all : all[k].stream \in Nat /\ all[k].other \in Nat
      /\ IsFiniteSet(DOMAIN all)
  <2>1. \A k \in 1 .. n : all[k].stream \in Nat /\ all[k].other \in Nat
    BY <1>2 DEF Plain
  <2>2. \A k \in 1 .. (n + 1) : k \in 1 .. n \/ k = n + 1
    BY <1>2
  <2>3. IsFiniteSet(1 .. (n + 1))
    BY <1>2, UpTo
  <2>. QED
    BY <1>2, <2>1, <2>2, <2>3
<1>4. PICK S, w : S = DOMAIN all /\ w = Weights(all)
  OBVIOUS
<1>5. PICK g : OmissionSums(g, all) /\ g = CHOOSE h : OmissionSums(h, all)
  BY <1>3, OmissionSumsExist
<1>6. SumRule(g, S, w)
  BY <1>3, <1>4, <1>5, OmissionSumsExist
<1>7. Omitted(e) = g[S]
  BY <1>1, <1>4, <1>5, OmittedIsChosen
<1>8. /\ 1 .. n \in SUBSET S /\ S \in SUBSET S /\ n + 1 \in S /\ 1 .. n = S \ {n + 1}
      /\ w[n + 1] = marker.stream + marker.other
      /\ \A k \in 1 .. n : w[k] = events[k].stream + events[k].other
  BY <1>2, <1>4 DEF Weights
<1>9. PICK shown : shown = {k \in 1 .. n : events[k].kind # "omitted"}
  OBVIOUS
<1>10. g[1 .. n] + Cardinality(shown) = Said(events)
  BY <1>1, <1>6, <1>8, <1>9, PlainSum
<1>11. KeptCount(e) = Cardinality(shown)
  <2>1. {k \in DOMAIN all : all[k].kind # "omitted"} = shown
    BY <1>2, <1>9
  <2>. QED
    BY <1>1, <2>1 DEF KeptCount
<1>12. g[S] = g[1 .. n] + w[n + 1]
  <2>1. PICK k, rest : k = n + 1 /\ rest = S \ {k}
    OBVIOUS
  <2>2. k \in S /\ S \in SUBSET S
    BY <1>8, <2>1
  <2>3. g[S] = g[S \ {k}] + w[k]
    BY ONLY <1>6, <2>2, SumInAnyOrder
  <2>. QED
    BY <1>8, <2>1, <2>3
<1>13. g[1 .. n] \in Nat /\ Cardinality(shown) \in Nat
  <2>1. shown \in SUBSET S /\ IsFiniteSet(S)
    BY <1>3, <1>4, <1>8, <1>9
  <2>2. Cardinality(shown) \in Nat
    BY <2>1, FS_Subset, FS_CardinalityType
  <2>. QED
    BY <1>6, <1>8, <2>2 DEF SumRule
<1>. QED
  BY <1>7, <1>8, <1>10, <1>11, <1>12, <1>13

-----------------------------------------------------------------------------
\* What sampling leaves of a list: its end, unless that is of a stream.
Thinner(events, less) ==
  /\ Plain(less) /\ Len(less) <= Len(events)
  /\ \A k \in DOMAIN less : \E j \in DOMAIN events : less[k] = events[j]
  /\ events # <<>> /\ events[Len(events)].kind # "stream" =>
       less # <<>> /\ less[Len(less)] = events[Len(events)]

LEMMA ThinnerStill ==
  ASSUME NEW all, NEW some, NEW few, Thinner(all, some), Thinner(some, few)
  PROVE  Thinner(all, few)
<1>1. Plain(some) /\ Plain(few) /\ Len(few) <= Len(some) /\ Len(some) <= Len(all)
  BY DEF Thinner
<1>. QED
  BY <1>1, PlainLength DEF Thinner

\* What is left, and a marker for the rest, say together what the list said.
LEMMA ThinnerSays ==
  ASSUME NEW events, Plain(events), NEW less, Thinner(events, less)
  PROVE  Said(less) + (Len(events) - Len(less)) = Said(events)
<1>1. PICK n, m : n = Len(events) /\ m = Len(less)
  OBVIOUS
<1>2. /\ n \in Nat /\ DOMAIN events = 1 .. n /\ (events # <<>> <=> n # 0)
      /\ m \in Nat /\ DOMAIN less = 1 .. m /\ (less # <<>> <=> m # 0)
  BY <1>1, PlainLength DEF Thinner
<1>3. CASE events # <<>> /\ events[n].kind = "omitted"
  <2>1. less # <<>> /\ less[m] = events[n] /\ n \in DOMAIN events
    BY <1>1, <1>2, <1>3 DEF Thinner
  <2>2. events[n].stream \in Nat /\ events[n].other \in Nat
    BY <2>1 DEF Plain
  <2>3. /\ Said(events) = n - 1 + events[n].stream + events[n].other
        /\ Said(less) = m - 1 + events[n].stream + events[n].other
    BY <1>1, <1>3, <2>1 DEF Said
  <2>. QED
    BY <1>1, <1>2, <2>2, <2>3
<1>4. CASE ~ (events # <<>> /\ events[n].kind = "omitted")
  <2>1. \A j \in DOMAIN events : events[j].kind # "omitted"
    BY <1>1, <1>2, <1>4 DEF Plain
  <2>2. \A k \in DOMAIN less : less[k].kind # "omitted"
    BY <2>1 DEF Thinner
  <2>3. Said(events) = n /\ Said(less) = m
    BY <1>1, <1>2, <2>1, <2>2 DEF Said
  <2>. QED
    BY <1>1, <1>2, <2>3
<1>. QED
  BY <1>3, <1>4

LEMMA ThinnerAt ==
  ASSUME NEW events, Plain(events), NEW kept \in SUBSET DOMAIN events,
         events # <<>> /\ events[Len(events)].kind # "stream" => Len(events) \in kept
  PROVE  Thinner(events, EventsAt(events, kept))
<1>1. PICK n, c, less : n = Len(events) /\ c = Cardinality(kept) /\ less = EventsAt(events, kept)
  OBVIOUS
<1>2. n \in Nat /\ DOMAIN events = 1 .. n /\ (events # <<>> <=> n # 0)
  BY <1>1, PlainLength
<1>3. /\ c \in Nat /\ c <= n
      /\ \A i \in 1 .. c : \E k \in kept : Cardinality({j \in kept : j <= k}) = i
      /\ n \in kept => Cardinality({j \in kept : j <= n}) = c
  <2>1. kept \in SUBSET (1 .. n) /\ n \in Nat
    BY <1>2
  <2>2. /\ Cardinality(kept) \in Nat /\ Cardinality(kept) <= n
        /\ \A i \in 1 .. Cardinality(kept) : \E k \in kept : Cardinality({j \in kept : j <= k}) = i
        /\ n \in kept => Cardinality({j \in kept : j <= n}) = Cardinality(kept)
    BY ONLY <2>1, Ranks
  <2>. QED
    BY <1>1, <2>2
<1>4. ASSUME NEW i \in 1 .. c
      PROVE  \E k \in kept : less[i] = events[k] /\ Cardinality({j \in kept : j <= k}) = i
  <2>1. PICK k : k = CHOOSE x \in kept : Cardinality({j \in kept : j <= x}) = i
    OBVIOUS
  <2>2. k \in kept /\ Cardinality({j \in kept : j <= k}) = i
    BY <1>3, <2>1
  <2>3. less[i] = events[k]
    BY <1>1, <2>1 DEF EventsAt
  <2>. QED
    BY <2>2, <2>3
<1>5. less \in Seq({events[k] : k \in 1 .. n}) /\ Len(less) = c /\ DOMAIN less = 1 .. c
  <2>1. DOMAIN less = 1 .. c /\ less = [i \in 1 .. c |-> less[i]]
    BY <1>1 DEF EventsAt
  <2>2. \A i \in 1 .. c : less[i] \in {events[k] : k \in 1 .. n}
    BY <1>2, <1>4
  <2>3. less \in [1 .. c -> {events[k] : k \in 1 .. n}]
    BY <2>1, <2>2
  <2>. QED
    BY <1>3, <2>1, <2>3
<1>6. ASSUME NEW i \in 1 .. c, less[i].kind = "omitted"
      PROVE  i = c
  <2>1. PICK k \in kept : less[i] = events[k] /\ Cardinality({j \in kept : j <= k}) = i
    BY <1>4
  <2>2. k = n
    BY <1>1, <1>6, <2>1 DEF Plain
  <2>. QED
    BY <1>3, <2>1, <2>2
<1>7. Plain(less)
  <2>1. ASSUME NEW i \in 1 .. c
        PROVE  /\ less[i].stream \in Nat /\ less[i].other \in Nat
               /\ less[i].kind # "omitted" => less[i].stream = 0 /\ less[i].other = 0
    BY <1>4 DEF Plain
  <2>2. \E R : less \in Seq(R)
    BY <1>5
  <2>. QED
    BY <1>5, <1>6, <2>1, <2>2 DEF Plain
<1>8. ASSUME events # <<>>, events[n].kind # "stream"
      PROVE  less # <<>> /\ less[c] = events[n]
  <2>1. n \in kept
    BY <1>1, <1>8
  <2>2. c # 0
    <3>1. kept # {} /\ IsFiniteSet(kept)
      BY <1>2, <2>1, UpTo, FS_Subset
    <3>. QED
      BY <1>1, <3>1, FS_EmptySet
  <2>3. PICK k \in kept : less[c] = events[k] /\ Cardinality({j \in kept : j <= k}) = c
    <3>1. c \in 1 .. c
      BY <1>3, <2>2
    <3>. QED
      BY <1>4, <3>1
  <2>4. ASSUME k < n
        PROVE  FALSE
    <3>1. PICK A, B : A = {j \in kept : j <= k} /\ B = {j \in kept : j <= n}
      OBVIOUS
    <3>2. \A j \in kept : j \in Nat /\ j <= n
      BY <1>2
    <3>3. A \in SUBSET B /\ n \in B /\ n \notin A
      BY <1>2, <2>1, <2>4, <3>1, <3>2
    <3>4. IsFiniteSet(B)
      BY <1>2, <3>1, UpTo, FS_Subset
    <3>. QED
      BY <1>3, <2>1, <2>3, <3>1, <3>3, <3>4, FS_Subset
  <2>5. k = n
    BY <1>2, <2>3, <2>4
  <2>. QED
    BY <1>5, <2>2, <2>3, <2>5
<1>. QED
  BY <1>1, <1>2, <1>3, <1>4, <1>5, <1>7, <1>8 DEF Thinner

LEMMA StreamThinner ==
  ASSUME NEW events, Plain(events), NEW rate
  PROVE  Thinner(events, StreamKept(events, rate))
<1>1. PICK kept : kept = {k \in DOMAIN events : \/ rate <= 1 \/ events[k].kind # "stream"
                                                \/ StreamsBefore(events, k) % rate = 0}
  OBVIOUS
<1>2. events # <<>> /\ events[Len(events)].kind # "stream" => Len(events) \in kept
  BY <1>1, PlainLength
<1>3. StreamKept(events, rate) = EventsAt(events, kept)
  BY <1>1 DEF StreamKept
<1>. QED
  BY <1>1, <1>2, <1>3, ThinnerAt

LEMMA CappedThinner ==
  ASSUME NEW events, Plain(events), NEW max \in Nat
  PROVE  Thinner(events, CappedEvents(events, max))
<1>1. PICK n, capped : n = Len(events) /\ capped = CappedEvents(events, max)
  OBVIOUS
<1>2. n \in Nat /\ DOMAIN events = 1 .. n /\ (events # <<>> <=> n # 0)
  BY <1>1, PlainLength
<1>3. CASE max = 0 \/ n <= max
  <2>1. capped = events
    BY <1>1, <1>3 DEF CappedEvents
  <2>. QED
    BY <1>1, <1>2, <2>1 DEF Thinner
<1>4. CASE ~ (max = 0 \/ n <= max)
  <2>1. PICK R : events \in Seq(R)
    BY DEF Plain
  <2>2. PICK head, tail : head = max \div 2 /\ tail = max - head
    OBVIOUS
  <2>3. head \in Nat /\ tail \in Nat /\ tail # 0 /\ head + tail = max /\ max < n
    BY <1>1, <1>2, <1>4, <2>2
  <2>4. PICK first, last : first = SubSeq(events, 1, head) /\ last = SubSeq(events, n - tail + 1, n)
    OBVIOUS
  <2>5. /\ first \in Seq(R) /\ Len(first) = head /\ \A i \in 1 .. head : first[i] = events[i]
        /\ last \in Seq(R) /\ Len(last) = tail /\ \A i \in 1 .. tail : last[i] = events[n - tail + i]
    BY <1>1, <1>2, <2>1, <2>3, <2>4
  <2>6. capped = first \o last
    BY <1>1, <1>4, <2>2, <2>4 DEF CappedEvents
  <2>7. /\ capped \in Seq(R) /\ Len(capped) = max /\ DOMAIN capped = 1 .. max
        /\ \A i \in 1 .. max : capped[i] = events[IF i <= head THEN i ELSE n - max + i]
    <3>1. /\ capped \in Seq(R) /\ Len(capped) = max
          /\ \A i \in 1 .. max : capped[i] = IF i <= head THEN first[i] ELSE last[i - head]
      <4>0. /\ first \in Seq(R) /\ Len(first) = head /\ last \in Seq(R) /\ Len(last) = tail
            /\ capped = first \o last /\ head \in Nat /\ tail \in Nat
        BY <2>3, <2>5, <2>6
      <4>1. capped \in Seq(R) /\ Len(capped) = head + tail
        BY ONLY <4>0
      <4>2. \A i \in 1 .. (head + tail) : capped[i] = IF i <= head THEN first[i] ELSE last[i - head]
        BY ONLY <4>0
      <4>. QED
        BY <2>3, <4>1, <4>2
    <3>2. ASSUME NEW i \in 1 .. max
          PROVE  capped[i] = events[IF i <= head THEN i ELSE n - max + i]
      <4>1. CASE i <= head
        BY <2>3, <2>5, <3>1, <4>1
      <4>2. CASE ~ (i <= head)
        <5>1. i - head \in 1 .. tail /\ n - tail + (i - head) = n - max + i
          BY <1>2, <2>3, <4>2
        <5>2. last[i - head] = events[n - tail + (i - head)]
          BY <2>5, <5>1
        <5>. QED
          BY <3>1, <4>2, <5>1, <5>2
      <4>. QED
        BY <4>1, <4>2
    <3>. QED
      BY <3>1, <3>2
  <2>8. ASSUME NEW i \in 1 .. max
        PROVE  \E j \in 1 .. n : capped[i] = events[j] /\ (j = n => i = max)
    <3>1. PICK j : j = IF i <= head THEN i ELSE n - max + i
      OBVIOUS
    <3>2. j \in 1 .. n /\ (j = n => i = max)
      BY <1>2, <2>3, <3>1
    <3>. QED
      BY <2>7, <3>1, <3>2
  <2>9. capped[max] = events[n] /\ capped # <<>>
    BY <1>2, <2>3, <2>7
  <2>10. Plain(capped)
    <3>1. ASSUME NEW i \in 1 .. max
          PROVE  /\ capped[i].stream \in Nat /\ capped[i].other \in Nat
                 /\ capped[i].kind # "omitted" => capped[i].stream = 0 /\ capped[i].other = 0
                 /\ capped[i].kind = "omitted" => i = max
      BY <1>1, <1>2, <2>8 DEF Plain
    <3>. QED
      BY <2>7, <3>1 DEF Plain
  <2>. QED
    BY <1>1, <1>2, <2>3, <2>7, <2>8, <2>9, <2>10 DEF Thinner
<1>. QED
  BY <1>3, <1>4

-----------------------------------------------------------------------------
(* The numbers on the markers. *)

\* Sampling takes nothing from what a list says.
LEMMA SampledSays ==
  ASSUME NEW events, Plain(events), NEW limits, limits.events \in Nat, NEW e,
         e.events = SampledEvents(events, limits)
  PROVE  KeptCount(e) + Omitted(e) = Said(events)
<1>1. PICK kept, capped : /\ kept = StreamKept(events, limits.stream)
                          /\ capped = CappedEvents(kept, limits.events)
  OBVIOUS
<1>2. Thinner(events, kept)
  BY <1>1, StreamThinner
<1>3. Thinner(kept, capped)
  BY <1>1, <1>2, CappedThinner DEF Thinner
<1>4. Thinner(events, capped)
  BY <1>2, <1>3, ThinnerStill
<1>5. /\ Len(events) \in Nat /\ Len(kept) \in Nat /\ Len(capped) \in Nat
      /\ Len(kept) <= Len(events) /\ Len(capped) <= Len(kept)
  BY <1>2, <1>3, PlainLength DEF Thinner
<1>6. CASE Len(capped) = Len(events)
  BY <1>1, <1>6, CountPlain DEF SampledEvents
<1>7. CASE Len(capped) # Len(events)
  <2>1. PICK marker : marker = Omission(Len(events) - Len(kept), Len(kept) - Len(capped))
    OBVIOUS
  <2>2. /\ marker.kind = "omitted" /\ marker.stream = Len(events) - Len(kept)
        /\ marker.other = Len(kept) - Len(capped)
    BY <2>1 DEF Omission
  <2>3. marker.stream \in Nat /\ marker.other \in Nat
    BY <1>5, <2>2
  <2>4. e.events = Append(capped, marker)
    BY <1>1, <1>7, <2>1 DEF SampledEvents
  <2>5. KeptCount(e) + Omitted(e) = Said(capped) + marker.stream + marker.other
    BY <1>4, <2>2, <2>3, <2>4, CountMarked DEF Thinner
  <2>6. Said(capped) + (Len(events) - Len(capped)) = Said(events)
    BY <1>4, ThinnerSays
  <2>7. Said(capped) \in Int
    BY <1>4, <1>5, PlainLength DEF Said, Plain, Thinner
  <2>. QED
    BY <1>5, <2>2, <2>5, <2>6, <2>7
<1>. QED
  BY <1>6, <1>7

\* A list without markers, sampled once, has one at its end or is as it was; and it
\* keeps a last event that is of no stream.
Unmarked(events) ==
  /\ \E R : events \in Seq(R)
  /\ \A k \in DOMAIN events :
       events[k].kind # "omitted" /\ events[k].stream = 0 /\ events[k].other = 0

LEMMA UnmarkedIsPlain ==
  ASSUME NEW events, Unmarked(events)
  PROVE  Plain(events) /\ Said(events) = Len(events)
<1>1. Plain(events)
  BY DEF Unmarked, Plain
<1>2. events # <<>> => Len(events) \in DOMAIN events
  BY <1>1, PlainLength
<1>. QED
  BY <1>1, <1>2 DEF Unmarked, Said

LEMMA MarkedIsPlain ==
  ASSUME NEW events, Unmarked(events), NEW marker, marker.kind = "omitted",
         marker.stream \in Nat, marker.other \in Nat
  PROVE  /\ Plain(Append(events, marker))
         /\ Said(Append(events, marker)) = Len(events) + marker.stream + marker.other
         /\ \A k \in DOMAIN events : /\ k \in DOMAIN Append(events, marker)
                                     /\ Append(events, marker)[k] = events[k]
<1>1. PICK R : events \in Seq(R)
  BY DEF Unmarked
<1>2. PICK n, all : n = Len(events) /\ all = Append(events, marker)
  OBVIOUS
<1>3. /\ n \in Nat /\ DOMAIN events = 1 .. n
      /\ all \in Seq(R \union {marker}) /\ Len(all) = n + 1 /\ DOMAIN all = 1 .. (n + 1)
      /\ all[n + 1] = marker /\ \A k \in 1 .. n : all[k] = events[k]
  BY <1>1, <1>2
<1>4. \A k \in 1 .. (n + 1) : k \in 1 .. n \/ k = n + 1
  BY <1>3
<1>5. Plain(all)
  BY <1>3, <1>4 DEF Plain, Unmarked
<1>6. Said(all) = n + marker.stream + marker.other
  BY <1>3 DEF Said
<1>. QED
  BY <1>2, <1>3, <1>5, <1>6

LEMMA FirstSampling ==
  ASSUME NEW events, Unmarked(events), NEW limits, limits.events \in Nat
  PROVE  LET sampled == SampledEvents(events, limits) IN
           /\ Plain(sampled) /\ Said(sampled) = Len(events)
           /\ events # <<>> /\ events[Len(events)].kind # "stream" =>
                \E k \in DOMAIN sampled : sampled[k] = events[Len(events)]
<1>1. PICK kept, capped : /\ kept = StreamKept(events, limits.stream)
                          /\ capped = CappedEvents(kept, limits.events)
  OBVIOUS
<1>2. Plain(events) /\ Said(events) = Len(events)
  BY UnmarkedIsPlain
<1>3. Thinner(events, kept)
  BY <1>1, <1>2, StreamThinner
<1>4. Thinner(kept, capped)
  BY <1>1, <1>3, CappedThinner DEF Thinner
<1>5. Thinner(events, capped)
  BY <1>3, <1>4, ThinnerStill
<1>6. /\ Len(events) \in Nat /\ Len(kept) \in Nat /\ Len(capped) \in Nat
      /\ Len(kept) <= Len(events) /\ Len(capped) <= Len(kept)
      /\ (events # <<>> => Len(events) \in DOMAIN events)
      /\ (capped # <<>> => Len(capped) \in DOMAIN capped)
  BY <1>2, <1>3, <1>4, PlainLength DEF Thinner
<1>7. CASE Len(capped) = Len(events)
  <2>1. SampledEvents(events, limits) = events
    BY <1>1, <1>7 DEF SampledEvents
  <2>. QED
    BY <1>2, <1>6, <2>1
<1>8. CASE Len(capped) # Len(events)
  <2>1. PICK marker : marker = Omission(Len(events) - Len(kept), Len(kept) - Len(capped))
    OBVIOUS
  <2>2. /\ marker.kind = "omitted" /\ marker.stream = Len(events) - Len(kept)
        /\ marker.other = Len(kept) - Len(capped)
    BY <2>1 DEF Omission
  <2>3. marker.stream \in Nat /\ marker.other \in Nat
    BY <1>6, <2>2
  <2>4. SampledEvents(events, limits) = Append(capped, marker)
    BY <1>1, <1>8, <2>1 DEF SampledEvents
  <2>5. Unmarked(capped)
    BY <1>5 DEF Unmarked, Thinner, Plain
  <2>6. PICK sampled : sampled = Append(capped, marker)
    OBVIOUS
  <2>7. /\ Plain(sampled) /\ Said(sampled) = Len(capped) + marker.stream + marker.other
        /\ \A k \in DOMAIN capped : k \in DOMAIN sampled /\ sampled[k] = capped[k]
    BY <2>2, <2>3, <2>5, <2>6, MarkedIsPlain
  <2>8. Said(sampled) = Len(events)
    BY <1>6, <2>2, <2>7
  <2>9. events # <<>> /\ events[Len(events)].kind # "stream" =>
          \E k \in DOMAIN sampled : sampled[k] = events[Len(events)]
    BY <1>5, <1>6, <2>7 DEF Thinner
  <2>. QED
    BY <2>4, <2>6, <2>7, <2>8, <2>9
<1>. QED
  BY <1>7, <1>8

-----------------------------------------------------------------------------
\* Of a partial flush of a trace that is not sampled nothing is promised.
Promised(e) == e.partial => e.sampled \/ KeptInAnyCase(e)

Counted(e) == Promised(e) => KeptCount(e) + Omitted(e) = e.all

\* An export as the SDK made it, which the endpoint may still sample.
Fresh(e) == Promised(e) => Plain(e.events) /\ Said(e.events) = e.all

LEMMA FreshIsCounted ==
  ASSUME NEW e, Fresh(e)
  PROVE  Counted(e)
BY CountPlain DEF Fresh, Counted

LEMMA PolicedIsCounted ==
  ASSUME settings \in ServerLimits, NEW items, Batch(items), NEW k \in DOMAIN items, Fresh(items[k])
  PROVE  Counted(Policed(items, k))
<1>1. CASE HasPriority(items, k) /\ ~Pressed(items)
  BY <1>1, FreshIsCounted DEF Policed
<1>2. CASE ~ (HasPriority(items, k) /\ ~Pressed(items))
  <2>1. PICK e, payload, pressed :
          /\ e = [items[k] EXCEPT !.events = SampledEvents(@, settings), !.payload = payload,
                                  !.pressed = pressed]
          /\ e = Policed(items, k)
    BY <1>2 DEF Policed
  <2>2. DOMAIN items[k] = ExportFields
    BY DEF Batch, ExportSound
  <2>3. /\ e.events = SampledEvents(items[k].events, settings) /\ e.all = items[k].all
        /\ e.partial = items[k].partial /\ e.sampled = items[k].sampled
        /\ e.status = items[k].status /\ e.keep = items[k].keep
    BY <2>1, <2>2 DEF ExportFields
  <2>4. settings.events \in Nat
    BY FidelityAssumption
  <2>5. ASSUME Promised(e)
        PROVE  KeptCount(e) + Omitted(e) = e.all
    <3>1. Promised(items[k])
      BY <2>3, <2>5 DEF Promised, KeptInAnyCase
    <3>2. Plain(items[k].events) /\ Said(items[k].events) = items[k].all
      BY <3>1 DEF Fresh
    <3>3. KeptCount(e) + Omitted(e) = Said(items[k].events)
      BY <2>3, <2>4, <3>2, SampledSays
    <3>. QED
      BY <2>3, <3>2, <3>3
  <2>. QED
    BY <2>1, <2>5 DEF Counted
<1>. QED
  BY <1>1, <1>2

LEMMA ExportIsFresh ==
  ASSUME sdk \in SdkLimits, NEW s, NEW span \in SpanRecord, NEW partial \in BOOLEAN,
         NEW e, e = ExportOf(s, span, partial)
  PROVE  Fresh(e)
<1>1. PICK note, events : /\ note = Event("partial")
                          /\ events = IF partial THEN Append(span.events, note) ELSE span.events
  OBVIOUS
<1>2. PICK sampled : sampled = SdkEvents(span, events)
  OBVIOUS
<1>3. /\ e.keep = span.keep /\ e.partial = partial /\ e.sampled = span.sampled
      /\ e.status = (IF partial /\ span.status = "unknown" THEN "incomplete" ELSE span.status)
      /\ e.all = Len(events)
      /\ e.events = IF partial /\ \A k \in DOMAIN sampled : sampled[k].kind # "partial"
                    THEN Append(sampled, note) ELSE sampled
  BY <1>1, <1>2 DEF ExportOf
<1>4. KeptInAnyCase(e) => KeptInAnyCase(span)
  BY <1>3 DEF KeptInAnyCase
<1>5. span.events \in Seq(EventRecord) /\ note.kind = "partial" /\ note.stream = 0 /\ note.other = 0
  BY <1>1 DEF SpanRecord, EventRecord, Event
<1>6. /\ Unmarked(events) /\ Len(events) \in Nat
      /\ partial => events # <<>> /\ events[Len(events)] = note /\ Len(events) \in DOMAIN events
  <2>1. /\ events \in Seq(EventRecord \union {note}) /\ Len(events) \in Nat
        /\ partial => events # <<>> /\ events[Len(events)] = note /\ Len(events) \in DOMAIN events
    BY <1>1, <1>5
  <2>2. \A event \in EventRecord \union {note} :
          event.kind # "omitted" /\ event.stream = 0 /\ event.other = 0
    BY <1>5 DEF EventRecord
  <2>3. \A k \in DOMAIN events : events[k] \in EventRecord \union {note}
    BY <2>1
  <2>. QED
    BY <2>1, <2>2, <2>3 DEF Unmarked
<1>7. Plain(events) /\ Said(events) = Len(events)
  BY <1>6, UnmarkedIsPlain
<1>8. CASE KeptInAnyCase(span) \/ events = <<>>
  <2>1. sampled = events
    BY <1>2, <1>8 DEF SdkEvents
  <2>2. e.events = events
    BY <1>3, <1>5, <1>6, <2>1
  <2>. QED
    BY <1>3, <1>7, <2>2 DEF Fresh
<1>9. CASE ~ (KeptInAnyCase(span) \/ events = <<>>) /\ span.sampled
  <2>1. sampled = SampledEvents(events, sdk)
    BY <1>2, <1>9 DEF SdkEvents
  <2>2. sdk.events \in Nat
    BY FidelityAssumption
  <2>3. /\ Plain(sampled) /\ Said(sampled) = Len(events)
        /\ partial => \E k \in DOMAIN sampled : sampled[k] = note
    BY <1>5, <1>6, <2>1, <2>2, FirstSampling
  <2>4. e.events = sampled
    BY <1>3, <1>5, <2>3
  <2>. QED
    BY <1>3, <2>3, <2>4 DEF Fresh
<1>10. CASE ~ (KeptInAnyCase(span) \/ events = <<>>) /\ ~ span.sampled
  <2>1. PICK marker : marker = Omission(0, Len(events))
    OBVIOUS
  <2>2. sampled = Append(<<>>, marker)
    BY <1>2, <1>10, <2>1 DEF SdkEvents
  <2>3. /\ marker.kind = "omitted" /\ marker.stream = 0 /\ marker.other = Len(events)
        /\ marker.stream \in Nat /\ marker.other \in Nat
    BY <1>6, <2>1 DEF Omission
  <2>4. Unmarked(<<>>)
    <3>1. <<>> \in Seq({})
      OBVIOUS
    <3>. QED
      BY <3>1 DEF Unmarked
  <2>5. Plain(sampled) /\ Said(sampled) = Len(<<>>) + marker.stream + marker.other
    BY <2>2, <2>3, <2>4, MarkedIsPlain
  <2>6. Said(sampled) = Len(events)
    BY <1>6, <2>3, <2>5
  <2>7. Promised(e) => ~ partial
    BY <1>3, <1>4, <1>10 DEF Promised
  <2>8. ~ partial => e.events = sampled
    BY <1>3
  <2>. QED
    BY <1>3, <2>5, <2>6, <2>7, <2>8 DEF Fresh
<1>. QED
  BY <1>8, <1>9, <1>10

-----------------------------------------------------------------------------
\* What is on its way to the endpoint may still be sampled, what it has received not.
AllFresh(items) == \A k \in DOMAIN items : Fresh(items[k])

RequestCounted(request) ==
  /\ \A k \in DOMAIN request.items : Counted(request.items[k])
  /\ request.at = "sent" => AllFresh(request.items)

CountsSound ==
  /\ settings \in ServerLimits
  /\ \A p \in Processes : AllFresh(outbox[p]) /\ RequestCounted(posted[p])
  /\ \A request \in abandoned : RequestCounted(request)
  /\ \A s \in TracedSpans : spanRows[s] # None => Counted(spanRows[s])

LEMMA ReceivedIsCounted ==
  ASSUME settings \in ServerLimits, NEW request, RequestSound(request), RequestCounted(request),
         request.at = "sent"
  PROVE  RequestCounted(Received(request))
<1>1. PICK items : items = request.items
  OBVIOUS
<1>2. \A k \in DOMAIN items : Counted(Policed(items, k))
  BY <1>1, PolicedIsCounted DEF RequestCounted, AllFresh, RequestSound
<1>. QED
  BY <1>1, <1>2 DEF Received, RequestCounted

\* The rest of a request whose first item is stored.
LEMMA RestIsCounted ==
  ASSUME NEW request, RequestSound(request), RequestCounted(request), StoreNext(request)
  PROVE  /\ Counted(Head(request.items))
         /\ RequestCounted([request EXCEPT !.items = Tail(@)])
<1>1. PICK items, rest : items = request.items /\ rest = [request EXCEPT !.items = Tail(@)]
  OBVIOUS
<1>2. PICK S : items \in Seq(S)
  BY <1>1 DEF RequestSound, Batch
<1>3. items # <<>> /\ request.at = "received"
  BY <1>1 DEF StoreNext
<1>4. /\ 1 \in DOMAIN items /\ Head(items) = items[1]
      /\ \A k \in DOMAIN Tail(items) : k + 1 \in DOMAIN items /\ Tail(items)[k] = items[k + 1]
  BY <1>2, <1>3
<1>5. rest.items = Tail(items) /\ rest.at = "received"
  BY <1>1, <1>3 DEF RequestSound
<1>6. \A k \in DOMAIN items : Counted(items[k])
  BY <1>1 DEF RequestCounted
<1>7. \A k \in DOMAIN rest.items : Counted(rest.items[k])
  BY <1>4, <1>5, <1>6
<1>. QED
  BY <1>1, <1>4, <1>5, <1>6, <1>7 DEF RequestCounted

\* The row of the first item of a request.
LEMMA StoredIsCounted ==
  ASSUME FidelityTables, CountsSound, NEW request, RequestSound(request), RequestCounted(request),
         StoreNext(request)
  PROVE  \A s \in TracedSpans : spanRows'[s] # None => Counted(spanRows'[s])
<1>1. PICK e : e = Head(request.items) /\ Counted(e)
  BY RestIsCounted
<1>2. \A s \in TracedSpans : spanRows'[s] = IF s = e.span THEN e ELSE spanRows[s]
  BY <1>1 DEF StoreNext, FidelityTables
<1>. QED
  BY <1>1, <1>2 DEF CountsSound

\* A step of the request of one process.
LEMMA RequestCounts ==
  ASSUME FidelityTables, CountsSound, settings' = settings, NEW p \in Processes,
         NEW items, NEW request, AllFresh(items), RequestCounted(request),
         \/ outbox' = outbox
         \/ outbox' = [outbox EXCEPT ![p] = items],
         posted' = [posted EXCEPT ![p] = request],
         \A r \in abandoned' : RequestCounted(r),
         \A s \in TracedSpans : spanRows'[s] # None => Counted(spanRows'[s])
  PROVE  CountsSound'
<1>1. ASSUME NEW q \in Processes
      PROVE  AllFresh(outbox'[q]) /\ RequestCounted(posted'[q])
  <2>1. outbox'[q] = outbox[q] \/ (q = p /\ outbox'[q] = items)
    BY DEF FidelityTables
  <2>2. posted'[q] = IF q = p THEN request ELSE posted[q]
    BY DEF FidelityTables
  <2>. QED
    BY <2>1, <2>2 DEF CountsSound
<1>2. settings' \in ServerLimits
  BY DEF CountsSound
<1>. QED
  BY <1>1, <1>2 DEF CountsSound

LEMMA CarriedCounts ==
  ASSUME FidelitySound, CountsSound, Carried
  PROVE  CountsSound'
<1>1. FidelityTables /\ SendsSound /\ settings \in ServerLimits /\ settings' = settings
  BY DEF FidelitySound, CountsSound, Carried, Flush, RefuseBatch, ReceiveBatch, StoreItem,
         AnswerBatch, GiveUp, ReceiveLate, StoreLate
<1>2. RequestCounted(NoRequest) /\ AllFresh(<<>>)
  BY DEF RequestCounted, AllFresh, NoRequest
<1>3. /\ \A r \in abandoned : RequestCounted(r) /\ RequestSound(r)
      /\ \A s \in TracedSpans : spanRows[s] # None => Counted(spanRows[s])
  BY <1>1, Present DEF CountsSound
<1>4. ASSUME NEW p \in Processes,
             \/ Flush(p) \/ RefuseBatch(p) \/ ReceiveBatch(p) \/ StoreItem(p) \/ AnswerBatch(p)
             \/ GiveUp(p)
      PROVE  CountsSound'
  <2>1. PICK items, request : /\ items = outbox[p] /\ request = posted[p]
                              /\ AllFresh(items) /\ RequestCounted(request)
                              /\ RequestSound(request)
    BY <1>1, Present DEF CountsSound, ProcessSound
  <2>2. CASE Flush(p)
    <3>1. PICK sent : sent = [at |-> "sent", items |-> items]
      OBVIOUS
    <3>2. RequestCounted(sent)
      BY <2>1, <3>1, FreshIsCounted DEF RequestCounted, AllFresh
    <3>3. /\ posted' = [posted EXCEPT ![p] = sent]
          /\ UNCHANGED <<outbox, abandoned, spanRows>>
      BY <2>1, <2>2, <3>1 DEF Flush, endpoint
    <3>. QED
      BY <1>1, <1>3, <2>1, <3>2, <3>3, RequestCounts
  <2>3. CASE RefuseBatch(p)
    <3>1. /\ posted' = [posted EXCEPT ![p] = NoRequest]
          /\ UNCHANGED <<outbox, abandoned, spanRows>>
      BY <2>3 DEF RefuseBatch, endpoint
    <3>. QED
      BY <1>1, <1>2, <1>3, <2>1, <3>1, RequestCounts
  <2>4. CASE ReceiveBatch(p)
    <3>1. PICK received : received = Received(request)
      OBVIOUS
    <3>2. /\ request.at = "sent" /\ posted' = [posted EXCEPT ![p] = received]
          /\ UNCHANGED <<outbox, abandoned, spanRows>>
      BY <2>1, <2>4, <3>1 DEF ReceiveBatch, endpoint, Received
    <3>3. RequestCounted(received)
      BY <1>1, <2>1, <3>1, <3>2, ReceivedIsCounted
    <3>. QED
      BY <1>1, <1>3, <2>1, <3>2, <3>3, RequestCounts
  <2>5. CASE StoreItem(p)
    <3>1. PICK rest : rest = [request EXCEPT !.items = Tail(@)]
      OBVIOUS
    <3>2. StoreNext(request) /\ UNCHANGED <<outbox, abandoned>>
      BY <2>1, <2>5 DEF StoreItem, StoreNext
    <3>3. posted' = [posted EXCEPT ![p] = rest]
      BY <2>1, <2>5, <3>1 DEF StoreItem
    <3>4. RequestCounted(rest)
      BY <2>1, <3>1, <3>2, RestIsCounted
    <3>5. \A s \in TracedSpans : spanRows'[s] # None => Counted(spanRows'[s])
      BY <1>1, <2>1, <3>2, StoredIsCounted
    <3>. QED
      BY <1>1, <1>3, <2>1, <3>2, <3>3, <3>4, <3>5, RequestCounts
  <2>6. CASE AnswerBatch(p)
    <3>1. /\ posted' = [posted EXCEPT ![p] = NoRequest] /\ outbox' = [outbox EXCEPT ![p] = <<>>]
          /\ UNCHANGED <<abandoned, spanRows>>
      BY <2>6 DEF AnswerBatch, endpoint
    <3>. QED
      BY <1>1, <1>2, <1>3, <3>1, RequestCounts
  <2>7. CASE GiveUp(p)
    <3>1. /\ posted' = [posted EXCEPT ![p] = NoRequest]
          /\ abandoned' = abandoned \union {request} /\ UNCHANGED <<outbox, spanRows>>
      BY <2>1, <2>7 DEF GiveUp
    <3>2. \A r \in abandoned' : RequestCounted(r)
      BY <1>3, <2>1, <3>1
    <3>. QED
      BY <1>1, <1>2, <1>3, <2>1, <3>1, <3>2, RequestCounts
  <2>. QED
    BY <1>4, <2>2, <2>3, <2>4, <2>5, <2>6, <2>7
<1>5. ASSUME NEW request \in abandoned, ReceiveLate(request) \/ StoreLate(request)
      PROVE  CountsSound'
  <2>1. UNCHANGED <<outbox, posted>> /\ RequestCounted(request) /\ RequestSound(request)
    BY <1>3, <1>5 DEF ReceiveLate, StoreLate
  <2>2. CASE ReceiveLate(request)
    <3>1. RequestCounted(Received(request)) /\ spanRows' = spanRows
      BY <1>1, <2>1, <2>2, ReceivedIsCounted DEF ReceiveLate
    <3>2. \A r \in abandoned' : RequestCounted(r)
      BY <1>3, <2>2, <3>1 DEF ReceiveLate
    <3>. QED
      BY <1>1, <1>3, <2>1, <3>1, <3>2 DEF CountsSound
  <2>3. CASE StoreLate(request)
    <3>1. PICK rest : rest = [request EXCEPT !.items = Tail(@)]
      OBVIOUS
    <3>2. StoreNext(request) /\ abandoned' = (abandoned \ {request}) \union {rest}
      BY <2>3, <3>1 DEF StoreLate
    <3>3. RequestCounted(rest)
      BY <2>1, <3>1, <3>2, RestIsCounted
    <3>4. \A r \in abandoned' : RequestCounted(r)
      BY <1>3, <3>2, <3>3
    <3>5. \A s \in TracedSpans : spanRows'[s] # None => Counted(spanRows'[s])
      BY <1>1, <2>1, <3>2, StoredIsCounted
    <3>. QED
      BY <1>1, <2>1, <3>4, <3>5 DEF CountsSound
  <2>. QED
    BY <1>5, <2>2, <2>3
<1>. QED
  BY <1>4, <1>5 DEF Carried

LEMMA ExportCounts ==
  ASSUME FidelitySound, CountsSound, NEW s, NEW span \in SpanRecord, NEW partial \in BOOLEAN,
         Export(s, span, partial)
  PROVE  CountsSound'
<1>1. PICK e : e = ExportOf(s, span, partial)
  OBVIOUS
<1>2. Fresh(e)
  BY <1>1, ExportIsFresh DEF FidelitySound, FidelityTables
<1>3. PICK p : p = span.process
  OBVIOUS
<1>4. outbox' = [outbox EXCEPT ![p] = Append(@, e)] /\ UNCHANGED <<settings, posted, abandoned, spanRows>>
  BY <1>1, <1>3 DEF Export, Queued, endpoint
<1>5. ASSUME NEW q \in Processes
      PROVE  AllFresh(outbox'[q])
  <2>1. AllFresh(outbox[q])
    BY DEF CountsSound
  <2>2. CASE q # p
    BY <1>4, <2>1, <2>2 DEF FidelitySound, FidelityTables
  <2>3. CASE q = p
    <3>1. PICK items, more : items = outbox[q] /\ more = Append(items, e)
      OBVIOUS
    <3>2. outbox'[q] = more
      BY <1>4, <2>3, <3>1 DEF FidelitySound, FidelityTables
    <3>3. PICK S : items \in Seq(S)
      BY <3>1 DEF FidelitySound, SendsSound, ProcessSound, Batch
    <3>4. \A k \in DOMAIN more : (k \in DOMAIN items /\ more[k] = items[k]) \/ more[k] = e
      BY <3>1, <3>3
    <3>. QED
      BY <1>2, <2>1, <3>1, <3>2, <3>4 DEF AllFresh
  <2>. QED
    BY <2>2, <2>3
<1>. QED
  BY <1>4, <1>5 DEF CountsSound

LEMMA CountsStep ==
  ASSUME FidelitySound, CountsSound, FidelityNext
  PROVE  CountsSound'
<1>1. SpanTable
  BY DEF FidelitySound, FidelityTables
<1>2. CASE Carried
  BY <1>2, CarriedCounts
<1>3. ASSUME UNCHANGED <<settings, outbox, posted, abandoned, spanRows>>
      PROVE  CountsSound'
  BY <1>3 DEF CountsSound
<1>4. ASSUME NEW s \in TracedSpans, Begins(s)
      PROVE  CountsSound'
  <2>1. UNCHANGED <<settings, outbox, posted, abandoned, spanRows>>
    BY <1>4 DEF Begins, StartTrace, ContinueFromBaggage, StartChild, Begin, endpoint
  <2>. QED
    BY <1>3, <2>1
<1>5. ASSUME NEW s \in TracedSpans, Acts(s)
      PROVE  CountsSound'
  <2>1. CASE \/ \E stripped \in BOOLEAN : Inject(s, stripped)
             \/ \E kind \in {"stream", "step"} : AddEvent(s, kind)
    <3>1. UNCHANGED <<settings, outbox, posted, abandoned, spanRows>>
      BY <2>1 DEF Inject, AddEvent, endpoint
    <3>. QED
      BY <1>3, <3>1
  <2>2. CASE FlushPartial(s)
    <3>1. recorded[s] \in SpanRecord /\ Export(s, recorded[s], TRUE)
      BY <1>1, <2>2 DEF FlushPartial, SpanTable
    <3>. QED
      BY <3>1, ExportCounts
  <2>3. ASSUME NEW raised \in BOOLEAN, ExitSpan(s, raised)
        PROVE  CountsSound'
    <3>1. PICK span \in SpanRecord : Export(s, span, FALSE)
      BY <1>1, <2>3, Exits
    <3>. QED
      BY <3>1, ExportCounts
  <2>. QED
    BY <1>5, <2>1, <2>2, <2>3 DEF Acts
<1>. QED
  BY <1>2, <1>4, <1>5, StepsOfFidelity

(* However often the events of a span are sampled, by the SDK and then by the endpoint,
   those left and the numbers on the markers add up to the events there were: the
   marker of the SDK stands last, where neither thinning a stream nor a cap takes it
   away, and what a request has received is not sampled a second time. *)
THEOREM Counting == FidelitySpec => []OmissionsCounted
<1>1. FidelityInit => CountsSound
  BY DEF FidelityInit, CountsSound, AllFresh, RequestCounted, NoRequest
<1>2. CountsSound /\ UNCHANGED fidelityVars => CountsSound'
  BY DEF fidelityVars, CountsSound
<1>3. FidelitySound /\ CountsSound => OmissionsCounted
  <2>1. SUFFICES ASSUME FidelitySound, CountsSound, NEW e \in Exports
                 PROVE  Counted(e)
    BY DEF OmissionsCounted, Counted, Promised
  <2>2. ASSUME NEW p \in Processes, e \in ToSet(outbox[p])
        PROVE  Counted(e)
    <3>1. PICK k \in DOMAIN outbox[p] : e = outbox[p][k]
      BY <2>2 DEF ToSet
    <3>. QED
      BY <2>1, <3>1, FreshIsCounted DEF CountsSound, AllFresh
  <2>3. ASSUME NEW s \in TracedSpans, spanRows[s] # None, e = spanRows[s]
        PROVE  Counted(e)
    BY <2>1, <2>3 DEF CountsSound
  <2>4. \/ \E p \in Processes : e \in ToSet(outbox[p])
        \/ \E s \in TracedSpans : spanRows[s] # None /\ e = spanRows[s]
    <3>1. \/ e \in UNION {ToSet(outbox[p]) : p \in Processes}
          \/ e \in {spanRows[s] : s \in {r \in TracedSpans : spanRows[r] # None}}
      BY <2>1 DEF Exports
    <3>2. CASE e \in UNION {ToSet(outbox[p]) : p \in Processes}
      BY <3>2, Zenon
    <3>3. CASE e \in {spanRows[s] : s \in {r \in TracedSpans : spanRows[r] # None}}
      BY <3>3, Zenon
    <3>. QED
      BY <3>1, <3>2, <3>3
  <2>. QED
    BY <2>2, <2>3, <2>4
<1>. QED
  BY <1>1, <1>2, <1>3, FidelityAlways, CountsStep, PTL DEF FidelitySpec

-----------------------------------------------------------------------------
(* The types of what is exported, and of the requests. *)

NotedKinds == {"stream", "step", "exception", "partial", "omitted"}
Noted == [kind : NotedKinds, stream : Nat, other : Nat]

ExportTyped(e) == e.status \in {"incomplete", "ok", "error"} /\ e.events \in Seq(Noted)
ItemsTyped(items) == \A k \in DOMAIN items : ExportTyped(items[k])

\* The events at some positions are of the events.
LEMMA NotedAt ==
  ASSUME NEW events \in Seq(Noted), NEW kept \in SUBSET DOMAIN events
  PROVE  EventsAt(events, kept) \in Seq(Noted) /\ Cardinality(kept) \in 0 .. Len(events)
<1>1. PICK n, c, less : n = Len(events) /\ c = Cardinality(kept) /\ less = EventsAt(events, kept)
  OBVIOUS
<1>2. n \in Nat /\ DOMAIN events = 1 .. n /\ \A k \in 1 .. n : events[k] \in Noted
  BY <1>1
<1>3. /\ c \in Nat /\ c <= n
      /\ \A i \in 1 .. c : \E k \in kept : Cardinality({j \in kept : j <= k}) = i
  <2>1. kept \in SUBSET (1 .. n) /\ n \in Nat
    BY <1>2
  <2>2. /\ Cardinality(kept) \in Nat /\ Cardinality(kept) <= n
        /\ \A i \in 1 .. Cardinality(kept) : \E k \in kept : Cardinality({j \in kept : j <= k}) = i
    BY ONLY <2>1, Ranks
  <2>. QED
    BY <1>1, <2>2
<1>4. ASSUME NEW i \in 1 .. c
      PROVE  less[i] \in Noted
  <2>1. PICK k : k = CHOOSE x \in kept : Cardinality({j \in kept : j <= x}) = i
    OBVIOUS
  <2>2. k \in kept
    BY <1>3, <2>1
  <2>3. less[i] = events[k]
    BY <1>1, <2>1 DEF EventsAt
  <2>. QED
    BY <1>2, <2>2, <2>3
<1>5. DOMAIN less = 1 .. c /\ less = [i \in 1 .. c |-> less[i]]
  BY <1>1 DEF EventsAt
<1>6. less \in [1 .. c -> Noted]
  BY <1>4, <1>5
<1>7. less \in Seq(Noted)
  BY <1>3, <1>6
<1>. QED
  BY <1>1, <1>3, <1>7

LEMMA NotedLength ==
  ASSUME NEW events \in Seq(Noted), NEW rate
  PROVE  StreamKept(events, rate) \in Seq(Noted) /\ Len(StreamKept(events, rate)) \in 0 .. Len(events)
<1>1. PICK kept : kept = {k \in DOMAIN events : \/ rate <= 1 \/ events[k].kind # "stream"
                                                \/ StreamsBefore(events, k) % rate = 0}
  OBVIOUS
<1>2. StreamKept(events, rate) = EventsAt(events, kept)
  BY <1>1 DEF StreamKept
<1>3. EventsAt(events, kept) \in Seq(Noted) /\ Cardinality(kept) \in 0 .. Len(events)
  BY <1>1, NotedAt
<1>4. DOMAIN EventsAt(events, kept) = 1 .. Cardinality(kept)
  BY DEF EventsAt
<1>5. Len(EventsAt(events, kept)) = Cardinality(kept)
  BY <1>3, <1>4
<1>. QED
  BY <1>2, <1>3, <1>5

LEMMA NotedCap ==
  ASSUME NEW events \in Seq(Noted), NEW max \in Nat
  PROVE  /\ CappedEvents(events, max) \in Seq(Noted)
         /\ Len(CappedEvents(events, max)) \in 0 .. Len(events)
<1>1. PICK n : n = Len(events) /\ n \in Nat
  OBVIOUS
<1>2. CASE max = 0 \/ n <= max
  BY <1>1, <1>2 DEF CappedEvents
<1>3. CASE ~(max = 0 \/ n <= max)
  <2>1. PICK head, tail : head = max \div 2 /\ tail = max - head
    OBVIOUS
  <2>2. head \in Nat /\ tail \in Nat /\ tail # 0 /\ head + tail = max /\ max < n
    BY <1>1, <1>3, <2>1
  <2>3. PICK first, last : first = SubSeq(events, 1, head) /\ last = SubSeq(events, n - tail + 1, n)
    OBVIOUS
  <2>4. /\ first \in Seq(Noted) /\ Len(first) = head
        /\ last \in Seq(Noted) /\ Len(last) = tail
    BY <1>1, <2>2, <2>3
  <2>5. CappedEvents(events, max) = first \o last
    BY <1>1, <1>3, <2>1, <2>3 DEF CappedEvents
  <2>6. first \o last \in Seq(Noted) /\ Len(first \o last) = head + tail
    BY ONLY <2>2, <2>4
  <2>. QED
    BY <1>1, <2>2, <2>5, <2>6
<1>. QED
  BY <1>2, <1>3

LEMMA NotedSample ==
  ASSUME NEW events \in Seq(Noted), NEW limits, limits.events \in Nat
  PROVE  SampledEvents(events, limits) \in Seq(Noted)
<1>1. PICK kept, capped : /\ kept = StreamKept(events, limits.stream)
                          /\ capped = CappedEvents(kept, limits.events)
  OBVIOUS
<1>2. kept \in Seq(Noted) /\ Len(kept) \in 0 .. Len(events)
  BY <1>1, NotedLength
<1>3. capped \in Seq(Noted) /\ Len(capped) \in 0 .. Len(kept)
  BY <1>1, <1>2, NotedCap
<1>4. PICK marker : marker = Omission(Len(events) - Len(kept), Len(kept) - Len(capped))
  OBVIOUS
<1>5. marker \in Noted
  <2>1. Len(events) - Len(kept) \in Nat /\ Len(kept) - Len(capped) \in Nat
    BY <1>2, <1>3
  <2>. QED
    BY <1>4, <2>1 DEF Omission, Noted, NotedKinds
<1>6. Append(capped, marker) \in Seq(Noted)
  BY <1>3, <1>5
<1>. QED
  BY <1>1, <1>4, <1>6 DEF SampledEvents

LEMMA PolicedTyped ==
  ASSUME settings \in ServerLimits, NEW items, Batch(items), NEW k \in DOMAIN items,
         ExportTyped(items[k])
  PROVE  ExportTyped(Policed(items, k))
<1>1. CASE HasPriority(items, k) /\ ~Pressed(items)
  BY <1>1 DEF Policed
<1>2. CASE ~(HasPriority(items, k) /\ ~Pressed(items))
  <2>1. PICK e, payload, pressed :
          /\ e = [items[k] EXCEPT !.events = SampledEvents(@, settings), !.payload = payload,
                                  !.pressed = pressed]
          /\ e = Policed(items, k)
    BY <1>2 DEF Policed
  <2>2. DOMAIN items[k] = ExportFields
    BY DEF Batch, ExportSound
  <2>3. e.events = SampledEvents(items[k].events, settings) /\ e.status = items[k].status
    BY <2>1, <2>2 DEF ExportFields
  <2>4. settings.events \in Nat
    BY FidelityAssumption
  <2>5. SampledEvents(items[k].events, settings) \in Seq(Noted)
    BY <2>4, NotedSample DEF ExportTyped
  <2>. QED
    BY <2>1, <2>3, <2>5 DEF ExportTyped
<1>. QED
  BY <1>1, <1>2

\* A partial flush or the end of a span.
LEMMA ExportIsTyped ==
  ASSUME sdk \in SdkLimits, NEW s, NEW span \in SpanRecord, NEW partial \in BOOLEAN,
         partial \/ span.status # "unknown", NEW e, e = ExportOf(s, span, partial)
  PROVE  ExportTyped(e)
<1>1. PICK note, events : /\ note = Event("partial")
                          /\ events = IF partial THEN Append(span.events, note) ELSE span.events
  OBVIOUS
<1>2. PICK sampled : sampled = SdkEvents(span, events)
  OBVIOUS
<1>3. /\ e.status = (IF partial /\ span.status = "unknown" THEN "incomplete" ELSE span.status)
      /\ e.events = IF partial /\ \A k \in DOMAIN sampled : sampled[k].kind # "partial"
                    THEN Append(sampled, note) ELSE sampled
  BY <1>1, <1>2 DEF ExportOf
<1>4. e.status \in {"incomplete", "ok", "error"}
  BY <1>3 DEF SpanRecord
<1>5. note \in Noted
  BY <1>1 DEF Event, Noted, NotedKinds
<1>6. events \in Seq(Noted)
  <2>1. span.events \in Seq(EventRecord)
    BY DEF SpanRecord, EventRecord
  <2>2. EventRecord \subseteq Noted
    BY DEF EventRecord, Noted, NotedKinds
  <2>3. span.events \in Seq(Noted)
    BY <2>1, <2>2
  <2>. QED
    BY <1>1, <1>5, <2>3
<1>7. sampled \in Seq(Noted)
  <2>1. SampledEvents(events, sdk) \in Seq(Noted)
    BY <1>6, FidelityAssumption, NotedSample
  <2>2. <<Omission(0, Len(events))>> \in Seq(Noted)
    <3>1. Omission(0, Len(events)) \in Noted
      BY <1>6 DEF Omission, Noted, NotedKinds
    <3>. QED
      BY <3>1
  <2>. QED
    BY <1>2, <1>6, <2>1, <2>2 DEF SdkEvents
<1>8. e.events \in Seq(Noted)
  BY <1>3, <1>5, <1>7
<1>. QED
  BY <1>4, <1>8 DEF ExportTyped

\* A process that has sent its buffer adds nothing to it.
PostTyped(items, request) ==
  /\ ItemsTyped(items) /\ ItemsTyped(request.items)
  /\ request.at = "sent" => request.items = items

FidelityTyped ==
  /\ settings \in ServerLimits
  /\ \A p \in Processes : PostTyped(outbox[p], posted[p])
  /\ \A request \in abandoned : ItemsTyped(request.items)
  /\ \A s \in TracedSpans : spanRows[s] # None => ExportTyped(spanRows[s])

\* What was given up is counted.
AbandonedCounted ==
  /\ giveUps \in Nat
  /\ IsFiniteSet(abandoned) /\ Cardinality(abandoned) <= giveUps

LEMMA ReceivedTyped ==
  ASSUME settings \in ServerLimits, NEW request, RequestSound(request), ItemsTyped(request.items)
  PROVE  ItemsTyped(Received(request).items) /\ Received(request).at = "received"
<1>1. PICK items : items = request.items
  OBVIOUS
<1>2. \A k \in DOMAIN items : ExportTyped(Policed(items, k))
  BY <1>1, PolicedTyped DEF ItemsTyped, RequestSound
<1>. QED
  BY <1>1, <1>2 DEF Received, ItemsTyped

LEMMA RestTyped ==
  ASSUME NEW items, Batch(items), ItemsTyped(items), items # <<>>
  PROVE  ExportTyped(Head(items)) /\ ItemsTyped(Tail(items))
<1>1. PICK S : items \in Seq(S)
  BY DEF Batch
<1>2. /\ 1 \in DOMAIN items /\ Head(items) = items[1]
      /\ \A k \in DOMAIN Tail(items) : k + 1 \in DOMAIN items /\ Tail(items)[k] = items[k + 1]
  BY <1>1
<1>. QED
  BY <1>2 DEF ItemsTyped

\* The row of the first item of a request.
LEMMA StoredTyped ==
  ASSUME FidelityTables, FidelityTyped, NEW request, RequestSound(request),
         ItemsTyped(request.items), StoreNext(request)
  PROVE  \A s \in TracedSpans : spanRows'[s] # None => ExportTyped(spanRows'[s])
<1>1. PICK e : e = Head(request.items) /\ ExportTyped(e)
  BY RestTyped DEF StoreNext, RequestSound
<1>2. \A s \in TracedSpans : spanRows'[s] = IF s = e.span THEN e ELSE spanRows[s]
  BY <1>1 DEF StoreNext, FidelityTables
<1>. QED
  BY <1>1, <1>2 DEF FidelityTyped

\* A step of the request of one process.
LEMMA RequestTypes ==
  ASSUME FidelityTables, FidelityTyped, settings' = settings, NEW p \in Processes,
         NEW items, NEW request, PostTyped(items, request),
         \/ outbox' = outbox /\ items = outbox[p]
         \/ outbox' = [outbox EXCEPT ![p] = items],
         posted' = [posted EXCEPT ![p] = request],
         \A r \in abandoned' : ItemsTyped(r.items),
         \A s \in TracedSpans : spanRows'[s] # None => ExportTyped(spanRows'[s])
  PROVE  FidelityTyped'
<1>1. ASSUME NEW q \in Processes
      PROVE  PostTyped(outbox'[q], posted'[q])
  <2>1. /\ outbox'[q] = IF q = p THEN items ELSE outbox[q]
        /\ posted'[q] = IF q = p THEN request ELSE posted[q]
    BY DEF FidelityTables
  <2>2. CASE q = p
    BY <2>1, <2>2
  <2>3. CASE q # p
    BY <2>1, <2>3 DEF FidelityTyped
  <2>. QED
    BY <2>2, <2>3
<1>2. settings' \in ServerLimits
  BY DEF FidelityTyped
<1>. QED
  BY <1>1, <1>2 DEF FidelityTyped, PostTyped, ItemsTyped, ExportTyped

LEMMA CarriedTypes ==
  ASSUME FidelitySound, FidelityTyped, Carried
  PROVE  FidelityTyped'
<1>1. FidelityTables /\ SendsSound /\ settings \in ServerLimits /\ settings' = settings
  BY DEF FidelitySound, FidelityTyped, Carried, Flush, RefuseBatch, ReceiveBatch, StoreItem,
         AnswerBatch, GiveUp, ReceiveLate, StoreLate
<1>2. ItemsTyped(NoRequest.items) /\ NoRequest.at # "sent" /\ ItemsTyped(<<>>)
  BY DEF ItemsTyped, NoRequest
<1>3. /\ \A r \in abandoned : ItemsTyped(r.items) /\ RequestSound(r)
      /\ \A s \in TracedSpans : spanRows[s] # None => ExportTyped(spanRows[s])
  BY <1>1, Present DEF FidelityTyped
<1>4. ASSUME NEW p \in Processes,
             \/ Flush(p) \/ RefuseBatch(p) \/ ReceiveBatch(p) \/ StoreItem(p) \/ AnswerBatch(p)
             \/ GiveUp(p)
      PROVE  FidelityTyped'
  <2>1. PICK items, request : /\ items = outbox[p] /\ request = posted[p]
                              /\ PostTyped(items, request) /\ RequestSound(request)
    BY <1>1, Present DEF FidelityTyped, ProcessSound
  <2>2. PostTyped(items, NoRequest)
    BY <1>2, <2>1 DEF PostTyped
  <2>3. CASE Flush(p)
    <3>1. PICK sent : sent = [at |-> "sent", items |-> items]
      OBVIOUS
    <3>2. PostTyped(items, sent)
      BY <2>1, <3>1 DEF PostTyped
    <3>3. /\ posted' = [posted EXCEPT ![p] = sent]
          /\ UNCHANGED <<outbox, abandoned, spanRows>>
      BY <2>1, <2>3, <3>1 DEF Flush, endpoint
    <3>. QED
      BY <1>1, <1>3, <2>1, <3>2, <3>3, RequestTypes
  <2>4. CASE RefuseBatch(p)
    <3>1. /\ posted' = [posted EXCEPT ![p] = NoRequest]
          /\ UNCHANGED <<outbox, abandoned, spanRows>>
      BY <2>4 DEF RefuseBatch, endpoint
    <3>. QED
      BY <1>1, <1>3, <2>1, <2>2, <3>1, RequestTypes
  <2>5. CASE ReceiveBatch(p)
    <3>1. PICK received : received = Received(request)
      OBVIOUS
    <3>2. /\ posted' = [posted EXCEPT ![p] = received]
          /\ UNCHANGED <<outbox, abandoned, spanRows>>
      BY <2>1, <2>5, <3>1 DEF ReceiveBatch, endpoint, Received
    <3>3. PostTyped(items, received)
      BY <1>1, <2>1, <3>1, ReceivedTyped DEF PostTyped
    <3>. QED
      BY <1>1, <1>3, <2>1, <3>2, <3>3, RequestTypes
  <2>6. CASE StoreItem(p)
    <3>1. PICK rest : rest = [request EXCEPT !.items = Tail(@)]
      OBVIOUS
    <3>2. StoreNext(request) /\ UNCHANGED <<outbox, abandoned>>
      BY <2>1, <2>6 DEF StoreItem, StoreNext
    <3>3. posted' = [posted EXCEPT ![p] = rest]
      BY <2>1, <2>6, <3>1 DEF StoreItem
    <3>4. /\ rest.items = Tail(request.items) /\ rest.at = "received"
          /\ ItemsTyped(Tail(request.items))
      BY <2>1, <3>1, <3>2, RestTyped DEF RequestSound, StoreNext, PostTyped
    <3>5. PostTyped(items, rest)
      BY <2>1, <3>4 DEF PostTyped
    <3>6. \A s \in TracedSpans : spanRows'[s] # None => ExportTyped(spanRows'[s])
      BY <1>1, <2>1, <3>2, StoredTyped DEF PostTyped
    <3>. QED
      BY <1>1, <1>3, <2>1, <3>2, <3>3, <3>5, <3>6, RequestTypes
  <2>7. CASE AnswerBatch(p)
    <3>1. /\ posted' = [posted EXCEPT ![p] = NoRequest] /\ outbox' = [outbox EXCEPT ![p] = <<>>]
          /\ UNCHANGED <<abandoned, spanRows>>
      BY <2>7 DEF AnswerBatch, endpoint
    <3>2. PostTyped(<<>>, NoRequest)
      BY <1>2 DEF PostTyped
    <3>. QED
      BY <1>1, <1>3, <3>1, <3>2, RequestTypes
  <2>8. CASE GiveUp(p)
    <3>1. /\ posted' = [posted EXCEPT ![p] = NoRequest]
          /\ abandoned' = abandoned \union {request} /\ UNCHANGED <<outbox, spanRows>>
      BY <2>1, <2>8 DEF GiveUp
    <3>2. \A r \in abandoned' : ItemsTyped(r.items)
      BY <1>3, <2>1, <3>1 DEF PostTyped
    <3>. QED
      BY <1>1, <1>3, <2>1, <2>2, <3>1, <3>2, RequestTypes
  <2>. QED
    BY <1>4, <2>3, <2>4, <2>5, <2>6, <2>7, <2>8
<1>5. ASSUME NEW request \in abandoned, ReceiveLate(request) \/ StoreLate(request)
      PROVE  FidelityTyped'
  <2>1. /\ UNCHANGED <<outbox, posted>> /\ ItemsTyped(request.items) /\ RequestSound(request)
        /\ \A p \in Processes : PostTyped(outbox[p], posted[p])
    BY <1>3, <1>5 DEF ReceiveLate, StoreLate, FidelityTyped
  <2>2. \A p \in Processes : PostTyped(outbox'[p], posted'[p])
    BY <2>1
  <2>3. ASSUME \A r \in abandoned' : ItemsTyped(r.items),
               \A s \in TracedSpans : spanRows'[s] # None => ExportTyped(spanRows'[s])
        PROVE  FidelityTyped'
    BY <1>1, <2>2, <2>3 DEF FidelityTyped, PostTyped, ItemsTyped, ExportTyped
  <2>4. CASE ReceiveLate(request)
    <3>1. ItemsTyped(Received(request).items) /\ spanRows' = spanRows
      BY <1>1, <2>1, <2>4, ReceivedTyped DEF ReceiveLate
    <3>2. \A r \in abandoned' : ItemsTyped(r.items)
      BY <1>3, <2>4, <3>1 DEF ReceiveLate
    <3>. QED
      BY <1>3, <2>3, <3>1, <3>2
  <2>5. CASE StoreLate(request)
    <3>1. PICK rest : rest = [request EXCEPT !.items = Tail(@)]
      OBVIOUS
    <3>2. StoreNext(request) /\ abandoned' = (abandoned \ {request}) \union {rest}
      BY <2>5, <3>1 DEF StoreLate
    <3>3. rest.items = Tail(request.items) /\ ItemsTyped(Tail(request.items))
      BY <2>1, <3>1, <3>2, RestTyped DEF RequestSound, StoreNext
    <3>4. \A r \in abandoned' : ItemsTyped(r.items)
      BY <1>3, <3>2, <3>3
    <3>5. \A s \in TracedSpans : spanRows'[s] # None => ExportTyped(spanRows'[s])
      BY <1>1, <2>1, <3>2, StoredTyped
    <3>. QED
      BY <2>3, <3>4, <3>5
  <2>. QED
    BY <1>5, <2>4, <2>5
<1>. QED
  BY <1>4, <1>5 DEF Carried

LEMMA ExportTypes ==
  ASSUME FidelitySound, FidelityTyped, NEW s, NEW span \in SpanRecord, NEW partial \in BOOLEAN,
         partial \/ span.status # "unknown", Export(s, span, partial)
  PROVE  FidelityTyped'
<1>1. PICK e : e = ExportOf(s, span, partial) /\ ExportTyped(e)
  BY ExportIsTyped DEF FidelitySound, FidelityTables
<1>2. PICK p : p = span.process
  OBVIOUS
<1>3. /\ outbox' = [outbox EXCEPT ![p] = Append(@, e)] /\ Free(p)
      /\ UNCHANGED <<settings, posted, abandoned, spanRows>>
  BY <1>1, <1>2 DEF Export, Queued, endpoint
<1>4. ASSUME NEW q \in Processes
      PROVE  PostTyped(outbox'[q], posted'[q])
  <2>1. PostTyped(outbox[q], posted[q])
    BY DEF FidelityTyped
  <2>2. CASE q # p
    BY <1>3, <2>1, <2>2 DEF FidelitySound, FidelityTables
  <2>3. CASE q = p
    <3>1. PICK items, more : items = outbox[q] /\ more = Append(items, e)
      OBVIOUS
    <3>2. outbox'[q] = more
      BY <1>3, <2>3, <3>1 DEF FidelitySound, FidelityTables
    <3>3. PICK S : items \in Seq(S)
      BY <3>1 DEF FidelitySound, SendsSound, ProcessSound, Batch
    <3>4. \A k \in DOMAIN more : (k \in DOMAIN items /\ more[k] = items[k]) \/ more[k] = e
      BY <3>1, <3>3
    <3>5. ItemsTyped(more)
      BY <1>1, <2>1, <3>1, <3>4 DEF PostTyped, ItemsTyped
    <3>6. posted'[q] = NoRequest
      BY <1>3, <2>3 DEF Free
    <3>. QED
      BY <3>2, <3>5, <3>6 DEF PostTyped, NoRequest, ItemsTyped
  <2>. QED
    BY <2>2, <2>3
<1>. QED
  BY <1>3, <1>4 DEF FidelityTyped, PostTyped, ItemsTyped, ExportTyped

LEMMA FidelityTypes ==
  ASSUME FidelitySound, FidelityTyped, FidelityNext
  PROVE  FidelityTyped'
<1>1. SpanTable
  BY DEF FidelitySound, FidelityTables
<1>2. CASE Carried
  BY <1>2, CarriedTypes
<1>3. ASSUME UNCHANGED <<settings, outbox, posted, abandoned, spanRows>>
      PROVE  FidelityTyped'
  BY <1>3 DEF FidelityTyped, PostTyped, ItemsTyped, ExportTyped
<1>4. ASSUME NEW s \in TracedSpans, Begins(s)
      PROVE  FidelityTyped'
  <2>1. UNCHANGED <<settings, outbox, posted, abandoned, spanRows>>
    BY <1>4 DEF Begins, StartTrace, ContinueFromBaggage, StartChild, Begin, endpoint
  <2>. QED
    BY <1>3, <2>1
<1>5. ASSUME NEW s \in TracedSpans, Acts(s)
      PROVE  FidelityTyped'
  <2>1. CASE \/ \E stripped \in BOOLEAN : Inject(s, stripped)
             \/ \E kind \in {"stream", "step"} : AddEvent(s, kind)
    <3>1. UNCHANGED <<settings, outbox, posted, abandoned, spanRows>>
      BY <2>1 DEF Inject, AddEvent, endpoint
    <3>. QED
      BY <1>3, <3>1
  <2>2. CASE FlushPartial(s)
    <3>1. recorded[s] \in SpanRecord /\ Export(s, recorded[s], TRUE)
      BY <1>1, <2>2 DEF FlushPartial, SpanTable
    <3>. QED
      BY <3>1, ExportTypes
  <2>3. ASSUME NEW raised \in BOOLEAN, ExitSpan(s, raised)
        PROVE  FidelityTyped'
    <3>1. PICK span \in SpanRecord : Export(s, span, FALSE) /\ span.status # "unknown"
      BY <1>1, <2>3, Exits
    <3>. QED
      BY <3>1, ExportTypes
  <2>. QED
    BY <1>5, <2>1, <2>2, <2>3 DEF Acts
<1>. QED
  BY <1>2, <1>4, <1>5, StepsOfFidelity

LEMMA AbandonedSteps ==
  ASSUME AbandonedCounted, FidelityNext
  PROVE  AbandonedCounted'
<1>1. ASSUME UNCHANGED <<abandoned, giveUps>> PROVE AbandonedCounted'
  BY <1>1 DEF AbandonedCounted
<1>2. ASSUME NEW request \in abandoned, NEW more, IsFiniteSet(more), Cardinality(more) <= 1,
             giveUps' = giveUps, abandoned' = (abandoned \ {request}) \union more
      PROVE  AbandonedCounted'
  <2>1. /\ IsFiniteSet(abandoned \ {request})
        /\ Cardinality(abandoned \ {request}) = Cardinality(abandoned) - 1
    BY FS_RemoveElement DEF AbandonedCounted
  <2>2. /\ IsFiniteSet(abandoned')
        /\ Cardinality(abandoned') <= Cardinality(abandoned \ {request}) + Cardinality(more)
    <3>1. /\ Cardinality(abandoned')
              = Cardinality(abandoned \ {request}) + Cardinality(more)
                - Cardinality((abandoned \ {request}) \cap more)
          /\ IsFiniteSet(abandoned')
      BY <1>2, <2>1, FS_Union
    <3>2. Cardinality((abandoned \ {request}) \cap more) \in Nat
      BY <2>1, FS_Intersection, FS_CardinalityType
    <3>3. Cardinality(abandoned \ {request}) \in Nat /\ Cardinality(more) \in Nat
      BY <1>2, <2>1, FS_CardinalityType
    <3>. QED
      BY <3>1, <3>2, <3>3
  <2>3. /\ Cardinality(abandoned') \in Nat /\ Cardinality(more) \in Nat
        /\ Cardinality(abandoned) \in Nat
    BY <1>2, <2>2, FS_CardinalityType DEF AbandonedCounted
  <2>. QED
    BY <1>2, <2>1, <2>2, <2>3 DEF AbandonedCounted
<1>3. ASSUME NEW x PROVE IsFiniteSet({x}) /\ Cardinality({x}) <= 1
  BY FS_Singleton
<1>4. ASSUME NEW p \in Processes, GiveUp(p) PROVE AbandonedCounted'
  <2>1. giveUps' = giveUps + 1 /\ abandoned' = abandoned \union {posted[p]}
    BY <1>4 DEF GiveUp
  <2>2. /\ IsFiniteSet(abandoned') /\ Cardinality(abandoned') <= Cardinality(abandoned) + 1
        /\ Cardinality(abandoned) \in Nat /\ Cardinality(abandoned') \in Nat
    <3>1. /\ IsFiniteSet(abandoned')
          /\ Cardinality(abandoned') = IF posted[p] \in abandoned THEN Cardinality(abandoned)
                                       ELSE Cardinality(abandoned) + 1
      BY <2>1, FS_AddElement DEF AbandonedCounted
    <3>2. Cardinality(abandoned) \in Nat
      BY FS_CardinalityType DEF AbandonedCounted
    <3>. QED
      BY <3>1, <3>2
  <2>. QED
    BY <2>1, <2>2 DEF AbandonedCounted
<1>5. ASSUME NEW request \in abandoned, ReceiveLate(request) PROVE AbandonedCounted'
  <2>1. PICK more : more = IF Refuses(request.items) THEN {} ELSE {Received(request)}
    OBVIOUS
  <2>2. IsFiniteSet(more) /\ Cardinality(more) <= 1
    <3>1. CASE more = {}
      <4>1. IsFiniteSet({}) /\ Cardinality({}) = 0
        BY FS_EmptySet
      <4>. QED
        BY <3>1, <4>1
    <3>2. CASE more = {Received(request)}
      BY <1>3, <3>2
    <3>. QED
      BY <2>1, <3>1, <3>2
  <2>3. giveUps' = giveUps /\ abandoned' = (abandoned \ {request}) \union more
    BY <1>5, <2>1 DEF ReceiveLate
  <2>. QED
    BY <1>2, <2>2, <2>3
<1>6. ASSUME NEW request \in abandoned, StoreLate(request) PROVE AbandonedCounted'
  <2>1. PICK rest : rest = [request EXCEPT !.items = Tail(@)]
    OBVIOUS
  <2>2. giveUps' = giveUps /\ abandoned' = (abandoned \ {request}) \union {rest}
    BY <1>6, <2>1 DEF StoreLate
  <2>. QED
    BY <1>2, <1>3, <2>2
<1>7. ASSUME NEW p \in Processes,
             Flush(p) \/ RefuseBatch(p) \/ ReceiveBatch(p) \/ StoreItem(p) \/ AnswerBatch(p)
      PROVE  AbandonedCounted'
  <2>1. UNCHANGED <<abandoned, giveUps>>
    BY <1>7 DEF Flush, RefuseBatch, ReceiveBatch, StoreItem, AnswerBatch, endpoint
  <2>. QED
    BY <1>1, <2>1
<1>8. ASSUME NEW s \in TracedSpans, Begins(s) \/ Acts(s) PROVE AbandonedCounted'
  <2>1. CASE Begins(s)
    <3>1. UNCHANGED <<abandoned, giveUps>>
      BY <2>1 DEF Begins, StartTrace, ContinueFromBaggage, StartChild, Begin, endpoint
    <3>. QED
      BY <1>1, <3>1
  <2>2. CASE Acts(s)
    <3>1. UNCHANGED <<abandoned, giveUps>>
      BY <2>2 DEF Acts, Inject, AddEvent, FlushPartial, ExitSpan, Export, endpoint
    <3>. QED
      BY <1>1, <3>1
  <2>. QED
    BY <1>8, <2>1, <2>2
<1>. QED
  BY <1>4, <1>5, <1>6, <1>7, <1>8, StepsOfFidelity DEF Carried

(* What is exported keeps its type on its way: a stored span is of an export that its
   span counts, it never has the status of an open one, sampling by the SDK and by the
   endpoint adds to its events but markers, a buffer stays as it is while a request
   sends it, and no more requests are on their way late than were given up. *)
THEOREM FidelityTyping == FidelitySpec => []FidelityTypeOK
<1>1. FidelityInit => FidelityTyped /\ AbandonedCounted
  <2>. SUFFICES ASSUME FidelityInit PROVE FidelityTyped /\ AbandonedCounted
    OBVIOUS
  <2>1. PostTyped(<<>>, NoRequest)
    BY DEF PostTyped, NoRequest, ItemsTyped
  <2>2. FidelityTyped
    BY <2>1 DEF FidelityInit, FidelityTyped
  <2>3. AbandonedCounted
    BY FS_EmptySet DEF FidelityInit, AbandonedCounted
  <2>. QED
    BY <2>2, <2>3
<1>2. FidelityTyped /\ AbandonedCounted /\ UNCHANGED fidelityVars
      => FidelityTyped' /\ AbandonedCounted'
  BY DEF fidelityVars, FidelityTyped, PostTyped, ItemsTyped, ExportTyped, AbandonedCounted
<1>3. FidelitySound /\ FidelityTyped /\ AbandonedCounted => FidelityTypeOK
  <2>. SUFFICES ASSUME FidelitySound, FidelityTyped, AbandonedCounted PROVE FidelityTypeOK
    OBVIOUS
  <2>1. ASSUME NEW e, ExportSound(e), ExportTyped(e)
        PROVE  /\ e.status \in {"incomplete", "ok", "error"}
               /\ e.number \in 1 .. recorded[e.span].exports
               /\ \A k \in DOMAIN e.events : e.events[k].kind \in NotedKinds
    <3>1. \A k \in DOMAIN e.events : e.events[k] \in Noted
      BY <2>1 DEF ExportTyped
    <3>2. \A note \in Noted : note.kind \in NotedKinds
      BY DEF Noted
    <3>. QED
      BY <2>1, <3>1, <3>2 DEF ExportSound, ExportTyped
  <2>2. ASSUME NEW e \in Exports
        PROVE  ExportSound(e) /\ ExportTyped(e)
    <3>1. ASSUME NEW p \in Processes, e \in ToSet(outbox[p])
          PROVE  ExportSound(e) /\ ExportTyped(e)
      <4>1. PICK k \in DOMAIN outbox[p] : e = outbox[p][k]
        BY <3>1 DEF ToSet
      <4>2. Batch(outbox[p])
        BY DEF FidelitySound, SendsSound, ProcessSound
      <4>3. ItemsTyped(outbox[p])
        BY DEF FidelityTyped, PostTyped
      <4>. QED
        BY <4>1, <4>2, <4>3 DEF Batch, ItemsTyped
    <3>2. ASSUME NEW s \in TracedSpans, spanRows[s] # None, e = spanRows[s]
          PROVE  ExportSound(e) /\ ExportTyped(e)
      BY <3>2 DEF FidelitySound, SendsSound, RowSound, FidelityTyped
    <3>3. \/ e \in UNION {ToSet(outbox[p]) : p \in Processes}
          \/ e \in {spanRows[s] : s \in {r \in TracedSpans : spanRows[r] # None}}
      BY DEF Exports
    <3>4. CASE e \in UNION {ToSet(outbox[p]) : p \in Processes}
      BY <3>1, <3>4, Zenon
    <3>5. CASE e \in {spanRows[s] : s \in {r \in TracedSpans : spanRows[r] # None}}
      BY <3>2, <3>5, Zenon
    <3>. QED
      BY <3>3, <3>4, <3>5
  <2>3. \A p \in Processes : posted[p].at = "sent" => posted[p].items = outbox[p]
    BY DEF FidelityTyped, PostTyped
  <2>4. recorded \in [TracedSpans -> SpanRecord \union {None}]
    BY DEF FidelitySound, FidelityTables, SpanTable
  <2>. QED
    BY <2>1, <2>2, <2>3, <2>4 DEF FidelityTypeOK, AbandonedCounted, NotedKinds
<1>. QED
  BY <1>1, <1>2, <1>3, FidelityAlways, FidelityTypes, AbandonedSteps, PTL DEF FidelitySpec
=============================================================================
