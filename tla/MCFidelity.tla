----------------------------- MODULE MCFidelity -----------------------------
(* Instances of SpanFidelity for TLC. *)
EXTENDS SpanFidelity, MCScenario
MCBucket == (t1 :> 0 @@ t2 :> 1)
Sdk(rate, capture, bytes, events, stream) ==
  [rate |-> rate, capture |-> capture, bytes |-> bytes, events |-> events, stream |-> stream]
Server(retry, batch, bytes, events, stream) ==
  [retry |-> retry, batch |-> batch, bytes |-> bytes, events |-> events, stream |-> stream]
MCSdk == {Sdk(1, TRUE, 1, 2, 2), Sdk(1, FALSE, 0, 1, 1)}
MCServer == {Server(1, 2, 1, 1, 1), Server(0, 0, 0, 2, 2)}
Started == {s \in TracedSpans : recorded'[s] # None}
\* One span and all that befalls its events, two spans of a process and their requests,
\* or spans of two processes.
FidelityAside ==
  /\ subject' = subject
  /\ CASE subject = "events" -> Started \subseteq {s1} /\ carriers' = {}
                               /\ \A s \in Started : recorded'[s].process = p1
       [] subject = "requests" ->
            /\ carriers' = {}
            /\ sdk.capture
            /\ \A s \in Started : recorded'[s].process = p1 /\ recorded'[s].size = 2
            /\ \A s \in Started : recorded'[s].events \in {<<>>, <<Event("exception")>>}
            /\ s2 \in Started => s1 \in Started
            /\ s2 \in Started => recorded'[s2].exports <= 1
            /\ s1 \in Started => recorded'[s1].trace = t1
       [] subject = "baggage" ->
            /\ outbox' = outbox
            /\ \A s \in Started : recorded'[s].events = <<>> /\ recorded'[s].size = 1
=============================================================================
