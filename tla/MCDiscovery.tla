---------------------------- MODULE MCDiscovery -----------------------------
(* Instances of BehaviorDiscovery for TLC. *)
EXTENDS BehaviorDiscovery, MCScenario
MCDisplay == (b1 :> "Wrong Tool" @@ b2 :> b2)
MCDetectors == {[type |-> "rule", inverted |-> FALSE], [type |-> "rule", inverted |-> TRUE],
                [type |-> "judge", verdict |-> "fail"], Labels({b1}), [type |-> "code"]}
MCGroupings == {<<<<{e1}, {e2}, {b1}>>>>, <<<<{e1}, {e1}>>, <<{e2}, {e1}>>>>, <<<<{e1, e2}>>>>}
MCObjections == {{}, {[claim |-> {1}, cites |-> {2, 3}], [claim |-> {}, cites |-> {3}]}, {[claim |-> {2}, cites |-> {1}]}}
Ats == {curators'[w].at : w \in {v \in Curators : curators'[v] # None}}
Arriving == {t \in FailureTraces : failures[t] = None /\ failures'[t] # None}
\* Rows arrive first, with nothing but what the subject is about.
Bare == Arriving # {} => /\ curators = [w \in Curators |-> None] /\ behaviors = [b \in BehaviorIds |-> None]
                         /\ matches = <<>> /\ noveltyRuns = <<>> /\ checks = <<>>
Plain == \A t \in Arriving : failures'[t].hits = {} /\ failures'[t].verdicts = {}
Alone == \E w \in Curators : curators'[w] = None
OfOneKind == \A t \in Arriving : failures'[t].signature = e1 /\ failures'[t].status = "error"
Stopped == {curators[w].at : w \in {v \in Curators : curatorStops' # curatorStops /\ curators'[v] # curators[v]}}
OfSecond == {b \in BehaviorIds : \E w \in Curators : curators'[w] # None /\ curators'[w].at = "label" /\ curators'[w].trace = t2 /\ curators'[w].behavior = b}
Made == {b \in BehaviorIds : behaviors'[b] # behaviors[b]}
\* Labels and promotions; backtests; a novelty run; or grounding checks.
DiscoveryAside ==
  /\ subject' = subject /\ Bare
  /\ CASE subject = "labels" ->
            /\ failures'[t3] = None /\ Plain /\ OfOneKind
            /\ \A b \in Made : behaviors'[b] = [name |-> DisplayName[b], detector |-> Labels({DisplayName[b]}), status |-> "active"]
            /\ Ats \subseteq {"label", "confirm"} /\ Len(matches') <= 2
            /\ \A k \in DOMAIN matches' : matches'[k].evidence = {}
            /\ behaviors[b1] # None => curators' = curators
            /\ failures'[t2] # Deleted /\ Stopped = {} /\ proposals'[b2] = {} /\ b2 \notin OfSecond
            /\ Made # {} => proposals[b1] # {} \/ (Made = {b2} /\ matches = <<>>)
       [] subject = "backtests" ->
            /\ behaviors'[b2] = None /\ Ats \subseteq {"replace", "tasks"} /\ OfOneKind /\ failures'[t3] = None
            /\ \A b \in Made : behaviors'[b].status = "active" /\ behaviors'[b].name = e1
            /\ \A t \in Arriving : 2 \notin failures'[t].hits
       [] subject = "novelty" ->
            /\ behaviors'[b2] = None /\ Ats \subseteq {"group", "ask", "persist", "tasks"} /\ Alone /\ Plain
            /\ Stopped \subseteq {"tasks"} /\ \A t \in Arriving : t = t3 \/ failures'[t].status = "error"
            /\ curatorTasks = {} \/ failures' = failures
            /\ (\E w \in Curators : CuratorAt(w, "group")) \/ Arriving # {} \/ failures' = failures
            /\ \A b \in Made : behaviors'[b].detector.type = "judge" /\ t1 \notin There
       [] subject = "grounding" ->
            /\ failures'[t2] = None /\ failures'[t3] = None /\ behaviors' = behaviors /\ Ats \subseteq {"adjudicate", "tasks"} /\ Plain /\ OfOneKind
            /\ Alone
=============================================================================
