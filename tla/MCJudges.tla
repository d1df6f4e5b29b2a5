------------------------------ MODULE MCJudges ------------------------------
(* Instances of JudgeLifecycle for TLC. *)
EXTENDS JudgeLifecycle, MCScenario
Going(step) == {a \in Agents : agents'[a] # None /\ agents'[a].at = step}
Given(decisions, statuses) ==
  \A a \in Going("patch") : agents'[a].decision \in decisions /\ agents'[a].status \in statuses
NoThreshold ==
  /\ event' = event /\ ToSet(commits') \subseteq {None} /\ Len(commits') < 2
  /\ \A a \in Going("version") : agents'[a].value = None
Created(list) == Len(tasks') > Len(tasks) => Last(tasks') \in list
\* Promotions with their reviews, reviews that race, or proposals with their versions.
JudgeAside ==
  /\ subject' = subject
  /\ CASE subject = "promotion" ->
            /\ NoThreshold
            /\ Cardinality(Going("patch")) < 2
            /\ \A a \in Going("patch") :
                 <<agents'[a].status, agents'[a].decision>> \in
                   {<<"resolved", "accepted">>, <<"accepted", "kept">>, <<None, None>>}
            /\ Created({OpenTask, [status |-> "accepted", decision |-> None]})
            /\ \A a \in Going("labels") : agents'[a].policy \in {Strict, [reviewed |-> FALSE, closed |-> FALSE]}
       [] subject = "review" ->
            /\ NoThreshold /\ drift' = drift /\ scores' = scores /\ Going("labels") = {}
            /\ Given({"kept", None, "accepted", "false_positive"}, {None, "resolved"})
            /\ Created({OpenTask}) /\ Len(tasks') < 2
       [] subject = "threshold" ->
            /\ scores' = scores /\ Going("labels") = {}
            /\ None \notin ToSet(commits')
            /\ Cardinality(Going("patch")) < 2
            /\ Given({"false_positive"}, {None})
            /\ Created({OpenTask})
            /\ \A a \in Going("patch") : agents'[a].read.decision = None
=============================================================================
