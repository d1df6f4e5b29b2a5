------------------------------ MODULE MCTriage ------------------------------
(* Automations and the discovery of behaviors share no state: a behavior of    *)
(* this specification is about one of them, at rest the other.                 *)
EXTENDS Triage, MCAutomation, MCDiscovery

Automations == {"automation"}
Discoveries == {"labels", "backtests", "novelty", "grounding"}

TriageInit ==
  /\ AutomationInit /\ DiscoveryInit
  /\ subject \in Automations \union Discoveries
  /\ subject \notin Automations => ~external

TriageNext ==
  \/ /\ subject \in Automations /\ AutomationNext /\ AutomationAside
     /\ UNCHANGED discoveryVars
  \/ /\ subject \in Discoveries /\ DiscoveryNext /\ DiscoveryAside
     /\ UNCHANGED automationVars

TriageSpec == TriageInit /\ [][TriageNext]_<<subject, automationVars, discoveryVars>>

\* The runs in flight are alike, and so are the curators.
Alike == Permutations({w1, w2}) \union Permutations({c1, c2})
=============================================================================
