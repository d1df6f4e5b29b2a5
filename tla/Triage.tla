------------------------------- MODULE Triage -------------------------------
(* Automations and the discovery of behaviors, side by side: they share no state. *)
EXTENDS AutomationRuns, BehaviorDiscovery

\* The rows, and what is under way, are of their types.
TriageTypeOK == AutomationTypeOK /\ DiscoveryTypeOK
=============================================================================
