------------------------------ MODULE Analysis ------------------------------
(* Evals and investigations, side by side: they share no state. *)
EXTENDS EvalRuns, Investigations

\* The rows, and what is under way, are of their types.
AnalysisTypeOK == EvalTypeOK /\ CaseTypeOK
=============================================================================
