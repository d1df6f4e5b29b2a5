----------------------------- MODULE MCAnalysis -----------------------------
(* Evals and investigations share no state: a behavior is about one of them,   *)
(* at rest the other.                                                          *)
EXTENDS Analysis, MCEvals, MCInvestigations

Evaluations == {"evals", "prompt"}
Cases == {"workflow", "two", "remedy", "entities", "links", "packs"}

AnalysisInit ==
  /\ EvalInit /\ CaseInit
  /\ subject \in Evaluations \union Cases

AnalysisNext ==
  \/ subject \in Evaluations /\ EvalNext /\ EvalAside /\ UNCHANGED caseVars
  \/ subject \in Cases /\ CaseNext /\ CaseAside /\ UNCHANGED evalVars

AnalysisSpec == AnalysisInit /\ [][AnalysisNext]_<<subject, evalVars, caseVars>>
=============================================================================
