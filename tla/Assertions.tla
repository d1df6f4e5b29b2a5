----------------------------- MODULE Assertions -----------------------------
(***************************************************************************)
(* The trace assertions of a dataset example, evaluated over the spans of  *)
(* a trace (eval_assertions.py).                                           *)
(*                                                                         *)
(* A span is a record: for each facet (the tool it calls, its behaviors,   *)
(* its retrieval sources, its type, the evidence it cites, its grounding   *)
(* failures) the set of values it has, for each measure (cost, duration,   *)
(* retries) a number.                                                      *)
(***************************************************************************)
EXTENDS Values, Naturals, FiniteSets, FiniteSetsExt

Facets == {"tool", "behavior", "source", "type", "evidence", "grounding"}
Measures == {"cost", "duration", "retries"}

Observed(spans, facet) == UNION {s.has[facet] : s \in spans}

Total(spans, measure) == FoldSet(LAMBDA s, sum : s.measures[measure] + sum, 0, spans)

\* A pattern asks for values of facets of one span.
MatchesPattern(span, pattern) ==
  \A facet \in DOMAIN pattern : pattern[facet] \subseteq span.has[facet]

PatternFound(spans, pattern) == \E s \in spans : MatchesPattern(s, pattern)

\* What the example asks for and does not find ...
Missing(spans, want) ==
  {asked \in UNION {{facet} \X want.required[facet] : facet \in DOMAIN want.required} :
     asked[2] \notin Observed(spans, asked[1])}
  \union {<<"pattern", p>> : p \in {q \in want.patterns : ~PatternFound(spans, q)}}
  \union IF Cardinality(Observed(spans, "evidence")) < want.minEvidence
         THEN {<<"evidence count", want.minEvidence>>} ELSE {}

\* ... and what it forbids and finds.
Excess(spans, want) ==
  {banned \in UNION {{facet} \X want.forbidden[facet] : facet \in DOMAIN want.forbidden} :
     banned[2] \in Observed(spans, banned[1])}
  \union {<<m, want.limit[m]>> : m \in {k \in DOMAIN want.limit : Total(spans, k) > want.limit[k]}}

AssertionsFail(spans, want) == Missing(spans, want) \union Excess(spans, want) # {}
=============================================================================
