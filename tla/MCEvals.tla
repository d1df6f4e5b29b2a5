------------------------------ MODULE MCEvals -------------------------------
(* Instances of EvalRuns for TLC. *)
EXTENDS EvalRuns, MCScenario
Span(i, tools, retries) ==
  [id |-> i, has |-> [f \in Facets |-> IF f = "tool" THEN tools ELSE {}],
   measures |-> [m \in Measures |-> IF m = "retries" THEN retries ELSE 0]]
\* A good span; another, and what it is when it is sent again.
Good == Span(1, {"search"}, 1)
Fair == Span(2, {"search"}, 0)
Bad == Span(2, {"refund"}, 1)
MCSpans == {Good, Fair, Bad}
MCMatched == [j \in {"rule"} |-> {Bad}]
MCPanels == {<<"rule">>, <<"rubric">>, <<"rule", "rubric">>}
NoLimit == [m \in {} |-> 0]
Want(required, forbidden, limit) ==
  [required |-> [f \in {"tool"} |-> required], forbidden |-> [f \in {"tool"} |-> forbidden],
   patterns |-> {[tool |-> required]}, limit |-> limit, minEvidence |-> 0]
MCWants == {None, Want({"search"}, {}, [m \in {"retries"} |-> 1])}
MCDataset == <<[trace |-> t1, want |-> Want({"search"}, {}, [m \in {"retries"} |-> 1])],
               [trace |-> t2, want |-> None]>>
\* Two evals with all that may happen to them, or evals of one trace with the prompt.
EvalAside ==
  /\ subject' = subject
  /\ stored'[t3] = None
  /\ CASE subject = "evals" ->
            /\ prompts' = <<>>
            /\ evaluators'[w2] = None
            /\ \A e \in DOMAIN dataset' : dataset'[e] \in {None, MCDataset[e]}
            /\ evals' = <<>> => stored'[t1] \in {None, {Good}} /\ stored'[t2] \in {None, {Fair}}
            /\ evals' # <<>> => Len(dataset') = MaxExamples
            \* Spans arrive while a run goes, examples are deleted between runs too.
            /\ stored' # stored /\ evaluators[w1] # None =>
                 \/ /\ evaluators' = evaluators
                    /\ stored'[t1] # stored[t1] /\ Fair \notin stored'[t1] \union stored[t1]
                 \/ evaluators' # evaluators /\ stored' = SpansUpserted(t2, {Bad})
            /\ stored' # stored /\ evaluators[w1] = None /\ evals # <<>> =>
                 stored'[t1] = {} /\ dataset' # dataset
            \* The first run has the rule, and any runner; the second any judges.
            /\ evaluators[w1] = None /\ evaluators'[w1] # None =>
                 IF evaluators'[w1].run = 1 THEN evaluators'[w1].judges = <<"rule">>
                 ELSE evaluators'[w1].runner = "in_process_function"
            /\ evaluators'[w1] # None =>
                 (evaluators'[w1].runner = "command" => evaluators'[w1].trace # t1)
       [] subject = "prompt" ->
            /\ stored'[t2] = None /\ stored'[t1] \notin {{}, {Fair}}
            /\ dataset' \in {<<>>, <<[MCDataset[2] EXCEPT !.trace = t1]>>}
            /\ prompts' # <<>> => prompts'[1] = "x" /\ dataset' # <<>>
            /\ Len(evals') > Len(evals) => /\ Len(prompts') > 1 /\ evals'[1].version = 1
                                           /\ evaluators'[w2] = None
            /\ evals # <<>> /\ Len(evals) < 2 => prompts' = prompts
            /\ stored' # stored => evaluators[w1] = None
            /\ \A w \in Evaluators : evaluators[w] = None /\ evaluators'[w] # None =>
                 (evaluators'[w].at # "revert" =>
                    evaluators'[w].judges = <<"rule">> /\ evaluators'[w].runner = "in_process_function")
=============================================================================
