-------------------------- MODULE MCInvestigations --------------------------
(* Instances of Investigations for TLC. *)
EXTENDS Investigations, MCScenario
MCLevel == (a1 :> 1 @@ a2 :> 2)
Hyp(by, traces, spans) == [by |-> by, traces |-> traces, spans |-> spans]
MCAnswers == {<<>>, <<Hyp("model", {t1, Redacted}, {<<t2>>}), Hyp("model", {t2}, {}), Hyp("draft", {t1}, {<<t1>>})>>,
              <<Hyp("draft", {t2, Redacted}, {})>>}
MCSummaries == {{t1, <<t2>>}, {t1}}
Busy == {w \in Investigators : agents'[w] # None}
Kinds == {agents'[w].kind : w \in Busy}
Begins(w) == agents[w] = None /\ agents'[w] # None
Arrives == \E t \in CaseTraces : cases[t] = None /\ cases'[t] # None
Untouched == agents = [w \in Investigators |-> None] /\ issues = <<>> /\ packs = <<>>
Remedying(w) == agents[w].at \in {"first", "upsert", "own links", "link"}
Stops(w) == agents[w] # None /\ agents'[w] = None
Full == {t \in CaseTraces : cases[t] = None} = {}
\* Traces come first; then one workflow, two investigations of an issue at a time or one
\* after the other, up to their links, the remediation of one, links and packs, or two packs.
CaseAside ==
  /\ subject' = subject
  /\ Arrives => Untouched
  /\ cases'[t1] \in {None, Gone, {a1}, {a1, a2}} /\ cases'[t2] \in {None, Gone, {a1}, {a2}}
  /\ cases'[t2] = {a2} => subject = "entities"
  /\ cases' # cases \/ Full
  /\ subject # "links" => \A l \in issueLinks' : l.relation # "related_to"
  /\ CASE subject = "workflow" ->
            /\ Kinds \subseteq {"workflow"} /\ agents'[w2] = None
            /\ Len(inquiries') <= 1 /\ issues' \in {<<>>, <<None>>}
            /\ \A w \in Busy : agents'[w].seed = None
            /\ \A k \in DOMAIN affected' : affected'[k].status \notin {"contacted", "fixed"}
            /\ \A w \in Investigators : Stops(w) => agents[w].at = "tasks"
       [] subject = "two" ->
            /\ Kinds \subseteq {"workflow"} /\ issues' \in {<<>>, <<None>>}
            /\ cases'[t1] # {a1}
            /\ \A k \in DOMAIN affected' : affected'[k].status \notin {"contacted", "fixed"}
            /\ cases'[t1] = Gone => cases[t1] = Gone \/ WorksAt(w1, "upsert")
            /\ cases' = cases /\ agents' = agents => UNCHANGED <<affected, inquiries, issueLinks>>
            /\ \A w \in Busy : agents'[w].issue # None /\ agents'[w].seed = None
                               /\ agents'[w].at \notin {"evidence", "answer", "tasks"}
                               /\ agents'[w].at = "build" => t1 \in agents'[w].found
            /\ \A w \in Investigators : Stops(w) => agents[w].at = "link" /\ agents[w].links = <<>>
            /\ Begins(w1) => inquiries = <<>>
            /\ Begins(w2) => WorksAt(w1, "upsert") \/ WorksAt(w1, "first")
            /\ agents[w2] # None /\ ~Remedying(w2) => agents'[w1] = agents[w1]
            /\ cases'[t2] # Gone
            \* Links are added at one go.
            /\ \A w \in Investigators : agents[w] # None /\ agents[w].at = "link" => agents'[w] # agents[w]
       [] subject = "remedy" ->
            /\ agents'[w2] = None /\ issues' \in {<<>>, <<t1>>, <<None>>}
            /\ cases'[t1] # {a1, a2}
            /\ {"workflow", "pack"} \intersect Kinds = {} /\ Len(inquiries') <= 1
            /\ Len(caseTasks') <= 1 /\ Cardinality(notices') <= 1
            /\ \A w \in Investigators : Stops(w) => agents[w].kind = "review" \/ agents[w].links = <<>>
            /\ \A w \in Busy : agents'[w].kind = "chat" /\ agents'[w].at = "build" => agents'[w].found = CaseTraces
            /\ \A w \in Busy : agents'[w].at = "build" => agents'[w].seed = None
            /\ cases'[t2] # Gone
       [] subject = "entities" ->
            /\ agents'[w2] = None /\ issues' \in {<<>>, <<None>>} /\ UNCHANGED <<packs, caseTasks, notices>>
            /\ cases'[t1] = {a1} /\ cases'[t2] \in {None, {a2}}
            /\ \A k \in DOMAIN affected' : affected'[k].status = "needs_review"
            /\ \A w \in Busy : agents'[w].kind \in {"chat", "workflow"} /\ agents'[w].issue # None
                               /\ agents'[w].seed = None /\ agents'[w].at \notin {"evidence", "answer", "tasks"}
            /\ \A w \in Investigators : Stops(w) => agents[w].at = "link" /\ agents[w].links = <<>>
       [] subject = "links" ->
            /\ Kinds \subseteq {"pack"} /\ agents'[w2] = None /\ packs' = packs
            /\ Len(issues') <= 1
       [] subject = "packs" ->
            /\ issues' = <<>> /\ Kinds \subseteq {"pack"} /\ agents'[w2] = None
=============================================================================
