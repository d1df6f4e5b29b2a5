--------------------------- MODULE Investigations ---------------------------
(***************************************************************************)
(* Issues and what is found out about them: investigation runs, their      *)
(* impact reports, the affected entities the reports leave to remediate,   *)
(* the hypotheses of a model and the review tasks about them, the links    *)
(* that tie all of it to the issue, and context packs; while traces are    *)
(* being deleted.                                                          *)
(*                                                                         *)
(* An investigation is a dozen transactions with a model's answer between  *)
(* them.  It keeps the result in memory and writes all of it each time.    *)
(* The upsert of affected entities reads the first of them before its      *)
(* transaction begins.  A trace has one span, <<t>>, and accounts, the     *)
(* values of its dimensions; an account above "internal" is read as        *)
(* Redacted.  The copy of the report inside the run is left out.           *)
(***************************************************************************)
EXTENDS Values, Naturals, FiniteSets, SequencesExt

CONSTANTS Investigators, \* request threads of the API
          CaseTraces,    \* trace ids
          Accounts,      \* accounts, users, tickets that dimensions name
          Level,         \* their classification; 1 is "internal"
          Redacted,      \* "[redacted]"
          Gone,          \* what is left of a deleted trace
          Payloads,      \* screenshots and attachments
          Answers,       \* what a model may answer: sequences of hypotheses
          Summaries,     \* the ids it may cite in a summary
          MaxIssues, MaxRuns, MaxPacks  \* bounds

ASSUME CaseAssumption ==
  /\ Level \in [Accounts -> 0 .. 2]
  /\ {MaxIssues, MaxRuns, MaxPacks} \subseteq Nat
  /\ IsFiniteSet(Accounts) /\ IsFiniteSet(Payloads)
  /\ None \notin Nat \union {Gone}
  /\ \A t, u \in CaseTraces : t # <<u>>
  /\ \A answer \in Answers : /\ answer \in Seq(Range(answer))
                             /\ \A k \in DOMAIN answer : DOMAIN answer[k] = {"by", "traces", "spans"}

VARIABLES cases,       \* the accounts of each trace; None: no row; Gone: a tombstone
          issues,      \* the seed trace of each issue
          issueLinks,  \* issue_links
          inquiries,   \* investigation_runs
          reports,     \* impact_reports
          affected,    \* affected_entities
          packs,       \* agent_context_packs
          caseTasks,   \* review_tasks about hypotheses and entities
          notices,     \* notifications about entities
          agents,      \* the requests in flight
          overlapped   \* history: entities another upsert changed between the read
                       \* of an upsert and its write

caseVars == <<cases, issues, issueLinks, inquiries, reports, affected, packs, caseTasks,
              notices, agents, overlapped>>
findings == <<inquiries, reports>>
remedies == <<affected, notices, overlapped>>

Rows == {t \in CaseTraces : cases[t] # None}
Dead == {t \in CaseTraces : cases[t] = Gone}
SpansIn(ts) == {<<t>> : t \in ts \ Dead}
AccountsOf(t) == IF cases[t] \in {None, Gone} THEN {} ELSE cases[t]

CaseInit ==
  /\ cases = [t \in CaseTraces |-> None]
  /\ issues = <<>> /\ issueLinks = {} /\ inquiries = <<>> /\ reports = <<>>
  /\ affected = <<>> /\ packs = <<>> /\ caseTasks = <<>> /\ notices = {}
  /\ agents = [w \in Investigators |-> None]
  /\ overlapped = {}

Waiting(w) == agents[w] = None
WorksAt(w, step) == agents[w] # None /\ agents[w].at = step
GoesOn(w, job) == agents' = [agents EXCEPT ![w] = job]

-----------------------------------------------------------------------------
(* Traces, and their deletion. *)

ArriveTrace(t, accounts) ==
  /\ cases[t] = None
  /\ cases' = [cases EXCEPT ![t] = accounts]
  /\ UNCHANGED <<issues, issueLinks, findings, remedies, packs, caseTasks, agents>>

\* _scrub_json_references and _remove_values, of a trace and of the spans it has: none
\* when it was deleted before.
Scrub(ids, t) == ids \ ({t} \union SpansIn({t}))

ScrubInquiry(q, t) ==
  [q EXCEPT !.seed = IF @ = t THEN None ELSE @, !.cites = Scrub(@, t),
            !.hypotheses = [k \in DOMAIN q.hypotheses |->
               [q.hypotheses[k] EXCEPT !.traces = Scrub(@, t), !.spans = Scrub(@, t)]]]

\* Fault: the count stays.
CountBefore(report, entities) == report.count

CountAfter(report, entities) == Cardinality({a \in DOMAIN entities : entities[a] # {}})

\* _scrub_impact_reports: the hypotheses of a report keep their citations.
ScrubReport(r, t) ==
  LET entities == [a \in DOMAIN r.entities |-> Scrub(r.entities[a], t)]
  IN IF t \notin r.representative /\ entities = r.entities THEN r
     ELSE [r EXCEPT !.representative = Scrub(@, t), !.entities = entities,
                    !.count = CountAfter(r, entities)]

\* _scrub_affected_entities: what was decided is to be reviewed again.
ScrubEntity(row, t) ==
  IF t \notin row.traces THEN row
  ELSE [row EXCEPT !.traces = Scrub(@, t),
                   !.status = IF row.traces = {t} THEN "deleted" ELSE "needs_review"]

\* _scrub_context_packs: dimensions by trace are kept unless no source is left.
ScrubPack(p, t) ==
  IF t \notin p.sources THEN p
  ELSE [p EXCEPT !.sources = Scrub(@, t),
                 !.cites = IF p.sources = {t} THEN {} ELSE Scrub(@, t),
                 !.accounts = IF p.sources = {t} THEN {} ELSE @]

Each(Op(_, _), rows, t) == [k \in DOMAIN rows |-> Op(rows[k], t)]

\* A trace may be deleted again.
DeleteCase(t) ==
  /\ cases[t] # None
  /\ cases' = [cases EXCEPT ![t] = Gone]
  /\ issues' = [i \in DOMAIN issues |-> IF issues[i] = t THEN None ELSE issues[i]]
  /\ issueLinks' = {[l EXCEPT !.traces = Scrub(@, t)] : l \in {k \in issueLinks : k.target # t}}
  /\ inquiries' = Each(ScrubInquiry, inquiries, t)
  /\ reports' = Each(ScrubReport, reports, t)
  /\ affected' = Each(ScrubEntity, affected, t)
  /\ packs' = Each(ScrubPack, packs, t)
  /\ caseTasks' = Each(LAMBDA task, u : [task EXCEPT !.evidence = Scrub(@, u)], caseTasks, t)
  /\ UNCHANGED <<notices, overlapped, agents>>

-----------------------------------------------------------------------------
(* Issues and links. *)

CreateIssue(seed) ==
  /\ Len(issues) < MaxIssues
  /\ issues' = Append(issues, seed)

OpenIssue(seed) ==
  /\ CreateIssue(seed)
  /\ UNCHANGED <<cases, issueLinks, findings, remedies, packs, caseTasks, agents>>

\* create_issue_link inserts or ignores: of two links with one target and relation the
\* first stays.
Linked(link) ==
  IF \E l \in issueLinks : <<l.issue, l.target, l.relation>> = <<link.issue, link.target, link.relation>>
  THEN issueLinks ELSE issueLinks \union {link}

ToLink(issue, target, relation, traces) ==
  [issue |-> issue, target |-> target, relation |-> relation, traces |-> traces]

LinkTrace(i, t) ==
  /\ issueLinks' = Linked(ToLink(i, t, "related_to", {}))
  /\ UNCHANGED <<cases, issues, findings, remedies, packs, caseTasks, agents>>

NoResult == [cites |-> {}, hypotheses |-> <<>>, tasks |-> {}]

Job(at, kind, issue, seed) ==
  [at |-> at, kind |-> kind, issue |-> issue, seed |-> seed, found |-> {}, entities |-> <<>>,
   run |-> None, report |-> None, about |-> None, first |-> None, links |-> <<>>, spans |-> {}, result |-> NoResult]

ReportScreenshot(w, sources) ==
  /\ Waiting(w)
  /\ CreateIssue(None)
  /\ GoesOn(w, [Job("link", "screenshot", Len(issues'), None) EXCEPT
                  !.links = SetToSeq({ToLink(Len(issues'), p, "screenshot_payload", {}) : p \in sources})])
  /\ UNCHANGED <<cases, issueLinks, findings, remedies, packs, caseTasks>>

-----------------------------------------------------------------------------
(* An investigation. *)

StartWorkflow(w, issue, seed) ==
  /\ Waiting(w)
  /\ issue \in DOMAIN issues \union {None}
  /\ GoesOn(w, Job("search", "workflow", issue, seed))
  /\ UNCHANGED <<cases, issues, issueLinks, findings, remedies, packs, caseTasks>>

StartChat(w, seed) ==
  /\ Waiting(w)
  /\ CreateIssue(seed)
  /\ GoesOn(w, Job("search", "chat", Len(issues'), seed))
  /\ UNCHANGED <<cases, issueLinks, findings, remedies, packs, caseTasks>>

\* The structured, full-text and similarity searches: rows, tombstones included, and
\* the seed.
SearchCohort(w, found) ==
  /\ WorksAt(w, "search")
  /\ found \subseteq Rows
  /\ GoesOn(w, [agents[w] EXCEPT !.at = "build", !.found = found \union (Rows \intersect {agents[w].seed})])
  /\ UNCHANGED <<cases, issues, issueLinks, findings, remedies, packs, caseTasks>>

\* list_trace_dimensions, as who may see "internal".
EntityOf(a) == IF Level[a] > 1 THEN Redacted ELSE a

EntitiesIn(found) ==
  [e \in {EntityOf(a) : a \in UNION {AccountsOf(t) : t \in found}} |->
     {t \in found : e \in {EntityOf(a) : a \in AccountsOf(t)}}]

\* _build_impact_report: the cohort is a hypothesis of its own, without evidence ids.
BuildReport(w) ==
  /\ WorksAt(w, "build")
  /\ LET found == agents[w].found
     IN GoesOn(w, [agents[w] EXCEPT !.at = "run", !.entities = EntitiesIn(found),
          !.result = [NoResult EXCEPT !.cites = found,
             !.hypotheses = IF found = {} THEN <<>>
                            ELSE <<[by |-> "cohort", traces |-> {}, spans |-> {}]>>]])
  /\ UNCHANGED <<cases, issues, issueLinks, findings, remedies, packs, caseTasks>>

\* A run has the seed it was made with, and a result.
Inquiry(seed, result) ==
  [seed |-> seed, cites |-> result.cites, hypotheses |-> result.hypotheses, tasks |-> result.tasks]

InsertRun(w) ==
  /\ WorksAt(w, "run") /\ Len(inquiries) < MaxRuns
  /\ inquiries' = Append(inquiries, Inquiry(agents[w].seed, agents[w].result))
  /\ GoesOn(w, [agents[w] EXCEPT !.at = "report", !.run = Len(inquiries')])
  /\ UNCHANGED <<cases, issues, issueLinks, reports, remedies, packs, caseTasks>>

PersistReport(w) ==
  /\ WorksAt(w, "report")
  /\ LET job == agents[w] IN
       /\ reports' = Append(reports, [issue |-> job.issue, representative |-> job.found,
            entities |-> job.entities, count |-> Cardinality(DOMAIN job.entities)])
       /\ GoesOn(w, [job EXCEPT !.report = Len(reports'),
            !.at = IF job.issue = None THEN "link"
                   ELSE IF DOMAIN job.entities = {} THEN "own links" ELSE "first"])
  /\ UNCHANGED <<cases, issues, issueLinks, inquiries, remedies, packs, caseTasks>>

\* Fault: the entity is not asked for.
RowsOfIssue(issue, e) == {k \in DOMAIN affected : affected[k].issue = issue}

\* The rows of an entity; the upsert takes the first.
RowsFor(issue, e) == {k \in DOMAIN affected : affected[k].issue = issue /\ affected[k].entity = e}
FirstOf(ks) == IF ks = {} THEN None ELSE CHOOSE k \in ks : \A j \in ks : k <= j

\* The first SELECT of _upsert_affected_entities_from_report precedes its transaction.
ReadFirstEntity(w, e) ==
  /\ WorksAt(w, "first") /\ e \in DOMAIN agents[w].entities
  /\ LET k == FirstOf(RowsFor(agents[w].issue, e))
     IN GoesOn(w, [agents[w] EXCEPT !.at = "upsert",
          !.first = [key |-> <<agents[w].issue, e>>, row |-> k,
                     traces |-> IF k = None THEN {} ELSE affected[k].traces]])
  /\ UNCHANGED <<cases, issues, issueLinks, findings, remedies, packs, caseTasks>>

\* Fault: the traces found now replace those found before.
Replaced(old, new) == new

Merged(old, new) == old \union new

\* A row keeps its status, "deleted" included; a new one awaits review, and is linked.
UpsertEntities(w) ==
  /\ WorksAt(w, "upsert")
  /\ LET job == agents[w]
         row(e) == IF <<job.issue, e>> = job.first.key THEN job.first.row ELSE FirstOf(RowsFor(job.issue, e))
         old(e) == IF <<job.issue, e>> = job.first.key THEN job.first.traces ELSE affected[row(e)].traces
         known == {e \in DOMAIN job.entities : row(e) # None}
         new == SetToSeq(DOMAIN job.entities \ known)
         at(k) == {e \in known : row(e) = k}
     IN /\ affected' =
             [k \in DOMAIN affected |-> IF at(k) = {} THEN affected[k]
                ELSE LET e == CHOOSE x \in at(k) : TRUE
                     IN [affected[k] EXCEPT !.traces = Merged(old(e), job.entities[e])]]
             \o [n \in DOMAIN new |-> [issue |-> job.issue, entity |-> new[n], status |-> "needs_review",
                                       traces |-> job.entities[new[n]]]]
        /\ overlapped' = overlapped \union
             {k \in {agents[v].first.key : v \in {x \in Investigators \ {w} : WorksAt(x, "upsert")}} :
                k[1] = job.issue /\ k[2] \in DOMAIN job.entities}
        /\ GoesOn(w, [job EXCEPT !.at = "own links", !.first = None,
             !.links = [n \in DOMAIN new |-> ToLink(job.issue, <<"entity", Len(affected) + n>>,
                                                    "affected_entity", job.entities[new[n]])]])
  /\ UNCHANGED <<cases, issues, issueLinks, findings, notices, packs, caseTasks>>

\* Then the run and the report are linked.
OwnLinks(w) ==
  /\ WorksAt(w, "own links")
  /\ LET job == agents[w] IN
       GoesOn(w, [job EXCEPT !.at = "link",
         !.links = @ \o <<ToLink(job.issue, <<"run", job.run>>, "investigated_by", job.result.cites),
                          ToLink(job.issue, <<"report", job.report>>, "scoped_by", job.result.cites)>>])
  /\ UNCHANGED <<cases, issues, issueLinks, findings, remedies, packs, caseTasks>>

AddLink(w) ==
  /\ WorksAt(w, "link") /\ agents[w].links # <<>>
  /\ issueLinks' = Linked(Head(agents[w].links))
  /\ GoesOn(w, [agents[w] EXCEPT !.links = Tail(@)])
  /\ UNCHANGED <<cases, issues, findings, remedies, packs, caseTasks>>

\* update_investigation_result writes the result as the request has it in memory.
WriteResult(job) ==
  inquiries' = [inquiries EXCEPT ![job.run] = Inquiry(@.seed, job.result)]

\* The workflow adds what the searches were; a chat and a screenshot have ended.
FinishLinks(w) ==
  /\ WorksAt(w, "link") /\ agents[w].links = <<>>
  /\ IF agents[w].kind = "workflow"
     THEN WriteResult(agents[w]) /\ GoesOn(w, [agents[w] EXCEPT !.at = "evidence"])
     ELSE GoesOn(w, None) /\ UNCHANGED inquiries
  /\ UNCHANGED <<cases, issues, issueLinks, reports, remedies, packs, caseTasks>>

ReadEvidence(w) ==
  /\ WorksAt(w, "evidence")
  /\ GoesOn(w, [agents[w] EXCEPT !.at = "answer", !.spans = SpansIn(agents[w].result.cites)])
  /\ UNCHANGED <<cases, issues, issueLinks, findings, remedies, packs, caseTasks>>

\* Fault: a citation of either kind is enough.
CitesSomething(h) == h.traces # {} \/ h.spans # {}

\* A root cause needs both kinds; a draft of a behavior a positive trace.
CitesBoth(h) == h.traces # {} /\ (h.by = "draft" \/ h.spans # {})

\* _filter_to_known_evidence
Grounded(answer, traces, spans) ==
  LET known == [k \in DOMAIN answer |->
                  [answer[k] EXCEPT !.traces = @ \intersect traces, !.spans = @ \intersect spans]]
      kept == {k \in DOMAIN answer : CitesBoth(known[k])}
  IN [n \in 1 .. Cardinality(kept) |->
        known[CHOOSE k \in kept : Cardinality({j \in kept : j <= k}) = n]]

\* Root causes of the model take the place of those of the report; none of them does when
\* the model is disabled or answers nothing of use.
Assisted(hypotheses, answer) ==
  IF \E k \in DOMAIN answer : answer[k].by = "model" THEN answer ELSE hypotheses \o answer

AnswerInvestigation(w, answer) ==
  /\ WorksAt(w, "answer")
  /\ LET job == agents[w]
         next == [job EXCEPT !.at = "tasks", !.result.hypotheses =
                    Assisted(@, Grounded(answer, job.result.cites, job.spans))]
     IN WriteResult(next) /\ GoesOn(w, next)
  /\ UNCHANGED <<cases, issues, issueLinks, reports, remedies, packs, caseTasks>>

\* Fault: the task is given the spans only.
SpansOnly(h) == h.spans

\* The evidence a review task is given.
TaskEvidence(h) == h.traces \union h.spans

\* _create_investigation_review_tasks: one after the other, then the run lists them.
AddCaseTask(w) ==
  /\ WorksAt(w, "tasks")
  /\ LET job == agents[w]
         n == Cardinality(job.result.tasks) + 1
     IN /\ n <= Len(job.result.hypotheses)
        /\ caseTasks' = Append(caseTasks, [about |-> <<"run", job.run, n>>,
                                           evidence |-> TaskEvidence(job.result.hypotheses[n])])
        /\ GoesOn(w, [job EXCEPT !.result.tasks = @ \union {Len(caseTasks')}])
  /\ UNCHANGED <<cases, issues, issueLinks, findings, remedies, packs>>

ListTasks(w) ==
  /\ WorksAt(w, "tasks")
  /\ Cardinality(agents[w].result.tasks) = Len(agents[w].result.hypotheses)
  /\ WriteResult(agents[w])
  /\ GoesOn(w, None)
  /\ UNCHANGED <<cases, issues, issueLinks, reports, remedies, packs, caseTasks>>

-----------------------------------------------------------------------------
(* Remediation of an affected entity. *)

\* The link that may follow has the traces the row had.
UpdateEntity(w, k, status, remediated) ==
  /\ Waiting(w)
  /\ affected' = [affected EXCEPT ![k].status = status]
  /\ IF remediated
     THEN GoesOn(w, [Job("link", "remedy", affected[k].issue, None) EXCEPT
            !.links = <<ToLink(affected[k].issue, <<"remedy", k>>, "remediated_by", affected[k].traces)>>])
     ELSE UNCHANGED agents
  /\ UNCHANGED <<cases, issues, issueLinks, findings, notices, overlapped, packs, caseTasks>>

ReadEntity(w, k, kind) ==
  /\ Waiting(w)
  /\ GoesOn(w, [Job(kind, kind, affected[k].issue, None) EXCEPT
                  !.found = affected[k].traces, !.about = <<"entity", k>>])
  /\ UNCHANGED <<cases, issues, issueLinks, findings, remedies, packs, caseTasks>>

ReviewEntity(w) ==
  /\ WorksAt(w, "review")
  /\ caseTasks' = Append(caseTasks, [about |-> agents[w].about, evidence |-> agents[w].found])
  /\ GoesOn(w, None)
  /\ UNCHANGED <<cases, issues, issueLinks, findings, remedies, packs>>

NotifyEntity(w) ==
  /\ WorksAt(w, "notify")
  /\ notices' = notices \union {<<agents[w].about, agents[w].found>>}
  /\ GoesOn(w, None)
  /\ UNCHANGED <<cases, issues, issueLinks, findings, affected, overlapped, packs, caseTasks>>

-----------------------------------------------------------------------------
(* Context packs. *)

\* Fault: dimensions are read as who may see "internal".
ShownByDefault(a, level) == Level[a] <= 1

Shown(a, level) == Level[a] <= level

StartPack(w, sources, level) ==
  /\ Waiting(w) /\ Len(packs) < MaxPacks
  /\ GoesOn(w, [Job("pack", "pack", None, None) EXCEPT !.found = sources, !.about = level])
  /\ UNCHANGED <<cases, issues, issueLinks, findings, remedies, packs, caseTasks>>

\* One source after the other: its row, its spans and its dimensions.  At one that is
\* unknown the request ends.
ReadSource(w, t) ==
  /\ WorksAt(w, "pack") /\ t \in agents[w].found \ DOMAIN agents[w].entities
  /\ cases[t] # None
  /\ LET job == agents[w]
         shown == {a \in AccountsOf(t) : Shown(a, job.about)}
     IN GoesOn(w, [job EXCEPT
          !.spans = @ \union SpansIn({t}),
          !.entities = [u \in DOMAIN @ \union {t} |-> IF u = t THEN shown ELSE @[u]]])
  /\ UNCHANGED <<cases, issues, issueLinks, findings, remedies, packs, caseTasks>>

\* _validate_summary_citations
SummaryValid(summary, ids) == summary \subseteq ids

\* The summary of the model, that of the fallback, or, when calls are disabled, content
\* without dimensions.
WritePack(w, summary, disabled) ==
  /\ WorksAt(w, "pack") /\ DOMAIN agents[w].entities = agents[w].found
  /\ LET job == agents[w]
         ids == job.found \union job.spans
     IN packs' = Append(packs, [level |-> job.about, sources |-> job.found,
          accounts |-> IF disabled THEN {} ELSE UNION Range(job.entities),
          cites |-> IF SummaryValid(summary, ids) /\ ~disabled THEN summary ELSE ids])
  /\ GoesOn(w, None)
  /\ UNCHANGED <<cases, issues, issueLinks, findings, remedies, caseTasks>>

\* _context_pack_for_access
Readable(p, level) == IF p.level <= level THEN p.accounts ELSE {}

\* A request that fails, or the process stops.
InvestigatorStops(w) ==
  /\ ~Waiting(w)
  /\ GoesOn(w, None)
  /\ UNCHANGED <<cases, issues, issueLinks, findings, remedies, packs, caseTasks>>

-----------------------------------------------------------------------------
CaseNext ==
  \/ \E t \in CaseTraces :
       \/ \E accounts \in SUBSET Accounts : ArriveTrace(t, accounts)
       \/ DeleteCase(t)
       \/ \E i \in DOMAIN issues : LinkTrace(i, t)
  \/ \E seed \in Rows \union {None} : OpenIssue(seed)
  \/ \E w \in Investigators :
       \/ \E sources \in SUBSET Payloads : ReportScreenshot(w, sources)
       \/ \E seed \in Rows \union {None} :
            \/ \E issue \in DOMAIN issues \union {None} : StartWorkflow(w, issue, seed)
            \/ StartChat(w, seed)
       \/ \E found \in SUBSET CaseTraces : SearchCohort(w, found)
       \/ BuildReport(w) \/ InsertRun(w) \/ PersistReport(w)
       \/ \E e \in Accounts \union {Redacted} : ReadFirstEntity(w, e)
       \/ UpsertEntities(w) \/ OwnLinks(w) \/ AddLink(w) \/ FinishLinks(w) \/ ReadEvidence(w)
       \/ \E answer \in Answers : AnswerInvestigation(w, answer)
       \/ AddCaseTask(w) \/ ListTasks(w)
       \/ \E k \in DOMAIN affected :
            \/ \E status \in {"contacted", "fixed"}, remediated \in BOOLEAN :
                 UpdateEntity(w, k, status, remediated)
            \/ \E kind \in {"review", "notify"} : ReadEntity(w, k, kind)
       \/ ReviewEntity(w) \/ NotifyEntity(w)
       \/ \E sources \in SUBSET CaseTraces, level \in 0 .. 2 : StartPack(w, sources, level)
       \/ \E t \in CaseTraces : ReadSource(w, t)
       \/ \E summary \in Summaries, disabled \in BOOLEAN : WritePack(w, summary, disabled)
       \/ InvestigatorStops(w)

CaseSpec == CaseInit /\ [][CaseNext]_caseVars

-----------------------------------------------------------------------------
CaseTypeOK ==
  /\ \A r \in DOMAIN inquiries : LET q == inquiries[r] IN
       /\ q.cites \subseteq CaseTraces /\ q.tasks \subseteq DOMAIN caseTasks
       /\ \A k \in DOMAIN q.hypotheses : q.hypotheses[k].traces \subseteq CaseTraces
  /\ \A k \in DOMAIN affected :
       /\ affected[k].issue \in DOMAIN issues /\ affected[k].entity \in Accounts \union {Redacted}
       /\ affected[k].status \in {"needs_review", "contacted", "fixed", "deleted"}
       /\ affected[k].traces \subseteq CaseTraces
  /\ \A p \in DOMAIN packs : packs[p].sources \subseteq CaseTraces /\ packs[p].level \in 0 .. 2
  /\ \A l \in issueLinks : l.issue \in DOMAIN issues

\* Remediation traces back to a report: whatever investigations and deletions came
\* between, a trace that is there and that an affected entity names is named by a
\* report of the same issue for the same entity.
EntityTracesReported ==
  \A k \in DOMAIN affected : \A t \in affected[k].traces \ Dead :
    \E r \in DOMAIN reports :
      /\ reports[r].issue = affected[k].issue
      /\ affected[k].entity \in DOMAIN reports[r].entities
      /\ t \in reports[r].entities[affected[k].entity]

\* And nothing a report found is lost to remediation: when its request has passed the
\* upsert, each of its entities has a row for every trace that is there, unless
\* another upsert of that entity was committed between the read and the write of one.
RemediationTracked ==
  \A l \in issueLinks : l.relation = "scoped_by" =>
    LET r == reports[l.target[2]] IN
    \A e \in DOMAIN r.entities : <<r.issue, e>> \notin overlapped =>
      r.entities[e] \ Dead \subseteq UNION {affected[k].traces : k \in RowsFor(r.issue, e)}

\* After any deletions a report counts the entities it still names traces of.
ReportsCount ==
  \A r \in DOMAIN reports :
    reports[r].count = Cardinality({e \in DOMAIN reports[r].entities : reports[r].entities[e] # {}})

CaseSpans(ts) == {<<t>> : t \in ts}

\* What a model wrote stands on evidence the run or the pack has: a hypothesis cites
\* traces and spans of its run, some of each until they are deleted, and a summary its
\* sources; also when a deletion came while the model was thinking and the result was
\* written over what the deletion had scrubbed.  Spans of a deleted trace are left out:
\* see CitesGoTogether.
ModelTextCited ==
  /\ \A r \in DOMAIN inquiries : \A k \in DOMAIN inquiries[r].hypotheses :
       LET h == inquiries[r].hypotheses[k] IN
         /\ h.traces \subseteq inquiries[r].cites
         /\ h.spans \ CaseSpans(Dead) \subseteq CaseSpans(inquiries[r].cites)
         /\ h.by = "model" /\ (h.traces = {} \/ h.spans = {}) => Dead # {}
  /\ \A p \in DOMAIN packs :
       packs[p].cites \ CaseSpans(Dead) \subseteq packs[p].sources \union CaseSpans(packs[p].sources)

\* No span is cited without its trace.  TLC refutes it: a result or a pack that was read
\* before a deletion is written after it, the trace is deleted again to scrub that too,
\* and since its spans are gone only the trace is taken out.
CitesGoTogether ==
  /\ \A r \in DOMAIN inquiries : \A k \in DOMAIN inquiries[r].hypotheses :
       inquiries[r].hypotheses[k].spans \subseteq CaseSpans(inquiries[r].cites)
  /\ \A p \in DOMAIN packs :
       packs[p].cites \subseteq packs[p].sources \union CaseSpans(packs[p].sources)

\* A review task of an investigation shows the evidence of the hypothesis whose number
\* it has, and a run that lists its tasks lists all of them.
TasksShowTheirHypothesis ==
  LET live(ids) == ids \ (Dead \union CaseSpans(Dead)) IN
  \A r \in DOMAIN inquiries :
    LET own == {n \in DOMAIN caseTasks : caseTasks[n].about[1] = "run" /\ caseTasks[n].about[2] = r} IN
      /\ \A n \in own : LET h == inquiries[r].hypotheses[caseTasks[n].about[3]]
                        IN live(caseTasks[n].evidence) = live(h.traces \union h.spans)
      /\ inquiries[r].tasks \in {{}, own}

\* The level a pack is created at and the level it is read at together keep an account
\* from who may not see it.
PacksDisclose ==
  \A p \in DOMAIN packs, level \in 0 .. 2 :
    \A a \in Readable(packs[p], level) : Level[a] <= level

\* Reports and the rows of remediation that are made of them agree, in both directions.
RemediationAgrees == EntityTracesReported /\ RemediationTracked /\ ReportsCount

\* What is given to a reader stands on evidence of its run.
EvidenceCited == ModelTextCited /\ TasksShowTheirHypothesis
=============================================================================
