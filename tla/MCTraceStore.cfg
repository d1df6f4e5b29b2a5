SPECIFICATION StoreSpec
CONSTANTS
  t1 = t1
  t2 = t2
  s1 = s1
  e1 = e1
  e2 = e2
  r1 = r1
  r2 = r2
  b1 = b1
  None = None
  Traces = {t1, t2}
  Spans = {s1}
  Examples = {e1, e2}
  Requests = {r1, r2}
  Bodies = {b1}
  Tables = {"scores"}
  MaxDeletions = 2
  Endpoints = {"ingest_trace", "ingest_span", "append_event", "put_payload", "derive", "add_to_dataset", "evaluate", "cite", "label", "tombstone"}
SYMMETRY RequestSymmetry
INVARIANTS TypeOK IndexCoherent SurvivorsAreNewer RowsHaveTheirTrace
