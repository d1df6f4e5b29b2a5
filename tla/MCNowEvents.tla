---------------------------- MODULE MCNowEvents -----------------------------
(* Small instances of NowEvents for TLC. *)
EXTENDS NowEvents, TLC

CONSTANTS a, b, h1, h2

\* Sound where no liveness is checked.
Interchangeable == Permutations(Traces) \union Permutations(Handlers)

\* No trace is deleted or sent again.
StableSpec ==
  Init /\ [][Next /\ \A t \in Matching : traces'[t] = traces[t]]_vars
=============================================================================
