---------------------------- MODULE MCSdkExport -----------------------------
(* Small instances of SdkExport for TLC. *)
EXTENDS SdkExport, TLC

CONSTANTS a, b, c, d, th1, th2

\* Every kind of span, by name.
MCPriority == [s \in Spans |-> CASE s = b -> "error" [] s = c -> "keep" [] OTHER -> "ok"]

ThreadSymmetry == Permutations(Threads)
=============================================================================
