---------------------------- MODULE MCRetention -----------------------------
(* Small instances of Retention for TLC. *)
EXTENDS Retention

CONSTANTS t1, t2, p1, p2

\* p1 expires traces at once, p2 after one unit of time.
MCTTL == [p \in Policies |-> IF p = p1 THEN 0 ELSE 1]
=============================================================================
