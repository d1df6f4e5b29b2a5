----------------------------- MODULE MCScenario -----------------------------
(* What the instances for TLC share: names of model values, and what a        *)
(* behavior is about.                                                         *)
EXTENDS TLC

CONSTANTS a1, a2, b1, b2, c1, c2, d1, d2, e1, e2, p1, p2, s1, s2, s3, t1, t2, t3, w1, w2, x, y

VARIABLE subject
=============================================================================
