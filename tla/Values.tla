------------------------------- MODULE Values --------------------------------
(* What the components agree on: the value that stands for None and NULL. *)
CONSTANT None
=============================================================================
