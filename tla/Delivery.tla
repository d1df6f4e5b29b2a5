------------------------------ MODULE Delivery ------------------------------
(***************************************************************************)
(* What an exporter with a bounded buffer promises of the items it is      *)
(* given: each is stored, or waits to be, or was dropped or rejected and   *)
(* is on record as such; what is stored stays stored.                      *)
(***************************************************************************)
CONSTANT Items
VARIABLE fate

Fates == {"unsent", "pending", "stored", "dropped", "rejected"}

\* A request that was given up may still be carried out: an item that was
\* dropped or rejected in the meantime is stored after all.
Moves == {<<"unsent", "pending">>, <<"unsent", "dropped">>,
          <<"pending", "stored">>, <<"pending", "dropped">>, <<"pending", "rejected">>,
          <<"dropped", "stored">>, <<"rejected", "stored">>}

Init == fate = [i \in Items |-> "unsent"]

\* A batch settles several items at once.
Next ==
  /\ fate' \in [Items -> Fates]
  /\ \A i \in Items : fate'[i] = fate[i] \/ <<fate[i], fate'[i]>> \in Moves

Spec == Init /\ [][Next]_fate
=============================================================================
