------------------------------ MODULE Conditions -----------------------------
(***************************************************************************)
(* The condition grammar of automations, behaviors and rule judges: groups *)
(* of tests of one resolved field each, without nested groups.  A pattern  *)
(* is the set of values it matches.                                        *)
(***************************************************************************)
EXTENDS Naturals, Sequences, Values

\* A field that is missing compares with nothing, lies in no list, and is
\* therefore outside every list.
Compare(actual, op, expected) ==
  \/ op = "exists"     /\ actual # None
  \/ op = "not_exists" /\ actual = None
  \/ op = "not_in"     /\ (actual = None \/ actual \notin expected)
  \/ /\ actual # None
     /\ \/ op = "eq"  /\ actual = expected
        \/ op = "neq" /\ actual # expected
        \/ op = "gt"  /\ actual > expected
        \/ op = "gte" /\ actual >= expected
        \/ op = "lt"  /\ actual < expected
        \/ op = "lte" /\ actual <= expected
        \/ op \in {"in", "matches_regex"} /\ actual \in expected
        \/ op = "contains" /\ expected \in actual
  \/ op = "not_contains" /\ (actual = None \/ expected \notin actual)

Tested(item, context) == Compare(context[item.field], item.op, item.value)

\* evaluate_condition_group: an unknown `combine` passes nothing.
Passes(group, context) ==
  LET tested(i) == Tested(group.items[i], context) IN
    \/ group.combine = "all" /\ \A i \in DOMAIN group.items : tested(i)
    \/ group.combine = "any" /\ \E i \in DOMAIN group.items : tested(i)
=============================================================================
