---------------------------- MODULE MCAutomation ----------------------------
(* Small instances of AutomationRuns for TLC. *)
EXTENDS AutomationRuns, MCScenario

Unconditional == [combine |-> "all", items |-> <<>>]
OnError == [combine |-> "any",
            items |-> <<[field |-> "status", op |-> "eq", value |-> "error"],
                        [field |-> "status", op |-> "not_in", value |-> {"ok", "error"}]>>]

Plan(type, attempts, on_failure, undo) ==
  [type |-> type, attempts |-> attempts, on_failure |-> on_failure, undo |-> undo]

Rollback == [type |-> "rollback_review_task", attempts |-> 1]
Tell == [type |-> "send_notification", attempts |-> 2]
Follow == [type |-> "create_review_task", attempts |-> 1]

\* A task whose notification fails is rolled back, and the failure told.
Notify ==
  [conditions |-> Unconditional, cooldown |-> 0, scope |-> "project",
   actions |-> <<Plan("create_review_task", 2, "stop", <<Rollback>>),
                 Plan("send_notification", 2, "compensate", <<Tell>>),
                 Plan("preview_notification", 1, "stop", <<>>)>>]

\* A partial failure on a cooldown: nothing to roll back, and a task to follow it up.
Collect ==
  [conditions |-> OnError, cooldown |-> 1, scope |-> "trace",
   actions |-> <<Plan("add_to_dataset", 1, "continue", <<>>),
                 Plan("route_tool", 1, "stop", <<>>),
                 Plan("unknown", 1, "compensate", <<Rollback, Follow>>)>>]

Webhook == [status |-> "active", ref |-> TRUE, type |-> "webhook"]
Unready == [status |-> "disabled", ref |-> FALSE, type |-> "webhook"]
Chat == [status |-> "active", ref |-> TRUE, type |-> "chat"]
MCTargetRows == {Webhook, Unready, Chat}

MCDefinitions == {Notify, Collect}

\* The automation is created first, and what it does not read stays as it is; a target
\* is there before it is used, and its secret may be lost at any time.
AutomationAside ==
  /\ subject' = subject
  /\ CASE automation = None -> automation' # None
       [] automation = Notify ->
            /\ UNCHANGED <<time, statuses>>
            /\ begun # 0 => target' = target
            /\ \A i \in DOMAIN reviews' : reviews'[i].decision = "accepted" => i = 1
            /\ secret # secret' => threads' # [r \in RunThreads |-> None]
       [] automation = Collect -> UNCHANGED <<target, secret>>

=============================================================================
