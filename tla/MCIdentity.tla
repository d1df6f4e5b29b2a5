----------------------------- MODULE MCIdentity -----------------------------
(* Instances of Identity for TLC. *)
EXTENDS Identity, MCScenario
\* The members of a workspace; keys; or invites: the rest stays as it is.
IdentityAside ==
  /\ subject' = subject
  /\ CASE subject = "keys" -> UNCHANGED <<users, members, invites, mails, sessions>>
       [] subject = "users" -> UNCHANGED <<Len(keys), accounts, revoked, invites, mails>> \/ setting = None
       [] subject = "invites" -> UNCHANGED <<Len(keys), accounts, revoked, users, members, sessions>> \/ setting = None
=============================================================================
