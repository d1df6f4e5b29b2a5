------------------------------- MODULE Identity ------------------------------
(***************************************************************************)
(* Who may call the API: the bootstrap of the development key, API keys    *)
(* and their service accounts, users and memberships, sessions, invites    *)
(* and the delivery of their mail.                                         *)
(*                                                                         *)
(* A request is authenticated by a SELECT of its key and an UPDATE of the  *)
(* key's last use, which other requests may come between; what it then     *)
(* does is a sequence of transactions.  The secret of a key that a request *)
(* creates is new, and the index of its row stands for it.                 *)
(***************************************************************************)
EXTENDS Values, Naturals, Sequences

CONSTANTS Requests,    \* request threads of the API
          DevSecrets,  \* what OPENABM_DEV_API_KEY may say
          Emails,
          Accounts,    \* service accounts that requests name
          GivenRoles,  \* roles that requests give
          MaxKeys,     \* bound: rows of api_keys
          MaxInvites,  \* bound: rows of auth_invites
          MaxSessions, \* bound: rows of auth_sessions
          MaxTime      \* bound: the clock

ASSUME IdentityAssumption ==
  /\ {MaxKeys, MaxInvites, MaxSessions, MaxTime} \subseteq Nat
  /\ DevSecrets \intersect Nat = {} /\ GivenRoles \subseteq STRING
  /\ None \notin DevSecrets \union Emails \union Accounts \union GivenRoles \union Nat
  /\ None \notin {"queued", "sent", "failed"}

VARIABLES clock,
          setting,  \* the development key of the running process
          requests, \* the requests in flight
          keys,     \* the rows of api_keys: the first is the development key
          revoked,  \* history: the keys that were revoked
          accounts, \* the role of each service account
          users,    \* the emails in auth_users
          members,  \* the role of each user in the project
          invites,  \* the rows of auth_invites with their delivery
          mails,    \* how often the mail of an invite was handed to its server
          sessions  \* the status of the rows of auth_sessions

identityVars == <<clock, setting, requests, keys, revoked, accounts, users, members,
                  invites, mails, sessions>>
directory == <<accounts, users, members, invites, mails, sessions>>

Roles == {"viewer", "developer", "admin", "owner"}
AdminScopes == {"api_keys:write", "sessions:write"}
OwnerScopes == AdminScopes \union {"org_users:write", "invites:write"}

\* The scopes that matter here: viewers and developers have none of them.
RoleScopes(role) ==
  CASE role = "owner" -> OwnerScopes [] role = "admin" -> AdminScopes [] OTHER -> {}

\* A key never has more than its role.
EffectiveScopes(actor) ==
  IF "*" \in actor.scopes THEN RoleScopes(actor.role)
  ELSE actor.scopes \intersect RoleScopes(actor.role)

Owner == [role |-> "owner", scopes |-> {"*"}]

IdentityInit ==
  /\ clock = 0
  /\ setting = None
  /\ requests = [r \in Requests |-> None]
  /\ keys = <<>> /\ revoked = {}
  /\ accounts = [a \in Accounts |-> None]
  /\ users = {} /\ members = [e \in Emails |-> None]
  /\ invites = <<>> /\ mails = <<>> /\ sessions = <<>>

-----------------------------------------------------------------------------
(* The process. *)

\* The row of the development key is inserted, or reset to the one of the setting.
WithDevKey(s) ==
  LET row == [secret |-> s, actor |-> Owner, account |-> None, active |-> TRUE,
              expires |-> None, used |-> None]
  IN IF keys = <<>> THEN <<row>>
     ELSE [keys EXCEPT ![1].secret = s, ![1].actor = Owner, ![1].active = TRUE]

\* create_app.  The rows of the default user, membership and account are as fixed
\* as the decision records.
Bootstrap(s) ==
  /\ setting = None
  /\ setting' = s
  /\ keys' = WithDevKey(s)
  /\ UNCHANGED <<clock, requests, revoked, directory>>

\* The requests of a process that stops are gone.
ProcessStops ==
  /\ setting # None
  /\ setting' = None
  /\ requests' = [r \in Requests |-> None]
  /\ UNCHANGED <<clock, keys, revoked, directory>>

ClockTicks ==
  /\ clock < MaxTime
  /\ clock' = clock + 1
  /\ UNCHANGED <<setting, requests, keys, revoked, directory>>

-----------------------------------------------------------------------------
(* Authentication. *)

Continue(r, q) == requests' = [requests EXCEPT ![r] = q]
Pending(r, step) == requests[r] # None /\ requests[r].at = step

\* A key is good until its expiry has passed.
Usable(key) == key.active /\ (key.expires = None \/ key.expires >= clock)

\* The secret is the one of the row.
KeyOf(secret) == {i \in DOMAIN keys : keys[i].secret = secret /\ Usable(keys[i])}

\* authenticate_api_key, up to its UPDATE.  The development key is also let in
\* when its row is not usable.
Authenticate(r, secret) ==
  /\ setting # None
  /\ requests[r] = None
  /\ \/ \E i \in KeyOf(secret) : Continue(r, [at |-> "found", key |-> i, row |-> keys[i]])
     \/ /\ KeyOf(secret) = {} /\ secret = setting
        /\ Continue(r, [at |-> "admitted", actor |-> Owner])
  /\ UNCHANGED <<clock, setting, keys, revoked, directory>>

\* Fault: the row is written back as it was read.
TouchedRow(i, row) == [row EXCEPT !.used = clock]

Touched(i, row) == [keys[i] EXCEPT !.used = clock]

TouchKey(r) ==
  /\ Pending(r, "found")
  /\ LET q == requests[r] IN
       /\ keys' = [keys EXCEPT ![q.key] = Touched(q.key, q.row)]
       /\ Continue(r, [at |-> "admitted", actor |-> q.row.actor])
  /\ UNCHANGED <<clock, setting, revoked, directory>>

\* require_api_key and _require_scopes.
MayDo(r, scope) ==
  Pending(r, "admitted") /\ scope \in EffectiveScopes(requests[r].actor)

\* The answer, an error of the request, or an audit entry that ends it.
EndRequest(r) ==
  /\ requests[r] # None
  /\ Continue(r, None)
  /\ UNCHANGED <<clock, setting, keys, revoked, directory>>

-----------------------------------------------------------------------------
(* API keys and service accounts. *)

\* Fault: the row of the account is left to its first use.
NoAccountFirst(account) == "key"

\* ensure_service_account is a transaction of its own, before the key's.
FirstStep(account) == IF account # None THEN "account" ELSE "key"

\* The key of a user has no account.
CreateKey(r, actor, account, expires) ==
  /\ MayDo(r, "api_keys:write")
  /\ Continue(r, [at |-> FirstStep(account), actor |-> actor, account |-> account,
                  expires |-> expires])
  /\ UNCHANGED <<clock, setting, keys, revoked, directory>>

\* The account of the last key that named it has the role of that key.
EnsureServiceAccount(r) ==
  /\ Pending(r, "account")
  /\ accounts' = [accounts EXCEPT ![requests[r].account] = requests[r].actor.role]
  /\ Continue(r, [requests[r] EXCEPT !.at = "key"])
  /\ UNCHANGED <<clock, setting, keys, revoked, users, members, invites, mails, sessions>>

InsertKey(r) ==
  /\ Pending(r, "key")
  /\ Len(keys) < MaxKeys
  /\ LET q == requests[r] IN
       keys' = Append(keys, [secret |-> Len(keys) + 1, actor |-> q.actor,
                             account |-> q.account, active |-> TRUE,
                             expires |-> q.expires, used |-> None])
  /\ Continue(r, None)
  /\ UNCHANGED <<clock, setting, revoked, directory>>

RevokeKey(r, i) ==
  /\ MayDo(r, "api_keys:write")
  /\ keys' = [keys EXCEPT ![i].active = FALSE]
  /\ revoked' = revoked \union {i}
  /\ Continue(r, None)
  /\ UNCHANGED <<clock, setting, directory>>

-----------------------------------------------------------------------------
(* Users, memberships and sessions. *)

\* A role that does not exist is found out after the user was stored.
CreateUser(r, email, role) ==
  /\ MayDo(r, "org_users:write")
  /\ users' = users \union {email}
  /\ Continue(r, IF role \in Roles THEN [at |-> "member", email |-> email, role |-> role]
                 ELSE None)
  /\ UNCHANGED <<clock, setting, keys, revoked, accounts, members, invites, mails, sessions>>

JoinProject(email, role) == members' = [members EXCEPT ![email] = role]

\* The membership of a user that was just created.
AddMembership(r) ==
  /\ Pending(r, "member")
  /\ JoinProject(requests[r].email, requests[r].role)
  /\ Continue(r, None)
  /\ UNCHANGED <<clock, setting, keys, revoked, accounts, users, invites, mails, sessions>>

\* Fault: anyone may be made a member.
Anyone(email) == TRUE

KnownUser(email) == email \in users

SetMembership(r, email, role) ==
  /\ MayDo(r, "org_users:write")
  /\ KnownUser(email)
  /\ JoinProject(email, role)
  /\ Continue(r, None)
  /\ UNCHANGED <<clock, setting, keys, revoked, accounts, users, invites, mails, sessions>>

CreateSession(r, email) ==
  /\ MayDo(r, "sessions:write")
  /\ KnownUser(email)
  /\ Len(sessions) < MaxSessions
  /\ sessions' = Append(sessions, [user |-> email, status |-> "active"])
  /\ Continue(r, None)
  /\ UNCHANGED <<clock, setting, keys, revoked, accounts, users, members, invites, mails>>

RevokeSession(r, i) ==
  /\ MayDo(r, "sessions:write")
  /\ sessions' = [sessions EXCEPT ![i].status = "revoked"]
  /\ Continue(r, None)
  /\ UNCHANGED <<clock, setting, keys, revoked, accounts, users, members, invites, mails>>

-----------------------------------------------------------------------------
(* Invites.  `smtp` is enable_smtp_invites. *)

\* The invite and its delivery are one transaction.
CreateInvite(r, email, suppress, smtp) ==
  /\ MayDo(r, "invites:write")
  /\ Len(invites) < MaxInvites
  /\ invites' = Append(invites, [email |-> email,
                                 delivery |-> IF suppress THEN None ELSE "queued"])
  /\ mails' = Append(mails, 0)
  /\ Continue(r, IF ~suppress /\ smtp THEN [at |-> "mailing", invite |-> Len(invites')]
                 ELSE None)
  /\ UNCHANGED <<clock, setting, keys, revoked, accounts, users, members, sessions>>

\* _send_auth_invite_smtp: settings that do not do, a server that refuses, or one
\* that answers too late to a mail it took.
SendMail(r) ==
  /\ Pending(r, "mailing")
  /\ \E taken \in BOOLEAN, outcome \in {"sent", "failed"} :
       /\ outcome = "sent" => taken
       /\ mails' = IF taken THEN [mails EXCEPT ![requests[r].invite] = @ + 1] ELSE mails
       /\ Continue(r, [requests[r] EXCEPT !.at = outcome])
  /\ UNCHANGED <<clock, setting, keys, revoked, accounts, users, members, invites, sessions>>

\* Fault: an invite that was handed to smtplib is marked as sent.
SentAnyway(q) == "sent"

DeliveryStatus(q) == q.at

\* update_auth_invite_delivery
MarkDelivery(r) ==
  /\ Pending(r, "sent") \/ Pending(r, "failed")
  /\ LET q == requests[r] IN
       invites' = [invites EXCEPT ![q.invite].delivery = DeliveryStatus(q)]
  /\ Continue(r, None)
  /\ UNCHANGED <<clock, setting, keys, revoked, accounts, users, members, mails, sessions>>

-----------------------------------------------------------------------------
Serve(r) ==
  \/ \E secret \in DevSecrets \union DOMAIN keys : Authenticate(r, secret)
  \/ TouchKey(r) \/ EndRequest(r)
  \/ \E role \in GivenRoles \intersect Roles, scopes \in {{"*"}, {"api_keys:write"}}, account \in Accounts \union {None},
        expires \in {None, clock} :
       CreateKey(r, [role |-> role, scopes |-> scopes], account, expires)
  \/ EnsureServiceAccount(r) \/ InsertKey(r)
  \/ \E i \in DOMAIN keys : RevokeKey(r, i)
  \/ \E email \in Emails :
       \/ \E role \in GivenRoles : CreateUser(r, email, role)
       \/ \E role \in GivenRoles \intersect Roles : SetMembership(r, email, role)
       \/ CreateSession(r, email)
       \/ \E suppress, smtp \in BOOLEAN : CreateInvite(r, email, suppress, smtp)
  \/ AddMembership(r)
  \/ \E i \in DOMAIN sessions : RevokeSession(r, i)
  \/ SendMail(r) \/ MarkDelivery(r)

IdentityNext ==
  \/ \E s \in DevSecrets : Bootstrap(s)
  \/ ProcessStops \/ ClockTicks
  \/ \E r \in Requests : Serve(r)

IdentitySpec == IdentityInit /\ [][IdentityNext]_identityVars

-----------------------------------------------------------------------------
IdentityTypeOK ==
  /\ setting \in DevSecrets \union {None}
  /\ setting # None => keys # <<>> /\ keys[1].secret = setting
  /\ \A i \in DOMAIN keys :
       /\ i > 1 => keys[i].secret = i
       /\ keys[i].actor.role \in Roles /\ keys[i].used \in 0 .. clock \union {None}
  /\ \A a \in Accounts : accounts[a] \in Roles \union {None}
  /\ Len(mails) = Len(invites)

\* A key that was revoked stays so, through the requests that were using it and
\* through restarts: only the development key, which the bootstrap resets, is back.
RevocationSticks == \A i \in revoked \ {1} : ~keys[i].active

\* A key that names a service account finds it, wherever the request that made
\* the key or another one with the same account stopped.
KeysHaveAccounts ==
  \A i \in DOMAIN keys : keys[i].account # None => accounts[keys[i].account] # None

\* Members and sessions are of users that exist, though they are stored later, by
\* requests that may stop in between.
MembersAreUsers ==
  /\ \A e \in Emails : members[e] # None => e \in users
  /\ \A i \in DOMAIN sessions : sessions[i].user \in users

\* A delivery that says sent was taken by the mail server, no mail goes out twice,
\* and none for an invite whose delivery was suppressed.
MailsAccounted ==
  \A i \in DOMAIN invites :
    /\ mails[i] <= 1
    /\ invites[i].delivery = "sent" => mails[i] = 1
    /\ invites[i].delivery = None => mails[i] = 0
=============================================================================
