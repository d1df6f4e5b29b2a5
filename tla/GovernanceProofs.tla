--------------------------- MODULE GovernanceProofs --------------------------
(* What is proved of Identity, of VersionRegistry and of JudgeLifecycle for    *)
(* every number of requests, keys, versions, tasks and scores.                 *)
EXTENDS Governance, SdkExportProofs

-----------------------------------------------------------------------------
(* Identity: keys that are revoked, and the mails of invites. *)

\* What the proof needs to know of the rows of api_keys.
KeyTable ==
  /\ \E S : keys \in Seq(S)
  /\ \A i \in DOMAIN keys : "active" \in DOMAIN keys[i]

\* RevocationSticks with the fact that a revoked key has a row, so that a key
\* that is inserted is none of those revoked.
RevokedRows ==
  /\ KeyTable
  /\ revoked \subseteq DOMAIN keys
  /\ RevocationSticks

\* A row that is changed elsewhere than at the first one, or there, stays a row.
LEMMA RowChanged ==
  ASSUME NEW S, NEW rows \in Seq(S), NEW i, NEW row
  PROVE  /\ [rows EXCEPT ![i] = row] \in Seq(S \union {row})
         /\ DOMAIN [rows EXCEPT ![i] = row] = DOMAIN rows
<1>1. Len(rows) \in Nat /\ rows \in [1 .. Len(rows) -> S]
  OBVIOUS
<1>2. [rows EXCEPT ![i] = row] \in [1 .. Len(rows) -> S \union {row}]
  <2>1. \A j \in 1 .. Len(rows) : [rows EXCEPT ![i] = row][j] \in S \union {row}
    BY <1>1, Zenon
  <2>. QED  BY <1>1, <2>1
<1>3. [rows EXCEPT ![i] = row] \in Seq(S \union {row})
  BY <1>1, <1>2
<1>. QED
  BY <1>1, <1>2, <1>3

\* A row that is replaced by one that is active when the old one was, or by any if
\* it is the first or not revoked.
LEMMA RowsKept ==
  ASSUME RevokedRows, NEW i, NEW row,
         keys' = [keys EXCEPT ![i] = row], revoked' = revoked,
         i \in DOMAIN keys =>
           "active" \in DOMAIN row /\ (i = 1 \/ row.active = keys[i].active)
  PROVE  RevokedRows'
<1>1. PICK S : keys \in Seq(S)
  BY DEF RevokedRows, KeyTable
<1>2. keys' \in Seq(S \union {row}) /\ DOMAIN keys' = DOMAIN keys
  BY <1>1, RowChanged
<1>3. \A j \in DOMAIN keys : keys'[j] = IF j = i THEN row ELSE keys[j]
  BY <1>1
<1>4. KeyTable'
  BY <1>2, <1>3 DEF KeyTable, RevokedRows
<1>. QED
  BY <1>2, <1>3, <1>4 DEF RevokedRows, RevocationSticks

\* The requests touch the rows and what was revoked in three ways only.
LEMMA RevokedStep ==
  ASSUME RevokedRows, [IdentityNext]_identityVars
  PROVE  RevokedRows'
<1>1. ASSUME UNCHANGED <<keys, revoked>> PROVE RevokedRows'
  BY <1>1 DEF RevokedRows, KeyTable, RevocationSticks
<1>2. ASSUME NEW s \in DevSecrets, Bootstrap(s) PROVE RevokedRows'
  <2>. DEFINE Reset(key) == [key EXCEPT !.secret = s, !.actor = Owner, !.active = TRUE]
  <2>1. CASE keys = <<>>
    <3>1. revoked = {} /\ revoked' = {}
      BY <1>2, <2>1 DEF RevokedRows, Bootstrap
    <3>2. PICK row : keys' = <<row>> /\ "active" \in DOMAIN row
      BY <1>2, <2>1 DEF Bootstrap, WithDevKey
    <3>3. keys' \in Seq({row}) /\ DOMAIN keys' = {1} /\ keys'[1] = row
      BY <3>2
    <3>4. KeyTable'
      BY <3>2, <3>3 DEF KeyTable
    <3>. QED
      BY <3>1, <3>4 DEF RevokedRows, RevocationSticks
  <2>2. CASE keys # <<>>
    <3>1. 1 \in DOMAIN keys
      BY <2>2 DEF RevokedRows, KeyTable
    <3>2. keys' = [keys EXCEPT ![1] = Reset(keys[1])] /\ revoked' = revoked
      BY <1>2, <2>2 DEF Bootstrap, WithDevKey
    <3>3. "active" \in DOMAIN Reset(keys[1])
      BY <3>1 DEF RevokedRows, KeyTable
    <3>. QED
      BY <3>2, <3>3, RowsKept
  <2>. QED
    BY <2>1, <2>2
<1>3. ASSUME NEW r \in Requests, TouchKey(r) PROVE RevokedRows'
  <2>. DEFINE i == requests[r].key
              row == [keys[i] EXCEPT !.used = clock]
  <2>1. keys' = [keys EXCEPT ![i] = row] /\ revoked' = revoked
    BY <1>3 DEF TouchKey, Touched
  <2>2. i \in DOMAIN keys => "active" \in DOMAIN row /\ row.active = keys[i].active
    BY DEF RevokedRows, KeyTable
  <2>. QED
    BY <2>1, <2>2, RowsKept
<1>4. ASSUME NEW r \in Requests, InsertKey(r) PROVE RevokedRows'
  <2>1. PICK S : keys \in Seq(S)
    BY DEF RevokedRows, KeyTable
  <2>2. PICK row : keys' = Append(keys, row) /\ row.active /\ "active" \in DOMAIN row
    BY <1>4 DEF InsertKey
  <2>3. keys' \in Seq(S \union {row})
    BY <2>1, <2>2
  <2>4. /\ DOMAIN keys' = DOMAIN keys \union {Len(keys) + 1}
        /\ \A j \in DOMAIN keys : keys'[j] = keys[j]
        /\ keys'[Len(keys) + 1] = row
    BY <2>1, <2>2
  <2>5. KeyTable'
    BY <2>2, <2>3, <2>4 DEF KeyTable, RevokedRows
  <2>6. revoked' = revoked
    BY <1>4 DEF InsertKey
  <2>. QED
    BY <2>4, <2>5, <2>6 DEF RevokedRows, RevocationSticks
<1>5. ASSUME NEW r \in Requests, NEW i \in DOMAIN keys, RevokeKey(r, i) PROVE RevokedRows'
  <2>. DEFINE row == [keys[i] EXCEPT !.active = FALSE]
  <2>1. PICK S : keys \in Seq(S)
    BY DEF RevokedRows, KeyTable
  <2>2. keys' = [keys EXCEPT ![i] = row] /\ revoked' = revoked \union {i}
    BY <1>5 DEF RevokeKey
  <2>3. keys' \in Seq(S \union {row}) /\ DOMAIN keys' = DOMAIN keys
    BY <2>1, <2>2, RowChanged
  <2>4. "active" \in DOMAIN row /\ ~row.active
    BY DEF RevokedRows, KeyTable
  <2>5. \A j \in DOMAIN keys : keys'[j] = IF j = i THEN row ELSE keys[j]
    BY <2>1, <2>2
  <2>6. KeyTable'
    BY <2>3, <2>4, <2>5 DEF KeyTable, RevokedRows
  <2>. QED
    BY <2>2, <2>3, <2>4, <2>5, <2>6 DEF RevokedRows, RevocationSticks
<1>6. ASSUME NEW r \in Requests, Serve(r) PROVE RevokedRows'
  BY <1>1, <1>3, <1>4, <1>5, <1>6
  DEF Serve, Authenticate, EndRequest, CreateKey, EnsureServiceAccount, CreateUser,
      SetMembership, CreateSession, CreateInvite, AddMembership, RevokeSession, SendMail,
      MarkDelivery
<1>. QED
  BY <1>1, <1>2, <1>6 DEF IdentityNext, ProcessStops, ClockTicks, identityVars

\* A revoked key stays revoked, but for the development key, whatever requests were
\* using it, wherever they stopped and however often the process was started again.
THEOREM Revocation == IdentitySpec => []RevocationSticks
<1>1. IdentityInit => RevokedRows
  <2>. SUFFICES ASSUME IdentityInit PROVE RevokedRows
    OBVIOUS
  <2>1. keys \in Seq({}) /\ DOMAIN keys = {} /\ revoked = {}
    BY DEF IdentityInit
  <2>. QED
    BY <2>1 DEF RevokedRows, KeyTable, RevocationSticks
<1>2. RevokedRows /\ [IdentityNext]_identityVars => RevokedRows'
  BY RevokedStep
<1>3. RevokedRows => RevocationSticks
  BY DEF RevokedRows
<1>. QED
  BY <1>1, <1>2, <1>3, PTL DEF IdentitySpec

-----------------------------------------------------------------------------
(* Invites and their mails. *)

\* A request that delivers an invite, and what all the others are.
Mailings == [at : {"mailing", "sent", "failed"}, invite : Nat]
Elsewhere(q) == q = None \/ ("at" \in DOMAIN q /\ q.at \notin {"mailing", "sent", "failed"})
MailsInvite(r) == requests[r] # None /\ requests[r].at \in {"mailing", "sent", "failed"}

Invitations == [email : Emails, delivery : {None, "queued", "sent", "failed"}]

MailTables ==
  /\ \E S : requests \in [Requests -> S]
  /\ \A r \in Requests : Elsewhere(requests[r]) \/ requests[r] \in Mailings
  /\ invites \in Seq(Invitations)
  /\ mails \in Seq(Nat) /\ Len(mails) = Len(invites)

\* An invite is delivered by the request that created it and by no other, which
\* hands it to the server once and then says what became of it.
DeliverySound(r) ==
  LET i == requests[r].invite IN
    /\ i \in DOMAIN invites
    /\ invites[i].delivery = "queued"
    /\ requests[r].at = "mailing" => mails[i] = 0
    /\ requests[r].at = "sent" => mails[i] = 1

DeliveriesSound ==
  /\ MailsAccounted
  /\ \A r \in Requests : MailsInvite(r) => DeliverySound(r)
  /\ \A r, s \in Requests : MailsInvite(r) /\ MailsInvite(s) /\ r # s =>
       requests[r].invite # requests[s].invite

\* A request's turn is that of no other.
LEMMA Continued ==
  ASSUME MailTables, NEW r \in Requests, NEW q, Continue(r, q), Elsewhere(q) \/ q \in Mailings
  PROVE  /\ \E S : requests' \in [Requests -> S]
         /\ \A s \in Requests : requests'[s] = IF s = r THEN q ELSE requests[s]
         /\ \A s \in Requests : Elsewhere(requests'[s]) \/ requests'[s] \in Mailings
<1>1. PICK S : requests \in [Requests -> S]
  BY DEF MailTables
<1>2. /\ requests' \in [Requests -> S \union {q}]
      /\ \A s \in Requests : requests'[s] = IF s = r THEN q ELSE requests[s]
  BY <1>1 DEF Continue
<1>. QED
  BY <1>2 DEF MailTables

LEMMA Delivering ==
  ASSUME MailTables, NEW r \in Requests, MailsInvite(r)
  PROVE  requests[r] \in Mailings
  BY DEF MailTables, MailsInvite, Elsewhere

\* A request of another kind leaves the invites and their mails alone.
NoMail(r) ==
  /\ UNCHANGED <<invites, mails>>
  /\ \E q : Elsewhere(q) /\ Continue(r, q)

LEMMA Serving ==
  ASSUME MailTables, NEW r \in Requests, Serve(r)
  PROVE  \/ NoMail(r)
         \/ \E email \in Emails, suppress, smtp \in BOOLEAN : CreateInvite(r, email, suppress, smtp)
         \/ SendMail(r) \/ MarkDelivery(r)
<1>. USE DEF directory
<1>1. Elsewhere(None)
  BY DEF Elsewhere
<1>2. ASSUME NEW secret, Authenticate(r, secret) PROVE NoMail(r)
  <2>1. CASE \E i \in KeyOf(secret) :
               Continue(r, [at |-> "found", key |-> i, row |-> keys[i]])
    BY <1>2, <2>1 DEF Authenticate, NoMail, Elsewhere
  <2>2. CASE Continue(r, [at |-> "admitted", actor |-> Owner])
    BY <1>2, <2>2 DEF Authenticate, NoMail, Elsewhere
  <2>. QED
    BY <1>2, <2>1, <2>2 DEF Authenticate
<1>3. ASSUME TouchKey(r) PROVE NoMail(r)
  <2>1. Elsewhere([at |-> "admitted", actor |-> requests[r].row.actor])
    BY DEF Elsewhere
  <2>. QED
    BY <1>3, <2>1 DEF TouchKey, NoMail
<1>4. ASSUME EndRequest(r) PROVE NoMail(r)
  BY <1>1, <1>4 DEF EndRequest, NoMail
<1>5. ASSUME NEW actor, NEW account, NEW expires, CreateKey(r, actor, account, expires)
      PROVE  NoMail(r)
  <2>1. Elsewhere([at |-> FirstStep(account), actor |-> actor, account |-> account,
                   expires |-> expires])
    BY DEF Elsewhere, FirstStep
  <2>. QED
    BY <1>5, <2>1 DEF CreateKey, NoMail
<1>6. ASSUME EnsureServiceAccount(r) PROVE NoMail(r)
  <2>1. requests[r] # None /\ requests[r].at = "account"
    BY <1>6 DEF EnsureServiceAccount, Pending
  <2>2. "at" \in DOMAIN requests[r]
    BY <2>1 DEF MailTables, Elsewhere, Mailings
  <2>3. Elsewhere([requests[r] EXCEPT !.at = "key"])
    BY <2>2 DEF Elsewhere
  <2>. QED
    BY <1>6, <2>3 DEF EnsureServiceAccount, NoMail
<1>7. ASSUME InsertKey(r) PROVE NoMail(r)
  BY <1>1, <1>7 DEF InsertKey, NoMail
<1>8. ASSUME NEW i, RevokeKey(r, i) \/ RevokeSession(r, i) PROVE NoMail(r)
  BY <1>1, <1>8 DEF RevokeKey, RevokeSession, NoMail
<1>9. ASSUME NEW email, NEW role, CreateUser(r, email, role) PROVE NoMail(r)
  <2>1. Elsewhere([at |-> "member", email |-> email, role |-> role])
    BY DEF Elsewhere
  <2>. QED
    BY <1>1, <1>9, <2>1 DEF CreateUser, NoMail
<1>10. ASSUME NEW email, NEW role, SetMembership(r, email, role) \/ CreateSession(r, email)
       PROVE  NoMail(r)
  BY <1>1, <1>10 DEF SetMembership, CreateSession, NoMail
<1>11. ASSUME AddMembership(r) PROVE NoMail(r)
  BY <1>1, <1>11 DEF AddMembership, NoMail
<1>. QED
  BY <1>2, <1>3, <1>4, <1>5, <1>6, <1>7, <1>8, <1>9, <1>10, <1>11, Zenon DEF Serve

LEMMA InviteCreated ==
  ASSUME MailTables, DeliveriesSound, NEW r \in Requests, NEW email \in Emails,
         NEW suppress \in BOOLEAN, NEW smtp \in BOOLEAN, CreateInvite(r, email, suppress, smtp)
  PROVE  MailTables' /\ DeliveriesSound'
<1>. DEFINE n == Len(invites)
            row == [email |-> email, delivery |-> IF suppress THEN None ELSE "queued"]
            q == IF ~suppress /\ smtp THEN [at |-> "mailing", invite |-> n + 1] ELSE None
<1>1. /\ invites' = Append(invites, row) /\ mails' = Append(mails, 0)
      /\ n \in Nat /\ Len(invites') = n + 1 /\ DOMAIN invites = 1 .. n
      /\ row \in Invitations
  BY DEF CreateInvite, MailTables, Invitations
<1>2. /\ invites' \in Seq(Invitations) /\ mails' \in Seq(Nat) /\ Len(mails') = Len(invites')
      /\ DOMAIN invites' = 1 .. (n + 1)
      /\ \A i \in 1 .. n : invites'[i] = invites[i] /\ mails'[i] = mails[i]
      /\ invites'[n + 1] = row /\ mails'[n + 1] = 0
  BY <1>1 DEF MailTables
<1>3. Continue(r, q) /\ (Elsewhere(q) \/ q \in Mailings)
  BY <1>1 DEF CreateInvite, Elsewhere, Mailings
<1>4. MailTables'
  BY <1>2, <1>3, Continued DEF MailTables
<1>5. \A s \in Requests : requests'[s] = IF s = r THEN q ELSE requests[s]
  BY <1>3, Continued
<1>6. MailsAccounted'
  BY <1>1, <1>2, IdentityAssumption DEF DeliveriesSound, MailsAccounted
<1>7. ASSUME NEW s \in Requests, MailsInvite(s)', s # r
      PROVE  /\ MailsInvite(s) /\ DeliverySound(s)' /\ requests'[s] = requests[s]
             /\ requests[s].invite \in 1 .. n
  BY <1>1, <1>2, <1>5, <1>7 DEF DeliveriesSound, MailsInvite, DeliverySound
<1>8. ASSUME MailsInvite(r)' PROVE DeliverySound(r)' /\ requests'[r].invite = n + 1
  <2>1. ~suppress /\ requests'[r] = [at |-> "mailing", invite |-> n + 1]
    BY <1>5, <1>8 DEF MailsInvite
  <2>. QED
    BY <1>1, <1>2, <2>1 DEF DeliverySound
<1>. QED
  BY <1>1, <1>4, <1>6, <1>7, <1>8 DEF DeliveriesSound

LEMMA MailSent ==
  ASSUME MailTables, DeliveriesSound, NEW r \in Requests, SendMail(r)
  PROVE  MailTables' /\ DeliveriesSound'
<1>. DEFINE i == requests[r].invite
<1>1. /\ MailsInvite(r) /\ requests[r] \in Mailings /\ i \in DOMAIN invites
      /\ invites[i].delivery = "queued" /\ mails[i] = 0
  BY Delivering DEF SendMail, Pending, MailsInvite, DeliveriesSound, DeliverySound
<1>2. PICK taken \in BOOLEAN, outcome \in {"sent", "failed"} :
        /\ outcome = "sent" => taken
        /\ mails' = IF taken THEN [mails EXCEPT ![i] = @ + 1] ELSE mails
        /\ Continue(r, [requests[r] EXCEPT !.at = outcome])
  BY DEF SendMail
<1>. DEFINE q == [requests[r] EXCEPT !.at = outcome]
<1>3. q \in Mailings /\ q.at = outcome /\ q.invite = i
  BY <1>1 DEF Mailings
<1>. HIDE DEF q
<1>4. \A s \in Requests : requests'[s] = IF s = r THEN q ELSE requests[s]
  BY <1>2, <1>3, Continued DEF q
<1>5. /\ invites' = invites /\ mails' \in Seq(Nat) /\ Len(mails') = Len(invites')
      /\ DOMAIN mails = DOMAIN invites
  <2>1. invites' = invites /\ mails \in Seq(Nat) /\ Len(mails) = Len(invites)
    BY DEF SendMail, MailTables
  <2>2. mails[i] \in Nat /\ i \in DOMAIN mails
    BY <1>1, <2>1
  <2>3. mails' = mails \/ mails' = [mails EXCEPT ![i] = mails[i] + 1]
    BY <1>2
  <2>4. mails' \in Seq(Nat) /\ Len(mails') = Len(mails)
    BY <2>1, <2>2, <2>3
  <2>. QED
    BY <2>1, <2>4
<1>6. /\ mails'[i] = (IF taken THEN 1 ELSE 0)
      /\ \A j \in DOMAIN invites : j # i => mails'[j] = mails[j]
  BY <1>1, <1>2, <1>5 DEF MailTables
<1>7. MailTables'
  <2>1. /\ \E S : requests' \in [Requests -> S]
        /\ \A s \in Requests : Elsewhere(requests'[s]) \/ requests'[s] \in Mailings
    BY <1>2, <1>3, Continued DEF q
  <2>. QED
    BY <1>5, <2>1 DEF MailTables
<1>8. MailsAccounted'
  BY <1>1, <1>5, <1>6, IdentityAssumption DEF DeliveriesSound, MailsAccounted
<1>9. ASSUME NEW s \in Requests, MailsInvite(s)', s # r
      PROVE  /\ MailsInvite(s) /\ requests'[s] = requests[s] /\ requests[s].invite # i
  BY <1>1, <1>4, <1>9 DEF DeliveriesSound, MailsInvite
<1>10. ASSUME NEW s \in Requests, MailsInvite(s)', s # r PROVE DeliverySound(s)'
  BY <1>5, <1>6, <1>9, <1>10 DEF DeliveriesSound, DeliverySound
<1>11. DeliverySound(r)' /\ requests'[r].invite = i
  BY <1>1, <1>2, <1>3, <1>4, <1>5, <1>6 DEF DeliverySound
<1>12. \A s, t \in Requests : MailsInvite(s)' /\ MailsInvite(t)' /\ s # t =>
         requests'[s].invite # requests'[t].invite
  BY <1>9, <1>11 DEF DeliveriesSound
<1>. QED
  BY <1>7, <1>8, <1>10, <1>11, <1>12 DEF DeliveriesSound

LEMMA DeliveryMarked ==
  ASSUME MailTables, DeliveriesSound, NEW r \in Requests, MarkDelivery(r)
  PROVE  MailTables' /\ DeliveriesSound'
<1>. DEFINE i == requests[r].invite
            status == requests[r].at
<1>1. /\ MailsInvite(r) /\ requests[r] \in Mailings /\ i \in DOMAIN invites
      /\ status \in {"sent", "failed"} /\ (status = "sent" => mails[i] = 1)
  BY Delivering DEF MarkDelivery, Pending, MailsInvite, DeliveriesSound, DeliverySound
<1>2. /\ invites' = [invites EXCEPT ![i].delivery = status] /\ mails' = mails
      /\ Continue(r, None)
  BY DEF MarkDelivery, DeliveryStatus
<1>. DEFINE row == [invites[i] EXCEPT !.delivery = status]
<1>3. row \in Invitations /\ row.delivery = status
  <2>1. invites[i] \in Invitations
    BY <1>1 DEF MailTables
  <2>. QED
    BY <1>1, <2>1 DEF Invitations
<1>10. invites' = [invites EXCEPT ![i] = row]
  BY <1>2
<1>. HIDE DEF row
<1>4. /\ invites' \in Seq(Invitations) /\ Len(invites') = Len(invites)
      /\ DOMAIN invites' = DOMAIN invites
      /\ invites'[i].delivery = status
      /\ \A j \in DOMAIN invites : j # i => invites'[j] = invites[j]
  BY <1>1, <1>3, <1>10 DEF MailTables
<1>5. /\ \E S : requests' \in [Requests -> S]
      /\ \A s \in Requests : requests'[s] = IF s = r THEN None ELSE requests[s]
      /\ \A s \in Requests : Elsewhere(requests'[s]) \/ requests'[s] \in Mailings
  BY <1>2, Continued DEF Elsewhere
<1>6. MailTables'
  BY <1>2, <1>4, <1>5 DEF MailTables
<1>7. MailsAccounted'
  BY <1>1, <1>2, <1>4, IdentityAssumption DEF DeliveriesSound, MailsAccounted
<1>8. ASSUME NEW s \in Requests, MailsInvite(s)'
      PROVE  MailsInvite(s) /\ requests'[s] = requests[s] /\ requests[s].invite # i
  BY <1>1, <1>5, <1>8 DEF DeliveriesSound, MailsInvite
<1>9. ASSUME NEW s \in Requests, MailsInvite(s)' PROVE DeliverySound(s)'
  BY <1>2, <1>4, <1>8, <1>9 DEF DeliveriesSound, DeliverySound
<1>. QED
  BY <1>6, <1>7, <1>8, <1>9 DEF DeliveriesSound

LEMMA DeliveryStep ==
  ASSUME MailTables, DeliveriesSound, [IdentityNext]_identityVars
  PROVE  MailTables' /\ DeliveriesSound'
<1>1. CASE UNCHANGED <<invites, mails, requests>>
  BY <1>1 DEF MailTables, DeliveriesSound, MailsAccounted, DeliverySound, MailsInvite
<1>2. ASSUME NEW r \in Requests, NoMail(r) PROVE MailTables' /\ DeliveriesSound'
  <2>1. PICK q : Elsewhere(q) /\ Continue(r, q)
    BY <1>2 DEF NoMail
  <2>2. /\ \E S : requests' \in [Requests -> S]
        /\ \A s \in Requests : requests'[s] = IF s = r THEN q ELSE requests[s]
        /\ \A s \in Requests : Elsewhere(requests'[s]) \/ requests'[s] \in Mailings
    BY <2>1, Continued
  <2>3. UNCHANGED <<invites, mails>>
    BY <1>2 DEF NoMail
  <2>4. \A s \in Requests : MailsInvite(s)' => MailsInvite(s) /\ requests'[s] = requests[s]
    BY <2>1, <2>2 DEF MailsInvite, Elsewhere
  <2>5. MailTables'
    BY <2>2, <2>3 DEF MailTables
  <2>6. \A s \in Requests : MailsInvite(s)' => DeliverySound(s)'
    BY <2>3, <2>4 DEF DeliveriesSound, DeliverySound
  <2>7. MailsAccounted'
    BY <2>3 DEF DeliveriesSound, MailsAccounted
  <2>. QED
    BY <2>4, <2>5, <2>6, <2>7 DEF DeliveriesSound
<1>3. CASE ProcessStops
  <2>1. /\ UNCHANGED <<invites, mails>> /\ requests' \in [Requests -> {None}]
        /\ \A r \in Requests : requests'[r] = None
    BY <1>3 DEF ProcessStops, directory
  <2>. QED
    BY <2>1 DEF MailTables, DeliveriesSound, MailsAccounted, MailsInvite, Elsewhere
<1>4. ASSUME NEW r \in Requests, Serve(r) PROVE MailTables' /\ DeliveriesSound'
  BY <1>2, <1>4, Serving, InviteCreated, MailSent, DeliveryMarked
<1>. QED
  BY <1>1, <1>3, <1>4
  DEF IdentityNext, Bootstrap, ClockTicks, identityVars, directory

\* What is delivered, and by whom, is so in every behavior.
LEMMA MailsAlways == IdentitySpec => [](MailTables /\ DeliveriesSound)
<1>1. IdentityInit => MailTables /\ DeliveriesSound
  <2>. SUFFICES ASSUME IdentityInit PROVE MailTables /\ DeliveriesSound
    OBVIOUS
  <2>1. /\ invites = <<>> /\ mails = <<>> /\ requests \in [Requests -> {None}]
        /\ \A r \in Requests : requests[r] = None
    BY DEF IdentityInit
  <2>2. invites \in Seq(Invitations) /\ mails \in Seq(Nat) /\ DOMAIN invites = {}
    BY <2>1
  <2>. QED
    BY <2>1, <2>2 DEF MailTables, DeliveriesSound, MailsAccounted, MailsInvite, Elsewhere
<1>2. MailTables /\ DeliveriesSound /\ [IdentityNext]_identityVars
      => MailTables' /\ DeliveriesSound'
  BY DeliveryStep
<1>. QED
  BY <1>1, <1>2, PTL DEF IdentitySpec

\* For every number of requests and invites: a delivery that says sent was taken by
\* the server, no mail goes out twice, and none for an invite that was suppressed.
THEOREM Mails == IdentitySpec => []MailsAccounted
<1>1. MailTables /\ DeliveriesSound => MailsAccounted
  BY DEF DeliveriesSound
<1>. QED
  BY <1>1, MailsAlways, PTL

-----------------------------------------------------------------------------
(* Identity: keys find their account, members and sessions their user. *)

Actor == [role : Roles, scopes : {{"*"}, {"api_keys:write"}}]
KeyRow == [secret : DevSecrets \union Nat, actor : Actor, account : Accounts \union {None},
           active : BOOLEAN, expires : Nat \union {None}, used : Nat \union {None}]

\* Where a request is with a key that it creates.
Creating == [at : {"account", "key"}, actor : Actor, account : Accounts \union {None},
             expires : Nat \union {None}]

\* What a request in flight has in hand, and relies on.
RequestTyped(q) ==
  \/ q \in [at : {"found"}, key : DOMAIN keys, row : KeyRow]
  \/ q \in [at : {"admitted"}, actor : Actor]
  \/ /\ q \in Creating /\ q.actor.role \in GivenRoles
     /\ q.at = "account" => q.account # None
     /\ q.at = "key" /\ q.account # None => accounts[q.account] # None
  \/ q \in [at : {"member"}, email : users, role : Roles]
  \/ q \in Mailings

RequestsTyped ==
  /\ \E S : requests \in [Requests -> S]
  /\ \A r \in Requests : requests[r] # None => RequestTyped(requests[r])

KeysTyped ==
  /\ keys \in Seq(KeyRow)
  /\ \A i \in DOMAIN keys :
       (i > 1 => keys[i].secret = i) /\ keys[i].used \in 0 .. clock \union {None}
  /\ setting # None => keys # <<>> /\ keys[1].secret = setting
  /\ KeysHaveAccounts

PeopleTyped ==
  /\ accounts \in [Accounts -> (Roles \intersect GivenRoles) \union {None}]
  /\ users \subseteq Emails /\ \E S : members \in [Emails -> S]
  /\ sessions \in Seq([user : users, status : {"active", "revoked"}])
  /\ MembersAreUsers

\* IdentityTypeOK, KeysHaveAccounts and MembersAreUsers, with what the requests in
\* flight rely on.
IdentityTyped ==
  /\ clock \in Nat /\ setting \in DevSecrets \union {None}
  /\ RequestsTyped /\ KeysTyped /\ PeopleTyped

\* A request's turn leaves it, and the others, with what they rely on, as long as
\* keys, users and accounts stay.
LEMMA TurnTyped ==
  ASSUME RequestsTyped, NEW r \in Requests, NEW q, Continue(r, q),
         q # None => RequestTyped(q)',
         DOMAIN keys \subseteq DOMAIN keys', users \subseteq users',
         \A a \in Accounts : accounts[a] # None => accounts'[a] # None
  PROVE  RequestsTyped'
<1>1. PICK S : requests \in [Requests -> S]
  BY DEF RequestsTyped
<1>2. /\ requests' \in [Requests -> S \union {q}]
      /\ \A s \in Requests : requests'[s] = IF s = r THEN q ELSE requests[s]
  BY <1>1 DEF Continue
<1>3. ASSUME NEW p, RequestTyped(p)
      PROVE  RequestTyped(p)'
  <2>1. CASE p \in [at : {"found"}, key : DOMAIN keys, row : KeyRow]
    BY <2>1 DEF RequestTyped
  <2>2. CASE p \in [at : {"admitted"}, actor : Actor]
    BY <2>2 DEF RequestTyped
  <2>3. CASE /\ p \in Creating /\ p.actor.role \in GivenRoles
             /\ p.at = "account" => p.account # None
             /\ p.at = "key" /\ p.account # None => accounts[p.account] # None
    <3>1. p.account \in Accounts \union {None}
      BY <2>3 DEF Creating
    <3>. QED
      BY <2>3, <3>1 DEF RequestTyped
  <2>4. CASE p \in [at : {"member"}, email : users, role : Roles]
    BY <2>4 DEF RequestTyped
  <2>5. CASE p \in Mailings
    BY <2>5 DEF RequestTyped
  <2>. QED
    BY <1>3, <2>1, <2>2, <2>3, <2>4, <2>5 DEF RequestTyped
<1>4. ASSUME NEW s \in Requests, requests'[s] # None
      PROVE  RequestTyped(requests[s])'
  <2>1. PICK p : p = requests'[s]
    OBVIOUS
  <2>2. RequestTyped(p)'
    BY <1>2, <1>3, <1>4, <2>1 DEF RequestsTyped
  <2>. QED
    BY <2>1, <2>2
<1>. QED
  BY <1>2, <1>4 DEF RequestsTyped

\* A key's row is changed, and keeps its secret and its account.
LEMMA KeyChanged ==
  ASSUME KeysTyped, clock \in Nat, clock' = clock, setting' = setting, accounts' = accounts,
         NEW i \in DOMAIN keys, NEW row \in KeyRow, keys' = [keys EXCEPT ![i] = row],
         row.secret = keys[i].secret, row.account = keys[i].account,
         row.used \in {keys[i].used, clock}
  PROVE  KeysTyped' /\ DOMAIN keys' = DOMAIN keys
<1>1. keys \in Seq(KeyRow) /\ Len(keys) \in Nat /\ DOMAIN keys = 1 .. Len(keys)
  BY DEF KeysTyped
<1>2. /\ keys' \in Seq(KeyRow) /\ DOMAIN keys' = DOMAIN keys
      /\ \A j \in DOMAIN keys : keys'[j] = IF j = i THEN row ELSE keys[j]
  BY <1>1
<1>3. clock \in 0 .. clock
  OBVIOUS
<1>4. \A j \in DOMAIN keys :
        /\ keys'[j].secret = keys[j].secret /\ keys'[j].account = keys[j].account
        /\ keys'[j].used \in {keys[j].used, clock}
  BY <1>2
<1>5. \A j \in DOMAIN keys' :
        (j > 1 => keys'[j].secret = j) /\ keys'[j].used \in 0 .. clock' \union {None}
  BY <1>2, <1>3, <1>4 DEF KeysTyped
<1>6. setting' # None => keys' # <<>> /\ keys'[1].secret = setting'
  BY <1>1, <1>2, <1>4 DEF KeysTyped
<1>7. KeysHaveAccounts'
  BY <1>2, <1>4 DEF KeysTyped, KeysHaveAccounts
<1>. QED
  BY <1>2, <1>5, <1>6, <1>7 DEF KeysTyped

\* The rest of the tables stays as it is when nothing of it is written.
LEMMA KeysStay ==
  ASSUME KeysTyped, UNCHANGED <<clock, setting, keys>>,
         \A a \in Accounts : accounts[a] # None => accounts'[a] # None
  PROVE  KeysTyped'
<1>1. ASSUME NEW i \in DOMAIN keys, keys[i].account # None
      PROVE  accounts'[keys[i].account] # None
  <2>1. keys[i] \in KeyRow
    BY DEF KeysTyped
  <2>2. keys[i].account \in Accounts
    BY <1>1, <2>1 DEF KeyRow
  <2>. QED
    BY <1>1, <2>2 DEF KeysTyped, KeysHaveAccounts
<1>. QED
  BY <1>1 DEF KeysTyped, KeysHaveAccounts

LEMMA PeopleStay ==
  ASSUME PeopleTyped, UNCHANGED <<accounts, users, members, sessions>>
  PROVE  PeopleTyped'
  BY DEF PeopleTyped, MembersAreUsers

\* The bootstrap, the clock, and a process that stops.
LEMMA ProcessTyped ==
  ASSUME IdentityTyped,
         (\E s \in DevSecrets : Bootstrap(s)) \/ ProcessStops \/ ClockTicks
  PROVE  IdentityTyped'
<1>1. UNCHANGED <<accounts, users, members, sessions>> /\ PeopleTyped'
  BY PeopleStay DEF IdentityTyped, Bootstrap, ProcessStops, ClockTicks, directory
<1>2. ASSUME NEW s \in DevSecrets, Bootstrap(s)
      PROVE  IdentityTyped'
  <2>1. Owner \in Actor /\ Owner.role = "owner"
    BY DEF Actor, Owner, Roles
  <2>2. keys' \in Seq(KeyRow) /\ keys' # <<>> /\ DOMAIN keys \subseteq DOMAIN keys'
        /\ keys'[1].secret = s
        /\ \A i \in DOMAIN keys' : /\ i > 1 => i \in DOMAIN keys /\ keys'[i] = keys[i]
                                   /\ keys'[i].account # None => i \in DOMAIN keys
                                   /\ i \in DOMAIN keys => keys'[i].account = keys[i].account
                                                           /\ keys'[i].used = keys[i].used
                                   /\ i \notin DOMAIN keys => keys'[i].used = None
    <3>1. CASE keys = <<>>
      <4>1. PICK row : /\ row = [secret |-> s, actor |-> Owner, account |-> None, active |-> TRUE,
                                 expires |-> None, used |-> None]
                       /\ keys' = <<row>>
        BY <1>2, <3>1 DEF Bootstrap, WithDevKey
      <4>2. row \in KeyRow /\ row.secret = s /\ row.account = None /\ row.used = None
        BY <2>1, <4>1 DEF KeyRow
      <4>3. DOMAIN keys' = {1} /\ keys'[1] = row /\ keys' \in Seq(KeyRow) /\ keys' # <<>>
        BY <4>1, <4>2
      <4>4. DOMAIN keys = {}
        BY <3>1
      <4>. QED
        BY <4>2, <4>3, <4>4
    <3>2. CASE keys # <<>>
      <4>1. keys \in Seq(KeyRow) /\ 1 \in DOMAIN keys /\ keys[1] \in KeyRow
        BY <3>2 DEF IdentityTyped, KeysTyped
      <4>2. PICK row : /\ row = [keys[1] EXCEPT !.secret = s, !.actor = Owner, !.active = TRUE]
                       /\ keys' = [keys EXCEPT ![1] = row]
        BY <1>2, <3>2 DEF Bootstrap, WithDevKey
      <4>3. row \in KeyRow /\ row.secret = s /\ row.account = keys[1].account
            /\ row.used = keys[1].used
        BY <2>1, <4>1, <4>2 DEF KeyRow
      <4>4. keys' \in Seq(KeyRow) /\ DOMAIN keys' = DOMAIN keys
            /\ \A i \in DOMAIN keys : keys'[i] = IF i = 1 THEN row ELSE keys[i]
        BY <4>1, <4>2, <4>3
      <4>5. keys' # <<>>
        BY <4>1, <4>4
      <4>6. \A i \in DOMAIN keys : i > 1 => i # 1
        BY <4>1
      <4>. QED
        BY <4>1, <4>3, <4>4, <4>5, <4>6
    <3>. QED
      BY <3>1, <3>2
  <2>3. setting' = s /\ clock' = clock /\ requests' = requests
    BY <1>2 DEF Bootstrap
  <2>4. KeysTyped'
    BY <1>1, <2>2, <2>3 DEF IdentityTyped, KeysTyped, KeysHaveAccounts
  <2>5. RequestsTyped'
    <3>1. ASSUME NEW r \in Requests, requests[r] # None
          PROVE  RequestTyped(requests[r])'
      <4>1. PICK p : p = requests[r]
        OBVIOUS
      <4>2. RequestTyped(p)
        BY <3>1, <4>1 DEF IdentityTyped, RequestsTyped
      <4>3. RequestTyped(p)'
        BY <1>1, <2>2, <4>2 DEF RequestTyped
      <4>. QED
        BY <2>3, <4>1, <4>3
    <3>. QED
      BY <2>3, <3>1 DEF IdentityTyped, RequestsTyped
  <2>. QED
    BY <1>1, <2>3, <2>4, <2>5 DEF IdentityTyped
<1>3. ASSUME ProcessStops
      PROVE  IdentityTyped'
  <2>1. /\ UNCHANGED <<clock, keys, accounts>> /\ setting' = None
        /\ requests' = [r \in Requests |-> None]
    BY <1>3 DEF ProcessStops, directory
  <2>2. KeysTyped'
    BY <2>1 DEF IdentityTyped, KeysTyped, KeysHaveAccounts
  <2>3. RequestsTyped'
    <3>1. requests' \in [Requests -> {None}] /\ \A r \in Requests : requests'[r] = None
      BY <2>1
    <3>. QED
      BY <3>1 DEF RequestsTyped
  <2>. QED
    BY <1>1, <2>1, <2>2, <2>3 DEF IdentityTyped
<1>4. ASSUME ClockTicks
      PROVE  IdentityTyped'
  <2>1. /\ UNCHANGED <<setting, requests, keys, accounts, users>> /\ clock' = clock + 1
    BY <1>4 DEF ClockTicks, directory
  <2>2. 0 .. clock \subseteq 0 .. clock' /\ clock' \in Nat
    BY <2>1 DEF IdentityTyped
  <2>3. KeysTyped'
    BY <2>1, <2>2 DEF IdentityTyped, KeysTyped, KeysHaveAccounts
  <2>4. RequestsTyped'
    BY <2>1 DEF IdentityTyped, RequestsTyped, RequestTyped
  <2>. QED
    BY <1>1, <2>1, <2>2, <2>3, <2>4 DEF IdentityTyped
<1>. QED
  BY <1>2, <1>3, <1>4

\* What a request that has an actor may do, it does with that actor.
LEMMA KeyInHand ==
  ASSUME IdentityTyped, NEW r \in Requests, requests[r] # None
  PROVE  /\ RequestTyped(requests[r])
         /\ requests[r].at = "found" =>
              requests[r] \in [at : {"found"}, key : DOMAIN keys, row : KeyRow]
         /\ requests[r].at \in {"account", "key"} =>
              /\ requests[r] \in Creating /\ requests[r].actor.role \in GivenRoles
              /\ requests[r].at = "account" => requests[r].account # None
              /\ requests[r].at = "key" /\ requests[r].account # None =>
                   accounts[requests[r].account] # None
         /\ requests[r].at = "member" =>
              requests[r] \in [at : {"member"}, email : users, role : Roles]
         /\ requests[r].at \in {"mailing", "sent", "failed"} => requests[r] \in Mailings
<1>1. PICK q : q = requests[r]
  OBVIOUS
<1>2. RequestTyped(q)
  BY <1>1 DEF IdentityTyped, RequestsTyped
<1>. QED
  BY <1>1, <1>2 DEF RequestTyped, Creating, Mailings

\* Authentication, and the end of a request.
LEMMA AdmittedTyped ==
  ASSUME IdentityTyped, NEW r \in Requests,
         \/ \E secret \in DevSecrets \union DOMAIN keys : Authenticate(r, secret)
         \/ TouchKey(r) \/ EndRequest(r)
  PROVE  IdentityTyped'
<1>1. UNCHANGED <<clock, setting, accounts, users, members, sessions>> /\ PeopleTyped'
  BY PeopleStay DEF IdentityTyped, Authenticate, TouchKey, EndRequest, directory
<1>2. ASSUME NEW secret \in DevSecrets \union DOMAIN keys, Authenticate(r, secret)
      PROVE  IdentityTyped'
  <2>1. PICK q : /\ Continue(r, q) /\ keys' = keys
                 /\ \/ \E i \in DOMAIN keys : q = [at |-> "found", key |-> i, row |-> keys[i]]
                    \/ q = [at |-> "admitted", actor |-> Owner]
    BY <1>2 DEF Authenticate, KeyOf
  <2>2. \A i \in DOMAIN keys : keys[i] \in KeyRow
    BY DEF IdentityTyped, KeysTyped
  <2>3. Owner \in Actor
    BY DEF Actor, Owner, Roles
  <2>4. RequestTyped(q)'
    BY <2>1, <2>2, <2>3 DEF RequestTyped
  <2>5. RequestsTyped'
    BY <1>1, <2>1, <2>4, TurnTyped DEF IdentityTyped
  <2>6. KeysTyped'
    BY <1>1, <2>1, KeysStay DEF IdentityTyped
  <2>. QED
    BY <1>1, <2>5, <2>6 DEF IdentityTyped
<1>3. ASSUME TouchKey(r)
      PROVE  IdentityTyped'
  <2>1. PICK i, row : /\ i = requests[r].key /\ row = [keys[i] EXCEPT !.used = clock]
                      /\ keys' = [keys EXCEPT ![i] = row]
                      /\ Continue(r, [at |-> "admitted", actor |-> requests[r].row.actor])
    BY <1>3 DEF TouchKey, Touched
  <2>2. requests[r] \in [at : {"found"}, key : DOMAIN keys, row : KeyRow]
    BY <1>3, KeyInHand DEF TouchKey, Pending
  <2>3. i \in DOMAIN keys /\ requests[r].row \in KeyRow
    BY <2>1, <2>2
  <2>9. requests[r].row.actor \in Actor
    BY <2>3 DEF KeyRow
  <2>10. keys[i] \in KeyRow
    BY <2>3 DEF IdentityTyped, KeysTyped
  <2>4. row \in KeyRow /\ row.secret = keys[i].secret /\ row.account = keys[i].account
        /\ row.used = clock
    BY <2>1, <2>10 DEF KeyRow, IdentityTyped
  <2>5. KeysTyped' /\ DOMAIN keys' = DOMAIN keys
    BY <1>1, <2>1, <2>3, <2>4, KeyChanged DEF IdentityTyped
  <2>6. PICK q : q = [at |-> "admitted", actor |-> requests[r].row.actor]
    OBVIOUS
  <2>7. RequestTyped(q)'
    BY <2>6, <2>9 DEF RequestTyped
  <2>8. RequestsTyped'
    BY <1>1, <2>1, <2>5, <2>6, <2>7, TurnTyped DEF IdentityTyped
  <2>. QED
    BY <1>1, <2>5, <2>8 DEF IdentityTyped
<1>4. ASSUME EndRequest(r)
      PROVE  IdentityTyped'
  <2>1. Continue(r, None) /\ keys' = keys
    BY <1>4 DEF EndRequest
  <2>2. RequestsTyped'
    BY <1>1, <2>1, TurnTyped DEF IdentityTyped
  <2>3. KeysTyped'
    BY <1>1, <2>1, KeysStay DEF IdentityTyped
  <2>. QED
    BY <1>1, <2>2, <2>3 DEF IdentityTyped
<1>. QED
  BY <1>2, <1>3, <1>4

\* Keys are created with the account they name, and revoked.
LEMMA KeysIssued ==
  ASSUME IdentityTyped, NEW r \in Requests,
         \/ \E role \in GivenRoles \intersect Roles, scopes \in {{"*"}, {"api_keys:write"}},
               account \in Accounts \union {None}, expires \in {None, clock} :
              CreateKey(r, [role |-> role, scopes |-> scopes], account, expires)
         \/ EnsureServiceAccount(r) \/ InsertKey(r)
         \/ \E i \in DOMAIN keys : RevokeKey(r, i)
  PROVE  IdentityTyped'
<1>1. ASSUME NEW role \in GivenRoles \intersect Roles, NEW scopes \in {{"*"}, {"api_keys:write"}},
             NEW account \in Accounts \union {None}, NEW expires \in {None, clock},
             CreateKey(r, [role |-> role, scopes |-> scopes], account, expires)
      PROVE  IdentityTyped'
  <2>1. /\ UNCHANGED <<clock, setting, keys, accounts, users, members, sessions>>
        /\ Continue(r, [at |-> FirstStep(account), actor |-> [role |-> role, scopes |-> scopes],
                        account |-> account, expires |-> expires])
    BY <1>1 DEF CreateKey, directory
  <2>2. PICK actor, q : /\ actor = [role |-> role, scopes |-> scopes]
                        /\ q = [at |-> FirstStep(account), actor |-> actor,
                                account |-> account, expires |-> expires]
    OBVIOUS
  <2>3. actor \in Actor /\ actor.role \in GivenRoles
    BY <2>2 DEF Actor
  <2>4. q \in Creating /\ q.actor = actor /\ q.account = account
        /\ (q.at = "account" => account # None) /\ (q.at = "key" => account = None)
    BY <2>2, <2>3 DEF Creating, FirstStep, IdentityTyped
  <2>5. RequestTyped(q)'
    BY <2>3, <2>4 DEF RequestTyped
  <2>6. RequestsTyped'
    BY <2>1, <2>2, <2>5, TurnTyped DEF IdentityTyped
  <2>. QED
    BY <2>1, <2>6, KeysStay, PeopleStay DEF IdentityTyped
<1>2. ASSUME EnsureServiceAccount(r)
      PROVE  IdentityTyped'
  <2>1. /\ UNCHANGED <<clock, setting, keys, users, members, sessions>>
        /\ requests[r] # None /\ requests[r].at = "account"
        /\ accounts' = [accounts EXCEPT ![requests[r].account] = requests[r].actor.role]
        /\ Continue(r, [requests[r] EXCEPT !.at = "key"])
    BY <1>2 DEF EnsureServiceAccount, Pending
  <2>2. PICK p, q : p = requests[r] /\ q = [p EXCEPT !.at = "key"]
    OBVIOUS
  <2>3. p \in Creating /\ p.account \in Accounts /\ p.actor.role \in Roles \intersect GivenRoles
    <3>1. p \in Creating /\ p.actor.role \in GivenRoles /\ p.account # None
      BY <2>1, <2>2, KeyInHand
    <3>2. p.actor \in Actor /\ p.account \in Accounts \union {None}
      BY <3>1 DEF Creating
    <3>. QED
      BY <3>1, <3>2 DEF Actor
  <2>4. q \in Creating /\ q.at = "key" /\ q.actor = p.actor /\ q.account = p.account
    BY <2>2, <2>3 DEF Creating
  <2>5. /\ accounts' \in [Accounts -> (Roles \intersect GivenRoles) \union {None}]
        /\ \A a \in Accounts : accounts'[a] = IF a = p.account THEN p.actor.role ELSE accounts[a]
    <3>1. accounts \in [Accounts -> (Roles \intersect GivenRoles) \union {None}]
      BY DEF IdentityTyped, PeopleTyped
    <3>2. PICK role, a : role = p.actor.role /\ a = p.account /\ accounts' = [accounts EXCEPT ![a] = role]
      BY <2>1, <2>2
    <3>. QED
      BY <2>3, <3>1, <3>2
  <2>6. p.actor.role # None
    BY <2>3, IdentityAssumption
  <2>7. /\ accounts'[p.account] # None
        /\ \A a \in Accounts : accounts[a] # None => accounts'[a] # None
    BY <2>3, <2>5, <2>6
  <2>8. RequestTyped(q)'
    BY <2>3, <2>4, <2>7 DEF RequestTyped
  <2>9. RequestsTyped'
    BY <2>1, <2>2, <2>7, <2>8, TurnTyped DEF IdentityTyped
  <2>10. KeysTyped'
    BY <2>1, <2>7, KeysStay DEF IdentityTyped
  <2>11. PeopleTyped'
    BY <2>1, <2>5 DEF IdentityTyped, PeopleTyped, MembersAreUsers
  <2>. QED
    BY <2>1, <2>9, <2>10, <2>11 DEF IdentityTyped
<1>3. ASSUME InsertKey(r)
      PROVE  IdentityTyped'
  <2>1. PICK q, row : /\ q = requests[r] /\ q # None /\ q.at = "key"
                      /\ row = [secret |-> Len(keys) + 1, actor |-> q.actor,
                                account |-> q.account, active |-> TRUE,
                                expires |-> q.expires, used |-> None]
                      /\ keys' = Append(keys, row)
    BY <1>3 DEF InsertKey, Pending
  <2>2. /\ UNCHANGED <<clock, setting, accounts, users, members, sessions>> /\ Continue(r, None)
    BY <1>3 DEF InsertKey, directory
  <2>3. q \in Creating /\ (q.account # None => accounts[q.account] # None)
    BY <2>1, KeyInHand
  <2>4. keys \in Seq(KeyRow) /\ Len(keys) \in Nat /\ DOMAIN keys = 1 .. Len(keys)
    BY DEF IdentityTyped, KeysTyped
  <2>5. row \in KeyRow /\ row.secret = Len(keys) + 1 /\ row.account = q.account /\ row.used = None
    BY <2>1, <2>3, <2>4 DEF Creating, KeyRow
  <2>6. /\ keys' \in Seq(KeyRow) /\ DOMAIN keys' = 1 .. Len(keys) + 1 /\ keys' # <<>>
        /\ \A i \in DOMAIN keys : keys'[i] = keys[i]
        /\ keys'[Len(keys) + 1] = row
    BY <2>1, <2>4, <2>5
  <2>7. KeysTyped'
    <3>1. \A i \in DOMAIN keys' :
            (i > 1 => keys'[i].secret = i) /\ keys'[i].used \in 0 .. clock' \union {None}
      BY <2>2, <2>4, <2>5, <2>6 DEF IdentityTyped, KeysTyped
    <3>2. setting' # None => keys' # <<>> /\ keys'[1].secret = setting'
      <4>1. setting # None => 1 \in DOMAIN keys /\ keys[1].secret = setting
        BY <2>4 DEF IdentityTyped, KeysTyped
      <4>. QED
        BY <2>2, <2>6, <4>1
    <3>3. KeysHaveAccounts'
      <4>1. ASSUME NEW i \in DOMAIN keys', keys'[i].account # None
            PROVE  accounts'[keys'[i].account] # None
        BY <2>2, <2>3, <2>4, <2>5, <2>6, <4>1 DEF IdentityTyped, KeysTyped, KeysHaveAccounts
      <4>. QED
        BY <4>1 DEF KeysHaveAccounts
    <3>. QED
      BY <2>6, <3>1, <3>2, <3>3 DEF KeysTyped
  <2>8. DOMAIN keys \subseteq DOMAIN keys'
    BY <2>4, <2>6
  <2>9. RequestsTyped'
    BY <2>2, <2>8, TurnTyped DEF IdentityTyped
  <2>. QED
    BY <2>2, <2>7, <2>9, PeopleStay DEF IdentityTyped
<1>4. ASSUME NEW i \in DOMAIN keys, RevokeKey(r, i)
      PROVE  IdentityTyped'
  <2>1. PICK row : /\ row = [keys[i] EXCEPT !.active = FALSE]
                   /\ keys' = [keys EXCEPT ![i] = row]
    BY <1>4 DEF RevokeKey
  <2>2. /\ UNCHANGED <<clock, setting, accounts, users, members, sessions>> /\ Continue(r, None)
    BY <1>4 DEF RevokeKey, directory
  <2>3. keys[i] \in KeyRow
    BY DEF IdentityTyped, KeysTyped
  <2>4. row \in KeyRow /\ row.secret = keys[i].secret /\ row.account = keys[i].account
        /\ row.used = keys[i].used
    BY <2>1, <2>3 DEF KeyRow
  <2>5. KeysTyped' /\ DOMAIN keys' = DOMAIN keys
    BY <2>1, <2>2, <2>4, KeyChanged DEF IdentityTyped
  <2>6. RequestsTyped'
    BY <2>2, <2>5, TurnTyped DEF IdentityTyped
  <2>. QED
    BY <2>2, <2>5, <2>6, PeopleStay DEF IdentityTyped
<1>. QED
  BY <1>1, <1>2, <1>3, <1>4

Sessions == [user : users, status : {"active", "revoked"}]

\* A user that joins the project is there, and so is the user of a session.
LEMMA JoinedTyped ==
  ASSUME PeopleTyped, NEW email \in users, NEW role, JoinProject(email, role),
         UNCHANGED <<accounts, users, sessions>>
  PROVE  PeopleTyped'
<1>1. PICK S : members \in [Emails -> S]
  BY DEF PeopleTyped
<1>2. /\ members' \in [Emails -> S \union {role}]
      /\ \A e \in Emails : members'[e] = IF e = email THEN role ELSE members[e]
  BY <1>1 DEF JoinProject
<1>. QED
  BY <1>2 DEF PeopleTyped, MembersAreUsers

LEMMA PeopleServed ==
  ASSUME IdentityTyped, NEW r \in Requests,
         \/ AddMembership(r)
         \/ \E email \in Emails :
              \/ \E role \in GivenRoles : CreateUser(r, email, role)
              \/ \E role \in GivenRoles \intersect Roles : SetMembership(r, email, role)
              \/ CreateSession(r, email)
         \/ \E i \in DOMAIN sessions : RevokeSession(r, i)
  PROVE  IdentityTyped'
<1>1. /\ UNCHANGED <<clock, setting, keys, accounts>> /\ KeysTyped'
  <2>1. UNCHANGED <<clock, setting, keys, accounts>>
    BY DEF AddMembership, CreateUser, SetMembership, CreateSession, RevokeSession
  <2>. QED
    BY <2>1, KeysStay DEF IdentityTyped
<1>2. PeopleTyped
  BY DEF IdentityTyped
<1>3. ASSUME PeopleTyped', users \subseteq users', Continue(r, None)
      PROVE  IdentityTyped'
  <2>1. RequestsTyped'
    BY <1>1, <1>3, TurnTyped DEF IdentityTyped
  <2>. QED
    BY <1>1, <1>3, <2>1 DEF IdentityTyped
<1>4. ASSUME AddMembership(r)
      PROVE  IdentityTyped'
  <2>1. requests[r] \in [at : {"member"}, email : users, role : Roles]
    BY <1>4, KeyInHand DEF AddMembership, Pending
  <2>2. requests[r].email \in users
    BY <2>1
  <2>3. PeopleTyped'
    BY <1>2, <1>4, <2>2, JoinedTyped DEF AddMembership
  <2>. QED
    BY <1>3, <1>4, <2>3 DEF AddMembership
<1>5. ASSUME NEW email \in Emails, NEW role \in GivenRoles, CreateUser(r, email, role)
      PROVE  IdentityTyped'
  <2>1. PICK q : /\ q = IF role \in Roles THEN [at |-> "member", email |-> email, role |-> role]
                        ELSE None
                 /\ Continue(r, q)
    BY <1>5 DEF CreateUser
  <2>2. users' = users \union {email} /\ UNCHANGED <<accounts, members, sessions>>
    BY <1>5 DEF CreateUser
  <2>3. q # None => RequestTyped(q)'
    BY <2>1, <2>2 DEF RequestTyped
  <2>4. RequestsTyped'
    BY <1>1, <2>1, <2>2, <2>3, TurnTyped DEF IdentityTyped
  <2>5. PeopleTyped'
    <3>1. Sessions \subseteq Sessions'
      BY <2>2 DEF Sessions
    <3>2. sessions \in Seq(Sessions)
      BY <1>2 DEF PeopleTyped, Sessions
    <3>3. sessions' \in Seq(Sessions')
      BY <2>2, <3>1, <3>2
    <3>. QED
      BY <1>2, <2>2, <3>3 DEF PeopleTyped, MembersAreUsers, Sessions
  <2>. QED
    BY <1>1, <2>4, <2>5 DEF IdentityTyped
<1>6. ASSUME NEW email \in Emails, NEW role, SetMembership(r, email, role)
      PROVE  IdentityTyped'
  <2>1. PeopleTyped'
    BY <1>2, <1>6, JoinedTyped DEF SetMembership, KnownUser
  <2>. QED
    BY <1>3, <1>6, <2>1 DEF SetMembership
<1>7. ASSUME NEW email \in Emails, CreateSession(r, email)
      PROVE  IdentityTyped'
  <2>1. PICK row : /\ row = [user |-> email, status |-> "active"]
                   /\ sessions' = Append(sessions, row)
    BY <1>7 DEF CreateSession
  <2>2. row \in Sessions /\ sessions \in Seq(Sessions)
    BY <1>2, <1>7, <2>1 DEF CreateSession, KnownUser, PeopleTyped, Sessions
  <2>3. sessions' \in Seq(Sessions) /\ UNCHANGED <<accounts, users, members>>
    BY <1>7, <2>1, <2>2 DEF CreateSession
  <2>4. \A i \in DOMAIN sessions' : sessions'[i] \in Sessions
    BY <2>3
  <2>5. PeopleTyped'
    BY <1>2, <2>3, <2>4 DEF PeopleTyped, MembersAreUsers, Sessions
  <2>. QED
    BY <1>3, <1>7, <2>3, <2>5 DEF CreateSession
<1>8. ASSUME NEW i \in DOMAIN sessions, RevokeSession(r, i)
      PROVE  IdentityTyped'
  <2>1. PICK row : /\ row = [sessions[i] EXCEPT !.status = "revoked"]
                   /\ sessions' = [sessions EXCEPT ![i] = row]
    BY <1>8 DEF RevokeSession
  <2>7. sessions \in Seq(Sessions)
    BY <1>2 DEF PeopleTyped, Sessions
  <2>2. sessions \in Seq(Sessions) /\ sessions[i] \in Sessions
    BY <1>8, <2>7
  <2>3. row \in Sessions
    BY <2>1, <2>2 DEF Sessions
  <2>4. sessions' \in Seq(Sessions) /\ UNCHANGED <<accounts, users, members>>
    BY <1>8, <2>1, <2>2, <2>3 DEF RevokeSession
  <2>5. \A j \in DOMAIN sessions' : sessions'[j] \in Sessions
    BY <2>4
  <2>6. PeopleTyped'
    BY <1>2, <2>4, <2>5 DEF PeopleTyped, MembersAreUsers, Sessions
  <2>. QED
    BY <1>3, <1>8, <2>4, <2>6 DEF RevokeSession
<1>. QED
  BY <1>4, <1>5, <1>6, <1>7, <1>8

\* Invites are no one's but their request's.
LEMMA InvitesServed ==
  ASSUME IdentityTyped, MailTables, NEW r \in Requests,
         \/ \E email \in Emails, suppress, smtp \in BOOLEAN : CreateInvite(r, email, suppress, smtp)
         \/ SendMail(r) \/ MarkDelivery(r)
  PROVE  IdentityTyped'
<1>1. /\ UNCHANGED <<clock, setting, keys, accounts, users, members, sessions>>
  BY DEF CreateInvite, SendMail, MarkDelivery
<1>2. PICK q : Continue(r, q) /\ (q # None => q \in Mailings)
  <2>1. ASSUME NEW email \in Emails, NEW suppress \in BOOLEAN, NEW smtp \in BOOLEAN,
               CreateInvite(r, email, suppress, smtp)
        PROVE  \E q : Continue(r, q) /\ (q # None => q \in Mailings)
    <3>1. Len(invites') \in Nat
      <4>1. PICK row : invites' = Append(invites, row)
        BY <2>1 DEF CreateInvite
      <4>. QED
        BY <4>1 DEF MailTables
    <3>. QED
      BY <2>1, <3>1 DEF CreateInvite, Mailings
  <2>2. ASSUME SendMail(r)
        PROVE  \E q : Continue(r, q) /\ (q # None => q \in Mailings)
    <3>1. requests[r] \in Mailings
      BY <2>2, KeyInHand DEF SendMail, Pending
    <3>2. PICK outcome \in {"sent", "failed"} : Continue(r, [requests[r] EXCEPT !.at = outcome])
      BY <2>2 DEF SendMail
    <3>3. [requests[r] EXCEPT !.at = outcome] \in Mailings
      BY <3>1 DEF Mailings
    <3>. QED
      BY <3>2, <3>3
  <2>. QED
    BY <2>1, <2>2 DEF MarkDelivery
<1>3. q # None => RequestTyped(q)'
  BY <1>2 DEF RequestTyped
<1>4. RequestsTyped'
  BY <1>1, <1>2, <1>3, TurnTyped DEF IdentityTyped
<1>. QED
  BY <1>1, <1>4, KeysStay, PeopleStay DEF IdentityTyped

\* However the requests that create keys, accounts, users and sessions interleave and
\* wherever they stop: a key that names a service account finds it, a member and the
\* user of a session are there, and the rows are of their types (storage.py,
\* ensure_service_account and create_api_key, create_auth_user and upsert_membership).
THEOREM Directory == IdentitySpec => [](IdentityTypeOK /\ KeysHaveAccounts /\ MembersAreUsers)
<1>1. IdentityInit => IdentityTyped
  <2>. SUFFICES ASSUME IdentityInit PROVE IdentityTyped
    OBVIOUS
  <2>1. /\ keys \in Seq(KeyRow) /\ DOMAIN keys = {} /\ sessions \in Seq(Sessions)
        /\ DOMAIN sessions = {}
    BY DEF IdentityInit
  <2>2. RequestsTyped
    <3>1. requests \in [Requests -> {None}] /\ \A r \in Requests : requests[r] = None
      BY DEF IdentityInit
    <3>. QED
      BY <3>1 DEF RequestsTyped
  <2>3. KeysTyped
    BY <2>1 DEF KeysTyped, KeysHaveAccounts, IdentityInit
  <2>4. PeopleTyped
    <3>1. members \in [Emails -> {None}] /\ \A e \in Emails : members[e] = None
      BY DEF IdentityInit
    <3>. QED
      BY <2>1, <3>1 DEF PeopleTyped, MembersAreUsers, IdentityInit, Sessions
  <2>. QED
    BY <2>2, <2>3, <2>4 DEF IdentityTyped, IdentityInit
<1>2. MailTables /\ IdentityTyped /\ [IdentityNext]_identityVars => IdentityTyped'
  <2>1. ASSUME IdentityTyped, UNCHANGED identityVars
        PROVE  IdentityTyped'
    <3>1. UNCHANGED <<clock, setting, requests, keys, accounts, users, members, sessions>>
      BY <2>1 DEF identityVars
    <3>2. RequestsTyped'
      BY <2>1, <3>1 DEF IdentityTyped, RequestsTyped, RequestTyped
    <3>. QED
      BY <2>1, <3>1, <3>2, KeysStay, PeopleStay DEF IdentityTyped
  <2>2. ASSUME MailTables, IdentityTyped, NEW r \in Requests, Serve(r)
        PROVE  IdentityTyped'
    BY <2>2, AdmittedTyped, KeysIssued, PeopleServed, InvitesServed DEF Serve
  <2>. QED
    BY <2>1, <2>2, ProcessTyped DEF IdentityNext
<1>3. MailTables /\ IdentityTyped => IdentityTypeOK /\ KeysHaveAccounts /\ MembersAreUsers
  <2>. SUFFICES ASSUME MailTables, IdentityTyped
                PROVE  IdentityTypeOK /\ KeysHaveAccounts /\ MembersAreUsers
    OBVIOUS
  <2>1. \A i \in DOMAIN keys : keys[i].actor.role \in Roles
    <3>1. ASSUME NEW i \in DOMAIN keys
          PROVE  keys[i].actor.role \in Roles
      <4>1. keys[i] \in KeyRow
        BY DEF IdentityTyped, KeysTyped
      <4>2. keys[i].actor \in Actor
        BY <4>1 DEF KeyRow
      <4>. QED
        BY <4>2 DEF Actor
    <3>. QED
      BY <3>1
  <2>2. \A a \in Accounts : accounts[a] \in Roles \union {None}
    BY DEF IdentityTyped, PeopleTyped
  <2>3. Len(mails) = Len(invites)
    BY DEF MailTables
  <2>. QED
    BY <2>1, <2>2, <2>3 DEF IdentityTypeOK, IdentityTyped, KeysTyped, PeopleTyped
<1>4. IdentitySpec => []MailTables
  BY MailsAlways, PTL
<1>. QED
  BY <1>1, <1>2, <1>3, <1>4, PTL DEF IdentitySpec

-----------------------------------------------------------------------------
(* VersionRegistry: its rows and tags, secrets, and the numbers of versions. *)

\* Rows are only appended, and before there is an entity there is nothing else.
Shape ==
  /\ \E S : versions \in Seq(S)
  /\ \E S : tagEvents \in Seq(S)
  /\ \E S : committers \in [Committers -> S]
  /\ entity = None =>
       /\ tag = None /\ tagEvents = <<>> /\ head = None
       /\ \A c \in Committers : committers[c] = None

\* A request's turn is that of no other.
LEMMA TurnTaken ==
  ASSUME Shape, NEW c \in Committers, NEW q, Turn(c, q)
  PROVE  /\ \E S : committers' \in [Committers -> S]
         /\ \A d \in Committers : committers'[d] = IF d = c THEN q ELSE committers[d]
<1>1. PICK S : committers \in [Committers -> S]
  BY DEF Shape
<1>2. /\ committers' \in [Committers -> S \union {q}]
      /\ \A d \in Committers : committers'[d] = IF d = c THEN q ELSE committers[d]
  BY <1>1 DEF Turn
<1>. QED
  BY <1>2

\* One step of a request after its entity was created.
RequestStep(c) ==
  \/ \E content \in Contents :
       \/ \E parent \in Commits \union {None}, asked \in Tagged :
            PreparePrompt(c, content, parent, asked)
       \/ \E asked \in Tagged : PrepareConfig(c, content, asked)
       \/ PrepareJudge(c, content)
       \/ ReadSecretRow(c, content)
  \/ InsertPromptVersion(c) \/ InsertConfigVersion(c)
  \/ InsertJudgeVersion(c) \/ RotateSecret(c) \/ AuditVersion(c)
  \/ DecryptSecret(c) \/ LogAccess(c) \/ AnswerPlaintext(c)
  \/ CommitStops(c)

LEMMA AppendedRow ==
  ASSUME NEW S, NEW rows \in Seq(S), NEW row
  PROVE  /\ Append(rows, row) \in Seq(S \union {row})
         /\ Len(rows) \in Nat
         /\ Len(Append(rows, row)) = Len(rows) + 1
         /\ DOMAIN rows = 1 .. Len(rows)
         /\ DOMAIN Append(rows, row) = 1 .. (Len(rows) + 1)
         /\ \A i \in 1 .. Len(rows) : Append(rows, row)[i] = rows[i]
         /\ Append(rows, row)[Len(rows) + 1] = row
<1>1. rows \in Seq(S \union {row})
  OBVIOUS
<1>. QED
  BY <1>1

\* A request steps only when there is an entity, and leaves it as it is; each table
\* keeps its rows or gets one more.
LEMMA Steps ==
  ASSUME Shape, NEW c \in Committers, RequestStep(c)
  PROVE  /\ entity # None /\ entity' = entity
         /\ \E q : Turn(c, q)
         /\ versions' = versions \/ \E row : versions' = Append(versions, row)
         /\ tagEvents' = tagEvents \/ \E row : tagEvents' = Append(tagEvents, row)
<1>1. ASSUME NEW kind, Start(c, kind) PROVE entity # None
  BY <1>1 DEF Start
<1>2. ASSUME NEW at, Busy(c, at) PROVE entity # None
  BY <1>2 DEF Busy, Shape
<1>3. CASE \E content \in Contents :
             \/ \E parent \in Commits \union {None}, asked \in Tagged :
                  PreparePrompt(c, content, parent, asked)
             \/ \E asked \in Tagged : PrepareConfig(c, content, asked)
             \/ PrepareJudge(c, content)
             \/ ReadSecretRow(c, content)
  BY <1>1, <1>3, Zenon DEF PreparePrompt, PrepareConfig, PrepareJudge, ReadSecretRow
<1>4. CASE InsertPromptVersion(c)
  BY <1>2, <1>4 DEF InsertPromptVersion, Refused, Stored, StoreVersion, MoveTag
<1>5. CASE InsertConfigVersion(c)
  BY <1>2, <1>5 DEF InsertConfigVersion, Stored, StoreVersion, MoveTag
<1>6. CASE InsertJudgeVersion(c)
  BY <1>2, <1>6 DEF InsertJudgeVersion, Refused, Stored, StoreVersion
<1>7. CASE RotateSecret(c)
  BY <1>2, <1>7 DEF RotateSecret, Refused, Stored, StoreVersion
<1>8. CASE AuditVersion(c) \/ LogAccess(c) \/ AnswerPlaintext(c)
  BY <1>2, <1>8 DEF AuditVersion, LogAccess, AnswerPlaintext
<1>9. CASE DecryptSecret(c)
  BY <1>1, <1>9 DEF DecryptSecret
<1>10. CASE CommitStops(c)
  BY <1>10 DEF CommitStops, Shape
<1>. QED
  BY <1>3, <1>4, <1>5, <1>6, <1>7, <1>8, <1>9, <1>10 DEF RequestStep

LEMMA ShapeKept ==
  ASSUME Shape, NEW c \in Committers, RequestStep(c)
  PROVE  Shape'
<1>1. entity # None /\ entity' = entity
  BY Steps
<1>2. \E S : committers' \in [Committers -> S]
  BY Steps, TurnTaken
<1>3. \E S : versions' \in Seq(S)
  <2>1. PICK S : versions \in Seq(S)
    BY DEF Shape
  <2>2. CASE versions' = versions
    BY <2>1, <2>2
  <2>3. CASE \E row : versions' = Append(versions, row)
    <3>1. PICK row : versions' = Append(versions, row)
      BY <2>3
    <3>2. versions' \in Seq(S \union {row})
      BY <2>1, <3>1, AppendedRow
    <3>. QED
      BY <3>2
  <2>. QED
    BY <2>2, <2>3, Steps
<1>4. \E S : tagEvents' \in Seq(S)
  <2>1. PICK S : tagEvents \in Seq(S)
    BY DEF Shape
  <2>2. CASE tagEvents' = tagEvents
    BY <2>1, <2>2
  <2>3. CASE \E row : tagEvents' = Append(tagEvents, row)
    <3>1. PICK row : tagEvents' = Append(tagEvents, row)
      BY <2>3
    <3>2. tagEvents' \in Seq(S \union {row})
      BY <2>1, <3>1, AppendedRow
    <3>. QED
      BY <3>2
  <2>. QED
    BY <2>2, <2>3, Steps
<1>. QED
  BY <1>1, <1>2, <1>3, <1>4 DEF Shape

\* A row of its own for each way to create the entity.
LEMMA Creation ==
  ASSUME Shape, RegistryNext, ~\E c \in Committers : RequestStep(c)
  PROVE  /\ entity = None /\ entity' # None /\ entity'.kind \in EntityKinds
         /\ UNCHANGED <<tagEvents, committers, accessLog, answers>>
         /\ tag' = entity'.tag
         /\ \/ entity'.kind # "secret" /\ UNCHANGED <<versions, head>>
            \/ \E content \in Contents :
                 /\ entity' = [kind |-> "secret", tag |-> None]
                 /\ versions' = <<[number |-> 1, commit |-> None, content |-> content]>>
                 /\ head' = [number |-> 1, content |-> content]
<1>1. CASE \E initial \in {None, <<"elsewhere">>} :
             CreatePrompt(initial) \/ CreateAgentConfig(initial)
  BY <1>1, EntityAssumption DEF CreatePrompt, CreateAgentConfig, EntityKinds
<1>2. CASE CreateJudge
  BY <1>2, EntityAssumption DEF CreateJudge, Shape, EntityKinds
<1>3. CASE \E content \in Contents : CreateSecret(content)
  BY <1>3, EntityAssumption DEF CreateSecret, Shape, EntityKinds
<1>. QED
  BY <1>1, <1>2, <1>3, Zenon DEF RegistryNext, RequestStep

LEMMA ShapeAlways == RegistrySpec => []Shape
<1>1. RegistryInit => Shape
  <2>. SUFFICES ASSUME RegistryInit PROVE Shape
    OBVIOUS
  <2>1. versions \in Seq({}) /\ tagEvents \in Seq({}) /\ committers \in [Committers -> {None}]
    BY DEF RegistryInit
  <2>. QED
    BY <2>1 DEF RegistryInit, Shape
<1>2. ASSUME Shape, [RegistryNext]_registryVars PROVE Shape'
  <2>1. CASE UNCHANGED registryVars
    BY <1>2, <2>1 DEF Shape, registryVars
  <2>2. CASE \E c \in Committers : RequestStep(c)
    BY <1>2, <2>2, ShapeKept
  <2>3. CASE RegistryNext /\ ~\E c \in Committers : RequestStep(c)
    <3>1. entity' # None /\ UNCHANGED <<tagEvents, committers>>
      BY <1>2, <2>3, Creation
    <3>2. \E S : versions' \in Seq(S)
      <4>1. CASE versions' = versions
        BY <1>2, <4>1 DEF Shape
      <4>2. CASE \E row : versions' = <<row>>
        <5>1. PICK row : versions' = <<row>>
          BY <4>2
        <5>2. versions' \in Seq({row})
          BY <5>1
        <5>. QED
          BY <5>2
      <4>. QED
        BY <1>2, <2>3, <4>1, <4>2, Creation
    <3>. QED
      BY <1>2, <3>1, <3>2 DEF Shape
  <2>. QED
    BY <1>2, <2>1, <2>2, <2>3
<1>. QED
  BY <1>1, <1>2, PTL DEF RegistrySpec

-----------------------------------------------------------------------------
(* The tag and its history. *)

\* What a request does to the tag, and to the versions.
LEMMA TagSteps ==
  ASSUME Shape, NEW c \in Committers, RequestStep(c)
  PROVE  \/ UNCHANGED <<tag, tagEvents>>
         \/ \E q, row : /\ tag' = q.commit
                        /\ tagEvents' = Append(tagEvents, [previous |-> tag, new |-> q.commit])
                        /\ versions' = Append(versions, row)
                        /\ row.commit = q.commit
<1>1. ASSUME NEW q, StoreVersion(q), MoveTag(q)
      PROVE  \/ UNCHANGED <<tag, tagEvents>>
             \/ \E row : /\ tag' = q.commit
                         /\ tagEvents' = Append(tagEvents, [previous |-> tag, new |-> q.commit])
                         /\ versions' = Append(versions, row)
                         /\ row.commit = q.commit
  BY <1>1 DEF StoreVersion, MoveTag, PreviousCommit
<1>2. CASE InsertPromptVersion(c)
  BY <1>1, <1>2 DEF InsertPromptVersion, Refused
<1>3. CASE InsertConfigVersion(c)
  BY <1>1, <1>3 DEF InsertConfigVersion
<1>4. CASE ~InsertPromptVersion(c) /\ ~InsertConfigVersion(c)
  BY <1>4, Zenon DEF RequestStep, PreparePrompt, PrepareConfig, PrepareJudge, ReadSecretRow,
     InsertJudgeVersion, RotateSecret, Refused, AuditVersion, DecryptSecret, LogAccess,
     AnswerPlaintext, CommitStops
<1>. QED
  BY <1>2, <1>3, <1>4

\* A commit stays one, and that of a row just stored is one.
LEMMA CommitsKept ==
  ASSUME Shape, versions' = versions \/ \E row : versions' = Append(versions, row)
  PROVE  /\ Commits \subseteq Commits'
         /\ \A row : versions' = Append(versions, row) => row.commit \in Commits'
<1>1. PICK S : versions \in Seq(S)
  BY DEF Shape
<1>2. CASE versions' = versions
  <2>1. \A row : Append(versions, row) # versions
    <3>. SUFFICES ASSUME NEW row PROVE Append(versions, row) # versions
      OBVIOUS
    <3>. QED
      BY <1>1, AppendedRow
  <2>. QED
    BY <1>2, <2>1 DEF Commits
<1>3. ASSUME NEW row, versions' = Append(versions, row)
      PROVE  Commits \subseteq Commits' /\ row.commit \in Commits'
  <2>1. /\ DOMAIN versions = 1 .. Len(versions) /\ Len(versions) \in Nat
        /\ DOMAIN versions' = 1 .. (Len(versions) + 1)
        /\ \A i \in 1 .. Len(versions) : versions'[i] = versions[i]
        /\ versions'[Len(versions) + 1] = row
    BY <1>1, <1>3, AppendedRow
  <2>2. DOMAIN versions \subseteq DOMAIN versions' /\ Len(versions) + 1 \in DOMAIN versions'
    BY <2>1
  <2>. QED
    BY <2>1, <2>2 DEF Commits
<1>. QED
  BY <1>2, <1>3

LEMMA TagStep ==
  ASSUME Shape, TagHistoryIsAChain, [RegistryNext]_registryVars
  PROVE  TagHistoryIsAChain'
<1>1. CASE UNCHANGED registryVars
  BY <1>1 DEF TagHistoryIsAChain, Commits, registryVars
<1>2. CASE RegistryNext /\ ~\E c \in Committers : RequestStep(c)
  <2>1. tagEvents' = <<>> /\ tag' = entity'.tag
    BY <1>2, Creation DEF Shape
  <2>. QED
    BY <2>1 DEF TagHistoryIsAChain
<1>3. ASSUME NEW c \in Committers, RequestStep(c) PROVE TagHistoryIsAChain'
  <2>1. entity # None /\ entity' = entity /\ Commits \subseteq Commits'
    BY <1>3, Steps, CommitsKept
  <2>2. CASE UNCHANGED <<tag, tagEvents>>
    BY <2>1, <2>2 DEF TagHistoryIsAChain
  <2>3. CASE \E q, row : /\ tag' = q.commit
                         /\ tagEvents' = Append(tagEvents, [previous |-> tag, new |-> q.commit])
                         /\ versions' = Append(versions, row)
                         /\ row.commit = q.commit
    <3>1. PICK q, row : /\ tag' = q.commit
                        /\ tagEvents' = Append(tagEvents, [previous |-> tag, new |-> q.commit])
                        /\ versions' = Append(versions, row)
                        /\ row.commit = q.commit
      BY <2>3
    <3>. DEFINE n == Len(tagEvents)
                moved == [previous |-> tag, new |-> q.commit]
    <3>2. tag' \in Commits'
      BY <3>1, CommitsKept
    <3>3. PICK S : tagEvents \in Seq(S)
      BY DEF Shape
    <3>4. /\ n \in Nat /\ DOMAIN tagEvents = 1 .. n
          /\ Len(tagEvents') = n + 1 /\ DOMAIN tagEvents' = 1 .. (n + 1)
          /\ \A i \in 1 .. n : tagEvents'[i] = tagEvents[i]
          /\ tagEvents'[n + 1] = moved
      BY <3>1, <3>3, AppendedRow
    <3>5. tag = IF n + 1 = 1 THEN entity.tag ELSE tagEvents[n + 1 - 1].new
      BY <2>1 DEF TagHistoryIsAChain
    <3>6. tag' = IF n + 2 = 1 THEN entity'.tag ELSE tagEvents'[n + 2 - 1].new
      BY <3>1, <3>4
    <3>7. ASSUME NEW i \in 1 .. n
          PROVE  /\ tagEvents'[i].previous = IF i = 1 THEN entity'.tag
                                             ELSE tagEvents'[i - 1].new
                 /\ tagEvents'[i].new \in Commits'
      <4>1. /\ tagEvents[i].previous = IF i = 1 THEN entity.tag ELSE tagEvents[i - 1].new
            /\ tagEvents[i].new \in Commits
        BY <3>4 DEF TagHistoryIsAChain
      <4>2. i # 1 => i - 1 \in 1 .. n
        BY <3>4
      <4>. QED
        BY <2>1, <3>4, <4>1, <4>2
    <3>8. /\ tagEvents'[n + 1].previous = IF n + 1 = 1 THEN entity'.tag
                                          ELSE tagEvents'[n + 1 - 1].new
          /\ tagEvents'[n + 1].new \in Commits'
      <4>1. tagEvents'[n + 1].previous = tag /\ tagEvents'[n + 1].new = tag'
        BY <3>1, <3>4
      <4>2. CASE n = 0
        BY <2>1, <3>2, <3>5, <4>1, <4>2
      <4>3. CASE n # 0
        <5>1. n + 1 - 1 = n /\ n \in 1 .. n /\ n + 1 # 1
          BY <3>4, <4>3
        <5>2. tag = tagEvents'[n + 1 - 1].new
          BY <3>4, <3>5, <5>1
        <5>. QED
          BY <3>2, <4>1, <5>1, <5>2
      <4>. QED
        BY <4>2, <4>3
    <3>9. \A i \in DOMAIN tagEvents' :
            /\ tagEvents'[i].previous = IF i = 1 THEN entity'.tag ELSE tagEvents'[i - 1].new
            /\ tagEvents'[i].new \in Commits'
      BY <3>4, <3>7, <3>8
    <3>10. tag' = IF Len(tagEvents') + 1 = 1 THEN entity'.tag
                  ELSE tagEvents'[Len(tagEvents') + 1 - 1].new
      BY <3>4, <3>6
    <3>. QED
      BY <3>9, <3>10 DEF TagHistoryIsAChain
  <2>. QED
    BY <1>3, <2>2, <2>3, TagSteps
<1>. QED
  BY <1>1, <1>2, <1>3

\* The events of a tag lead, one to the next and through stored versions, from the
\* tag the prompt or agent config was created with to the one it has, for any
\* number of commits in flight: the previous commit is read under the write lock.
LEMMA TagHistory == RegistrySpec => []TagHistoryIsAChain
<1>1. RegistryInit => TagHistoryIsAChain
  BY DEF RegistryInit, TagHistoryIsAChain
<1>2. Shape /\ TagHistoryIsAChain /\ [RegistryNext]_registryVars => TagHistoryIsAChain'
  BY TagStep
<1>. QED
  BY <1>1, <1>2, ShapeAlways, PTL DEF RegistrySpec

-----------------------------------------------------------------------------
(* The secret. *)

Secret == entity # None /\ entity.kind = "secret"

\* A rotation in flight has at most the next number, and its INSERT is refused if
\* another has taken that.
SecretSound ==
  /\ head # None => Secret
  /\ Secret => /\ Len(versions) >= 1
               /\ \A i \in DOMAIN versions : versions[i].number = i
               /\ head.number = Len(versions)
               /\ head.content = versions[Len(versions)].content
               /\ \A c \in Committers : Busy(c, "insert") =>
                    committers[c].number \in 1 .. (Len(versions) + 1)

\* What a request does to the row and the versions of a secret.
LEMMA SecretRequests ==
  ASSUME Shape, SecretSound, NEW c \in Committers, RequestStep(c)
  PROVE  /\ ~Secret => head' = head
         /\ Secret =>
              \/ /\ UNCHANGED <<versions, head>>
                 /\ Busy(c, "insert")' => committers'[c].number = head.number + 1
              \/ /\ Busy(c, "insert") /\ committers[c].number \notin Numbers
                 /\ ~Busy(c, "insert")'
                 /\ head' = [number |-> committers[c].number, content |-> committers[c].content]
                 /\ \E commit : versions' = Append(versions,
                      [number |-> committers[c].number, commit |-> commit,
                       content |-> committers[c].content])
<1>. DEFINE Unchanged == UNCHANGED <<versions, head>>
<1>1. \A q : Turn(c, q) => committers'[c] = q
  BY TurnTaken
<1>2. entity # None
  BY Steps
<1>3. CASE \E content \in Contents :
             \/ \E parent \in Commits \union {None}, asked \in Tagged :
                  PreparePrompt(c, content, parent, asked)
             \/ \E asked \in Tagged : PrepareConfig(c, content, asked)
             \/ PrepareJudge(c, content)
  BY <1>3 DEF PreparePrompt, PrepareConfig, PrepareJudge, Start, Secret
<1>4. CASE \E content \in Contents : ReadSecretRow(c, content)
  <2>1. PICK content \in Contents : ReadSecretRow(c, content)
    BY <1>4
  <2>2. committers'[c] = Draft(head.number + 1, None, content, None)
    BY <1>1, <2>1 DEF ReadSecretRow
  <2>. QED
    BY <2>1, <2>2 DEF ReadSecretRow, Draft
<1>5. CASE InsertPromptVersion(c) \/ InsertConfigVersion(c) \/ InsertJudgeVersion(c)
  BY <1>5 DEF InsertPromptVersion, InsertConfigVersion, InsertJudgeVersion, Refused, Secret
<1>6. CASE RotateSecret(c)
  <2>1. Secret /\ Busy(c, "insert")
    BY <1>2, <1>6 DEF RotateSecret, Secret
  <2>2. CASE NumberTaken(committers[c].number)
    <3>1. Turn(c, None) /\ Unchanged
      BY <1>6, <2>2 DEF RotateSecret, Refused
    <3>. QED
      BY <1>1, <2>1, <3>1 DEF Busy
  <2>3. CASE ~NumberTaken(committers[c].number)
    <3>1. /\ Stored(c) /\ StoreVersion(committers[c])
          /\ head' = [number |-> committers[c].number, content |-> committers[c].content]
      BY <1>6, <2>3 DEF RotateSecret
    <3>2. ~Busy(c, "insert")'
      BY <1>1, <3>1 DEF Busy, Stored
    <3>. QED
      BY <2>1, <2>3, <3>1, <3>2 DEF StoreVersion, NumberTaken
  <2>. QED
    BY <2>2, <2>3
<1>7. CASE AuditVersion(c) \/ AnswerPlaintext(c) \/ CommitStops(c)
  <2>1. Turn(c, None) /\ Unchanged
    BY <1>7 DEF AuditVersion, AnswerPlaintext, CommitStops
  <2>. QED
    BY <1>1, <2>1 DEF Busy
<1>8. CASE DecryptSecret(c) \/ LogAccess(c)
  <2>1. /\ Turn(c, [at |-> "decrypted"]) \/ Turn(c, [at |-> "logged"])
        /\ Unchanged
    BY <1>8 DEF DecryptSecret, LogAccess
  <2>. QED
    BY <1>1, <2>1 DEF Busy
<1>. QED
  BY <1>3, <1>4, <1>5, <1>6, <1>7, <1>8 DEF RequestStep

LEMMA SecretStep ==
  ASSUME Shape, SecretSound, [RegistryNext]_registryVars
  PROVE  SecretSound'
<1>1. CASE UNCHANGED registryVars
  BY <1>1 DEF SecretSound, Secret, Busy, registryVars
<1>2. CASE RegistryNext /\ ~\E c \in Committers : RequestStep(c)
  <2>1. /\ entity = None /\ entity' # None /\ head = None
        /\ \A c \in Committers : committers'[c] = None
    BY <1>2, Creation DEF Shape
  <2>2. CASE entity'.kind # "secret" /\ head' = head
    BY <2>1, <2>2 DEF SecretSound, Secret
  <2>3. ASSUME NEW content,
               entity' = [kind |-> "secret", tag |-> None],
               versions' = <<[number |-> 1, commit |-> None, content |-> content]>>,
               head' = [number |-> 1, content |-> content]
        PROVE  SecretSound'
    BY <2>1, <2>3 DEF SecretSound, Secret, Busy
  <2>. QED
    BY <1>2, <2>2, <2>3, Creation
<1>3. ASSUME NEW c \in Committers, RequestStep(c) PROVE SecretSound'
  <2>. DEFINE n == Len(versions)
  <2>1. entity # None /\ Secret' = Secret
    BY <1>3, Steps DEF Secret
  <2>2. CASE ~Secret
    BY <1>3, <2>1, <2>2, SecretRequests DEF SecretSound
  <2>3. \A d \in Committers \ {c} : committers'[d] = committers[d]
    BY <1>3, Steps, TurnTaken
  <2>4. PICK S : versions \in Seq(S)
    BY DEF Shape
  <2>5. n \in Nat /\ DOMAIN versions = 1 .. n
    BY <2>4
  <2>6. CASE Secret /\ UNCHANGED <<versions, head>>
                    /\ (Busy(c, "insert")' => committers'[c].number = head.number + 1)
    <3>1. \A d \in Committers : Busy(d, "insert")' => committers'[d].number \in 1 .. (n + 1)
      BY <2>3, <2>5, <2>6 DEF SecretSound, Busy
    <3>. QED
      BY <2>1, <2>6, <3>1 DEF SecretSound
  <2>7. ASSUME Secret, Busy(c, "insert"), committers[c].number \notin Numbers,
               ~Busy(c, "insert")',
               head' = [number |-> committers[c].number, content |-> committers[c].content],
               NEW commit,
               versions' = Append(versions, [number |-> committers[c].number,
                                             commit |-> commit,
                                             content |-> committers[c].content])
        PROVE  SecretSound'
    <3>1. \A i \in 1 .. n : i \in Numbers
      BY <2>5, <2>7 DEF SecretSound, Numbers
    <3>2. committers[c].number = n + 1
      <4>1. committers[c].number \in 1 .. (n + 1)
        BY <2>7 DEF SecretSound
      <4>. QED
        BY <2>5, <2>7, <3>1, <4>1
    <3>3. /\ Len(versions') = n + 1 /\ DOMAIN versions' = 1 .. (n + 1)
          /\ \A i \in 1 .. n : versions'[i] = versions[i]
          /\ versions'[n + 1] = [number |-> committers[c].number, commit |-> commit,
                                 content |-> committers[c].content]
      BY <2>4, <2>7, AppendedRow
    <3>4. \A i \in DOMAIN versions' : versions'[i].number = i
      BY <2>5, <2>7, <3>2, <3>3 DEF SecretSound
    <3>5. \A d \in Committers : Busy(d, "insert")' =>
             committers'[d].number \in 1 .. (n + 1 + 1)
      BY <2>3, <2>5, <2>7 DEF SecretSound, Busy
    <3>6. head'.number = n + 1 /\ head'.content = versions'[n + 1].content /\ n + 1 >= 1
      BY <2>5, <2>7, <3>2, <3>3
    <3>. QED
      BY <2>1, <2>7, <3>3, <3>4, <3>5, <3>6 DEF SecretSound
  <2>. QED
    BY <1>3, <2>2, <2>6, <2>7, SecretRequests
<1>. QED
  BY <1>1, <1>2, <1>3

\* The readers whose access is logged and who are not answered yet.
Logged == {c \in Committers : Busy(c, "logged")}

\* Each answer given, and each that may still be, has its entry.
ReadsSound ==
  /\ accessLog \in Nat /\ answers \in Nat
  /\ answers + Cardinality(Logged) <= accessLog

\* What a request does to the log of accesses.
LEMMA ReadSteps ==
  ASSUME Shape, NEW c \in Committers, RequestStep(c)
  PROVE  \/ /\ UNCHANGED <<accessLog, answers>>
            /\ Logged' \subseteq Logged
         \/ /\ accessLog' = accessLog + 1 /\ answers' = answers
            /\ Logged' \subseteq Logged \union {c}
         \/ /\ accessLog' = accessLog /\ answers' = answers + 1
            /\ c \in Logged /\ Logged' \subseteq Logged \ {c}
<1>1. /\ \A q : Turn(c, q) => committers'[c] = q
      /\ \A d \in Committers \ {c} : committers'[d] = committers[d]
  BY Steps, TurnTaken
<1>2. Logged' \subseteq Logged \union {c}
  BY <1>1 DEF Logged, Busy
<1>3. ASSUME ~Busy(c, "logged")' PROVE Logged' \subseteq Logged \ {c}
  BY <1>1, <1>3 DEF Logged, Busy
<1>4. CASE \E content \in Contents :
             \/ \E parent \in Commits \union {None}, asked \in Tagged :
                  PreparePrompt(c, content, parent, asked)
             \/ \E asked \in Tagged : PrepareConfig(c, content, asked)
             \/ PrepareJudge(c, content)
             \/ ReadSecretRow(c, content)
  <2>1. UNCHANGED <<accessLog, answers>>
        /\ \E number, commit, content, asked : Turn(c, Draft(number, commit, content, asked))
    BY <1>4, Zenon DEF PreparePrompt, PrepareConfig, PrepareJudge, ReadSecretRow
  <2>2. ~Busy(c, "logged")'
    BY <1>1, <2>1 DEF Busy, Draft
  <2>. QED
    BY <1>3, <2>1, <2>2
<1>5. CASE InsertPromptVersion(c) \/ InsertConfigVersion(c) \/ InsertJudgeVersion(c)
           \/ RotateSecret(c)
  <2>1. UNCHANGED <<accessLog, answers>> /\ (Turn(c, None) \/ Stored(c))
    BY <1>5 DEF InsertPromptVersion, InsertConfigVersion, InsertJudgeVersion, RotateSecret,
       Refused
  <2>2. ~Busy(c, "logged")'
    BY <1>1, <2>1 DEF Busy, Stored
  <2>. QED
    BY <1>3, <2>1, <2>2
<1>6. CASE AuditVersion(c) \/ CommitStops(c) \/ DecryptSecret(c)
  <2>1. UNCHANGED <<accessLog, answers>> /\ (Turn(c, None) \/ Turn(c, [at |-> "decrypted"]))
    BY <1>6 DEF AuditVersion, CommitStops, DecryptSecret
  <2>2. ~Busy(c, "logged")'
    BY <1>1, <2>1 DEF Busy
  <2>. QED
    BY <1>3, <2>1, <2>2
<1>7. CASE LogAccess(c)
  BY <1>2, <1>7 DEF LogAccess, LogRead
<1>8. CASE AnswerPlaintext(c)
  <2>1. c \in Logged /\ Turn(c, None) /\ accessLog' = accessLog /\ answers' = answers + 1
    BY <1>8 DEF AnswerPlaintext, Logged
  <2>2. ~Busy(c, "logged")'
    BY <1>1, <2>1 DEF Busy
  <2>. QED
    BY <1>3, <2>1, <2>2
<1>. QED
  BY <1>4, <1>5, <1>6, <1>7, <1>8 DEF RequestStep

LEMMA ReadsStep ==
  ASSUME IsFiniteSet(Committers), Shape, ReadsSound, [RegistryNext]_registryVars
  PROVE  ReadsSound'
<1>1. IsFiniteSet(Logged) /\ Cardinality(Logged) \in Nat
  BY FS_Subset, FS_CardinalityType DEF Logged
<1>2. ASSUME Logged' \subseteq Logged, UNCHANGED <<accessLog, answers>>
      PROVE  ReadsSound'
  <2>1. Cardinality(Logged') <= Cardinality(Logged) /\ Cardinality(Logged') \in Nat
    BY <1>1, <1>2, FS_Subset, FS_CardinalityType
  <2>. QED
    BY <1>1, <1>2, <2>1 DEF ReadsSound
<1>3. CASE UNCHANGED registryVars
  BY <1>2, <1>3 DEF registryVars, Logged, Busy
<1>4. CASE RegistryNext /\ ~\E c \in Committers : RequestStep(c)
  <2>1. UNCHANGED <<committers, accessLog, answers>>
    BY <1>4, Creation
  <2>. QED
    BY <1>2, <2>1 DEF Logged, Busy
<1>5. ASSUME NEW c \in Committers, RequestStep(c) PROVE ReadsSound'
  <2>1. CASE accessLog' = accessLog + 1 /\ answers' = answers
             /\ Logged' \subseteq Logged \union {c}
    <3>1. /\ IsFiniteSet(Logged \union {c})
          /\ Cardinality(Logged \union {c}) <= Cardinality(Logged) + 1
      BY <1>1, FS_AddElement
    <3>2. /\ Cardinality(Logged') <= Cardinality(Logged \union {c})
          /\ Cardinality(Logged') \in Nat /\ Cardinality(Logged \union {c}) \in Nat
      BY <2>1, <3>1, FS_Subset, FS_CardinalityType
    <3>. QED
      BY <1>1, <2>1, <3>1, <3>2 DEF ReadsSound
  <2>2. CASE accessLog' = accessLog /\ answers' = answers + 1
             /\ c \in Logged /\ Logged' \subseteq Logged \ {c}
    <3>1. /\ IsFiniteSet(Logged \ {c})
          /\ Cardinality(Logged \ {c}) = Cardinality(Logged) - 1
      BY <1>1, <2>2, FS_RemoveElement
    <3>2. Cardinality(Logged') <= Cardinality(Logged \ {c}) /\ Cardinality(Logged') \in Nat
      BY <2>2, <3>1, FS_Subset, FS_CardinalityType
    <3>. QED
      BY <1>1, <2>2, <3>1, <3>2 DEF ReadsSound
  <2>. QED
    BY <1>2, <1>5, <2>1, <2>2, ReadSteps
<1>. QED
  BY <1>3, <1>4, <1>5

\* For any finite number of requests: the row of a secret holds the value of its
\* newest version, whatever rotations raced, and no plaintext is handed out that
\* the access log does not tell of, wherever a reader stops.
THEOREM Secrets ==
  ASSUME IsFiniteSet(Committers)
  PROVE  RegistrySpec => []SecretsAccounted
<1>1. RegistryInit => SecretSound /\ ReadsSound
  <2>. SUFFICES ASSUME RegistryInit PROVE SecretSound /\ ReadsSound
    OBVIOUS
  <2>1. Logged = {}
    BY DEF RegistryInit, Logged, Busy
  <2>2. ReadsSound
    BY <2>1, FS_EmptySet DEF RegistryInit, ReadsSound
  <2>. QED
    BY <2>2 DEF RegistryInit, SecretSound, Secret
<1>2. Shape /\ SecretSound /\ ReadsSound /\ [RegistryNext]_registryVars
      => SecretSound' /\ ReadsSound'
  BY SecretStep, ReadsStep
<1>3. SecretSound /\ ReadsSound => SecretsAccounted
  <2>. SUFFICES ASSUME SecretSound, ReadsSound PROVE SecretsAccounted
    OBVIOUS
  <2>1. SecretIsNewest
    BY DEF SecretSound, SecretIsNewest, Last
  <2>2. EveryReadIsLogged
    <3>1. Cardinality(Logged) \in Nat
      BY FS_Subset, FS_CardinalityType DEF Logged
    <3>. QED
      BY <3>1 DEF ReadsSound, EveryReadIsLogged
  <2>. QED
    BY <2>1, <2>2 DEF SecretsAccounted
<1>. QED
  BY <1>1, <1>2, <1>3, ShapeAlways, PTL DEF RegistrySpec

-----------------------------------------------------------------------------
(* The numbers and the commits. *)

\* Of judges and agent configs: the stored numbers have no gap, and a commit in
\* flight has one of them, or the next.
Gapless ==
  \E m \in Nat :
    /\ Numbers = 1 .. m
    /\ \A c \in Committers : Busy(c, "insert") => committers[c].number \in 1 .. (m + 1)

CommitsDiffer == IsFiniteSet(Commits) /\ Cardinality(Commits) = Len(versions)
RowsNumbered == \A i \in DOMAIN versions : versions[i].number = i

Identified ==
  IF entity = None THEN versions = <<>>
  ELSE /\ entity.kind \in EntityKinds
       /\ entity.kind = "prompt" => CommitsDiffer
       /\ entity.kind \in {"judge", "agent_config"} => Gapless
       /\ entity.kind = "judge" => RowsNumbered

LEMMA LatestOfGapless ==
  ASSUME NEW m \in Nat, Numbers = 1 .. m
  PROVE  Latest = m
<1>. DEFINE S == Numbers \union {0}
<1>1. m \in S /\ \A y \in S : m >= y
  OBVIOUS
<1>2. \A x \in S : (\A y \in S : x >= y) => x = m
  BY <1>1
<1>3. (CHOOSE x \in S : \A y \in S : x >= y) = m
  BY <1>1, <1>2
<1>. QED
  BY <1>3 DEF Latest, Max

\* What a request does to the versions.
LEMMA VersionSteps ==
  ASSUME Shape, NEW c \in Committers, RequestStep(c)
  PROVE  \/ /\ versions' = versions
            /\ Busy(c, "insert")' => \/ entity.kind \in {"prompt", "secret"}
                                     \/ committers'[c].number = Latest + 1
         \/ /\ Busy(c, "insert") /\ ~Busy(c, "insert")'
            /\ \E row : /\ versions' = Append(versions, row)
                        /\ row.number = committers[c].number
                        /\ entity.kind = "prompt" => row.commit \notin Commits
                        /\ entity.kind = "judge" => row.number \notin Numbers
<1>1. \A q : Turn(c, q) => committers'[c] = q
  BY TurnTaken
<1>2. ASSUME NEW q, Turn(c, q), q = None \/ q.at # "insert" PROVE ~Busy(c, "insert")'
  BY <1>1, <1>2 DEF Busy
<1>3. ASSUME NEW q, StoreVersion(q)
      PROVE  \E row : /\ versions' = Append(versions, row)
                      /\ row.number = q.number /\ row.commit = q.commit
  BY <1>3 DEF StoreVersion
<1>4. ASSUME Stored(c) PROVE ~Busy(c, "insert")'
  BY <1>2, <1>4 DEF Stored
<1>5. CASE \E content \in Contents :
             \/ \E parent \in Commits \union {None}, asked \in Tagged :
                  PreparePrompt(c, content, parent, asked)
             \/ ReadSecretRow(c, content)
  BY <1>5 DEF PreparePrompt, ReadSecretRow, Start
<1>6. CASE \E content \in Contents :
             \/ \E asked \in Tagged : PrepareConfig(c, content, asked)
             \/ PrepareJudge(c, content)
  <2>1. versions' = versions
        /\ \E commit, content, asked : Turn(c, Draft(Latest + 1, commit, content, asked))
    BY <1>6, Zenon DEF PrepareConfig, PrepareJudge
  <2>. QED
    BY <1>1, <2>1 DEF Draft
<1>7. CASE InsertPromptVersion(c)
  <2>1. CASE CommitTaken(committers[c].commit)
    BY <1>2, <1>7, <2>1 DEF InsertPromptVersion, Refused
  <2>2. CASE ~CommitTaken(committers[c].commit)
    <3>1. /\ Busy(c, "insert") /\ Stored(c) /\ StoreVersion(committers[c])
          /\ entity.kind = "prompt"
      BY <1>7, <2>2 DEF InsertPromptVersion
    <3>. QED
      BY <1>3, <1>4, <2>2, <3>1 DEF CommitTaken
  <2>. QED
    BY <2>1, <2>2
<1>8. CASE InsertConfigVersion(c)
  <2>1. /\ Busy(c, "insert") /\ Stored(c) /\ StoreVersion(committers[c])
        /\ entity.kind = "agent_config"
    BY <1>8 DEF InsertConfigVersion
  <2>. QED
    BY <1>3, <1>4, <2>1
<1>9. CASE InsertJudgeVersion(c) \/ RotateSecret(c)
  <2>1. CASE NumberTaken(committers[c].number)
    BY <1>2, <1>9, <2>1 DEF InsertJudgeVersion, RotateSecret, Refused
  <2>2. CASE ~NumberTaken(committers[c].number)
    <3>1. /\ Busy(c, "insert") /\ Stored(c) /\ StoreVersion(committers[c])
          /\ entity.kind \in {"judge", "secret"}
      BY <1>9, <2>2 DEF InsertJudgeVersion, RotateSecret
    <3>. QED
      BY <1>3, <1>4, <2>2, <3>1 DEF NumberTaken
  <2>. QED
    BY <2>1, <2>2
<1>10. CASE AuditVersion(c) \/ LogAccess(c) \/ AnswerPlaintext(c) \/ DecryptSecret(c)
            \/ CommitStops(c)
  <2>1. /\ versions' = versions
        /\ Turn(c, None) \/ Turn(c, [at |-> "decrypted"]) \/ Turn(c, [at |-> "logged"])
    BY <1>10 DEF AuditVersion, LogAccess, AnswerPlaintext, DecryptSecret, CommitStops
  <2>. QED
    BY <1>2, <2>1
<1>. QED
  BY <1>5, <1>6, <1>7, <1>8, <1>9, <1>10 DEF RequestStep

LEMMA IdentifiedStep ==
  ASSUME Shape, Identified, [RegistryNext]_registryVars
  PROVE  Identified'
<1>1. CASE UNCHANGED registryVars
  BY <1>1 DEF Identified, CommitsDiffer, Gapless, RowsNumbered, Commits, Numbers, Busy,
     registryVars
<1>2. CASE RegistryNext /\ ~\E c \in Committers : RequestStep(c)
  <2>1. /\ entity = None /\ entity' # None /\ entity'.kind \in EntityKinds
        /\ committers' = committers /\ versions = <<>>
        /\ versions' = versions \/ entity'.kind = "secret"
    BY <1>2, Creation DEF Identified
  <2>2. ASSUME versions' = <<>> PROVE CommitsDiffer' /\ Gapless' /\ RowsNumbered'
    <3>1. Commits' = {} /\ Numbers' = 1 .. 0
      BY <2>2 DEF Commits, Numbers
    <3>2. \A c \in Committers : ~Busy(c, "insert")'
      BY <2>1 DEF Shape, Busy
    <3>3. Len(versions') = 0
      BY <2>2
    <3>. QED
      BY <2>2, <3>1, <3>2, <3>3, FS_EmptySet DEF CommitsDiffer, Gapless, RowsNumbered
  <2>. QED
    BY <2>1, <2>2 DEF Identified, EntityKinds
<1>3. ASSUME NEW c \in Committers, RequestStep(c) PROVE Identified'
  <2>. DEFINE n == Len(versions)
  <2>1. entity # None /\ entity' = entity
    BY <1>3, Steps
  <2>2. \A d \in Committers \ {c} : committers'[d] = committers[d]
    BY <1>3, Steps, TurnTaken
  <2>3. CASE /\ versions' = versions
             /\ Busy(c, "insert")' => \/ entity.kind \in {"prompt", "secret"}
                                      \/ committers'[c].number = Latest + 1
    <3>1. UNCHANGED <<Commits, Numbers>>
      BY <2>3 DEF Commits, Numbers
    <3>2. ASSUME entity.kind \in {"judge", "agent_config"} PROVE Gapless'
      <4>1. PICK m \in Nat :
              /\ Numbers = 1 .. m
              /\ \A d \in Committers : Busy(d, "insert") => committers[d].number \in 1 .. (m + 1)
        BY <2>1, <3>2 DEF Identified, Gapless
      <4>2. Busy(c, "insert")' => committers'[c].number = m + 1
        BY <2>3, <3>2, <4>1, LatestOfGapless
      <4>3. \A d \in Committers : Busy(d, "insert")' => committers'[d].number \in 1 .. (m + 1)
        BY <2>2, <4>1, <4>2 DEF Busy
      <4>. QED
        BY <3>1, <4>1, <4>3 DEF Gapless
    <3>. QED
      BY <2>1, <2>3, <3>1, <3>2 DEF Identified, CommitsDiffer, RowsNumbered
  <2>4. ASSUME Busy(c, "insert"), ~Busy(c, "insert")',
               NEW row, versions' = Append(versions, row),
               row.number = committers[c].number,
               entity.kind = "prompt" => row.commit \notin Commits,
               entity.kind = "judge" => row.number \notin Numbers
        PROVE  Identified'
    <3>1. PICK S : versions \in Seq(S)
      BY DEF Shape
    <3>2. /\ n \in Nat /\ Len(versions') = n + 1
          /\ DOMAIN versions = 1 .. n /\ DOMAIN versions' = 1 .. (n + 1)
          /\ \A i \in 1 .. n : versions'[i] = versions[i]
          /\ versions'[n + 1] = row
      BY <2>4, <3>1, AppendedRow
    <3>3. Commits' = Commits \union {row.commit} /\ Numbers' = Numbers \union {row.number}
      BY <3>2 DEF Commits, Numbers
    <3>4. ASSUME entity.kind = "prompt" PROVE CommitsDiffer'
      <4>1. CommitsDiffer /\ row.commit \notin Commits
        BY <2>1, <2>4, <3>4 DEF Identified
      <4>2. IsFiniteSet(Commits \union {row.commit})
            /\ Cardinality(Commits \union {row.commit}) = Cardinality(Commits) + 1
        BY <4>1, FS_AddElement DEF CommitsDiffer
      <4>. QED
        BY <3>2, <3>3, <4>1, <4>2 DEF CommitsDiffer
    <3>5. ASSUME entity.kind \in {"judge", "agent_config"}
          PROVE  Gapless' /\ (entity.kind = "judge" => RowsNumbered')
      <4>1. PICK m \in Nat :
              /\ Numbers = 1 .. m
              /\ \A d \in Committers : Busy(d, "insert") => committers[d].number \in 1 .. (m + 1)
        BY <2>1, <3>5 DEF Identified, Gapless
      <4>2. row.number \in 1 .. (m + 1)
        BY <2>4, <4>1
      <4>3. PICK k \in {m, m + 1} : Numbers' = 1 .. k
        BY <3>3, <4>1, <4>2
      <4>4. \A d \in Committers : Busy(d, "insert")' => committers'[d].number \in 1 .. (k + 1)
        BY <2>2, <2>4, <4>1 DEF Busy
      <4>5. Gapless'
        BY <4>3, <4>4 DEF Gapless
      <4>6. ASSUME entity.kind = "judge" PROVE RowsNumbered'
        <5>1. RowsNumbered
          BY <2>1, <4>6 DEF Identified
        <5>2. \A i \in 1 .. n : i \in 1 .. m
          BY <3>2, <4>1, <5>1 DEF Numbers, RowsNumbered
        <5>3. \A i \in 1 .. m : i \in 1 .. n
          BY <3>2, <4>1, <5>1 DEF Numbers, RowsNumbered
        <5>4. m = n
          <6>1. PICK len \in Nat : len = n
            BY <3>2
          <6>2. ~(len > m)
            BY ONLY <5>2, <6>1, m \in Nat
          <6>3. ~(m > len)
            BY ONLY <5>3, <6>1, m \in Nat
          <6>. QED
            BY ONLY <6>1, <6>2, <6>3, m \in Nat
        <5>5. row.number = n + 1
          BY <2>4, <4>1, <4>2, <4>6, <5>4
        <5>. QED
          BY <3>2, <5>1, <5>5 DEF RowsNumbered
      <4>. QED
        BY <4>5, <4>6
    <3>. QED
      BY <2>1, <3>4, <3>5 DEF Identified
  <2>. QED
    BY <1>3, <2>3, <2>4, VersionSteps
<1>. QED
  BY <1>1, <1>2, <1>3

\* However many commits interleave: the versions of judges and secrets are told by
\* gapless numbers and those of prompts by their commit, and the numbers of agent
\* configs, which two racing commits may share, have no gap.
LEMMA Versions == RegistrySpec => []VersionsIdentified
<1>1. RegistryInit => Identified /\ SecretSound
  BY DEF RegistryInit, Identified, SecretSound, Secret
<1>2. Shape /\ Identified /\ SecretSound /\ [RegistryNext]_registryVars
      => Identified' /\ SecretSound'
  BY IdentifiedStep, SecretStep
<1>3. Identified /\ SecretSound => VersionsIdentified
  <2>. SUFFICES ASSUME Identified, SecretSound, entity # None
                PROVE  CASE entity.kind \in {"judge", "secret"} -> RowsNumbered
                         [] entity.kind = "prompt" -> Cardinality(Commits) = Len(versions)
                         [] entity.kind = "agent_config" -> Numbers = 1 .. Cardinality(Numbers)
    BY DEF VersionsIdentified, RowsNumbered
  <2>1. entity.kind = "secret" => RowsNumbered
    BY DEF SecretSound, Secret, RowsNumbered
  <2>2. ASSUME Gapless PROVE Numbers = 1 .. Cardinality(Numbers)
    <3>1. PICK m \in Nat : Numbers = 1 .. m
      BY <2>2 DEF Gapless
    <3>2. Cardinality(1 .. m) = m
      BY FS_Interval
    <3>. QED
      BY <3>1, <3>2
  <2>. QED
    BY <2>1, <2>2 DEF Identified, CommitsDiffer, EntityKinds
<1>. QED
  BY <1>1, <1>2, <1>3, ShapeAlways, PTL DEF RegistrySpec

\* However many commits and moves of tags interleave, what the tables say of versions
\* and tags identifies the versions and traces each tag back to where it began.
THEOREM History == RegistrySpec => []HistoryAccounted
<1>1. VersionsIdentified /\ TagHistoryIsAChain => HistoryAccounted
  BY DEF HistoryAccounted
<1>. QED
  BY <1>1, Versions, TagHistory, PTL

-----------------------------------------------------------------------------
(* JudgeLifecycle: reviews, promotions and thresholds. *)

\* The requests that review, those that promote, and those that do neither.
Patches ==
  [at : {"patch"}, quiet : {FALSE}, value : {None}, task : Nat, read : TaskRows,
   crossed : BOOLEAN, status : Statuses \union {None},
   decision : Decisions \union {None, "kept"}]

Promotions ==
  [at : {"labels", "open", "activate"}, quiet : BOOLEAN, value : {None},
   policy : Policies, clear : BOOLEAN]

Ordinary(q) ==
  \/ q = None
  \/ \E value :
       q \in [at : {"version", "review", "disable", "raise", "applied"}, quiet : {FALSE},
             value : {value}]

\* The tables, and the requests in flight, are of their types.
JudgeRows ==
  /\ scores \in Seq({"succeeded", "invalid_output"})
  /\ tasks \in Seq(TaskRows) /\ given \in Seq(TaskRows) /\ Len(given) = Len(tasks)
  /\ reviewed \in BOOLEAN
  /\ \E S : agents \in [Agents -> S]
  /\ \A a \in Agents : Ordinary(agents[a]) \/ agents[a] \in Patches \/ agents[a] \in Promotions

\* A patch holds the task as it is, or knows, or the task does, that it does not.
PatchSound(q) ==
  /\ q.task \in DOMAIN tasks
  /\ q.crossed \/ q.task \in crossed \/ q.read = tasks[q.task]

RulingsSound ==
  /\ DecisionsStick
  /\ \A a \in Agents : AgentAt(a, "patch") => PatchSound(agents[a])

AcceptedRow == Accepted(tasks)
ClosedRows == \A i \in DOMAIN tasks : tasks[i].status # "open"

Promoting(a) == agents[a] # None /\ agents[a].at \in {"labels", "open", "activate"}

\* What a promotion has found out so far was so, and is so if nothing disturbed it.
PromotionSound(q) ==
  /\ lenient \/ q.policy = Strict
  /\ q.quiet /\ q.clear => WellScored(scores)
  /\ q.at \in {"open", "activate"} /\ q.clear /\ q.policy = Strict =>
       reviewed /\ (q.quiet => AcceptedRow)
  /\ q.at = "activate" => q.clear /\ (q.quiet /\ q.policy = Strict => ClosedRows)

AcceptedReviewed == AcceptedRow => reviewed
InFlight == \A a \in Agents : Promoting(a) => PromotionSound(agents[a])
PromotionsSound == AcceptedReviewed /\ ActiveWasReviewed /\ InFlight

-----------------------------------------------------------------------------
(* What the requests do to each other's records. *)

LEMMA Kinds ==
  ASSUME NEW q
  PROVE  /\ q \in Patches => /\ ~Ordinary(q) \/ q = None
                             /\ q \notin Promotions /\ q.at = "patch" /\ ~q.quiet
                             /\ q.task \in Nat /\ q.read \in TaskRows
                             /\ q.crossed \in BOOLEAN
                             /\ q.status \in Statuses \union {None}
                             /\ q.decision \in Decisions \union {None, "kept"}
         /\ q \in Promotions => /\ ~Ordinary(q) \/ q = None
                                /\ q.at \in {"labels", "open", "activate"}
                                /\ q.quiet \in BOOLEAN /\ q.clear \in BOOLEAN
                                /\ q.policy \in Policies
         /\ Ordinary(q) /\ q # None =>
              ~q.quiet /\ q.at \in {"version", "review", "disable", "raise", "applied"}
<1>1. ASSUME Ordinary(q), q # None
      PROVE  ~q.quiet /\ q.at \in {"version", "review", "disable", "raise", "applied"}
  BY <1>1 DEF Ordinary
<1>. QED
  BY <1>1 DEF Patches, Promotions

\* A promotion that is told of a change has the rest of its record left.
LEMMA Loudened ==
  ASSUME NEW q \in Promotions
  PROVE  /\ [q EXCEPT !.quiet = FALSE] \in Promotions
         /\ ~[q EXCEPT !.quiet = FALSE].quiet
         /\ [q EXCEPT !.quiet = FALSE].at = q.at
         /\ [q EXCEPT !.quiet = FALSE].clear = q.clear
         /\ [q EXCEPT !.quiet = FALSE].policy = q.policy
  BY DEF Promotions

\* A request's turn is that of no other.
LEMMA Gone ==
  ASSUME JudgeRows, NEW a \in Agents, NEW q, Goes(a, q),
         Ordinary(q) \/ q \in Patches \/ q \in Promotions
  PROVE  /\ \E S : agents' \in [Agents -> S]
         /\ \A b \in Agents : agents'[b] = IF b = a THEN q ELSE agents[b]
         /\ \A b \in Agents : Ordinary(agents'[b]) \/ agents'[b] \in Patches
                              \/ agents'[b] \in Promotions
<1>1. PICK S : agents \in [Agents -> S]
  BY DEF JudgeRows
<1>2. /\ agents' \in [Agents -> S \union {q}]
      /\ \A b \in Agents : agents'[b] = IF b = a THEN q ELSE agents[b]
  BY <1>1 DEF Goes
<1>. QED
  BY <1>2 DEF JudgeRows

\* Only the promotions are told of it.
LEMMA Disturbed ==
  ASSUME JudgeRows, NEW a \in Agents, NEW q, Disturbing(a, q), Ordinary(q)
  PROVE  /\ \E S : agents' \in [Agents -> S]
         /\ \A b \in Agents :
              \/ b = a /\ agents'[b] = q
              \/ agents'[b] = agents[b] /\ ~(agents[b] # None /\ agents[b].quiet)
              \/ agents[b] \in Promotions /\ agents'[b] = [agents[b] EXCEPT !.quiet = FALSE]
         /\ \A b \in Agents : Ordinary(agents'[b]) \/ agents'[b] \in Patches
                              \/ agents'[b] \in Promotions
<1>1. agents' = [b \in Agents |-> agents'[b]]
  BY DEF Disturbing
<1>2. agents' \in [Agents -> {agents'[b] : b \in Agents}]
  BY <1>1
<1>3. ASSUME NEW b \in Agents, b # a
      PROVE  \/ agents'[b] = agents[b] /\ ~(agents[b] # None /\ agents[b].quiet)
             \/ agents[b] \in Promotions /\ agents'[b] = [agents[b] EXCEPT !.quiet = FALSE]
  <2>1. agents'[b] = IF agents[b] # None /\ agents[b].quiet
                     THEN [agents[b] EXCEPT !.quiet = FALSE] ELSE agents[b]
    BY <1>3 DEF Disturbing
  <2>2. Ordinary(agents[b]) /\ agents[b] # None => ~agents[b].quiet
    BY Kinds
  <2>3. agents[b] \in Patches => ~agents[b].quiet
    BY DEF Patches
  <2>. QED
    BY <2>1, <2>2, <2>3 DEF JudgeRows
<1>4. agents'[a] = q
  BY DEF Disturbing
<1>. QED
  BY <1>2, <1>3, <1>4, Loudened DEF JudgeRows

-----------------------------------------------------------------------------
(* The actions, by what they do to the tables the invariants speak of. *)

Evidence == <<scores, tasks, given, crossed, reviewed, lenient>>

\* A step that changes no evidence, nor makes the judge active.
Aside(a) ==
  /\ UNCHANGED Evidence
  /\ judge' = "active" => judge' = judge
  /\ \/ agents' = agents
     \/ \E q : Ordinary(q) /\ (Goes(a, q) \/ Disturbing(a, q))

\* A new task.
Adds(a) ==
  /\ \E task \in TaskRows : AddTask(task)
  /\ UNCHANGED <<judge, scores, crossed, lenient>>
  /\ Disturbing(a, None)

\* A score more, or less.
Scores(a) ==
  /\ \/ \E status \in {"succeeded", "invalid_output"} : scores' = Append(scores, status)
     \/ \E i \in DOMAIN scores : scores' = RemoveAt(scores, i)
  /\ UNCHANGED <<judge, tasks, given, crossed, reviewed, lenient>>
  /\ Disturbing(a, None)

LEMMA JudgeSteps ==
  ASSUME JudgeRows, JudgeNext
  PROVE  \E a \in Agents :
           \/ Aside(a) \/ Adds(a) \/ Scores(a)
           \/ \E i \in DOMAIN tasks, status \in Statuses \union {None},
                 decision \in Decisions \union {None, "kept"} : StartPatch(a, i, status, decision)
           \/ WritePatch(a)
           \/ \E policy \in Policies : StartPromotion(a, policy)
           \/ ReadLabels(a) \/ ReadOpen(a) \/ Activate(a)
<1>. USE DEF evidence, feed, Evidence
<1>1. \A value : \A step \in {"version", "review", "disable", "raise", "applied"} :
        Ordinary(Request(step, value))
  <2>. SUFFICES ASSUME NEW step \in {"version", "review", "disable", "raise", "applied"},
                       NEW value
                PROVE  Request(step, value) \in
                         [at : {"version", "review", "disable", "raise", "applied"},
                          quiet : {FALSE}, value : {value}]
    BY DEF Ordinary
  <2>. QED
    BY DEF Request
<1>2. Ordinary(None)
  BY DEF Ordinary
<1>3. ASSUME NEW a \in Agents, NEW threshold,
             CreateDraft(a, threshold) \/ CommitVersion(a, threshold)
      PROVE  Aside(a)
  BY <1>1, <1>2, <1>3 DEF CreateDraft, CommitVersion, Aside
<1>4. ASSUME NEW a \in Agents, CommitFirst(a)
      PROVE  Aside(a)
  BY <1>1, <1>4 DEF CommitFirst, Aside
<1>5. ASSUME NEW a \in Agents,
             CreateDraftReview(a) \/ \E task \in TaskRows : CreateReview(a, task)
      PROVE  Adds(a)
  <2>1. OpenTask \in TaskRows
    BY JudgeAssumption DEF OpenTask, TaskRows
  <2>. QED
    BY <1>5, <2>1 DEF CreateDraftReview, CreateReview, Adds
<1>6. ASSUME NEW a \in Agents, NEW status \in {"succeeded", "invalid_output"},
             RecordScore(a, status)
      PROVE  Scores(a)
  BY <1>6 DEF RecordScore, Scores
<1>7. ASSUME NEW a \in Agents, NEW i \in DOMAIN scores, ScrubScore(a, i)
      PROVE  Scores(a)
  BY <1>7 DEF ScrubScore, Scores
<1>8. ASSUME NEW a \in Agents,
             PollDrift(a) \/ PollThreshold(a) \/ VerifyRaise(a)
      PROVE  Aside(a)
  BY <1>8 DEF PollDrift, PollThreshold, VerifyRaise, Aside
<1>9. ASSUME NEW a \in Agents,
             StartDisable(a) \/ StartRaise(a) \/ MarkRaised(a) \/ AgentStops(a)
      PROVE  Aside(a)
  BY <1>1, <1>2, <1>9 DEF StartDisable, StartRaise, MarkRaised, AgentStops, Aside
<1>10. ASSUME NEW a \in Agents, DisableJudge(a)
       PROVE  Aside(a)
  BY <1>2, <1>10 DEF DisableJudge, Aside
<1>11. ASSUME NEW a \in Agents, CommitRaise(a)
       PROVE  Aside(a)
  BY <1>1, <1>11 DEF CommitRaise, Aside
<1>. QED
  BY <1>3, <1>4, <1>5, <1>6, <1>7, <1>8, <1>9, <1>10, <1>11, Zenon DEF JudgeNext

LEMMA Removed ==
  ASSUME NEW S, NEW seq \in Seq(S), NEW i \in DOMAIN seq
  PROVE  RemoveAt(seq, i) \in Seq(S)
<1>1. /\ SubSeq(seq, 1, i - 1) \in Seq(S)
      /\ SubSeq(seq, i + 1, Len(seq)) \in Seq(S)
  BY SubSeqProperties
<1>. QED
  BY <1>1, ConcatProperties DEF RemoveAt

\* What a patch writes over a row is one.
LEMMA OverlaidRow ==
  ASSUME NEW q \in Patches, NEW row \in TaskRows
  PROVE  Overlaid(q, row) \in TaskRows
  BY DEF Patches, TaskRows, Overlaid

\* A patch replaces one row in each table.
LEMMA Writing ==
  ASSUME JudgeRows, RulingsSound, NEW a \in Agents, WritePatch(a)
  PROVE  LET q == agents[a]
             i == q.task
         IN /\ q \in Patches /\ PatchSound(q)
            /\ tasks' = [tasks EXCEPT ![i] = Overlaid(q, q.read)]
            /\ given' = [given EXCEPT ![i] = Overlaid(q, given[i])]
            /\ crossed' = IF q.crossed THEN crossed \union {i} ELSE crossed
            /\ reviewed' = (reviewed \/ Label(Overlaid(q, q.read)) = "accepted")
<1>1. AgentAt(a, "patch")
  BY DEF WritePatch
<1>2. agents[a] \in Patches
  BY <1>1, Kinds DEF JudgeRows, AgentAt
<1>. DEFINE q == agents[a]
            i == q.task
<1>3. PatchSound(q) /\ i \in DOMAIN tasks
  BY <1>1 DEF RulingsSound, PatchSound
<1>4. /\ tasks' = [tasks EXCEPT ![i] = Overlaid(q, q.read)]
      /\ given' = [given EXCEPT ![i] = Overlaid(q, given[i])]
      /\ crossed' = IF q.crossed THEN crossed \union {i} ELSE crossed
      /\ reviewed' = (reviewed \/ Label(tasks'[i]) = "accepted")
  BY DEF WritePatch, Patched
<1>5. tasks'[i] = Overlaid(q, q.read)
  BY <1>3, <1>4 DEF JudgeRows
<1>. QED
  BY <1>2, <1>3, <1>4, <1>5

\* The other patches of the task know that they are crossed, and promotions that
\* they are disturbed.
LEMMA WritingAgents ==
  ASSUME JudgeRows, NEW a \in Agents, WritePatch(a)
  PROVE  /\ \E S : agents' \in [Agents -> S]
         /\ \A b \in Agents :
              \/ b = a /\ agents'[b] = None
              \/ agents'[b] = None /\ agents[b] = None
              \/ Ordinary(agents[b]) /\ Ordinary(agents'[b])
              \/ /\ agents[b] \in Patches /\ agents'[b] \in Patches
                 /\ agents'[b].task = agents[b].task /\ agents'[b].read = agents[b].read
                 /\ \/ agents'[b].crossed
                    \/ /\ b # a /\ agents[b].task # agents[a].task
                       /\ agents'[b].crossed = agents[b].crossed
              \/ agents[b] \in Promotions /\ agents'[b] = [agents[b] EXCEPT !.quiet = FALSE]
<1>. DEFINE others == {b \in Agents \ {a} : AgentAt(b, "patch") /\ agents[b].task = agents[a].task}
<1>1. agents' = [b \in Agents |->
             IF b = a \/ agents[b] = None THEN (IF b = a THEN None ELSE agents[b])
             ELSE IF b \in others THEN [agents[b] EXCEPT !.crossed = TRUE]
             ELSE [agents[b] EXCEPT !.quiet = FALSE]]
  BY DEF WritePatch
<1>2. agents' \in [Agents -> {agents'[b] : b \in Agents}]
  BY <1>1
<1>3. ASSUME NEW b \in Agents, b # a, agents[b] # None, b \in others
      PROVE  /\ agents[b] \in Patches /\ agents'[b] \in Patches
             /\ agents'[b].task = agents[b].task /\ agents'[b].read = agents[b].read
             /\ agents'[b].crossed
  <2>1. agents[b] \in Patches
    BY <1>3, Kinds DEF JudgeRows, AgentAt
  <2>. QED
    BY <1>1, <1>3, <2>1 DEF Patches
<1>4. ASSUME NEW b \in Agents, b # a, agents[b] # None, b \notin others, agents[b] \in Patches
      PROVE  /\ agents'[b] \in Patches /\ agents[b].task # agents[a].task
             /\ agents'[b].task = agents[b].task /\ agents'[b].read = agents[b].read
             /\ agents'[b].crossed = agents[b].crossed
  <2>1. agents'[b] = [agents[b] EXCEPT !.quiet = FALSE]
    BY <1>1, <1>4
  <2>2. AgentAt(b, "patch")
    BY <1>4, Kinds DEF AgentAt
  <2>3. agents[b].task # agents[a].task
    BY <1>4, <2>2
  <2>. QED
    BY <1>4, <2>1, <2>3 DEF Patches
<1>5. ASSUME NEW b \in Agents, b # a, agents[b] # None, Ordinary(agents[b])
      PROVE  Ordinary(agents'[b])
  <2>1. b \notin others
    BY <1>5, Kinds DEF AgentAt
  <2>2. agents'[b] = [agents[b] EXCEPT !.quiet = FALSE]
    BY <1>1, <1>5, <2>1
  <2>. QED
    BY <1>5, <2>2 DEF Ordinary
<1>6. ASSUME NEW b \in Agents, b # a, agents[b] # None, agents[b] \in Promotions
      PROVE  agents'[b] = [agents[b] EXCEPT !.quiet = FALSE]
  <2>1. b \notin others
    BY <1>6, Kinds DEF AgentAt
  <2>. QED
    BY <1>1, <1>6, <2>1
<1>7. agents'[a] = None /\ \A b \in Agents : agents[b] = None => agents'[b] = None
  BY <1>1
<1>8. \A b \in Agents : Ordinary(agents[b]) \/ agents[b] \in Patches \/ agents[b] \in Promotions
  BY DEF JudgeRows
<1>9. ASSUME NEW b \in Agents, b # a, agents[b] # None, agents[b] \in Patches
      PROVE  /\ agents'[b] \in Patches
             /\ agents'[b].task = agents[b].task /\ agents'[b].read = agents[b].read
             /\ \/ agents'[b].crossed
                \/ /\ b # a /\ agents[b].task # agents[a].task
                   /\ agents'[b].crossed = agents[b].crossed
  <2>1. CASE b \in others
    BY <1>3, <1>9, <2>1, Zenon
  <2>2. CASE b \notin others
    BY <1>4, <1>9, <2>2, Zenon
  <2>. QED
    BY <2>1, <2>2
<1>. HIDE DEF others
<1>. QED
  BY <1>2, <1>5, <1>6, <1>7, <1>8, <1>9, Zenon

\* A promotion reads, changes nothing but the judge, and goes on with what it read.
LEMMA PromotionTurns ==
  ASSUME JudgeRows, NEW a \in Agents, ReadLabels(a) \/ ReadOpen(a) \/ Activate(a)
  PROVE  LET q == agents[a]
             clear == q.clear /\ (q.policy.reviewed => Accepted(tasks))
             open == \E i \in DOMAIN tasks : tasks[i].status = "open"
         IN /\ q \in Promotions /\ q # None
            /\ UNCHANGED Evidence
            /\ \E next : /\ Goes(a, next)
                         /\ next = None \/ next \in Promotions
                         /\ \/ /\ q.at = "labels" /\ judge' = judge
                               /\ next = [q EXCEPT !.at = "open", !.clear = clear]
                            \/ /\ q.at = "open" /\ judge' = judge
                               /\ next = IF q.clear /\ (q.policy.closed => ~open)
                                         THEN [q EXCEPT !.at = "activate"] ELSE None
                            \/ q.at = "activate" /\ judge' = "active" /\ next = None
<1>. DEFINE q == agents[a]
            clear == q.clear /\ (q.policy.reviewed => Accepted(tasks))
            open == \E i \in DOMAIN tasks : tasks[i].status = "open"
<1>1. q \in Promotions /\ q # None
  BY Kinds DEF ReadLabels, ReadOpen, Activate, AgentAt, JudgeRows
<1>2. UNCHANGED Evidence
  BY DEF ReadLabels, ReadOpen, Activate, evidence, Evidence
<1>3. [q EXCEPT !.at = "open", !.clear = clear] \in Promotions
  <2>1. clear \in BOOLEAN
    OBVIOUS
  <2>. HIDE DEF clear
  <2>. QED
    BY <1>1, <2>1 DEF Promotions
<1>4. [q EXCEPT !.at = "activate"] \in Promotions
  BY <1>1 DEF Promotions
<1>5. CASE ReadLabels(a)
  <2>1. q.at = "labels" /\ judge' = judge /\ Goes(a, [q EXCEPT !.at = "open", !.clear = clear])
    BY <1>1, <1>5 DEF ReadLabels, AgentAt
  <2>. QED
    BY <1>1, <1>2, <1>3, <2>1
<1>6. CASE ReadOpen(a)
  <2>1. /\ q.at = "open" /\ judge' = judge
        /\ Goes(a, IF q.clear /\ (q.policy.closed => ~open)
                   THEN [q EXCEPT !.at = "activate"] ELSE None)
    BY <1>6 DEF ReadOpen, AgentAt
  <2>. QED
    BY <1>1, <1>2, <1>4, <2>1
<1>7. CASE Activate(a)
  <2>1. q.at = "activate" /\ judge' = "active" /\ Goes(a, None)
    BY <1>7 DEF Activate, AgentAt
  <2>. QED
    BY <1>1, <1>2, <2>1
<1>. QED
  BY <1>5, <1>6, <1>7

-----------------------------------------------------------------------------
(* The rows. *)

LEMMA RowsStep ==
  ASSUME JudgeRows, RulingsSound, [JudgeNext]_judgeVars
  PROVE  JudgeRows'
<1>. DEFINE AgentRows ==
       /\ \E S : agents \in [Agents -> S]
       /\ \A a \in Agents : Ordinary(agents[a]) \/ agents[a] \in Patches \/ agents[a] \in Promotions
<1>1. CASE UNCHANGED judgeVars
  BY <1>1 DEF JudgeRows, judgeVars
<1>2. ASSUME NEW a \in Agents, NEW q, Goes(a, q),
             Ordinary(q) \/ q \in Patches \/ q \in Promotions
      PROVE  AgentRows'
  BY <1>2, Gone
<1>3. ASSUME NEW a \in Agents, NEW q, Disturbing(a, q), Ordinary(q)
      PROVE  AgentRows'
  BY <1>3, Disturbed
<1>4. Ordinary(None)
  BY DEF Ordinary
<1>. HIDE DEF AgentRows
<1>5. ASSUME AgentRows', UNCHANGED <<scores, tasks, given, reviewed>>
      PROVE  JudgeRows'
  BY <1>5 DEF JudgeRows, AgentRows
<1>6. ASSUME NEW a \in Agents, Aside(a) PROVE JudgeRows'
  <2>1. CASE agents' = agents
    BY <1>6, <2>1 DEF JudgeRows, Aside, Evidence
  <2>2. CASE \E q : Ordinary(q) /\ (Goes(a, q) \/ Disturbing(a, q))
    BY <1>2, <1>3, <1>5, <1>6, <2>2 DEF Aside, Evidence
  <2>. QED
    BY <1>6, <2>1, <2>2 DEF Aside
<1>7. ASSUME NEW a \in Agents, Adds(a) PROVE JudgeRows'
  <2>1. AgentRows'
    BY <1>3, <1>4, <1>7 DEF Adds
  <2>2. PICK task \in TaskRows : /\ tasks' = Append(tasks, task) /\ given' = Append(given, task)
                                 /\ reviewed' = (reviewed \/ Label(task) = "accepted")
    BY <1>7 DEF Adds, AddTask
  <2>4. /\ tasks' \in Seq(TaskRows) /\ given' \in Seq(TaskRows)
        /\ Len(given') = Len(tasks') /\ reviewed' \in BOOLEAN
    BY <2>2 DEF JudgeRows
  <2>. QED
    BY <1>7, <2>1, <2>4 DEF JudgeRows, AgentRows, Adds
<1>8. ASSUME NEW a \in Agents, Scores(a) PROVE JudgeRows'
  <2>1. AgentRows'
    BY <1>3, <1>4, <1>8 DEF Scores
  <2>2. scores' \in Seq({"succeeded", "invalid_output"})
    <3>1. scores \in Seq({"succeeded", "invalid_output"})
      BY DEF JudgeRows
    <3>2. \A i \in DOMAIN scores : RemoveAt(scores, i) \in Seq({"succeeded", "invalid_output"})
      BY <3>1, Removed
    <3>3. CASE \E status \in {"succeeded", "invalid_output"} : scores' = Append(scores, status)
      BY <3>1, <3>3
    <3>. QED
      BY <1>8, <3>2, <3>3 DEF Scores
  <2>. QED
    BY <1>8, <2>1, <2>2 DEF JudgeRows, AgentRows, Scores
<1>9. ASSUME NEW a \in Agents, NEW i \in DOMAIN tasks, NEW status \in Statuses \union {None},
             NEW decision \in Decisions \union {None, "kept"}, StartPatch(a, i, status, decision)
      PROVE  JudgeRows'
  <2>. DEFINE q == [at |-> "patch", quiet |-> FALSE, value |-> None, task |-> i, read |-> tasks[i],
                    crossed |-> FALSE, status |-> status, decision |-> decision]
  <2>1. tasks[i] \in TaskRows /\ i \in Nat
    BY DEF JudgeRows
  <2>2. q \in Patches
    BY <2>1 DEF Patches
  <2>3. Goes(a, q) /\ UNCHANGED <<scores, tasks, given, reviewed>>
    BY <1>9 DEF StartPatch, evidence
  <2>. QED
    BY <1>2, <1>5, <2>2, <2>3
<1>10. ASSUME NEW a \in Agents, WritePatch(a) PROVE JudgeRows'
  <2>. DEFINE q == agents[a]
  <2>1. /\ q \in Patches
        /\ tasks' = [tasks EXCEPT ![q.task] = Overlaid(q, q.read)]
        /\ given' = [given EXCEPT ![q.task] = Overlaid(q, given[q.task])]
        /\ q.task \in DOMAIN tasks
        /\ reviewed' \in BOOLEAN
    BY <1>10, Writing DEF PatchSound, JudgeRows
  <2>2. q.read \in TaskRows /\ given[q.task] \in TaskRows
    BY <2>1, Kinds DEF JudgeRows
  <2>3. Overlaid(q, q.read) \in TaskRows /\ Overlaid(q, given[q.task]) \in TaskRows
    BY <2>1, <2>2, OverlaidRow
  <2>4. /\ tasks' \in Seq(TaskRows) /\ given' \in Seq(TaskRows)
        /\ Len(tasks') = Len(tasks) /\ Len(given') = Len(given)
    BY <2>1, <2>3 DEF JudgeRows
  <2>5. AgentRows'
    BY <1>4, <1>10, WritingAgents, Loudened, Zenon DEF AgentRows
  <2>6. scores' = scores
    BY <1>10 DEF WritePatch
  <2>. QED
    BY <2>1, <2>4, <2>5, <2>6 DEF JudgeRows, AgentRows
<1>11. ASSUME NEW a \in Agents, NEW policy \in Policies, StartPromotion(a, policy)
       PROVE  JudgeRows'
  <2>. DEFINE q == [at |-> "labels", quiet |-> TRUE, value |-> None, policy |-> policy,
                    clear |-> WellScored(scores)]
  <2>1. q \in Promotions
    BY DEF Promotions, WellScored
  <2>2. Goes(a, q) /\ UNCHANGED <<scores, tasks, given, reviewed>>
    BY <1>11 DEF StartPromotion, evidence
  <2>. QED
    BY <1>2, <1>5, <2>1, <2>2
<1>12. ASSUME NEW a \in Agents, ReadLabels(a) \/ ReadOpen(a) \/ Activate(a)
       PROVE  JudgeRows'
  <2>1. /\ UNCHANGED <<scores, tasks, given, reviewed>>
        /\ \E next : Goes(a, next) /\ (next = None \/ next \in Promotions)
    BY <1>12, PromotionTurns, Zenon DEF Evidence
  <2>. QED
    BY <1>2, <1>4, <1>5, <2>1
<1>. QED
  BY <1>1, <1>6, <1>7, <1>8, <1>9, <1>10, <1>11, <1>12, JudgeSteps, Zenon

-----------------------------------------------------------------------------
(* Decisions. *)

\* A patch in flight is as it was before a turn of another request.
LEMMA PatchesAwait ==
  ASSUME JudgeRows, NEW a \in Agents, NEW q, Ordinary(q) \/ q \in Promotions,
         Goes(a, q) \/ (Ordinary(q) /\ Disturbing(a, q)),
         NEW b \in Agents, AgentAt(b, "patch")'
  PROVE  AgentAt(b, "patch") /\ agents'[b] = agents[b]
<1>1. agents'[b] # None /\ agents'[b].at = "patch"
  BY DEF AgentAt
<1>2. q = None \/ q.at # "patch"
  BY Kinds
<1>3. CASE Goes(a, q)
  BY <1>1, <1>2, <1>3, Gone DEF AgentAt
<1>4. CASE Ordinary(q) /\ Disturbing(a, q)
  <2>1. CASE agents[b] \in Promotions /\ agents'[b] = [agents[b] EXCEPT !.quiet = FALSE]
    <3>1. agents'[b].at = agents[b].at /\ agents[b].at # "patch"
      BY <2>1, Loudened, Kinds
    <3>. QED
      BY <1>1, <3>1
  <2>. QED
    BY <1>1, <1>2, <1>4, <2>1, Disturbed, Zenon DEF AgentAt
<1>. QED
  BY <1>3, <1>4

LEMMA DecisionsStep ==
  ASSUME JudgeRows, RulingsSound, [JudgeNext]_judgeVars
  PROVE  RulingsSound'
<1>1. CASE UNCHANGED judgeVars
  BY <1>1 DEF judgeVars, RulingsSound, DecisionsStick, PatchSound, AgentAt
<1>2. ASSUME NEW a \in Agents, NEW q, Ordinary(q) \/ q \in Promotions,
             Goes(a, q) \/ (Ordinary(q) /\ Disturbing(a, q)),
             UNCHANGED <<tasks, given, crossed>>
      PROVE  RulingsSound'
  BY <1>2, PatchesAwait DEF RulingsSound, DecisionsStick, PatchSound
<1>3. Ordinary(None)
  BY DEF Ordinary
<1>4. ASSUME NEW a \in Agents, Aside(a) PROVE RulingsSound'
  <2>1. CASE agents' = agents
    BY <1>4, <2>1 DEF Aside, Evidence, RulingsSound, DecisionsStick, PatchSound, AgentAt
  <2>2. CASE \E q : Ordinary(q) /\ (Goes(a, q) \/ Disturbing(a, q))
    BY <1>2, <1>4, <2>2 DEF Aside, Evidence
  <2>. QED
    BY <1>4, <2>1, <2>2 DEF Aside
<1>5. ASSUME NEW a \in Agents, Scores(a) PROVE RulingsSound'
  BY <1>2, <1>3, <1>5 DEF Scores
<1>6. ASSUME NEW a \in Agents, Adds(a) PROVE RulingsSound'
  <2>1. PICK task \in TaskRows :
        /\ tasks' = Append(tasks, task) /\ given' = Append(given, task)
        /\ crossed' = crossed /\ Disturbing(a, None)
    BY <1>6 DEF Adds, AddTask
  <2>2. /\ DOMAIN tasks' = DOMAIN tasks \union {Len(tasks) + 1}
        /\ \A i \in DOMAIN tasks : tasks'[i] = tasks[i] /\ given'[i] = given[i]
        /\ tasks'[Len(tasks) + 1] = given'[Len(tasks) + 1]
    BY <2>1 DEF JudgeRows
  <2>3. DecisionsStick'
    BY <2>1, <2>2 DEF RulingsSound, DecisionsStick
  <2>4. ASSUME NEW b \in Agents, AgentAt(b, "patch")' PROVE PatchSound(agents[b])'
    <3>1. AgentAt(b, "patch") /\ agents'[b] = agents[b]
      BY <1>3, <2>1, <2>4, PatchesAwait
    <3>2. PatchSound(agents[b])
      BY <3>1 DEF RulingsSound
    <3>. QED
      BY <2>1, <2>2, <3>1, <3>2 DEF PatchSound
  <2>. QED
    BY <2>3, <2>4 DEF RulingsSound
<1>7. ASSUME NEW a \in Agents, NEW i \in DOMAIN tasks, NEW status \in Statuses \union {None},
             NEW decision \in Decisions \union {None, "kept"}, StartPatch(a, i, status, decision)
      PROVE  RulingsSound'
  <2>. DEFINE q == [at |-> "patch", quiet |-> FALSE, value |-> None, task |-> i, read |-> tasks[i],
                    crossed |-> FALSE, status |-> status, decision |-> decision]
  <2>1. tasks[i] \in TaskRows /\ i \in Nat
    BY DEF JudgeRows
  <2>2. q \in Patches
    BY <2>1 DEF Patches
  <2>3. Goes(a, q) /\ UNCHANGED <<tasks, given, crossed>>
    BY <1>7 DEF StartPatch, evidence
  <2>4. \A b \in Agents : agents'[b] = IF b = a THEN q ELSE agents[b]
    BY <2>2, <2>3, Gone
  <2>5. DecisionsStick'
    BY <2>3 DEF RulingsSound, DecisionsStick
  <2>6. ASSUME NEW b \in Agents, AgentAt(b, "patch")' PROVE PatchSound(agents[b])'
    <3>1. CASE b = a
      BY <2>3, <2>4, <3>1 DEF PatchSound
    <3>2. CASE b # a
      <4>1. AgentAt(b, "patch") /\ agents'[b] = agents[b]
        BY <2>4, <2>6, <3>2 DEF AgentAt
      <4>. QED
        BY <2>3, <4>1 DEF RulingsSound, PatchSound
    <3>. QED
      BY <3>1, <3>2
  <2>. QED
    BY <2>5, <2>6 DEF RulingsSound
<1>8. ASSUME NEW a \in Agents, WritePatch(a) PROVE RulingsSound'
  <2>. DEFINE q == agents[a]
              i == q.task
  <2>1. /\ q \in Patches /\ PatchSound(q)
        /\ tasks' = [tasks EXCEPT ![i] = Overlaid(q, q.read)]
        /\ given' = [given EXCEPT ![i] = Overlaid(q, given[i])]
        /\ crossed' = IF q.crossed THEN crossed \union {i} ELSE crossed
    BY <1>8, Writing
  <2>2. DOMAIN tasks' = DOMAIN tasks /\ DOMAIN given = DOMAIN tasks /\ i \in DOMAIN tasks
    BY <2>1 DEF JudgeRows, PatchSound
  <2>3. /\ tasks'[i] = Overlaid(q, q.read) /\ given'[i] = Overlaid(q, given[i])
        /\ \A j \in DOMAIN tasks : j # i => tasks'[j] = tasks[j] /\ given'[j] = given[j]
    BY <2>1, <2>2
  <2>4. i \notin crossed' => q.read = given[i]
    BY <2>1, <2>2 DEF PatchSound, RulingsSound, DecisionsStick
  <2>5. DecisionsStick'
    BY <2>1, <2>2, <2>3, <2>4 DEF RulingsSound, DecisionsStick
  <2>6. ASSUME NEW b \in Agents, AgentAt(b, "patch")' PROVE PatchSound(agents[b])'
    <3>1. agents'[b] # None /\ agents'[b].at = "patch"
      BY <2>6 DEF AgentAt
    <3>2. /\ agents[b] \in Patches /\ agents'[b] \in Patches
          /\ agents'[b].task = agents[b].task /\ agents'[b].read = agents[b].read
          /\ \/ agents'[b].crossed
             \/ /\ b # a /\ agents[b].task # i
                /\ agents'[b].crossed = agents[b].crossed
      <4>1. ~Ordinary(agents'[b])
        BY <3>1, Kinds
      <4>2. agents[b] \in Promotions => [agents[b] EXCEPT !.quiet = FALSE].at # "patch"
        BY Loudened, Kinds
      <4>. QED
        BY <1>8, <3>1, <4>1, <4>2, WritingAgents, Zenon
    <3>3. agents[b] # None => AgentAt(b, "patch") /\ PatchSound(agents[b])
      BY <3>2, Kinds DEF AgentAt, RulingsSound
    <3>4. agents[b] = None => agents'[b] = None
      BY <1>8 DEF WritePatch
    <3>. QED
      BY <2>1, <2>2, <2>3, <3>1, <3>2, <3>3, <3>4 DEF PatchSound
  <2>. QED
    BY <2>5, <2>6 DEF RulingsSound
<1>9. ASSUME NEW a \in Agents, NEW policy \in Policies, StartPromotion(a, policy)
      PROVE  RulingsSound'
  <2>. DEFINE q == [at |-> "labels", quiet |-> TRUE, value |-> None, policy |-> policy,
                    clear |-> WellScored(scores)]
  <2>1. q \in Promotions
    BY DEF Promotions, WellScored
  <2>2. Goes(a, q) /\ UNCHANGED <<tasks, given, crossed>>
    BY <1>9 DEF StartPromotion, evidence
  <2>. QED
    BY <1>2, <2>1, <2>2
<1>10. ASSUME NEW a \in Agents, ReadLabels(a) \/ ReadOpen(a) \/ Activate(a)
       PROVE  RulingsSound'
  <2>1. /\ UNCHANGED <<tasks, given, crossed>>
        /\ \E next : Goes(a, next) /\ (next = None \/ next \in Promotions)
    BY <1>10, PromotionTurns, Zenon DEF Evidence
  <2>. QED
    BY <1>2, <1>3, <2>1
<1>. QED
  BY <1>1, <1>4, <1>5, <1>6, <1>7, <1>8, <1>9, <1>10, JudgeSteps, Zenon

LEMMA JudgeStart == JudgeInit => JudgeRows /\ RulingsSound
<1>. SUFFICES ASSUME JudgeInit PROVE JudgeRows /\ RulingsSound
  OBVIOUS
<1>1. /\ scores = <<>> /\ tasks = <<>> /\ given = <<>> /\ reviewed = FALSE
      /\ agents \in [Agents -> {None}]
  BY DEF JudgeInit
<1>2. \A a \in Agents : agents[a] = None
  BY <1>1
<1>3. \A S : scores \in Seq(S) /\ tasks \in Seq(S) /\ given \in Seq(S)
  BY <1>1
<1>4. RulingsSound
  BY <1>1, <1>2 DEF RulingsSound, DecisionsStick, AgentAt
<1>. QED
  BY <1>1, <1>2, <1>3, <1>4 DEF JudgeRows, Ordinary

\* What reviewers decide stays decided, whatever requests read the task before and
\* write it back after, but for those tasks where a patch did not know of another.
THEOREM Decided == JudgeSpec => []DecisionsStick
<1>1. JudgeRows /\ RulingsSound /\ [JudgeNext]_judgeVars => JudgeRows' /\ RulingsSound'
  BY RowsStep, DecisionsStep
<1>2. RulingsSound => DecisionsStick
  BY DEF RulingsSound
<1>. QED
  BY JudgeStart, <1>1, <1>2, PTL DEF JudgeSpec

-----------------------------------------------------------------------------
(* Promotions. *)

\* A promotion that a step leaves as it was, or tells of a change, stays sound.
LEMMA StillSound ==
  ASSUME NEW q \in Promotions, NEW r, PromotionSound(q),
         r = q \/ r = [q EXCEPT !.quiet = FALSE],
         lenient => lenient', reviewed => reviewed',
         r.quiet => UNCHANGED <<scores, tasks>>
  PROVE  PromotionSound(r)'
<1>1. /\ r.at = q.at /\ r.clear = q.clear /\ r.policy = q.policy
      /\ r.quiet => q.quiet
  BY Loudened
<1>2. r.quiet => WellScored(scores)' = WellScored(scores)
                 /\ AcceptedRow' = AcceptedRow /\ ClosedRows' = ClosedRows
  BY DEF WellScored, Tally, AcceptedRow, Accepted, ClosedRows
<1>. QED
  BY <1>1, <1>2 DEF PromotionSound

\* The promotions in flight, after a turn of another request.
LEMMA PromotionsAwait ==
  ASSUME JudgeRows, PromotionsSound, NEW a \in Agents, NEW q, Ordinary(q) \/ q \in Patches,
         Goes(a, q) \/ (Ordinary(q) /\ Disturbing(a, q)),
         lenient => lenient', reviewed => reviewed',
         UNCHANGED <<scores, tasks>> \/ (Ordinary(q) /\ Disturbing(a, q))
  PROVE  InFlight'
<1>. SUFFICES ASSUME NEW b \in Agents, Promoting(b)' PROVE PromotionSound(agents[b])'
  BY DEF InFlight
<1>1. agents'[b] # None /\ agents'[b].at \in {"labels", "open", "activate"}
  BY DEF Promoting
<1>2. q = None \/ q.at \notin {"labels", "open", "activate"}
  BY Kinds
<1>3. ASSUME agents'[b] = agents[b], b # a \/ q # agents'[b],
             agents[b].quiet => UNCHANGED <<scores, tasks>>
      PROVE  PromotionSound(agents[b])'
  <2>1. Promoting(b) /\ agents[b] \in Promotions
    BY <1>1, <1>3, Kinds DEF Promoting, JudgeRows
  <2>2. PromotionSound(agents[b])
    BY <2>1 DEF PromotionsSound, InFlight
  <2>3. agents'[b].quiet => UNCHANGED <<scores, tasks>>
    BY <1>3
  <2>. QED
    BY <1>3, <2>1, <2>2, <2>3, StillSound DEF PromotionSound
<1>4. CASE Ordinary(q) /\ Disturbing(a, q)
  <2>1. CASE agents[b] \in Promotions /\ agents'[b] = [agents[b] EXCEPT !.quiet = FALSE]
                                      /\ agents[b] # None
    <3>1. agents'[b].at = agents[b].at /\ ~agents'[b].quiet
      BY <2>1, Loudened
    <3>2. Promoting(b)
      BY <1>1, <2>1, <3>1 DEF Promoting
    <3>3. PromotionSound(agents[b])
      BY <3>2 DEF PromotionsSound, InFlight
    <3>. QED
      BY <2>1, <3>1, <3>3, StillSound
  <2>2. CASE agents'[b] = agents[b] /\ ~(agents[b] # None /\ agents[b].quiet)
    BY <1>1, <1>2, <1>3, <2>2
  <2>3. agents'[a] = q /\ (agents[b] = None => agents'[b] = None \/ b = a)
    BY <1>4 DEF Disturbing
  <2>4. \/ b = a /\ agents'[b] = q
        \/ agents'[b] = agents[b] /\ ~(agents[b] # None /\ agents[b].quiet)
        \/ agents[b] \in Promotions /\ agents'[b] = [agents[b] EXCEPT !.quiet = FALSE]
    BY <1>4, Disturbed
  <2>. QED
    BY <1>1, <1>2, <2>1, <2>2, <2>3, <2>4
<1>5. CASE Goes(a, q) /\ UNCHANGED <<scores, tasks>>
  <2>1. agents'[b] = IF b = a THEN q ELSE agents[b]
    BY <1>5, Gone
  <2>. QED
    BY <1>1, <1>2, <1>3, <1>5, <2>1
<1>. QED
  BY <1>4, <1>5

\* What a promotion reads is so when it reads it.
LEMMA ReadSound ==
  ASSUME JudgeRows, PromotionsSound, NEW q \in Promotions, PromotionSound(q)
  PROVE  LET clear == q.clear /\ (q.policy.reviewed => Accepted(tasks))
             open == \E i \in DOMAIN tasks : tasks[i].status = "open"
         IN /\ q.at = "labels" => PromotionSound([q EXCEPT !.at = "open", !.clear = clear])
            /\ q.at = "open" /\ q.clear /\ (q.policy.closed => ~open) =>
                 PromotionSound([q EXCEPT !.at = "activate"])
<1>. DEFINE clear == q.clear /\ (q.policy.reviewed => Accepted(tasks))
            labelled == [q EXCEPT !.at = "open", !.clear = clear]
            opened == [q EXCEPT !.at = "activate"]
<1>1. Accepted(tasks) => AcceptedRow
  BY DEF AcceptedRow
<1>2. Strict.reviewed /\ Strict.closed
  BY DEF Strict
<1>3. /\ labelled.at = "open" /\ labelled.clear = clear
      /\ labelled.quiet = q.quiet /\ labelled.policy = q.policy
  BY DEF Promotions
<1>4. /\ opened.at = "activate" /\ opened.clear = q.clear
      /\ opened.quiet = q.quiet /\ opened.policy = q.policy
  BY DEF Promotions
<1>. HIDE DEF labelled, opened
<1>5. PromotionSound(labelled)
  BY <1>1, <1>2, <1>3 DEF PromotionSound, PromotionsSound, AcceptedReviewed
<1>6. CASE q.at = "open" /\ q.clear /\ (q.policy.closed => ClosedRows)
  BY <1>2, <1>4, <1>6 DEF PromotionSound, PromotionsSound, AcceptedReviewed
<1>. QED
  BY <1>5, <1>6 DEF labelled, opened, ClosedRows

LEMMA PromotionsStep ==
  ASSUME JudgeRows, RulingsSound, PromotionsSound, [JudgeNext]_judgeVars
  PROVE  PromotionsSound'
<1>0. ASSUME UNCHANGED <<scores, tasks, agents, lenient, reviewed>>,
             judge' = "active" => judge' = judge
      PROVE  PromotionsSound'
  BY <1>0 DEF PromotionsSound, AcceptedReviewed, InFlight, PromotionSound, Promoting,
     AcceptedRow, Accepted, ClosedRows, ActiveWasReviewed, WellScored, Tally
<1>1. CASE UNCHANGED judgeVars
  BY <1>0, <1>1 DEF judgeVars
<1>2. Ordinary(None)
  BY DEF Ordinary
<1>3. ASSUME NEW a \in Agents, NEW q, Ordinary(q) \/ q \in Patches,
             Goes(a, q) \/ (Ordinary(q) /\ Disturbing(a, q)),
             lenient => lenient', reviewed => reviewed',
             UNCHANGED <<scores, tasks>> \/ (Ordinary(q) /\ Disturbing(a, q))
      PROVE  InFlight'
  BY <1>3, PromotionsAwait
<1>4. ASSUME UNCHANGED tasks, UNCHANGED reviewed PROVE AcceptedReviewed'
  BY <1>4 DEF PromotionsSound, AcceptedReviewed, AcceptedRow, Accepted
<1>5. ASSUME judge' = "active" => judge' = judge, UNCHANGED lenient, reviewed => reviewed'
      PROVE  ActiveWasReviewed'
  BY <1>5 DEF PromotionsSound, ActiveWasReviewed
<1>6. ASSUME NEW a \in Agents, Aside(a) PROVE PromotionsSound'
  <2>1. CASE agents' = agents
    BY <1>0, <1>6, <2>1 DEF Aside, Evidence
  <2>2. ASSUME NEW q, Ordinary(q), Goes(a, q) \/ Disturbing(a, q) PROVE InFlight'
    BY <1>3, <1>6, <2>2 DEF Aside, Evidence
  <2>. QED
    BY <1>4, <1>5, <1>6, <2>1, <2>2 DEF Aside, Evidence, PromotionsSound
<1>7. ASSUME NEW a \in Agents, Scores(a) PROVE PromotionsSound'
  <2>1. InFlight'
    BY <1>2, <1>3, <1>7 DEF Scores
  <2>. QED
    BY <1>4, <1>5, <1>7, <2>1 DEF Scores, PromotionsSound
<1>8. ASSUME NEW a \in Agents, Adds(a) PROVE PromotionsSound'
  <2>1. PICK task \in TaskRows : /\ tasks' = Append(tasks, task)
                                 /\ reviewed' = (reviewed \/ Label(task) = "accepted")
    BY <1>8 DEF Adds, AddTask
  <2>2. AcceptedReviewed'
    <3>1. /\ DOMAIN tasks' = DOMAIN tasks \union {Len(tasks) + 1}
          /\ \A i \in DOMAIN tasks : tasks'[i] = tasks[i]
          /\ tasks'[Len(tasks) + 1] = task
      BY <2>1 DEF JudgeRows
    <3>. QED
      BY <2>1, <3>1 DEF PromotionsSound, AcceptedReviewed, AcceptedRow, Accepted
  <2>3. InFlight'
    BY <1>2, <1>3, <1>8, <2>1 DEF Adds
  <2>. QED
    BY <1>5, <1>8, <2>1, <2>2, <2>3 DEF Adds, PromotionsSound
<1>9. ASSUME NEW a \in Agents, NEW i \in DOMAIN tasks, NEW status \in Statuses \union {None},
             NEW decision \in Decisions \union {None, "kept"}, StartPatch(a, i, status, decision)
      PROVE  PromotionsSound'
  <2>. DEFINE q == [at |-> "patch", quiet |-> FALSE, value |-> None, task |-> i, read |-> tasks[i],
                    crossed |-> FALSE, status |-> status, decision |-> decision]
  <2>1. tasks[i] \in TaskRows /\ i \in Nat
    BY DEF JudgeRows
  <2>2. q \in Patches
    BY <2>1 DEF Patches
  <2>3. Goes(a, q) /\ UNCHANGED <<judge, scores, tasks, reviewed, lenient>>
    BY <1>9 DEF StartPatch, evidence
  <2>. QED
    BY <1>3, <1>4, <1>5, <2>2, <2>3 DEF PromotionsSound
<1>10. ASSUME NEW a \in Agents, WritePatch(a) PROVE PromotionsSound'
  <2>1. UNCHANGED <<judge, scores, lenient>>
    BY <1>10 DEF WritePatch
  <2>. DEFINE q == agents[a]
              i == q.task
  <2>2. /\ i \in DOMAIN tasks
        /\ tasks' = [tasks EXCEPT ![i] = Overlaid(q, q.read)]
        /\ reviewed' = (reviewed \/ Label(Overlaid(q, q.read)) = "accepted")
    BY <1>10, Writing DEF PatchSound
  <2>3. AcceptedReviewed'
    BY <2>2 DEF AcceptedReviewed, AcceptedRow, Accepted, JudgeRows, PromotionsSound
  <2>4. ASSUME NEW b \in Agents, Promoting(b)' PROVE PromotionSound(agents[b])'
    <3>1. agents'[b] # None /\ agents'[b].at \in {"labels", "open", "activate"}
      BY <2>4 DEF Promoting
    <3>2. ~Ordinary(agents'[b]) /\ agents'[b] \notin Patches
      BY <3>1, Kinds
    <3>3. agents[b] = None => agents'[b] = None
      BY <1>10 DEF WritePatch
    <3>4. agents[b] \in Promotions /\ agents'[b] = [agents[b] EXCEPT !.quiet = FALSE]
      BY <1>2, <1>10, <3>1, <3>2, WritingAgents, Zenon
    <3>5. agents'[b].at = agents[b].at /\ ~agents'[b].quiet
      BY <3>4, Loudened
    <3>6. PromotionSound(agents[b])
      BY <3>1, <3>3, <3>5 DEF Promoting, PromotionsSound, InFlight
    <3>. QED
      BY <2>1, <2>2, <3>4, <3>5, <3>6, StillSound
  <2>5. InFlight'
    BY <2>4 DEF InFlight
  <2>. QED
    BY <1>5, <2>1, <2>2, <2>3, <2>5 DEF PromotionsSound
<1>11. ASSUME NEW a \in Agents, NEW q \in Promotions, Goes(a, q), PromotionSound(q)',
              UNCHANGED <<scores, tasks, reviewed>>, lenient => lenient'
       PROVE  InFlight'
  <2>1. \A b \in Agents : agents'[b] = IF b = a THEN q ELSE agents[b]
    BY <1>11, Gone
  <2>2. ASSUME NEW b \in Agents, b # a, Promoting(b)' PROVE PromotionSound(agents[b])'
    <3>1. Promoting(b) /\ agents[b] \in Promotions /\ agents'[b] = agents[b]
      BY <2>1, <2>2, Kinds DEF Promoting, JudgeRows
    <3>2. PromotionSound(agents[b])
      BY <3>1 DEF PromotionsSound, InFlight
    <3>. QED
      BY <1>11, <3>1, <3>2, StillSound
  <2>. QED
    BY <1>11, <2>1, <2>2 DEF InFlight, PromotionSound
<1>12. ASSUME NEW a \in Agents, NEW policy \in Policies, StartPromotion(a, policy)
       PROVE  PromotionsSound'
  <2>. DEFINE q == [at |-> "labels", quiet |-> TRUE, value |-> None, policy |-> policy,
                    clear |-> WellScored(scores)]
  <2>1. q \in Promotions
    BY DEF Promotions, WellScored
  <2>2. /\ Goes(a, q) /\ UNCHANGED <<judge, scores, tasks, reviewed>>
        /\ lenient' = (lenient \/ policy # Strict)
    BY <1>12 DEF StartPromotion, evidence
  <2>3. PromotionSound(q)'
    BY <2>2 DEF PromotionSound, WellScored, Tally
  <2>4. ActiveWasReviewed'
    BY <2>2 DEF PromotionsSound, ActiveWasReviewed
  <2>. QED
    BY <1>4, <1>11, <2>1, <2>2, <2>3, <2>4 DEF PromotionsSound
<1>13. ASSUME NEW a \in Agents, ReadLabels(a) \/ ReadOpen(a) \/ Activate(a)
       PROVE  PromotionsSound'
  <2>. DEFINE q == agents[a]
              clear == q.clear /\ (q.policy.reviewed => Accepted(tasks))
              open == \E i \in DOMAIN tasks : tasks[i].status = "open"
  <2>1. q \in Promotions /\ q # None /\ UNCHANGED <<scores, tasks, reviewed, lenient>>
    BY <1>13, PromotionTurns, Zenon DEF Evidence
  <2>2. PICK next : /\ Goes(a, next)
                    /\ next = None \/ next \in Promotions
                    /\ \/ /\ q.at = "labels" /\ judge' = judge
                          /\ next = [q EXCEPT !.at = "open", !.clear = clear]
                       \/ /\ q.at = "open" /\ judge' = judge
                          /\ next = IF q.clear /\ (q.policy.closed => ~open)
                                    THEN [q EXCEPT !.at = "activate"] ELSE None
                       \/ q.at = "activate" /\ judge' = "active" /\ next = None
    BY <1>13, PromotionTurns, Zenon
  <2>3. PromotionSound(q)
    BY <2>1, Kinds DEF PromotionsSound, InFlight, Promoting
  <2>4. next = None \/ PromotionSound(next)
    BY <2>1, <2>2, <2>3, ReadSound, Zenon
  <2>5. next # None => PromotionSound(next)'
    BY <2>1, <2>4 DEF PromotionSound, WellScored, Tally, AcceptedRow, Accepted, ClosedRows
  <2>6. InFlight'
    BY <1>2, <1>3, <1>11, <2>1, <2>2, <2>5
  <2>7. ActiveWasReviewed'
    BY <2>1, <2>2, <2>3 DEF PromotionsSound, PromotionSound, ActiveWasReviewed
  <2>. QED
    BY <1>4, <2>1, <2>6, <2>7 DEF PromotionsSound
<1>. QED
  BY <1>1, <1>6, <1>7, <1>8, <1>9, <1>10, <1>12, <1>13, JudgeSteps, Zenon

\* No score of an invalid output, and one at least: all succeeded.
LEMMA AllSucceeded ==
  ASSUME JudgeRows, WellScored(scores)
  PROVE  ToSet(scores) = {"succeeded"}
<1>. DEFINE invalid == {i \in DOMAIN scores : scores[i] = "invalid_output"}
<1>1. DOMAIN scores = 1 .. Len(scores) /\ Len(scores) \in Nat
  BY DEF JudgeRows
<1>2. IsFiniteSet(invalid)
  <2>1. IsFiniteSet(DOMAIN scores)
    BY <1>1, FS_Interval
  <2>2. invalid \subseteq DOMAIN scores
    OBVIOUS
  <2>. QED
    BY <2>1, <2>2, FS_Subset
<1>3. invalid = {} /\ Len(scores) >= 1
  BY <1>2, FS_EmptySet DEF WellScored, Tally
<1>4. \A i \in DOMAIN scores : scores[i] = "succeeded"
  BY <1>3 DEF JudgeRows
<1>. QED
  BY <1>1, <1>3, <1>4 DEF ToSet

\* No judge becomes active that did not earn it: with no task labelled accepted,
\* unless a request asked for a policy of its own; or, if nothing disturbed its
\* promotion while it read, with an open task or an invalid output.
THEOREM Promoted == JudgeSpec => []PromotionsEarned
<1>1. JudgeInit => JudgeRows /\ RulingsSound /\ PromotionsSound
  <2>. SUFFICES ASSUME JudgeInit PROVE PromotionsSound
    BY JudgeStart
  <2>1. \A a \in Agents : agents[a] = None
    BY DEF JudgeInit
  <2>2. DOMAIN tasks = {} /\ judge = None
    BY DEF JudgeInit
  <2>3. judge # "active"
    BY <2>2, JudgeAssumption
  <2>. QED
    BY <2>1, <2>2, <2>3 DEF PromotionsSound, AcceptedReviewed, InFlight, Promoting, AcceptedRow,
       Accepted, ActiveWasReviewed
<1>2. JudgeRows /\ RulingsSound /\ PromotionsSound /\ [JudgeNext]_judgeVars
      => JudgeRows' /\ RulingsSound' /\ PromotionsSound'
  BY RowsStep, DecisionsStep, PromotionsStep
<1>3. JudgeRows /\ PromotionsSound => PromotionsEarned
  <2>. SUFFICES ASSUME JudgeRows, PromotionsSound, NEW a \in Agents,
                       AgentAt(a, "activate"), agents[a].quiet, agents[a].policy = Strict
                PROVE  /\ Accepted(tasks)
                       /\ \A i \in DOMAIN tasks : tasks[i].status # "open"
                       /\ ToSet(scores) = {"succeeded"}
    BY DEF PromotionsEarned, PromotionsSound, PromotedAsReported
  <2>1. PromotionSound(agents[a]) /\ agents[a].at = "activate"
    BY DEF AgentAt, Promoting, PromotionsSound, InFlight
  <2>. QED
    BY <2>1, AllSucceeded DEF PromotionSound, AcceptedRow, ClosedRows
<1>. QED
  BY <1>1, <1>2, <1>3, PTL DEF JudgeSpec
-----------------------------------------------------------------------------
(* The event, the thresholds and the bounds. *)

Thresholds == 0 .. Cap \union {None}

\* The event that proposes a higher threshold, once there is one.
EventSound ==
  /\ DOMAIN event = {"stage", "approved", "version", "proposal", "tasks"}
  /\ event.stage \in {"propose_fix", "verify", "close"} /\ event.proposal \in 1 .. Cap

\* A request has a threshold in hand, and raises one of an event that is there.
ThresholdSound(q) ==
  /\ q.at = "version" => q.value \in Thresholds
  /\ q.at = "raise" => q.value \in 1 .. Cap
  /\ q.at \in {"raise", "applied"} => EventSound

JudgeTyped ==
  /\ judge \in {None, "draft", "active", "disabled"}
  /\ commits \in Seq(Thresholds)
  /\ Len(commits) <= MaxCommits /\ Len(scores) <= MaxScores /\ Len(tasks) <= MaxTasks
  /\ event # None => EventSound

ThresholdsSound == \A a \in Agents : agents[a] # None => ThresholdSound(agents[a])

\* A request that goes on, told of a change or not, keeps what it has in hand.
LEMMA ThresholdsKept ==
  ASSUME JudgeRows, ThresholdsSound, EventSound => EventSound', NEW a \in Agents, NEW q,
         Goes(a, q) \/ (Disturbing(a, q) /\ Ordinary(q)),
         Ordinary(q) \/ q \in Patches \/ q \in Promotions, q = None \/ ThresholdSound(q)'
  PROVE  ThresholdsSound'
<1>1. ASSUME NEW p, ThresholdSound(p)
      PROVE  ThresholdSound(p)'
  BY <1>1 DEF ThresholdSound, Thresholds
<1>2. ASSUME NEW b \in Agents, agents'[b] # None, agents'[b] = q
      PROVE  ThresholdSound(agents[b])'
  BY <1>2 DEF ThresholdSound
<1>3. ASSUME NEW b \in Agents, agents'[b] # None, agents'[b] = agents[b]
      PROVE  ThresholdSound(agents[b])'
  <2>1. PICK p : p = agents[b] /\ p = agents'[b]
    BY <1>3
  <2>2. ThresholdSound(p)
    BY <1>3, <2>1 DEF ThresholdsSound
  <2>. QED
    BY <1>1, <2>1, <2>2 DEF ThresholdSound
<1>4. ASSUME NEW b \in Agents, agents'[b].at \in {"labels", "open", "activate"}
      PROVE  ThresholdSound(agents[b])'
  BY <1>4 DEF ThresholdSound
<1>5. CASE Goes(a, q)
  <2>1. \A b \in Agents : agents'[b] = IF b = a THEN q ELSE agents[b]
    BY <1>5, Gone
  <2>. QED
    BY <1>2, <1>3, <2>1 DEF ThresholdsSound
<1>6. CASE Disturbing(a, q) /\ Ordinary(q)
  <2>1. \A b \in Agents : \/ agents'[b] = q
                          \/ agents'[b] = agents[b]
                          \/ agents'[b].at \in {"labels", "open", "activate"}
    <3>1. \A b \in Agents : agents[b] \in Promotions =>
            [agents[b] EXCEPT !.quiet = FALSE].at \in {"labels", "open", "activate"}
      BY Loudened, Kinds
    <3>. QED
      BY <1>6, <3>1, Disturbed, Zenon
  <2>. QED
    BY <1>2, <1>3, <1>4, <2>1 DEF ThresholdsSound
<1>. QED
  BY <1>5, <1>6

\* A patch is written past the other requests.
LEMMA ThresholdsPast ==
  ASSUME JudgeRows, ThresholdsSound, UNCHANGED event, NEW a \in Agents, WritePatch(a)
  PROVE  ThresholdsSound'
<1>. DEFINE others == {b \in Agents \ {a} : AgentAt(b, "patch") /\ agents[b].task = agents[a].task}
<1>1. agents' = [b \in Agents |->
             IF b = a \/ agents[b] = None THEN (IF b = a THEN None ELSE agents[b])
             ELSE IF b \in others THEN [agents[b] EXCEPT !.crossed = TRUE]
             ELSE [agents[b] EXCEPT !.quiet = FALSE]]
  BY DEF WritePatch
<1>2. EventSound' <=> EventSound
  BY DEF EventSound
<1>3. SUFFICES ASSUME NEW b \in Agents, agents'[b] # None
               PROVE  ThresholdSound(agents[b])'
  BY DEF ThresholdsSound
<1>4. b # a /\ agents[b] # None
  BY <1>1, <1>3
<1>5. PICK p : p = agents[b] /\ ThresholdSound(p)
  BY <1>4 DEF ThresholdsSound
<1>6. p \in Patches \/ (Ordinary(p) /\ p # None) \/ p \in Promotions
  BY <1>4, <1>5 DEF JudgeRows
<1>7. PICK next : next = agents'[b]
  OBVIOUS
<1>8. next = [p EXCEPT !.crossed = TRUE] \/ next = [p EXCEPT !.quiet = FALSE]
  BY <1>1, <1>4, <1>5, <1>7
<1>9. next.at = p.at /\ next.value = p.value
  <2>1. CASE p \in Patches \/ p \in Promotions
    BY <1>8, <2>1 DEF Patches, Promotions
  <2>2. CASE Ordinary(p) /\ p # None
    BY <1>8, <2>2 DEF Ordinary
  <2>. QED
    BY <1>6, <2>1, <2>2
<1>. QED
  BY <1>2, <1>5, <1>7, <1>9 DEF ThresholdSound, Thresholds

\* What the steps of requests do to the judge, its versions and the event.
LEMMA ThresholdsOf ==
  ASSUME JudgeRows, RulingsSound, JudgeTyped, ThresholdsSound, NEW a \in Agents,
         \/ \E threshold \in Thresholds : CreateDraft(a, threshold) \/ CommitVersion(a, threshold)
         \/ CommitFirst(a) \/ StartRaise(a) \/ CommitRaise(a) \/ MarkRaised(a)
  PROVE  JudgeTyped' /\ ThresholdsSound'
<1>1. /\ commits \in Seq(Thresholds) /\ Len(commits) <= MaxCommits /\ Len(commits) \in Nat
      /\ MaxCommits \in Nat
  BY JudgeAssumption DEF JudgeTyped
<1>2. ASSUME NEW value \in Thresholds, Len(commits) < MaxCommits
      PROVE  Append(commits, value) \in Seq(Thresholds) /\ Len(Append(commits, value)) <= MaxCommits
  BY <1>1, <1>2
<1>3. \A step \in {"version", "review", "disable", "raise", "applied"} : \A value :
        Ordinary(Request(step, value))
  BY DEF Ordinary, Request
<1>4. Ordinary(None)
  BY DEF Ordinary
<1>5. \A value : /\ value \in Thresholds => ThresholdSound(Request("version", value))'
                 /\ ThresholdSound(Request("review", value))'
                 /\ value \in 1 .. Cap /\ EventSound' => ThresholdSound(Request("raise", value))'
                 /\ EventSound' => ThresholdSound(Request("applied", value))'
  BY DEF ThresholdSound, Request, Thresholds
<1>6. ASSUME UNCHANGED event
      PROVE  /\ event' # None => EventSound'
             /\ EventSound => EventSound'
  BY <1>6 DEF JudgeTyped, EventSound
<1>7. ASSUME NEW threshold \in Thresholds, CreateDraft(a, threshold)
      PROVE  JudgeTyped' /\ ThresholdsSound'
  <2>1. Goes(a, Request("version", threshold)) /\ UNCHANGED <<commits, scores, tasks, event>>
        /\ judge' = "draft"
    BY <1>7 DEF CreateDraft, evidence, feed
  <2>. QED
    BY <1>3, <1>5, <1>6, <2>1, ThresholdsKept DEF JudgeTyped, Thresholds
<1>8. ASSUME NEW threshold \in Thresholds, CommitVersion(a, threshold)
      PROVE  JudgeTyped' /\ ThresholdsSound'
  <2>1. /\ Disturbing(a, None) /\ UNCHANGED <<judge, scores, tasks, event>>
        /\ Len(commits) < MaxCommits /\ commits' = Append(commits, threshold)
    BY <1>8 DEF CommitVersion, feed
  <2>. QED
    BY <1>2, <1>4, <1>6, <2>1, ThresholdsKept DEF JudgeTyped, Thresholds
<1>9. CASE CommitFirst(a)
  <2>1. /\ Disturbing(a, Request("review", None)) /\ UNCHANGED <<judge, scores, tasks, event>>
        /\ Len(commits) < MaxCommits /\ commits' = Append(commits, agents[a].value)
    BY <1>9 DEF CommitFirst, feed
  <2>2. agents[a].value \in Thresholds
    BY <1>9 DEF CommitFirst, AgentAt, ThresholdsSound, ThresholdSound
  <2>. QED
    BY <1>2, <1>3, <1>5, <1>6, <2>1, <2>2, ThresholdsKept DEF JudgeTyped, Thresholds
<1>10. CASE StartRaise(a)
  <2>1. /\ Goes(a, Request("raise", event.proposal)) /\ event # None
        /\ UNCHANGED <<judge, commits, scores, tasks, event>>
    BY <1>10 DEF StartRaise, evidence, feed
  <2>2. EventSound /\ event.proposal \in 1 .. Cap
    BY <2>1 DEF JudgeTyped, EventSound
  <2>. QED
    BY <1>3, <1>5, <1>6, <2>1, <2>2, ThresholdsKept DEF JudgeTyped, Thresholds
<1>11. CASE CommitRaise(a)
  <2>1. /\ Disturbing(a, Request("applied", Len(commits'))) /\ UNCHANGED <<judge, scores, tasks, event>>
        /\ Len(commits) < MaxCommits /\ commits' = Append(commits, agents[a].value)
    BY <1>11 DEF CommitRaise, feed
  <2>2. agents[a].value \in 1 .. Cap /\ EventSound
    BY <1>11 DEF CommitRaise, AgentAt, ThresholdsSound, ThresholdSound
  <2>3. agents[a].value \in Thresholds
    BY <2>2, JudgeAssumption DEF Thresholds
  <2>4. PICK n : n = Len(commits')
    OBVIOUS
  <2>5. Disturbing(a, Request("applied", n))
    BY <2>1, <2>4
  <2>6. ThresholdsSound'
    BY <1>3, <1>5, <1>6, <2>1, <2>2, <2>5, ThresholdsKept
  <2>. QED
    BY <1>2, <1>6, <2>1, <2>3, <2>6 DEF JudgeTyped, Thresholds
<1>12. CASE MarkRaised(a)
  <2>1. /\ Goes(a, None) /\ UNCHANGED <<judge, commits, scores, tasks>>
        /\ event' = [event EXCEPT !.stage = "verify", !.approved = TRUE, !.version = agents[a].value]
    BY <1>12 DEF MarkRaised, evidence
  <2>2. EventSound
    BY <1>12 DEF MarkRaised, AgentAt, ThresholdsSound, ThresholdSound
  <2>3. EventSound'
    BY <2>1, <2>2 DEF EventSound
  <2>. QED
    BY <1>4, <2>1, <2>3, ThresholdsKept DEF JudgeTyped, Thresholds
<1>. QED
  BY <1>7, <1>8, <1>9, <1>10, <1>11, <1>12

\* The feed proposes a threshold above the one of the current version.
LEMMA EventPolled ==
  ASSUME JudgeTyped, NEW a \in Agents, PollThreshold(a) \/ VerifyRaise(a)
  PROVE  EventSound' /\ UNCHANGED <<judge, commits, scores, tasks, agents>>
<1>1. CASE PollThreshold(a)
  <2>1. /\ commits \in Seq(Thresholds) /\ commits # <<>> /\ Last(commits) # None
        /\ Proposal(Last(commits)) > Last(commits)
    BY <1>1 DEF PollThreshold, Raisable, JudgeTyped
  <2>2. Last(commits) \in 0 .. Cap
    BY <2>1 DEF Last, Thresholds
  <2>3. Proposal(Last(commits)) \in 1 .. Cap
    BY <2>1, <2>2, JudgeAssumption DEF Proposal
  <2>4. event # None => event.stage \in {"propose_fix", "verify", "close"}
    BY DEF JudgeTyped, EventSound
  <2>5. PICK stage, approved, version :
          /\ stage = IF event = None \/ event.stage = "close" THEN "propose_fix" ELSE event.stage
          /\ event' = [stage |-> stage, approved |-> approved, version |-> version,
                       proposal |-> Proposal(Last(commits)), tasks |-> FalsePositives]
    BY <1>1 DEF PollThreshold
  <2>. QED
    BY <1>1, <2>3, <2>4, <2>5 DEF PollThreshold, EventSound, evidence
<1>2. CASE VerifyRaise(a)
  <2>1. EventSound
    BY <1>2 DEF VerifyRaise, JudgeTyped
  <2>2. PICK stage \in {"close", "verify"} : event' = [event EXCEPT !.stage = stage]
    BY <1>2 DEF VerifyRaise
  <2>3. EventSound'
    BY <2>1, <2>2 DEF EventSound
  <2>. QED
    BY <1>2, <2>3 DEF VerifyRaise, evidence
<1>. QED
  BY <1>1, <1>2

\* The rest leaves the versions and the event alone.
LEMMA JudgeTypedStep ==
  JudgeRows /\ RulingsSound /\ JudgeTyped /\ ThresholdsSound /\ [JudgeNext]_judgeVars
    => JudgeTyped' /\ ThresholdsSound'
<1>. SUFFICES ASSUME JudgeRows, RulingsSound, JudgeTyped, ThresholdsSound, [JudgeNext]_judgeVars
              PROVE  JudgeTyped' /\ ThresholdsSound'
  OBVIOUS
<1>1. Ordinary(None)
  BY DEF Ordinary
<1>2. ASSUME UNCHANGED event
      PROVE  /\ event' # None => EventSound'
             /\ EventSound => EventSound'
  BY <1>2 DEF JudgeTyped, EventSound
<1>3. ASSUME NEW a \in Agents, NEW q, UNCHANGED event, Goes(a, q) \/ (Disturbing(a, q) /\ Ordinary(q)),
             Ordinary(q) \/ q \in Patches \/ q \in Promotions,
             q = None \/ q.at \notin {"version", "raise", "applied"}
      PROVE  ThresholdsSound'
  <2>1. q = None \/ ThresholdSound(q)'
    BY <1>3 DEF ThresholdSound
  <2>. QED
    BY <1>2, <1>3, <2>1, ThresholdsKept
<1>4. ASSUME UNCHANGED <<commits, event>>, judge' \in {judge, "active", "disabled"},
             Len(scores') <= MaxScores, Len(tasks') <= MaxTasks
      PROVE  JudgeTyped'
  BY <1>2, <1>4 DEF JudgeTyped, Thresholds
<1>5. /\ Len(scores) <= MaxScores /\ Len(tasks) <= MaxTasks
      /\ Len(scores) \in Nat /\ Len(tasks) \in Nat /\ {MaxScores, MaxTasks} \subseteq Nat
      /\ scores \in Seq({"succeeded", "invalid_output"}) /\ tasks \in Seq(TaskRows)
  BY JudgeAssumption DEF JudgeTyped, JudgeRows
<1>6. ASSUME NEW a \in Agents,
             CreateDraftReview(a) \/ \E task \in TaskRows : CreateReview(a, task)
      PROVE  JudgeTyped' /\ ThresholdsSound'
  <2>1. PICK row \in TaskRows :
        /\ Disturbing(a, None) /\ UNCHANGED <<judge, commits, scores, event>>
        /\ Len(tasks) < MaxTasks /\ tasks' = Append(tasks, row)
    <3>1. OpenTask \in TaskRows
      BY JudgeAssumption DEF OpenTask, TaskRows
    <3>. QED
      BY <1>6, <3>1 DEF CreateDraftReview, CreateReview, AddTask, feed
  <2>2. Len(tasks') <= MaxTasks
    BY <1>5, <2>1
  <2>. QED
    BY <1>1, <1>3, <1>4, <1>5, <2>1, <2>2
<1>7. ASSUME NEW a \in Agents, NEW status, RecordScore(a, status)
      PROVE  JudgeTyped' /\ ThresholdsSound'
  <2>1. /\ Disturbing(a, None) /\ UNCHANGED <<judge, commits, tasks, event>>
        /\ Len(scores) < MaxScores /\ scores' = Append(scores, status)
    BY <1>7 DEF RecordScore, feed
  <2>2. Len(scores') <= MaxScores
    BY <1>5, <2>1
  <2>. QED
    BY <1>1, <1>3, <1>4, <1>5, <2>1, <2>2
<1>8. ASSUME NEW a \in Agents, NEW i \in DOMAIN scores, ScrubScore(a, i)
      PROVE  JudgeTyped' /\ ThresholdsSound'
  <2>1. /\ Disturbing(a, None) /\ UNCHANGED <<judge, commits, tasks, event>>
        /\ scores' = RemoveAt(scores, i)
    BY <1>8 DEF ScrubScore, feed
  <2>2. Len(scores') <= MaxScores
    <3>1. /\ SubSeq(scores, 1, i - 1) \in Seq({"succeeded", "invalid_output"})
          /\ SubSeq(scores, i + 1, Len(scores)) \in Seq({"succeeded", "invalid_output"})
          /\ Len(SubSeq(scores, 1, i - 1)) = i - 1
          /\ Len(SubSeq(scores, i + 1, Len(scores))) = Len(scores) - i
      BY <1>5, SubSeqProperties
    <3>2. PICK before, after : /\ before = SubSeq(scores, 1, i - 1)
                               /\ after = SubSeq(scores, i + 1, Len(scores))
      OBVIOUS
    <3>3. scores' = before \o after
      BY <2>1, <3>2 DEF RemoveAt
    <3>4. /\ before \in Seq({"succeeded", "invalid_output"}) /\ Len(before) = i - 1
          /\ after \in Seq({"succeeded", "invalid_output"}) /\ Len(after) = Len(scores) - i
      BY <3>1, <3>2
    <3>5. Len(before \o after) = Len(before) + Len(after)
      BY <3>4, ConcatProperties
    <3>6. i \in 1 .. Len(scores) /\ Len(scores) \in Nat
      BY <1>5
    <3>7. Len(scores') = Len(scores) - 1
      BY <3>3, <3>4, <3>5, <3>6
    <3>. QED
      BY <1>5, <3>6, <3>7
  <2>. QED
    BY <1>1, <1>3, <1>4, <1>5, <2>1, <2>2
<1>9. ASSUME NEW a \in Agents, NEW i \in DOMAIN tasks, NEW status \in Statuses \union {None},
             NEW decision \in Decisions \union {None, "kept"}, StartPatch(a, i, status, decision)
      PROVE  JudgeTyped' /\ ThresholdsSound'
  <2>1. PICK q : q = [at |-> "patch", quiet |-> FALSE, value |-> None, task |-> i, read |-> tasks[i],
                      crossed |-> FALSE, status |-> status, decision |-> decision]
    OBVIOUS
  <2>2. tasks[i] \in TaskRows /\ i \in Nat
    BY <1>5
  <2>3. q \in Patches /\ q.at = "patch"
    BY <2>1, <2>2 DEF Patches
  <2>4. Goes(a, q) /\ UNCHANGED <<judge, commits, scores, tasks, event>>
    BY <1>9, <2>1 DEF StartPatch, evidence, feed
  <2>. QED
    BY <1>3, <1>4, <1>5, <2>3, <2>4
<1>10. ASSUME NEW a \in Agents, WritePatch(a)
       PROVE  JudgeTyped' /\ ThresholdsSound'
  <2>1. UNCHANGED <<judge, commits, scores, event>>
    BY <1>10 DEF WritePatch, feed
  <2>2. Len(tasks') = Len(tasks)
    <3>1. PICK i, row : tasks' = [tasks EXCEPT ![i] = row]
      BY <1>10 DEF WritePatch
    <3>. QED
      BY <1>5, <3>1
  <2>. QED
    BY <1>4, <1>5, <1>10, <2>1, <2>2, ThresholdsPast
<1>11. ASSUME NEW a \in Agents, NEW policy \in Policies, StartPromotion(a, policy)
       PROVE  JudgeTyped' /\ ThresholdsSound'
  <2>1. PICK q : q = [at |-> "labels", quiet |-> TRUE, value |-> None, policy |-> policy,
                      clear |-> WellScored(scores)]
    OBVIOUS
  <2>2. q \in Promotions /\ q.at = "labels"
    BY <2>1 DEF Promotions, WellScored
  <2>3. Goes(a, q) /\ UNCHANGED <<judge, commits, scores, tasks, event>>
    BY <1>11, <2>1 DEF StartPromotion, evidence, feed
  <2>. QED
    BY <1>3, <1>4, <1>5, <2>2, <2>3
<1>12. ASSUME NEW a \in Agents, ReadLabels(a) \/ ReadOpen(a) \/ Activate(a)
       PROVE  JudgeTyped' /\ ThresholdsSound'
  <2>1. UNCHANGED <<commits, scores, tasks, event>> /\ judge' \in {judge, "active"}
    BY <1>12 DEF ReadLabels, ReadOpen, Activate, evidence, feed
  <2>2. \E next : Goes(a, next) /\ (next = None \/ next \in Promotions)
    BY <1>12, PromotionTurns, Zenon
  <2>3. PICK next : Goes(a, next) /\ (next = None \/ (next \in Promotions /\ next.at \in {"labels", "open", "activate"}))
    BY <2>2, Kinds
  <2>4. ThresholdsSound'
    BY <1>1, <1>3, <2>1, <2>3
  <2>. QED
    BY <1>4, <1>5, <2>1, <2>4
<1>13. ASSUME NEW a \in Agents, StartDisable(a) \/ DisableJudge(a) \/ AgentStops(a)
       PROVE  JudgeTyped' /\ ThresholdsSound'
  <2>1. UNCHANGED <<commits, scores, tasks, event>> /\ judge' \in {judge, "disabled"}
    BY <1>13 DEF StartDisable, DisableJudge, AgentStops, evidence, feed
  <2>2. Ordinary(Request("disable", None)) /\ Request("disable", None).at = "disable"
    BY DEF Ordinary, Request
  <2>3. Goes(a, Request("disable", None)) \/ Disturbing(a, None) \/ Goes(a, None)
    BY <1>13 DEF StartDisable, DisableJudge, AgentStops
  <2>4. ThresholdsSound'
    BY <1>1, <1>3, <2>1, <2>2, <2>3
  <2>. QED
    BY <1>4, <1>5, <2>1, <2>4
<1>14. ASSUME NEW a \in Agents, PollThreshold(a) \/ VerifyRaise(a)
       PROVE  JudgeTyped' /\ ThresholdsSound'
  <2>1. EventSound' /\ UNCHANGED <<judge, commits, scores, tasks, agents>>
    BY <1>14, EventPolled
  <2>. QED
    BY <2>1 DEF JudgeTyped, Thresholds, ThresholdsSound, ThresholdSound
<1>15. ASSUME NEW a \in Agents, PollDrift(a)
       PROVE  UNCHANGED <<judge, commits, scores, tasks, event, agents>>
  BY <1>15 DEF PollDrift, evidence
<1>16. CASE UNCHANGED <<judge, commits, scores, tasks, event, agents>>
  BY <1>16 DEF JudgeTyped, Thresholds, ThresholdsSound, ThresholdSound, EventSound
<1>17. CASE UNCHANGED judgeVars
  BY <1>16, <1>17 DEF judgeVars
<1>. QED
  BY <1>6, <1>7, <1>8, <1>9, <1>10, <1>11, <1>12, <1>13, <1>14, <1>15, <1>16, <1>17, ThresholdsOf, Zenon
     DEF JudgeNext, Thresholds

(* However reviews, promotions, raises and the feed interleave, the judge, its versions and
   the event that proposes a threshold are of their types. *)
THEOREM JudgeTyping == JudgeSpec => []JudgeTypeOK
<1>1. JudgeInit => JudgeTyped /\ ThresholdsSound
  <2>. SUFFICES ASSUME JudgeInit PROVE JudgeTyped /\ ThresholdsSound
    OBVIOUS
  <2>1. commits \in Seq(Thresholds) /\ Len(commits) = 0 /\ Len(scores) = 0 /\ Len(tasks) = 0
    BY DEF JudgeInit
  <2>2. {MaxScores, MaxTasks, MaxCommits} \subseteq Nat
    BY JudgeAssumption
  <2>. QED
    BY <2>1, <2>2 DEF JudgeInit, JudgeTyped, ThresholdsSound
<1>2. JudgeRows /\ JudgeTyped => JudgeTypeOK
  BY DEF JudgeRows, JudgeTyped, Thresholds, EventSound, JudgeTypeOK
<1>3. JudgeSpec => [](JudgeRows /\ RulingsSound)
  <2>1. JudgeRows /\ RulingsSound /\ [JudgeNext]_judgeVars => JudgeRows' /\ RulingsSound'
    BY RowsStep, DecisionsStep
  <2>. QED
    BY <2>1, JudgeStart, PTL DEF JudgeSpec
<1>. QED
  BY <1>1, <1>2, <1>3, JudgeTypedStep, PTL DEF JudgeSpec

-----------------------------------------------------------------------------
(* The types of a registry. *)

\* A request has a draft of one of the numbers there are or of the next, or the row it
\* stored.
CommitSound(q) ==
  q # None =>
    /\ q.at \in {"insert", "stored", "decrypted", "logged"}
    /\ q.at = "insert" => q.number \in 0 .. (Len(versions) + 1) /\ q.content \in Contents
    /\ q.at = "stored" => q.row \in DOMAIN versions

VersionsTyped ==
  /\ Len(versions) <= MaxVersions
  /\ \A i \in DOMAIN versions :
       versions[i].number \in 0 .. Len(versions) /\ versions[i].content \in Contents
  /\ audits \subseteq DOMAIN versions

CommitsTyped == \A c \in Committers : CommitSound(committers[c])

\* A request keeps the rows, or adds one of a number that is at most their count.
LEMMA CommitKept ==
  ASSUME Shape, VersionsTyped, CommitsTyped, NEW c \in Committers, NEW q, Turn(c, q),
         versions' = versions, audits' = audits, CommitSound(q)
  PROVE  VersionsTyped' /\ CommitsTyped'
<1>1. CommitSound(q)'
  BY DEF CommitSound
<1>2. \A d \in Committers : committers'[d] = IF d = c THEN q ELSE committers[d]
  BY TurnTaken
<1>3. ASSUME NEW d \in Committers PROVE CommitSound(committers[d])'
  <2>1. CASE d = c
    BY <1>1, <1>2, <2>1 DEF CommitSound
  <2>2. CASE d # c
    <3>1. CommitSound(committers[d]) /\ committers'[d] = committers[d]
      BY <1>2, <2>2 DEF CommitsTyped
    <3>. QED
      BY <3>1 DEF CommitSound
  <2>. QED
    BY <2>1, <2>2
<1>4. VersionsTyped'
  BY DEF VersionsTyped
<1>. QED
  BY <1>3, <1>4 DEF CommitsTyped

LEMMA CommitStored ==
  ASSUME Shape, VersionsTyped, CommitsTyped, NEW c \in Committers, Busy(c, "insert"),
         StoreVersion(committers[c]), Stored(c), Room, audits' = audits
  PROVE  VersionsTyped' /\ CommitsTyped'
<1>. DEFINE q == committers[c]
            n == Len(versions)
            row == [number |-> q.number, commit |-> q.commit, content |-> q.content]
<1>1. PICK S : versions \in Seq(S)
  BY DEF Shape
<1>2. versions' = Append(versions, row)
  BY DEF StoreVersion
<1>3. /\ n \in Nat /\ Len(versions') = n + 1
      /\ DOMAIN versions = 1 .. n /\ DOMAIN versions' = 1 .. (n + 1)
      /\ \A i \in 1 .. n : versions'[i] = versions[i]
      /\ versions'[n + 1] = row
  BY <1>1, <1>2, AppendedRow
<1>4. q.number \in 0 .. (n + 1) /\ q.content \in Contents
  BY DEF CommitsTyped, CommitSound, Busy
<1>5. n + 1 <= MaxVersions
  BY <1>3, RegistryAssumption DEF Room
<1>6. \A i \in DOMAIN versions' :
        versions'[i].number \in 0 .. (n + 1) /\ versions'[i].content \in Contents
  BY <1>3, <1>4 DEF VersionsTyped
<1>7. VersionsTyped'
  BY <1>3, <1>5, <1>6 DEF VersionsTyped
<1>8. \A d \in Committers :
        committers'[d] = IF d = c THEN [at |-> "stored", row |-> n + 1] ELSE committers[d]
  BY <1>3, TurnTaken DEF Stored
<1>9. ASSUME NEW d \in Committers PROVE CommitSound(committers[d])'
  <2>1. CASE d = c
    BY <1>3, <1>8, <2>1 DEF CommitSound
  <2>2. CASE d # c
    <3>1. CommitSound(committers[d]) /\ committers'[d] = committers[d]
      BY <1>8, <2>2 DEF CommitsTyped
    <3>. QED
      BY <1>3, <3>1 DEF CommitSound
  <2>. QED
    BY <2>1, <2>2
<1>. QED
  BY <1>7, <1>9 DEF CommitsTyped

\* The number after the latest is at most one more than there are versions.
LEMMA LatestWithin ==
  ASSUME Shape, Identified, VersionsTyped, entity # None,
         entity.kind \in {"judge", "agent_config"}
  PROVE  Latest + 1 \in 0 .. (Len(versions) + 1)
<1>1. PICK m \in Nat : Numbers = 1 .. m
  BY DEF Identified, Gapless
<1>2. Latest = m
  BY <1>1, LatestOfGapless
<1>3. Len(versions) \in Nat
  BY DEF Shape
<1>4. m <= Len(versions)
  <2>1. CASE m = 0
    BY <1>3, <2>1
  <2>2. CASE m # 0
    <3>1. m \in Numbers
      BY <1>1, <2>2
    <3>2. Numbers \subseteq 0 .. Len(versions)
      BY DEF Numbers, VersionsTyped
    <3>. QED
      BY <1>3, <3>1, <3>2
  <2>. QED
    BY <2>1, <2>2
<1>. QED
  BY <1>2, <1>3, <1>4

LEMMA CommitTypes ==
  ASSUME Shape, Identified, SecretSound, VersionsTyped, CommitsTyped,
         NEW c \in Committers, RequestStep(c)
  PROVE  VersionsTyped' /\ CommitsTyped'
<1>1. Len(versions) \in Nat /\ entity # None
  BY Steps DEF Shape
<1>2. CommitSound(None) /\ CommitSound([at |-> "decrypted"]) /\ CommitSound([at |-> "logged"])
  BY DEF CommitSound
<1>3. ASSUME NEW number \in 0 .. (Len(versions) + 1), NEW commit, NEW content \in Contents,
             NEW asked
      PROVE  CommitSound(Draft(number, commit, content, asked))
  BY <1>3 DEF CommitSound, Draft
<1>4. ASSUME NEW content \in Contents,
             NEW parent \in Commits \union {None}, NEW asked \in Tagged,
             PreparePrompt(c, content, parent, asked)
      PROVE  VersionsTyped' /\ CommitsTyped'
  <2>1. CommitSound(Draft(0, <<content, parent>>, content, asked))
    BY <1>1, <1>3
  <2>. QED
    BY <1>4, <2>1, CommitKept DEF PreparePrompt
<1>5. ASSUME NEW content \in Contents, NEW asked \in Tagged, PrepareConfig(c, content, asked)
      PROVE  VersionsTyped' /\ CommitsTyped'
  <2>1. Latest + 1 \in 0 .. (Len(versions) + 1)
    BY <1>1, <1>5, LatestWithin DEF PrepareConfig, Start
  <2>2. CommitSound(Draft(Latest + 1, <<content, Latest + 1>>, content, asked))
    BY <1>3, <2>1
  <2>. QED
    BY <1>5, <2>2, CommitKept DEF PrepareConfig
<1>6. ASSUME NEW content \in Contents, PrepareJudge(c, content)
      PROVE  VersionsTyped' /\ CommitsTyped'
  <2>1. Latest + 1 \in 0 .. (Len(versions) + 1)
    BY <1>1, <1>6, LatestWithin DEF PrepareJudge, Start
  <2>2. CommitSound(Draft(Latest + 1, None, content, None))
    BY <1>3, <2>1
  <2>. QED
    BY <1>6, <2>2, CommitKept DEF PrepareJudge
<1>7. ASSUME NEW content \in Contents, ReadSecretRow(c, content)
      PROVE  VersionsTyped' /\ CommitsTyped'
  <2>1. head.number = Len(versions)
    BY <1>7 DEF ReadSecretRow, Start, SecretSound, Secret
  <2>2. head.number + 1 \in 0 .. (Len(versions) + 1)
    BY <1>1, <2>1
  <2>3. CommitSound(Draft(head.number + 1, None, content, None))
    BY <1>3, <2>2
  <2>. QED
    BY <1>7, <2>3, CommitKept DEF ReadSecretRow
<1>8. ASSUME Refused(c), audits' = audits PROVE VersionsTyped' /\ CommitsTyped'
  BY <1>2, <1>8, CommitKept DEF Refused
<1>9. CASE InsertPromptVersion(c)
  BY <1>8, <1>9, CommitStored DEF InsertPromptVersion
<1>10. CASE InsertConfigVersion(c)
  BY <1>10, CommitStored DEF InsertConfigVersion
<1>11. CASE InsertJudgeVersion(c)
  BY <1>8, <1>11, CommitStored DEF InsertJudgeVersion
<1>12. CASE RotateSecret(c)
  BY <1>8, <1>12, CommitStored DEF RotateSecret
<1>13. CASE AuditVersion(c)
  <2>1. Turn(c, None) /\ versions' = versions /\ audits' = audits \union {committers[c].row}
    BY <1>13 DEF AuditVersion
  <2>2. committers[c].row \in DOMAIN versions
    BY <1>13 DEF AuditVersion, Busy, CommitsTyped, CommitSound
  <2>3. VersionsTyped'
    BY <2>1, <2>2 DEF VersionsTyped
  <2>4. \A d \in Committers : committers'[d] = None \/ committers'[d] = committers[d]
    BY <2>1, TurnTaken
  <2>5. CommitsTyped'
    BY <2>1, <2>4 DEF CommitsTyped, CommitSound
  <2>. QED
    BY <2>3, <2>5
<1>14. CASE DecryptSecret(c) \/ LogAccess(c)
  BY <1>2, <1>14, CommitKept DEF DecryptSecret, LogAccess
<1>15. CASE AnswerPlaintext(c) \/ CommitStops(c)
  BY <1>2, <1>15, CommitKept DEF AnswerPlaintext, CommitStops
<1>. QED
  BY <1>4, <1>5, <1>6, <1>7, <1>9, <1>10, <1>11, <1>12, <1>13, <1>14, <1>15 DEF RequestStep

LEMMA VersionTypes ==
  ASSUME Shape, Identified, SecretSound, VersionsTyped, CommitsTyped,
         [RegistryNext]_registryVars
  PROVE  VersionsTyped' /\ CommitsTyped'
<1>1. CASE UNCHANGED registryVars
  BY <1>1 DEF VersionsTyped, CommitsTyped, CommitSound, registryVars
<1>2. CASE CreateJudge \/ \E initial \in {None, <<"elsewhere">>} :
                            CreatePrompt(initial) \/ CreateAgentConfig(initial)
  BY <1>2 DEF CreateJudge, CreatePrompt, CreateAgentConfig, VersionsTyped, CommitsTyped,
     CommitSound
<1>3. ASSUME NEW content \in Contents, CreateSecret(content)
      PROVE  VersionsTyped' /\ CommitsTyped'
  <2>1. /\ versions' = <<[number |-> 1, commit |-> None, content |-> content]>>
        /\ committers' = committers /\ audits' = audits /\ entity = None
    BY <1>3 DEF CreateSecret
  <2>2. /\ Len(versions') = 1 /\ DOMAIN versions' = {1}
        /\ versions'[1].number = 1 /\ versions'[1].content = content
    BY <2>1
  <2>3. \A c \in Committers : committers[c] = None
    BY <2>1 DEF Shape
  <2>4. audits = {}
    BY <2>1 DEF Identified, VersionsTyped
  <2>5. 1 <= MaxVersions
    BY RegistryAssumption
  <2>6. VersionsTyped'
    BY <2>1, <2>2, <2>4, <2>5 DEF VersionsTyped
  <2>7. CommitsTyped'
    BY <2>1, <2>3 DEF CommitsTyped, CommitSound
  <2>. QED
    BY <2>6, <2>7
<1>4. ASSUME NEW c \in Committers, RequestStep(c) PROVE VersionsTyped' /\ CommitsTyped'
  BY <1>4, CommitTypes
<1>. QED
  BY <1>1, <1>2, <1>3, <1>4, Zenon DEF RegistryNext, RequestStep

\* A secret has a row of its own from its creation on.
SecretHeld == Secret => head \in [number : 1 .. MaxVersions, content : Contents]

LEMMA SecretHeldStep ==
  ASSUME Shape, Identified, SecretSound, VersionsTyped, CommitsTyped, SecretHeld,
         [RegistryNext]_registryVars
  PROVE  SecretHeld'
<1>1. CASE UNCHANGED registryVars
  BY <1>1 DEF SecretHeld, Secret, registryVars
<1>2. CASE CreateJudge \/ \E initial \in {None, <<"elsewhere">>} :
                            CreatePrompt(initial) \/ CreateAgentConfig(initial)
  BY <1>2 DEF CreateJudge, CreatePrompt, CreateAgentConfig, SecretHeld, Secret
<1>3. ASSUME NEW content \in Contents, CreateSecret(content) PROVE SecretHeld'
  BY <1>3, RegistryAssumption DEF CreateSecret, SecretHeld
<1>4. ASSUME NEW c \in Committers, RequestStep(c) PROVE SecretHeld'
  <2>1. Secret' = Secret
    BY <1>4, Steps DEF Secret
  <2>2. CASE ~Secret
    BY <2>1, <2>2 DEF SecretHeld
  <2>3. CASE head' = head
    BY <2>1, <2>3 DEF SecretHeld
  <2>4. ASSUME Secret, Busy(c, "insert"), NEW row, versions' = Append(versions, row),
               head' = [number |-> committers[c].number, content |-> committers[c].content]
        PROVE  SecretHeld'
    <3>1. committers[c].number \in 1 .. (Len(versions) + 1) /\ committers[c].content \in Contents
      BY <2>4 DEF SecretSound, CommitsTyped, CommitSound, Busy
    <3>2. Len(versions) \in Nat /\ Len(versions') = Len(versions) + 1
      BY <2>4, AppendedRow DEF Shape
    <3>3. Len(versions') <= MaxVersions
      BY <1>4, CommitTypes DEF VersionsTyped
    <3>4. committers[c].number \in 1 .. MaxVersions
      BY <3>1, <3>2, <3>3, RegistryAssumption
    <3>. QED
      BY <2>4, <3>1, <3>4 DEF SecretHeld
  <2>. QED
    BY <1>4, <2>2, <2>3, <2>4, SecretRequests
<1>. QED
  BY <1>1, <1>2, <1>3, <1>4, Zenon DEF RegistryNext, RequestStep

\* The readers whose access is still to be logged.
Reading == {c \in Committers : Busy(c, "decrypted")}

\* A read begins while the log has room: it may get over its bound by those in flight.
ReadsBounded == accessLog + Cardinality(Reading) <= MaxReads + Cardinality(Committers)

LEMMA ReadingSteps ==
  ASSUME Shape, NEW c \in Committers, RequestStep(c)
  PROVE  \/ accessLog' = accessLog /\ Reading' \subseteq Reading
         \/ /\ accessLog' = accessLog /\ accessLog < MaxReads
         \/ /\ accessLog' = accessLog + 1
            /\ c \in Reading /\ Reading' \subseteq Reading \ {c}
<1>1. /\ \A q : Turn(c, q) => committers'[c] = q
      /\ \A d \in Committers \ {c} : committers'[d] = committers[d]
  BY Steps, TurnTaken
<1>2. ASSUME ~Busy(c, "decrypted")' PROVE Reading' \subseteq Reading \ {c}
  BY <1>1, <1>2 DEF Reading, Busy
<1>3. CASE \E content \in Contents :
             \/ \E parent \in Commits \union {None}, asked \in Tagged :
                  PreparePrompt(c, content, parent, asked)
             \/ \E asked \in Tagged : PrepareConfig(c, content, asked)
             \/ PrepareJudge(c, content)
             \/ ReadSecretRow(c, content)
  <2>1. /\ accessLog' = accessLog
        /\ \E number, commit, content, asked : Turn(c, Draft(number, commit, content, asked))
    BY <1>3, Zenon DEF PreparePrompt, PrepareConfig, PrepareJudge, ReadSecretRow
  <2>2. ~Busy(c, "decrypted")'
    BY <1>1, <2>1 DEF Busy, Draft
  <2>. QED
    BY <1>2, <2>1, <2>2
<1>4. CASE InsertPromptVersion(c) \/ InsertConfigVersion(c) \/ InsertJudgeVersion(c)
           \/ RotateSecret(c)
  <2>1. accessLog' = accessLog /\ (Turn(c, None) \/ Stored(c))
    BY <1>4 DEF InsertPromptVersion, InsertConfigVersion, InsertJudgeVersion, RotateSecret,
       Refused
  <2>2. ~Busy(c, "decrypted")'
    BY <1>1, <2>1 DEF Busy, Stored
  <2>. QED
    BY <1>2, <2>1, <2>2
<1>5. CASE AuditVersion(c) \/ CommitStops(c) \/ AnswerPlaintext(c)
  <2>1. accessLog' = accessLog /\ Turn(c, None)
    BY <1>5 DEF AuditVersion, CommitStops, AnswerPlaintext
  <2>2. ~Busy(c, "decrypted")'
    BY <1>1, <2>1 DEF Busy
  <2>. QED
    BY <1>2, <2>1, <2>2
<1>6. CASE DecryptSecret(c)
  BY <1>6 DEF DecryptSecret
<1>7. CASE LogAccess(c)
  <2>1. c \in Reading /\ accessLog' = accessLog + 1 /\ Turn(c, [at |-> "logged"])
    BY <1>7 DEF LogAccess, LogRead, Reading
  <2>2. ~Busy(c, "decrypted")'
    BY <1>1, <2>1 DEF Busy
  <2>. QED
    BY <1>2, <2>1, <2>2
<1>. QED
  BY <1>3, <1>4, <1>5, <1>6, <1>7 DEF RequestStep

LEMMA ReadsBoundedStep ==
  ASSUME IsFiniteSet(Committers), Shape, ReadsSound, ReadsBounded, [RegistryNext]_registryVars
  PROVE  ReadsBounded'
<1>1. /\ IsFiniteSet(Reading) /\ Cardinality(Reading) \in Nat
      /\ IsFiniteSet(Reading') /\ Cardinality(Reading') \in Nat
      /\ Cardinality(Reading') <= Cardinality(Committers)
      /\ Cardinality(Committers) \in Nat
  BY FS_Subset, FS_CardinalityType DEF Reading
<1>2. accessLog \in Nat /\ MaxReads \in Nat
  BY RegistryAssumption DEF ReadsSound
<1>3. ASSUME Reading' \subseteq Reading, accessLog' = accessLog PROVE ReadsBounded'
  <2>1. Cardinality(Reading') <= Cardinality(Reading)
    BY <1>1, <1>3, FS_Subset
  <2>. QED
    BY <1>1, <1>2, <1>3, <2>1 DEF ReadsBounded
<1>4. CASE UNCHANGED registryVars
  BY <1>3, <1>4 DEF registryVars, Reading, Busy
<1>5. CASE RegistryNext /\ ~\E c \in Committers : RequestStep(c)
  <2>1. UNCHANGED <<committers, accessLog>>
    BY <1>5, Creation
  <2>. QED
    BY <1>3, <2>1 DEF Reading, Busy
<1>6. ASSUME NEW c \in Committers, RequestStep(c) PROVE ReadsBounded'
  <2>1. CASE accessLog' = accessLog /\ accessLog < MaxReads
    BY <1>1, <1>2, <2>1 DEF ReadsBounded
  <2>2. CASE accessLog' = accessLog + 1 /\ c \in Reading /\ Reading' \subseteq Reading \ {c}
    <3>1. IsFiniteSet(Reading \ {c}) /\ Cardinality(Reading \ {c}) = Cardinality(Reading) - 1
      BY <1>1, <2>2, FS_RemoveElement
    <3>2. Cardinality(Reading') <= Cardinality(Reading \ {c})
      BY <2>2, <3>1, FS_Subset
    <3>. QED
      BY <1>1, <1>2, <2>2, <3>1, <3>2 DEF ReadsBounded
  <2>. QED
    BY <1>3, <1>6, <2>1, <2>2, ReadingSteps
<1>. QED
  BY <1>4, <1>5, <1>6

\* For any finite number of requests, the tables of a registry are of their types:
\* every number is within the count of versions, whatever commits raced, an audit
\* entry is of a stored version, only a secret has a row of its own, and the log of
\* reads is over its bound by no more than the requests in flight.
THEOREM RegistryTyping ==
  ASSUME IsFiniteSet(Committers)
  PROVE  RegistrySpec => []RegistryTypeOK
<1>. DEFINE IInv == /\ Identified /\ SecretSound /\ VersionsTyped /\ CommitsTyped
                    /\ SecretHeld /\ ReadsSound /\ ReadsBounded
<1>1. RegistryInit => IInv
  <2>. SUFFICES ASSUME RegistryInit PROVE IInv
    OBVIOUS
  <2>1. Logged = {} /\ Reading = {}
    BY DEF RegistryInit, Logged, Reading, Busy
  <2>2. ReadsSound /\ ReadsBounded
    BY <2>1, FS_EmptySet, FS_CardinalityType, RegistryAssumption
       DEF RegistryInit, ReadsSound, ReadsBounded
  <2>3. VersionsTyped /\ CommitsTyped
    BY RegistryAssumption DEF RegistryInit, VersionsTyped, CommitsTyped, CommitSound
  <2>. QED
    BY <2>2, <2>3 DEF RegistryInit, Identified, SecretSound, SecretHeld, Secret
<1>2. Shape /\ IInv /\ [RegistryNext]_registryVars => IInv'
  BY IdentifiedStep, SecretStep, VersionTypes, SecretHeldStep, ReadsStep, ReadsBoundedStep
<1>3. Shape /\ IInv => RegistryTypeOK
  <2>. SUFFICES ASSUME Shape, IInv PROVE RegistryTypeOK
    OBVIOUS
  <2>1. /\ Cardinality(Reading) \in Nat /\ Cardinality(Logged) \in Nat
        /\ Cardinality(Committers) \in Nat
    BY FS_Subset, FS_CardinalityType DEF Reading, Logged
  <2>2. {accessLog, answers} \subseteq 0 .. MaxReads + Cardinality(Committers)
    BY <2>1, RegistryAssumption DEF ReadsSound, ReadsBounded
  <2>3. \A i \in DOMAIN versions :
          versions[i].number \in 0 .. MaxVersions /\ versions[i].content \in Contents
    <3>1. Len(versions) \in Nat
      BY DEF Shape
    <3>. QED
      BY <3>1, RegistryAssumption DEF VersionsTyped
  <2>4. entity # None => entity.kind \in EntityKinds
    BY DEF Identified
  <2>5. head # None <=> entity # None /\ entity.kind = "secret"
    BY EntityAssumption DEF SecretSound, SecretHeld, Secret
  <2>6. \A c \in Committers : committers[c] # None =>
          committers[c].at \in {"insert", "stored", "decrypted", "logged"}
    BY DEF CommitsTyped, CommitSound
  <2>7. audits \subseteq DOMAIN versions
    BY DEF VersionsTyped
  <2>. QED
    BY <2>2, <2>3, <2>4, <2>5, <2>6, <2>7 DEF RegistryTypeOK
<1>. QED
  BY <1>1, <1>2, <1>3, ShapeAlways, PTL DEF RegistrySpec
-----------------------------------------------------------------------------
(* The five together. *)

\* For any finite number of requests: the five keep their types, each under its own
\* next-state relation, since none has a variable of another.
THEOREM GovernanceTyped ==
  ASSUME IsFiniteSet(Committers)
  PROVE  RegistrySpec /\ IdentitySpec /\ JudgeSpec /\ FidelitySpec /\ Spec => []GovernanceTypeOK
<1>1. /\ RegistryTypeOK /\ JudgeTypeOK /\ FidelityTypeOK /\ TypeOK
      /\ IdentityTypeOK /\ KeysHaveAccounts /\ MembersAreUsers
      => GovernanceTypeOK
  BY DEF GovernanceTypeOK
<1>. QED
  BY <1>1, RegistryTyping, JudgeTyping, FidelityTyping, Typing, Directory, PTL
====
