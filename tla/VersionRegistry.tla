--------------------------- MODULE VersionRegistry ---------------------------
(***************************************************************************)
(* One versioned entity: a prompt, an agent config, a judge or a secret,   *)
(* its versions, its tag with the history of the tag, and the log of who   *)
(* read a secret.                                                          *)
(*                                                                         *)
(* sqlite takes the write lock at the first INSERT or UPDATE of a          *)
(* transaction, so a commit is two steps: what it SELECTs before its first *)
(* write, and the write with all that follows.  The tag is read after the  *)
(* INSERT, under the lock.                                                 *)
(*                                                                         *)
(* A hash is taken to be injective: a commit id is what it is the hash of. *)
(***************************************************************************)
EXTENDS Values, Naturals, FiniteSets, SequencesExt

CONSTANTS Contents,    \* templates, config contents, definitions, plaintexts
          Committers,  \* request threads of the API
          MaxVersions, \* bound: stored versions
          MaxReads     \* bound: reads of a secret

\* A secret is created with its first version.
ASSUME RegistryAssumption ==
  /\ MaxVersions \in Nat \ {0} /\ MaxReads \in Nat
  /\ None \notin Contents

EntityKinds == {"prompt", "agent_config", "judge", "secret"}

\* NULL is no row.
ASSUME EntityAssumption ==
  /\ \A kind \in EntityKinds, initial \in {None, <<"elsewhere">>} :
       None # [kind |-> kind, tag |-> initial]
  /\ None \notin [number : 1 .. MaxVersions, content : Contents]

VARIABLES entity,     \* kind of the row of prompts, agent_configs, judges, secret_refs
          versions,   \* its rows of ..._versions, in the order of their INSERT
          head,       \* current_version and ciphertext of the secret
          tag,        \* the commit of the tag, in tags_json
          tagEvents,  \* the rows of ..._tag_events
          committers, \* the requests in flight
          audits,     \* the versions with an audit entry
          accessLog,  \* how many reads secret_access_log has
          answers     \* and how many were answered with the plaintext

registryVars == <<entity, versions, head, tag, tagEvents, committers, audits,
                  accessLog, answers>>

RegistryInit ==
  /\ entity = None
  /\ versions = <<>> /\ head = None
  /\ tag = None /\ tagEvents = <<>>
  /\ committers = [c \in Committers |-> None]
  /\ audits = {}
  /\ accessLog = 0 /\ answers = 0

Busy(c, step) == committers[c] # None /\ committers[c].at = step
Turn(c, q) == committers' = [committers EXCEPT ![c] = q]

Start(c, kind) ==
  /\ committers[c] = None
  /\ entity # None /\ entity.kind = kind

Tagged == {None, "stable"}

-----------------------------------------------------------------------------
(* Creation.  The tags of the request are stored as they are. *)

CreatePrompt(initial) ==
  /\ entity = None
  /\ entity' = [kind |-> "prompt", tag |-> initial]
  /\ tag' = initial
  /\ UNCHANGED <<versions, head, tagEvents, committers, audits, accessLog, answers>>

CreateAgentConfig(initial) ==
  /\ entity = None
  /\ entity' = [kind |-> "agent_config", tag |-> initial]
  /\ tag' = initial
  /\ UNCHANGED <<versions, head, tagEvents, committers, audits, accessLog, answers>>

\* The first version of a judge, if any, is committed by a call of its own.
CreateJudge ==
  /\ entity = None
  /\ entity' = [kind |-> "judge", tag |-> None]
  /\ UNCHANGED <<versions, head, tag, tagEvents, committers, audits, accessLog, answers>>

\* The row of a secret and its first version are one transaction.
CreateSecret(content) ==
  /\ entity = None
  /\ entity' = [kind |-> "secret", tag |-> None]
  /\ versions' = <<[number |-> 1, commit |-> None, content |-> content]>>
  /\ head' = [number |-> 1, content |-> content]
  /\ UNCHANGED <<tag, tagEvents, committers, audits, accessLog, answers>>

-----------------------------------------------------------------------------
(* The versions. *)

Numbers == {versions[i].number : i \in DOMAIN versions}
Commits == {versions[i].commit : i \in DOMAIN versions}

\* SELECT COALESCE(MAX(version), 0)
Latest == Max(Numbers \union {0})

\* What the request will insert.  `asked` is its tag.
Draft(number, commit, content, asked) ==
  [at |-> "insert", number |-> number, commit |-> commit, content |-> content,
   asked |-> asked]

\* Fault: the event is made after the tag moved.
PreviousOfMoved(q) == q.commit

\* tags.get(tag), under the write lock.
PreviousCommit(q) == tag

\* _move_prompt_tag and _move_agent_config_tag.
MoveTag(q) ==
  IF q.asked = None THEN UNCHANGED <<tag, tagEvents>>
  ELSE /\ tag' = q.commit
       /\ tagEvents' = Append(tagEvents, [previous |-> PreviousCommit(q), new |-> q.commit])

StoreVersion(q) ==
  versions' = Append(versions, [number |-> q.number, commit |-> q.commit,
                                content |-> q.content])

Stored(c) == Turn(c, [at |-> "stored", row |-> Len(versions')])

\* The request ends with an error, and its transaction is rolled back.
Refused(c) ==
  /\ Turn(c, None)
  /\ UNCHANGED <<versions, head, tag, tagEvents>>

Room == Len(versions) < MaxVersions

\* The commit of a prompt is the hash of its content and of the parent it names.
PreparePrompt(c, content, parent, asked) ==
  /\ Start(c, "prompt")
  /\ Turn(c, Draft(0, <<content, parent>>, content, asked))
  /\ UNCHANGED <<entity, versions, head, tag, tagEvents, audits, accessLog, answers>>

\* Fault: commit_id is not UNIQUE.
NoCommitTaken(commit) == FALSE

\* prompt_versions.commit_id is UNIQUE.
CommitTaken(commit) == commit \in Commits

InsertPromptVersion(c) ==
  /\ Busy(c, "insert") /\ entity.kind = "prompt"
  /\ IF CommitTaken(committers[c].commit) THEN Refused(c)
     ELSE /\ Room
          /\ StoreVersion(committers[c]) /\ MoveTag(committers[c])
          /\ Stored(c) /\ UNCHANGED head
  /\ UNCHANGED <<entity, audits, accessLog, answers>>

\* The number is part of the hash.
PrepareConfig(c, content, asked) ==
  /\ Start(c, "agent_config")
  /\ Turn(c, Draft(Latest + 1, <<content, Latest + 1>>, content, asked))
  /\ UNCHANGED <<entity, versions, head, tag, tagEvents, audits, accessLog, answers>>

\* Nothing is UNIQUE in agent_config_versions.
InsertConfigVersion(c) ==
  /\ Busy(c, "insert") /\ entity.kind = "agent_config"
  /\ Room
  /\ StoreVersion(committers[c]) /\ MoveTag(committers[c])
  /\ Stored(c)
  /\ UNCHANGED <<entity, head, audits, accessLog, answers>>

PrepareJudge(c, content) ==
  /\ Start(c, "judge")
  /\ Turn(c, Draft(Latest + 1, None, content, None))
  /\ UNCHANGED <<entity, versions, head, tag, tagEvents, audits, accessLog, answers>>

\* Fault: the number is not UNIQUE.
NoNumberTaken(number) == FALSE

\* (judge_id, version) and (secret_ref, version) are UNIQUE.
NumberTaken(number) == number \in Numbers

InsertJudgeVersion(c) ==
  /\ Busy(c, "insert") /\ entity.kind = "judge"
  /\ IF NumberTaken(committers[c].number) THEN Refused(c)
     ELSE /\ Room /\ StoreVersion(committers[c]) /\ Stored(c)
          /\ UNCHANGED <<head, tag, tagEvents>>
  /\ UNCHANGED <<entity, audits, accessLog, answers>>

ReadSecretRow(c, content) ==
  /\ Start(c, "secret")
  /\ Turn(c, Draft(head.number + 1, None, content, None))
  /\ UNCHANGED <<entity, versions, head, tag, tagEvents, audits, accessLog, answers>>

\* The UPDATE of the row and the INSERT of the version are one transaction: a
\* refused INSERT takes the UPDATE back.
RotateSecret(c) ==
  /\ Busy(c, "insert") /\ entity.kind = "secret"
  /\ LET q == committers[c] IN
       IF NumberTaken(q.number) THEN Refused(c)
       ELSE /\ Room /\ StoreVersion(q) /\ Stored(c)
            /\ head' = [number |-> q.number, content |-> q.content]
            /\ UNCHANGED <<tag, tagEvents>>
  /\ UNCHANGED <<entity, audits, accessLog, answers>>

\* append_audit, a transaction of its own; a rotation is also an access.
AuditVersion(c) ==
  /\ Busy(c, "stored")
  /\ audits' = audits \union {committers[c].row}
  /\ Turn(c, None)
  /\ UNCHANGED <<entity, versions, head, tag, tagEvents, accessLog, answers>>

-----------------------------------------------------------------------------
(* POST /api/secrets/{ref}/resolve, and the rendering of a prompt with a secret. *)

DecryptSecret(c) ==
  /\ Start(c, "secret")
  /\ accessLog < MaxReads
  /\ Turn(c, [at |-> "decrypted"])
  /\ UNCHANGED <<entity, versions, head, tag, tagEvents, audits, accessLog, answers>>

\* Fault: the access is logged with the answer of the next one.
LogLater == accessLog' = answers

LogRead == accessLog' = accessLog + 1

\* append_secret_access, before the answer.
LogAccess(c) ==
  /\ Busy(c, "decrypted")
  /\ LogRead
  /\ Turn(c, [at |-> "logged"])
  /\ UNCHANGED <<entity, versions, head, tag, tagEvents, audits, answers>>

\* A rendering may still fail: a variable is missing.
AnswerPlaintext(c) ==
  /\ Busy(c, "logged")
  /\ answers' = answers + 1
  /\ Turn(c, None)
  /\ UNCHANGED <<entity, versions, head, tag, tagEvents, audits, accessLog>>

\* The process stops, the database stays busy, or a rendering fails.
CommitStops(c) ==
  /\ committers[c] # None
  /\ Turn(c, None)
  /\ UNCHANGED <<entity, versions, head, tag, tagEvents, audits, accessLog, answers>>

-----------------------------------------------------------------------------
RegistryNext ==
  \/ \E initial \in {None, <<"elsewhere">>} : CreatePrompt(initial) \/ CreateAgentConfig(initial)
  \/ CreateJudge
  \/ \E content \in Contents : CreateSecret(content)
  \/ \E c \in Committers :
       \/ \E content \in Contents :
            \/ \E parent \in Commits \union {None}, asked \in Tagged :
                 PreparePrompt(c, content, parent, asked)
            \/ \E asked \in Tagged : PrepareConfig(c, content, asked)
            \/ PrepareJudge(c, content)
            \/ ReadSecretRow(c, content)
       \/ InsertPromptVersion(c) \/ InsertConfigVersion(c)
       \/ InsertJudgeVersion(c) \/ RotateSecret(c) \/ AuditVersion(c)
       \/ DecryptSecret(c) \/ LogAccess(c) \/ AnswerPlaintext(c)
       \/ CommitStops(c)

RegistrySpec == RegistryInit /\ [][RegistryNext]_registryVars

-----------------------------------------------------------------------------
RegistryTypeOK ==
  /\ entity # None => entity.kind \in EntityKinds
  /\ \A i \in DOMAIN versions :
       versions[i].number \in 0 .. MaxVersions /\ versions[i].content \in Contents
  /\ head # None <=> entity # None /\ entity.kind = "secret"
  /\ \A c \in Committers : committers[c] # None =>
       committers[c].at \in {"insert", "stored", "decrypted", "logged"}
  /\ audits \subseteq DOMAIN versions
  /\ {accessLog, answers} \subseteq 0 .. MaxReads + Cardinality(Committers)

\* However commits interleave, a version is told from the others: judges and
\* secrets by gapless numbers, prompts by their commit; the numbers of agent
\* configs, of which two racing commits may take the same, have no gap.
VersionsIdentified ==
  entity # None =>
    CASE entity.kind \in {"judge", "secret"} ->
           \A i \in DOMAIN versions : versions[i].number = i
      [] entity.kind = "prompt" -> Cardinality(Commits) = Len(versions)
      [] entity.kind = "agent_config" -> Numbers = 1 .. Cardinality(Numbers)

\* The history of a tag is a chain from the tag it was created with to the one it
\* has, through versions that are stored.
TagHistoryIsAChain ==
  LET before(i) == IF i = 1 THEN entity.tag ELSE tagEvents[i - 1].new IN
    /\ \A i \in DOMAIN tagEvents :
         tagEvents[i].previous = before(i) /\ tagEvents[i].new \in Commits
    /\ entity # None => tag = before(Len(tagEvents) + 1)

\* What was stored when, and what a tag meant when, can be told from the tables.
HistoryAccounted == VersionsIdentified /\ TagHistoryIsAChain

\* The row of a secret is its newest version, also after rotations that raced.
SecretIsNewest ==
  head # None => /\ head.number = Len(versions)
                 /\ head.content = Last(versions).content

\* No plaintext was handed out that the access log does not tell of, wherever
\* requests stop.
EveryReadIsLogged == answers <= accessLog

\* What the platform holds of a secret: its value, and who has read it.
SecretsAccounted == SecretIsNewest /\ EveryReadIsLogged
=============================================================================
