---------------------------- MODULE MCGovernance ----------------------------
(* Instances of Governance for TLC: the five share no state, so a behavior is  *)
(* about one of them, at rest the others.                                      *)
EXTENDS Governance, MCIdentity, MCJudges, MCFidelity

Registries == {"versions"}
Identities == {"keys", "users", "invites"}
Judges == {"promotion", "threshold", "review"}
Fidelities == {"events", "requests", "baggage"}
Exporters == {"threads"}

\* A span of every kind, for the exporter.
MCPriority == [s \in Spans |-> CASE s = s2 -> "error" [] s = s3 -> "keep" [] OTHER -> "ok"]

\* A prompt whose tag starts somewhere has two versions.
RegistryAside ==
  /\ subject' = subject
  /\ entity # None => (entity.kind = "prompt" /\ entity.tag # None => Len(versions') <= 2)

GovernanceInit ==
  /\ RegistryInit /\ IdentityInit /\ JudgeInit /\ FidelityInit /\ Init
  /\ subject \in Registries \union Identities \union Judges \union Fidelities \union Exporters
  /\ subject \notin Fidelities =>
       sdk = (CHOOSE l \in SdkLimits : TRUE) /\ settings = (CHOOSE l \in ServerLimits : TRUE)

GovernanceNext ==
  \/ /\ subject \in Registries /\ RegistryNext /\ RegistryAside
     /\ UNCHANGED <<identityVars, judgeVars, fidelityVars, vars>>
  \/ /\ subject \in Identities /\ IdentityNext /\ IdentityAside
     /\ UNCHANGED <<registryVars, judgeVars, fidelityVars, vars>>
  \/ /\ subject \in Judges /\ JudgeNext /\ JudgeAside
     /\ UNCHANGED <<registryVars, identityVars, fidelityVars, vars>>
  \/ /\ subject \in Fidelities /\ FidelityNext /\ FidelityAside
     /\ UNCHANGED <<registryVars, identityVars, judgeVars, vars>>
  \/ /\ subject \in Exporters /\ Next
     /\ UNCHANGED <<subject, registryVars, identityVars, judgeVars, fidelityVars>>

GovernanceSpec ==
  GovernanceInit /\ [][GovernanceNext]_<<subject, registryVars, identityVars, judgeVars, fidelityVars, vars>>

\* The requests and threads in flight are alike, and so are the contents committed.
Alike == Permutations({w1, w2}) \union Permutations({x, y})
=============================================================================
