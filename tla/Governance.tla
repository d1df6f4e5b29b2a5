----------------------------- MODULE Governance -----------------------------
(* Version registries, identities, judges, what the SDK keeps of a span and    *)
(* the exporter under two threads: five parts that share no state.             *)
EXTENDS VersionRegistry, Identity, JudgeLifecycle, SpanFidelity, SdkExport

\* The rows of all five are of their types, keys name accounts and members name
\* users that are there.
GovernanceTypeOK ==
  /\ RegistryTypeOK /\ JudgeTypeOK /\ FidelityTypeOK /\ TypeOK
  /\ IdentityTypeOK /\ KeysHaveAccounts /\ MembersAreUsers
=============================================================================
