---------------------------- MODULE ReleaseLedger ----------------------------
(***************************************************************************)
(* The implementation of AdmissionLedger among others of its registry: as  *)
(* its evidence changes, what the resolver chooses and what an export      *)
(* ships.  The manifest may repeat the axes of the artifact wrongly, and   *)
(* declare any status: both are edited by hand as well as by promotion.    *)
(***************************************************************************)
EXTENDS AdmissionLedger, ReleaseGate

CONSTANTS
  Subject,    \* the implementation of the ledger
  Purpose,    \* its capability
  Rivals,     \* the manifests of the others, whose artifacts verify
  Documents,  \* the documents that are exported
  Policies, Profiles, Benches  \* what the resolver is called with

ASSUME ReleaseLedgerAssumption ==
  /\ Subject \in ImplId \ DOMAIN Rivals
  /\ DOMAIN Rivals \subseteq ImplId
  /\ \A id \in DOMAIN Rivals : Rivals[id] \in Manifest
  /\ \A doc \in Documents : \A i \in DOMAIN doc.instances :
       doc.instances[i] \in [capability : Capability, implementation : ImplId \cup {NoImpl}]
  /\ Policies \subseteq ResolverPolicy /\ Profiles \subseteq Profile
  /\ Benches \subseteq BenchmarkRecord

\* The manifest of the subject, with a status and axes of its own.
ManifestOf(status, axes) ==
  [capability |-> Purpose, status |-> status, evidence |-> axes,
   artifact |-> TRUE, unsafe |-> FALSE, pure |-> FALSE]
RegistryWith(m) ==
  [id \in DOMAIN Rivals \cup {Subject} |-> IF id = Subject THEN m ELSE Rivals[id]]

\* verify_implementation: the artifact, whose axes are those of the ledger, has
\* green suites and no finding, and the declared status is no overclaim by it.
VerifiedWith(m, suitesPass, clean) ==
  DOMAIN Rivals \cup
    {id \in {Subject} :
       /\ suitesPass /\ clean
       /\ ~Overclaims(m.status, JustifiedByArtifact(adapter, evidence, suitesPass, clean))}

\* The manifests an export may find: any status, and any conformance fact.
Manifests ==
  {ManifestOf(s, [evidence EXCEPT !["conformance"] = f]) : s \in LifecycleStatus, f \in AxisFacts}

\* What is chosen when the manifest is up to date with its evidence.
ChosenNow(policy, profile) ==
  Chosen(Purpose, RegistryWith(ManifestOf(FromManifest, evidence)), profile, policy, Benches)

\* Better evidence never costs an implementation the choice: not by a filter,
\* not by the status it then has, not by its score against the others.
ResolutionIsMonotone ==
  [][NoWorse(evidence, evidence') =>
       \A policy \in Policies, profile \in Profiles :
         ChosenNow(policy, profile) = Subject => ChosenNow(policy, profile)' = Subject]_vars

\* The instance selects nothing, because the document calls its capability I/O,
\* and no manifest of the pool survives the release policy: the compiler falls
\* back on the default of its catalog, which no policy looks at.
LeftToDefault(inst, doc, pool) ==
  /\ ~Selected(inst) /\ inst.capability \in doc.io
  /\ Chosen(inst.capability, pool, ReleaseCompile.profile, ReleaseCompile.resolver, {}) = NoImpl

\* What export-rust ships has been verified.  Where it ships the subject, the
\* artifact has green suites and fails nothing, there is an adapter, the manifest
\* claims at least conformant and admits no conformance failure, although the
\* filters of the release policy are not applied to what a document selects;
\* except as the default of an instance the document calls I/O.
ReleaseShipsJustified ==
  \A doc \in Documents, m \in Manifests, suitesPass, clean \in BOOLEAN :
    LET verified == VerifiedWith(m, suitesPass, clean)
        pool == ReleasePool(doc, RegistryWith(m))
        Runs(i) == Resolved(doc.instances[i], pool, ReleaseCompile)
    IN ExportsRelease(doc, RegistryWith(m), verified) =>
         \A i \in Transforms(doc) :
           /\ Runs(i) \in verified
           /\ Runs(i) = Subject /\ ~LeftToDefault(doc.instances[i], doc, pool) =>
                /\ suitesPass /\ adapter /\ ~AnyFail(evidence)
                /\ Eligible(m) /\ m.evidence["conformance"] # "fail"

\* An export under the release policy that verifies nothing (export-wasm
\* --release) ships a candidate, or something the registry does not know, in two
\* cases only: no manifest was listed, and then the policy is not applied, or
\* the instance is left to a default of the catalog.
CandidatesShipOnlyBlind ==
  \A doc \in Documents, m \in Manifests, listed \in BOOLEAN :
    \A registry \in {RegistryWith(m), NoPool} :
      LET pool == Listing(registry, listed)
          Runs(i) == Resolved(doc.instances[i], pool, ReleaseCompile)
      IN ExportsWasm(doc, registry, listed, ReleaseCompile) =>
           \/ ~listed \/ DOMAIN registry = {}
           \/ \A i \in Transforms(doc) :
                \/ Runs(i) \in DOMAIN registry /\ Eligible(registry[Runs(i)])
                \/ LeftToDefault(doc.instances[i], doc, pool)
=============================================================================
