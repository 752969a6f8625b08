----------------------------- MODULE ReleaseGate -----------------------------
(***************************************************************************)
(* Which implementations an export ships: the pool of manifests the        *)
(* command bus reads or verifies, the release passes of the validator, and *)
(* the compiler's own choice and gates (wvx-command-bus, wvx-validator,    *)
(* wvx-compiler-rust).  An export either compiles every instance or none.  *)
(*                                                                         *)
(* A document is what these functions look at: the capability and the      *)
(* selected implementation of each instance, metadata.compiler_profile,    *)
(* and io, the capabilities whose contract in the document is of kind      *)
(* "io": the contract travels with the document and nobody compares it     *)
(* with the ontology.  That the graph is valid is the subject of           *)
(* ProjectGraph.                                                           *)
(***************************************************************************)
EXTENDS Resolver

CONSTANTS
  Io,             \* the capabilities of the passthrough I/O
  DefaultOf,      \* default_implementation
  Emittable,      \* ids the emitter or an SDK map has code for
  NeedsSimd       \* ids wasm_incompatible_reason refuses

ASSUME GateAssumption ==
  /\ Io \subseteq Capability
  /\ DefaultOf \in [Capability -> ImplId \cup {NoImpl}]
  /\ Emittable \subseteq ImplId

\* CompilePolicy::dev and ::release: the resolver's knobs, the target profile
\* and the compiler profiles a document may ask for.
Anywhere == [p \in Places |-> Any]
DevCompile ==
  [resolver |-> Dev,
   profile  |-> [noUnsafe |-> FALSE, pureRust |-> TRUE, at |-> Anywhere],
   allowed  |-> {"dev", "release", "check"}]
ReleaseCompile ==
  [resolver |-> Release,
   profile  |-> [noUnsafe |-> TRUE, pureRust |-> TRUE, at |-> Anywhere],
   allowed  |-> {"release", "check"}]

Strict(policy) == ~policy.resolver.candidates
Selected(inst) == inst.implementation # NoImpl

-----------------------------------------------------------------------------
(* The validator's passes over implementations *)

\* pass_impl_compatibility. A pool that is empty is not looked at.
Compatible(doc, pool, policy) ==
  \A i \in DOMAIN doc.instances :
    LET inst == doc.instances[i] IN
      Selected(inst) /\ DOMAIN pool # {} =>
        IF inst.implementation \in DOMAIN pool
          THEN pool[inst.implementation].capability = inst.capability
          ELSE ~Strict(policy)

\* pass_compiler_profile; a document need not name a profile.
ProfileAllowed(doc, policy) == doc.profile \in policy.allowed \cup {Any}

\* Mutant: a release may leave the choice to the catalog.
LifecycleOkIfSelected(doc, pool, policy) ==
  Strict(policy) /\ DOMAIN pool # {} =>
    \A i \in DOMAIN doc.instances :
      LET inst == doc.instances[i] IN
        Selected(inst) /\ inst.implementation \in DOMAIN pool => Eligible(pool[inst.implementation])

\* pass_policy: a release selects an implementation for all but what the document
\* says is I/O, and none of those selected is a candidate. Without manifests it
\* only warns.
LifecycleOk(doc, pool, policy) ==
  Strict(policy) /\ DOMAIN pool # {} =>
    \A i \in DOMAIN doc.instances :
      LET inst == doc.instances[i] IN
        /\ ~Selected(inst) => inst.capability \in doc.io
        /\ Selected(inst) /\ inst.implementation \in DOMAIN pool =>
             Eligible(pool[inst.implementation])

-----------------------------------------------------------------------------
(* compile_with_policy *)

\* The selection of the instance, or else the resolver's choice in the pool,
\* or else the default of the catalog.
Resolved(inst, pool, policy) ==
  LET chosen == Chosen(inst.capability, pool, policy.profile, policy.resolver, {})
  IN IF Selected(inst) THEN inst.implementation
     ELSE IF chosen # NoImpl THEN chosen
     ELSE DefaultOf[inst.capability]

\* A selection is only refused for its lifecycle or a conformance failure:
\* the other filters of the resolver do not apply to it.
SelectionOk(inst, pool, policy) ==
  Selected(inst) /\ inst.implementation \in DOMAIN pool =>
    LET m == pool[inst.implementation] IN
      /\ Strict(policy) => Eligible(m)
      /\ Strict(policy) => m.evidence["conformance"] # "fail"

\* ensure_supported and the trusted emit check.
Supported(id, cap) == cap \in Io \/ id \in Emittable

Compiles(doc, pool, policy) ==
  /\ Compatible(doc, pool, policy)
  /\ ProfileAllowed(doc, policy)
  /\ LifecycleOk(doc, pool, policy)
  /\ \A i \in DOMAIN doc.instances :
       LET inst == doc.instances[i] IN
         /\ SelectionOk(inst, pool, policy)
         /\ Resolved(inst, pool, policy) # NoImpl
         /\ Supported(Resolved(inst, pool, policy), inst.capability)

-----------------------------------------------------------------------------
(* The three ways to export *)

Transforms(doc) == {i \in DOMAIN doc.instances : doc.instances[i].capability \notin Io}
OrDefault(inst) == IF Selected(inst) THEN inst.implementation ELSE DefaultOf[inst.capability]
Needed(doc) == {OrDefault(doc.instances[i]) : i \in Transforms(doc)}

\* Mutant: the outcome of the verification is not looked at.
UnverifiedPool(doc, registry, verified) ==
  /\ Needed(doc) # {}
  /\ Needed(doc) \subseteq DOMAIN registry

\* verified_pool_for_project: every implementation the document needs is in
\* the registry and its artifact verifies; `verified` are the ids that do.
VerifiedPool(doc, registry, verified) ==
  /\ Needed(doc) # {}
  /\ Needed(doc) \subseteq DOMAIN registry \cap verified

\* The I/O the compiler adds to a verified pool, conformant by definition.
IoManifest(cap) ==
  [capability |-> cap, status |-> "conformant",
   evidence |-> [a \in Axes |-> IF a \in {"build", "conformance", "license"}
                                  THEN "pass" ELSE "unknown"],
   artifact |-> FALSE, unsafe |-> FALSE, pure |-> FALSE]
IoOf(doc, id) ==
  {doc.instances[i].capability :
     i \in {j \in DOMAIN doc.instances \ Transforms(doc) : OrDefault(doc.instances[j]) = id}}

\* compile_release's policy.implementations.
ReleasePool(doc, registry) ==
  LET passed == {OrDefault(doc.instances[i]) : i \in DOMAIN doc.instances \ Transforms(doc)}
                \ (Needed(doc) \cup {NoImpl})
  IN [id \in Needed(doc) \cup passed |->
        IF id \in passed THEN IoManifest(CHOOSE cap \in IoOf(doc, id) : TRUE) ELSE registry[id]]

\* export-rust: verified implementations only.
ExportsRelease(doc, registry, verified) ==
  /\ VerifiedPool(doc, registry, verified)
  /\ Compiles(doc, ReleasePool(doc, registry), ReleaseCompile)

\* export-rust --dev and export-wasm: the whole listing, or an empty pool if
\* there is no registry or one manifest in it cannot be read; an empty registry
\* is an empty pool as well.
NoPool == [id \in {} |-> IoManifest(id)]
Listing(registry, listed) == IF listed THEN registry ELSE NoPool
ExportsListed(doc, registry, listed, policy) ==
  Compiles(doc, Listing(registry, listed), policy)
ExportsWasm(doc, registry, listed, policy) ==
  /\ ExportsListed(doc, registry, listed, policy)
  /\ \A i \in DOMAIN doc.instances :
       Resolved(doc.instances[i], Listing(registry, listed), policy) \notin NeedsSimd

\* The implementations a compiled document runs, passthrough I/O apart.
Shipped(doc, pool, policy) ==
  {Resolved(doc.instances[i], pool, policy) : i \in Transforms(doc)}
=============================================================================
