-------------------------- MODULE AtomicPromotion --------------------------
(***************************************************************************)
(* What `registry promote` promises: a promotion is one transaction.  It   *)
(* replaces the manifest, the artifact and the review record of one        *)
(* implementation together, leaves every other implementation alone, and   *)
(* adds one line to the transparency log; or it does nothing at all.       *)
(***************************************************************************)
EXTENDS Admission, Sequences

CONSTANTS
  Impls,        \* implementation ids
  Artifacts,    \* the artifacts that parse
  InitEntries   \* entries the registry may start with

VARIABLES
  store,    \* [manifest, artifact, provenance] of each implementation
  log       \* the implementation of each transparency line

vars == <<store, log>>

\* The artifact of the entry justifies what its manifest claims, and an
\* admission carries its review record.
Truthful(entry) ==
  /\ NeedsArtifact(entry.manifest.status)
  /\ entry.artifact \in Artifacts
  /\ ~Overclaims(entry.manifest.status,
                 JustifiedByArtifact(entry.manifest.adapter, entry.artifact.axes, TRUE, TRUE))
  /\ entry.manifest.status = "admitted" => entry.provenance = "reviewed"

Init ==
  /\ store \in [Impls -> InitEntries]
  /\ log = <<>>

\* One promotion of i.  The binding of i to its adapter is not its business.
Commit(i) ==
  /\ Truthful(store'[i])
  /\ store'[i].manifest.adapter = store[i].manifest.adapter
  /\ \A j \in Impls \ {i} : store'[j] = store[j]
  /\ log' = Append(log, i)

Next == \E i \in Impls : Commit(i)

Spec == Init /\ [][Next]_vars
============================================================================
