-------------------------- MODULE AdmissionLedger --------------------------
(***************************************************************************)
(* One implementation whose evidence changes one axis at a time, in any    *)
(* order: collectors, reviewers and hand edits of the manifest all do.     *)
(* What the two justification functions answer is compared along the way.  *)
(***************************************************************************)
EXTENDS Admission

VARIABLES
  adapter,    \* whether the manifest declares an adapter binding
  evidence    \* the current fact of every axis

vars == <<adapter, evidence>>

Init == adapter \in BOOLEAN /\ evidence \in Evidence

\* A collector, a reviewer or an edit of the manifest records a fact.
Record(a, f) ==
  /\ evidence[a] # f
  /\ evidence' = [evidence EXCEPT ![a] = f]
  /\ UNCHANGED adapter

Next == \E a \in Axes, f \in AxisFacts : Record(a, f)

Spec == Init /\ [][Next]_vars

----------------------------------------------------------------------------
\* How good a fact is: a failure is worse than no fact, a pass is better.
FactRank(f) == CASE f = "fail" -> 0 [] f \in {"absent", "unknown"} -> 1 [] f = "pass" -> 2

\* Evidence e2 is at least as good as e1 on every axis.
NoWorse(e1, e2) == \A a \in Axes : FactRank(e1[a]) <= FactRank(e2[a])

\* The justified status of the manifest, and that of an artifact with the same
\* axes, given its suites and whether the verifier finds anything else.
FromManifest == JustifiedStatus(adapter, evidence)
FromArtifact(suitesPass, clean) == JustifiedByArtifact(adapter, evidence, suitesPass, clean)

(* From the same axes the truthful audit justifies more than the policy of *)
(* promotion in one case only: the suites of the artifact are green and    *)
(* nobody recorded their outcome in the axes.  No other gap in the         *)
(* evidence, no failure and no finding is forgiven by the audit alone.     *)
AuditTrustsOnlySuites ==
  \A suitesPass, clean \in BOOLEAN :
    StatusRank(FromArtifact(suitesPass, clean)) > StatusRank(FromManifest) =>
      /\ suitesPass /\ clean /\ adapter
      /\ evidence["conformance"] \in {"absent", "unknown"} /\ ~AnyFail(evidence)

(* For an implementation with an adapter and the axes mint_artifact writes *)
(* the duplicated functions agree, so what promote checks before it writes *)
(* is what the audit computes afterwards.                                  *)
RulesAgreeOnAdapters ==
  adapter => JustifiedByArtifact(adapter, MintedAxes(evidence), TRUE, TRUE)
               = JustifiedStatus(adapter, MintedAxes(evidence))

(* Better evidence never costs an implementation its status, and worse     *)
(* evidence never earns it one (both justification functions).             *)
JustificationIsMonotone ==
  [][\A suitesPass, clean \in BOOLEAN :
       /\ NoWorse(evidence, evidence') =>
            /\ StatusRank(FromManifest) <= StatusRank(FromManifest')
            /\ StatusRank(FromArtifact(suitesPass, clean))
                 <= StatusRank(FromArtifact(suitesPass, clean)')
       /\ NoWorse(evidence', evidence) =>
            /\ StatusRank(FromManifest') <= StatusRank(FromManifest)
            /\ StatusRank(FromArtifact(suitesPass, clean)')
                 <= StatusRank(FromArtifact(suitesPass, clean))]_vars
============================================================================
