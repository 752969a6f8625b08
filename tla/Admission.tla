----------------------------- MODULE Admission -----------------------------
(***************************************************************************)
(* The admission policy of wvx-registry-client: which lifecycle status the *)
(* evidence axes of an implementation justify.  Two functions of the code  *)
(* compute it, one from the axes written in the manifest                   *)
(* (admission::justified_status) and one from the axes of the evidence     *)
(* artifact (evidence_artifact::justified_from_axes).  Every other module  *)
(* of the registry takes its policy from here.                             *)
(***************************************************************************)
EXTENDS Naturals

\* ImplementationEvidence: one fact for each of the five axes.
Axes == {"build", "conformance", "benchmark", "license", "security"}
AxisFacts == {"pass", "fail", "absent", "unknown"}
Evidence == [Axes -> AxisFacts]

LifecycleStatus == {"inventory_only", "candidate", "conformant", "admitted"}

\* status_rank: a higher rank claims more trust.
StatusRank(s) ==
  CASE s = "inventory_only" -> 0
    [] s = "candidate"      -> 1
    [] s = "conformant"     -> 2
    [] s = "admitted"       -> 3

\* The statuses that require an evidence artifact.
NeedsArtifact(s) == s \in {"conformant", "admitted"}

\* Mutant: an unknown fact counts as a failure.
AnyUnknown(e) == \E a \in Axes : e[a] \in {"fail", "unknown"}

AnyFail(e) == \E a \in Axes : e[a] = "fail"
AllPass(e) == \A a \in Axes : e[a] = "pass"

\* Mutant: the rule as the comment above justified_status words it, where a
\* benchmark that is merely not a failure is enough for admitted.
JustifiedStatusAsDocumented(adapter, e) ==
  IF ~AnyFail(e) /\ adapter /\ AllPass([e EXCEPT !["benchmark"] = "pass"]) THEN "admitted"
  ELSE IF ~AnyFail(e) /\ adapter /\ e["conformance"] = "pass" THEN "conformant"
  ELSE IF adapter \/ e["build"] = "pass" THEN "candidate"
  ELSE "inventory_only"

\* justified_status: the highest status the axes of a manifest justify.
JustifiedStatus(adapter, e) ==
  IF ~AnyFail(e) /\ adapter /\ AllPass(e) THEN "admitted"
  ELSE IF ~AnyFail(e) /\ adapter /\ e["conformance"] = "pass" THEN "conformant"
  ELSE IF adapter \/ e["build"] = "pass" THEN "candidate"
  ELSE "inventory_only"

\* Mutant: a failing axis does not stand in the way of conformant.
JustifiedFromAxesUngated(adapter, e, suitesOk) ==
  IF suitesOk /\ adapter /\ AllPass(e) THEN "admitted"
  ELSE IF suitesOk /\ adapter /\ e["conformance"] = "pass" THEN "conformant"
  ELSE IF adapter THEN "candidate"
  ELSE "inventory_only"

\* justified_from_axes: the same for an artifact; suitesOk says that the
\* suites passed and the verifier has no finding.
JustifiedFromAxes(adapter, e, suitesOk) ==
  IF suitesOk /\ ~AnyFail(e) /\ adapter /\ AllPass(e) THEN "admitted"
  ELSE IF suitesOk /\ ~AnyFail(e) /\ adapter /\ e["conformance"] = "pass" THEN "conformant"
  ELSE IF adapter THEN "candidate"
  ELSE "inventory_only"

\* The suites decide the conformance axis, and only a recorded failure outlives
\* green ones: the axes verify_loaded_artifact goes on with.
BySuites(e, suitesPass) ==
  [e EXCEPT !["conformance"] = IF suitesPass /\ @ # "fail" THEN "pass" ELSE "fail"]

\* verify_loaded_artifact on an artifact with the axes e: what it justifies,
\* given the outcome of its suites; clean says that nothing else was found.
JustifiedByArtifact(adapter, e, suitesPass, clean) ==
  JustifiedFromAxes(adapter, BySuites(e, suitesPass), suitesPass /\ clean)

\* mint_artifact: the axes it writes for cases that all passed.  An absent build
\* counts as passed.
MintedAxes(e) == [BySuites(e, TRUE) EXCEPT !["build"] = IF @ = "absent" THEN "pass" ELSE @]

\* A declared status above the justified one (check_implementation_at).
Overclaims(declared, justified) == StatusRank(declared) > StatusRank(justified)
============================================================================
