---------------------------- MODULE MCPromotion ----------------------------
(***************************************************************************)
(* Small instances of Promotion for TLC.                                   *)
(***************************************************************************)
EXTENDS Promotion, TLC

CONSTANTS i1, i2, p1, p2, old, new

Facts(b, c, m, l, s) ==
  [a \in Axes |-> CASE a = "build" -> b [] a = "conformance" -> c
                    [] a = "benchmark" -> m [] a = "license" -> l
                    [] a = "security" -> s]

\* A draft as Forge registers it, a hand-written inventory entry without an
\* adapter, an implementation that failed its last suite, and one admitted.
Draft == [status |-> "candidate", adapter |-> TRUE, axes |-> NoEvidence]
Inventory == [status |-> "inventory_only", adapter |-> FALSE, axes |-> NoEvidence]
Failing == [Draft EXCEPT !.axes = [NoEvidence EXCEPT !["conformance"] = "fail"]]
Admitted == [status |-> "admitted", adapter |-> TRUE,
             axes |-> Facts("pass", "pass", "pass", "pass", "pass")]

\* Signed reports say nothing of the build.
FullReports == [build |-> "absent", benchmark |-> "pass", license |-> "pass",
                security |-> "pass", flagged |-> FALSE]

MCOneImpl == {i1}
MCTwoImpls == {i1, i2}
MCTwo == {p1, p2}
MCDraft == {Draft}
MCDrafts == {Draft, Admitted}
MCAll == {Draft, Inventory, Admitted}
MCFailing == {Failing}
MCFull == {FullReports}
MCNoReports == {}
MCNoFaults == {}
MCAsIs == {old}
MCVersions == {old, new}
MCCrash == {"crash"}
MCIo == {"io"}
MCEditSymmetry == Permutations(Promoters) \cup Permutations(Contents)
MCPromoterSymmetry == Permutations(Promoters)
MCSymmetry == Permutations(Promoters) \cup Permutations(Impls)
============================================================================
