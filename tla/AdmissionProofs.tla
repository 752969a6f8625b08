-------------------------- MODULE AdmissionProofs --------------------------
(***************************************************************************)
(* Proofs about the two justification functions of the admission policy,   *)
(* and about what rests on them: the choice of the resolver and what an    *)
(* export ships.                                                           *)
(***************************************************************************)
EXTENDS ReleaseLedger, TLAPS, WellFoundedInduction

Typed == adapter \in BOOLEAN /\ evidence \in Evidence

LEMMA AlwaysTyped == Spec => []Typed
<1>1. Init => Typed
  BY DEF Init, Typed
<1>2. Typed /\ [Next]_vars => Typed'
  BY DEF Typed, Next, Record, vars, Evidence
<1>3. QED
  BY <1>1, <1>2, PTL DEF Spec

(* The ranks of the four statuses, as numbers.                             *)
LEMMA Ranks ==
  /\ StatusRank("inventory_only") = 0 /\ StatusRank("candidate") = 1
  /\ StatusRank("conformant") = 2 /\ StatusRank("admitted") = 3
  BY DEF StatusRank

(* What the suites make of the axes.                                       *)
LEMMA SuitesDecide ==
  ASSUME NEW e \in Evidence, NEW suitesPass \in BOOLEAN
  PROVE  LET f == BySuites(e, suitesPass) IN
           /\ f \in Evidence
           /\ \A a \in Axes \ {"conformance"} : f[a] = e[a]
           /\ f["conformance"] =
                IF suitesPass /\ e["conformance"] # "fail" THEN "pass" ELSE "fail"
  BY DEF BySuites, Evidence, Axes, AxisFacts

(* What an artifact justifies, in terms of its recorded axes.              *)
LEMMA ByArtifact ==
  ASSUME NEW b \in BOOLEAN, NEW e \in Evidence,
         NEW suitesPass \in BOOLEAN, NEW clean \in BOOLEAN
  PROVE  JustifiedByArtifact(b, e, suitesPass, clean) =
           IF suitesPass /\ clean /\ ~AnyFail(e) /\ b
             THEN IF \A a \in Axes \ {"conformance"} : e[a] = "pass"
                    THEN "admitted" ELSE "conformant"
           ELSE IF b THEN "candidate" ELSE "inventory_only"
<1> DEFINE f == BySuites(e, suitesPass)
<1>1. /\ f \in Evidence /\ \A a \in Axes \ {"conformance"} : f[a] = e[a]
      /\ f["conformance"] = IF suitesPass /\ e["conformance"] # "fail" THEN "pass" ELSE "fail"
      /\ "conformance" \in Axes
  BY SuitesDecide DEF Axes
<1>2. JustifiedByArtifact(b, e, suitesPass, clean) = JustifiedFromAxes(b, f, suitesPass /\ clean)
  BY DEF JustifiedByArtifact
<1> HIDE DEF f
<1>3. CASE suitesPass
  <2>1. AnyFail(f) <=> AnyFail(e)
    BY <1>1, <1>3 DEF AnyFail
  <2>2. ~AnyFail(e) =>
          /\ f["conformance"] = "pass"
          /\ AllPass(f) <=> \A a \in Axes \ {"conformance"} : e[a] = "pass"
    BY <1>1, <1>3 DEF AnyFail, AllPass
  <2> QED BY <1>2, <1>3, <2>1, <2>2 DEF JustifiedFromAxes
<1>4. CASE ~suitesPass
  BY <1>2, <1>4 DEF JustifiedFromAxes
<1> QED BY <1>3, <1>4

(* From the same axes the audit justifies more than promotion's own policy *)
(* only where green suites stand in for a fact that nobody recorded.       *)
THEOREM AuditTrustsSuites == Spec => []AuditTrustsOnlySuites
<1>1. Typed => AuditTrustsOnlySuites
  <2> SUFFICES ASSUME Typed, NEW suitesPass \in BOOLEAN, NEW clean \in BOOLEAN,
                      StatusRank(FromArtifact(suitesPass, clean)) > StatusRank(FromManifest)
               PROVE  /\ suitesPass /\ clean /\ adapter
                      /\ evidence["conformance"] \in {"absent", "unknown"} /\ ~AnyFail(evidence)
    BY DEF AuditTrustsOnlySuites
  <2> DEFINE rest == \A a \in Axes \ {"conformance"} : evidence[a] = "pass"
  <2>1. FromArtifact(suitesPass, clean) =
          IF suitesPass /\ clean /\ ~AnyFail(evidence) /\ adapter
            THEN IF rest THEN "admitted" ELSE "conformant"
          ELSE IF adapter THEN "candidate" ELSE "inventory_only"
    BY ByArtifact DEF FromArtifact, Typed
  <2>2. "conformance" \in Axes /\ evidence["conformance"] \in AxisFacts
    BY DEF Typed, Evidence, Axes
  <2>3. adapter => StatusRank(FromManifest) >= 1
    BY Ranks DEF FromManifest, JustifiedStatus
  <2>4. StatusRank(FromManifest) \in 0..3
    BY Ranks DEF FromManifest, JustifiedStatus
  <2>5. suitesPass /\ clean /\ ~AnyFail(evidence) /\ adapter
    <3> SUFFICES ASSUME ~(suitesPass /\ clean /\ ~AnyFail(evidence) /\ adapter) PROVE FALSE
      OBVIOUS
    <3>1. StatusRank(FromArtifact(suitesPass, clean)) = IF adapter THEN 1 ELSE 0
      BY <2>1, Ranks
    <3> QED BY <2>3, <2>4, <3>1
  <2>6. evidence["conformance"] # "pass"
    <3> SUFFICES ASSUME evidence["conformance"] = "pass" PROVE FALSE
      OBVIOUS
    <3>1. AllPass(evidence) <=> rest
      BY DEF AllPass
    <3>2. FromManifest = IF rest THEN "admitted" ELSE "conformant"
      BY <2>5, <3>1 DEF FromManifest, JustifiedStatus
    <3> QED BY <2>1, <2>4, <2>5, <3>2
  <2>7. evidence["conformance"] # "fail"
    BY <2>2, <2>5 DEF AnyFail
  <2> QED BY <2>2, <2>5, <2>6, <2>7 DEF AxisFacts
<1>2. QED
  BY <1>1, AlwaysTyped, PTL

(* On the axes that mint_artifact writes, the duplicated functions agree   *)
(* for an implementation with an adapter.                                  *)
THEOREM RulesAgree == Spec => []RulesAgreeOnAdapters
<1>1. Typed => RulesAgreeOnAdapters
  <2> SUFFICES ASSUME Typed, adapter
               PROVE  JustifiedByArtifact(adapter, MintedAxes(evidence), TRUE, TRUE)
                        = JustifiedStatus(adapter, MintedAxes(evidence))
    BY DEF RulesAgreeOnAdapters
  <2> DEFINE e == MintedAxes(evidence)
             earned == IF ~AnyFail(e)
                         THEN IF \A a \in Axes \ {"conformance"} : e[a] = "pass"
                                THEN "admitted" ELSE "conformant"
                         ELSE "candidate"
  <2>1. /\ BySuites(evidence, TRUE) \in Evidence
        /\ BySuites(evidence, TRUE)["conformance"] \in {"pass", "fail"}
    BY SuitesDecide DEF Typed
  <2>2. e \in Evidence /\ e["conformance"] \in {"pass", "fail"} /\ "conformance" \in Axes
    BY <2>1 DEF MintedAxes, Evidence, Axes, AxisFacts
  <2>3. JustifiedByArtifact(adapter, e, TRUE, TRUE) = earned
    <3> HIDE DEF e
    <3> QED BY <2>2, ByArtifact DEF Typed
  <2>4. ~AnyFail(e) => e["conformance"] = "pass"
    BY <2>2 DEF AnyFail
  <2>5. JustifiedStatus(adapter, e) = earned
    <3> HIDE DEF e
    <3>1. ~AnyFail(e) => (AllPass(e) <=> \A a \in Axes \ {"conformance"} : e[a] = "pass")
      BY <2>4 DEF AllPass
    <3> QED BY <2>4, <3>1 DEF JustifiedStatus
  <2> HIDE DEF earned
  <2> QED BY <2>3, <2>5
<1>2. QED
  BY <1>1, AlwaysTyped, PTL

(* Better evidence keeps every pass and adds no failure.                   *)
LEMMA BetterEvidence ==
  ASSUME NEW e1 \in Evidence, NEW e2 \in Evidence, NoWorse(e1, e2)
  PROVE  /\ \A a \in Axes : e1[a] = "pass" => e2[a] = "pass"
         /\ AllPass(e1) => AllPass(e2)
         /\ AnyFail(e2) => AnyFail(e1)
<1>1. ASSUME NEW a \in Axes
      PROVE  /\ e1[a] = "pass" => e2[a] = "pass"
             /\ e2[a] = "fail" => e1[a] = "fail"
  <2>1. e1[a] \in AxisFacts /\ e2[a] \in AxisFacts /\ FactRank(e1[a]) <= FactRank(e2[a])
    BY DEF Evidence, NoWorse
  <2>2. /\ FactRank("fail") = 0 /\ FactRank("pass") = 2
        /\ FactRank("absent") = 1 /\ FactRank("unknown") = 1
    BY DEF FactRank
  <2>3. QED
    BY <2>1, <2>2 DEF AxisFacts
<1>2. QED
  BY <1>1 DEF AllPass, AnyFail

(* So it never lowers what either function justifies.                      *)
LEMMA BetterStatus ==
  ASSUME NEW e1 \in Evidence, NEW e2 \in Evidence, NoWorse(e1, e2), NEW b \in BOOLEAN
  PROVE  StatusRank(JustifiedStatus(b, e1)) <= StatusRank(JustifiedStatus(b, e2))
<1>1. "conformance" \in Axes /\ "build" \in Axes
  BY DEF Axes
<1>2. QED
  BY <1>1, BetterEvidence, Ranks DEF JustifiedStatus

LEMMA BetterArtifact ==
  ASSUME NEW e1 \in Evidence, NEW e2 \in Evidence, NoWorse(e1, e2), NEW b \in BOOLEAN,
         NEW suitesPass \in BOOLEAN, NEW clean \in BOOLEAN
  PROVE  StatusRank(JustifiedByArtifact(b, e1, suitesPass, clean))
           <= StatusRank(JustifiedByArtifact(b, e2, suitesPass, clean))
<1> DEFINE rest(e) == \A a \in Axes \ {"conformance"} : e[a] = "pass"
<1>1. (rest(e1) => rest(e2)) /\ (AnyFail(e2) => AnyFail(e1))
  BY BetterEvidence
<1>2. ASSUME NEW e \in Evidence
      PROVE  StatusRank(JustifiedByArtifact(b, e, suitesPass, clean)) =
               IF suitesPass /\ clean /\ ~AnyFail(e) /\ b THEN IF rest(e) THEN 3 ELSE 2
               ELSE IF b THEN 1 ELSE 0
  BY ByArtifact, Ranks
<1> HIDE DEF rest
<1> QED BY <1>1, <1>2

(* Recording better evidence never costs a status, recording worse         *)
(* evidence never earns one.                                               *)
THEOREM Monotone == Spec => JustificationIsMonotone
<1> DEFINE Better(suitesPass, clean) ==
             /\ NoWorse(evidence, evidence') =>
                  /\ StatusRank(FromManifest) <= StatusRank(FromManifest')
                  /\ StatusRank(FromArtifact(suitesPass, clean))
                       <= StatusRank(FromArtifact(suitesPass, clean)')
             /\ NoWorse(evidence', evidence) =>
                  /\ StatusRank(FromManifest') <= StatusRank(FromManifest)
                  /\ StatusRank(FromArtifact(suitesPass, clean)')
                       <= StatusRank(FromArtifact(suitesPass, clean))
<1>1. ASSUME Typed, Typed', Next, NEW suitesPass \in BOOLEAN, NEW clean \in BOOLEAN
      PROVE  Better(suitesPass, clean)
  <2>1. adapter' = adapter
    BY <1>1 DEF Next, Record
  <2>2. evidence \in Evidence /\ evidence' \in Evidence /\ adapter \in BOOLEAN
    BY <1>1 DEF Typed
  <2>3. /\ FromManifest' = JustifiedStatus(adapter, evidence')
        /\ FromArtifact(suitesPass, clean)' = JustifiedByArtifact(adapter, evidence', suitesPass, clean)
    BY <2>1 DEF FromManifest, FromArtifact
  <2>4. QED
    BY <2>2, <2>3, BetterStatus, BetterArtifact DEF FromManifest, FromArtifact
<1>2. Typed /\ Typed' /\ [Next]_vars =>
        [\A suitesPass, clean \in BOOLEAN : Better(suitesPass, clean)]_vars
  BY <1>1
<1>3. QED
  BY <1>2, AlwaysTyped, PTL DEF Spec, JustificationIsMonotone
-----------------------------------------------------------------------------
(* What the resolver chooses *)

LEMMA Least ==
  ASSUME NEW T \in SUBSET Nat, T # {}
  PROVE  \E x \in T : \A y \in T : x <= y
<1>1. PICK x \in T : \A y \in T : <<y, x>> \notin OpToRel(<, Nat)
  BY NatLessThanWellFounded, WFMin
<1>2. ASSUME NEW y \in T PROVE x <= y
  <2>1. ~(y < x)
    BY <1>1 DEF OpToRel
  <2> QED BY <2>1
<1> QED BY <1>2

\* The place of a preferred id is well defined, and so is the best fit of the
\* benchmark records: a score is an integer and not beyond a bound.
LEMMA PreferenceIsNumber ==
  ASSUME NEW id, NEW prefer \in Seq(ImplId)
  PROVE  PreferenceScore(id, prefer) \in Int /\ PreferenceScore(id, prefer) <= 10010
<1> DEFINE T == {k \in DOMAIN prefer : prefer[k] = id}
<1>1. DOMAIN prefer = 1 .. Len(prefer) /\ Len(prefer) \in Nat
  OBVIOUS
<1>2. CASE T = {}
  BY <1>2 DEF PreferenceScore
<1>3. CASE T # {}
  <2>1. T \in SUBSET Nat
    BY <1>1
  <2>2. PICK k \in T : \A j \in T : k <= j
    BY <1>3, <2>1, Least
  <2>3. k \in DOMAIN prefer /\ prefer[k] = id /\ \A j \in 1 .. k - 1 : prefer[j] # id
    BY <1>1, <2>2
  <2> DEFINE first == CHOOSE n \in DOMAIN prefer :
                        prefer[n] = id /\ \A j \in 1 .. n - 1 : prefer[j] # id
  <2>4. first \in DOMAIN prefer
    BY <2>3
  <2>5. PreferenceScore(id, prefer) = 10010 - 10 * first
    BY <1>3 DEF PreferenceScore
  <2>6. first \in Nat
    BY <1>1, <2>4
  <2> HIDE DEF first
  <2> QED BY <2>5, <2>6
<1> QED BY <1>2, <1>3

LEMMA BenchIsNumber ==
  ASSUME NEW id, NEW profile, NEW benches
  PROVE  BenchScore(id, profile, benches) \in 0 .. 180
<1> DEFINE fits == {BenchFit(b, profile) : b \in {c \in benches : c.implementation = id /\ c.ok}}
           T == {n \in 0 .. 180 : 180 - n \in fits}
<1>1. fits \subseteq 0 .. 180
  BY DEF BenchFit, If
<1>2. CASE fits = {}
  BY <1>2 DEF BenchScore
<1>3. CASE fits # {}
  <2>1. PICK f \in fits : TRUE
    BY <1>3
  <2>2. 180 - (180 - f) = f /\ 180 - f \in 0 .. 180
    BY <1>1, <2>1
  <2>3. T # {} /\ T \in SUBSET Nat
    BY <2>1, <2>2
  <2>4. PICK n \in T : \A k \in T : n <= k
    BY <2>3, Least
  <2>5. ASSUME NEW g \in fits PROVE g <= 180 - n
    <3>1. g \in 0 .. 180 /\ 180 - g \in 0 .. 180 /\ 180 - (180 - g) = g
      BY <1>1, <2>5
    <3>2. 180 - g \in T
      BY <3>1, <2>5
    <3>3. n <= 180 - g /\ n \in 0 .. 180
      BY <2>4, <3>2
    <3> QED BY <3>1, <3>3
  <2>6. (CHOOSE g \in fits : \A h \in fits : h <= g) \in fits
    BY <2>4, <2>5
  <2> QED BY <1>1, <1>3, <2>6 DEF BenchScore
<1> QED BY <1>2, <1>3

LEMMA ScoreIsNumber ==
  ASSUME NEW id, NEW m, m.status \in LifecycleStatus, NEW profile, NEW benches,
         NEW policy \in ResolverPolicy
  PROVE  Score(id, m, profile, policy, benches) \in Int
         /\ Score(id, m, profile, policy, benches) <= 11000
<1>1. policy.prefer \in Seq(ImplId)
  BY DEF ResolverPolicy
<1>2. StatusScore(m.status) \in 0 .. 400
  BY DEF StatusScore, LifecycleStatus
<1>3. PreferenceScore(id, policy.prefer) \in Int /\ PreferenceScore(id, policy.prefer) <= 10010
  BY <1>1, PreferenceIsNumber
<1>4. BenchScore(id, profile, benches) \in 0 .. 180
  BY BenchIsNumber
<1> DEFINE conforms == If(m.evidence["conformance"] = "pass", 50)
           builds == If(m.evidence["build"] = "pass", 20)
           pure == If(profile.pureRust /\ m.pure, 15)
<1>5. conforms \in 0 .. 50 /\ builds \in 0 .. 20 /\ pure \in 0 .. 15
  BY DEF If
<1>6. Score(id, m, profile, policy, benches) =
        PreferenceScore(id, policy.prefer) + StatusScore(m.status) + conforms + builds + pure
          + BenchScore(id, profile, benches)
  BY DEF Score
<1> DEFINE preference == PreferenceScore(id, policy.prefer)
           status == StatusScore(m.status)
           bench == BenchScore(id, profile, benches)
<1>7. /\ preference \in Int /\ preference <= 10010 /\ status \in 0 .. 400 /\ bench \in 0 .. 180
      /\ Score(id, m, profile, policy, benches) =
           preference + status + conforms + builds + pure + bench
  BY <1>2, <1>3, <1>4, <1>6
<1> HIDE DEF conforms, builds, pure, preference, status, bench
<1> QED BY <1>5, <1>7

\* The choice is the best of the survivors, and there is only one best.
LEMMA ChosenIsBest ==
  ASSUME ImplId \subseteq Nat, NEW pool, DOMAIN pool \subseteq ImplId,
         \A id \in DOMAIN pool : pool[id].status \in LifecycleStatus,
         NEW cap, NEW profile, NEW policy \in ResolverPolicy, NEW benches,
         Survivors(cap, pool, profile, policy) # {}
  PROVE  LET best == {i \in Survivors(cap, pool, profile, policy) :
                        \A j \in Survivors(cap, pool, profile, policy) :
                          Before(i, j, pool, profile, policy, benches)}
         IN best = {Chosen(cap, pool, profile, policy, benches)}
<1> DEFINE S == Survivors(cap, pool, profile, policy)
           s(id) == Score(id, pool[id], profile, policy, benches)
           best == {i \in S : \A j \in S : Before(i, j, pool, profile, policy, benches)}
           T == {n \in Nat : \E id \in S : n = 11000 - s(id)}
<1>1. S \subseteq DOMAIN pool /\ S \subseteq Nat /\ S # {}
  BY DEF Survivors
<1>2. \A id \in S : s(id) \in Int /\ s(id) <= 11000
  BY <1>1, ScoreIsNumber
<1>3. \A i, j : Before(i, j, pool, profile, policy, benches) <=>
                s(i) > s(j) \/ (s(i) = s(j) /\ i <= j)
  BY DEF Before
<1>4. \A id \in S : 11000 - s(id) \in T
  BY <1>2
<1> HIDE DEF s, S
<1>5. PICK n \in T : \A k \in T : n <= k
  <2>1. T # {} /\ T \in SUBSET Nat
    BY <1>1, <1>4
  <2> HIDE DEF T
  <2> QED BY <2>1, Least
<1> DEFINE top == {id \in S : n = 11000 - s(id)}
<1>6. top # {} /\ top \in SUBSET Nat
  BY <1>1, <1>5
<1>7. PICK i \in top : \A j \in top : i <= j
  <2> HIDE DEF top
  <2> QED BY <1>6, Least
<1>8. ASSUME NEW j \in S PROVE s(i) > s(j) \/ (s(i) = s(j) /\ i <= j)
  <2>1. n <= 11000 - s(j) /\ n = 11000 - s(i) /\ s(i) \in Int /\ s(j) \in Int
    BY <1>2, <1>4, <1>5, <1>7, <1>8
  <2>2. s(i) = s(j) => j \in top
    BY <2>1
  <2> QED BY <1>7, <2>1, <2>2
<1>9. i \in best
  BY <1>3, <1>7, <1>8
<1>10. ASSUME NEW j \in best PROVE j = i
  <2>1. s(i) \in Int /\ s(j) \in Int /\ i \in Nat /\ j \in Nat
    BY <1>1, <1>2, <1>9
  <2>2. /\ s(i) > s(j) \/ (s(i) = s(j) /\ i <= j)
        /\ s(j) > s(i) \/ (s(j) = s(i) /\ j <= i)
    BY <1>3, <1>9
  <2> QED BY <2>1, <2>2
<1>11. Chosen(cap, pool, profile, policy, benches) \in best
  <2>1. Chosen(cap, pool, profile, policy, benches) =
          CHOOSE j \in S : \A k \in S : Before(j, k, pool, profile, policy, benches)
    BY <1>1 DEF Chosen, S
  <2> QED BY <1>9, <2>1
<1> QED BY <1>9, <1>10, <1>11 DEF S

\* The manifest with the evidence e, of an implementation with an adapter or not.
With(b, e) == RegistryWith(ManifestOf(JustifiedStatus(b, e), e))

LEMMA WithShape ==
  ASSUME NEW b \in BOOLEAN, NEW e \in Evidence
  PROVE  /\ DOMAIN With(b, e) = DOMAIN Rivals \cup {Subject}
         /\ With(b, e)[Subject] = ManifestOf(JustifiedStatus(b, e), e)
         /\ \A id \in DOMAIN Rivals : With(b, e)[id] = Rivals[id]
         /\ \A id \in DOMAIN With(b, e) : With(b, e)[id].status \in LifecycleStatus
<1>1. JustifiedStatus(b, e) \in LifecycleStatus
  BY DEF JustifiedStatus, LifecycleStatus
<1>2. /\ DOMAIN With(b, e) = DOMAIN Rivals \cup {Subject}
      /\ With(b, e)[Subject] = ManifestOf(JustifiedStatus(b, e), e)
      /\ \A id \in DOMAIN Rivals : With(b, e)[id] = Rivals[id]
  BY ReleaseLedgerAssumption DEF With, RegistryWith
<1>3. \A id \in DOMAIN Rivals : Rivals[id].status \in LifecycleStatus
  BY ReleaseLedgerAssumption DEF Manifest
<1> QED BY <1>1, <1>2, <1>3 DEF ManifestOf

\* Better evidence keeps the subject among the survivors and never lowers its
\* score.
LEMMA BetterScore ==
  ASSUME NEW e1 \in Evidence, NEW e2 \in Evidence, NoWorse(e1, e2), NEW b \in BOOLEAN,
         NEW policy \in ResolverPolicy, NEW profile, NEW benches
  PROVE  LET m1 == ManifestOf(JustifiedStatus(b, e1), e1)
             m2 == ManifestOf(JustifiedStatus(b, e2), e2)
         IN /\ Survives(m1, profile, policy) => Survives(m2, profile, policy)
            /\ Score(Subject, m1, profile, policy, benches)
                 <= Score(Subject, m2, profile, policy, benches)
<1> DEFINE s1 == JustifiedStatus(b, e1)
           s2 == JustifiedStatus(b, e2)
<1>1. StatusRank(s1) <= StatusRank(s2)
  BY BetterStatus
<1>2. s1 \in LifecycleStatus /\ s2 \in LifecycleStatus
  BY DEF JustifiedStatus, LifecycleStatus
<1>3. \A a \in Axes : e1[a] = "pass" => e2[a] = "pass"
  BY BetterEvidence
<1>4. NeedsArtifact(s1) => NeedsArtifact(s2)
  BY <1>1, <1>2, Ranks DEF NeedsArtifact, LifecycleStatus
<1>5. StatusScore(s1) <= StatusScore(s2) /\ StatusScore(s1) \in Nat /\ StatusScore(s2) \in Nat
  BY <1>1, <1>2, Ranks DEF StatusScore, LifecycleStatus
<1> DEFINE m1 == ManifestOf(s1, e1)
           m2 == ManifestOf(s2, e2)
<1> HIDE DEF s1, s2
<1>6. policy.passing \subseteq Axes
  BY DEF ResolverPolicy
<1>7. Survives(m1, profile, policy) => Survives(m2, profile, policy)
  BY <1>3, <1>4, <1>6 DEF Survives, Eligible, ManifestOf
<1>8. Score(Subject, m1, profile, policy, benches) <= Score(Subject, m2, profile, policy, benches)
  <2> DEFINE conforms(e) == If(e["conformance"] = "pass", 50)
             builds(e) == If(e["build"] = "pass", 20)
             pure == If(profile.pureRust /\ FALSE, 15)
             preference == PreferenceScore(Subject, policy.prefer)
             bench == BenchScore(Subject, profile, benches)
  <2>1. /\ conforms(e1) <= conforms(e2) /\ conforms(e1) \in Nat /\ conforms(e2) \in Nat
        /\ builds(e1) <= builds(e2) /\ builds(e1) \in Nat /\ builds(e2) \in Nat
        /\ pure \in Nat
    <3>1. "conformance" \in Axes /\ "build" \in Axes
      BY DEF Axes
    <3> QED BY <1>3, <3>1 DEF If
  <2>2. preference \in Int /\ bench \in Nat
    <3>1. policy.prefer \in Seq(ImplId)
      BY DEF ResolverPolicy
    <3>2. preference \in Int
      BY <3>1, PreferenceIsNumber
    <3>3. bench \in 0 .. 180
      BY BenchIsNumber
    <3> QED BY <3>2, <3>3
  <2>3. /\ Score(Subject, m1, profile, policy, benches) =
             preference + StatusScore(s1) + conforms(e1) + builds(e1) + pure + bench
        /\ Score(Subject, m2, profile, policy, benches) =
             preference + StatusScore(s2) + conforms(e2) + builds(e2) + pure + bench
    BY DEF Score, ManifestOf
  <2> HIDE DEF conforms, builds, pure, preference, bench
  <2> QED BY <1>5, <2>1, <2>2, <2>3
<1> QED BY <1>7, <1>8 DEF s1, s2

LEMMA BetterChoice ==
  ASSUME ImplId \subseteq Nat, NEW e1 \in Evidence, NEW e2 \in Evidence, NoWorse(e1, e2),
         NEW b \in BOOLEAN, NEW policy \in ResolverPolicy, NEW profile,
         Chosen(Purpose, With(b, e1), profile, policy, Benches) = Subject
  PROVE  Chosen(Purpose, With(b, e2), profile, policy, Benches) = Subject
<1> DEFINE p1 == With(b, e1)
           p2 == With(b, e2)
           S1 == Survivors(Purpose, p1, profile, policy)
           S2 == Survivors(Purpose, p2, profile, policy)
           s1(id) == Score(id, p1[id], profile, policy, Benches)
           s2(id) == Score(id, p2[id], profile, policy, Benches)
<1>1. /\ DOMAIN p1 = DOMAIN Rivals \cup {Subject} /\ DOMAIN p2 = DOMAIN p1
      /\ p1[Subject] = ManifestOf(JustifiedStatus(b, e1), e1)
      /\ p2[Subject] = ManifestOf(JustifiedStatus(b, e2), e2)
      /\ \A id \in DOMAIN Rivals : p1[id] = p2[id]
      /\ \A id \in DOMAIN p1 : p1[id].status \in LifecycleStatus /\ p2[id].status \in LifecycleStatus
      /\ DOMAIN p1 \subseteq ImplId
  <2>1. Subject \in ImplId /\ DOMAIN Rivals \subseteq ImplId
    BY ReleaseLedgerAssumption
  <2> QED BY <2>1, WithShape
<1>2. S1 # {}
  BY ReleaseLedgerAssumption, ResolverAssumption DEF Chosen
<1>3. Subject \in S1 /\ \A j \in S1 : Before(Subject, j, p1, profile, policy, Benches)
  <2>1. {i \in S1 : \A j \in S1 : Before(i, j, p1, profile, policy, Benches)} = {Subject}
    BY <1>1, <1>2, ChosenIsBest
  <2> QED BY <2>1
<1>4. /\ Survives(p1[Subject], profile, policy) => Survives(p2[Subject], profile, policy)
      /\ s1(Subject) <= s2(Subject)
  BY <1>1, BetterScore
<1>5. S2 = S1
  <2>1. Subject \in S2
    <3>1. p2[Subject].capability = Purpose
      BY <1>1 DEF ManifestOf
    <3>2. Survives(p1[Subject], profile, policy) /\ Subject \in DOMAIN p2
      BY <1>1, <1>3 DEF Survivors
    <3> HIDE DEF p2
    <3> QED BY <1>4, <3>1, <3>2 DEF Survivors
  <2>2. \A id \in DOMAIN Rivals : id \in S1 <=> id \in S2
    BY <1>1 DEF Survivors
  <2>3. S1 \subseteq DOMAIN Rivals \cup {Subject} /\ S2 \subseteq DOMAIN Rivals \cup {Subject}
    BY <1>1 DEF Survivors
  <2> QED BY <1>3, <2>1, <2>2, <2>3
<1>6. ASSUME NEW j \in S2 PROVE Before(Subject, j, p2, profile, policy, Benches)
  <2>1. j \in DOMAIN p1 /\ j \in S1
    BY <1>5, <1>6 DEF Survivors
  <2>2. s1(Subject) > s1(j) \/ (s1(Subject) = s1(j) /\ Subject <= j)
    BY <1>3, <2>1 DEF Before
  <2>3. j # Subject => s1(j) = s2(j)
    BY <1>1, <2>1
  <2>4. s1(j) \in Int /\ s1(Subject) \in Int /\ s2(Subject) \in Int
    BY <1>1, <2>1, ScoreIsNumber
  <2>5. Subject \in Nat
    BY ReleaseLedgerAssumption
  <2> DEFINE goal == s2(Subject) > s2(j) \/ (s2(Subject) = s2(j) /\ Subject <= j)
  <2>6. goal
    <3> HIDE DEF s1, s2
    <3>1. CASE j = Subject
      BY <2>5, <3>1
    <3>2. CASE j # Subject
      BY <1>4, <2>2, <2>3, <2>4, <3>2
    <3> QED BY <3>1, <3>2
  <2> QED BY <2>6 DEF Before
<1>7. {i \in S2 : \A j \in S2 : Before(i, j, p2, profile, policy, Benches)}
        = {Chosen(Purpose, p2, profile, policy, Benches)}
  BY <1>1, <1>2, <1>5, ChosenIsBest
<1> QED BY <1>3, <1>5, <1>6, <1>7

\* THEOREM: better evidence never costs an implementation the choice, for any
\* rivals, policies, profiles and benchmark records.  Ids are numbered in the
\* order of the strings.
THEOREM ChoiceIsMonotone ==
  ASSUME ImplId \subseteq Nat PROVE Spec => ResolutionIsMonotone
<1>1. ASSUME Typed, Typed', [Next]_vars
      PROVE  [NoWorse(evidence, evidence') =>
                \A policy \in Policies, profile \in Profiles :
                  ChosenNow(policy, profile) = Subject =>
                    ChosenNow(policy, profile)' = Subject]_vars
  <2> SUFFICES ASSUME Next, NoWorse(evidence, evidence'),
                      NEW policy \in Policies, NEW profile \in Profiles,
                      ChosenNow(policy, profile) = Subject
               PROVE  ChosenNow(policy, profile)' = Subject
    BY <1>1
  <2>1. /\ adapter' = adapter /\ adapter \in BOOLEAN
        /\ evidence \in Evidence /\ evidence' \in Evidence
    BY <1>1 DEF Next, Record, Typed
  <2>2. Chosen(Purpose, With(adapter, evidence), profile, policy, Benches) = Subject
    BY DEF ChosenNow, With, FromManifest
  <2>3. policy \in ResolverPolicy
    BY ReleaseLedgerAssumption
  <2>4. Chosen(Purpose, With(adapter, evidence'), profile, policy, Benches) = Subject
    BY <2>1, <2>2, <2>3, BetterChoice
  <2>5. ChosenNow(policy, profile)'
          = Chosen(Purpose, With(adapter', evidence'), profile, policy, Benches)
    BY DEF ChosenNow, With, FromManifest
  <2> QED BY <2>1, <2>4, <2>5
<1> QED BY <1>1, AlwaysTyped, PTL DEF Spec, ResolutionIsMonotone

-----------------------------------------------------------------------------
(* What an export ships *)

\* The choice of the resolver is one of the manifests that survive its filters.
LEMMA ChoiceSurvives ==
  ASSUME ImplId \subseteq Nat, NEW pool, DOMAIN pool \subseteq ImplId,
         \A id \in DOMAIN pool : pool[id].status \in LifecycleStatus,
         NEW cap, NEW profile, NEW policy \in ResolverPolicy, NEW benches,
         Chosen(cap, pool, profile, policy, benches) # NoImpl
  PROVE  Chosen(cap, pool, profile, policy, benches) \in Survivors(cap, pool, profile, policy)
<1> DEFINE S == Survivors(cap, pool, profile, policy)
<1>1. S # {}
  BY DEF Chosen
<1>2. {i \in S : \A j \in S : Before(i, j, pool, profile, policy, benches)}
        = {Chosen(cap, pool, profile, policy, benches)}
  BY <1>1, ChosenIsBest
<1> HIDE DEF S
<1>3. Chosen(cap, pool, profile, policy, benches) \in S
  BY <1>2
<1> QED BY <1>3 DEF S

\* Under the release policy an instance runs an implementation of the pool that
\* is at least conformant, or is left to the catalog.
LEMMA ReleaseResolves ==
  ASSUME ImplId \subseteq Nat, NEW doc, NEW pool, DOMAIN pool # {}, DOMAIN pool \subseteq ImplId,
         \A id \in DOMAIN pool : pool[id].status \in LifecycleStatus,
         Compiles(doc, pool, ReleaseCompile), NEW i \in DOMAIN doc.instances
  PROVE  LET inst == doc.instances[i]
             id == Resolved(inst, pool, ReleaseCompile)
         IN \/ LeftToDefault(inst, doc, pool) /\ id = OrDefault(inst)
            \/ /\ id \in DOMAIN pool /\ pool[id].capability = inst.capability
               /\ Eligible(pool[id]) /\ pool[id].evidence["conformance"] # "fail"
               /\ Selected(inst) => id = OrDefault(inst)
<1> DEFINE inst == doc.instances[i]
           id == Resolved(inst, pool, ReleaseCompile)
           chosen == Chosen(inst.capability, pool, ReleaseCompile.profile,
                            ReleaseCompile.resolver, {})
<1>1. Strict(ReleaseCompile) /\ ReleaseCompile.resolver = Release
  BY DEF Strict, ReleaseCompile, Release
<1>2. CASE Selected(inst)
  <2>1. id = inst.implementation
    BY <1>2 DEF Resolved
  <2>2. id \in DOMAIN pool /\ pool[id].capability = inst.capability
    BY <1>1, <1>2, <2>1 DEF Compiles, Compatible
  <2>3. Eligible(pool[id]) /\ pool[id].evidence["conformance"] # "fail"
    BY <1>1, <1>2, <2>1, <2>2 DEF Compiles, SelectionOk
  <2> QED BY <1>2, <2>1, <2>2, <2>3 DEF OrDefault
<1>3. CASE ~Selected(inst) /\ chosen = NoImpl
  <2>1. inst.capability \in doc.io
    BY <1>1, <1>3 DEF Compiles, LifecycleOk
  <2>2. id = OrDefault(inst)
    BY <1>3 DEF Resolved, OrDefault
  <2> QED BY <1>3, <2>1, <2>2 DEF LeftToDefault
<1>4. CASE ~Selected(inst) /\ chosen # NoImpl
  <2>1. Release \in ResolverPolicy
    <3>1. <<>> \in Seq(ImplId)
      OBVIOUS
    <3>2. {"conformance", "build", "license"} \subseteq Axes
      BY DEF Axes
    <3> QED BY <3>1, <3>2 DEF Release, ResolverPolicy
  <2>2. chosen \in Survivors(inst.capability, pool, ReleaseCompile.profile, Release)
    BY <1>1, <1>4, <2>1, ChoiceSurvives
  <2>3. id = chosen
    BY <1>4 DEF Resolved
  <2>4. /\ chosen \in DOMAIN pool /\ pool[chosen].capability = inst.capability
        /\ Survives(pool[chosen], ReleaseCompile.profile, Release)
    BY <2>2 DEF Survivors
  <2> HIDE DEF chosen, id
  <2>5. Eligible(pool[id]) /\ pool[id].evidence["conformance"] = "pass"
    BY <2>3, <2>4 DEF Survives, Release
  <2> QED BY <1>4, <2>3, <2>4, <2>5 DEF id
<1> QED BY <1>2, <1>3, <1>4

\* The pool of a release: the manifests of what the document needs, and the I/O
\* of the compiler.
LEMMA ReleasePoolShape ==
  ASSUME NEW doc \in Documents, NEW m \in Manifests, Needed(doc) \subseteq DOMAIN RegistryWith(m)
  PROVE  LET pool == ReleasePool(doc, RegistryWith(m)) IN
           /\ DOMAIN pool \subseteq ImplId /\ Needed(doc) \subseteq DOMAIN pool
           /\ \A id \in DOMAIN pool : pool[id].status \in LifecycleStatus
           /\ \A id \in Needed(doc) : pool[id] = RegistryWith(m)[id]
           /\ \A id \in DOMAIN pool \ Needed(doc) : pool[id].capability \in Io
<1> DEFINE passing == DOMAIN doc.instances \ Transforms(doc)
           passed == {OrDefault(doc.instances[i]) : i \in passing} \ (Needed(doc) \cup {NoImpl})
           pool == ReleasePool(doc, RegistryWith(m))
<1>1. DOMAIN pool = Needed(doc) \cup passed
  BY DEF ReleasePool
<1>2. /\ \A id \in passed : pool[id] = IoManifest(CHOOSE cap \in IoOf(doc, id) : TRUE)
      /\ \A id \in Needed(doc) : pool[id] = RegistryWith(m)[id]
  BY DEF ReleasePool
<1>3. /\ DOMAIN RegistryWith(m) \subseteq ImplId
      /\ \A id \in DOMAIN RegistryWith(m) : RegistryWith(m)[id].status \in LifecycleStatus
  <2>1. m.status \in LifecycleStatus
    BY DEF Manifests, ManifestOf
  <2>2. \A id \in DOMAIN Rivals : Rivals[id].status \in LifecycleStatus
    BY ReleaseLedgerAssumption DEF Manifest
  <2> QED BY <2>1, <2>2, ReleaseLedgerAssumption DEF RegistryWith
<1>4. passed \subseteq ImplId
  <2> SUFFICES ASSUME NEW i \in passing, OrDefault(doc.instances[i]) # NoImpl
               PROVE  OrDefault(doc.instances[i]) \in ImplId
    OBVIOUS
  <2>1. doc.instances[i].capability \in Capability
        /\ doc.instances[i].implementation \in ImplId \cup {NoImpl}
    BY ReleaseLedgerAssumption
  <2>2. DefaultOf[doc.instances[i].capability] \in ImplId \cup {NoImpl}
    BY <2>1, GateAssumption
  <2> QED BY <2>1, <2>2 DEF OrDefault, Selected
<1>5. ASSUME NEW id \in passed
      PROVE  pool[id].status \in LifecycleStatus /\ pool[id].capability \in Io
  <2>1. PICK i \in passing : id = OrDefault(doc.instances[i])
    OBVIOUS
  <2>2. doc.instances[i].capability \in IoOf(doc, id)
    BY <2>1 DEF IoOf
  <2>3. IoOf(doc, id) \subseteq Io
    BY DEF IoOf, Transforms
  <2>4. (CHOOSE cap \in IoOf(doc, id) : TRUE) \in Io
    BY <2>2, <2>3
  <2>5. pool[id].status = "conformant" /\ pool[id].capability \in Io
    <3> DEFINE cap == CHOOSE c \in IoOf(doc, id) : TRUE
    <3>1. pool[id] = IoManifest(cap)
      BY <1>2
    <3> HIDE DEF pool, cap
    <3> QED BY <2>4, <3>1 DEF IoManifest, cap
  <2> QED BY <2>5 DEF LifecycleStatus
<1> HIDE DEF passed, pool
<1>6. \A id \in Needed(doc) : pool[id].status \in LifecycleStatus
  BY <1>2, <1>3
<1>7. \A id \in DOMAIN pool : pool[id].status \in LifecycleStatus
  BY <1>1, <1>5, <1>6
<1>8. \A id \in DOMAIN pool \ Needed(doc) : pool[id].capability \in Io
  BY <1>1, <1>5
<1>9. DOMAIN pool \subseteq ImplId
  BY <1>1, <1>3, <1>4
<1> QED BY <1>1, <1>2, <1>7, <1>8, <1>9 DEF pool

\* THEOREM: what a release export ships has been verified, and the implementation
\* of the ledger is shipped only with green suites and an artifact that fails
\* nothing, unless an instance the document calls I/O is left to the catalog;
\* for any documents and rivals.  Ids are numbered in the order of the strings.
THEOREM ReleaseIsJustified ==
  ASSUME ImplId \subseteq Nat PROVE Spec => []ReleaseShipsJustified
<1>1. Typed => ReleaseShipsJustified
  <2> SUFFICES ASSUME Typed, NEW doc \in Documents, NEW m \in Manifests,
                      NEW suitesPass \in BOOLEAN, NEW clean \in BOOLEAN,
                      ExportsRelease(doc, RegistryWith(m), VerifiedWith(m, suitesPass, clean)),
                      NEW i \in Transforms(doc)
               PROVE  LET verified == VerifiedWith(m, suitesPass, clean)
                          pool == ReleasePool(doc, RegistryWith(m))
                          id == Resolved(doc.instances[i], pool, ReleaseCompile)
                      IN /\ id \in verified
                         /\ id = Subject /\ ~LeftToDefault(doc.instances[i], doc, pool) =>
                              /\ suitesPass /\ adapter /\ ~AnyFail(evidence)
                              /\ Eligible(m) /\ m.evidence["conformance"] # "fail"
    BY DEF ReleaseShipsJustified
  <2> DEFINE verified == VerifiedWith(m, suitesPass, clean)
             pool == ReleasePool(doc, RegistryWith(m))
             inst == doc.instances[i]
             id == Resolved(inst, pool, ReleaseCompile)
  <2>1. /\ Needed(doc) # {} /\ Needed(doc) \subseteq DOMAIN RegistryWith(m)
        /\ Needed(doc) \subseteq verified /\ Compiles(doc, pool, ReleaseCompile)
    BY DEF ExportsRelease, VerifiedPool
  <2>2. /\ DOMAIN pool \subseteq ImplId /\ DOMAIN pool # {}
        /\ \A j \in DOMAIN pool : pool[j].status \in LifecycleStatus
        /\ \A j \in Needed(doc) : pool[j] = RegistryWith(m)[j]
        /\ \A j \in DOMAIN pool \ Needed(doc) : pool[j].capability \in Io
    BY <2>1, ReleasePoolShape
  <2>3. i \in DOMAIN doc.instances /\ inst.capability \notin Io /\ OrDefault(inst) \in Needed(doc)
    BY DEF Transforms, Needed
  <2>4. \/ LeftToDefault(inst, doc, pool) /\ id = OrDefault(inst)
        \/ /\ id \in DOMAIN pool /\ pool[id].capability = inst.capability
           /\ Eligible(pool[id]) /\ pool[id].evidence["conformance"] # "fail"
    BY <2>1, <2>2, <2>3, ReleaseResolves
  <2> HIDE DEF id, pool, inst, verified
  <2>5. id \in Needed(doc)
    BY <2>2, <2>3, <2>4
  <2>6. ASSUME id = Subject, ~LeftToDefault(inst, doc, pool)
        PROVE  /\ suitesPass /\ adapter /\ ~AnyFail(evidence)
               /\ Eligible(m) /\ m.evidence["conformance"] # "fail"
    <3>1. pool[Subject] = m
      BY <2>2, <2>5, <2>6 DEF RegistryWith
    <3>2. Eligible(m) /\ m.evidence["conformance"] # "fail"
      BY <2>4, <2>6, <3>1
    <3>3. ~Overclaims(m.status, JustifiedByArtifact(adapter, evidence, suitesPass, clean))
      BY <2>1, <2>5, <2>6, ReleaseLedgerAssumption DEF VerifiedWith, verified
    <3>4. JustifiedByArtifact(adapter, evidence, suitesPass, clean)
            \notin {"candidate", "inventory_only"}
      BY <3>2, <3>3, Ranks DEF Eligible, NeedsArtifact, Overclaims
    <3>5. suitesPass /\ adapter /\ ~AnyFail(evidence)
      BY <3>4, ByArtifact DEF Typed
    <3> QED BY <3>2, <3>5
  <2> QED BY <2>1, <2>5, <2>6 DEF id, pool, inst, verified
<1> QED BY <1>1, AlwaysTyped, PTL

\* THEOREM: an export under the release policy that verifies nothing ships a
\* candidate only if no manifest was listed, or where it is left to the catalog.
THEOREM CandidatesOnlyBlind ==
  ASSUME ImplId \subseteq Nat PROVE Spec => []CandidatesShipOnlyBlind
<1>1. CandidatesShipOnlyBlind
  <2> SUFFICES ASSUME NEW doc \in Documents, NEW m \in Manifests,
                      NEW registry \in {RegistryWith(m), NoPool}, DOMAIN registry # {},
                      ExportsWasm(doc, registry, TRUE, ReleaseCompile),
                      NEW i \in Transforms(doc)
               PROVE  LET id == Resolved(doc.instances[i], registry, ReleaseCompile) IN
                        \/ id \in DOMAIN registry /\ Eligible(registry[id])
                        \/ LeftToDefault(doc.instances[i], doc, registry)
    BY DEF CandidatesShipOnlyBlind, Listing
  <2>1. Compiles(doc, registry, ReleaseCompile)
    BY DEF ExportsWasm, ExportsListed, Listing
  <2>2. registry = RegistryWith(m)
    BY DEF NoPool
  <2>3. /\ DOMAIN registry \subseteq ImplId
        /\ \A id \in DOMAIN registry : registry[id].status \in LifecycleStatus
    <3>1. m.status \in LifecycleStatus
      BY DEF Manifests, ManifestOf
    <3>2. \A id \in DOMAIN Rivals : Rivals[id].status \in LifecycleStatus
      BY ReleaseLedgerAssumption DEF Manifest
    <3> QED BY <2>2, <3>1, <3>2, ReleaseLedgerAssumption DEF RegistryWith
  <2>4. i \in DOMAIN doc.instances
    BY DEF Transforms
  <2> QED BY <2>1, <2>3, <2>4, ReleaseResolves
<1> QED BY <1>1, PTL

============================================================================
