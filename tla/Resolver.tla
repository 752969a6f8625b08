------------------------------ MODULE Resolver ------------------------------
(***************************************************************************)
(* resolve.rs of wvx-registry-client: which implementation of a capability *)
(* a policy and a target profile choose.  Implementations are filtered by  *)
(* the policy, scored, and the first of the ranking is taken.              *)
(*                                                                         *)
(* An implementation id is an integer, in the order of the strings, which  *)
(* settles ties.  A pool is a function from ids to manifests.              *)
(***************************************************************************)
EXTENDS Admission, Integers, Sequences, FiniteSets

CONSTANTS
  ImplId,      \* implementation ids, `id@version`
  Capability,  \* capability keys
  Platform,    \* architectures, operating systems, workload classes
  NoImpl,      \* no implementation chosen
  Any          \* a profile or a bench record that leaves a platform open

ASSUME ResolverAssumption ==
  /\ ImplId \subseteq Int
  /\ NoImpl \notin ImplId
  /\ Any \notin Platform

\* What the resolver looks at in a manifest. `artifact` says that it names an
\* evidence artifact, `unsafe` that its notes mention unsafe or ffi, `pure`
\* that its package is a known pure-Rust one.
Manifest == [capability : Capability, status : LifecycleStatus, evidence : Evidence,
             artifact : BOOLEAN, unsafe : BOOLEAN, pure : BOOLEAN]

\* A ResolverPolicy: whether candidates may be chosen, the axes that must
\* pass, whether a verified artifact is needed, and the preferred ids.
ResolverPolicy == [candidates : BOOLEAN, passing : SUBSET Axes, verified : BOOLEAN,
                   prefer : Seq(ImplId)]

Dev == [candidates |-> TRUE, passing |-> {}, verified |-> FALSE, prefer |-> <<>>]
Default == [Dev EXCEPT !.passing = {"conformance"}]
Release == [candidates |-> FALSE, passing |-> {"conformance", "build", "license"},
            verified |-> TRUE, prefer |-> <<>>]

Places == {"arch", "os", "workload"}
Profile == [noUnsafe : BOOLEAN, pureRust : BOOLEAN, at : [Places -> Platform \cup {Any}]]
BenchmarkRecord == [implementation : ImplId, ok : BOOLEAN, at : [Places -> Platform \cup {Any}]]

Eligible(m) == NeedsArtifact(m.status)

\* The hard filters: an axis that must pass may not be absent or unknown.
Survives(m, profile, policy) ==
  /\ policy.candidates \/ Eligible(m)
  /\ \A a \in policy.passing : m.evidence[a] = "pass"
  /\ policy.verified => m.artifact /\ Eligible(m)
  /\ profile.noUnsafe => ~m.unsafe

If(condition, points) == IF condition THEN points ELSE 0

StatusScore(s) ==
  CASE s = "admitted" -> 400 [] s = "conformant" -> 300
    [] s = "candidate" -> 100 [] s = "inventory_only" -> 10

\* The first place of an id among the preferred ones counts.
PreferenceScore(id, prefer) ==
  IF \A k \in DOMAIN prefer : prefer[k] # id THEN 0
  ELSE 10010 - 10 * (CHOOSE k \in DOMAIN prefer :
                       prefer[k] = id /\ \A j \in 1 .. k - 1 : prefer[j] # id)

Fits(b, profile, place) == profile.at[place] # Any /\ b.at[place] = profile.at[place]
BenchFit(b, profile) ==
  10 + If(Fits(b, profile, "arch"), 50) + If(Fits(b, profile, "os"), 40)
     + If(Fits(b, profile, "workload"), 80)

\* The best fit of the benchmark records that are ok.
BenchScore(id, profile, benches) ==
  LET fits == {BenchFit(b, profile) : b \in {c \in benches : c.implementation = id /\ c.ok}}
  IN IF fits = {} THEN 0 ELSE CHOOSE f \in fits : \A g \in fits : g <= f

\* Mutant: a build that passes counts against.
ScoreAgainstBuild(id, m, profile, policy, benches) ==
  PreferenceScore(id, policy.prefer) + StatusScore(m.status)
    + If(m.evidence["conformance"] = "pass", 50) - If(m.evidence["build"] = "pass", 20)
    + If(profile.pureRust /\ m.pure, 15) + BenchScore(id, profile, benches)

Score(id, m, profile, policy, benches) ==
  PreferenceScore(id, policy.prefer) + StatusScore(m.status)
    + If(m.evidence["conformance"] = "pass", 50) + If(m.evidence["build"] = "pass", 20)
    + If(profile.pureRust /\ m.pure, 15) + BenchScore(id, profile, benches)

\* The pool after the filters.
Survivors(cap, pool, profile, policy) ==
  {id \in DOMAIN pool : pool[id].capability = cap /\ Survives(pool[id], profile, policy)}

\* The order of the ranking: by score, then by id.
Before(i, j, pool, profile, policy, benches) ==
  LET s(id) == Score(id, pool[id], profile, policy, benches)
  IN s(i) > s(j) \/ (s(i) = s(j) /\ i <= j)

\* resolve_implementation_ex: the head of the ranking.
Chosen(cap, pool, profile, policy, benches) ==
  LET survivors == Survivors(cap, pool, profile, policy)
  IN IF survivors = {} THEN NoImpl
     ELSE CHOOSE i \in survivors :
            \A j \in survivors : Before(i, j, pool, profile, policy, benches)
=============================================================================
