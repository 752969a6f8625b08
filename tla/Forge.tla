------------------------------- MODULE Forge -------------------------------
(***************************************************************************)
(* Forge: the public functions of a scanned package become drafts of       *)
(* adapters (draft.rs), drafts are compiled and probed                     *)
(* (compile_adapter.rs), and a Gate C campaign measures both over labelled *)
(* cases (economics.rs). A campaign is run blind or with its labels; here  *)
(* it is run both ways over the same cases.                                *)
(***************************************************************************)
EXTENDS CapabilityMatch

CONSTANTS
  Ontology,  \* the capabilities known, of the pilot or of a registry
  Cases,     \* the cases a campaign may have
  MaxCases,  \* bound: the cases of one campaign
  MinCases   \* the fewest cases and domains of a full campaign, blind and not

\* A candidate is a function with its name, its signature, its shape, the words
\* of its path, and the rank of its module in the order of draft ids. A case asks
\* for the functions of one name: `package` is what extraction finds, in order,
\* or None for a missing directory; `hint` is what the campaign adds to name
\* and signature, the folder or, with neutral package ids, the rustdoc (which
\* leaves out the paths as well). An empty label is None. Functions the name
\* of which only contains the name asked for are left out.
Modes == {"blind", "labelled"}

ASSUME CasesAssumption ==
  \A case \in Cases : case.package # None => DOMAIN case.package \subseteq Nat

VARIABLES
  stage,  \* "grading", "reported", "over"
  cases,  \* how many cases have been graded
  tally,  \* what the report counts, for each way to run the campaign
  go      \* the verdict of each report

forgeVars == <<stage, cases, tally, go>>

-----------------------------------------------------------------------------
(* Drafts *)

\* draft_one looks at the bare name and signature. A weak match invents a
\* capability of its own.
DraftFrom(candidate, match) ==
  [candidate |-> candidate,
   capability |-> IF Reuses(match) THEN match.key ELSE "invented",
   domain |-> IF Reuses(match) THEN match.domain ELSE None]

Drafts(package) ==
  [k \in DOMAIN package |->
     DraftFrom(package[k], Match(package[k].name, package[k].signature, package[k].shape, Ontology))]

\* classify_shape: what the adapter crate is rendered for.
AdapterShape(draft) ==
  CASE draft.capability \in {"parse", "serialize", "path_set"} -> draft.capability
    [] draft.domain \in {"hash", "compress", "codec", "text"} -> "bytes"
    [] OTHER ->
  LET ins == Elements(NormalAll(draft.candidate.shape.inputs))
      outs == Elements(NormalAll(draft.candidate.shape.outputs)) IN
  CASE "bytes" \in ins /\ "bytes" \in outs -> "bytes"
    [] "bytes" \in ins /\ "value" \in outs -> "parse"
    [] "value" \in ins /\ "bytes" \in outs -> "serialize"
    [] OTHER -> "unknown"

HasProfile == {"parse", "sha256", "hex_encode", "hex_decode", "base64_encode",
               "unicode_uppercase", "ascii_uppercase"}

\* compile_adapter_from_draft. What cargo and the probe say is external: a crate
\* that cannot be written is an error, which has no verdict. The shape of
\* path_set has no probe, so that it never counts; a profile only looks at how
\* the probe exits.
World == [written : BOOLEAN, cargo : BOOLEAN, native : BOOLEAN, profile : BOOLEAN]
CompileOk(draft, world) ==
  /\ world.cargo
  /\ AdapterShape(draft) \notin {"unknown", "path_set"}
  /\ world.native
  /\ draft.capability \in HasProfile => world.profile
Verdict(draft, world) ==
  IF ~world.written THEN "error" ELSE IF CompileOk(draft, world) THEN "ok" ELSE "failed"

-----------------------------------------------------------------------------
(* One case *)

Mapping(case, candidate) ==
  Match(Joined(candidate.name, case.hint \cup candidate.path),
        candidate.signature \cup case.hint,
        candidate.shape, Ontology)

\* Mutant: the label is enough, whatever the kind of the match.
LabelledByKey(case, match) == match.key = case.label

Labelled(case, match) == match.key = case.label /\ Reuses(match)

\* The candidate a campaign settles on. With labels, the first candidate after
\* the very first that maps to the label ends the search; otherwise a candidate
\* replaces the one before only if it is better.
ChosenAmong(of, case, mode) ==
  LET told == {k \in DOMAIN of : /\ mode = "labelled" /\ case.label # None
                                 /\ k > 1 /\ Labelled(case, of[k])}
  IN of[First(IF told # {} THEN told ELSE Best(of))]
Chosen(case, mode) ==
  ChosenAmong([k \in DOMAIN case.package |-> Mapping(case, case.package[k])], case, mode)

\* Without a label anything but a capability for JSON is right.
Correct(case, match) ==
  IF case.label = None THEN ~(Reuses(match) /\ match.domain = "json")
  ELSE match.key = case.label /\ Reuses(match)

\* The draft that is compiled: of the capability mapped to (blind) or of the
\* label, or else the first that there is, whatever its capability.
DraftAmong(drafts, case, mode, match) ==
  LET wanted == IF mode = "blind" THEN match.key ELSE case.label
      of == {k \in DOMAIN drafts : drafts[k].capability = wanted
                                   \/ (mode = "labelled" /\ case.label = None)}
      usable == IF of = {} THEN DOMAIN drafts ELSE of
      rank == [k \in DOMAIN drafts |-> drafts[k].candidate.module] IN
  drafts[CHOOSE k \in usable : \A l \in usable :
           rank[k] < rank[l] \/ (rank[k] = rank[l] /\ k <= l)]

Found(case) == case.package \notin {None, <<>>}

ShouldCompile(case, mode, match) ==
  case.compiles /\ Reuses(match) /\ (mode = "blind" \/ Correct(case, match))

Compiled(case, mode, match, world) ==
  IF ShouldCompile(case, mode, match)
    THEN Verdict(DraftAmong(Drafts(case.package), case, mode, match), world) ELSE "error"

Count(condition) == IF condition THEN 1 ELSE 0

\* What a case adds to the report when its function is found. A compilation that
\* is an error is not counted at all.
Graded(case, match, right, verdict) ==
  [found |-> 1, correct |-> Count(right), false |-> Count(~right /\ match.kind = 4),
   compiled |-> Count(verdict # "error"), built |-> Count(verdict = "ok"),
   domains |-> {match.domain} \ {None}, labels |-> {case.domain} \ {None}]
GradedBy(case, mode, world, match) ==
  Graded(case, match, Correct(case, match), Compiled(case, mode, match, world))

\* A case without its function counts by its label.
Result(case, mode, world) ==
  IF Found(case) THEN GradedBy(case, mode, world, Chosen(case, mode))
  ELSE [found |-> 0, correct |-> 0, false |-> 0, compiled |-> 0, built |-> 0,
        domains |-> {case.domain} \ {None}, labels |-> {case.domain} \ {None}]

Results == {[m \in Modes |-> Result(case, m, world)] : case \in Cases, world \in World}

Added(t, r) ==
  [found |-> t.found + r.found, correct |-> t.correct + r.correct, false |-> t.false + r.false,
   compiled |-> t.compiled + r.compiled, built |-> t.built + r.built,
   domains |-> t.domains \cup r.domains, labels |-> t.labels \cup r.labels]

-----------------------------------------------------------------------------
(* A campaign *)

Blank == [found |-> 0, correct |-> 0, false |-> 0, compiled |-> 0, built |-> 0,
          domains |-> {}, labels |-> {}]

ForgeInit ==
  /\ stage = "grading" /\ cases = 0
  /\ tally = [m \in Modes |-> Blank]
  /\ go = [m \in Modes |-> FALSE]

Grade ==
  /\ stage = "grading" /\ cases < MaxCases
  /\ \E result \in Results :
       tally' = [m \in Modes |-> Added(tally[m], result[m])]
  /\ cases' = cases + 1
  /\ UNCHANGED <<stage, go>>

\* The thresholds, without the division: at least 0.8 found and 0.8 of these
\* mapped right, and half of what was compiled in the end built, if anything was.
PilotGo(t) ==
  /\ 10 * t.found >= 8 * cases
  /\ 10 * t.correct >= 8 * (IF t.found = 0 THEN 1 ELSE t.found)
  /\ t.compiled = 0 \/ 2 * t.built >= t.compiled
  /\ t.false = 0

\* An external campaign: several domains, and minutes that were measured.
FullGo(mode, t, measured) ==
  /\ cases >= MinCases[mode].cases
  /\ "json" \in t.labels /\ t.labels \cap {"hash", "compress", "codec"} # {}
  /\ Cardinality({IF d = "text" THEN "codec" ELSE d :
                  d \in t.domains \cup (t.labels \cap {"json"})}) >= MinCases[mode].domains
  /\ PilotGo(t)
  /\ measured
  /\ mode = "blind" => t.compiled > 0 /\ 10 * t.built >= 7 * t.compiled

Report ==
  /\ stage = "grading" /\ cases > 0
  /\ stage' = "reported"
  /\ \E external, measured \in BOOLEAN :
       go' = [m \in Modes |-> IF external THEN FullGo(m, tally[m], measured)
                              ELSE PilotGo(tally[m])]
  /\ UNCHANGED <<cases, tally>>

\* The report is handed over and nothing of the campaign is kept.
Close ==
  /\ stage = "reported"
  /\ stage' = "over" /\ cases' = 0
  /\ tally' = [m \in Modes |-> Blank]
  /\ go' = [m \in Modes |-> FALSE]

Campaign == Grade \/ Report \/ Close

-----------------------------------------------------------------------------
(* Properties *)

\* Being told the labels never makes a campaign worse: over the same cases it
\* maps every case right that the blind one maps right, and makes no false
\* mapping the blind one does not make. What a blind campaign shows of the
\* mapping (economics.rs:224, "never feed expected_capability into matcher") is
\* hence no better than what the matcher can do.
BlindIsHarder ==
  LET b == tally["blind"]  l == tally["labelled"] IN
  /\ b.found = l.found
  /\ b.correct <= l.correct
  /\ l.false <= b.false
=============================================================================
