------------------------------- MODULE Suites -------------------------------
(***************************************************************************)
(* What decides whether an implementation conforms (crates/                *)
(* wvx-conformance): the profile of the registry run over all that declare *)
(* it, or over one of them for its promotion; the built-in suite of the    *)
(* pilot; the benches; and the goldens that compare a run with the export. *)
(*                                                                         *)
(* Every implementation may behave in any of the ways `Worlds` has, and    *)
(* every profile may be any of `Profiles`.  A golden is the output that is *)
(* expected, Absent, or Malformed when its base64 does not decode.         *)
(***************************************************************************)
EXTENDS Handlers, FiniteSets, FiniteSetsExt

CONSTANTS
  Worlds,      \* functions from implementations to payloads to results
  Profiles,    \* the documents of the profile
  Declaring,   \* sets of implementations whose manifests name the profile
  Lists,       \* the implementations the built-in suites name, by capability
  Encoders,    \* from a capability that decodes to the encoder of its inputs
  Samples,     \* from a capability to its vectors: [input, want], or [input, family]
  Exported,    \* the compiler's default for a capability
  Malformed, Absent

\* The collector can be asked about every implementation that declares the
\* profile and has a handler for its capability, in a process of any plugins.
ASSUME ListedAssumption ==
  \A profile \in Profiles, declaring \in Declaring :
    /\ declaring \subseteq Nat
    /\ \A table \in Tables, i \in declaring :
         Resolve(Registries[table], profile.cap, i) # Nil => i \in Lists[profile.cap]

VARIABLES
  behaves, document, declared,
  plugins,     \* the process-wide table: who registered
  collected,     \* what the collector of promotions said of an implementation
  whole,       \* what the run over all of them said
  last         \* the last answer of the other suites, FALSE for a failure
suiteVars == <<behaves, document, declared, plugins, collected, whole, last>>

-----------------------------------------------------------------------------
(* The runner of profiles *)

\* Bytes in, and out what is on the first of three ports.
Transform(reg, cap, impl, input) ==
  IF Resolve(reg, cap, impl) = Nil THEN NoHandler
  ELSE LET r == Execute(behaves, impl, cap, "bytes", "bytes", input, {}) IN
       IF ~ r.ok THEN r
       ELSE IF r.ports \cap {"digest", "bytes", "value"} = {} THEN BadPort
       ELSE Answer(r.out)

Usable(v) == v.golden \notin {Absent, Malformed}

PositiveOk(reg, v, impl) ==
  LET r == Transform(reg, document.cap, impl, v.input) IN
  IF r.ok THEN v.expectOk /\ (Usable(v) => r.out = v.golden) ELSE ~ v.expectOk

NegativeOk(reg, v, impl) ==
  LET r == Transform(reg, document.cap, impl, v.input) IN
  ~ r.ok /\ (v.family # Nil => v.family \in {r.family} \cup r.says)

\* Where nothing says what the output is, those who have one must agree with the
\* first of them.  A mutant compares where there is something to compare with.
EqualOf(reg, impls, v) ==
  LET out == [i \in {j \in impls : Transform(reg, document.cap, j, v.input).ok} |->
                Transform(reg, document.cap, i, v.input).out]
  IN \A i \in DOMAIN out : out[i] = out[Min(DOMAIN out)]
EqualIfGolden(reg, impls, v) ==
  v.expectOk /\ Usable(v) => EqualOf(reg, impls, v)
Equal(reg, impls, v) ==
  v.expectOk /\ ~ Usable(v) => EqualOf(reg, impls, v)

Implementations(reg) ==
  {i \in declared : Resolve(reg, document.cap, i) # Nil}

\* "err" when the profile cannot be run: nobody to run it over, or an input that
\* does not decode.
RunProfileDoc(reg, impls) ==
  IF impls = {} \/ \E v \in document.vectors \cup document.negatives : v.input = Malformed
  THEN "err"
  ELSE IF /\ \A v \in document.vectors :
               Equal(reg, impls, v) /\ \A i \in impls : PositiveOk(reg, v, i)
          /\ \A v \in document.negatives, i \in impls : NegativeOk(reg, v, i)
       THEN "ok" ELSE "failed"

RunForImplementation(reg, impl) ==
  IF impl \notin Implementations(reg) THEN "err" ELSE RunProfileDoc(reg, {impl})

-----------------------------------------------------------------------------
(* The built-in suite *)

\* A call of a handler the suite names, with the port and the config the
\* capability is known to have.
Call(reg, cap, impl, input) ==
  IF Resolve(reg, cap, impl) = Nil THEN NoHandler
  ELSE Execute(behaves, impl, cap, Shape[cap].in, Shape[cap].of, input, {"path", "value"})

\* The vectors of one implementation: the output that is wanted, or a failure, of
\* a family if there is one to expect.
Gives(reg, cap, impl, s) ==
  LET r == Call(reg, cap, impl, s.input) IN r.ok /\ r.out = s.want

Refuses(reg, cap, impl, s) ==
  LET r == Call(reg, cap, impl, s.input) IN
  ~ r.ok /\ (s.family # Nil => r.family = s.family)

Conforms(reg, cap, impl, s) ==
  IF "want" \in DOMAIN s THEN Gives(reg, cap, impl, s) ELSE Refuses(reg, cap, impl, s)

\* All of a list succeed on the port and agree.
MultiEqual(reg, cap, port, input) ==
  LET r == [i \in Lists[cap] |-> Call(reg, cap, i, input)] IN
  /\ \A i \in Lists[cap] : r[i].ok /\ port \in r[i].ports
  /\ \A i, j \in Lists[cap] : r[i].out = r[j].out

\* The inputs of a decoder are what an encoder makes of the vectors, when it does:
\* where it fails there is no case.
Encoded(reg, cap, input) ==
  IF cap \notin DOMAIN Encoders THEN {input}
  ELSE LET r == Call(reg, "encode", Encoders[cap], input) IN
       IF r.ok /\ "bytes" \in r.ports THEN {r.out} ELSE {}

PilotConformance(reg) ==
  /\ \A cap \in DOMAIN Samples \cap {"parse", "serialize", "path_set"} :
       \A s \in Samples[cap], i \in Lists[cap] : Conforms(reg, cap, i, s)
  /\ \A cap \in DOMAIN Samples \cap {"hash", "encode", "decode"}, s \in {"a", "b"} :
       \A input \in Encoded(reg, cap, s) :
         MultiEqual(reg, cap, IF cap = "hash" THEN "digest" ELSE "bytes", input)
  /\ RunProfileDoc(reg, Implementations(reg)) = "ok"

-----------------------------------------------------------------------------
(* Benches and goldens *)

\* A failure ends the case, in the warmup or in an iteration. Whether the output
\* port is there is looked at only in the warmup, and only for bytes.
BenchValue(reg, cap, impl, input) == Call(reg, cap, impl, input).ok

BenchBytes(reg, cap, impl, input, warmup) ==
  LET r == Call(reg, cap, impl, input) IN
  r.ok /\ (warmup > 0 => (IF cap = "hash" THEN "digest" ELSE "bytes") \in r.ports)

BenchOk(reg, cap, impl, input, warmup) ==
  IF cap \in {"parse", "serialize", "path_set"} THEN BenchValue(reg, cap, impl, input)
  ELSE BenchBytes(reg, cap, impl, input, warmup)

BenchCases(reg, impl) ==
  {c \in {cap \in DOMAIN Lists : impl \in Lists[cap]} \X {"a", "enc"} :
     c[2] \in Encoded(reg, c[1], "a")}

\* The collector wants a bench of the implementation itself, and takes none for
\* "not ok, and nothing to report".
RunBench(reg, impl) ==
  LET mine == BenchCases(reg, impl) IN
  mine # {} /\ \A c \in mine : BenchOk(reg, c[1], impl, c[2], 4)

\* A run of the pipeline, with an implementation chosen or the default of the
\* registry; and its export, with the same or the default of the compiler.
Dynamic(reg, cap, chosen, input) ==
  Transform(reg, cap, IF chosen = Nil THEN Resolve(reg, cap, Nil) ELSE chosen, input)

Static(cap, chosen, input) ==
  Execute(behaves, IF chosen = Nil THEN Exported[cap] ELSE chosen,
          cap, "bytes", "bytes", input, {})

GoldenOk(reg, cap, chosen, input) ==
  LET dynamic == Dynamic(reg, cap, chosen, input)
      static == Static(cap, chosen, input)
  IN dynamic.ok /\ static.ok /\ dynamic.out = static.out

-----------------------------------------------------------------------------
(* The commands, in any order.  Each registers the pilot's plugins before it *)
(* builds its registry of handlers.                                          *)

SuitesInit ==
  /\ behaves \in Worlds /\ document \in Profiles /\ declared \in Declaring
  /\ plugins \in {<<>>, <<"external">>}
  /\ collected = [i \in Lists[document.cap] |-> "none"] /\ whole = "none" /\ last = TRUE

Given == UNCHANGED <<behaves, document, declared>>
Table == Registers("pilot", plugins)
Registry == Registries[Table]

\* The collector of a promotion: its own run of the profile, all of it ok.
Collect(impl) ==
  /\ collected[impl] = "none"
  /\ plugins' = Table
  /\ collected' = [collected EXCEPT ![impl] =
       IF RunForImplementation(Registry, impl) = "ok" THEN "accepted" ELSE "refused"]
  /\ UNCHANGED <<whole, last>> /\ Given

RunProfile ==
  /\ whole = "none"
  /\ plugins' = Table
  /\ whole' = RunProfileDoc(Registry, Implementations(Registry))
  /\ UNCHANGED <<collected, last>> /\ Given

Others ==
  /\ plugins' = Table
  /\ \/ last' = PilotConformance(Registry)
     \/ \E cap \in DOMAIN Lists : \E i \in Lists[cap] : last' = RunBench(Registry, i)
     \/ \E chosen \in {Nil} \cup Lists["parse"], x \in {"a", "b"} :
          last' = GoldenOk(Registry, "parse", chosen, x)
  /\ UNCHANGED <<collected, whole>> /\ Given

SuitesNext == (\E i \in DOMAIN collected : Collect(i)) \/ RunProfile \/ Others

-----------------------------------------------------------------------------
(* Properties *)

Same(i, j, input) ==
  LET r == Transform(Registry, document.cap, i, input)
      s == Transform(Registry, document.cap, j, input)
  IN (r.ok <=> s.ok) /\ (r.ok => r.out = s.out)

\* Two implementations that were each accepted on its own run can stand for each
\* other wherever the profile says what must come out: the same output for every
\* golden, a failure for every negative.  And the run over all of them adds only
\* what no run of one of them can see: where there is no golden they must agree
\* (profile_runner.rs:139, "multi-impl equality when no golden output").
AcceptedStandForEachOther ==
  LET accepted == {i \in DOMAIN collected : collected[i] = "accepted"}
      undecided == {v \in document.vectors : v.expectOk /\ ~ Usable(v)}
  IN /\ \A i, j \in accepted : \A v \in (document.vectors \ undecided) \cup document.negatives :
          Same(i, j, v.input)
     /\ accepted # {} /\ accepted = declared \cap DOMAIN collected /\ whole # "none" =>
          (whole = "ok" <=> \A i, j \in accepted, v \in undecided : Same(i, j, v.input))
=============================================================================
