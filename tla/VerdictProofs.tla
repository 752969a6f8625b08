---------------------------- MODULE VerdictProofs ----------------------------
(***************************************************************************)
(* What is proved of the two components that judge what code does, for all *)
(* cases, worlds and profiles: a campaign of Forge, told the labels or     *)
(* not, and the runs of a conformance profile.                             *)
(***************************************************************************)
EXTENDS Forge, Suites, SequenceTheorems, WellFoundedInduction, TLAPS

LEMMA LeastOf ==
  ASSUME NEW S \in SUBSET Nat, S # {}
  PROVE  \E k \in S : \A j \in S : k <= j
<1>1. PICK k \in S : \A j \in S : <<j, k>> \notin OpToRel(<, Nat)
  BY NatLessThanWellFounded, WFMin
<1>2. \A j \in S : ~(j < k)
  BY <1>1 DEF OpToRel
<1> QED BY <1>2

-----------------------------------------------------------------------------
(* One case of a campaign *)

\* Without its label the search settles on the same candidate, or the label has
\* named one that is right.
LEMMA ToldIsRight ==
  ASSUME NEW case \in Cases, Found(case)
  PROVE  \/ Chosen(case, "labelled") = Chosen(case, "blind")
         \/ Correct(case, Chosen(case, "labelled"))
<1> DEFINE of == [k \in DOMAIN case.package |-> Mapping(case, case.package[k])]
           told == {k \in DOMAIN of : case.label # None /\ k > 1 /\ Labelled(case, of[k])}
<1>1. DOMAIN of \subseteq Nat
  BY CasesAssumption DEF Found
<1>2. Chosen(case, "blind") = of[First(Best(of))]
  BY DEF Chosen, ChosenAmong
<1>3. Chosen(case, "labelled") = of[First(IF told # {} THEN told ELSE Best(of))]
  BY DEF Chosen, ChosenAmong
<1> HIDE DEF of
<1>4. CASE told = {}
  BY <1>2, <1>3, <1>4
<1>5. CASE told # {}
  <2>1. First(told) \in told
    <3>1. told \in SUBSET Nat
      BY <1>1
    <3>2. \E k \in told : \A j \in told : k <= j
      BY <1>5, <3>1, LeastOf
    <3> HIDE DEF told
    <3> QED BY <3>2 DEF First
  <2>2. case.label # None /\ Labelled(case, of[First(told)])
    BY <2>1
  <2>3. Chosen(case, "labelled") = of[First(told)]
    BY <1>3, <1>5
  <2> HIDE DEF told
  <2> QED BY <2>2, <2>3 DEF Labelled, Correct
<1> QED BY <1>4, <1>5

Counts(t) == t.found \in Nat /\ t.correct \in Nat /\ t.false \in Nat

Harder(b, l) == b.found = l.found /\ b.correct <= l.correct /\ l.false <= b.false

LEMMA ResultIsHarder ==
  ASSUME NEW case \in Cases, NEW world
  PROVE  LET b == Result(case, "blind", world)
             l == Result(case, "labelled", world)
         IN Counts(b) /\ Counts(l) /\ Harder(b, l)
<1>1. CASE ~Found(case)
  BY <1>1 DEF Result, Counts, Harder
<1>2. CASE Found(case)
  <2>1. PICK told, blind : told = Chosen(case, "labelled") /\ blind = Chosen(case, "blind")
    OBVIOUS
  <2>2. told = blind \/ Correct(case, told)
    BY <1>2, <2>1, ToldIsRight
  <2>3. PICK b, l : b = Result(case, "blind", world) /\ l = Result(case, "labelled", world)
    OBVIOUS
  <2>4. /\ b.found = 1
        /\ b.correct = IF Correct(case, blind) THEN 1 ELSE 0
        /\ b.false = IF ~Correct(case, blind) /\ blind.kind = 4 THEN 1 ELSE 0
    BY <1>2, <2>1, <2>3 DEF Result, GradedBy, Graded, Count
  <2>5. /\ l.found = 1
        /\ l.correct = IF Correct(case, told) THEN 1 ELSE 0
        /\ l.false = IF ~Correct(case, told) /\ told.kind = 4 THEN 1 ELSE 0
    BY <1>2, <2>1, <2>3 DEF Result, GradedBy, Graded, Count
  <2>6. Counts(b) /\ Counts(l)
    BY <2>4, <2>5 DEF Counts
  <2>7. Harder(b, l)
    BY <2>2, <2>4, <2>5 DEF Harder
  <2> QED BY <2>3, <2>6, <2>7
<1> QED BY <1>1, <1>2

-----------------------------------------------------------------------------
(* A campaign *)

CampaignInv ==
  /\ \A m \in Modes : Counts(tally[m])
  /\ Harder(tally["blind"], tally["labelled"])

\* Over any cases, and however many: being told the labels makes no case wrong
\* that the blind campaign maps right, and adds no false mapping; nor do the
\* reports and what is compiled change what was counted.
THEOREM BlindCampaignIsHarder == ForgeInit /\ [][Campaign]_forgeVars => []BlindIsHarder
<1>1. ForgeInit => CampaignInv
  BY DEF ForgeInit, CampaignInv, Modes, Blank, Counts, Harder
<1>2. CampaignInv /\ [Campaign]_forgeVars => CampaignInv'
  <2> SUFFICES ASSUME CampaignInv, [Campaign]_forgeVars PROVE CampaignInv'
    OBVIOUS
  <2>1. CASE Grade
    <3>1. PICK case \in Cases, world \in World :
            tally' = [m \in Modes |-> Added(tally[m], Result(case, m, world))]
      <4>1. PICK result \in Results : tally' = [m \in Modes |-> Added(tally[m], result[m])]
        BY <2>1 DEF Grade
      <4>2. PICK case \in Cases, world \in World :
              result = [m \in Modes |-> Result(case, m, world)]
        BY DEF Results
      <4> QED BY <4>1, <4>2
    <3>2. /\ tally'["blind"] = Added(tally["blind"], Result(case, "blind", world))
          /\ tally'["labelled"] = Added(tally["labelled"], Result(case, "labelled", world))
      BY <3>1 DEF Modes
    <3>3. /\ Counts(tally["blind"]) /\ Counts(tally["labelled"])
          /\ Harder(tally["blind"], tally["labelled"])
      BY DEF CampaignInv, Modes
    <3>4. /\ Counts(Result(case, "blind", world)) /\ Counts(Result(case, "labelled", world))
          /\ Harder(Result(case, "blind", world), Result(case, "labelled", world))
      BY ResultIsHarder
    <3>5. ASSUME NEW b, NEW l, NEW x, NEW y, Counts(b), Counts(l), Counts(x), Counts(y),
                 Harder(b, l), Harder(x, y)
          PROVE  Counts(Added(b, x)) /\ Counts(Added(l, y)) /\ Harder(Added(b, x), Added(l, y))
      BY <3>5 DEF Counts, Harder, Added
    <3>6. /\ Counts(tally'["blind"]) /\ Counts(tally'["labelled"])
          /\ Harder(tally'["blind"], tally'["labelled"])
      BY <3>2, <3>3, <3>4, <3>5
    <3> QED BY <3>6 DEF CampaignInv, Modes
  <2>2. CASE Report
    BY <2>2 DEF Report, CampaignInv
  <2>3. CASE Close
    BY <2>3 DEF Close, CampaignInv, Modes, Blank, Counts, Harder
  <2>4. CASE UNCHANGED forgeVars
    BY <2>4 DEF forgeVars, CampaignInv
  <2> QED BY <2>1, <2>2, <2>3, <2>4 DEF Campaign
<1>3. CampaignInv => BlindIsHarder
  BY DEF CampaignInv, BlindIsHarder, Harder
<1> QED BY <1>1, <1>2, <1>3, PTL

-----------------------------------------------------------------------------
(* The runs of a profile *)

\* What was said was said of this registry.
ProfileInv ==
  /\ plugins \in {<<>>, <<"external">>, <<"pilot">>, <<"external", "pilot">>}
  /\ document \in Profiles /\ declared \in Declaring
  /\ DOMAIN collected = Lists[document.cap]
  /\ \A i \in DOMAIN collected :
       collected[i] = "accepted" => RunForImplementation(Registry, i) = "ok"
  /\ whole # "none" => whole = RunProfileDoc(Registry, Implementations(Registry))

LEMMA AppendToOne ==
  ASSUME NEW S, NEW x \in S, NEW y \in S
  PROVE  Append(<<x>>, y) = <<x, y>>
<1>1. /\ Append(<<x>>, y) \in Seq(S) /\ Len(Append(<<x>>, y)) = 2
      /\ Append(<<x>>, y)[1] = x /\ Append(<<x>>, y)[2] = y
  <2>1. <<x>> \in Seq(S) /\ Len(<<x>>) = 1 /\ <<x>>[1] = x
    OBVIOUS
  <2> QED BY <2>1, AppendProperties
<1>2. <<x, y>> \in Seq(S) /\ Len(<<x, y>>) = 2 /\ <<x, y>>[1] = x /\ <<x, y>>[2] = y
  OBVIOUS
<1>3. \A k \in 1 .. 2 : Append(<<x>>, y)[k] = <<x, y>>[k]
  BY <1>1, <1>2
<1> QED BY <1>1, <1>2, <1>3, SeqEqual

\* Whoever has registered, every command builds the same registry.
LEMMA TableIsFixed ==
  ASSUME plugins \in {<<>>, <<"external">>, <<"pilot">>, <<"external", "pilot">>}
  PROVE  /\ Table \in {<<"pilot">>, <<"external", "pilot">>}
         /\ Registers("pilot", Table) = Table
<1>1. ASSUME NEW table, table \in {<<"pilot">>, <<"external", "pilot">>}
      PROVE  Registers("pilot", table) = table
  <2>1. CASE table = <<"pilot">>
    <3>1. 1 \in DOMAIN table /\ table[1] = "pilot"
      BY <2>1
    <3> QED BY <3>1 DEF Registers
  <2>2. CASE table = <<"external", "pilot">>
    <3>1. 2 \in DOMAIN table /\ table[2] = "pilot"
      BY <2>2
    <3> QED BY <3>1 DEF Registers
  <2> QED BY <1>1, <2>1, <2>2
<1>2. CASE plugins = <<>>
  <2>1. ~ \E i \in DOMAIN plugins : plugins[i] = "pilot"
    BY <1>2
  <2>2. Append(<<>>, "pilot") = <<"pilot">>
    OBVIOUS
  <2> QED BY <1>1, <1>2, <2>1, <2>2 DEF Table, Registers
<1>3. CASE plugins = <<"external">>
  <2>1. DOMAIN plugins = {1} /\ plugins[1] = "external"
    BY <1>3
  <2>2. ~ \E i \in DOMAIN plugins : plugins[i] = "pilot"
    BY <2>1
  <2>3. Append(<<"external">>, "pilot") = <<"external", "pilot">>
    <3>1. "external" \in {"external", "pilot"} /\ "pilot" \in {"external", "pilot"}
      OBVIOUS
    <3> QED BY <3>1, AppendToOne
  <2>4. Table = <<"external", "pilot">>
    BY <1>3, <2>2, <2>3 DEF Table, Registers
  <2> QED BY <1>1, <2>4
<1>4. CASE plugins \in {<<"pilot">>, <<"external", "pilot">>}
  BY <1>1, <1>4 DEF Table
<1> QED BY <1>2, <1>3, <1>4

LEMMA ProfileInit == SuitesInit => ProfileInv
  BY DEF SuitesInit, ProfileInv

LEMMA ProfileNext == ProfileInv /\ [SuitesNext]_suiteVars => ProfileInv'
<1> SUFFICES ASSUME ProfileInv, [SuitesNext]_suiteVars PROVE ProfileInv'
  OBVIOUS
\* The registry stays as it is, and with it everything that was said of it.
<1>1. ASSUME plugins' = Table \/ plugins' = plugins, Given
      PROVE  /\ plugins' \in {<<>>, <<"external">>, <<"pilot">>, <<"external", "pilot">>}
             /\ Registry' = Registry
             /\ Implementations(Registry)' = Implementations(Registry)
             /\ \A impls : RunProfileDoc(Registry, impls)' = RunProfileDoc(Registry, impls)
             /\ \A i : RunForImplementation(Registry, i)' = RunForImplementation(Registry, i)
             /\ document' \in Profiles /\ declared' \in Declaring
  <2>0. plugins \in {<<>>, <<"external">>, <<"pilot">>, <<"external", "pilot">>}
    BY DEF ProfileInv
  <2>1. Table \in {<<"pilot">>, <<"external", "pilot">>} /\ Registers("pilot", Table) = Table
    BY <2>0, TableIsFixed
  <2>2. Table' = Table
    <3>1. CASE plugins' = Table
      BY <2>1, <3>1 DEF Table
    <3>2. CASE plugins' = plugins
      BY <3>2 DEF Table
    <3> QED BY <1>1, <3>1, <3>2
  <2>3. Registry' = Registry
    BY <2>2 DEF Registry
  <2>4. behaves' = behaves /\ document' = document /\ declared' = declared
    BY <1>1 DEF Given
  <2>5. Implementations(Registry)' = Implementations(Registry)
    BY <2>3, <2>4 DEF Implementations
  <2>6. \A cap, i, input : Transform(Registry, cap, i, input)' = Transform(Registry, cap, i, input)
    BY <2>3, <2>4 DEF Transform
  <2>7. ASSUME NEW impls
        PROVE  RunProfileDoc(Registry, impls)' = RunProfileDoc(Registry, impls)
    <3>1. \A v : Equal(Registry, impls, v)' = Equal(Registry, impls, v)
      <4>1. ASSUME NEW v
            PROVE  EqualOf(Registry, impls, v)' = EqualOf(Registry, impls, v)
        <5>1. \A i : Transform(Registry, document.cap, i, v.input)' =
                     Transform(Registry, document.cap, i, v.input)
          BY <2>4, <2>6
        <5> DEFINE ok == {j \in impls : Transform(Registry, document.cap, j, v.input).ok}
                   out == [i \in ok |-> Transform(Registry, document.cap, i, v.input).out]
        <5>2. ok' = ok
          BY <5>1
        <5> HIDE DEF ok
        <5>3. out' = out
          BY <5>1, <5>2
        <5> DEFINE Agree(o) == \A i \in DOMAIN o : o[i] = o[Min(DOMAIN o)]
        <5>4. /\ EqualOf(Registry, impls, v) = Agree(out)
              /\ EqualOf(Registry, impls, v)' = Agree(out')
          BY DEF EqualOf, ok
        <5> HIDE DEF out, Agree
        <5> QED BY <5>3, <5>4
      <4> QED BY <4>1 DEF Equal
    <3>2. \A v, i : PositiveOk(Registry, v, i)' = PositiveOk(Registry, v, i)
      BY <2>4, <2>6 DEF PositiveOk
    <3>3. \A v, i : NegativeOk(Registry, v, i)' = NegativeOk(Registry, v, i)
      BY <2>4, <2>6 DEF NegativeOk
    <3> QED BY <2>4, <3>1, <3>2, <3>3 DEF RunProfileDoc
  <2>8. ASSUME NEW i
        PROVE  RunForImplementation(Registry, i)' = RunForImplementation(Registry, i)
    BY <2>5, <2>7 DEF RunForImplementation
  <2>9. plugins' \in {<<>>, <<"external">>, <<"pilot">>, <<"external", "pilot">>}
    BY <1>1, <2>0, <2>1
  <2> QED BY <2>3, <2>4, <2>5, <2>7, <2>8, <2>9 DEF ProfileInv
<1>2. ASSUME NEW impl \in DOMAIN collected, Collect(impl) PROVE ProfileInv'
  <2>1. /\ plugins' = Table /\ Given /\ whole' = whole
        /\ collected' = [collected EXCEPT ![impl] =
             IF RunForImplementation(Registry, impl) = "ok" THEN "accepted" ELSE "refused"]
    BY <1>2 DEF Collect
  <2> QED BY <1>1, <2>1 DEF ProfileInv, Given
<1>3. CASE RunProfile
  <2>1. /\ plugins' = Table /\ Given /\ collected' = collected
        /\ whole' = RunProfileDoc(Registry, Implementations(Registry))
    BY <1>3 DEF RunProfile
  <2> QED BY <1>1, <2>1 DEF ProfileInv, Given
<1>4. CASE Others
  <2>1. plugins' = Table /\ Given /\ collected' = collected /\ whole' = whole
    BY <1>4 DEF Others
  <2> QED BY <1>1, <2>1 DEF ProfileInv, Given
<1>5. CASE UNCHANGED suiteVars
  <2>1. plugins' = plugins /\ Given /\ collected' = collected /\ whole' = whole
    BY <1>5 DEF suiteVars, Given
  <2> QED BY <1>1, <2>1 DEF ProfileInv, Given
<1> QED BY <1>2, <1>3, <1>4, <1>5 DEF SuitesNext

\* What the run of one implementation shows of it.
LEMMA AcceptedPasses ==
  ASSUME NEW reg, NEW impl, RunForImplementation(reg, impl) = "ok"
  PROVE  /\ impl \in Implementations(reg)
         /\ \A v \in document.vectors : PositiveOk(reg, v, impl)
         /\ \A v \in document.negatives : NegativeOk(reg, v, impl)
         /\ \A v \in document.vectors \cup document.negatives : v.input # Malformed
<1>1. impl \in Implementations(reg) /\ RunProfileDoc(reg, {impl}) = "ok"
  BY DEF RunForImplementation
<1>2. ~ \E v \in document.vectors \cup document.negatives : v.input = Malformed
  BY <1>1 DEF RunProfileDoc
<1>3. /\ \A v \in document.vectors : \A i \in {impl} : PositiveOk(reg, v, i)
      /\ \A v \in document.negatives, i \in {impl} : NegativeOk(reg, v, i)
  BY <1>1, <1>2 DEF RunProfileDoc
<1> QED BY <1>1, <1>2, <1>3

\* Where nothing says what the output is, agreement with the first is agreement
\* of every two.
LEMMA AgreementIsPairwise ==
  ASSUME NEW impls \in SUBSET Nat, impls # {}, NEW v,
         \A i \in impls : Transform(Registry, document.cap, i, v.input).ok
  PROVE  EqualOf(Registry, impls, v) <=> \A i, j \in impls : Same(i, j, v.input)
<1> DEFINE t(i) == Transform(Registry, document.cap, i, v.input)
           least == Min(impls)
<1>1. least \in impls
  <2>1. \E k \in impls : \A j \in impls : k <= j
    BY LeastOf
  <2> QED BY <2>1 DEF Min
<1>2. EqualOf(Registry, impls, v) <=> \A i \in impls : t(i).out = t(least).out
  <2>1. {j \in impls : t(j).ok} = impls
    OBVIOUS
  <2> HIDE DEF least
  <2>2. PICK out : out = [i \in impls |-> t(i).out]
    OBVIOUS
  <2>3. DOMAIN out = impls /\ \A i \in impls : out[i] = t(i).out
    BY <2>2
  <2>4. EqualOf(Registry, impls, v) <=> \A i \in DOMAIN out : out[i] = out[Min(DOMAIN out)]
    BY <2>1, <2>2 DEF EqualOf
  <2>5. Min(DOMAIN out) = least
    BY <2>3 DEF least
  <2> QED BY <1>1, <2>3, <2>4, <2>5
<1>3. \A i, j \in impls : Same(i, j, v.input) <=> t(i).out = t(j).out
  BY DEF Same
<1> HIDE DEF t, least
<1> QED BY <1>1, <1>2, <1>3

LEMMA ProfileShows == ProfileInv => AcceptedStandForEachOther
<1> SUFFICES ASSUME ProfileInv PROVE AcceptedStandForEachOther
  OBVIOUS
<1> DEFINE accepted == {i \in DOMAIN collected : collected[i] = "accepted"}
           undecided == {v \in document.vectors : v.expectOk /\ ~ Usable(v)}
           t(i, v) == Transform(Registry, document.cap, i, v.input)
<1>1. ASSUME NEW i \in accepted
      PROVE  /\ i \in Implementations(Registry)
             /\ \A v \in document.vectors : PositiveOk(Registry, v, i)
             /\ \A v \in document.negatives : NegativeOk(Registry, v, i)
             /\ \A v \in document.vectors \cup document.negatives : v.input # Malformed
  <2>1. RunForImplementation(Registry, i) = "ok"
    BY DEF ProfileInv
  <2> QED BY <2>1, AcceptedPasses
<1>2. ASSUME NEW i \in accepted, NEW j \in accepted,
             NEW v \in (document.vectors \ undecided) \cup document.negatives
      PROVE  Same(i, j, v.input)
  <2>1. CASE v \in document.negatives
    <3>1. ~t(i, v).ok /\ ~t(j, v).ok
      BY <1>1, <2>1 DEF NegativeOk
    <3> QED BY <3>1 DEF Same
  <2>2. CASE v \in document.vectors \ undecided
    <3>1. PositiveOk(Registry, v, i) /\ PositiveOk(Registry, v, j)
      BY <1>1, <2>2
    <3>2. CASE v.expectOk
      <4>1. Usable(v)
        BY <2>2, <3>2
      <4>2. t(i, v).ok /\ t(j, v).ok /\ t(i, v).out = v.golden /\ t(j, v).out = v.golden
        BY <3>1, <3>2, <4>1 DEF PositiveOk
      <4> QED BY <4>2 DEF Same
    <3>3. CASE ~v.expectOk
      <4>1. ~t(i, v).ok /\ ~t(j, v).ok
        BY <3>1, <3>3 DEF PositiveOk
      <4> QED BY <4>1 DEF Same
    <3> QED BY <3>2, <3>3
  <2> QED BY <2>1, <2>2
<1>3. ASSUME accepted # {}, accepted = declared \cap DOMAIN collected, whole # "none"
      PROVE  whole = "ok" <=> \A i, j \in accepted, v \in undecided : Same(i, j, v.input)
  \* The run over all of them is over those that were accepted.
  <2>1. Implementations(Registry) = accepted /\ accepted \in SUBSET Nat
    <3>1. /\ document \in Profiles /\ declared \in Declaring
          /\ DOMAIN collected = Lists[document.cap] /\ Table \in Tables
      BY TableIsFixed DEF ProfileInv, Tables
    <3>2. /\ declared \subseteq Nat
          /\ \A i \in declared : Resolve(Registry, document.cap, i) # Nil
                                   => i \in DOMAIN collected
      BY <3>1, ListedAssumption DEF Registry
    <3>3. Implementations(Registry) \subseteq accepted
      BY <1>3, <3>2 DEF Implementations
    <3>4. accepted \subseteq Implementations(Registry)
      BY <1>1
    <3> HIDE DEF accepted
    <3> QED BY <1>3, <3>2, <3>3, <3>4
  <2>2. whole = RunProfileDoc(Registry, accepted)
    BY <1>3, <2>1 DEF ProfileInv
  <2>3. ~ \E v \in document.vectors \cup document.negatives : v.input = Malformed
    BY <1>1, <1>3
  <2> HIDE DEF accepted, undecided
  <2>4. whole = "ok" <=>
          /\ \A v \in document.vectors :
               /\ Equal(Registry, accepted, v)
               /\ \A i \in accepted : PositiveOk(Registry, v, i)
          /\ \A v \in document.negatives, i \in accepted : NegativeOk(Registry, v, i)
    BY <1>3, <2>2, <2>3 DEF RunProfileDoc
  <2>5. whole = "ok" <=> \A v \in document.vectors : Equal(Registry, accepted, v)
    BY <1>1, <2>4
  <2>6. whole = "ok" <=> \A v \in undecided : EqualOf(Registry, accepted, v)
    BY <2>5 DEF Equal, undecided
  <2>7. ASSUME NEW v \in undecided
        PROVE  EqualOf(Registry, accepted, v) <=> \A i, j \in accepted : Same(i, j, v.input)
    <3>1. v \in document.vectors /\ v.expectOk
      BY DEF undecided
    <3>2. \A i \in accepted : Transform(Registry, document.cap, i, v.input).ok
      BY <1>1, <3>1 DEF PositiveOk
    <3> QED BY <1>3, <2>1, <3>2, AgreementIsPairwise
  <2> QED BY <2>6, <2>7
<1> QED BY <1>2, <1>3 DEF AcceptedStandForEachOther

\* Whatever the implementations do, whatever the profile says, and in whatever
\* order the commands run: two that were each accepted on its own give the same
\* output for every golden and a failure for every negative, and the run over
\* all of them, once all are accepted, says nothing more than whether they agree
\* where there is no golden.
THEOREM AcceptedAgree ==
  SuitesInit /\ [][SuitesNext]_suiteVars => []AcceptedStandForEachOther
<1> QED BY ProfileInit, ProfileNext, ProfileShows, PTL
=============================================================================
