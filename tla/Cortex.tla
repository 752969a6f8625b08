------------------------------- MODULE Cortex -------------------------------
(***************************************************************************)
(* Intents turned into patches (wvx-cortex), composed with the session the *)
(* patches are meant for. An intent is the set of the words it contains;   *)
(* the language model may answer with any list of operations.              *)
(***************************************************************************)
EXTENDS Proposals

CONSTANTS
  Node,      \* the recipe's nodes that intents speak of, by name
  Intents,   \* the intents that are asked
  Givens,    \* the contracts the registry knows, when there is one
  Key,       \* is there a key for the language model?
  AskBound   \* bound: nothing is asked from this revision on

\* Rules, in the order in which they are tried; one fires when the intent has
\* all the words of one of its sets. "install" stands for seven verbs.
Rules ==
  << [says |-> {{"pilot", "install"}, {"finish the pipeline"}}, does |-> "propose"],
     [says |-> {{"pretty", "serial"}, {"pretty", "print"}},
      does |-> "select", node |-> "serialize", choice |-> "json-serialize-pretty"],
     [says |-> {{"compact", "serial"}},
      does |-> "select", node |-> "serialize", choice |-> "serde-json.serialize"],
     [says |-> {{"json-crate"}},
      does |-> "select", node |-> "parse", choice |-> "json-crate.parse"],
     [says |-> {{"reference", "parse"}},
      does |-> "select", node |-> "parse", choice |-> "reference.json-parse"],
     [says |-> {{"serde", "parse"}},
      does |-> "select", node |-> "parse", choice |-> "serde-json.parse-owned"],
     [says |-> {{"pointer", "path"}, {"pointer", "set"}},
      does |-> "select", node |-> "path_set", choice |-> "serde-json.pointer-set"],
     [says |-> {{"reference", "path"}, {"map-insert"}},
      does |-> "select", node |-> "path_set", choice |-> "reference.path-set"],
     [says |-> {{"tag", "loom"}, {"tag", "path"}}, does |-> "tag"] >>

Offered == {Rules[r].choice : r \in {k \in DOMAIN Rules : Rules[k].does = "select"}}

ASSUME CortexAssumption ==
  /\ Offered \subseteq Implementation
  /\ Node \in [{"parse", "path_set", "serialize"} -> {Recipe[k] : k \in DOMAIN Recipe}]
  /\ Givens \subseteq SUBSET Capability

Fires(rule, intent) == \E words \in rule.says : words \subseteq intent

-----------------------------------------------------------------------------
Answer(ops, unresolved) == [ops |-> ops, unresolved |-> unresolved]
Proposal(p, given) == Answer(Propose(p, given), TRUE)

Setting1(id, setting) == <<[op |-> "set_setting", id |-> id, setting |-> setting]>>

\* select_impl_patch takes the first instance that has the id or the capability;
\* the order of instances is not kept, so it may be any. An instance that only
\* has the id gets the implementation of a capability that is not its own.
Select(p, rule) ==
  LET node == Node[rule.node]
      found == {i \in Instances(p) : i = node.id \/ p.instances[i].capability = node.capability}
  IN IF found = {} THEN {Answer(<<>>, TRUE)}
     ELSE {Answer(Setting1(i, [p.instances[i].setting EXCEPT !.implementation = rule.choice]),
                  FALSE) : i \in found}

\* The whole config is replaced, whatever else it has.
Tag(p, given) ==
  LET i == Node["path_set"].id IN
  IF i \in Instances(p)
    THEN Answer(Setting1(i, [p.instances[i].setting EXCEPT
                               !.config = [path |-> "text", value |-> TRUE]]), FALSE)
    ELSE Proposal(p, given)

\* heuristic_propose: the answers of the first rule that fires, or none.
Heuristic(p, intent, given) ==
  LET fires == {r \in DOMAIN Rules : Fires(Rules[r], intent)} IN
  IF fires = {} THEN {}
  ELSE LET rule == Rules[CHOOSE r \in fires : \A s \in fires : r <= s] IN
       CASE rule.does = "propose" -> {Proposal(p, given)}
         [] rule.does = "select" -> Select(p, rule)
         [] rule.does = "tag" -> {Tag(p, given)}

\* llm_propose and parse_patch_json: what the model says is a patch like any
\* other, or an error.
FromModel == {Answer(ops, unresolved) : ops \in Patches, unresolved \in BOOLEAN}

\* propose_from_intent. The rule for offline use after these two is never
\* reached: it asks again what the first heuristic has asked.
Answers(p, intent, given) ==
  CASE intent = {} -> {}
    [] intent # {} /\ Heuristic(p, intent, given) # {} -> Heuristic(p, intent, given)
    [] OTHER -> IF Key THEN FromModel ELSE {}

\* The dry run: a patch that fails it is returned all the same, with one thing
\* more that is unresolved.
DryRunOk(p, ops) == Applies(p, ops) /\ Valid(ApplyOps(p, ops))

\* A client asks for its patch; no answer names a base, so that it fits every
\* document. The session is as it was.
Ask(q) ==
  /\ doc.revision < AskBound
  /\ \E intent \in Intents, given \in Givens :
       \E answer \in Answers(doc.graph, intent, given) :
         waiting' = [waiting EXCEPT ![q] =
           [patch |-> [ops |-> answer.ops, base |-> None,
                       unresolved |-> answer.unresolved \/ ~DryRunOk(doc.graph, answer.ops)],
            reviewed |-> IF Applies(doc.graph, answer.ops)
                           THEN ApplyOps(doc.graph, answer.ops) ELSE doc.graph]]
  /\ UNCHANGED <<doc, last>>

CortexNext == Next \/ \E q \in Proposer : Ask(q)
CortexSpec == Init /\ [][CortexNext]_vars

-----------------------------------------------------------------------------
(* Properties *)

\* A proposal made for a document that patches have changed in any way applies
\* to it unless a contract is unknown or an id is taken; what it makes has the
\* whole pipeline and everything the document had, and is not proposed again:
\* a client that asks, applies and asks again is done (patch.rs:317-325).
ProposalIsComplete ==
  \A given \in Givens :
    LET ops == Propose(doc.graph, given) IN
    /\ ~Hindered(doc.graph, given) => Applies(doc.graph, ops)
    /\ Applies(doc.graph, ops) =>
         LET made == ApplyOps(doc.graph, ops) IN
         /\ Keeps(doc.graph, made)
         /\ Reached(doc.graph, made, given)
         /\ Applies(made, Propose(made, given))
         /\ ApplyOps(made, Propose(made, given)) = made
=============================================================================
