----------------------------- MODULE Proposals -----------------------------
(***************************************************************************)
(* The pilot pipeline as a patch relative to a document (wvx-project-graph, *)
(* patch.rs): what is already there is skipped, what is missing is added,  *)
(* connected and configured.                                               *)
(*                                                                         *)
(* Here the setting of an instance has its two parts, the implementation   *)
(* and the config; of a config only the two keys of path_set are kept, and *)
(* of its path whether it is a string.                                     *)
(***************************************************************************)
EXTENDS GraphPatch

CONSTANTS
  Implementation,
  Recipe,   \* the nodes of the pipeline, in the order they are proposed
  Edges,    \* its bindings
  Pilot     \* the capabilities whose contracts are built in

Config == [path : {"none", "text", "other"}, value : BOOLEAN]
Settings == [implementation : Implementation \cup {None}, config : Config]

NodeIds == {Recipe[k].id : k \in DOMAIN Recipe}
Start == Recipe[1].id

\* A port of a node, by the contract of its capability.
OfRecipe(path) ==
  \E k \in DOMAIN Recipe :
    LET contract == Signature[Recipe[k].capability] IN
    /\ path.instance = Recipe[k].id
    /\ path.port \in contract.inputs \cup contract.outputs

ASSUME RecipeAssumption ==
  /\ Setting = Settings
  /\ Recipe \in Seq([id : Id, capability : Capability, setting : Settings]) \ {<<>>}
  /\ \A j, k \in DOMAIN Recipe : Recipe[j].id = Recipe[k].id => j = k
  /\ \A k \in DOMAIN Recipe :
       Recipe[k].setting.config.path = "text" => Recipe[k].setting.config.value
  /\ IsFiniteSet(Edges) /\ Edges \subseteq Binding
  /\ \A e \in Edges : e.from # e.to /\ OfRecipe(e.from) /\ OfRecipe(e.to)
  /\ Pilot \subseteq Capability

-----------------------------------------------------------------------------
\* The contracts a proposal can bring along: those it is given or, given none,
\* those of the document and the built-in ones. The document's are the last
\* resort in either case.
Known(p, given) == p.capabilities \cup (IF given = {} THEN Pilot ELSE given)
ContractFor(p, given, c) == IF c \in Known(p, given) THEN c ELSE None

\* What is absent is filled in and what is there is kept, a path that is not a
\* string included. Only path_set, the node of the recipe with a config, has its
\* config looked at.
Filled(node, s) ==
  LET wants == node.setting.config.path = "text"
      lacks == s.config.path # "text" \/ ~s.config.value IN
  [implementation |-> IF s.implementation = None THEN node.setting.implementation
                      ELSE s.implementation,
   config |-> IF wants /\ lacks
                THEN [path |-> IF s.config.path = "none" THEN "text" ELSE s.config.path,
                      value |-> TRUE]
                ELSE s.config]

\* The code emits the operation even when a path that is not a string keeps it
\* from changing anything.
Unset(node, s) ==
  \/ s.implementation = None /\ node.setting.implementation # None
  \/ node.setting.config.path = "text" /\ (s.config.path # "text" \/ ~s.config.value)

Conflicts(p, node) ==
  node.id \in Instances(p) /\ p.instances[node.id].capability # node.capability

\* Mutant: a node is added whether or not its id is taken.
NodeOpsAlways(p, given, node) ==
  <<[op |-> "add_instance", id |-> node.id, capability |-> node.capability,
     setting |-> node.setting, contract |-> ContractFor(p, given, node.capability)]>>

\* SelectImplementation and SetConfig are one operation here.
NodeOps(p, given, node) ==
  CASE node.id \notin Instances(p) ->
         <<[op |-> "add_instance", id |-> node.id, capability |-> node.capability,
            setting |-> node.setting,
            contract |-> ContractFor(p, given, node.capability)]>>
    [] Conflicts(p, node) -> <<>>
    [] OTHER -> LET s == p.instances[node.id].setting IN
         IF Unset(node, s)
           THEN <<[op |-> "set_setting", id |-> node.id, setting |-> Filled(node, s)]>>
           ELSE <<>>

\* Mutant: bindings that are already made are proposed again.
MissingEdgesAll(p) == SetToSeq(Edges)

\* A binding is proposed even to an instance that is not of the recipe and only
\* has the id of one of its nodes.
MissingEdges(p) == SetToSeq(Edges \ p.bindings)

EntrypointOps(p) ==
  IF p.entrypoint = Start THEN <<>> ELSE <<[op |-> "set_entrypoint", id |-> Start]>>

\* propose_json_pipeline_patch_relative. Something always stays unresolved, a
\* conflict or the choice of implementations, and no base is named.
Propose(p, given) ==
  FlattenSeq([k \in DOMAIN Recipe |-> NodeOps(p, given, Recipe[k])])
    \o [k \in DOMAIN MissingEdges(p) |->
         [op |-> "connect", from |-> MissingEdges(p)[k].from, to |-> MissingEdges(p)[k].to]]
    \o EntrypointOps(p)

-----------------------------------------------------------------------------
(* What a proposal promises *)

\* Nothing a document has is lost.
Keeps(p, q) ==
  /\ p.capabilities \subseteq q.capabilities
  /\ p.bindings \subseteq q.bindings
  /\ \A i \in Instances(p) : /\ i \in Instances(q)
                             /\ q.instances[i].capability = p.instances[i].capability
                             /\ i \notin NodeIds => q.instances[i] = p.instances[i]

\* Every node is there, unless its id is taken, and with the implementation and
\* the config that were missing; a path that is no string is the exception, for
\* which the same operation is proposed for ever.
Reached(p, q, given) ==
  /\ NodeIds \subseteq Instances(q)
  /\ Edges \subseteq q.bindings
  /\ q.entrypoint = Start
  /\ \A k \in DOMAIN Recipe : ~Conflicts(p, Recipe[k]) =>
       /\ ~Conflicts(q, Recipe[k])
       /\ q.instances[Recipe[k].id].setting.config.path # "other" =>
            ~Unset(Recipe[k], q.instances[Recipe[k].id].setting)

\* The reasons for which a proposal may not apply to the very document it was
\* made for: a contract that nobody knows, and an instance that has the id of a
\* node but not the port of its binding.
Hindered(p, given) ==
  \/ \E k \in DOMAIN Recipe : /\ Recipe[k].id \notin Instances(p)
                              /\ Recipe[k].capability \notin Known(p, given)
  \/ \E k \in DOMAIN Recipe : Conflicts(p, Recipe[k])
=============================================================================
