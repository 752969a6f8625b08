---------------------------- MODULE MCGraphPatch ----------------------------
(***************************************************************************)
(* Sessions over two instance ids, that start with an empty document or    *)
(* with a source that feeds a filter; the source and the filter are also   *)
(* the recipe of proposals.                                                *)
(***************************************************************************)
EXTENDS Cortex, TLC

CONSTANTS source, filter, q1, q2

MCProposer == {q1, q2}
MCSymmetry == Permutations(MCProposer)
MCId == {1, 2}
MCCapability == {source, filter}
MCPort == {"a", "o"}
MCImplementation == Offered
MCSetting == Settings
bare == [implementation |-> None, config |-> [path |-> "none", value |-> FALSE]]
unset == [bare EXCEPT !.config.path = "other"]
set == [implementation |-> "reference.path-set", config |-> [path |-> "text", value |-> TRUE]]
MCSignature ==
  (source :> [inputs |-> {}, required |-> {}, outputs |-> {"o"}]) @@
  (filter :> [inputs |-> {"a"}, required |-> {"a"}, outputs |-> {"o"}])
MCAccepted == {<<source, s>> : s \in Settings} \cup
              {<<filter, s>> : s \in {t \in Settings : t.config.value}}

Out(i) == [instance |-> i, port |-> "o"]
In(i) == [instance |-> i, port |-> "a"]

EmptyDocument ==
  [instances |-> [i \in {} |-> {}], capabilities |-> {}, bindings |-> {},
   entrypoint |-> NoInstance]
Pipeline ==
  [instances |-> (1 :> [capability |-> source, setting |-> bare]) @@
                 (2 :> [capability |-> filter, setting |-> set]),
   capabilities |-> MCCapability,
   bindings |-> {[from |-> Out(1), to |-> In(2)]},
   entrypoint |-> 1]
MCInitial == {EmptyDocument, Pipeline}

Put(i, c, setting, contract) ==
  [op |-> "add_instance", id |-> i, capability |-> c, setting |-> setting,
   contract |-> contract]
Drop(i) == [op |-> "remove_instance", id |-> i]
Wire(verb, from, to) == [op |-> verb, from |-> from, to |-> to]
Entry(i) == [op |-> "set_entrypoint", id |-> i]

\* Every operation, among them an instance that comes with the contract of
\* another capability, a connection of two outputs and one of an instance to
\* itself, and lists whose last operation may fail.
MCPatches ==
  {<<>>,
   <<Put(1, source, bare, source)>>,
   <<Put(2, filter, set, None)>>,
   <<Put(2, filter, set, source)>>,
   <<Drop(1)>>, <<Drop(2)>>,
   <<Wire("connect", Out(1), In(2))>>, <<Wire("disconnect", Out(1), In(2))>>,
   <<Wire("connect", Out(2), In(2))>>, <<Wire("connect", Out(1), Out(2))>>,
   <<[op |-> "set_setting", id |-> 2, setting |-> unset]>>,
   <<Entry(2)>>, <<Entry(NoInstance)>>,
   <<Drop(1), Put(1, filter, set, None)>>,
   <<Put(2, filter, set, filter), Wire("connect", Out(1), In(2)), Entry(1)>>}

MCRecipe == <<[id |-> 1, capability |-> source, setting |-> bare],
              [id |-> 2, capability |-> filter, setting |-> set]>>
MCEdges == {[from |-> Out(1), to |-> In(2)]}
MCPilot == MCCapability
MCNode == [n \in {"parse", "path_set", "serialize"} |-> MCRecipe[2]]
MCIntents == {{"pilot", "install"}, {"tag", "loom"}, {"json-crate", "parse"}, {"reference"}}
MCGivens == {{}, {filter}}
=============================================================================
