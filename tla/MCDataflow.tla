----------------------------- MODULE MCDataflow -----------------------------
(***************************************************************************)
(* Documents of up to three instances, with every way of feeding each of   *)
(* their inputs from one output, their own among them, or from none, and   *)
(* pipelines from bytes to bytes with one or two transforms and sinks.     *)
(* One of them, once ordered, is compiled and written by several exports.  *)
(***************************************************************************)
EXTENDS Emit, ExportDirectory, TLC

CONSTANTS source, join, input, hash, output, e1, e2

MCId == 1 .. 4
MCGraphs == {source, join}
MCCapability == MCGraphs \cup {input, hash, output}
MCPort == {"a", "b", "o", "q"}
MCSetting == {"default", "plain"}
MCAccepted == MCCapability \X MCSetting
MCSignature ==
  (source :> [inputs |-> {}, required |-> {}, outputs |-> {"o", "q"}]) @@
  (join :> [inputs |-> {"a", "b"}, required |-> {"a"}, outputs |-> {"o"}]) @@
  (input :> [inputs |-> {}, required |-> {}, outputs |-> {"b"}]) @@
  (hash :> [inputs |-> {"b"}, required |-> {"b"}, outputs |-> {"o"}]) @@
  (output :> [inputs |-> {"b"}, required |-> {"b"}, outputs |-> {}])
MCTemplated == {join, hash} \X {"default"}
MCStreamable == {<<hash, "default">>}

\* Every port has a name of its own; or the ids 1 and 3 are "a-b" and "a_b".
MCRenderings ==
  {[path \in PortPath |-> <<path.instance, path.port>>],
   [path \in PortPath |-> <<IF path.instance = 3 THEN 1 ELSE path.instance, path.port>>]}

Bound(caps, feed) ==
  [instances |-> [i \in DOMAIN caps |-> [capability |-> caps[i], setting |-> "default"]],
   capabilities |-> MCCapability, entrypoint |-> NoInstance,
   bindings |-> {[from |-> feed[i], to |-> i] : i \in {j \in DOMAIN feed : feed[j] # NoInstance}}]

Slots(caps, ports) ==
  UNION {{[instance |-> i, port |-> q] : q \in ports[caps[i]]} : i \in DOMAIN caps}

Fed(caps) ==
  LET inputs == Slots(caps, [c \in MCCapability |-> MCSignature[c].inputs])
      outputs == Slots(caps, [c \in MCCapability |-> MCSignature[c].outputs])
  IN {Bound(caps, feed) : feed \in [inputs -> outputs \cup {NoInstance}]}

MCPipelines ==
  {<<input, hash, output>>, <<output, hash, input>>, <<output, input>>,
   <<input, join, output>>, <<hash, hash, input, output>>,
   <<output, input, output, hash>>}

\* One document selects an implementation that has no template.
MCPlain(p) == [p EXCEPT !.instances[2].setting = "plain"]

MCDocuments ==
  UNION {Fed(caps) : caps \in UNION {[1 .. n -> MCGraphs] : n \in 1 .. 3} \cup MCPipelines}
    \cup {MCPlain(p) : p \in Fed(<<input, hash, output>>)}

\* The pipeline that is exported, in a directory with or without a file of
\* the user; while it is, nothing runs.
MCExported ==
  CHOOSE p \in Fed(<<input, hash, output>>) : Cardinality(p.bindings) = 2 /\ PassesOk(p)
Exportable ==
  /\ project = MCExported
  /\ AtCompile /\ Emits(project, listed)
  /\ \A path \in PortPath : value[path] = "none"

MCInit == Init /\ ExportInit /\ (there => project = MCExported)
MCNext ==
  \/ (\A e \in Exports : at[e] = "start") /\ Next /\ UNCHANGED exportVars
  \/ Exportable /\ ExportNext /\ UNCHANGED vars
  \/ (\A e \in Exports : at[e] \in Ends) /\ UNCHANGED <<vars, exportVars>>
MCSpec == MCInit /\ [][MCNext]_<<vars, exportVars>>
MCExportSymmetry == Permutations({e1, e2})
=============================================================================
